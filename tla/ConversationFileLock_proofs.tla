--------------------- MODULE ConversationFileLock_proofs ---------------------
(***************************************************************************)
(* Proofs about ConversationFileLock for any number of processes, files    *)
(* and polls: its types, that no lock outlives its holder, and the mutual  *)
(* exclusion the flock gives while the lock file is in place.              *)
(***************************************************************************)
EXTENDS ConversationFileLock, TLAPS

-----------------------------------------------------------------------------
(* The inductive invariant.                                                *)

\* Places in which a process has a file open, has its flock, has a path.
WithFile == {"flock", "held", "probe", "probed"}
WithLock == {"held", "probed"}
WithPath == {"open", "flock", "held", "unlink"}

\* A descriptor is open exactly where the code is between open and close.
OpenFiles == \A p \in Processes : at[p] \in WithFile <=> file[p] # NoFile

\* Whoever believes to have a flock has it.
LocksHeld == \A p \in Processes : at[p] \in WithLock => owner[file[p]] = p

PathsKnown == \A p \in Processes : at[p] \in WithPath => path[p] \in Paths

LockInv ==
  /\ TypeOK
  /\ OpenFiles
  /\ LocksHeld
  /\ PathsKnown
  /\ NoStrayLock

-----------------------------------------------------------------------------
\* Leaving a place keeps the locals that the next one still needs.
LEMMA LocalsTyped ==
  ASSUME TypeOK, NEW p \in Processes, NEW place \in Places \ {"open"}, Locals(p, place),
         PathsKnown, at[p] \in WithPath \/ place \notin WithPath
  PROVE  /\ path' \in [Processes -> Paths \cup {NoPath}]
         /\ polls' \in [Processes -> 0 .. MaxPolls + 1]
         /\ \A q \in Processes : q # p => path'[q] = path[q]
         /\ place \in WithPath => path'[p] \in Paths
BY LockConstants DEF TypeOK, Locals, PathsKnown, WithPath, Places

\* Closing a descriptor takes nothing from another process.
LEMMA ClosedEffect ==
  ASSUME LockInv, NEW p \in Processes, Closed(p)
  PROVE  /\ file' \in [Processes -> Files \cup {NoFile}]
         /\ file'[p] = NoFile
         /\ \A q \in Processes : q # p => file'[q] = file[q]
         /\ owner' \in [Files -> Processes \cup {NoProcess}]
         /\ \A f \in Files : owner'[f] = IF owner[f] = p THEN NoProcess ELSE owner[f]
BY LockConstants DEF LockInv, TypeOK, Closed, Opens

LEMMA Initial == Init => LockInv
<1> SUFFICES ASSUME Init PROVE LockInv
  OBVIOUS
<1>1. TypeOK
  BY LockConstants DEF Init, TypeOK, Places
<1>2. OpenFiles /\ LocksHeld /\ PathsKnown /\ NoStrayLock
  BY LockConstants DEF Init, OpenFiles, LocksHeld, PathsKnown, NoStrayLock,
     WithFile, WithLock, WithPath
<1> QED
  BY <1>1, <1>2 DEF LockInv

\* One step of one process keeps the invariant: the descriptors, locks and
\* paths of the other processes are their own.
LEMMA StepKeepsInv ==
  ASSUME LockInv, NEW p \in Processes, Step(p)
  PROVE  LockInv'
<1> USE DEF LockInv
<1>1. CASE Resolve(p)
  <2>1. Resolved \in Paths
    BY DEF Resolved, Paths
  <2>2. TypeOK'
    BY <1>1, <2>1, LockConstants DEF Resolve, TypeOK, Places
  <2>3. OpenFiles' /\ LocksHeld' /\ PathsKnown' /\ NoStrayLock'
    BY <1>1, <2>1, LockConstants DEF Resolve, TypeOK, OpenFiles, LocksHeld, PathsKnown,
       NoStrayLock, WithFile, WithLock, WithPath
  <2> QED
    BY <2>2, <2>3
<1>2. CASE OpenLockFile(p)
  <2>1. /\ at' = [at EXCEPT ![p] = "flock"] /\ Locals(p, "flock")
        /\ owner' = owner /\ at[p] = "open"
    BY <1>2 DEF OpenLockFile, Goes
  <2>2. PICK f \in Files : file' = [file EXCEPT ![p] = f]
    BY <1>2 DEF OpenLockFile, OpenOrCreate, Opens, TypeOK, PathsKnown, WithPath, Free
  <2>3. dir' \in [Paths -> Files \cup {NoFile}]
    BY <1>2 DEF OpenLockFile, OpenOrCreate, TypeOK, PathsKnown, WithPath, Free
  <2>4. TypeOK'
    BY <2>1, <2>2, <2>3, LocalsTyped DEF TypeOK, Places, WithPath
  <2>5. OpenFiles'
    BY <2>1, <2>2, LockConstants DEF OpenFiles, TypeOK, WithFile
  <2>6. LocksHeld' /\ NoStrayLock'
    BY <2>1, <2>2, LockConstants DEF LocksHeld, NoStrayLock, TypeOK, WithLock
  <2>7. PathsKnown'
    BY <2>1, LocalsTyped DEF PathsKnown, TypeOK, WithPath, Places
  <2> QED
    BY <2>4, <2>5, <2>6, <2>7
<1>3. CASE Acquire(p)
  <2>1. /\ at' = [at EXCEPT ![p] = "held"] /\ Locals(p, "held")
        /\ at[p] = "flock" /\ dir' = dir /\ file' = file
        /\ owner[file[p]] = NoProcess /\ owner' = [owner EXCEPT ![file[p]] = p]
    BY <1>3 DEF Acquire, Goes, Granted
  <2>2. file[p] \in Files
    BY <2>1 DEF TypeOK, OpenFiles, WithFile
  <2>3. TypeOK'
    BY <2>1, <2>2, LocalsTyped DEF TypeOK, Places, WithPath
  <2>4. OpenFiles' /\ LocksHeld' /\ NoStrayLock'
    BY <2>1, <2>2, LockConstants DEF TypeOK, OpenFiles, LocksHeld, NoStrayLock,
       WithFile, WithLock
  <2>5. PathsKnown'
    BY <2>1, LocalsTyped DEF PathsKnown, TypeOK, WithPath, Places
  <2> QED
    BY <2>3, <2>4, <2>5
<1>4. CASE Refuse(p)
  <2>1. PICK place \in {"idle", "prompt", "waiting"} :
          /\ at' = [at EXCEPT ![p] = place]
          /\ path' = [path EXCEPT ![p] = NoPath]
          /\ polls' = [polls EXCEPT ![p] = IF place = "waiting" THEN Counted(p) ELSE 0]
          /\ place = "waiting" => ~(polls[p] > MaxPolls)
    BY <1>4 DEF Refuse, AfterRefusal
  <2>2. at[p] = "flock" /\ Closed(p) /\ dir' = dir
    BY <1>4 DEF Refuse
  <2>3. polls' \in [Processes -> 0 .. MaxPolls + 1]
    BY <2>1, LockConstants DEF TypeOK, Counted
  <2>4. TypeOK'
    BY <2>1, <2>2, <2>3, ClosedEffect DEF TypeOK, Places
  <2>5. OpenFiles' /\ LocksHeld' /\ NoStrayLock' /\ PathsKnown'
    BY <2>1, <2>2, <2>4, ClosedEffect, LockConstants DEF TypeOK, OpenFiles, LocksHeld,
       NoStrayLock, PathsKnown, WithFile, WithLock, WithPath
  <2> QED
    BY <2>4, <2>5
<1>5. CASE InterruptWait(p) \/ AnswerPrompt(p)
  <2>1. PICK place \in {"idle", "prompt"} : Goes(p, place) /\ at[p] \in {"waiting", "prompt"}
    BY <1>5 DEF InterruptWait, AnswerPrompt
  <2>2. dir' = dir /\ owner' = owner /\ file' = file
    BY <1>5 DEF InterruptWait, AnswerPrompt
  <2>3. TypeOK'
    BY <2>1, <2>2, LocalsTyped DEF TypeOK, Places, WithPath, Goes
  <2>4. OpenFiles' /\ LocksHeld' /\ NoStrayLock'
    BY <2>1, <2>2, LockConstants DEF TypeOK, OpenFiles, LocksHeld, NoStrayLock,
       WithFile, WithLock, Goes
  <2>5. PathsKnown'
    BY <2>1, LocalsTyped DEF PathsKnown, TypeOK, WithPath, Places, Goes
  <2> QED
    BY <2>3, <2>4, <2>5
<1>6. CASE CloseLock(p) \/ EndProbe(p) \/ Crash(p)
  <2>1. PICK place \in {"unlink", "listed", "idle"} :
          Goes(p, place) /\ (place = "unlink" => at[p] = "held")
    BY <1>6 DEF CloseLock, EndProbe, Crash
  <2>2. Closed(p) /\ dir' = dir
    BY <1>6 DEF CloseLock, EndProbe, Crash, Released
  <2>3. TypeOK'
    BY <2>1, <2>2, LocalsTyped, ClosedEffect DEF TypeOK, Places, WithPath, Goes
  <2>4. OpenFiles' /\ LocksHeld' /\ NoStrayLock'
    BY <2>1, <2>2, <2>3, ClosedEffect, LockConstants DEF TypeOK, OpenFiles, LocksHeld,
       NoStrayLock, WithFile, WithLock, Goes
  <2>5. PathsKnown'
    BY <2>1, LocalsTyped DEF PathsKnown, TypeOK, WithPath, Places, Goes
  <2> QED
    BY <2>3, <2>4, <2>5
<1>7. CASE RemoveLockFile(p) \/ RemoveOrphan(p)
  <2>1. Goes(p, "idle") /\ at[p] \in {"unlink", "listed"} /\ owner' = owner /\ file' = file
    BY <1>7 DEF RemoveLockFile, RemoveOrphan
  <2>2. dir' \in [Paths -> Files \cup {NoFile}]
    BY <1>7 DEF RemoveLockFile, RemoveOrphan, Unlinked, TypeOK
  <2>3. TypeOK'
    BY <2>1, <2>2, LocalsTyped DEF TypeOK, Places, WithPath, Goes
  <2>4. OpenFiles' /\ LocksHeld' /\ NoStrayLock'
    BY <2>1, LockConstants DEF TypeOK, OpenFiles, LocksHeld, NoStrayLock,
       WithFile, WithLock, Goes
  <2>5. PathsKnown'
    BY <2>1, LocalsTyped DEF PathsKnown, TypeOK, WithPath, Places, Goes
  <2> QED
    BY <2>3, <2>4, <2>5
<1>8. CASE OpenProbe(p)
  <2>1. /\ Goes(p, "probe") /\ at[p] = "idle" /\ owner' = owner /\ dir' = dir
        /\ file' = [file EXCEPT ![p] = dir["user"]] /\ dir["user"] \in Files
    BY <1>8 DEF OpenProbe, Opens, TypeOK, Paths
  <2>2. TypeOK'
    BY <2>1, LocalsTyped DEF TypeOK, Places, WithPath, Goes
  <2>3. dir["user"] # NoFile /\ at' = [at EXCEPT ![p] = "probe"]
    BY <2>1, LockConstants DEF Goes
  <2>4. OpenFiles'
    BY <2>1, <2>3 DEF TypeOK, OpenFiles, WithFile
  <2>5. LocksHeld' /\ NoStrayLock'
    BY <2>1, <2>3, LockConstants DEF TypeOK, LocksHeld, NoStrayLock, WithLock
  <2>6. PathsKnown'
    BY <2>1, LocalsTyped DEF PathsKnown, TypeOK, WithPath, Places, Goes
  <2> QED
    BY <2>2, <2>4, <2>5, <2>6
<1>9. CASE Probe(p)
  <2>1. at[p] = "probe" /\ dir' = dir /\ file[p] \in Files
    BY <1>9 DEF Probe, TypeOK, OpenFiles, WithFile
  <2>2. CASE Granted(file[p])
    <3>1. /\ Goes(p, "probed") /\ file' = file
          /\ owner[file[p]] = NoProcess /\ owner' = [owner EXCEPT ![file[p]] = p]
      BY <1>9, <2>2 DEF Probe, Granted
    <3>2. TypeOK'
      BY <2>1, <3>1, LocalsTyped DEF TypeOK, Places, WithPath, Goes
    <3>3. OpenFiles' /\ LocksHeld' /\ NoStrayLock'
      BY <2>1, <3>1, LockConstants DEF TypeOK, OpenFiles, LocksHeld, NoStrayLock,
         WithFile, WithLock, Goes
    <3>4. PathsKnown'
      BY <2>1, <3>1, LocalsTyped DEF PathsKnown, TypeOK, WithPath, Places, Goes
    <3> QED
      BY <3>2, <3>3, <3>4
  <2>3. CASE ~Granted(file[p])
    <3>1. Closed(p) /\ Goes(p, "idle")
      BY <1>9, <2>3 DEF Probe
    <3>2. TypeOK'
      BY <2>1, <3>1, LocalsTyped, ClosedEffect DEF TypeOK, Places, WithPath, Goes
    <3>3. OpenFiles' /\ LocksHeld' /\ NoStrayLock'
      BY <2>1, <3>1, <3>2, ClosedEffect, LockConstants DEF TypeOK, OpenFiles, LocksHeld,
         NoStrayLock, WithFile, WithLock, Goes
    <3>4. PathsKnown'
      BY <2>1, <3>1, LocalsTyped DEF PathsKnown, TypeOK, WithPath, Places, Goes
    <3> QED
      BY <3>2, <3>3, <3>4
  <2> QED
    BY <2>2, <2>3
<1> QED
  BY <1>1, <1>2, <1>3, <1>4, <1>5, <1>6, <1>7, <1>8, <1>9 DEF Step, Attempt, Cleanup

\* Two holders that have the same file open are one: the file has one owner.
LEMMA InvExcludes == LockInv => ExclusiveWhileInPlace
<1> SUFFICES ASSUME LockInv, NEW p \in Processes, NEW q \in Processes,
                    HasLock(p), HasLock(q), file[p] = file[q]
             PROVE  p = q
  BY DEF ExclusiveWhileInPlace
<1>1. owner[file[p]] = p /\ owner[file[q]] = q
  BY DEF LockInv, LocksHeld, WithLock, HasLock
<1> QED
  BY <1>1

LEMMA LockInvariant == Spec => []LockInv
<1>1. Init => LockInv
  BY Initial
<1>2. LockInv /\ [Next]_vars => LockInv'
  <2> SUFFICES ASSUME LockInv, [Next]_vars PROVE LockInv'
    OBVIOUS
  <2>1. CASE Next
    BY <2>1, StepKeepsInv DEF Next
  <2>2. CASE UNCHANGED vars
    BY <2>2 DEF vars, LockInv, TypeOK, OpenFiles, LocksHeld, PathsKnown, NoStrayLock
  <2> QED
    BY <2>1, <2>2
<1> QED
  BY <1>1, <1>2, PTL DEF Spec

-----------------------------------------------------------------------------
(* The theorems.                                                           *)

\* The variables of the lock model keep their ranges; in particular the
\* failed attempts of acquire_lock never pass the timeout's.
THEOREM TypeCorrect == Spec => []TypeOK
BY LockInvariant, PTL DEF LockInv

\* Whatever interleaving of refusals, releases, probes and crashes: a flock
\* belongs to a process that holds or probes, so no lock file left behind by
\* ConversationFileLock or by a killed process blocks a conversation.
THEOREM NoLockOutlivesItsHolder == Spec => []NoStrayLock
BY LockInvariant, PTL DEF LockInv

\* try_acquire excludes as long as the path still leads to the locked file:
\* two holders at a time need a lock file removed under one of them.
THEOREM FlockExcludesInPlace == Spec => []ExclusiveWhileInPlace
BY LockInvariant, InvExcludes, PTL
=============================================================================
