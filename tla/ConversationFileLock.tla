------------------------ MODULE ConversationFileLock ------------------------
(***************************************************************************)
(* The lock that keeps a conversation to one jp process at a time:         *)
(* ConversationFileLock (crates/jp_storage/src/lock.rs), the polling of    *)
(* acquire_lock (crates/jp_cli/src/cmd/lock.rs) and the removal of         *)
(* orphaned lock files (Workspace::cleanup_stale_files), on Unix.          *)
(*                                                                         *)
(* The lock is an flock on a file.  The file is created by whoever locks   *)
(* it first and removed when the lock is dropped, so a path may lead to    *)
(* one file when it is opened and to another when it is removed.  One step *)
(* is one system call, but for the choice of the path, which looks at two  *)
(* in one step; a process may crash between any two of them.  Left out is  *)
(* the probe of sanitize, which takes a free lock for a moment and removes *)
(* nothing.                                                                *)
(***************************************************************************)
EXTENDS Naturals, FiniteSets

CONSTANTS
  Processes,    \* jp processes that use the conversation
  Interactive,  \* those attached to a terminal
  Files,        \* file identities (inodes) the file system can give out
  MaxPolls      \* polls that end before lock_wait.timeout_secs

NoFile == 0
NoProcess == "nobody"
NoPath == "none"

ASSUME LockConstants ==
  /\ Interactive \subseteq Processes
  /\ NoProcess \notin Processes
  /\ Files \subseteq Nat \ {NoFile}
  /\ MaxPolls \in Nat

VARIABLES
  dir,    \* path -> the file it leads to
  owner,  \* file -> the process whose descriptor has the flock
  at,     \* process -> where it is
  path,   \* process -> the path it works on
  file,   \* process -> the file it has open
  polls   \* process -> failed attempts of the current acquire_lock

vars == <<dir, owner, at, path, file, polls>>

\* The lock files live in user storage; one may be left in the workspace.
Paths == {"user", "workspace"}

Places == {"idle", "open", "flock", "waiting", "prompt", "held", "unlink",
           "probe", "probed", "listed"}

\* A run may begin with a lock file a killed process has left behind.
Init ==
  /\ dir \in {d \in [Paths -> Files \cup {NoFile}] :
                \E p \in Paths : \A q \in Paths :
                  d[q] = NoFile \/ (q = p /\ \A f \in Files : d[q] <= f)}
  /\ owner = [f \in Files |-> NoProcess]
  /\ at = [p \in Processes |-> "idle"]
  /\ path = [p \in Processes |-> NoPath]
  /\ file = [p \in Processes |-> NoFile]
  /\ polls = [p \in Processes |-> 0]

\* The path and the attempts are locals of one acquire_lock, or of one lock.
Locals(p, place) ==
  /\ path' = [path EXCEPT ![p] = IF place \in {"flock", "held", "unlink"} THEN @ ELSE NoPath]
  /\ polls' = [polls EXCEPT ![p] = IF place \in {"flock", "waiting"} THEN @ ELSE 0]

Goes(p, place) == at' = [at EXCEPT ![p] = place] /\ Locals(p, place)
Opens(p, f) == file' = [file EXCEPT ![p] = f]

-----------------------------------------------------------------------------
(* The file system.                                                        *)

\* Files nothing leads to any more: the kernel may give the identity again.
Free == {f \in Files : (\A q \in Paths : dir[q] # f) /\ (\A p \in Processes : file[p] # f)}

\* open(O_CREAT): the file the path leads to, or a new one.
OpenOrCreate(p) ==
  IF dir[path[p]] # NoFile
    THEN Opens(p, dir[path[p]]) /\ UNCHANGED dir
    ELSE \E f \in Free :
           /\ \A g \in Free : f <= g
           /\ dir' = [dir EXCEPT ![path[p]] = f]
           /\ Opens(p, f)

Unlinked(q) == dir' = [dir EXCEPT ![q] = NoFile]

\* Closing the descriptor releases the flock it may have.
Closed(p) ==
  /\ Opens(p, NoFile)
  /\ owner' = [f \in Files |-> IF owner[f] = p THEN NoProcess ELSE owner[f]]

-----------------------------------------------------------------------------
(* acquire_lock and try_acquire.                                           *)

\* lock_file_path: an existing file in user storage, then one in the
\* workspace, else the user storage's path.
Resolved ==
  IF dir["user"] = NoFile /\ dir["workspace"] # NoFile THEN "workspace" ELSE "user"

Resolve(p) ==
  /\ at[p] \in {"idle", "waiting"}
  /\ path' = [path EXCEPT ![p] = Resolved]
  /\ at' = [at EXCEPT ![p] = "open"]
  /\ UNCHANGED <<dir, owner, file, polls>>

OpenLockFile(p) ==
  /\ at[p] = "open"
  /\ OpenOrCreate(p)
  /\ Goes(p, "flock")
  /\ UNCHANGED owner

\* Mutation: a platform without locks is assumed to have succeeded.
AlwaysGranted(f) == TRUE

\* flock(LOCK_EX | LOCK_NB) succeeds.
Granted(f) == owner[f] = NoProcess

Acquire(p) ==
  /\ at[p] = "flock"
  /\ Granted(file[p])
  /\ owner' = [owner EXCEPT ![file[p]] = p]
  /\ Goes(p, "held")
  /\ UNCHANGED <<dir, file>>

\* Mutation: every attempt starts the timeout anew.
CountedAnew(p) == 1

\* One more failed attempt.
Counted(p) == polls[p] + 1

\* Mutation: the time waited is not compared with the timeout.
WaitsOn(p) == IF p \notin Interactive THEN "idle" ELSE "waiting"

\* Where a refused attempt leads: no terminal means an error at once, the
\* first attempt is free, and after a later one the timeout is looked at.
AfterRefusal(p) ==
  IF p \notin Interactive THEN "idle"
  ELSE IF polls[p] > MaxPolls THEN "prompt" ELSE "waiting"

Refuse(p) ==
  /\ at[p] = "flock"
  /\ ~Granted(file[p])
  /\ Closed(p)
  /\ LET place == AfterRefusal(p)
     IN /\ at' = [at EXCEPT ![p] = place]
        /\ path' = [path EXCEPT ![p] = NoPath]
        /\ polls' = [polls EXCEPT ![p] = IF place = "waiting" THEN Counted(p) ELSE 0]
  /\ UNCHANGED dir

\* Ctrl-C while waiting goes straight to the prompt.
InterruptWait(p) ==
  /\ at[p] = "waiting"
  /\ Goes(p, "prompt")
  /\ UNCHANGED <<dir, owner, file>>

\* "Continue waiting" is acquire_lock again; the other choices give up.
AnswerPrompt(p) ==
  /\ at[p] = "prompt"
  /\ Goes(p, "idle")
  /\ UNCHANGED <<dir, owner, file>>

-----------------------------------------------------------------------------
(* Drop: the descriptor is closed first, then the path is removed.         *)

\* Mutation: the path is removed and the descriptor leaks.
Leaked(p) == UNCHANGED <<owner, file>>

Released(p) == Closed(p)

CloseLock(p) ==
  /\ at[p] = "held"
  /\ Released(p)
  /\ Goes(p, "unlink")
  /\ UNCHANGED dir

RemoveLockFile(p) ==
  /\ at[p] = "unlink"
  /\ Unlinked(path[p])
  /\ Goes(p, "idle")
  /\ UNCHANGED <<owner, file>>

-----------------------------------------------------------------------------
(* cleanup_stale_files, when a command has ended.                          *)

\* is_orphaned_lock opens what it finds in user storage, tries the flock ...
OpenProbe(p) ==
  /\ at[p] = "idle"
  /\ dir["user"] # NoFile
  /\ Opens(p, dir["user"])
  /\ Goes(p, "probe")
  /\ UNCHANGED <<dir, owner>>

Probe(p) ==
  /\ at[p] = "probe"
  /\ IF Granted(file[p])
       THEN owner' = [owner EXCEPT ![file[p]] = p] /\ Goes(p, "probed") /\ UNCHANGED file
       ELSE Closed(p) /\ Goes(p, "idle")
  /\ UNCHANGED dir

\* ... gives it back, and lists the path as orphaned.
EndProbe(p) ==
  /\ at[p] = "probed"
  /\ Closed(p)
  /\ Goes(p, "listed")
  /\ UNCHANGED dir

\* The listed paths are removed after the whole directory was probed.
RemoveOrphan(p) ==
  /\ at[p] = "listed"
  /\ Unlinked("user")
  /\ Goes(p, "idle")
  /\ UNCHANGED <<owner, file>>

-----------------------------------------------------------------------------
\* The process dies; the kernel closes its descriptors, the files stay.
Crash(p) ==
  /\ at[p] # "idle"
  /\ Closed(p)
  /\ Goes(p, "idle")
  /\ UNCHANGED dir

Attempt(p) == Resolve(p) \/ OpenLockFile(p) \/ Acquire(p) \/ Refuse(p)

Cleanup(p) == OpenProbe(p) \/ Probe(p) \/ EndProbe(p) \/ RemoveOrphan(p)

Step(p) ==
  \/ Attempt(p) \/ InterruptWait(p) \/ AnswerPrompt(p)
  \/ CloseLock(p) \/ RemoveLockFile(p)
  \/ Cleanup(p)
  \/ Crash(p)

Next == \E p \in Processes : Step(p)

\* A process that is not stopped goes on with the attempt it has begun.
Fairness == \A p \in Processes : WF_vars(at[p] # "idle" /\ Attempt(p))

Spec == Init /\ [][Next]_vars /\ Fairness

-----------------------------------------------------------------------------
(* Properties.                                                             *)

HasLock(p) == at[p] = "held"

TypeOK ==
  /\ dir \in [Paths -> Files \cup {NoFile}]
  /\ owner \in [Files -> Processes \cup {NoProcess}]
  /\ at \in [Processes -> Places]
  /\ path \in [Processes -> Paths \cup {NoPath}]
  /\ file \in [Processes -> Files \cup {NoFile}]
  /\ polls \in [Processes -> 0 .. MaxPolls + 1]

\* The flock of a file belongs to a process that is holding the lock or
\* probing that very file: refusals, releases and crashes leave nothing
\* locked, so a lock file left behind never blocks anyone.
NoStrayLock ==
  \A f \in Files : owner[f] # NoProcess =>
    at[owner[f]] \in {"held", "probed"} /\ file[owner[f]] = f

\* A holder whose lock file is still where it was opened shares the
\* conversation with no holder whose file is in place at the same path.
ExclusiveWhileInPlace ==
  \A p, q \in Processes :
    HasLock(p) /\ HasLock(q) /\ path[p] = path[q]
      /\ dir[path[p]] = file[p] /\ dir[path[q]] = file[q] => p = q

\* Waiting for the lock ends: the lock, the prompt or the process's end.
WaitEnds ==
  \A p \in Processes : at[p] = "waiting" ~> at[p] \in {"held", "prompt", "idle"}

\* What the lock is for: one process at a time has the conversation.
MutualExclusion == \A p, q \in Processes : HasLock(p) /\ HasLock(q) => p = q
=============================================================================
