--------------------------- MODULE ConversationStore ---------------------------
(***************************************************************************)
(* One conversation on disk: crates/jp_storage (lib.rs, load.rs, value.rs, *)
(* validate.rs, trash.rs, backend/fs.rs) as crates/jp_workspace/src/lib.rs *)
(* uses it.                                                                *)
(*                                                                         *)
(* A conversation is a directory of three files.  It may live in two       *)
(* roots: the durable user-local one and the projection in the workspace.  *)
(* Each file is replaced atomically, everything else is a sequence of file *)
(* system calls: a save of two copies, the import of one copy into the     *)
(* other root, removal, archiving.  A process may stop between any two of  *)
(* them, and another one may validate, clean up and trash meanwhile.       *)
(*                                                                         *)
(* Content is the set of edits it holds.  Left out: directory names (a new *)
(* title renames the directory in one call), files jp does not manage, a   *)
(* workspace without user-local storage, the files named TRASHED.md,       *)
(* editors that write the files themselves, and the removal of temporary   *)
(* conversations that have expired when a command ends, which takes no     *)
(* lock (remove_ephemeral_conversations): this conversation has no expiry. *)
(***************************************************************************)
EXTENDS Integers, Sequences, FiniteSets

CONSTANTS
  Procs,      \* processes
  NoProc,     \* holder of a free lock
  Writers,    \* those that change the conversation; the others only start
  Commands,   \* what writers do
  Eager,      \* processes that read the conversation before they lock it
  Legacy,     \* the sets of roots whose copies an older version may have written
  MaxEdits,   \* bound: edits made
  MaxSaves,   \* bound: saves, moves and removals begun
  MaxStarts,  \* bound: starts of a process
  MaxCrashes  \* bound: processes killed

ASSUME ConstantsAssumption ==
  /\ NoProc \notin Procs
  /\ Legacy \subseteq SUBSET {"workspace", "user"}
  /\ Writers \subseteq Procs /\ Eager \subseteq Writers
  /\ Commands \subseteq {"save", "create", "project", "archive", "unarchive", "remove"}
  /\ {MaxEdits, MaxSaves, MaxStarts, MaxCrashes} \subseteq Nat /\ MaxEdits > 0

VARIABLES
  live,        \* conversations/ of each root
  archive,     \* conversations/.archive/ of each root
  trash,       \* what conversations/.trash/ holds, of both roots
  lock,        \* holder of the conversation's lock
  phase,       \* where each process is
  todo,        \* the file system calls each process still has to make
  bad,         \* roots whose copy a process found invalid
  memory,      \* the content each process works with
  projected,   \* whether it writes the workspace copy
  saved,       \* edits the durable copy has held
  lapses,      \* history: what the code does not guard against and has happened
  edits,       \* edits made so far
  saves, starts, crashes

disk == <<live, archive, trash>>
bounds == <<edits, saves, starts, crashes>>
vars == <<disk, lock, phase, todo, bad, memory, projected, saved, lapses, bounds>>

Roots == {"workspace", "user"}
Files == {"metadata", "base", "events"}

\* Content of a file.  LegacyMark is part of an events file written by a
\* version that kept the base configuration in it.
Absent == {-1}
Torn == {-2}
LegacyMark == 0
Edits == 1 .. MaxEdits
Content == {Absent, Torn} \cup SUBSET (Edits \cup {LegacyMark})

\* A directory; tmp: files whose replacement has been written beside them.
EmptyDir ==
  [there |-> TRUE, has |-> [f \in Files |-> Absent], at |-> [f \in Files |-> 0], tmp |-> {}]
NoDir == [EmptyDir EXCEPT !.there = FALSE]
Exists(dir) == dir.there
NothingKnown == Torn
FirstOf(roots) == IF "workspace" \in roots THEN "workspace" ELSE "user"

Written(dir) == {f \in Files : dir.has[f] # Absent}
Places == {live[r] : r \in Roots} \cup {archive[r] : r \in Roots}
Copies == {dir \in Places \cup trash : Exists(dir)}

\* A clock: later than any file.
Latest(times) == CHOOSE n \in times : \A m \in times : m <= n
Now == 1 + Latest({0} \cup UNION {{dir.at[f] : f \in Files} : dir \in Copies})

Put(dir, f, content) == [dir EXCEPT !.has[f] = content, !.at[f] = Now, !.tmp = @ \ {f}]

-----------------------------------------------------------------------------
(* Reading.                                                                *)

Good(content) == content \notin {Absent, Torn}

\* validate_entry: the base configuration is optional.
Valid(dir) ==
  /\ Good(dir.has["metadata"])
  /\ dir.has["base"] # Torn
  /\ Good(dir.has["events"])

\* load_conversation_stream, once the directory is chosen.
Loadable(dir) ==
  /\ Good(dir.has["events"])
  /\ dir.has["base"] # Torn
  /\ dir.has["base"] = Absent => LegacyMark \in dir.has["events"]

\* file_mtime and stream_mtime.
TimeOf(dir, files) == Latest({dir.at[f] : f \in files})

\* Mutation: the projection is trusted whenever it is there.
WorkspaceFirst(files) ==
  IF Exists(live["workspace"]) THEN live["workspace"] ELSE live["user"]

\* pick_newer, with a tie for the user-local copy.
Newer(files) ==
  IF Exists(live["user"])
       /\ (Exists(live["workspace"]) =>
             TimeOf(live["user"], files) >= TimeOf(live["workspace"], files))
    THEN live["user"] ELSE live["workspace"]

\* load_conversation_metadata; an archived copy's stands in for it.
MetadataReadable ==
  LET archived == {r \in Roots : archive[r].has["metadata"] # Absent} IN
    \/ Good(Newer({"metadata"}).has["metadata"])
    \/ archived # {} /\ Good(archive[FirstOf(archived)].has["metadata"])

\* Metadata and stream are chosen apart; both have to be readable.
Loaded ==
  LET stream == Newer({"base", "events"}) IN
    IF MetadataReadable /\ Loadable(stream)
      THEN stream.has["events"] \ {LegacyMark} ELSE NothingKnown

\* What the code does not guard against, noted as it happens.
Noted(kind, happens) == IF happens THEN {kind} ELSE {}
Lapse(kind, happens) == lapses' = lapses \cup Noted(kind, happens)

\* Processes that restore the conversation from the archive: without its lock.
Restoring == {p \in Procs : phase[p] = "restoring"}

\* The base configuration's time is what makes a copy the newer one: it may
\* have been written to a copy whose events are the older ones.
Misleading == Newer({"base", "events"}) # Newer({"events"})

\* StoragePresence and the projection it selects.
Projects(place) == ~(Exists(place["user"]) /\ ~Exists(place["workspace"]))
Indexed(place) == \E r \in Roots : Exists(place[r])

-----------------------------------------------------------------------------
(* A process is the list of calls it still has to make.                    *)

Call(do, root, file) == [do |-> do, root |-> root, file |-> file]
In(do, root) == Call(do, root, "none")
Copy(files) == Call("copy", "user", files)

\* Mutation: the events are written before what tells their format.
EventsFirst(root) ==
  <<Call("write", root, "metadata"), Call("write", root, "events"),
    Call("write", root, "base")>>

WriteFiles(root) ==
  <<Call("write", root, "metadata"), Call("write", root, "base"),
    Call("write", root, "events")>>

PersistTo(root) == <<In("mkdir", root)>> \o WriteFiles(root)

\* Mutation: the workspace copy goes before there is another.
DropFirst(toWorkspace) ==
  (IF toWorkspace THEN PersistTo("workspace") ELSE <<In("drop", "workspace")>>)
    \o PersistTo("user") \o <<In("saved", "user")>>

\* persist_conversation.  "saved" marks where the durable copy is complete.
Persist(toWorkspace) ==
  <<In("import", "user")>> \o PersistTo("user") \o <<In("saved", "user")>>
    \o (IF toWorkspace THEN PersistTo("workspace") ELSE <<In("drop", "workspace")>>)

Startup(p) ==
  <<In("check", "workspace"), In("check", "user"), In("index", "user")>>
    \o (IF p \in Eager THEN <<In("load", "user")>> ELSE <<>>)

\* A copy as jp left it, now or before the base configuration had a file.
FirstCopy(legacy) ==
  [EmptyDir EXCEPT
     !.has = [metadata |-> {1}, base |-> IF legacy THEN Absent ELSE {},
              events |-> IF legacy THEN {1, LegacyMark} ELSE {1}],
     !.at = [metadata |-> 1, base |-> IF legacy THEN 0 ELSE 1, events |-> 1]]

Init ==
  /\ \E kept \in SUBSET Roots, legacy, archived \in BOOLEAN :
       LET copy == [r \in Roots |-> IF r \in kept THEN FirstCopy(legacy) ELSE NoDir]
           none == [r \in Roots |-> NoDir]
       IN  /\ legacy => kept \in Legacy
           /\ live = IF archived THEN none ELSE copy
           /\ archive = IF archived THEN copy ELSE none
           /\ saved = IF kept = {} THEN {} ELSE {1}
           /\ edits = Cardinality(saved)
  /\ trash = {}
  /\ lock = NoProc
  /\ phase = [p \in Procs |-> "off"]
  /\ todo = [p \in Procs |-> <<>>]
  /\ bad = [p \in Procs |-> {}]
  /\ memory = [p \in Procs |-> NothingKnown]
  /\ projected = [p \in Procs |-> TRUE]
  /\ lapses = {}
  /\ saves = 0 /\ starts = 0 /\ crashes = 0

Current(p) == Head(todo[p])
At(p, kinds) == todo[p] # <<>> /\ Current(p).do \in kinds
Proceed(p) == todo' = [todo EXCEPT ![p] = Tail(@)]
Instead(p, calls) == todo' = [todo EXCEPT ![p] = calls \o Tail(@)]

Moves == <<In("archive", "workspace"), In("archive", "user")>>

\* An error ends the save.  Archiving goes on without it.
GiveUp(p) ==
  todo' = [todo EXCEPT ![p] = IF \E i \in DOMAIN @ : @[i].do = "archive" THEN Moves ELSE <<>>]

Set(root, dir) == live' = [live EXCEPT ![root] = dir]

-----------------------------------------------------------------------------
(* Startup: sanitize, load_conversation_index, eager_load_conversation.    *)

Start(p) ==
  /\ phase[p] = "off"
  /\ starts < MaxStarts
  /\ starts' = starts + 1
  /\ phase' = [phase EXCEPT ![p] = "starting"]
  /\ todo' = [todo EXCEPT ![p] = Startup(p)]
  /\ UNCHANGED <<disk, lock, bad, memory, projected, saved, lapses, edits, saves, crashes>>

\* validate_root: leftovers of writes are removed, whoever is writing.
Check(p) ==
  /\ At(p, {"check"})
  /\ LET r == Current(p).root IN
       /\ IF Exists(live[r]) THEN Set(r, [live[r] EXCEPT !.tmp = {}]) ELSE UNCHANGED live
       /\ bad' = [bad EXCEPT ![p] = IF Exists(live[r]) /\ ~Valid(live[r]) THEN @ \cup {r} ELSE @]
  /\ Proceed(p)
  /\ UNCHANGED <<archive, trash, lock, phase, memory, projected, saved, lapses, bounds>>

\* FsStorageBackend::sanitize: a copy found invalid is left to the process
\* that holds the lock, if one does now.
Probe(p) ==
  /\ At(p, {"index"})
  /\ bad[p] # {}
  /\ LET r == FirstOf(bad[p]) IN
       /\ bad' = [bad EXCEPT ![p] = @ \ {r}]
       /\ IF lock = NoProc
            THEN todo' = [todo EXCEPT ![p] = <<In("trash", r)>> \o @]
            ELSE UNCHANGED todo
  /\ UNCHANGED <<disk, lock, phase, memory, projected, saved, lapses, bounds>>

\* trash_conversation renames whatever has the name by now, also a copy that
\* has become valid or that a process has begun to work with.
Trash(p) ==
  /\ At(p, {"trash"})
  /\ LET r == Current(p).root IN
       /\ Set(r, NoDir)
       /\ trash' = IF Exists(live[r]) THEN trash \cup {live[r]} ELSE trash
       /\ Lapse("stale trash", Exists(live[r]) /\ (Valid(live[r]) \/ lock # NoProc \/ Restoring # {}))
  /\ Proceed(p)
  /\ UNCHANGED <<archive, lock, phase, bad, memory, projected, saved, bounds>>

\* The index notes which roots hold the conversation.
Index(p) ==
  /\ At(p, {"index"})
  /\ bad[p] = {}
  /\ projected' = [projected EXCEPT ![p] = Projects(live)]
  /\ phase' = [phase EXCEPT ![p] = IF Indexed(live) THEN "found" ELSE "missing"]
  /\ Proceed(p)
  /\ UNCHANGED <<disk, lock, bad, memory, saved, lapses, bounds>>

EagerLoad(p) ==
  /\ At(p, {"load"})
  /\ memory' = [memory EXCEPT ![p] = Loaded]
  /\ Proceed(p)
  /\ UNCHANGED <<disk, lock, phase, bad, projected, saved, lapses, bounds>>

-----------------------------------------------------------------------------
(* Commands.                                                               *)

May(p, command) == p \in Writers /\ command \in Commands
Ready(p, where) == todo[p] = <<>> /\ phase[p] = where

Off(p) ==
  /\ phase' = [phase EXCEPT ![p] = "off"]
  /\ memory' = [memory EXCEPT ![p] = NothingKnown]
  /\ projected' = [projected EXCEPT ![p] = TRUE]
  /\ lock' = IF lock = p THEN NoProc ELSE lock

\* lock_conversation: what was read before is kept, what was not is read now.
Acquire(p) ==
  /\ p \in Writers
  /\ Ready(p, "found")
  /\ lock = NoProc
  /\ LET content == IF memory[p] = NothingKnown THEN Loaded ELSE memory[p] IN
       IF content = NothingKnown
         THEN Off(p) /\ UNCHANGED lapses
         ELSE /\ lapses' = lapses \cup Noted("stale copy", Misleading)
                                  \cup Noted("stale read", content # Loaded)
                                  \cup Noted("half restored", Exists(archive["user"]))
                                  \cup Noted("unlocked", Restoring # {})
              /\ lock' = p
              /\ memory' = [memory EXCEPT ![p] = content]
              /\ phase' = [phase EXCEPT ![p] = "locked"]
              /\ UNCHANGED projected
  /\ UNCHANGED <<disk, todo, bad, saved, bounds>>

\* create_and_lock_conversation.
Create(p) ==
  /\ May(p, "create")
  /\ Ready(p, "missing")
  /\ edits = 0 /\ Copies = {} /\ lock = NoProc
  /\ lock' = p
  /\ memory' = [memory EXCEPT ![p] = {}]
  /\ phase' = [phase EXCEPT ![p] = "locked"]
  /\ \E wanted \in BOOLEAN : projected' = [projected EXCEPT ![p] = wanted]
  /\ Lapse("unlocked", Restoring # {})
  /\ UNCHANGED <<disk, todo, bad, saved, bounds>>

Begins(p, where) ==
  /\ Ready(p, where)
  /\ saves < MaxSaves
  /\ saves' = saves + 1
  /\ UNCHANGED <<disk, lock, bad, starts, crashes>>

\* An edit, or none since the last save failed; ConversationMut::flush.
Save(p) ==
  /\ May(p, "save")
  /\ Begins(p, "locked")
  /\ \E made \in {edits} \cup ({edits + 1} \cap Edits) :
       /\ edits' = made
       /\ memory' = [memory EXCEPT ![p] = IF made = edits THEN @ ELSE @ \cup {made}]
  /\ todo' = [todo EXCEPT ![p] = Persist(projected[p])]
  /\ UNCHANGED <<phase, projected, saved, lapses>>

\* The projection is turned on or off.
Project(p) ==
  /\ May(p, "project")
  /\ Begins(p, "locked")
  /\ projected' = [projected EXCEPT ![p] = ~@]
  /\ todo' = [todo EXCEPT ![p] = Persist(~projected[p])]
  /\ UNCHANGED <<phase, edits, memory, saved, lapses>>

\* Workspace::archive_conversation flushes first.
Archive(p) ==
  /\ May(p, "archive")
  /\ Begins(p, "locked")
  /\ phase' = [phase EXCEPT ![p] = "leaving"]
  /\ todo' = [todo EXCEPT ![p] = Persist(projected[p]) \o Moves]
  /\ UNCHANGED <<projected, edits, memory, saved, lapses>>

Remove(p) ==
  /\ May(p, "remove")
  /\ Begins(p, "locked")
  /\ phase' = [phase EXCEPT ![p] = "leaving"]
  /\ todo' = [todo EXCEPT ![p] = <<In("drop", "workspace"), In("drop", "user")>>]
  /\ saved' = {}
  /\ UNCHANGED <<projected, edits, memory, lapses>>

\* Workspace::unarchive_conversation works without the lock.
Unarchive(p) ==
  /\ May(p, "unarchive")
  /\ Begins(p, "missing")
  /\ Indexed(archive)
  /\ Lapse("unlocked", lock # NoProc \/ Restoring # {})
  /\ phase' = [phase EXCEPT ![p] = "restoring"]
  /\ projected' = [projected EXCEPT ![p] = Projects(archive)]
  /\ todo' = [todo EXCEPT ![p] = <<In("unarchive", "workspace"), In("unarchive", "user")>>]
  /\ UNCHANGED <<edits, memory, saved>>

Leave(p) ==
  /\ todo[p] = <<>>
  /\ phase[p] \in {"found", "missing", "locked", "leaving", "restoring"}
  /\ Off(p)
  /\ UNCHANGED <<disk, todo, bad, saved, lapses, bounds>>

-----------------------------------------------------------------------------
(* The calls.                                                              *)

Root(p) == Current(p).root
KeepsMind(p) == UNCHANGED <<lock, phase, bad, memory, projected, lapses, bounds>>

\* import_external_copy: into an absent user-local copy, file by file.
Import(p) ==
  /\ At(p, {"import"})
  /\ IF ~Exists(live["user"]) /\ Exists(live["workspace"])
       THEN /\ Set("user", EmptyDir)
            /\ Instead(p, <<Copy(Written(live["workspace"]))>>)
       ELSE Proceed(p) /\ UNCHANGED live
  /\ KeepsMind(p)
  /\ UNCHANGED <<archive, trash, saved>>

\* fs::copy opens the new file and fills it.
CopyFile(p) ==
  /\ At(p, {"copy"})
  /\ \E f \in Current(p).file :
       LET rest == Current(p).file \ {f} IN
       IF Exists(live["user"]) /\ live["workspace"].has[f] # Absent
         THEN \/ /\ \A g \in Current(p).file : live["user"].has[g] # Torn
                 /\ Set("user", Put(live["user"], f, Torn))
                 /\ UNCHANGED todo
              \/ /\ live["user"].has[f] = Torn
                 /\ Set("user", Put(live["user"], f, live["workspace"].has[f]))
                 /\ Instead(p, IF rest = {} THEN <<>> ELSE <<Copy(rest)>>)
         ELSE GiveUp(p) /\ UNCHANGED live
  /\ KeepsMind(p)
  /\ UNCHANGED <<archive, trash, saved>>

Mkdir(p) ==
  /\ At(p, {"mkdir"})
  /\ IF Exists(live[Root(p)]) THEN UNCHANGED live ELSE Set(Root(p), EmptyDir)
  /\ Proceed(p)
  /\ KeepsMind(p)
  /\ UNCHANGED <<archive, trash, saved>>

Wanted(p) == IF Current(p).file = "base" THEN {} ELSE memory[p]

\* write_bytes: unchanged content is not written; else a temporary file ...
WriteTmp(p) ==
  /\ At(p, {"write"})
  /\ LET r == Root(p)  f == Current(p).file IN
       IF live[r].has[f] = Wanted(p)
         THEN Proceed(p) /\ UNCHANGED live
         ELSE /\ Set(r, [live[r] EXCEPT !.there = TRUE, !.tmp = @ \cup {f}])
              /\ Instead(p, <<Call("rename", r, f)>>)
  /\ KeepsMind(p)
  /\ UNCHANGED <<archive, trash, saved>>

\* ... takes the file's place, if it is still there.
Rename(p) ==
  /\ At(p, {"rename"})
  /\ LET r == Root(p)  f == Current(p).file IN
       IF f \in live[r].tmp
         THEN Set(r, Put(live[r], f, Wanted(p))) /\ Proceed(p)
         ELSE GiveUp(p) /\ UNCHANGED live
  /\ KeepsMind(p)
  /\ UNCHANGED <<archive, trash, saved>>

\* remove_dir_all: file by file, in any order.
Drop(p) ==
  /\ At(p, {"drop"})
  /\ LET r == Root(p) IN
       IF Written(live[r]) = {}
         THEN Set(r, NoDir) /\ Proceed(p)
         ELSE /\ \E f \in Written(live[r]) :
                   Set(r, [live[r] EXCEPT !.has[f] = Absent, !.at[f] = 0])
              /\ UNCHANGED todo
  /\ KeepsMind(p)
  /\ UNCHANGED <<archive, trash, saved>>

Saved(p) ==
  /\ At(p, {"saved"})
  /\ saved' = saved \cup memory[p]
  /\ Proceed(p)
  /\ KeepsMind(p)
  /\ UNCHANGED disk

\* archive_conversation and unarchive_conversation, one root: what is in the
\* way is removed, then the directory is renamed.
MoveOver(p, from, into, from2, into2, rest) ==
  LET r == Root(p) IN
    IF ~Exists(from[r])
      THEN Proceed(p) /\ UNCHANGED <<live, archive>>
    ELSE IF Written(into[r]) # {}
      THEN /\ \E f \in Written(into[r]) :
                into2 = [into EXCEPT ![r].has[f] = Absent, ![r].at[f] = 0]
           /\ from2 = from
           /\ UNCHANGED todo
    ELSE /\ into2 = [into EXCEPT ![r] = from[r]]
         /\ from2 = [from EXCEPT ![r] = NoDir]
         /\ todo' = [todo EXCEPT ![p] = rest]

ToArchive(p) ==
  /\ At(p, {"archive"})
  /\ MoveOver(p, live, archive, live', archive', Tail(todo[p]))
  /\ KeepsMind(p)
  /\ UNCHANGED <<trash, saved>>

\* Once a directory was moved the conversation is loaded and written back;
\* otherwise the command has failed.
FromArchive(p) ==
  /\ At(p, {"unarchive"})
  /\ MoveOver(p, archive, live, archive', live',
              (IF Root(p) = "workspace" THEN <<In("unarchive", "user")>> ELSE <<>>)
                \o <<In("restore", "user")>>)
  /\ KeepsMind(p)
  /\ UNCHANGED <<trash, saved>>

\* Mutation: it writes back whether or not it could load.
RestoreAnyway(p) ==
  /\ At(p, {"restore"})
  /\ memory' = [memory EXCEPT ![p] = Loaded]
  /\ Instead(p, Persist(projected[p]))
  /\ Lapse("stale copy", Loaded # NothingKnown /\ Misleading)
  /\ UNCHANGED <<disk, lock, phase, bad, projected, saved, bounds>>

\* unarchive_conversation writes what it can load back.
Restore(p) ==
  /\ At(p, {"restore"})
  /\ memory' = [memory EXCEPT ![p] = Loaded]
  /\ Instead(p, IF Loaded = NothingKnown THEN <<>> ELSE Persist(projected[p]))
  /\ Lapse("stale copy", Loaded # NothingKnown /\ Misleading)
  /\ UNCHANGED <<disk, lock, phase, bad, projected, saved, bounds>>

Crash(p) ==
  /\ phase[p] # "off"
  /\ crashes < MaxCrashes
  /\ crashes' = crashes + 1
  /\ Off(p)
  /\ todo' = [todo EXCEPT ![p] = <<>>]
  /\ bad' = [bad EXCEPT ![p] = {}]
  /\ UNCHANGED <<disk, saved, lapses, edits, saves, starts>>

Run(p) ==
  \/ Start(p) \/ Check(p) \/ Probe(p) \/ Trash(p) \/ Index(p) \/ EagerLoad(p)
  \/ Acquire(p) \/ Create(p) \/ Save(p) \/ Project(p) \/ Archive(p) \/ Unarchive(p)
  \/ Remove(p) \/ Leave(p)
  \/ Import(p) \/ CopyFile(p) \/ Mkdir(p) \/ WriteTmp(p) \/ Rename(p) \/ Drop(p)
  \/ Saved(p) \/ ToArchive(p) \/ FromArchive(p) \/ Restore(p)

Next == \E p \in Procs : Run(p) \/ Crash(p)

Spec == Init /\ [][Next]_vars

-----------------------------------------------------------------------------
(* Properties.                                                             *)

Dir == [there : BOOLEAN, has : [Files -> Content], at : [Files -> Nat], tmp : SUBSET Files]

\* The variables have the values the code gives them, and a directory that is
\* not there has nothing in it.
TypeOK ==
  /\ live \in [Roots -> Dir] /\ archive \in [Roots -> Dir] /\ trash \subseteq Dir
  /\ lock \in Procs \cup {NoProc}
  /\ phase \in [Procs -> {"off", "starting", "found", "missing", "locked", "leaving", "restoring"}]
  /\ bad \in [Procs -> SUBSET Roots]
  /\ memory \in [Procs -> {NothingKnown} \cup SUBSET Edits]
  /\ projected \in [Procs -> BOOLEAN]
  /\ saved \in SUBSET Edits
  /\ lapses \subseteq {"stale copy", "stale trash", "stale read", "half restored", "unlocked"}
  /\ \A dir \in Places : ~Exists(dir) => dir = NoDir

\* Whatever a completed save holds is in one copy, live, archived or in the
\* trash, that a process can read on its own, whatever is being written,
\* imported, dropped, archived or was interrupted at it.
NothingIsLost ==
  saved # {} => \E dir \in Copies : Good(dir.has["events"]) /\ saved \subseteq dir.has["events"]

\* However processes that start, lock, save, move and die interleave, a save is
\* lost only after one of five things the code lets happen.
\*   stale copy: a copy is read because its base configuration is the newer
\*     file, while its events are the older ones.
\*   stale read: what a process read at its start, before it waited for the
\*     lock, is no longer what is there when it gets the lock.
\*   stale trash: a copy found invalid is trashed when it is valid again or a
\*     process has begun to work with it.
\*   unlocked: unarchiving, which takes no lock, meets the holder of the lock,
\*     or another process that unarchives.
\*   half restored: a process locks the conversation while its durable copy is
\*     still in the archive, where an unarchiving was cut short.
LostByLapseOnly == lapses = {} => NothingIsLost

\* A process that locks the conversation works with everything its durable
\* copy ever held, but for what cleaning up moved to the trash: of two copies,
\* left at any point of a save or a move, the one that is read is never behind,
\* if none of the lapses above, other than a stale trash, has happened.
Trashed == UNION {dir.has["events"] : dir \in trash}
LockedWithLatest ==
  lock # NoProc /\ lapses \subseteq {"stale trash"} => saved \subseteq memory[lock] \cup Trashed

\* Replacing the files of a copy one by one never makes a copy unreadable that
\* was readable, wherever it is interrupted: persist_conversation_to writes the
\* base configuration before the events for this.  Only two processes that
\* write at once, one of them unarchiving, can get in each other's way.
WritesKeepReadable ==
  [][\A r \in Roots : \A p \in Procs :
       LET writes == At(p, {"write", "rename", "mkdir"}) /\ todo'[p] # todo[p] IN
         "unlocked" \notin lapses /\ writes /\ Loadable(live[r]) => Loadable(live'[r])]_vars

\* A run need not go on once a lapse has made both of these moot.
Unlapsed == lapses \subseteq {"stale trash"}
=============================================================================
