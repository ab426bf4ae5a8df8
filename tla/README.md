# A formal model of jp

`jp` is a command line client that talks to language models.  This directory
holds TLA+ modules that model its core - a conversation turn, the conversation
it leaves behind in memory and on disk, and the processes that share it -
together with the configurations that model-check them with TLC
and proofs checked by TLAPS.  Paths below are relative to `src/crates/`; `query/`
stands for `jp_cli/src/cmd/query/`.

## 1. Inventory

| Component (code) | State | Operations | Meets | What is hard | What makes it correct |
|---|---|---|---|---|---|
| **Interrupt router** `jp_cli/src/signals.rs` | handler stack, next id, press count and time, shutdown token, a one-slot channel per handler | route SIGINT / SIGTERM / SIGQUIT, push a handler, drop a guard, decline | every command: turn loop, streaming loop, tool execution, lock wait, plugin dispatch | a signal task next to the command: lookup and send are not atomic, guards and receivers drop in any order | a press reaches the innermost scope, a second one shuts down, a third exits; nothing exits first |
| **Process lifecycle** `jp_cli/src/lib.rs` | the command future, the token | select over both, unwind, drain background tasks, clean up | router, locks, tasks | the future is dropped at any await | a requested shutdown ends the process |
| **Turn loop** `query/turn_loop.rs` | phase, restart flag, retry state, pending tools | idle / streaming / executing phases, errors, menus | everything below | await points everywhere, two notification channels, a failing disk | requests are well formed, content survives, the turn ends |
| **Turn coordinator** `query/turn/coordinator.rs` | `TurnPhase`, event builder | start, provider events, tool responses, interrupts | stream, builder | phase derived from the stream | a call is never left unrun |
| **Stream retry** `query/stream/retry.rs` | failures, rebuilds, patch record | reset, retry, authorize a rebuild, back off | turn loop | two budgets with different resets | the provider is not asked for ever |
| **Interrupt menus** `query/interrupt/*.rs` | none | streaming and tool menus | coordinator, router | the menu on a dead stream | each choice does what it says |
| **Pending tools** `query/tool/pending.rs` | id -> approved executor or response | insert, take, build the plan | turn loop | entries that outlive their call | plan and stream agree |
| **Tool execution** `query/tool/coordinator.rs` | a task per tool, a bounded event channel, prompt flag and queue, tool states, results, cancellation | spawn, collect, prompt, inquire, remember answers, cancel, restart | router, prompter, inquiry backend, stream | many tasks and one event loop; one terminal; presses while prompts wait and tools drain | one result per call, one prompt at a time, what is noted is current, the batch ends |
| **Event builder** `jp_llm/src/event_builder.rs` | indexed buffers | part, flush, drain, peek, clear | coordinator | buffers that outlive a request | order and completeness |
| **Conversation stream** `jp_conversation/src/stream.rs`, `stream/*.rs` | events, base configuration | start a turn, push, trim, pop, retain and the turn filters, sanitize, extend, deltas | turn loop, every command | turns are positional; a turn may die anywhere; seven repairs in one order | calls and results pair up, every request is acceptable, events keep their configuration |
| **Compaction and projection** `jp_conversation/src/compaction.rs`, `stream/projection.rs`, `jp_cli/src/cmd/conversation/compact.rs` | overlays in the stream, none of their own | resolve and grow ranges, add overlays, resolve policies per turn, inject summaries, number the turns shown | stream, query, `compact`, `fork` | an overlay names turns by number while edits move them; later overlays over earlier ones | nothing is hidden that its summary does not tell |
| **Conversation commands** `jp_cli/src/cmd/conversation/*` | none | fork, compact (with `--reset`), archive, unarchive, rm, edit, show ... | stream, workspace | a command works on what any other left behind | the copy means what the original meant |
| **Persistence scopes** `jp_workspace/src/conversation_lock.rs` | dirty flag per `ConversationMut` | update, flush, drop | turn loop, storage | drop writes and swallows errors | nothing is lost silently |
| **Conversation file lock** `jp_storage/src/lock.rs`, `jp_cli/src/cmd/lock.rs` | a lock file and its flock, across processes | try, poll, prompt, release, probe and remove orphans | other jp processes | unlink against open, crashes | one process per conversation |
| **Storage** `jp_storage/src/{lib,load,value,validate,trash}.rs`, `backend/fs.rs` | three files per conversation, in up to two roots, live, archived or in the trash | save, load, import, validate, trash, archive, unarchive, remove | workspace | several files per save, two copies, a death between any two calls, a clean-up beside a save | every interrupted state loads, and loads the newest |
| **Workspace and sessions** `jp_workspace/src/*` | index, conversations in memory, session mappings | load the index, lock, create, activate, clean up, sanitize | storage, lock | concurrent processes; what was read before the lock | nothing saved is lost, a live session keeps its mapping |
| **Background tasks** `jp_task` | join set, token | spawn, sync | lifecycle | two deadlines | the drain is bounded |
| **Tombstone map** `jp_tombmap`, **printer** `jp_printer`, **plugins** `jp_plugin`, **MCP** `jp_mcp`, **configuration** `jp_config`, **attachments** `jp_attachment*`, **prompts, editor, Markdown**, **FFI and macOS app** | various | various | various | mostly data conversion | see `PROJECT.json` |

Left aside: `crates/contrib` (vendored forks), `crates/internal`, `.config/jp`
(tools for developing jp), `docs`, recorded conversations.

`PROJECT.json` lists each component with its status, and under `hazards` what
this code makes hard to test, with the properties that cover it.

## 2. Modules

| Module | Models | Runs |
|---|---|---|
| `SignalRouter` | the signal task, the handler stack and the main task that opens and closes scopes | `signals` |
| `SignalRouter_proofs` | theorems about it | - |
| `ToolDialogue` | abstract specification: the provider is only asked when no call is open | - |
| `TurnLoop` | one turn: loop, coordinator, retry, builder, pending tools, persistence | `turn_stream`, `turn_calls`, `reused_call_id` |
| `Selection` | what a selection leaves of a sequence, used by the stream's edits and the turn | through `TurnLoop` and `ConversationStream` |
| `Selection_proofs` | the lemmas about selections and concatenations, by induction over a bounded index | - |
| `TurnLoop_proofs` | types, the request budget, replays, the dialogue, what is on disk; content survives and is said once, calls and results pair up | - |
| `ToolBatch` | abstract specification: every call settled once, the batch reported once, a decision never softened | - |
| `ToolExecution` | the event loop that executes one batch: tasks, channel, prompts, inquiries, interrupts | `tool_execution` |
| `ToolExecution_proofs` | types, finished calls, the refinement of `ToolBatch`, one errand per call, one prompt at a time, replies delivered, notes that agree | - |
| `ConversationFileLock` | the file lock between processes, system call by system call | `file_lock`, `lock_split` |
| `ConversationFileLock_proofs` | theorems about it | - |
| `ConversationStore` | one conversation on disk: saves, imports, moves, removals and clean-up of several processes, with crashes | `store`, `lost_update`, `legacy_upgrade` |
| `ConversationStore_proofs` | that writes keep a conversation readable | - |
| `EventStream` | the edits of an event stream, compaction and projection, as operators | through `ConversationStream` |
| `ConversationStream` | what the commands do to the stream, one after the other, and what providers are sent | `conversation_stream`, `hidden_request` |
| `ConversationStream_proofs` | types, nesting summaries, the configuration of forks, the numbers of the turns shown, requests that are accepted | - |
| `StreamSummaries_proofs` | summaries fit what they replace | - |

How they fit together: `TurnLoop` takes a batch of tools as one step with its
possible outcomes, and `ToolExecution` is what happens inside that step
(`ToolBatch` is the contract between the two).  `TurnLoop` follows one turn closely
- every await, every failing write - and knows of the stream only which calls are
open; `ConversationStream` follows the stream through any number of turns and
commands and knows of a turn only what it appends and where it can stop.
`ConversationStore` takes the lock as given (`lock`), which is the promise of
`ConversationFileLock`, and a conversation's content as a set of edits.

### SignalRouter

`stack`, `nextId`, `presses`/`warm` (the press count and whether the last press is
within the cooldown) and `shutdown` are `RouterInner`; `guards`, `receivers` and
`pending` are the two halves of what `push_handler` returns and the one slot of
the channel.  `router` is where the signal task is inside `route_interrupt`:
`RouteInterrupt` counts the press and climbs the ladder, `Topmost` clones the
sender under the stack's lock, `NotifyTopmost` is the `try_send` after it - the
main task may run between any two of them.  `main` is the command as the router's
client: it pushes scopes, closes their guards and receivers in any order, takes a
notification in the innermost scope, answers (`Handled`), escalates or declines,
has its future dropped, tears down.  The OS coalesces equal pending signals.

`WF(SignalTask)` is justified by the runtime: the task runs on a worker of a
multi-threaded runtime.  The main task is only fair where the code itself goes on:
the select sees the token at the next await (`FutureDropped`), unwinding and
teardown run to the end.  No fairness makes a user answer a menu, or a command
open or close a scope.

### TurnLoop

`pc` is the place in `run_turn_loop` between two points where a press can be
seen: `top` (the non-blocking read of the turn-level channel), `dispatch` (the
match on the phase), `connect` (the provider call), `poll` (the streaming loop),
`decide` (the permission of a flushed call), `backoff`, `leave` (after the inner
loop, with the write that may fail), `tools` (a batch), `done`.  `stream` is the
conversation in memory and `disk` what the durable copy of `events.json` holds;
`dirty` belongs to the live `ConversationMut`, whose drop writes what is unsaved
(`DropScope`) and whose `flush` may fail (`FlushFails`).  An event is a record of
its kind, its call id, the content parts in it and who wrote it - the last two
exist to tell content and repairs apart, no code looks at them.  The event builder
is one content buffer (`text`) and one call buffer (`openCall`).

The environment chooses what the provider sends, when the user presses Ctrl-C and
what the menus answer, permissions, and failing writes.  A press goes to the
innermost handler that is registered at that place (`Press`), which is what
`signals.rs` does with a first press and what `SignalRouter` shows; a second press
or SIGTERM is `RequestShutdown`, after which the future is dropped at the next
await (`FutureDropped`), or a third press ends the process without dropping
anything (`Killed`).

`hist` is history for the properties: requests in a row without an answer, and
content the provider refused.

`FollowUpIsDurable` compares memory and disk without the synthetic results of a
repair, which `sanitize` puts back whenever they are missing.  It speaks of a turn that is under way: `start_turn` drops its scope instead
of flushing it, so a request that opens a turn, and the replays and repairs written
with it, may be in memory alone when the provider is asked.

The fairness is weak fairness of the loop as a whole: a response that has begun
goes on and questions are answered.  `TurnEnds` therefore speaks about the
program's own loops - retries, rebuilds, tool cycles - and holds with the provider
limited to the bounds below and free to fail at every request.

`ToolDialogue` is the abstract specification: `Ask` needs every call settled.
`ImplementsDialogue` checks `TurnLoop` against it with the mapping `open` = calls
without a result, `state` = listening while the response is read, over when the
loop has returned, composing otherwise.

### ToolExecution

`tasks` are the spawned tasks - a tool that runs, a prompt on the terminal, an
inquiry to the assistant - each of which ends by sending one event; `channel` is
the bounded channel they send on.  `promptActive`, `queue`, `states`, `results` are
`prompt_active`, `pending_prompts`, `tool_states` and `results`; `remembered` are
the answers given for the whole turn; `unanswered` counts, per call, the inquiry
requests in the stream that have no response there.  `cancelled` is the
cancellation token, `outcome`, `cancelledTools` and `message` are
`ExecutionOutcome` (by severity), `cancelled_indices` and `cancellation_message`.
A press fills the handler's slot (`notified`), the forwarding task takes it out
(`forwarding`) and sends it as an event; `passedDown` counts what the menu declines.
`dead` are calls whose task panicked.

Every handler of the event loop is an action: a result that is delivered, skipped
or confirmed (`ResultDelivered`, `ResultConfirmed`); a question that is answered
from memory, by the user or by the assistant (`QuestionRemembered`,
`QuestionToUser`, `QuestionToAssistant`); what comes back from each
(`PromptAnswer`, `PromptCancelled`, `ResultModeProcessed`, `InquiryAnswered`,
`InquiryFailed`); and the interrupt with every choice of the menu (`Menu...`) or its
refusal (`InterruptDeclined`).  The end of a prompt starts the next one of the
queue in the same step, as `process_next_prompt` does.

Left out are progress ticks and the rendering of results.  Whether a question goes
to the user and whether a result is confirmed depends on configuration and on
whether there is a terminal; `route` and `delivery` stand for both.  A tool that
rejects a remembered answer is asked, and answered, again without end: `MaxAsks`
bounds it.

The fairness is that the scheduler runs the event loop, the forwarder and every
task that can go on, that a tool which does not panic ends, and that the user and
the assistant answer what they are asked.  The last two are assumptions about the
world.  A tool that panics is the exception: no event comes and the loop holds a
sender itself, so it waits for good; the run says so (`CHECK_DEADLOCK FALSE`) and
`BatchEnds` excepts it.

Three things the model shows without a property against them.  A second interrupt
computes the cancelled calls anew from the results still missing, so a call that
has drained in between keeps what it said.  While an inquiry to the assistant
runs, and for the rest of the turn after a failed pre-render
(`tool/coordinator.rs:503`), `is_prompting` makes the menu decline a press, where
the comment at `interrupt/signals.rs:225-228` speaks of prompts only.  A declined press goes
to the next scope, which is `SignalRouter`'s subject.

### ConversationFileLock

`dir` maps the two paths a lock file may have (user storage and the workspace) to
files, `owner` the files to the process whose descriptor has the flock.  One step
is one system call: `Resolve` (which path), `OpenLockFile` (open or create),
`Acquire`/`Refuse` (the non-blocking flock), `CloseLock` and `RemoveLockFile` (the
two halves of `Drop`), `OpenProbe`, `Probe`, `EndProbe` and `RemoveOrphan`
(`is_orphaned_lock` and the removal in `cleanup_stale_files`), and `Crash` between
any two.  `Resolve` looks at the two paths at once, where the program tests one after
the other; the probe of `sanitize` (`is_conversation_locked`), which holds a free
lock for a moment and removes nothing, is left out.  Paths and attempt counts are locals of one attempt.  Identities of
files nothing refers to are given out again.

The fairness is that a process goes on with an attempt it has begun.

### ConversationStore

A conversation is a directory of three files, `metadata`, `base` (the base
configuration) and `events`.  `live` and `archive` hold the directory of each root,
`workspace` and `user`; `trash` what clean-up has moved away.  A file's content is
the set of edits it holds, `Absent`, or `Torn` (a copy not finished).  `at` is its
modification time on a logical clock that never gives two writes the same time;
`tmp` are the temporary files beside it.  `LegacyMark` marks an events file of a
version that kept the base configuration in it.

A process is the list of file system calls it still has to make, `todo`; what
`persist_conversation`, startup, archiving and the rest do in the source is the
list each begins with (`Persist`, `Startup`, `Moves`).  One step is one call: a file
is written as a temporary file (`WriteTmp`) and renamed (`Rename`), a directory is
removed file by file (`Drop`), an import copies file by file and not atomically
(`CopyFile`), `sanitize` validates (`Check`), asks for the lock (`Probe`) and moves
away (`Trash`) in three steps.  The lock is taken and given back in one step; what
a process read before it has the lock stays in `memory` (`Eager`), as it does for
every query of an existing conversation.  `Unarchive`, `FromArchive` and `Restore`
are `unarchive_conversation`: the directories are moved, the conversation is loaded
and written back, all in the phase `restoring` and without the lock.  `Crash` takes
place between any two calls.

The base configuration is one constant content.  Validating one copy is one step.
The temporary files an import might copy are left out, as are titles (which rename
the directory) and a workspace without user-local storage.  `saved` is history:
what a completed save of the durable copy has held.  So is `lapses`: it notes five
things that the code does not guard against, as they happen:

- "stale copy": a process reads a copy that is the newer one by the time of its base
  configuration alone (`Misleading`), while the other copy has the newer events;
- "stale read": a process gets the lock, and what it read before it waited is no
  longer what is there (`jp_cli/src/lib.rs:794-799`, `jp_workspace/src/lib.rs:910`);
- "stale trash": clean-up moves a copy away that was invalid when it was looked at
  and has become valid since, or is in use by then;
- "unlocked": a process unarchives while another one holds the lock or unarchives, or
  takes the lock while another one unarchives (`jp_workspace/src/lib.rs:725-764`);
- "half restored": a process locks the conversation while its durable copy is in the
  archive, because unarchiving was cut short between the two directories.

No step reads `lapses`.  Processes end, hence
`CHECK_DEADLOCK FALSE`.  There is no fairness: the module is about safety alone.

### EventStream and ConversationStream

`EventStream` has each edit of `stream.rs`, `turn_mut.rs`, `compaction.rs` and
`projection.rs` as an operator on a sequence of events, and `Sent`, what a provider
is sent.  An event's stamp stands for its content and its time; ids of calls are
unique (that providers reuse them is the subject of `reused_call_id`).  A
`TurnStart` and its request share a stamp.  Overlays carry, as history, the stamps
of what their summary was made from.  Events of a newer version are left out: every
edit treats them as it treats a configuration delta.  Stripping of arguments and
contents is data: a stripped event is shown as it is.

`ConversationStream` runs the commands: a query with its three ways to begin (new,
`--replay`, a repeated last request), the cycles of a turn (`Cycle`, `Content`,
`CallTool`, `Question`, `Answer`, `ToolResults`, `Reply`, `Refused`) which may stop
anywhere (`End`), configuration, compaction by one rule or two, `--reset`, and the
filters of a fork.  Two rules of one command only affect each other when both are
summaries, so pairs are taken from those.  A fork takes one filter, by time or by
turns; given both, the program applies one after the other before it repairs the
result (`fork.rs:127-139`), which is not the same as two forks and is not modelled.
Calls ask one question at most.  The results of a batch are committed
together, as the turn loop does.

`Requests` are the streams that providers are asked with in the current state: the
conversation's own, an inquiry's for each open call with any number of dropped
events, and a summarizer's for each range.  The last is made from a stream nobody
repairs; the model takes it where no repair is due.  Compacting a conversation whose
last turn died with an open call does send a call without a result.

`moved` is history: whether an edit that does not go through `retain` - the removal
of a replayed turn, a repair of turn starts - has moved a turn that an overlay
covers.  `sanitize` puts another `TurnStart` in front of a stream that has none of
its requests left each time it runs, where its documentation (`stream.rs:749`)
promises exactly one; forks of forks of such a stream would grow for ever, hence
`MaxLength`.  A fork loses the overlays and a trailing delta (the iterator it reads
through does not yield them), where `fork.rs:123-128` says overlays of the untouched
prefix survive.

## 3. What the runs show

| Run | Bounds | Properties |
|---|---|---|
| `signals` | 3 scopes, 4 signals | the ladder: `SecondPressShutsDown`, `ExitOnlyAfterShutdown`, `PressDuringShutdownExits`; the stack: `StackHoldsLiveGuards`, `PressGoesToTopmost`, `DeclineGoesDown`; `ShutdownEnds` |
| `turn_stream` | 1 content part, 1 call, 2 presses, 1 failing write, 1 retry, 1 rebuild, 2 metadata entries | `ContentSurvives`, `ContentIsNotRepeated`, `FruitlessRequestsBounded`, `ReplayIsAtomic`, `TurnEnds` |
| `turn_calls` | 1 content part, 2 calls, 1 press, 3 failing writes, 1 retry, 1 rebuild, 1 metadata entry | `RequestIsWellFormed`, `FollowUpIsDurable`, `EveryCallAnswered`, `ImplementsDialogue` |
| `tool_execution` | 2 calls of 1 tool, 1 question per call, 1 reply, a channel of 2, 2 presses, 1 panic | `OneErrandPerCall`, `PromptsTakeTurns`, `BooksAgree`, `ReplyIsDelivered`, `FinishedCallsStayFinished`, `BatchEnds`, `Refinement` (implements `ToolBatch`) |
| `file_lock` | 3 processes of which 2 on a terminal, 5 files, 1 poll before the timeout | `NoStrayLock`, `ExclusiveWhileInPlace`, `WaitEnds` |
| `store` | two processes that run every command, one of which reads before it locks; 2 edits, 2 saves, moves or removals, 3 starts, 1 crash; copies in no, one or both roots, live or archived, the durable one or both possibly in the old layout; not beyond a lapse other than a stale trash | `LostByLapseOnly`, `LockedWithLatest`, `WritesKeepReadable` |
| `conversation_stream` | 2 configuration values, reasoning and calls, summaries and an omission, 2 overlays, 5 stamps (a turn's start and request share one, a batch's results another), forks of up to 5 events | `RequestsAccepted`, `SummariesFit`, `SummariesNest`, `OriginsPartition`, `ForkKeepsConfig` |

Why the bounds are enough:

- `signals`: three scopes are the depth the program reaches (the turn, the
  streaming or tool loop, the backoff), and four signals are one more than the
  ladder has rungs.
- `turn_stream`, `turn_calls`: two calls give one per response and two in one
  response; one retry and one rebuild give a budget that is used, refused and reset,
  and the two metadata entries one patch more than the rebuilds allowed.  A turn
  starts on a new conversation, on one whose last request was cut off, and on one
  with a complete turn, with and without a replay.  Three failing writes let the write of
  the opening request fail, and later a flush with the drop behind it.
- `tool_execution`: two calls are one whose prompt is on the terminal and one in the
  queue, and the two share what is remembered; a channel of two is full with one
  event of each, so that the forwarder has to wait; two presses are a decision and
  one that comes while the cancelled tools drain.
- `file_lock`: three processes are a holder, one that waits and one that cleans up;
  five files let each have one open next to one in each path.
- `store`: two writers are a holder of the lock and one that reads, waits, cleans up
  or unarchives next to it; with the third start one of them comes back after a
  crash.  Two saves are one that may be interrupted and one on top of what it left.
  The first of two edits may be in the copies at the start, so that there is a save
  to lose before the second.  All five lapses happen within the bounds.  The
  constraint `Unlapsed` ends the runs in which one of the four lapses that two of
  the properties except has happened; `WritesKeepReadable` speaks of more of them,
  which is left to its theorem.
- `conversation_stream`: five stamps reach two turns with a summary between them, a
  call with a question and its answer, and a command on what a dead turn left; two
  overlays nest, overlap and share a command.

`ContentIsNotRepeated` leaves out turns with two presses on purpose: after a stop
that follows a stale turn-level notification the builder still holds what the stop
committed, and the turn's early completion commits it again.  `EveryCallAnswered` counts
the synthetic result that a repair gives an interrupted call as an answer.
`LostByLapseOnly`
leaves out what happens once any of the five lapses has; `LockedWithLatest` allows
for a stale trash and leaves out what clean-up moved to the trash.
`lost_update` and `legacy_upgrade` are "stale read" and "stale copy" as findings; an
unarchiving that meets a save loses it just as well, and has no run of its own.
`ContentSurvives` allows for what only the event builder holds when a turn ends in
one of five ways: the provider call fails (`connect error`, `turn_loop.rs:339-342`;
the builder is only filled there after a rebuild, which keeps it, where
`retry.rs:274-276` has a failed stream commit first because streamed text must never
be dropped), a menu is aborted, a write fails, the command's future is dropped, the
process is killed.  It does not say that a failing write is always made good: a turn
that completes without an interrupt is on disk whatever writes failed on the way, any
other may end in memory alone, with the failure only logged
(`conversation_lock.rs:407`).
`SummariesFit` speaks of streams in
which only `retain` removed turns; `HiddenIsSummarized` is the same promise for all.

Five runs end in a counterexample; each is a statement of the repository's own
documentation that the code does not keep:

- `lock_split`, `MutualExclusion`: the probe lists a lock file as orphaned, a
  process that had it open takes the flock, the listed path is removed, and the
  next process locks a new file.  The close-then-remove of `Drop` gives the
  same end with a waiting process.  `ExclusiveWhileInPlace` is what is left:
  holders whose file is still in place exclude each other.
- `reused_call_id`, `EveryCallAnswered`: the Google and Ollama providers number
  their calls anew in each response.  A call whose id already has a response, in
  any turn, counts as answered and is never run.  `turn_calls` shows the property
  with unique ids.
- `lost_update`, `NothingIsLost`: a query reads its conversation before it waits for
  the lock and keeps what it read.  What the holder saves meanwhile is overwritten
  by the query's first save, in both roots.  `store` shows the property for
  processes whose memory is what is there when they get the lock, but for the other
  lapses.
- `legacy_upgrade`, `NothingIsLost`: a conversation in the old layout is saved, and
  the process dies between the projection's `base_config.json` and its
  `events.json`.  The projection now looks newer, has the old events and loads; the
  next save writes them over the complete durable copy.  The cause, a choice between
  two copies by the time of the base configuration, needs no old layout: with two
  crashes, one while the projection is removed and its base configuration is gone,
  one in the next save after that file is written again, the same happens between
  two copies of today's layout.
- `hidden_request`, `HiddenIsSummarized`: a turn is summarized and replayed.  The
  overlay stays, the replacement takes the turn's number, and the provider is sent
  the summary of the removed turn in place of the new request.  A fork that leaves
  no request at all, is compacted and then queried has the same end by the repair
  of its turn starts.

## 4. What is proved

`SignalRouter_proofs` proves, for every number of handlers and signals, the type
invariant, the four safety invariants of the run and its action property
(`TypeCorrect`, `StackIsLiveGuards`, `ForcedExitIsLastResort`,
`SecondPressAlwaysShutsDown`, `PressReachesTopmost`, `DecliningGoesDown`).  Only the two bounds being natural numbers is assumed.  The
invariants are not inductive alone: the press count must be bounded by what the
shutdown token says while a press is on its way (a first press that is being routed
has count one), every live id is below `nextId`, and the stack is strictly
increasing; `PressGoesToTopmost` needs the last fact to know that what is above the
target was pushed later.  The proofs have one step per action.

`ConversationFileLock_proofs` proves, for every set of processes, of files and every
timeout, `TypeCorrect`, `NoLockOutlivesItsHolder` and `FlockExcludesInPlace`.  The
inductive invariant `LockInv` adds what the code relies on without saying: a place
that works on a file has it open, a holder's file is locked by it, a place that
works on a path knows it.

`TurnLoop_proofs` proves every safety property of
`TurnLoop`, for any numbers of content parts, calls, presses, failing writes,
metadata entries, retries and rebuilds (`TurnConstants`: natural numbers, and at
least one call because a past turn may have made one).

- `RequestsAreBounded`: the provider is asked at most `MaxRetries + MaxRebuilds + 1`
  times in a row without an answer.  The bound is not inductive.  `BudgetInv` says
  who pays: every unanswered request was paid for by a retry or a rebuild, but the
  one being read (`RequestsPaid`), and a batch of tools never runs in a turn that is
  complete (`PhaseAtPlace`), as its end sends the phase back to streaming and would
  open a request nobody paid for.
- `TypeCorrect`, from `Typed`, which adds that a call in the conversation has an id
  and where the plan and the flags are meaningful.  It rests on the lemmas that each
  operator on conversations gives a conversation: what it cuts, removes, repairs or
  appends.
- `ReplaysAreAtomic` and `DialogueImplemented`, from `CallInv`: a turn that has not
  begun has the conversation it found, every result and every entry of the plan has
  a call, all calls have results where the provider is asked, and a conversation
  that has a request on disk has one in memory.  Every step is shown to write what
  it leaves in memory or nothing (`StepWrites`); a write that took the last request
  away would contradict the last conjunct.  For the refinement each step is one of
  `ToolDialogue` or a stutter under the mapping, with the ids of calls and results
  as the sets the mapping is about.  It holds with reused ids too.
- `FollowUpsAreDurable`, from `SaveInv`: outside the places in which the live scope
  has changes the disk has the conversation, while no write failed (`Saved`), and
  has it up to the repairs once the turn is under way (`Durable`), because a flush
  that fails ends the turn.
- `ContentAlwaysSurvives`, from `ContentInv`, `Saved` and `EndInv`: what was streamed
  is in the conversation, in the builder or discarded (`Accounted`), and not in the
  builder alone once the response is complete or the turn over, but for the five
  endings (`Committed`).  Every ending short of a kill drops the live scope and so
  writes the conversation, unless a write failed; and a turn that completes without
  a press has flushed with success on its way (`EndInv`).
- `ContentIsSaidOnce`, from `OrderInv`: parts are numbered as they are streamed; what
  is in the conversation is in that order, and what is in the builder lies behind
  it, unless the builder has just been committed and is on its way out (`Spent`).
  Injectivity follows from the order, and the order is what survives cutting,
  repairing and concatenating.  One press is at one place at a time (`OneRx`), which
  is why a stop cannot meet a second stop; with two presses it can, and the content
  is repeated.
- `RequestsAreWellFormed` and `EveryCallIsAnswered`, from `PairInv`: each id is there
  once as a call and once as a result, the result behind its call with no request in
  between; the ids are those given out, and the one in the builder is new (`Fresh`);
  a plan holds calls of this turn that have no result (`PlanPending`); and while
  nobody pressed, a turn that is complete has no open call (`Settles`).  Both assume
  `~ReuseIds`, a provider that gives each call an id of its own.  The hypothesis is
  needed: `reused_call_id` is the counterexample without it.

TLC checked the inductive candidates on the bounds of the two runs before they were
proved.  The first attempt at `FollowUpIsDurable` failed for a good reason: the
property then spoke of every request but the first, and with three failing writes a
turn whose opening request was not written, and whose first response failed with
nothing received, asks again with that request still in memory alone.  That is what
the code means to do - nothing of the turn has been seen yet - so the property now
says when the promise begins, and the run has the third failing write.

`ToolExecution_proofs` proves, for any batch, any questions and any capacity of the
channel, `TypeCorrect`, `FinishedCallsKept` (an interrupt never cancels a call that
has its result) and `ExecutesABatch`: the event loop implements `ToolBatch`.  The
steps are sorted into three by a summary of what each does to the results, the
cancelled calls and the verdict: one handler gives one call its result, an
interrupt takes the cancelled calls from the ones still missing and the verdict
from `Upgraded`, which never lowers it, and the rest touches neither.  A result that
came for a call which already has one would be a stutter of `ToolBatch`; that none
comes is `OneErrandPerCall`, proved next.

Then `OneErrandEach`, `OnePromptAtATime` and `RepliesDelivered`, for any finite
batch.  The first two are counts: the tasks, the
events on the channel and the queued prompts of a call together are one until it has
its result and none afterwards (`ErrandsInv`), and those that belong to prompts are
as many as `prompt_active` says (`PromptsInv`).  Both are inductive with the types,
the second with the help of the first: a prompt that is taken from the queue is not
on the terminal already, as its call would then have two.  `StepShape` sorts the
steps into seven shapes by what they do to the three places (a task reports, a task
dies, an interrupt comes or goes, an event settles its call, starts a task, asks for
a prompt, or hands the terminal over), and each shape keeps both counts.  A reply
is delivered because the menu is only shown while a result is missing, so the
cancelled calls it goes to are there.

And `BooksAlwaysAgree`: `tool_states` and the inquiries
recorded in the conversation agree with what is under way for each call
(`BooksInv`, inductive with the types and `ErrandsInv`).  An event is all there is
of its call when it is handled, so what the books say of the call before is known
from the event, and what they say after is what the handler starts.  The handler
that frees the terminal touches two calls, the one that was answered and the one
whose prompt comes next; they differ because the second has nothing but its place in
the queue.

`ConversationStore_proofs` proves, for any set of processes, commands and early
readers, any copies at the start and any bounds, `TypeCorrect`, `StoreInvariant` and
from it `ReadableThroughout`: no directory that is made, no write and no rename of a
save makes a copy unreadable that was readable.  The argument is that at most one
process at a time has calls that change the conversation: the holder of the lock, or
one that unarchives (`Works`, `Alone`); that a temporary file waiting to be renamed
belongs to it; and that the events of a copy are written directly after the base
configuration of the same copy.  Unarchiving takes no lock, so this lasts until a
process that unarchives meets another one, which is the lapse "unlocked": the
invariant is `OneWorks`, and the property excepts the same lapse.

`LocksLatest`, for the same constants and every command: a process that locks the
conversation works with all that was saved, but for what is in the trash, until one
of the lapses other than a stale trash has happened.  The invariant is `LatestOK`,
and it is about every process that has calls to make, not about the holder alone.
What can be read of the durable copy holds what was saved, and while it cannot be
read the projection does (`DiskIsLatest`); a projection with newer events is not
behind (`ProjectionIsNewest`), so that `pick_newer` is right either way; the durable
copy is in one place (`Once`).  A process has a plan that fits (`OnPlan`): what is to
be done behind the write of the durable copy is done when that copy holds what the
process works with, it imports only what it then writes over, and it removes the
durable copy only if nothing was ever saved; it
does not write while the durable copy is in the archive (`NotHalf`); and once it has
read the conversation it knows what was saved (`Knows`).

`Selection_proofs` is what the turn's proofs and any about streams rest on.  The
library's induction theorems take the induction hypothesis as an operator, which the
provers cannot instantiate; `InductionUpTo` takes it as a set of indices instead,
and its proof, by the least index left out, needs no induction theorem.  With it
follow that a function defined by recursion on `0 .. n` exists, what `Pick` selects
(a sequence of the same elements in the same order, as a strictly increasing map of
indices), and what `FlattenSeq` concatenates.  Selections are written with `Pick`
because `SelectSeq` is opaque to the provers.

`ConversationStream_proofs` and, for the last, `StreamSummaries_proofs` prove all six
invariants of the stream, for any values, policies and bounds; that the bounds are
natural numbers, that there is at least one stamp and that policies are among the
four kinds is all that is assumed (`ConstantsAssumption`).  The stream's length, the number of its turns and overlays,
and the length of what a filter leaves are not bounded by what TLC reaches.

- `TypeCorrect`: `Past(clock)` is what an event made before the clock can be, and
  every edit leaves a sequence of these.  It gives the prover the types it needs for
  everything below (`Progress`).
- `LaterSummariesCover`: `Grown` is repeated as often as there are overlays.  A round
  that changes anything touches an overlay the round before did not, so the last one
  changes nothing (`SummaryRangeFixed`), and what the range touches then lies inside
  it.  Every other edit keeps the overlays it keeps in their order.
- `ForksKeepConfig`: by induction over the events that are copied, what has been
  written ends in the configuration the next event is compared with (the tail of
  `Extended`), and a delta is written where the two differ.
- `StreamsStaySound` is the inductive invariant of the rest.  `Started`: the first
  event is a `TurnStart`.  `Directed`: a `TurnStart` behind anything but other
  `TurnStart`s is followed by its own request, with nothing of the conversation in
  between; without it a repair could leave a turn with no request, or a filter two turns
  in one.  `Orderly`: ids are unique and the result is behind its call with no
  `TurnStart` and no request in between.  `Waiting`, while a turn runs: calls without
  a result are of the request that comes last, so that the results a repair or a
  batch adds stay in their turn.  Each edit is an embedding of the stream it edits
  into the one it leaves (`Embeds`, `Spared`): what is kept is in order, what is added is
  named.  `sanitize` is followed through its seven repairs in their order;
  between two of them `Directed` holds for all but the last event
  (`AlmostDirected`), which the trim of the trailing turn makes good.
- `OriginsCover`: a turn is shown if it is not summarized as the one before it is,
  and stands for the turns up to the next that is shown (`Run`).  The proof counts
  the `TurnStart`s of the view: the view opens a turn exactly where such a turn
  begins, and the numbers of the turns that open it partition those of the stream.
- `RequestsAlwaysAccepted`: a stream is `Sendable` if it is sound, is opened by a
  request and has no open call.  The projection of a sendable stream is accepted whatever
  overlays it has: summaries replace whole turns, an omission takes calls with their
  results, and both leave the request of the turn.  That a repaired stream, an
  inquiry's and the one a summary is made from are sendable is shown one by one.
- `SummariesAlwaysFit`: overlays name turns by number, so the theorem is that, but
  for the edits `moved` records, no edit brings an event of another turn to a number
  that an overlay it keeps summarizes.  The invariant is `FitProgress`: while `moved`
  is false, what an overlay's summary covers is what it was made from (`Faith`), and
  the last turn it names is there, with another one behind it while a turn runs
  (`Behind`), which is why what the turn appends is never summarized.  What makes it inductive is about repairs.  The repair
  of the turn starts leaves one `TurnStart` before the first request where several can
  have gathered, and then the turns behind have new numbers; `moved` sees that only if
  the starts can be told apart.  They can: stamps are in order (`Aged`), the last
  start before the first request is younger than the others (`Fresh`), because a
  repair leaves one and a new turn makes the next, and a turn that runs has no such
  others, so that the repairs inside it move nothing (`Opening`).  `retain` is the
  other half: what it drops an overlay for is the first turn it takes something
  from, and turns behind that one keep numbers no smaller than its own (`FarTurns`),
  whatever is filtered.  An inquiry that is shortened loses the first event, and with
  it every overlay.  TLC checked `FitProgress` on one value and summaries alone, with
  two overlays and five stamps, before it was proved.

Only model-checked: the liveness properties (`ShutdownEnds`,
`PressDuringShutdownExits`, `TurnEnds`, `BatchEnds`, `WaitEnds`), as fairness and
`ENABLED` are beyond the prover; `LostByLapseOnly`; and the five counterexamples.

## 5. Not modelled

Formatting, rendering and logging; durations (a backoff, a poll and a cooldown
elapse or do not); idle timeouts and size limits of a response, which reach the
loop as stream errors; the diagnostic text in a lock file; Windows, where an open
file cannot be removed this way; locking without `flock`.  Components with status
`not_modelled` in `PROJECT.json` say why.  In detail:

- **Session mappings** (`jp_workspace/src/session_mapping.rs`).  A model would need
  the unlocked read-modify-write of `record_session_activation`, the migration of
  old keys and `cleanup_session_file`, which loads a file, judges it by what was
  loaded and removes or rewrites it: an activation in between is lost.
- **Event builder by index** (`jp_llm/src/event_builder.rs`).  `TurnLoop` keeps one
  content buffer and one call; `drain` commits several unflushed buffers in the
  order of a hash map.
- **Background tasks** (`jp_task/src/handler.rs`): the drain is a bounded wait in
  `SignalRouter`; its two deadlines are not told apart.
- **Turn loop.**  Two things are in the model that no run asks about.  Abort leaves
  the loop with a dirty scope, whose drop writes the events the cycle has flushed,
  although `interrupt/handler.rs:61` says the response is not saved.  A reply
  composed while a stale turn-level press waits is committed and the turn completed
  before it is sent.
- **Storage.**  An import or a removal that was interrupted can leave metadata and
  events without the base configuration; such a copy validates and, when it is the
  newer one, cannot be loaded, although the other copy is complete.
  `LostByLapseOnly` says that the content is there, no property that `jp` reads it.
  A copy that is trashed while it is in use is not lost either as long as the trash
  is kept, but the next writer goes on from the other copy: a reader finds the
  user-local copy invalid in the middle of an import, the writer completes its save
  and is killed before the projection is written, the reader moves the complete copy
  away, and what is left is the old projection.
  `conversation edit --events` writes without the lock, where
  `docs/rfd/020-parallel-conversations.md:282` says it takes it; editors of the
  files are not modelled.  Unarchiving takes no lock either; it is modelled as it is.
  Removing the temporary conversations that have expired when a command ends
  (`jp_cli/src/lib.rs:574`, `jp_workspace/src/lib.rs:355-368`) takes no lock either
  and is not modelled: the conversation has no expiry.
- **Stream.**  The merging of content parts, the serialization of events with its
  storage encodings, event metadata, and the attribution of messages.
- **Providers, plugins, MCP, configuration, attachments, terminal input and
  layout, the tombstone map, the foreign interface**: data conversion or one request at
  a time; what they may answer is the environment of the modules above.

## 6. Plan

Done, in this order: the interrupt router; the turn loop and the dialogue it
implements; the file lock; the proofs of the two concurrent protocols and of the
turn's request budget; the execution of a batch with the contract it implements and
its proofs; the store with crashes and its proof; the stream with compaction,
projection and the commands; the proofs of the turn loop; those of the store's
types and of its writes; those of the
stream's types, summaries and what they replace, forks, views and requests.

Worth adding, in this order:

1. Session mappings as files that several processes rewrite and clean up.
2. The event builder by index against the order of the parts, and the two
   deadlines of `TaskHandler::sync` as a refinement of the bounded wait.
