# A TLA+ model of AYTHER-Runtime

This directory holds a formal model of AYTHER-Runtime: TLA+ modules, TLC
configurations that check them on small instances, and TLAPS proofs of the
properties that matter most. Paths are relative to the repository, which is at
`src/`. `PROJECT.json` maps every definition to the lines it models.

## 1. The system

AYTHER-Runtime plays games through an Engine with high-definition replacements
of their music. Its own logic is in three programs:

* the **Runtime** (`src/src`): the player with its pause panel, preferences,
  saved states, packs and captures, and a *session* that replays a recorded
  take, visibly or not, for quality assurance;
* the **audio QA tool** (`src/tools/audio_qa`): `ayther_audio_qa check`
  supervises replays. It validates a request, registers it in a durable ledger,
  launches one Runtime process per take, reads facts and audio from a pipe,
  keeps them as evidence and ends with a durable summary;
* the **launcher** (`src/tools/replay_qa_launcher`): a window over the same code.

### 1.1 Components

| Component | State | Operations | What makes it correct |
|---|---|---|---|
| Check supervisor, ledger (`check_runner.cpp`, `request_ledger.cpp`, `check_admission.cpp`, `run_recovery.cpp`, `check_summary.cpp`, `request_summary_store.cpp`) | lock, ledger in memory and on disk, rows of takes, cessation | run, recover, admit, take loop, close, summary | a request runs once, whatever crashed; a confirmed outcome is durable; a closed run stays closed; cessation is never claimed of a live process |
| Terminal arbiter (`request_terminal_arbiter.cpp`) | flags of the take, stop of the request | begin, cancel, fail, natural end, controls, confirm | the first decisive event wins, a confirmed result never changes |
| Durable publication (`durable_file.cpp`) | temporary, target, directory | create, write, flush, rename, flush of the parent | readers see whole documents; what was reported survives a loss of power |
| Execution of a take (`check_execution.cpp`) | channels, forwarder, evidence writers, process | launch, deliver, stream, terminal, post-end runs, exit | evidence belongs to its run; the take is settled once the Runtime is gone |
| Channel pump (`channel_pump.cpp`) | bounded queue, flags, condition variable | read, push, pop, close | no loss, no reordering, no lost wake-up |
| Evidence (`incremental_evidence.cpp`, `*_store.cpp`, `audio_integrity.cpp`) | fragments, asynchronous tasks, blocks, segments | append, collect, finish | what is summarised can be audited; segments are exact |
| Checkpoints, quota (`checkpoint_*.cpp`, `evidence_quota.cpp`) | threshold, usage, checkpoint on disk | receive, request, confirm, store | nothing waits unseen; durable means named by a checkpoint |
| Trace of facts (`fact_trace_summary.cpp`, `replay_trace.cpp`, `fact_integrity.cpp`) | tokens of facts, deferred facts | process, exclude, summarize | independent of the order of arrival; agrees with the offline collector |
| Traversal (`inspection_evidence.cpp`) | - | rebuild from events and segments | agrees with the Runtime's terminal; every frame heard has its place |
| Run supervision (`run_lifecycle.cpp`, `replay_terminal_arbiter.cpp`, `cancellation_window.cpp`, `progress_watchdog.cpp`, ...) | phase, deadlines | transitions, observations, polls | one verdict; a late answer withdraws nothing; a quiet watchdog means progress |
| Messages (`fact_batch.cpp`, `control_message.cpp`, `pcm_message.cpp`, `runtime_protocol_v11.cpp`, ...) | - | encode, decode, negotiate | arrive as sent, also between releases; damage is not accepted as something new |
| Processes (`runtime_process.cpp`, `inherited_channel.cpp`) | handles, pipes, children | launch, query, read, terminate | no inherited stray ends, whole output, a query returns |
| Materials (`request_preflight.cpp`, `material_preflight.cpp`, `pinned_*.cpp`, `material_*.cpp`, `file_reservation.h`) | pins, copies, reservations | pin, inspect, probe, hold, stage | what runs is what was validated |
| Isolated saves (`isolated_saves.cpp`) | private directory, snapshot | prepare, verify, remove | the user's tree is untouched, straying is noticed |
| Takes and timelines (`recording_header.cpp`, `pad_timeline.cpp`, ...) | inputs | parse, compile, play | what is accepted plays what was written |
| References (`reference_store.cpp`) | file | write once, read | stored stays readable, partial is refused |
| Queries (`trace_query.cpp`, `evidence_query_index.cpp`, `coexistence_query.cpp`, `coverage_model.cpp`) | what arrived, the index on disk | ask, index, look up, summarise | every route is a recorded chain and the shortest; the index gives back the answer; voices and assignments are counted once |
| Runtime session, inspection (`src/audio_qa_runtime_session.cpp`, `src/replay_inspection`) | controller, Engine position, ring of checkpoints, channel | replay loop, keys, recovery, terminal, post-end run | the position shown is the one held; linear means heard in order; a cancellation ends it |
| Observation (`observation_bridge.h`, `src/audio_qa_inspection.cpp`) | lanes, gate, writer | observe, publish, consume, drain | a trace reported loss-free is complete; nobody starves |
| Player (`src/runtime_application.cpp`, `player_overlay.cpp`, `player_config.cpp`, `save_state_store.cpp`, `game_input.cpp`, `native_runtime.cpp`) | pack, session, panel, files | start, reload, pause, save, resume | plays the pack that was asked for; what is kept is recoverable; held buttons do not leak |
| Presentation (`vulkan_backend/*`, `audio_qa_presentation.cpp`) | slots, fences, swapchain | frame, recreate | no unusable slot, no dead view, the picture comes back |
| Captures (`capture.cpp`, `capture_service.cpp`) | four files per capture | write, rename, clean up | published sets stay whole and unmixed |
| Launcher | form, worker, queue of events | edit, validate, start, cancel, drain, close | shows the last request; runs what it validated |

### 1.2 How they interact, and what is hard

The supervisor calls `execute_check_replay` for each take, which owns a process,
two pipes, a thread that forwards a cancellation and a thread that pumps the
data channel. Ledger, summaries, results and checkpoints reach the disk through
`publish_durable_file`. In the Runtime, Engine threads push facts and PCM into
the bridge, a worker feeds the writer of the data channel, and the session's
thread answers the window, the supervisor and the Engine. The token of a
cancellation is set by a console handler or the launcher's window at any time.

Hard to test are: crashes between two publications, or publications that fail
after they replaced the file; two invocations on one destination; a
cancellation, a failure and a natural end that coincide; the messages that
follow the confirmed result; the destruction of the pump while its thread enters
a read; a recovery that fails halfway and whose way back fails too; facts that
arrive before their causes; files that change between their validation and
their use; a Vulkan call that fails inside a frame; a process that dies between
two renames. `PROJECT.json` lists them under `hazards`, at the lines concerned.

## 2. Modules

| Module | Models | Uses |
|---|---|---|
| `RequestArbiter` | the arbiter as a record, one operator per method; `Settle`, the events in the order of `run_take` | |
| `TakeArbitration` | one arbiter driven by every sequence of calls | `RequestArbiter` |
| `CheckSupervisor` | all invocations of `check` on one destination | `RequestArbiter` |
| `TakeExecution` | one take with its threads, channels and files | `RequestArbiter` |
| `ChannelPump` | reader, consumer and destructor of the pump | |
| `PublishedDocument`, `DurableFile` | what a publication promises, and the system calls that implement it | |
| `InspectionController` | the state machine of an inspectable replay | |
| `ReplaySession` | the Runtime's session of a take and what the supervisor's reader makes of its messages | `InspectionController` |
| `ReplayTerminal` | the presentation's report, the terminal and its codec | `InspectionController` |
| `TraversalEvidence` | the traversal the supervisor rebuilds | `InspectionController` |
| `ObservationStream` | gate, bridge, worker and writer | |
| `Evidence`, `Checkpoints`, `FactTrace` | what the supervisor keeps of a run | |
| `RunSupervision` | lifecycle, cancellation, deadlines, watchdog, sequence of processes | |
| `ProtocolHeader`, `FactMessages`, `SessionMessages` | messages over a channel that damages them | |
| `RuntimeProcesses` | children, handles and pipes | |
| `Materials`, `Launcher` | files of a request; the launcher's two threads over them | |
| `PrivateMaterials`, `FileReservations`, `IsolatedSaves` | copies, reservations and the user's data | |
| `RecordingFile`, `PadTimeline`, `References` | takes, timelines and references | |
| `TraceQueries`, `Coexistence`, `AssignmentCoverage` | what is asked of the evidence of a run: from an event to its audio, which voices sounded together, which assignments were seen | |
| `Player`, `Presentation`, `CaptureFiles` | the player, its picture and its captures | |
| `MCTools`, `MCPlatform`, `MCArbitration` | one run each over components that share no state (below) | |
| other `MC...` | constants and symmetry for TLC | |
| `VerdictProofs` | theorems about `TakeArbitration` and `RunSupervision` | both |
| `DataChannelProofs` | theorems about `ChannelPump` and `ObservationStream` | both |
| `FileProofs` | theorems about `DurableFile`, `FileReservations` and `Launcher` | `DurableFile`; instances of the others |
| other `...Proofs` | theorems about the module they are named after | |

A definition whose comment begins with *Fault* is not part of a specification:
it is the wrong version of the definition after it, and TLC must find a
property violated when it takes that one's place (`mutants` in `PROJECT.json`).

**Pooled runs.** Most components around the supervisor and the session do not
share state with each other. `MCTools` and `MCPlatform` check ten and nine of them
over one pool of variables (`MCTools` extends `RunSupervision`, which has its own
variables), and `MCArbitration` adds the terminal of a take and the trace of its facts
to the arbiter; `part`, chosen in the initial state and never changed, says which
component a behaviour is about. The samples of facts, messages and takes stand where they are used. The state graph is
the disjoint union of the components' graphs, so a property `part = "x" => P`
holds in the pooled run exactly if `P` holds of component x alone. Bounds stand
where each component is instantiated.

**CheckSupervisor.** A supervisor is one process, at most one run of
`RequestRun::run`, with its own random run id; its identity stands for both.
`ledger`, `summary` are on disk; `mem` is lost with the process; `lock` is freed
by the system. Each publication is one step with three outcomes: published,
failed with the old file, failed with the new one (`PublishFaults`), which is
what `DurableFile` shows `publish_posix` can do. A Runtime lives on when its
supervisor dies. Texts, hashes and TOML are left out: a request has an identity
and a content.

**TakeExecution.** `step` is the position in `execute_check_replay`; every early
return goes through `Unwind`, where the destructors of pump and forwarder run.
The Runtime writes any message in any order and exits at any time: the
properties hold against a Runtime that does not follow the protocol.

**ChannelPump.** The mutex makes each step atomic; sleeping on the condition
variable is explicit, and `notify_all`, which follows the unlock at once, is
part of the step. The pipe is bounded in messages, the queue in bytes.

**DurableFile.** One step per system call. The file system is external: the
target is the latest renamed file for readers; after a loss of power it is the
last flushed one or any later one, and unflushed bytes are gone.

**InspectionController, ReplaySession.** The controller is a pure function from
state and input to state and commands, as in the code. The session is one
thread: `pc` is its place in the loop (poll, window, health, work), the Engine
is the frame it is at, the frame held, and whether it still can be used; a
recovery is the set of ways it can end. `wire` is what the supervisor's reader
makes of the channel, message by message, with the same rules as
`check_execution.cpp`. It counts the facts gathered since the last message of facts:
the one that fills the batch (`BatchCapacity`, 256 in the code) sends it. While the
observation lasts the worker gathers Engine facts as well, so `EngineFacts` may send
the batch at any moment; afterwards only events fill it.

**ObservationStream.** Reserving the occupancy, publishing, selecting a lane,
consuming and giving the occupancy back are separate steps of producers and
consumer, because the code orders them with atomics and not with a lock. The
session changes the gate only when no producer is inside an observation, as the
code does by pausing the Engine first. It declares what a silent recovery hid one
fact at a time, and the worker may write between two of them. A message is a
sequence of items, so that what a trace holds and its order are said by positions.

**Evidence, Checkpoints, FactTrace.** A batch is its number; publishing a
fragment is a task of its own (directory, exclusive creation, write). The
threshold is modelled with a clock and the arrival of every byte remembered, so
that "no datum waits unseen" can be said. The trace accumulator is compared
with the collector that sees all facts at the end, over every interleaving of
the lanes. `TraceIsExact` says where the two agree and names where they part: of
several decisions of one request the collector looks at the first alone, so that an
effect of a later one connects only in the accumulator; and where the causes of a
fact disagree (it leads back to two requests, or an effect to a mix or to a decision
of another occurrence) each follows them in its own order. The accumulator finds a
connection that is not there only where an effect leads back to a mix.

**Messages.** A message is a sequence of cells; a TOML document is one cell
holding the record of its keys, so that cutting, extending and altering a
message, and reading it with an earlier release's keys, are what they are in the
code. A hash has no collisions.

**TraceQueries, Coexistence, AssignmentCoverage.** Facts, spans, links, rows and
observations arrive in every order, repeated or not at all, before the question
is asked; the properties compare the answer with a definition over all of them
(chains of causes by their length, sound instant by instant, sets of
assignments). Only the lookup of the index is called by the tool at this commit,
the other functions by their tests.

**Launcher, Materials.** The disk is a function from roles to contents that
anybody changes between two steps; every operator of `Materials` reads it again,
because the code opens files by path each time. The soft patch is a file that probe
and Runtime open but no pin names and nothing holds (`UsesPatch`, `RuntimeReads`).

**CaptureFiles.** Any number of Runtimes share the directory and its clock of seconds,
and so the names of files and temporaries. What is claimed of a capture is claimed
if no other Runtime was writing one of the same second at the same time (`Alone`):
otherwise the one that fails removes the other's files (section 5), and nothing is
claimed of either.

**Player.** Launched twice over the same files; dies between any two steps.
Renames, temporaries, backups and the watcher's debounce are explicit; a pack is
what the Engine makes of its file (absent, good, incompatible, broken).

**Presentation.** Every Vulkan call of a frame and of the replacement of the
swapchain may fail, for the three clients.

## 3. Runs

| Run | Question | Bounds |
|---|---|---|
| `arbitration` | is the result the verdict of the observed events, in any order? Is a take reported as seen only if it was? Does its trace say what the facts say, and what the collector says? | 2 takes, 4 terminal events and 2 controls per take: every triple of events around a confirmation; terminal: 2 frames with one tolerated delay; trace: 7 graphs of 8 facts in 3 lanes, one lost, one excluded, and 28 graphs of 9 facts with two requests, two decisions, an effect and a mix: an effect of the second decision, of both, of a mix, a mix of both requests, a request that follows from a decision, two occurrences |
| `supervisor_two` | is a request executed once, do ledger and summaries agree, does every invocation end, under crashes and failed publications? | 2 invocations one after the other, 2 requests, 2 takes, a ledger of two entries: a repetition, another request, a take after a failed one |
| `supervisor_overlap` | what survives invocations that overlap? | 2 invocations, 2 requests with 2 contents, 2 takes, a ledger of one entry: also a full ledger and a repetition with another content |
| `durable` | is publication an implementation of `PublishedDocument`, on both platforms? | 3 callers, documents of 2 writes |
| `pump` | is the pump a bounded, lossless, live queue, on both platforms? | 4 messages of sizes 1 and 3, limit 3, a pipe of 2: below, at and past the limit |
| `take` | do results and evidence stay with their run against any Runtime, is a cancellation forwarded and the take settled? | 4 messages, 2 post-end runs, one message in flight |
| `session` | is linear heard in order, is the position shown the one held, is the channel readable but for one message, does a cancellation end the session? | 3 frames, checkpoints every 2 frames in a ring of 1, batches of 2 facts (for 256), 3 keys or window events, 1 fault: the end, before it, a checkpoint that was evicted, one failed step of every recovery, a batch that is below its capacity, filled in the take, in the pause and in a post-end run |
| `stream` | is a loss-free trace complete, in every interleaving? | 2 producers, one with a burst lane of 2, lanes of 1, 3 facts, 2 blocks, 1 pause, 1 fault: full lanes, a batch over two messages |
| `player` | is the pack the one asked for, are preferences and states recoverable, do held buttons leak? | 2 launches, 1 frame each, 4 events (keys, edits, faults, deaths) |
| `tools` | ten components, one at a time: supervision of runs (does a run have one verdict, does a late answer withdraw nothing?), launcher, evidence, checkpoints, facts, messages, traversal, queries, coexistence, coverage | supervision: 2 takes of one frame, a clock of 3, deadlines of 1 and 3, no progress for 2: before, at and past each deadline; the others as in `MCTools`: 2 requests, one change of the form and one of the disk; 4 batches (two waiting) and 2 blocks with a disk fault; a clock of 5 for the checkpoints; damage of one place in a message; 4 frames, 5 keys, one loss; 3 facts with 2 spans or links: a chain of two causes, a fact missing, a span explained and linked; 2 occurrences and 2 spans; 3 observations and 2 rows: a repetition, a conflict, another run |
| `platform` | nine components, one at a time: presentation, processes, private materials, saves, captures, reservations, recording, timeline, references | as in `MCPlatform`: 3 failing calls and 2 changes of size; 3 printed bytes; 3 changes of files; 2 captures in 2 seconds by one Runtime with every split view and 2 failures, and by two Runtimes with one view and 1 failure; 2 edits; 2 damaged cells; 5 lines; 2 writes |
| `player_panel` | *expected violation*: are edits saved when the panel is left? | 3 events |

What the properties of the runs say is in the comment above each. Several are
conjunctions of named parts of the same question (for instance `LedgerIsSound`
is `SummaryAgreesWithLedger` and `OneOpenRun`).

`player_panel` finds that `take_config_dirty() && !is_paused()` consumes the mark
of an edit on every frame presented during the pause (`runtime_application.cpp:
1482`), so that leaving the panel saves nothing unless the edit was made in its
last frame. The comment says the opposite.

Deadlock is not checked: every system here may stop (all invocations ended, the
pump closed, the take settled, the window closed, all bounds used up).

**Fairness.** Threads of the tool and of the Runtime that have something to do
are scheduled (weak fairness of their steps). Nothing is assumed of users,
crashes, failures, timeouts or children. `supervisor_two` assumes that a Runtime
process ends, because nothing in the supervisor ends it: the data channel is
read without a deadline. `take` and `pump` say what follows once the Runtime is
gone, or what happens although it never says anything. `session` assumes that
its own thread runs; `stream` that the consumer does, while a producer may stay
suspended for ever. `platform` assumes the thread that draws, the two threads
that start processes, and that the graphics processor ends what it was given.

## 4. Proofs

All constants are arbitrary (any number of supervisors, requests, takes,
callers, any size of document) under the `ASSUME`s of the modules.

* `CheckSupervisorProofs!TypeCorrect`: `Spec => []TypeOK`. The type invariant
  alone is not inductive: a supervisor that is about to recover a run or close
  its own must find it in its view. `TypeInv` adds `KnowsItsStep`, which ties
  each step to the memory it relies on.
* `CheckSupervisorProofs!ExecutedOnce`: without overlapping invocations
  `Spec => []RequestExecutedOnce`. The inductive invariant adds that at most
  one supervisor is active (`Alone`); that the active one's view is the ledger
  or differs only by a publication that was reported failed (`ViewIsCurrent`);
  that a run that executes is in the ledger under its own id
  (`RunIsRegistered`, `ExecutedIsRegistered`); and that a request is registered
  only if the ledger does not hold it (`RegistersOnlyNew`). Failed
  publications are what makes it delicate: the file may hold more than the
  memory knows, and the invocation must then end.
* `FileProofs!TargetAlwaysWhole`, `ReportedStaysDurable`: a temporary file
  is its caller's own and is flushed whole before the rename (`TempIsOwn`), a
  renamed document is in the journal until its call returns or dies
  (`RenamedIsThere`), a reported one within the flushed part
  (`ReportedIsSynced`).
* `FileProofs!Implementation`: `Spec => ImplementsPublishedDocument`, from
  the same invariant: every step is a step of the abstract document or leaves
  its variables unchanged.
* `FileProofs!WriteThroughFailureIsClean`: with write-through every file
  that reached the target was reported (`RenamedIsReported`), so a call that
  returned an error has not touched it.
* `FileProofs!ReservedIsPrepared`: if the volume keeps a change journal (`Journal`;
  without one the revision has no number of its own, `file_reservation.h:64-104`, and a
  write that keeps size and time goes unnoticed). Every change is one more file at
  the path or one more entry of the journal, so a revision counts the content
  (`Counted`, `Asked`), and nobody writes into a file that is held
  (`HeldUntilTheEnd`).
* `FileProofs!ValidatedIsConsumed`, `LastRequestIsShown`, for any forms, requests, edits
  and changes of files. What the Runtime opens is what was validated, except the soft
  patch and a side car that was not there: the code pins neither. `RequestInv` says
  that the files of a slot are the pinned ones and held while the Runtime runs
  (`SlotIsHeld`), so that no change of a file touches them; that the issues of the pins are known before the probes (`PinsAreJudged`); and
  that the outcome of a request that is over is the last event, or shown
  (`LastIsShown`). What the fold over the drained events computes follows from its
  recursive equation once a function that satisfies it is given (`FoldingExists`), since
  only the last outcome counts.
* `VerdictProofs!ResultIsVerdict`: the result of a take is the verdict of
  its events, for any sequence of calls. The invariant adds that a take is
  confirmed exactly when a confirmation had something to confirm; lemmas say
  what one more event does to the verdict of a sequence (`VerdictGrows`,
  `VerdictConfirmed`, `VerdictStays`) and what each method does to the members.
  From the same invariant: `FirstStopKept`, `ControlsAreAccounted` and the
  action property `ConfirmedStays`.
* `CheckSupervisorProofs!AnswersAreTrue` and `RuntimesAccounted`, however the
  invocations overlap: a confirmed outcome is that of a durable summary, and a
  cessation is claimed only of a run without a live Runtime. Neither asks that a
  memory and the ledger agree: an entry, wherever it is (the ledger or the memory
  of any supervisor, however old), is of its run's own request (`Belong`) and
  confirms a cessation only of a run that is over and whose Runtimes are gone
  (`Gone`), which no later step undoes; rows say why a take did not start
  (`RowsInv`), and a take is started once the earlier ones' Runtimes are gone
  (`RuntimesFollow`).
* `CheckSupervisorProofs!SoundLedger` and `FinalRuns` (an action property), without
  overlapping invocations, from the invariant of `ExecutedOnce` and what relates
  the memory of the active invocation to the ledger, step by step
  (`MemoryFollows`). With overlapping ones they are false: the last writer of the
  ledger wins.
* `RequestArbiterProofs`: types of the arbiter's operators, that a settled take has
  a result (`SettledTake`) and a reason (`SettledReason`), used by the proofs about
  the supervisor and the execution of a take.
* `TakeExecutionProofs!TakesAreTruthful`, `ResultsAreFinal`: against any Runtime,
  the evidence of a run holds what arrived while it was open, evidence comes back
  only of a finished execution, and a published result stays. The invariant
  `TakeInv` adds what is true until the execution has answered
  (`NotYetAnswered`), that the forwarder writes one cancellation, after the request
  (`ForwarderFollows`), the moment of the terminal (`MomentIsKnown`), and that each
  run's results were published while it was open (`ResultsAreInTheirRun`,
  `TerminalIsPublished`).
* `VerdictProofs!Supervised`, `LateAnswers`: one verdict and one cause for a
  run, a watchdog that is quiet only while frames are completed, and no answer
  that withdraws a missing one, for deadlines that are numbers
  (`Deadlines`: the three are durations in milliseconds). The invariant relates the
  window's state to the times of its deadlines (`WindowFollows`, `PollStaysRight`)
  and the watchdog's clock to the frames (`DogIsFed`).
* `ReplaySessionProofs!LinearWasHeard`, `SessionCoherent`, for takes of any length,
  any distance and number of checkpoints, any keys and any fault. `SessionInv` adds
  that the controller is in a phase its position allows (`Steered`), that the
  Engine, the ring of checkpoints and the frame held agree with it (`Holds`), that
  what was heard so far without navigation is a prefix of the take
  (`PlaysInOrder`), that a linear end was not navigated (`LinearIsOver`) and that
  the terminal confirmed what was heard (`Confirms`), and what the batch of facts holds
  (`Carries`): once the result is confirmed and until a post-end run opens, the events
  since then, as long as they fit. So the supervisor reads every message unless those
  events fill a batch, and then it does not, for batches of any size (`OverfullFills`,
  `ReadableNext`). That there is a last checkpoint before a frame is shown by the
  least number of frames back to one.
* `DataChannelProofs!FaithfulQueue`: for messages of any number and sizes, whatever
  the order of the threads. `PumpInv` numbers the messages from the consumer
  through queue and reader to the pipe (`Numbers`), keeps the error at the end of
  the queue (`ErrorIsKept`), lets the reader read only with room
  (`ReadsWithRoom`, which bounds the queue) and a thread sleep only where it
  waits (`SleepsInPlace`). `Bytes` is a sum over a sequence; that one more result
  adds its size is proved from the least position at which two such sums would
  differ (`BytesAreTheSum`), since no induction over data is available.
* `DataChannelProofs!FaithfulStream`: for any number of producers, facts, blocks,
  pauses and faults, any capacities, and whatever the order of producers, worker
  and session. `StreamInv` says, as long as nothing was lost (`Clean`): the numbers
  of a producer go on from what passed to the writer, through its lane, to the one
  that is reserved, and only the silenced ones are missing (`Line`, for facts and
  PCM alike); what was sent and what the writer keeps are in order (`Trace`); a
  message names the segment its blocks were played in (`Segmented`), because the
  segments still to start are counted from the blocks that wait (`Waits`); and what
  is hidden is in the interval of its producer, about to be declared, or declared
  (`ExclusionsKept`). `Ends` gives that nothing waits when the session stopped, so
  that what passed was sent. Lemmas say what each call to the writer makes of the
  items (`KeptEffect`, `ConsumedEffect`, `FlushAllEffect`), and that batches, cut at
  whatever fits in a message, hold every fact once and in order (`BatchesSendAll`,
  by the same argument as `BytesAreTheSum`).
* `PlayerProofs!AskedPackIsPlayed`, `KeptStaysRecoverable`, `ButtonsDoNotLeak` (an
  action property), for any number of launches, frames, edits and faults and any
  buttons. `PlayerInv` has a part for each. `PackFollows`: until a session exists
  nothing is held, watched or played; with it an explicit pack is held; a rejected
  one is never watched; and what was opened is still what the file holds when the
  watch begins, unless the edit came in between. `FilesKept`: at the step between
  backup and publication the file is gone and the backup is what was saved last.
  `StatesKept`: a state is renamed to a name nobody has. `GateFollows`: what was
  held when the menu closed is masked, or will be at the step that finds the menu
  closed, since the panel is only shown while that step still sees it open.

The invariants `TakeInv`, `RunInv`, `SessionInv` without its two unbounded types,
`PumpInv`, `StreamInv` without its types, and `PlayerInv` hold in TLC on the instances
of the runs as well.

Only model-checked: liveness and fairness (`InvocationsEnd`, `NobodyIsStuck`,
`TakeMovesOn`, `CancelEnds`, `PublishedIsConsumed`, `AnswersComeBack`), which
TLAPS cannot prove; what recursive definitions and folds
compute (`FactTrace`, the parsers, `TerminalsAreTrue` of `ReplayTerminal`); and
the safety properties of the pooled components other than the arbiter of a take, the
supervision of a run, the launcher and the reservations, whose proofs are in the plan
or not begun.

## 5. What the repository says and the code does not do

Besides `player_panel`, these statements were found violated when checked. Their
definitions are in the modules; the run named in brackets, with the definition as
its only property and the changes given, shows the counterexample.

* `CheckSupervisor!RecoversOnlyInterrupted` [`supervisor_overlap` with `Three`, one
  take, `NoFaults`]: "any run the ledger still has open was left by an interrupted
  supervisor" (`check_runner.cpp:57-59`). A supervisor that could not take the lock
  registers and runs all the same (`check_runner.cpp:541`).
* `CheckSupervisor!UnconfirmedWasRecovered` [`supervisor_two`, one take,
  `NoFaults`]: "A closed run was recovered as incomplete" (`check_runner.cpp:296`).
  A crash between ledger and summary leaves a closed run with complete evidence.
* `DurableFile!FailureKeepsPrevious` [`durable`, `Platforms = {FALSE}`]: "una
  actualización fallida conserva la versión anterior"
  (`tools/audio_qa/README.md:461`). On POSIX the last call can fail after the
  rename (`durable_file.cpp:224`).
* `TakeExecution!CancelAfterTheEndChangesNothing` [`take`, three messages]: "closing
  the window or cancelling after the confirmed result only closes the window"
  (`audio_qa_runtime_session.cpp:1997`). `run_take` asks the token first
  (`check_runner.cpp:419`).
* `ReplaySession!RecordedMeansHeard` [`session`, no faults]: "the frames played
  between an event and the next one are a stretch of their own … or up to the last
  frame consumed after the last event" (`inspection_evidence.cpp:127`). After
  pause, one step back and closing, a frame counts as continued although it was
  not played again.
* `ReplaySession!PostEndFactsBelongToTheirRun` [`session`, no faults]: "Its
  production is silent and its facts belong to the new run"
  (`docs/audio-qa-evidence.md:54`). The first step event is pushed with the
  confirmed run's id before the session is prepared again
  (`audio_qa_runtime_session.cpp:1344`).
* `ReplaySession!ChannelStaysOpen` [`session`]: "the channel stays open until the
  window closes" (`check_execution.cpp:326-327`). In the pause after the confirmed
  result, with no post-end run open, every toggle of the debug overlay is an event. The
  256th fills the batch, `push_fact` sends it (`audio_qa_runtime_session.cpp:114`), and
  the supervisor takes it for an invalid stream (`check_execution.cpp:355`). This is the
  one message that `SessionIsCoherent` excepts (`Overfull`).
* `ReplaySession!SpaceAtTheLastFrameAdvances` [`session`, no faults]: "RF-4.8: at N−1
  Space starts the next take, if there is one" (`inspection_state.cpp:112`). When
  N−1 was reached with the arrow, the session fails with `replay_not_finished`.
* `Player!UnsetIsNotDisableAll` [`player`]: "This distinguishes an explicit "disable
  all" choice from an unset value" (`player_config.h:31`). Saving always writes
  `subsystems = 0`.
* `Launcher!CancelIsOfferedWhileRunning` [`tools`]: "Para detener, pulsa «Cancelar»"
  (the launcher's README, step 6). The outcome of an older request, drained after
  a new start, disables the button.

Also met while modelling:

* *Supervisor.* `recover_open_runs` looks for `checkpoints/latest` while checkpoints
  are published as `checkpoints/current.toml`; the destructor of
  `OwnedRuntimeProcess` does not end the process; `queue_control` accepts a control
  after the natural end of a take.
* *Session.* A failed recovery before the first frame restores frame 0;
  `finish(true)` that fails on the PCM leaves the window open; the result of
  `pause_after_drain` is ignored (`audio_qa_runtime_session.cpp:1684`).
* *Player.* The gain slider reaches 200 % and saving refuses more than 100 %; the
  recommended output is persisted; the backup is never read by the loader; an edit
  of the pack between the session's creation and the watcher's start is missed; a
  hot reload does not validate the pack; two sessions that end in the same second
  lose the second state.
* *Presentation.* The player's picture does not come back once a replacement of the
  swapchain failed (`runtime_application.cpp:1248`); framebuffers of the overlay
  can outlive their swapchain when its rebuild fails.
* *Launcher and materials.* A `.fm` side car created after the preflight is read
  without a pin; `--patch` is never pinned; POSIX handles do not keep writers out.
* *Trace.* An effect that leads back to a mix may hide a connection from the
  accumulator, or make it find one that is not there (`best_cause`); of several
  decisions of one request the collector looks at the first alone; the audit does not
  know main-output PCM named by output spans.
* *Supervision.* In the very millisecond of the response deadline a poll reports a
  missing response that an answer in the same millisecond withdraws
  (`cancellation_window.cpp:45-52`).
* *Processes.* A failed wait leaves the queried child running
  (`runtime_process.cpp:399`); the file identified and the file started may differ.
* *Messages.* A Runtime that offers only protocol 1.1 is refused; the execution
  negotiates without the newest take version (`check_execution.cpp:250`); a hash of
  audio covers the bytes and not the metadata.
* *Private materials.* A resource named as another's `.partial` file is taken away.
* *Queries.* An index with a rate over 192000 Hz is written but refused when it is
  read (`evidence_query_index.cpp:181`); repeated links with one span give one
  route, repeated spans with one identity give two.
* *References.* A reference cut between two of its last tables is accepted with
  fewer entries; the partial file a crash leaves blocks the next write.
* *Terminal.* With a budget of two late frames a lost last frame can be complete
  (`replay_presentation.h:53`); the terminal of an unhandled error with no input
  consumed is refused by its own encoder.
* *Captures.* Two Runtimes that capture in the same second into one directory remove
  each other's files when one fails (`capture.cpp:258`).
* *Reservations.* Without a journal an edit that keeps size and time is not noticed.
* *Traversal.* A loss before the first frame gives frame 0 no audio of its own;
  intervals of segments may be wider than what was heard.

## 6. Not modelled

The Engine and the libretro host are external. Diagnostics, status lines and
metrics only write output. The music restore headers (`music_*.h`) are only
driven by tests. Offline comparisons (`campaign_audit.cpp`,
`runtime_reference_comparison.cpp`, `wav_derivation.cpp`, `mix_model.cpp`) are functions
over stored evidence without state of their own. `request_registry.cpp` and `take_run_sequence.cpp` are only used by
tests. Within modelled components: the syntax of TOML, PNG and JSON, the drawing of
windows, shaders and pipelines, the key router, the scripted inputs, the debug
view and the HD, split and diagnostic keys of the player. `PROJECT.json` gives
each component's status.

`supervisor_overlap` and `supervisor_two` differ in what they can
show: `ClosedRunsAreFinal` and `RequestExecutedOnce` need invocations that do not
overlap, because the last writer of the ledger wins otherwise.

## 7. Plan

Modelled and checked: all of the above. What is left is to prove more of it:

1. A refinement: `TakeExecution` as an implementation of the take steps of
   `CheckSupervisor`.
2. `ReplayTerminal`: that the terminal decoded is the one encoded.
