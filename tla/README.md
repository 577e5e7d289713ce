# audio.cpp: specifications and proofs

TLA+ models of the parts of audio.cpp that are hard to test: request threads that
share models, downloads that share a directory, bodies and answers that are
streamed while a model runs, and key/value caches. The modules are translated from
the code; TLC checks them on small instances, and TLAPS proves most of their safety
for every value of their constants.
`PROJECT.json` lists components, runs, mutants, findings, hazards, theorems and
the source lines each definition stands for.

1. [The system](#1-the-system): inventory
2. [The modules](#2-the-modules): what each models and how it corresponds to the code
3. [The runs](#3-the-runs): bounds, and what each shows
4. [Fairness](#4-fairness)
5. [The proofs](#5-the-proofs)
6. [Findings](#6-findings)
7. [Abstractions, and what is not modelled](#7-abstractions-and-what-is-not-modelled)
8. [What could come next](#8-what-could-come-next)

To check a run: `tlc -config MCBusyGuard.cfg MCBusyGuard`. To check the proofs:
`tlapm BusyGuard_proofs.tla`.

## 1. The system

audio.cpp runs speech and audio models on ggml. A command line program runs one
request; an HTTP server keeps models in memory and runs requests on them; both go
through the same session interfaces of the framework, which each model family
implements. A Python script downloads model packages, from a shell or from the
server.

Who talks to whom:

    HTTP connection ── handle() ──> ServerState ──> BusyGuard (one per model)
       │ live body                     │   └──────> session of a model family
       └── AudioChunkStream ───────────┘                 └──> decode caches, graphs
                                       └──> ModelInstaller ── std::system ──>
                                            model_manager_v2.py <── a shell

Each connection has a thread of its own, so every handler can run beside every
other. The server and the script share only files; two processes of the script
share nothing else either, and no lock.

### Run guard (`app/server/busy_guard.h`): modelled

*State*: a timed mutex and an atomic stamp, the time at which the present run
locked it. *Operations*: `acquire` (with or without a bound; fails fast if the
present run is older than the bound, otherwise waits no longer than the bound)
and the destructor of `Lock`. *Hard*: the stamp is read and written next to the
mutex and not under it; a run may never end; 0 means no bound in two places.
*Correct when*: one run at a time; the stamp is set exactly during runs and never
makes a run look older than it is; nobody is refused without a cause; a bounded
caller always gets an answer.

### Model registry and lifecycle (`app/server/runtime.cpp`, `ServerState`): partly modelled

*State*: the list of models and the index from ids to positions, under
`models_mutex_`; of each model the configuration under `metadata_mutex`, and the
session, two interface pointers and the flag `loaded` under its guard.
*Operations*: look up, load (lazily, at a run; or by request, with
reconfiguration or registration), unload (one, some, all), list, run (four
routes). *Interactions*: the guard; sessions; the installer. *Hard*: three kinds
of lock taken in different orders, several handlers that read without them, what
was read before the turn and is used after it, a load that fails half way, a
load that hangs. *Correct when*: a run has a session with the interface it uses
and keeps it to its end; a session matches the configuration; what a load and a
listing say is true; the index and the list agree; handlers do not wait for each
other in a circle, and nobody waits for ever who asked for a bound.

### Package commands (`tools/model_manager_v2.py`): modelled

*State*: files in target directories (shared by the precisions of a family),
manifests, staging directories, cancel files. *Operations*: install, uninstall,
clean-partial; list, info, sizes and installed only read. *Hard*: processes
interleave without a lock and can be killed at any point; files are shared; what
was looked at before is used after. *Correct when*: a target directory never holds
a partial download; an install that succeeded is complete; removing a package
leaves its siblings installed; a failed install leaves nothing that blocks the
next one.

### Model installer (`app/server/model_installer.cpp`): modelled

*State*: jobs under `State::mutex`, a worker thread for each active one, the scan
of the package inventory with its generation. *Operations*: start, stop, clean,
remove, package sizes, change of the models root. *Hard*: stop races the start
and the end of its worker, scans race installs and removals, the root must not
change under a download. *Correct when*: a job is active exactly while it has a
worker; a stop is not lost; complete means installed; an inventory reported as
complete is that of the disk; every job ends.

### Bounded decoding cache (`framework/runtime/cached_decode.h`, `bounded_static_kv_decode.cpp`, `kv_cache.cpp`, `models/voxtral_realtime/text_decoder.cpp`): partly modelled

*State*: the policy's cursor, the graph with its cache, mask and cursor of its
own. *Operations*: begin (prefill), step, growth. *Hard*: two cursors that must
agree when the graph grows; a ring indexed by the absolute position; a capacity
that is a power of two cut at a window that need not be one; steps that fail
after they have changed something. *Correct when*: a decoded token attends to
exactly what prefill would let it attend to.

### HTTP connections and chunked bodies (`app/server/http.cpp`, the streamed bodies of `runtime.cpp`): partly modelled

*State*: of a body, what was received, de-framed and published, a deadline and
two caps; of a connection, what its client was sent. *Operations*: the reads of a
live body; the writes of a streamed answer, from its head to its last chunk or
its error. *Interactions*: the body is read, and the answer written, by the thread
that holds the model's turn. *Hard*: the client can stall, flood or leave at any
byte; a body that was cut must not look like one that ended; bytes are buffered
before a cap or a deadline is looked at; an error can happen in the handler of an
error. *Correct when*: a body is delivered whole or ends in an error, within its
deadline and cap; an answer says once, and truly, how it went; a client cannot
keep the model. Left out: the head of a request, ordinary bodies and responses.

### Streaming driver (`app/streaming`): modelled

*State*: the source and how far it was read, the caller's sink that the session
keeps, what the session was given. *Operations*: start, feed chunk by chunk or
pull, finish, and a failure of any of them or of the sink. *Hard*: short, empty
and odd chunks; the sink must be taken back on every path; the session outlives
the run. *Correct when*: the session hears each sample of the source once, in its
place (the code keeps this only for chunks of whole frames, section 6); a failure
leaves a session that the next run finds fresh and without a sink.

### Voice sessions: cache slots and graph capacities (`cache_slots.h`, `session.cpp` of the framework, `models/pocket_tts`): partly modelled

*State*: the slots of prepared voices, one runtime and the capacities recorded
for it, the key/value slots of that runtime. *Operations*: prepare, run, chunk by
chunk: choose the capacities, keep or build the runtime, import the voice, write
the prompt, step. *Hard*: the runtime of one request is reused for another voice
and other sizes; four capacity modes; an allocation may fail after the key of the
runtime was written. *Correct when*: a step attends to its voice, its prompt and
the steps before it and to nothing else; a runtime that was chosen has room; the
slots hold the voices used last. Left out: the operations of the slots and the
controller that this session does not use.

### Not modelled

- *Accept loop and shutdown* (`serve_http`, `main.cpp`): a loop whose only state is
  its detached threads. Its hard case, the end of the process under running
  threads, has memory errors for outcomes.
- *Graph executor and rolling cache of the flow models* (`graph_executor.cpp`,
  `flow_kv_cache.cpp`): a cached graph is identified by addresses, which a state
  model has not; the rolling cache shifts rows of tensors, in sequence.
- *Workflow engine* (`app/workflow`): steps and batches, single-threaded; what it
  does is a function of its input.
- *Model registry and model specifications; server configuration, uploads and
  assets*: parsing, without state after start.
- *Command line programs*: one request, sequentially.
- *Tensor framework and model families*: floating point arithmetic, by far the
  largest part of the repository and out of a model checker's reach. The server
  and the drivers see them through the session interfaces, which are modelled;
  the decode cache of `voxtral_realtime` and the session of `pocket_tts` are
  modelled as users of the framework's caches.
- *Web interface*: a client of the server.

## 2. The modules

| module | what it is | uses |
|---|---|---|
| `ModelTurn` | abstract: what a run guard promises | |
| `BusyGuard` | the guard, access by access | implements `ModelTurn` |
| `ServerModels` | registry, locks and runs | one `ModelTurn` per model |
| `PackageManager` | the script's commands as processes | |
| `ModelInstaller` | jobs, workers, handlers, scans | runs the commands of `PackageManager` |
| `BoundedDecode` | decoding over a bounded cache | |
| `BodyPromise` | abstract: what the reader of a live body is promised | |
| `ChunkedBody` | the de-framer of live bodies | implements `BodyPromise` |
| `StreamRun` | one streaming run: source, session, sink | |
| `LiveRoute` | streamed answers, from the connection to the session | `ModelTurn`, `StreamRun` |
| `VoiceSession` | voice slots, capacities, runtime and its cache | |
| `..._proofs` (8) | theorems of the module they are named after | `ModelInstaller_proofs` the lemmas of `PackageManager_proofs` |
| `MC...` | constants of the runs | |

**ModelTurn** has one turn, and callers that ask and are granted or refused; only
those with a bound may be refused. It is the interface between the guard, the
registry and the connections: the guard is shown to implement it, the registry to
take each model's turn only as it allows (`UsesTheTurns`), and `LiveRoute` is built
on it.

**BusyGuard**: one action per access to shared state. `LoadSince` and
`CheckOverrun` are lines 102 and 103-110, apart because nothing keeps them
together; `ReadClock` and `StoreSince` are the two halves of line 117; `ClearSince`
and `Unlock` are the body of the destructor and the destruction of its member.
Times are ages: a stamp is 0 when it is taken and grows with `Tick`, up to
`Horizon`, which is larger than every bound, so that a comparison with a bound
comes out as with the real age. `held` and `met` are history, for the properties.

**ServerModels**: `pc` is the place of each client's handler. `Begin` is the dispatch
of `handle`; `LiveLimits`, `Lookup`, `ReadMode`, `ReadBound`, `Grant`/`Refuse`,
`EnsureLoaded`, `LoadModel`/`LoadFails`, `StartRun`, `FinishRun` follow a run;
`LockMetadata`, `Reconfigure`, `FinishLoad` a load of a registered model, and
`MakeDraft`, `LoadDraft`, `RegisterIndex`, `PushModel` one of a new model;
of a configuration the model has the task, the mode and the weights, and whether task
and mode can be parsed (`Parses`), which is looked at after the configuration is stored;
`Sweep`, `SweepAll`, `ResetModel` are the three ways to unload; `BeginList` and
`ListModel` the listings. `Return` is every end of a handler: the destructors
release what it holds. A shared lock taken and released within a step is its
guard (`Shared`); the exclusive one is held across steps.

**PackageManager**: a step is a system call, or a run of calls that only reads. A
file is its output path with content absent, part or whole. `InstallCheck` is the
decision what to download, `OpenFile` and `CloseFile` a download, `BeginMerge`,
`MergeFile`, `EndMerge` the move into the target directory, either as one rename
or file by file. `RemoteFails`, `SeeMarker` and the failing disjuncts are the
exceptions; `Crash` is a kill.

**ModelInstaller** has `PackageManager` with a process for each worker and one for
the handlers (`std::system` waits, and the handlers are serialised by
`model_installer_mutex_`). `Start`/`AddJob` are the two halves of `start`, with the
cancel file removed before the lock is taken; `BeginWork`/`EndWork` the two
critical sections of the worker; `BeginCommand`/`EndClean`/`EndRemove`/`CommandFailed`
the handlers that run a command; `package_sizes`/`ReadPackages`/`EndScan` a scan;
`SetModelsRoot` the change of the root with its check and its new installer.

**BoundedDecode**: `graph` is the decode graph with the slots of its cache, its own
cursor and the mask; `cursor` is the policy's. A key is the position it was made
for, so that what a step attends to is a set of positions. `Begin` is a new
runtime, with the prefill's state imported; `Step` is growth, mask, write,
attention and the advance of both cursors; `StepFails` stops after any of the
first three.

**ChunkedBody**: a body on the wire is any sequence of units (a line that reads as a
size, a CRLF, anything else), with the places where the client began a chunk. Which
units are framing and which are data is for the de-framer to find out: data that looks
like a line, or a size that takes framing for data, are bodies like any other. Data is
named by its place on the wire. `Send`,
`Close` are the client; `Underflow` is what `underflow` decides when the get area is
empty, `ReadHeader`, `TakeChunk`, `ReadTrailer` the parts of `next_chunk`, `Poll`,
`Receive`, `Interrupted` those of `receive_more`, and `Take` the reader. The deadline and
the cap are looked at where the code looks at them. `ChunkAt`, `Chunks`, `Content`
and `Whole` say what a body means, the places of its data and whether it ends as it
should, from its units at rest and not by reading them; they are what `BodyPromise` is
instantiated with, so that a de-framer that loses, doubles or invents data, or takes
a broken body for a whole one, does not implement it.

**StreamRun**: `phase` is the place in `run_stream`. `Read` is a read of either source,
with what a short or cut read makes of the samples (`ReadPcm`, `ReadBuffer`), a sample
being its place in the source; `ProcessChunk` the session's share of a chunk and the
sum that becomes the next start sample; `Pull`, `Finish` the rest. A session may send
events in any of these and throw in most; `Throw` is the handler that takes the sink
back.

**LiveRoute**: one thread and one client per connection. `SendHead` to `AnswerError` are
the places of `handle_client` and of the body writers of the four streamed routes: live
transcription, transcription of a file, speech as events and as raw audio. An answer
is the sequence of its pieces (head, delta, done, last, error, end, 500, and cut for
one that a timeout left unfinished). `Run` is a step of `StreamRun` by the connection
that has the turn; `Deliver` is the sink, a write in the same thread. The audio of a
live request comes as `BodyPromise` says: in order, then its end or an error.

**VoiceSession**: `ResolveVoice` is the lookup in the slots (`find`, `put`),
`PrepareRuntime` the choice of the capacities, the test of the runtime's key and the
building of a new one, `ApplyPrompt` and `Step` what is written into the key/value
slots. A slot holds the name of what was written there: a step of a voice, of the
prompt, of the generation, or padding. The ticks of the slots are kept as ranks,
since only their order is ever read. `age` is history: how many other voices were used
since each was. Every place may throw, and the next request
finds what is left.

## 3. The runs

Every property of a passing run also has a mutant: a definition of the model
changed as a plausible bug would, under which the property fails.

| run | instance | states | shows |
|---|---|---|---|
| `guard` | 2 callers, policies 0 and 2, requests 0, 1 and 3, Horizon 4 | 102 000 | safety, liveness and refinement of the guard |
| `server_models` | 2 clients with 2 calls each, 2 ids, 5 configurations | 316 000 | registry, loads and runs; bounded requests are answered if loads end |
| `package_shell` | 1 shell, 3 packages, 2 of which share a file | 6 300 | commands one after another |
| `installer_jobs` | 2 packages of their own, 4 calls | 349 000 | jobs, stops, scans and the root |
| `installer_live` | 2 packages that share a file, 3 calls, kills | 187 000 | no partial file installed; every job ends |
| `bounded_decode` | windows 1, 5, 8, 11, streams of 1, 3, 4, positions to 36 | 795 | growth, ring and failed steps |
| `live_body` | 9 bodies, 4 sets of limits, a window of 2, 3 ticks | 83 000 | the promise, the deadline, the cap, and an end |
| `live_route` | 2 connections, 7 sources, 1 event a run | 467 000 | what sessions hear and clients are told; the turn comes back |
| `voice_session` | 3 voices for 2 slots, 5 configurations, 2 chunks | 957 000 | attention, room, slots and rebuilds |

The violation runs, `package_removal_race`, `voice_runtime_lost` and
`stream_channels_rotate`, are in section 6.

**guard.** `StampMarksTheRun`, `StampNeverOverstates`, `RefusalHasACause`,
`TimeoutIsTheTighterBound`; `ImplementsTurn` and, with fairness, `ImplementsFairTurn`, which
includes that one caller runs at a time and that a bounded caller gets an answer. The
bounds cover a policy without a bound, a request without one, one tighter and one
looser than the policy, and runs older than each of them. Two callers are enough: a
caller sees of the others only whether one holds the mutex and what it stamped; and
the safety part is proved for any number.

**server_models.** Two calls each, because a property needs a call that prepares
(a load, a reconfiguration, a sweep) before the one that goes wrong. The
configurations are an offline-only family, one with both interfaces, the same
with other weights, in the other mode, and in the other mode with a task that cannot
be parsed. One model is configured, lazy; the other id is free, so that registrations
race with lookups, sweeps and listings. `RunHasItsInterface` is about the run function that was
chosen before the turn; `RunningSessionStays` about unloads during a run;
`SessionMatchesConfig` about loads and reconfigurations that fail half way;
`LoadAnswersTruthfully` about what a load reports; `RegistryConsistent` about two
registrations of one id; `WaitsAreShort` about the three kinds of lock, which are taken
in different orders. `BoundedRequestLeaves` is liveness and covers the whole wait, from
the lookup to the turn, and not only the guard's part: two calls per client let a hanging
run, a load and a bounded request meet; what waits, waits for one holder.

**package_shell.** All sequences of commands (the state space is finite without a
bound on their number), with cancel files coming and going and downloads failing
at any point. Three packages: two precisions with a common sidecar and one
unrelated. `InstallIsComplete`, `NoStrandedFiles` and `SiblingsStayInstalled`, which is about
the steps of a removal itself, hold for one process; how far they do for more is in
sections 5 and 6.

**installer_jobs.** Four calls reach start, stop, start and remove of one package
with a scan, or a change of the root, in any order with the workers. The packages
share nothing, since what siblings do to each other is the business of the
package runs. `ActiveJobsAreTheWorkers` is what makes `jobs.at()` in the worker safe:
if it threw it would throw again in the handler of the exception, and end the
process. `InventoryIsFresh` is about overtaken scans; `StopIsNotLost` about stops that
race the start and the end of a worker. No command is killed in this run: a killed
install may have changed files without a refresh, and the inventory would be old.

**installer_live.** Two packages that share a target directory and a file, with
commands killed anywhere. `NoPartialDownload` is `OnlyWholeFilesInstalled` of
`PackageManager`, for all the processes of the server. `EveryJobEnds` is liveness.

**bounded_decode.** The windows are a power of two and not, and one below the
smallest cache; prompts are below, equal to and beyond the windows
and the buckets; 36 positions let a ring of 11 turn three times. `AttendsToTheWindow`
compares a step with the mask of prefill; `PositionsAreConsecutive` is what would
break if the two cursors disagreed when the graph grows; `RebuildsAreRare` is the
comment on the two configurations: a stream never rebuilds, an offline run at least
doubles. The state space is small because decoding is deterministic: only the prompt,
the configuration and the failures are choices.

**live_body.** The bodies: one whole with a trailer, one whose chunk is two windows,
chunks longer and shorter than they say or without their CRLF, one beyond the cap on a
chunk, one without its last chunk, one with too long a trailer, one whose declared size
makes the next line of framing data. The limits: all, none,
only a total deadline, only an idle one with a cap. Any part of a body may have come
with the headers; the client may stop, go on or close after every unit; two ticks of
deadline let data be buffered before it and read after it. `KeepsThePromise` is the
refinement of `BodyPromise`; `LateIsOneWindow` is what the windows are for;
`CapIsNotOvershot` also covers what came with the headers; `BodyEnds` is liveness.
Deadlock is not checked: a body is over.

**live_route.** One connection with a live request, the other with any streamed kind,
so that runs of different kinds follow each other in one session, after success and
failure. The sources: a body that fails, with chunks in frames; one of three channels
that ends inside a frame, with chunks in samples that the channels do not divide;
buffers of several chunks, of one that cuts a frame, and malformed; runs from text with and
without events to pull. One event a run is enough, since an event is either delivered or
ends the run. `HearsItsBlocks` is about the samples of each chunk: that blocks come in
order, once, in whole frames and from their first sample. That nothing is lost between
them is `HearsTheSource`, which the same instance violates. `SinkIsTheRunners` is about
whose connection a session writes to; `DoneIsEarned` and `EndsOnce` about what a client
is told; `LiveGivesTheTurnBack` is liveness.

**voice_session.** Two voices with states of the same length and one shorter, so that
a runtime is kept for another voice and must not be kept for a third; two slots, so that
the third use evicts; every capacity mode, with and without rounding, one with
allocations that fail; texts that need more prompt or more steps than the one before.
`AttendsToItsOwn` and `HasRoom` speak of runtimes that are what their key says, and
section 6 of the others; `KeepsTheLatest` compares the slots with the ages;
`RebuildsToGrow` is what reuse is for.

## 4. Fairness

- *Guard*: weak fairness of time and of each caller inside `acquire` and the
  destructor: threads are scheduled. None for the end of a run, since a wedged
  GPU call never returns, and none between waiters: the mutex goes to any of them.
- *Server*: weak fairness of each request's thread, that is of its next step, of the
  refusal, which `ImplementsFairTurn` of the guard justifies, or of the end of a load,
  whichever is next. None for the end of a run. Weak fairness suffices although mutexes are not fair, because each
  client makes finitely many calls; with an endless stream of others a waiter could
  starve, and no property claims otherwise.
- *Installer*: weak fairness of the worker and of its command, whose reads of the
  network time out (`urlopen(..., timeout=...)`) and which otherwise only computes;
  and of the handler's second half.
- *Live body*: weak fairness of time and of the reader's thread. The client owes
  nothing: it need not send, and need not close. Bodies are finite: a client that sends
  a little for ever, where only the idle limit is set, is outside `BodyEnds`.
- *Live route*: weak fairness of each connection's thread. Clients owe nothing; a write
  to a client that does not read is no step unless a send timeout ends it. That a read
  of a body and a wait for the turn end is what `BodyEnds` and the guard show. Sessions
  are assumed to compute: a run that wedges keeps its turn, which is what the guard's
  bounds are for.
- *Packages, decoding, voice sessions*: safety only, no fairness.

## 5. The proofs

What TLAPS proves holds for every value of the constants that meets the assumptions
named in the modules: any callers, models, packages, files, bodies, connections,
windows or voices, whatever the bounds of the runs. Every variable of every state
machine is proved to keep its type (of `BoundedDecode` as part of its invariant).
Most properties are not inductive as stated; for each module, this is what had to be
added.

**BusyGuard_proofs** (389 obligations). Assumed: `Nobody` is no caller; policies and
requests lie below the resolution `Horizon` of the clock. Theorems: `TypeCorrect`,
`MutualExclusion`, `StampCorrect`, `StampBounded`, `RefusalJustified`,
`RequestNeverWeakensPolicy`, `GuardImplementsTurn`. `StampBounded` is about the stamp the
callers share, and not about the copy that a caller has loaded for its fail-fast check,
which may be an earlier run's when it is compared (section 6). That the shared stamp is
not older than the locking needs that a caller about to store its stamp is the owner and
read the clock after it locked; that refusals have a cause needs that a caller
with a stamp in hand met its owner, and that one that waits did. `IInv` is `TypeOK`
with three parts: `OwnerInv` (who is between locking and unlocking owns the mutex),
`StampInv` (which stamp each place of the code has), `CauseInv` (who met whom). Each
part has a lemma with one step per action, and uses the parts before it. The
refinement shows that `Init` maps to the turn's `Init` and that each action maps to
an action of the turn or to a stutter.

**ServerModels_proofs** (2058). All the properties of `server_models`, and `TypeCorrect`. `IInv`: `Types`;
`Places` (the model a handler works on is registered); `Registered` (index and list
agree but for the one registration that is in progress, whose client holds
`registry`); `ModelsAreSound` (session, mode, flag and configuration of each model and
of each draft belong together, also after a load that failed half way or a reconfiguration
whose task or mode could not be parsed); `Turns` (who
is in a place that holds the turn of a model has it, and nobody else); `Uses` (what a
handler has found out about its model at each place after it got the turn). `Turns` is
what carries the rest: it says that two handlers past the turn of one model are the
same, so what one has found out no other can have changed. That the list has no more
entries than there are ids, which `TypeOK` needs, is a cardinality argument: the index
maps ids to places one to one.
`NoCircleOfWaits` needs one thing more, `MetadataKept`: who has the metadata lock of a
model is at a place that keeps it, with the turn of that model. So of what a handler
waits for, the turn and the registry are kept by handlers that wait for no lock, with
one exception: a listing keeps the registry while it waits for the metadata of a model,
and whoever has that waits for nothing. A chain of waits is a lookup that waits for a
listing that waits for a load, and no longer, for any number of handlers; none closes
a circle.

**PackageManager_proofs** (2159). `InstallsAreComplete`, `NothingIsStranded` and
`SiblingsAreKept`, for any number of processes, and `TypeCorrect`. Section 6 shows what
processes can do to each other, so the three have a hypothesis on who works beside whom:

- `Alongside`, for `InstallsAreComplete`: processes that work in one target directory at
  the same time are installs that replace nothing. So precisions of one family can be
  downloaded beside each other, by shells or by the server: each of them is complete, or
  fails.
- `Apart`, for the other two: no two processes work in one target directory at the same
  time, as when there is one shell (`OneShellIsApart`). Two installs would be too many:
  one that finds a file in its way half way through its moves strands what it has moved.

The lemmas are about one step of one process, so that the next module can use them for
the server's processes. Assumed, as in every specification the repository ships: a
package declares a file, and packages with a file in common have the same target
directory. The invariants build on each other:

- `FilesInv`, for any processes: the types and `StagedWhole` - a process between two
  files has no partial file staged, one that downloads has only the current one, and one
  that merges has none, so that both the rename and the moves put whole files in place.
  It has to cover `CleanPartial`, which takes staging directories from their users.
- `Gathers(q)`, while processes are `Alongside`: q has a staging directory exactly while
  it downloads, and handles files of its package only (`InItsPlace`); what its package
  needs is there, staged or still to do (`GetsAll`). Its own steps keep this whatever
  files it finds (`OwnStays`); a process next door could disturb it by a cleaning or by a
  removal only (`TouchesItsOwn`, `AddsFiles`).
- `Tidy(q)`, while they are `Apart`: besides, what it moves finds its place free or
  replaces it, and what it removes is there (`FindsPlace`). So a process that has begun to
  move or remove files does not fail of itself, which `Shapes` says: it lists what a step
  does to the target directory.
- `FilesAccounted`, while they are `Apart`: of a directory in which q works, every file
  belongs to an installed package, or to one that will be when the files to do are moved,
  or is itself to be removed, and no other installed package needs those (`Accounted(q)`);
  of a directory in which nobody works (`Quiet`), every file belongs to an installed
  package (`Settled`). While q removes, the package that a file belongs to must be
  another than the one removed: a file that was kept for a sibling is accounted for by
  the sibling. What is handed over is the directory: from `Settled` to `Accounted` when a
  command starts in it, and back when its end is reported.

**ModelInstaller_proofs** (847). `JobsHaveWorkers`, `DownloadsKeepTheRoot` and
`StopRequestsAreKept`, from `JobsInv`: the types of what concerns jobs, the first two
properties, that a job being stopped has its request recorded (which the worker's
start and end look at), and that the package a clean or a removal works on has no
active job. The last is what makes the proof go through: the handler forgets the
job at its end, long after it looked, and only `model_installer_mutex_` keeps a
start from coming in between. Assumed: the handlers' process is none of the workers'.

`PartsStayStaged` and `TypeCorrect` are about all the commands the server runs,
interleaved and killed anywhere, from `FilesInv` of the module above, which is
instantiated with the server's processes (`Commands`; `SameWork` shows that the steps of
both instances are the same).

`CompletedAreInstalled` has the hypothesis that the commands are `Alongside`, and
`InventoriesAreFresh` and `NothingIsStranded` that they are `Apart`. Two theorems say when
this is so: `DownloadsAreAlongside`, while the server only downloads, whatever its packages
share; and `SeparateIsApart`, if packages have target directories of their own, as in the
run `installer_jobs`. Both come from `Owned`, which ties processes to jobs: a worker at its
command runs the install of its package, the handler the operation of its call, and
nothing else runs. With the processes gathering their files, an exit with success means
that they are there.

`InventoriesAreFresh` needs besides that no command is killed: a killed one has changed
files, and the inventory is refreshed only after success. `FreshInv` says that while nothing
is being changed (no process is `Dirty`: it has begun to move or remove files and was not
reaped yet) every scan that was not overtaken has seen the disk as it is. `DirtyStep` shows
that a command changes files only then, and does not get out of it before its end is
reported, which refreshes. `NothingIsStranded` is that of the package commands, for the
processes of the server: it too needs that none is killed, since nothing puts back what a
killed one had moved, and it covers the change of the models root.

**BoundedDecode_proofs** (1044). `DecodingAttends`, `PositionsFollow`, `GraphsAreKept`.
`IInv` relates the graph to the cursor: `Agree` (the two cursors are the same until the
ring is full at the size of the window), `Latest` (each valid slot holds one of the
latest positions, in the slot it belongs to; only the slot of the next step may hold
the write of a step that failed), `MaskFits` (an uploaded mask shows the valid slots,
and perhaps that of the next step) and `Sized` (a cache is a power of two or the
window). The arithmetic of the ring is in two lemmas: positions less than a ring apart
have different slots (`SlotsAreDistinct`), and the slot of the next position is that of
the one a ring before (`OneTurnBefore`), so a write replaces exactly the position that
leaves the window. That a bucket fits, and that the next one is twice as large, is
arithmetic of powers of two: between `n` and `2n` there is one (`BucketFits`), and twice
one is one. It takes an induction on the exponent. The library's induction theorems are
out of reach (they take an operator), so the lemma `Induction` states it for sets of
numbers, from the theorem that a well-founded relation has minimal elements
(`WellFoundedInduction`); the powers themselves are a recursive function (`Doubling`),
which `DoublingExists` and `DoublingUnique` give its values.

**ChunkedBody_proofs** (1241). `TypeCorrect`, `LateBounded`, `CapKept`, `PromiseKept`.
`LateInv`: what was taken late and what is still published are together at most a
window, because nothing is published after the deadline. `CapInv`: a read in progress, a
published window and an end that was told all imply that what was received is within
the cap, and a poll is only under way while something is missing; so the receipt that
exceeds the cap finds nothing published. `PromiseKept` is the refinement: every step of
the de-framer is a step of `BodyPromise` or a stutter. It needs `ReadInv`, which relates
the cursor to the structure of the body: `PlaceInv` (at each place of the code the
cursor stands behind a chunk, inside one with as many units to come as the size line
promised, or in the trailer; what is published is data) and `TakenInv` (what was
delivered is exactly the content before what is published, in order). A body is any
sequence of units, so the lemmas about bodies (`SoundChunk`: what the code reads as a
chunk is one; `NoDataBetween`: between the end of a chunk and the data of the next there
is none) carry the induction that would otherwise run over its chunks.

**LiveRoute_proofs** (1859). `SinkFollowsTurn`, `SessionIsFree`, `AnswersEndOnce`,
`BlocksAreHeard`, `SourcesAreHeard`, `DoneIsTrue`, `TypeCorrect`. For the sink: `TurnInv` (who was granted the turn is
preparing or running, and nobody else is) and `SessionInv` (a session has a sink and
sends events only during a run, which is some connection's). The same two say that a run
begins only when no other is in progress (`SessionIsFree`): `StreamRun` has this as a
guard, and the code has not, because the turn sees to it. For the answers:
`WireInv`, one shape of the wire for each place of `handle_client`; the place of the
outer handler is the interesting one, where either nothing was sent yet or the client is
gone, so that no second head follows. For the audio: `FedInv`, that what was heard are the
first blocks of the source, each but the last at its full part, that the next start sample
is their sum, that a chunk in hand is the block that comes next, and that a source that
has ended has given all its blocks. Its arithmetic is in lemmas about blocks: the full part
of a block is the most that is made of frames (`FullParts`), and a read that comes back
short, or takes the last of a buffer, is the last (`NextBlock`, `PcmNext`, `BufferNext`).
Nothing is assumed of the channels and chunks. `SourcesAreHeard` speaks of the runs whose
chunk is a multiple of the channels, which a policy in seconds makes sure of and any
policy does for one channel: such a run hears its source in place, also when runs that cut
frames came before it in the same session. For the others it is false (section 6).
`DoneInv` carries "all blocks of a whole source were heard" from the end of the run, over
the place after it, to the answer that has told the client it is done.

**VoiceSession_proofs** (1399). `TypeCorrect`, `Attention`, `AllocatedAttend`, `Room`,
`Rebuilds`, `LatestKept`. `Core` is the types with `WorkInv` (a request at work has a voice and a
chunk), `ChosenInv` (a chunk that was given a runtime was given one whose key has its
prefix and enough of the rest), `StepsInv` and `FixedInv` (with fixed capacities all
runtimes are alike). The capacity lemmas show that each mode returns at least what was
asked for, or none. That `Attention` and `Room` are stated for runtimes that are what
their key says is not a convenience: section 6 shows the others, and
`AllocatedAttend` that a failed allocation is all it takes to get one. `LatestKept` has an
invariant of its own: `Ages` (the ages of the voices are 0, 1, 2, ... without a gap, each
once) and `Entries` (the entries are the voices younger than the number of slots, and
the rank of each is its age from the other end). Ages make it provable: stated with the
sequence of uses, the property would need cardinalities of sets that change at each use.
A find, a put where there is room and a put that evicts have a lemma each (`FoundKept`;
`RoomBehind` and `FullBehind`, which share `AddedKept`).

Only model-checked is what needs fairness, which this prover does not reach:
`ImplementsFairTurn`, `BoundedRequestLeaves`, `EveryJobEnds`, `BodyEnds` and
`LiveGivesTheTurnBack`. All other properties of the passing runs are proved.

## 6. Findings

Each has a run in which TLC finds the violation.

- `package_removal_race` (`SiblingsStayInstalled`): a removal that looked at its siblings
  before one of them was installed removes the file they share
  (`model_manager_v2.py:432`), against `docs/model_manager.md:99-101`.
- `voice_runtime_lost` (`AlwaysAttendsToItsOwn`): a runtime that could not be allocated
  leaves its capacities in the key of the cached runtime, which stays the old one
  (`acoustic_model.cpp:107`). A retry of the request hits, and runs on a runtime with
  another prefix: its steps attend to empty slots and miss slots of the prompt, without
  an error. The comment at `acoustic_model.cpp:90-92` says why this must not happen.
- `stream_channels_rotate` (`HearsTheSource`): a raw source drops the samples behind the
  last whole frame at every read and not only at the last (`pcm_source.cpp:89`). The
  chunk of `nemotron_asr` is a number of samples (16000, `session.cpp:399`), as are that of
  `vibevoice_asr` (`session.cpp:657`) and the default (512, `session.h:260`), and the live
  route accepts 1 to 16 channels (`runtime.cpp:2099`). With 3 channels a sample is lost at
  each chunk, the next one begins inside a frame, and the channels rotate; the answer
  says done. A buffer with the same chunks throws (`streaming.cpp:60-62`), although the
  comments at `streaming.cpp:81-82` and `pcm_source.cpp:87-88` and the test at
  `test_streaming_audio_input.cpp:116-117` say that the two routes are alike.

Consequences the models have, or the code read for them has, and no property forbids:

- *Guard*. The fail-fast check can compare the stamp of a run that is over with a later
  clock, and refuse although the model is free (`busy_guard.h:102-103`); the comment
  on `Lock` (68-70) excludes stale stamps.
- *Server*. A load holds the metadata lock until it is done, and a bounded request takes
  that lock to read its bound (`runtime.cpp:1047`, `1687`): while a load hangs, its wait
  has no bound, and a listing that waits for the same lock holds `models_mutex_` and
  stops every lookup. `unload_models` leaves the flag `loaded` set (`runtime.cpp:2310`).
  Of two overlapping sweeps the second reports a model as unloaded that had no session
  any more (2340). A reload that differs only in `config_id` or `weight_id` is answered
  `loaded: true` and changes nothing (1048); `LoadAnswersTruthfully` therefore speaks of
  the fields that are compared. A reload whose task or mode cannot be parsed leaves the
  new configuration with the old task and the old mode (1063-1067): it is refused, but the
  same request again finds nothing changed, loads with the old ones and is answered
  `loaded: true`. Of such requests `LoadAnswersTruthfully` claims the weights only.
- *Installer*. A second start, refused, has already removed the cancel file of the
  download that is being stopped (`model_installer.cpp:309`). A stop that comes after the
  command's last look at the cancel file has the job reported as cancelled and the
  package installed (370). A command that was killed while it moved files leaves an
  inventory that does not say so.
- *Packages*. Cleaning one precision removes the staging directory of a sibling's
  download (`model_manager_v2.py:457-467`), not only abandoned ones as
  `docs/model_manager.md:43` has it. The download then fails; but if the cleaning comes
  between two of its files, the next one makes the directory again (205), the files from
  there on are installed, and the command succeeds, and the server's job is complete,
  without the files before. The server looks only at the job of the package that is
  cleaned (`model_installer.cpp:494-498`). The theorems say that nothing else does this
  to a download, short of a removal or an `--overwrite` beside it.
- *Streams*. The speech routes and `stream=true` of a transcribed file write their
  answers under the model's turn without a send timeout, so that a client that stops
  reading keeps the model; the comment at `http.cpp:737-741` has the live route as the
  only one. Raw audio has no event to refuse with: a refusal is an empty answer. After a
  send timeout the error event is written into a chunk that was cut.
- *Voice sessions*. The key of a voice is its path or the name of a preset: a file that
  changes under it is not seen.

## 7. Abstractions, and what is not modelled

The components without a module, and why, are at the end of section 1. Within the
modules:

*Guard*: memory order is that of the code's acquire and release operations on one
atomic, which a single sequence of steps covers. A machine that suspends makes
ages jump; the model ages in steps.

*Server*: a request to unload some models names one id. `live_ingest_limits` and the
sweeps read the registry without its lock: the model has the outcome in which
`models_.at()` throws between the two halves of a registration, and not the memory
errors such a race may also lead to. The live route's unlocked read of `task.mode`
sees the old or the new mode. Request parsing, replies, voice presets, uploads
and the work of a run are left out; `prepare` and `run` are the place `running`,
which may throw at once.

*Packages*: packages that share a file have one download record, as in every
specification shipped. Checks of `Content-Length` are assumed to have a length to
compare with; a server that sends none makes a short download undetectable.
Symbolic links, `--check` and `--dry-run` are left out. Two steps that only read
are one.

*Installer*: progress figures, messages and log tails, the legacy converter, a
missing script and a thread that cannot be created are left out. A new models
root is empty. Scan threads of the installer of a former root report to a state
nobody reads any more, and are dropped.

*Decoding*: every layer does the same; positions are far below their 64 bits. The
batched cache, `retain_prefix` and `reset_to_empty_cache` have other users.

*Live bodies*: a line of framing is a unit, so what a line looks like is not
modelled, but for whether it reads as a size; data may be units of any kind. Caps count units. Time
is in ticks, which pass a deadline at any point between two steps.

*Streams*: what a session makes of its audio is left out, but for its events and its
exceptions. `MaxEvents` bounds the events of a run. The live source is cut or ends as
`BodyPromise` says, and its deadlines are the business of `ChunkedBody`. A response
that is not streamed, keep-alive (there is none) and the head of a request are left out.
A send is one piece: which bytes of it arrived is not modelled, only that some did.

*Voice sessions*: backend, threads and context sizes do not change during a session.
A chunk has a number of prompt steps and a maximum of steps; what text they come from is
left out. What happens to a step beyond the last slot is undefined in the code and no
step of the model; `HasRoom` shows that it does not come to that with a runtime that is
what its key says. Rounding uses a finite set of powers of two. A voice is put into the
slots only after it was not found there; that a put of a present key is a use too
(`cache_slots.h:54-60`) is not reached by this session.

## 8. What could come next

The parts of the system with state, concurrency or failures of their own are modelled,
with three exceptions: the accept loop at the end of the process, whose question is
whether threads outlive what they use and could be asked of a model of lifetimes; the
controller and slots as their other users use them (`retain_prefix`, `clear`,
`set_capacity`), each of which is a session like `VoiceSession`; and sessions of other
model families, of which `pocket_tts` and `voxtral_realtime` are examples. The theorems
that are missing are the properties under fairness.
