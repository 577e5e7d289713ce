---------------------------- MODULE ServerModels ----------------------------
(***************************************************************************)
(* The model registry of the HTTP server: class ServerState of             *)
(* app/server/runtime.cpp, with the request threads that look models up,   *)
(* load, reconfigure, unload and run them.                                 *)
(*                                                                         *)
(* Three kinds of lock interact: models_mutex_ over the registry, one      *)
(* metadata_mutex per model over its configuration, and one BusyGuard per  *)
(* model over its session.  The guard is used through what ModelTurn.tla   *)
(* promises; the property UsesTheTurns says the server keeps to it.        *)
(* Critical sections that neither wait nor call into a model are one step. *)
(*                                                                         *)
(* Data.  A configuration is [source, weight, task, mode, serves]: source  *)
(* stands for the fields a load request is compared by (path, family,      *)
(* options), weight for those it is not (config_id, weight_id), task and   *)
(* mode are the task and the run mode as text, and serves is the set of    *)
(* modes whose interface the session made from that source implements.     *)
(***************************************************************************)
EXTENDS Integers, Sequences, FiniteSets

CONSTANTS
    Clients,    \* request threads
    Nobody,     \* the owner of a free lock
    Ids,        \* model ids
    Configs,    \* configurations a model entry or a load request may carry
    Requests,   \* what a client may ask
    Startup,    \* the configured models, a sequence of [id, config, lazy]
    NoSession,  \* model.session == nullptr
    MaxCalls    \* bound: calls each request thread makes

ASSUME NobodyAssumption == Nobody \notin Clients

Modes == {"offline", "streaming"}   \* what parse_run_mode accepts
Tasks == {"asr", "tts"}             \* two that parse_voice_task_kind accepts

\* The task and the run mode of a configuration can both be parsed.
Parses(config) == config.task \in Tasks /\ config.mode \in Modes

RunKinds   == {"run", "stream", "events", "live"}
SweepKinds == {"unload_models", "unload_all"}
Kinds      == RunKinds \cup SweepKinds \cup {"load", "unload", "list", "voices"}

ASSUME DataAssumption ==
    /\ \A k \in Configs : /\ k.task \in STRING /\ k.mode \in STRING
                          /\ k.serves \subseteq Modes
    /\ \A r \in Requests : /\ r.kind \in Kinds /\ r.id \in Ids
                           /\ r.config \in Configs /\ r.bounded \in BOOLEAN
                           /\ r.kind \in SweepKinds => ~r.bounded
    /\ Startup \in Seq([id : Ids, config : Configs, lazy : BOOLEAN])
    /\ \A i \in DOMAIN Startup :
          /\ Parses(Startup[i].config)          \* make_model throws otherwise
          /\ \A j \in DOMAIN Startup : Startup[i].id = Startup[j].id => i = j
    /\ NoSession \notin [config : Configs, task : Tasks, mode : Modes]
    /\ IsFiniteSet(Ids)
    /\ Requests # {}
    /\ MaxCalls \in Nat

Positions == 1..Cardinality(Ids)

VARIABLES
    models,     \* models_: a sequence of LoadedModel records
    index,      \* model_index_: id -> position
    registry,   \* who holds models_mutex_
    meta,       \* who holds each model's metadata_mutex exclusively
    turn,       \* who holds each model's BusyGuard
    pc,         \* where each client's handler is
    req,        \* the request a client handles
    at,         \* the LoadedModel & a handler works on
    route,      \* the run function chosen: run_model or run_streaming_model
    draft,      \* the LoadedModel a load request builds outside the registry
    todo,       \* models a sweep or a listing has still to visit
    calls       \* bound: calls made so far

vars == <<models, index, registry, meta, turn, pc, req, at, route, draft, todo, calls>>
locks == <<registry, meta, turn>>

Session == [config : Configs, task : Tasks, mode : Modes]
LoadedModel == [id : Ids, config : Configs, task : Tasks, mode : Modes,
                session : Session \cup {NoSession}, loaded : BOOLEAN]

\* A handler in one of these places has the model's turn.
Holding == {"exclusive", "compare", "ensure", "loading", "start", "running",
            "finish", "reset"}
PC == Holding \cup
      {"away", "limits", "lookup", "mode", "bound", "asking", "busy", "draft",
       "draftload", "register", "push", "sweep", "sweepall", "list", "listing"}

-----------------------------------------------------------------------------
\* make_model, of a configuration that Parses: it throws on any other.
make_model(id, config) ==
    [id |-> id, config |-> config, task |-> config.task, mode |-> config.mode,
     session |-> NoSession, loaded |-> FALSE]

\* What ensure_model_loaded_locked leaves in a model it loaded.
Resident(m) ==
    [m EXCEPT !.session = [config |-> m.config, task |-> m.task, mode |-> m.mode],
              !.loaded = TRUE]

\* The session made from a configuration has the interface its mode needs.
Provides(m) == m.mode \in m.config.serves

\* LoadedModel::unload leaves `loaded` alone; handle_model_unload resets it too.
unload(m) == [m EXCEPT !.session = NoSession]

\* Mutated: the run mode is not compared.
ChangedSource(old, new) == old.source # new.source \/ old.task # new.task

\* The fields of a load request that make it a reconfiguration.
Changed(old, new) ==
    old.source # new.source \/ old.task # new.task \/ old.mode # new.mode

\* load_models: a model that is not lazy is loaded before the server starts.
Init ==
    /\ models = [i \in DOMAIN Startup |->
                    LET m == make_model(Startup[i].id, Startup[i].config)
                    IN  IF Startup[i].lazy THEN m ELSE Resident(m)]
    /\ index = [id \in {Startup[i].id : i \in DOMAIN Startup} |->
                    CHOOSE i \in DOMAIN Startup : Startup[i].id = id]
    /\ registry = Nobody
    /\ meta = [i \in Positions |-> Nobody]
    /\ turn = [i \in Positions |-> Nobody]
    /\ pc = [c \in Clients |-> "away"]
    /\ req \in [Clients -> {CHOOSE r \in Requests : TRUE}]
    /\ at = [c \in Clients |-> 0]
    /\ route = [c \in Clients |-> "offline"]
    /\ draft = [c \in Clients |-> NoSession]
    /\ todo = [c \in Clients |-> {}]
    /\ calls = [c \in Clients |-> 0]

Goto(c, from, to) == pc[c] = from /\ pc' = [pc EXCEPT ![c] = to]

\* The handler returns or throws: its Lock and its metadata lock are released.
Return(c) ==
    /\ pc' = [pc EXCEPT ![c] = "away"]
    /\ turn' = [i \in Positions |-> IF turn[i] = c THEN Nobody ELSE turn[i]]
    /\ meta' = [i \in Positions |-> IF meta[i] = c THEN Nobody ELSE meta[i]]
    /\ at' = [at EXCEPT ![c] = 0]
    /\ draft' = [draft EXCEPT ![c] = NoSession]
    /\ route' = [route EXCEPT ![c] = "offline"]
    /\ todo' = [todo EXCEPT ![c] = {}]

\* A shared lock of the model's metadata_mutex can be had.
Shared(i) == meta[i] = Nobody

-----------------------------------------------------------------------------
(* Dispatch and lookup.                                                     *)

FirstStep(kind) ==
    CASE kind = "live"          -> "limits"
      [] kind = "unload_models" -> "sweep"
      [] kind = "unload_all"    -> "sweepall"
      [] kind \in {"list", "voices"} -> "list"
      [] OTHER                  -> "lookup"

\* A request is dispatched; unload_all fixes the range of its loop.
Begin(c) ==
    \E r \in Requests :
        /\ calls[c] < MaxCalls
        /\ Goto(c, "away", FirstStep(r.kind))
        /\ req' = [req EXCEPT ![c] = r]
        /\ calls' = [calls EXCEPT ![c] = @ + 1]
        /\ todo' = [todo EXCEPT ![c] =
                       IF r.kind = "unload_all" THEN 1..Len(models) ELSE {}]
        /\ UNCHANGED <<models, index, locks, at, route, draft>>

\* live_ingest_limits reads the registry without models_mutex_: between the two
\* halves of a registration its models_.at() throws.
LiveLimits(c) ==
    LET id == req[c].id IN
    /\ pc[c] = "limits"
    /\ \/ /\ id \in DOMAIN index => index[id] <= Len(models)
          /\ Goto(c, "limits", "lookup")
          /\ UNCHANGED <<locks, at, route, draft, todo>>
       \/ /\ id \in DOMAIN index /\ index[id] > Len(models)
          /\ Return(c)
          /\ UNCHANGED registry
    /\ UNCHANGED <<models, index, req, calls>>

\* require_model, and the lookups of handle_model_load and handle_model_unload.
Lookup(c) ==
    LET id == req[c].id
        kind == req[c].kind IN
    /\ pc[c] = "lookup"
    /\ registry = Nobody
    /\ \/ /\ id \in DOMAIN index
          /\ at' = [at EXCEPT ![c] = index[id]]
          /\ route' = [route EXCEPT ![c] = IF kind = "events" THEN "streaming" ELSE "offline"]
          /\ Goto(c, "lookup",
                  IF kind \in RunKinds \ {"events"} THEN "mode" ELSE "bound")
          /\ UNCHANGED <<locks, draft, todo>>
       \/ /\ id \notin DOMAIN index
          /\ kind = "load"
          /\ Goto(c, "lookup", "draft")
          /\ UNCHANGED <<locks, at, route, draft, todo>>
       \/ /\ id \notin DOMAIN index
          /\ kind # "load"
          /\ Return(c)
          /\ UNCHANGED registry
    /\ UNCHANGED <<models, index, req, calls>>

\* The task request is built from the configuration and the run mode is read, to
\* choose the run function; the live route reads task.mode without the lock.
ReadMode(c) ==
    LET kind == req[c].kind
        mode == models[at[c]].mode IN
    /\ pc[c] = "mode"
    /\ kind = "live" \/ Shared(at[c])
    /\ \/ /\ kind = "run" \/ mode = "streaming"
          /\ route' = [route EXCEPT ![c] = mode]
          /\ Goto(c, "mode", "bound")
          /\ UNCHANGED <<locks, at, draft, todo>>
       \/ /\ kind # "run" /\ mode # "streaming"
          /\ Return(c)
          /\ UNCHANGED registry
    /\ UNCHANGED <<models, index, req, calls>>

-----------------------------------------------------------------------------
(* The turn.                                                                *)

\* Mutated: the metadata lock is kept while the turn is asked for.
ReadBoundKeepingLock(c) ==
    /\ pc[c] = "bound" /\ Shared(at[c])
    /\ Goto(c, "bound", "asking")
    /\ meta' = [meta EXCEPT ![at[c]] = c]
    /\ UNCHANGED <<models, index, registry, turn, req, at, route, draft, todo, calls>>

\* acquire_model_run reads the timeout under the shared metadata lock, then asks.
ReadBound(c) ==
    /\ pc[c] = "bound" /\ Shared(at[c])
    /\ Goto(c, "bound", "asking")
    /\ UNCHANGED <<models, index, locks, req, at, route, draft, todo, calls>>

WithTurn(kind) ==
    CASE kind \in RunKinds -> "ensure"
      [] kind = "load"     -> "exclusive"
      [] OTHER             -> "reset"

\* Mutated: the guard lets a second caller in.
GrantAnyway(c) ==
    /\ Goto(c, "asking", WithTurn(req[c].kind))
    /\ turn' = [turn EXCEPT ![at[c]] = c]
    /\ UNCHANGED <<models, index, registry, meta, req, at, route, draft, todo, calls>>

\* BusyGuard::acquire returns the Lock.
Grant(c) ==
    /\ pc[c] = "asking" /\ turn[at[c]] = Nobody
    /\ Goto(c, "asking", WithTurn(req[c].kind))
    /\ turn' = [turn EXCEPT ![at[c]] = c]
    /\ UNCHANGED <<models, index, registry, meta, req, at, route, draft, todo, calls>>

\* Mutated: the guard never gives up.
RefuseNever(c) == FALSE /\ UNCHANGED vars

\* BusyGuard::acquire throws ServerBusyError.
Refuse(c) ==
    /\ req[c].bounded
    /\ Goto(c, "asking", "busy")
    /\ UNCHANGED <<models, index, locks, req, at, route, draft, todo, calls>>

\* ServerState::handle turns it into a 503.
AnswerBusy(c) ==
    /\ pc[c] = "busy"
    /\ Return(c)
    /\ UNCHANGED <<models, index, registry, req, calls>>

-----------------------------------------------------------------------------
(* Loading and running, with the turn.                                      *)

AfterLoad(kind) == IF kind = "load" THEN "finish" ELSE "start"

\* ensure_model_loaded_locked returns at once when there is a session.
EnsureLoaded(c) ==
    /\ pc[c] = "ensure"
    /\ Goto(c, "ensure",
            IF models[at[c]].session # NoSession THEN AfterLoad(req[c].kind) ELSE "loading")
    /\ UNCHANGED <<models, index, locks, req, at, route, draft, todo, calls>>

\* ... and else loads the model and creates its session; it assigns nothing
\* before every check has passed.
LoadModel(c) ==
    /\ pc[c] = "loading" /\ Provides(models[at[c]])
    /\ Goto(c, "loading", AfterLoad(req[c].kind))
    /\ models' = [models EXCEPT ![at[c]] = Resident(@)]
    /\ UNCHANGED <<index, locks, req, at, route, draft, todo, calls>>

\* The registry's load, the session's creation or a check of its interface throws.
LoadFails(c) ==
    /\ pc[c] = "loading"
    /\ Return(c)
    /\ UNCHANGED <<models, index, registry, req, calls>>

\* Mutated: the interface pointer is used unchecked.
StartUnchecked(c) ==
    /\ Goto(c, "start", "running")
    /\ UNCHANGED <<models, index, locks, req, at, route, draft, todo, calls>>

\* Mutated: the guard's Lock goes out of scope before the run.
StartUnguarded(c) ==
    /\ Goto(c, "start", "running")
    /\ route[c] \in models[at[c]].session.config.serves
    /\ turn' = [turn EXCEPT ![at[c]] = Nobody]
    /\ UNCHANGED <<models, index, registry, meta, req, at, route, draft, todo, calls>>

\* run_model needs the offline interface, run_streaming_model the streaming one.
StartRun(c) ==
    /\ pc[c] = "start"
    /\ \/ /\ route[c] \in models[at[c]].session.config.serves
          /\ Goto(c, "start", "running")
          /\ UNCHANGED <<locks, at, route, draft, todo>>
       \/ /\ route[c] \notin models[at[c]].session.config.serves
          /\ Return(c)
          /\ UNCHANGED registry
    /\ UNCHANGED <<models, index, req, calls>>

\* The run ends or throws.
FinishRun(c) ==
    /\ pc[c] = "running"
    /\ Return(c)
    /\ UNCHANGED <<models, index, registry, req, calls>>

-----------------------------------------------------------------------------
(* handle_model_load.                                                       *)

\* A registered model: the exclusive metadata lock, kept over the whole load.
LockMetadata(c) ==
    /\ pc[c] = "exclusive" /\ meta[at[c]] = Nobody
    /\ Goto(c, "exclusive", "compare")
    /\ meta' = [meta EXCEPT ![at[c]] = c]
    /\ UNCHANGED <<models, index, registry, turn, req, at, route, draft, todo, calls>>

\* Mutated: the old session survives the new configuration.
ReconfigureKeepingSession(c) ==
    LET new == req[c].config IN
    /\ pc[c] = "compare"
    /\ Changed(models[at[c]].config, new) /\ Parses(new)
    /\ Goto(c, "compare", "ensure")
    /\ models' = [models EXCEPT ![at[c]].config = new, ![at[c]].task = new.task,
                                ![at[c]].mode = new.mode]
    /\ UNCHANGED <<index, locks, req, at, route, draft, todo, calls>>

\* A changed configuration drops the session before it is taken over.  After that
\* the task and then the mode are parsed: if either cannot be, that throws with the
\* old task and the old mode in place; load_voice_presets may throw with the new ones.
Reconfigure(c) ==
    LET new == req[c].config
        old == models[at[c]] IN
    /\ pc[c] = "compare"
    /\ \/ /\ Changed(old.config, new) /\ Parses(new)
          /\ models' = [models EXCEPT ![at[c]] = make_model(old.id, new)]
          /\ \/ /\ Goto(c, "compare", "ensure")
                /\ UNCHANGED <<locks, at, route, draft, todo>>
             \/ /\ Return(c)
                /\ UNCHANGED registry
       \/ /\ Changed(old.config, new) /\ ~Parses(new)
          /\ models' = [models EXCEPT ![at[c]] =
                           [make_model(old.id, new) EXCEPT !.task = old.task,
                                                           !.mode = old.mode]]
          /\ Return(c)
          /\ UNCHANGED registry
       \/ /\ ~Changed(old.config, new)
          /\ Goto(c, "compare", "ensure")
          /\ UNCHANGED <<models, locks, at, route, draft, todo>>
    /\ UNCHANGED <<index, req, calls>>

\* The reply {"loaded": true} is made under both locks.
FinishLoad(c) ==
    /\ pc[c] = "finish"
    /\ Return(c)
    /\ UNCHANGED <<models, index, registry, req, calls>>

\* An unknown id: the model is made, unless its task, its mode or a preset is bad ...
MakeDraft(c) ==
    LET new == req[c].config IN
    /\ pc[c] = "draft"
    /\ \/ /\ Parses(new)
          /\ draft' = [draft EXCEPT ![c] = make_model(req[c].id, new)]
          /\ Goto(c, "draft", "draftload")
          /\ UNCHANGED <<locks, at, route, todo>>
       \/ /\ Return(c)
          /\ UNCHANGED registry
    /\ UNCHANGED <<models, index, req, calls>>

\* ... and loaded without any lock ...
LoadDraft(c) ==
    /\ pc[c] = "draftload"
    /\ \/ /\ Provides(draft[c])
          /\ draft' = [draft EXCEPT ![c] = Resident(@)]
          /\ Goto(c, "draftload", "register")
          /\ UNCHANGED <<locks, at, route, todo>>
       \/ /\ Return(c)
          /\ UNCHANGED registry
    /\ UNCHANGED <<models, index, req, calls>>

\* Mutated: the id is not looked up again.
RegisterUnchecked(c) ==
    LET id == req[c].id IN
    /\ registry = Nobody
    /\ Goto(c, "register", "push")
    /\ registry' = c
    /\ index' = [i \in DOMAIN index \cup {id} |->
                    IF i \in DOMAIN index THEN index[i] ELSE Len(models) + 1]
    /\ UNCHANGED <<models, meta, turn, req, at, route, draft, todo, calls>>

\* ... then registered under models_mutex_, unless the id was registered meanwhile:
\* first its index entry,
RegisterIndex(c) ==
    LET id == req[c].id IN
    /\ pc[c] = "register"
    /\ registry = Nobody
    /\ \/ /\ id \notin DOMAIN index
          /\ Goto(c, "register", "push")
          /\ registry' = c
          /\ index' = [i \in DOMAIN index \cup {id} |->
                          IF i = id THEN Len(models) + 1 ELSE index[i]]
          /\ UNCHANGED <<meta, turn, at, route, draft, todo>>
       \/ /\ id \in DOMAIN index
          /\ Return(c)
          /\ UNCHANGED <<index, registry>>
    /\ UNCHANGED <<models, req, calls>>

\* then the model itself.
PushModel(c) ==
    /\ pc[c] = "push"
    /\ models' = Append(models, draft[c])
    /\ registry' = Nobody
    /\ Return(c)
    /\ UNCHANGED <<index, req, calls>>

-----------------------------------------------------------------------------
(* Unloading.                                                               *)

\* The models a client goes on to: the next one of unload_all, or none.
NextSweep(c, left) ==
    IF req[c].kind = "unload_all"
    THEN /\ pc' = [pc EXCEPT ![c] = "sweepall"]
         /\ todo' = [todo EXCEPT ![c] = left]
         /\ turn' = [i \in Positions |-> IF turn[i] = c THEN Nobody ELSE turn[i]]
         /\ at' = [at EXCEPT ![c] = 0]
         /\ UNCHANGED <<meta, route, draft>>
    ELSE Return(c)

\* One id of handle_unload_models, read without models_mutex_ and without the
\* turn: the registration in progress makes models_.at() throw, an unknown id and
\* a model with no session are skipped, any other is waited for without a bound.
Sweep(c) ==
    LET id == req[c].id IN
    /\ pc[c] = "sweep"
    /\ \/ /\ id \in DOMAIN index /\ index[id] <= Len(models)
          /\ models[index[id]].session # NoSession
          /\ at' = [at EXCEPT ![c] = index[id]]
          /\ Goto(c, "sweep", "asking")
          /\ UNCHANGED <<locks, route, draft, todo>>
       \/ /\ id \in DOMAIN index /\ index[id] <= Len(models)
             => models[index[id]].session = NoSession
          /\ Return(c)
          /\ UNCHANGED registry
    /\ UNCHANGED <<models, index, req, calls>>

\* One model of handle_unload_all_models.
SweepAll(c) ==
    /\ pc[c] = "sweepall"
    /\ \/ \E i \in todo[c] :
             /\ \A j \in todo[c] : i <= j
             /\ \/ /\ models[i].session # NoSession
                   /\ at' = [at EXCEPT ![c] = i]
                   /\ todo' = [todo EXCEPT ![c] = @ \ {i}]
                   /\ Goto(c, "sweepall", "asking")
                   /\ UNCHANGED <<meta, turn, route, draft>>
                \/ /\ models[i].session = NoSession
                   /\ NextSweep(c, todo[c] \ {i})
       \/ todo[c] = {} /\ Return(c)
    /\ UNCHANGED <<models, index, registry, req, calls>>

\* The session is dropped with the turn.  LoadedModel::unload, of the sweeps,
\* leaves `loaded` set; handle_model_unload clears it.
ResetModel(c) ==
    /\ pc[c] = "reset"
    /\ models' = [models EXCEPT ![at[c]] =
                     IF req[c].kind = "unload"
                     THEN [unload(@) EXCEPT !.loaded = FALSE] ELSE unload(@)]
    /\ NextSweep(c, todo[c])
    /\ UNCHANGED <<index, registry, req, calls>>

-----------------------------------------------------------------------------
(* Listings: models_json and handle_voices hold models_mutex_ while they wait *)
(* for the metadata of each model they show.                                  *)

BeginList(c) ==
    /\ registry = Nobody
    /\ Goto(c, "list", "listing")
    /\ registry' = c
    /\ todo' = [todo EXCEPT ![c] =
                   {i \in 1..Len(models) : req[c].kind = "list" \/ models[i].id = req[c].id}]
    /\ UNCHANGED <<models, index, meta, turn, req, at, route, draft, calls>>

ListModel(c) ==
    /\ pc[c] = "listing"
    /\ \/ \E i \in todo[c] :
             /\ \A j \in todo[c] : i <= j
             /\ Shared(i)
             /\ todo' = [todo EXCEPT ![c] = @ \ {i}]
             /\ UNCHANGED <<pc, locks, at, route, draft>>
       \/ /\ todo[c] = {}
          /\ registry' = Nobody
          /\ Return(c)
    /\ UNCHANGED <<models, index, req, calls>>

-----------------------------------------------------------------------------
\* The steps a request thread takes when nothing it calls can hang.
Step(c) ==
    \/ LiveLimits(c) \/ Lookup(c) \/ ReadMode(c) \/ ReadBound(c) \/ Grant(c)
    \/ AnswerBusy(c) \/ EnsureLoaded(c) \/ StartRun(c) \/ LockMetadata(c)
    \/ Reconfigure(c) \/ FinishLoad(c) \/ MakeDraft(c) \/ RegisterIndex(c)
    \/ PushModel(c) \/ Sweep(c) \/ SweepAll(c) \/ ResetModel(c)
    \/ BeginList(c) \/ ListModel(c)

\* The end of a load.
Load(c) == LoadModel(c) \/ LoadFails(c) \/ LoadDraft(c)

\* Every thread has made its calls: the bound of the model, not of the server.
Served ==
    /\ \A c \in Clients : pc[c] = "away" /\ calls[c] = MaxCalls
    /\ UNCHANGED vars

Next ==
    \/ \E c \in Clients : Begin(c) \/ Step(c) \/ Refuse(c) \/ Load(c) \/ FinishRun(c)
    \/ Served

Spec == Init /\ [][Next]_vars

\* Request threads are scheduled, loads end and so does a bounded wait for the turn;
\* a run may hang for ever.  Weak fairness is enough, and no mutex has to be fair,
\* because each thread makes finitely many calls.
FairSpec ==
    /\ Spec
    /\ \A c \in Clients : WF_vars(Step(c) \/ Refuse(c) \/ Load(c))

-----------------------------------------------------------------------------
TypeOK ==
    /\ models \in Seq(LoadedModel)
    /\ DOMAIN index \subseteq Ids
    /\ \A id \in DOMAIN index : index[id] \in Positions
    /\ registry \in Clients \cup {Nobody}
    /\ meta \in [Positions -> Clients \cup {Nobody}]
    /\ turn \in [Positions -> Clients \cup {Nobody}]
    /\ pc \in [Clients -> PC]
    /\ req \in [Clients -> Requests]
    /\ at \in [Clients -> Positions \cup {0}]
    /\ route \in [Clients -> Modes]
    /\ draft \in [Clients -> LoadedModel \cup {NoSession}]
    /\ todo \in [Clients -> SUBSET Positions]
    /\ calls \in [Clients -> 0..MaxCalls]

\* Unload requests wait for the inference in flight: nothing replaces or drops a
\* session while a run uses it (README, unload_models).
RunningSessionStays ==
    [][\A c \in Clients : pc[c] = "running" =>
          models'[at[c]].session = models[at[c]].session]_vars

\* A run only ever goes through an interface its session implements, although the
\* run function was chosen before the turn was taken and the model may have been
\* reconfigured in between (run_model, run_streaming_model_impl).
RunHasItsInterface ==
    \A c \in Clients : pc[c] = "running" =>
        LET s == models[at[c]].session
        IN  s # NoSession /\ route[c] \in s.config.serves

\* A session in memory was made from the model's present configuration and task,
\* through failed loads, reconfigurations and unloads.
SessionMatchesConfig ==
    \A i \in 1..Len(models) :
        LET m == models[i] IN
        m.session # NoSession =>
            m.session = [config |-> m.config, task |-> m.task, mode |-> m.mode]

\* While no registration is half done, the registry maps each id to the one model
\* that has it, whatever loads raced (handle_model_load, load_models).
RegistryConsistent ==
    ~(\E c \in Clients : pc[c] = "push") =>
        /\ Len(models) = Cardinality(DOMAIN index)
        /\ \A id \in DOMAIN index :
              index[id] \in 1..Len(models) /\ models[index[id]].id = id

\* When a load is answered {"loaded": true}, the model is in memory from the source
\* the request names and, if the request can be parsed, for the task and the mode it
\* names.  One that cannot be parsed is refused the first time; repeated, it finds
\* nothing changed and is answered with the old task and mode (handle_model_load).
LoadAnswersTruthfully ==
    \A c \in Clients : pc[c] = "finish" =>
        LET m   == models[at[c]]
            new == req[c].config IN
        /\ m.session # NoSession /\ m.loaded
        /\ m.session.config.source = new.source
        /\ Parses(new) => m.session.task = new.task /\ m.session.mode = new.mode

\* The server keeps to the turn of every model: see ModelTurn.
WantOf(c, i) ==
    IF at[c] # i THEN "out"
    ELSE IF pc[c] = "asking" THEN "asking"
    ELSE IF pc[c] = "busy" THEN "refused"
    ELSE IF pc[c] \in Holding THEN "granted" ELSE "out"

TurnOf(i) == INSTANCE ModelTurn WITH
    Callers <- Clients,
    turn    <- turn[i],
    want    <- [c \in Clients |-> WantOf(c, i)],
    bounded <- {c \in Clients : req[c].bounded /\ WantOf(c, i) # "out"}

UsesTheTurns ==
    /\ \A i \in Positions : TurnOf(i)!Init
    /\ [][\A i \in Positions : [TurnOf(i)!Next]_(TurnOf(i)!vars)]_vars

\* The next step of c needs a lock that d has: the registry, a model's metadata (of
\* which the live route reads the mode without a lock), or its turn.
NeedsMetadata(c, i) ==
    \/ /\ at[c] = i
       /\ pc[c] \in {"bound", "exclusive"} \/ (pc[c] = "mode" /\ req[c].kind # "live")
    \/ pc[c] = "listing" /\ i \in todo[c] /\ \A j \in todo[c] : i <= j

WaitsFor(c, d) ==
    \/ pc[c] \in {"lookup", "register", "list"} /\ registry = d
    \/ \E i \in Positions : NeedsMetadata(c, i) /\ meta[i] = d
    \/ pc[c] = "asking" /\ turn[at[c]] = d

\* Handlers never wait for each other in a circle, although loads and runs take a
\* model's turn, its metadata and the registry in different orders, and a listing
\* keeps the registry while it waits: behind whomever a handler waits for there is at
\* most one more (handle_model_load, acquire_model_run, models_json).
WaitsAreShort ==
    \A c, d, e \in Clients :
        WaitsFor(c, d) /\ WaitsFor(d, e) => \A f \in Clients : ~WaitsFor(e, f)

\* acquire_model_run throws ServerBusyError once the effective timeout has
\* elapsed: a request with a bound does not wait for ever, though runs may hang.
Waiting == {"limits", "lookup", "mode", "bound", "asking"}
BoundedRequestLeaves ==
    \A c \in Clients :
        (req[c].bounded /\ pc[c] \in Waiting) ~> (pc[c] \notin Waiting)
=============================================================================
