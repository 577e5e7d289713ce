---------------------------- MODULE VoiceSession ----------------------------
(***************************************************************************)
(* What a pocket_tts session keeps from one request to the next, and how a *)
(* request uses it (src/models/pocket_tts/session.cpp): the voice states   *)
(* in their slots (CacheSlots), the capacities GraphCapacityController     *)
(* chooses, the runtime AcousticModel holds for them, and the key/value    *)
(* cache that runtime fills from the voice, the prompt and its own steps.  *)
(*                                                                         *)
(* A step's keys and values are named by where they come from, so a step   *)
(* that attends to the wrong slots is seen.  A session runs one request at *)
(* a time; anything it does may throw, and the next request finds what is  *)
(* left.                                                                   *)
(***************************************************************************)
EXTENDS Integers, Sequences

CONSTANTS
  Voices,     \* keys of voice_state_cache_key
  PrefixOf,   \* steps of each voice's state
  Slots,      \* voice_state_cache_slots
  Chunks,     \* the texts of a request: their prompt steps and max_steps
  MaxChunks,  \* chunks of a request; the code has no bound
  Configs,    \* capacity modes and configured capacities; see Config below
  Powers,     \* the powers of two; the code's end at 2^62
  Floor,      \* kCpuPromptCapacityFloor and kCpuGenerationCapacityFloor
  Quantum,    \* kGenerationCapacityQuantum
  None

\* mode      of both controllers
\* prompt, steps   configured capacities, 1 when there are none
\* host      the backend runs host graph plans, so capacities are rounded up
\* fails     an allocation may fail
Config ==
  [mode : {"fixed", "tiered", "grow", "double"}, prompt : Nat \ {0}, steps : Nat \ {0},
   host : BOOLEAN, fails : BOOLEAN]

\* What a runtime was built with: slots in all, for the prompt, and before it.
Plan == [total : Nat, prompt : Nat, prefix : Nat]

ASSUME VoiceAssumption ==
  /\ PrefixOf \in [Voices -> Nat]
  /\ Slots \in Nat /\ MaxChunks \in Nat \ {0} /\ Quantum \in Nat \ {0}
  /\ Powers \subseteq Nat \ {0}
  /\ Floor \in [prompt : Nat, steps : Nat]
  /\ Chunks \subseteq [prompt : Nat \ {0}, steps : Nat \ {0}]
  /\ Configs \subseteq Config
  /\ None \notin Voices \cup Plan

VARIABLES
  config,     \* graph_capacity_
  slots,      \* cached_voice_states_: its entries, their ticks as ranks
  age,        \* history: for each voice used, how many were used after it
  voice,      \* prepared_session_request_.voice
  pc,         \* "idle", "voice", "chunk", "prompt", "steps"
  running,    \* generate, and not prepare_generation
  queue,      \* chunks to go, the one at work first
  recorded,   \* runtime_cache_: the capacities of its key
  runtime,    \* runtime_cache_.runtime: those it was built with
  kv,         \* the slots of its cache: what each holds
  valid,      \* valid_steps_
  end,        \* current_end_
  primed,     \* step_cache_initialized_
  done        \* steps of this chunk so far

slotVars == <<slots, age>>
requestVars == <<voice, running, queue>>
cacheVars == <<kv, valid, end, primed, done>>
vars == <<config, slotVars, pc, requestVars, recorded, runtime, cacheVars>>

-----------------------------------------------------------------------------
(* CacheSlots.                                                              *)

Keys(s) == {s[i].key : i \in 1..Len(s)}

\* Ticks only ever order the entries, and the next one is above them all: entries are
\* kept with their ranks, the entry used last has the highest.
Touched(s, k) ==
  LET was == s[CHOOSE i \in 1..Len(s) : s[i].key = k].used
  IN [i \in 1..Len(s) |->
        [s[i] EXCEPT !.used = IF s[i].key = k THEN Len(s) - 1
                              ELSE IF @ > was THEN @ - 1 ELSE @]]

\* Mutant: finding an entry is not a use of it.
Untouched(s, k) == s

find(s, k) == Touched(s, k)

WithoutOldest(s) ==
  LET oldest == CHOOSE i \in 1..Len(s) : \A j \in 1..Len(s) : s[i].used <= s[j].used
  IN [i \in 1..(Len(s) - 1) |->
        LET e == IF i < oldest THEN s[i] ELSE s[i + 1] IN [e EXCEPT !.used = @ - 1]]

put(s, k) ==
  LET room == IF Len(s) >= Slots THEN WithoutOldest(s) ELSE s
  IN IF Slots = 0 THEN <<>>
     ELSE IF k \in Keys(s) THEN Touched(s, k)
     ELSE Append(room, [key |-> k, used |-> Len(room)])

-----------------------------------------------------------------------------
(* Capacities.                                                              *)

Larger(m, n) == IF m > n THEN m ELSE n

\* 0 stands for the exception of a number that is too large.
next_power_of_two(n) ==
  LET next == {p \in Powers : n <= p /\ p < 2 * n}
  IN IF next = {} THEN 0 ELSE CHOOSE p \in next : TRUE

round_up_to_multiple(n, q) == IF n % q = 0 THEN n ELSE n + (q - (n % q))

canonical_capacity(what, size) ==
  IF ~config.host THEN Larger(config[what], size)
  ELSE IF what = "prompt"
       THEN next_power_of_two(Larger(config.prompt, Larger(Floor.prompt, size)))
  ELSE round_up_to_multiple(
         Larger(config.steps, Larger(Floor.steps, size + size \div 2)), Quantum)

\* Mutant: the capacity that is prepared is taken whether or not it is enough.
PreparedAnyway(what, size) ==
  IF config.mode = "fixed" THEN IF size <= config[what] THEN config[what] ELSE 0
  ELSE IF runtime # None THEN recorded[what]
  ELSE canonical_capacity(what, IF config.mode = "double" THEN 2 * size ELSE size)

\* Mutant: what is prepared is not looked at.
CanonicalAlways(what, size) ==
  IF config.mode = "fixed" THEN IF size <= config[what] THEN config[what] ELSE 0
  ELSE canonical_capacity(what, IF config.mode = "double" THEN 2 * size ELSE size)

\* select_capacity_for_run; 0 stands for its exception.  One capacity is prepared at a
\* time, so the smallest that fits and the largest are the same.
select_capacity(what, size) ==
  LET prepared == IF runtime = None THEN 0 ELSE recorded[what]
  IN IF config.mode = "fixed" THEN IF size <= config[what] THEN config[what] ELSE 0
     ELSE IF prepared >= size THEN prepared
     ELSE canonical_capacity(what, IF config.mode = "double" THEN 2 * size ELSE size)

-----------------------------------------------------------------------------
(* The cache of a runtime.                                                  *)

Zeros(n) == [i \in 1..n |-> <<"zero", 0>>]

\* What the i-th slot a step attends to holds, if all is well.
Belongs(v, prompt, i) ==
  IF i <= PrefixOf[v] THEN <<v, i>>
  ELSE IF i <= PrefixOf[v] + prompt THEN <<"prompt", i - PrefixOf[v]>>
  ELSE <<"step", i - PrefixOf[v] - prompt>>

\* import_state.
Imported(r, v) == [i \in 1..r.total |-> IF i <= PrefixOf[v] THEN <<v, i>> ELSE <<"zero", 0>>]

\* The prompt graph writes all of its capacity, from where the prefix it was built with
\* ends; what is beyond the prompt is padding.
Prompted(r, v, prompt) ==
  [i \in 1..r.total |->
     IF i \in (r.prefix + 1)..(r.prefix + prompt) THEN <<"prompt", i - r.prefix>>
     ELSE IF i \in (r.prefix + prompt + 1)..(r.prefix + r.prompt) THEN <<"padding", 0>>
     ELSE IF i <= PrefixOf[v] THEN <<v, i>> ELSE <<"zero", 0>>]

-----------------------------------------------------------------------------
Init ==
  /\ config \in Configs
  /\ slots = <<>> /\ age = [v \in {} |-> 0]
  /\ voice = None
  /\ pc = "idle"
  /\ running = FALSE
  /\ queue = <<>>
  /\ recorded = [prompt |-> 0, prefix |-> 0, steps |-> 0]
  /\ runtime = None
  /\ kv = <<>> /\ valid = 0 /\ end = 0 /\ primed = FALSE /\ done = 0

Requests == UNION {[1..n -> Chunks] : n \in 0..MaxChunks}

\* prepare: it may come with a text, whose chunks get their runtime at once.
Prepare ==
  /\ pc = "idle"
  /\ voice' \in Voices
  /\ queue' \in Requests
  /\ running' = FALSE
  /\ pc' = "voice"
  /\ UNCHANGED <<config, slotVars, recorded, runtime, cacheVars>>

\* A prepare that selects no voice throws, and leaves none for the runs after it.
PrepareWithoutVoice ==
  /\ pc = "idle"
  /\ voice' = None
  /\ UNCHANGED <<config, slotVars, pc, running, queue, recorded, runtime, cacheVars>>

\* run: with the voice of the last prepare.
Run ==
  /\ pc = "idle"
  /\ voice # None
  /\ queue' \in Requests \ {<<>>}
  /\ running' = TRUE
  /\ pc' = "voice"
  /\ UNCHANGED <<config, slotVars, voice, recorded, runtime, cacheVars>>

\* An exception leaves the request where it is and the session as it is.
Abandon ==
  /\ pc' = "idle"
  /\ queue' = <<>>
  /\ UNCHANGED <<config, voice, running>>

NextChunk(q) ==
  /\ queue' = q
  /\ pc' = IF q = <<>> THEN "idle" ELSE "chunk"

\* The ages when k has been used: only those older than it was stay as old.
AgesAfter(a, k) ==
  [v \in DOMAIN a \cup {k} |->
     IF v = k THEN 0 ELSE IF k \in DOMAIN a /\ a[v] > a[k] THEN a[v] ELSE a[v] + 1]

\* resolve_prepared_voice_state: a state is found, or prepared and put.
ResolveVoice ==
  /\ pc = "voice"
  /\ slots' = IF voice \in Keys(slots) THEN find(slots, voice) ELSE put(slots, voice)
  /\ age' = AgesAfter(age, voice)
  /\ NextChunk(queue)
  /\ UNCHANGED <<config, voice, running, recorded, runtime, cacheVars>>

VoiceFails ==
  /\ pc = "voice"
  /\ voice \notin Keys(slots)
  /\ Abandon
  /\ UNCHANGED <<slotVars, recorded, runtime, cacheVars>>

Capacities(c) ==
  [prompt |-> select_capacity("prompt", c.prompt), prefix |-> PrefixOf[voice],
   steps |-> select_capacity("steps", c.steps)]

\* Mutant: a runtime built for a longer prefix is taken too.
FitsPrefix(want) ==
  /\ runtime # None
  /\ recorded.prompt >= want.prompt /\ recorded.prefix >= want.prefix /\ recorded.steps >= want.steps

\* The test of prepare_runtime; backend, threads, model and context sizes do not
\* change during a session.
CacheHit(want) ==
  /\ runtime # None
  /\ recorded.prompt >= want.prompt /\ recorded.prefix = want.prefix /\ recorded.steps >= want.steps

Built(want) == [total |-> want.prefix + want.prompt + want.steps, prompt |-> want.prompt, prefix |-> want.prefix]

AfterRuntime ==
  IF running THEN pc' = "prompt" /\ UNCHANGED queue ELSE NextChunk(Tail(queue))

\* A runtime that cannot be built leaves its capacities recorded with the old one.
PrepareRuntime ==
  /\ pc = "chunk"
  /\ LET want == Capacities(queue[1])
     IN /\ want.prompt > 0 /\ want.steps > 0
        /\ \/ /\ CacheHit(want)
              /\ AfterRuntime
              /\ UNCHANGED <<config, slotVars, voice, running, recorded, runtime, cacheVars>>
           \/ /\ ~CacheHit(want)
              /\ recorded' = want
              /\ runtime' = Built(want)
              /\ kv' = Zeros(Built(want).total) /\ valid' = 0 /\ end' = 0 /\ primed' = FALSE
              /\ AfterRuntime
              /\ UNCHANGED <<config, slotVars, voice, running, done>>
           \/ /\ ~CacheHit(want)
              /\ config.fails
              /\ recorded' = want
              /\ Abandon
              /\ UNCHANGED <<slotVars, runtime, cacheVars>>

NoCapacity ==
  /\ pc = "chunk"
  /\ LET want == Capacities(queue[1]) IN want.prompt = 0 \/ want.steps = 0
  /\ Abandon
  /\ UNCHANGED <<slotVars, recorded, runtime, cacheVars>>

\* apply_prompt_from_state: its checks come before it touches anything.
ApplyPrompt ==
  /\ pc = "prompt"
  /\ LET c == queue[1]
         n == PrefixOf[voice]
     IN \/ /\ c.prompt <= runtime.prompt /\ n <= runtime.prefix
           /\ n + c.prompt <= runtime.total
           /\ kv' = Prompted(runtime, voice, c.prompt)
           /\ valid' = n + c.prompt
           /\ end' = n + c.prompt
           /\ primed' = TRUE
           /\ done' = 0
           /\ pc' = "steps"
           /\ UNCHANGED <<config, slotVars, requestVars, recorded, runtime>>
        \/ /\ c.prompt > runtime.prompt \/ n > runtime.prefix \/ n + c.prompt > runtime.total
           /\ Abandon
           /\ UNCHANGED <<slotVars, recorded, runtime, cacheVars>>

\* Its graph fails, after the voice was imported.
PromptFails ==
  /\ pc = "prompt"
  /\ queue[1].prompt <= runtime.prompt /\ PrefixOf[voice] <= runtime.prefix
  /\ PrefixOf[voice] + queue[1].prompt <= runtime.total
  /\ kv' = Imported(runtime, voice)
  /\ valid' = PrefixOf[voice] /\ end' = PrefixOf[voice]
  /\ primed' = FALSE
  /\ Abandon
  /\ UNCHANGED <<slotVars, recorded, runtime, done>>

\* run_in_place.  What it does beyond the last slot is not defined.
Step ==
  /\ pc = "steps"
  /\ done < queue[1].steps
  /\ valid < runtime.total
  /\ kv' = [kv EXCEPT ![valid + 1] = <<"step", done + 1>>]
  /\ valid' = valid + 1
  /\ end' = end + 1
  /\ done' = done + 1
  /\ UNCHANGED <<config, slotVars, pc, requestVars, recorded, runtime, primed>>

\* The model says it is done, or max_steps are; without a step there is no audio.
ChunkDone ==
  /\ pc = "steps"
  /\ done > 0
  /\ NextChunk(Tail(queue))
  /\ UNCHANGED <<config, slotVars, voice, running, recorded, runtime, cacheVars>>

\* A step or the decoding of its audio throws.
ChunkFails ==
  /\ pc = "steps"
  /\ Abandon
  /\ UNCHANGED <<slotVars, recorded, runtime, cacheVars>>

Next ==
  \/ Prepare \/ PrepareWithoutVoice \/ Run \/ ResolveVoice \/ VoiceFails \/ PrepareRuntime \/ NoCapacity
  \/ ApplyPrompt \/ PromptFails \/ Step \/ ChunkDone \/ ChunkFails

Spec == Init /\ [][Next]_vars

-----------------------------------------------------------------------------
Capacity == [prompt : Nat, prefix : Nat, steps : Nat]

\* Every variable has its type; what the slots hold is for KeepsTheLatest.
TypeOK ==
  /\ config \in Configs
  /\ voice \in Voices \cup {None}
  /\ pc \in {"idle", "voice", "chunk", "prompt", "steps"}
  /\ running \in BOOLEAN
  /\ queue \in Seq(Chunks)
  /\ recorded \in Capacity
  /\ runtime \in Plan \cup {None}
  /\ runtime # None => DOMAIN kv = 1..runtime.total
  /\ valid \in Nat /\ end \in Nat /\ done \in Nat
  /\ primed \in BOOLEAN

\* The runtime is the one its key says.
AsRecorded == runtime # None => runtime = Built(recorded)

ChunkAttends ==
  LET prompt == queue[1].prompt
  IN /\ valid = PrefixOf[voice] + prompt + done
     /\ end = valid
     /\ \A i \in 1..valid : kv[i] = Belongs(voice, prompt, i)

\* While steps are generated with a runtime that is what its key says, the slots they
\* attend to hold the voice, the prompt and the steps before, in this order, and the
\* position is their number: no other voice's, no padding, none left out
\* (acoustic_model.cpp:83-87).
AttendsToItsOwn == pc = "steps" /\ AsRecorded => ChunkAttends

\* So they do with every runtime, one kept after a failed allocation included.
AlwaysAttendsToItsOwn == pc = "steps" => ChunkAttends

\* A runtime that was chosen for a chunk has room for all of it: neither the checks of
\* apply_prompt_from_state nor the end of the cache is what a chunk fails at
\* (acoustic_model.cpp:66-90).
HasRoom ==
  AsRecorded =>
    /\ pc = "prompt" =>
         /\ queue[1].prompt <= runtime.prompt /\ PrefixOf[voice] <= runtime.prefix
         /\ PrefixOf[voice] + queue[1].prompt + queue[1].steps <= runtime.total
    /\ pc = "steps" => valid + (queue[1].steps - done) <= runtime.total

\* The slots hold the voices that were used last, as many as there is room for, each
\* once (cache_slots.h:32-69).
KeepsTheLatest ==
  /\ Keys(slots) = {v \in DOMAIN age : age[v] < Slots}
  /\ \A i, j \in 1..Len(slots) : slots[i].key = slots[j].key => i = j

\* A runtime is replaced only for another prefix or for more than it has, and then by one
\* that has no less: a sequence of requests does not build the same graphs for ever
\* (session.cpp:425-463).
StepRoom(r) == r.total - r.prefix - r.prompt

RebuildsToGrow ==
  [][runtime' # runtime /\ runtime # None /\ AsRecorded =>
       /\ \/ runtime'.prefix # runtime.prefix
          \/ queue[1].prompt > runtime.prompt
          \/ queue[1].steps > StepRoom(runtime)
       /\ runtime'.prompt >= runtime.prompt
       /\ StepRoom(runtime') >= StepRoom(runtime)]_vars
=============================================================================
