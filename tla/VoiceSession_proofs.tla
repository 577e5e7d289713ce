------------------------- MODULE VoiceSession_proofs -------------------------
(***************************************************************************)
(* Proofs about voice sessions, for any voices, texts, capacities, number  *)
(* of slots and sequence of requests, with allocations that fail.          *)
(***************************************************************************)
EXTENDS VoiceSession, TLAPS

\* A request at work has a voice, and a chunk until the last one is done.
WorkInv ==
  /\ pc # "idle" => voice \in Voices
  /\ pc \in {"chunk", "prompt", "steps"} => queue # <<>>

\* A chunk that was given a runtime was given one with the right prefix and enough room.
ChosenInv ==
  pc \in {"prompt", "steps"} =>
    /\ runtime # None
    /\ recorded.prefix = PrefixOf[voice]
    /\ recorded.prompt >= queue[1].prompt
    /\ recorded.steps >= queue[1].steps

\* The steps so far are within those asked for.
StepsInv == pc = "steps" => done <= queue[1].steps

\* With fixed capacities every runtime has the same.
FixedInv ==
  config.mode = "fixed" /\ runtime # None
    => recorded.prompt = config.prompt /\ recorded.steps = config.steps

Core == TypeOK /\ WorkInv /\ ChosenInv /\ StepsInv /\ FixedInv

IInv == Core /\ AttendsToItsOwn

-----------------------------------------------------------------------------
(* Capacities.                                                              *)

\* A power of two is found that is large enough, or none.
LEMMA PowerCovers ==
  ASSUME NEW n \in Nat \ {0}
  PROVE  next_power_of_two(n) \in Nat /\ (next_power_of_two(n) > 0 => next_power_of_two(n) >= n)
  <1> DEFINE next == {p \in Powers : n <= p /\ p < 2 * n}
  <1>1. CASE next = {}
    BY <1>1 DEF next_power_of_two
  <1>2. CASE next # {}
    <2>1. (CHOOSE p \in next : TRUE) \in next
      BY <1>2
    <2>2. next_power_of_two(n) = CHOOSE p \in next : TRUE
      BY <1>2 DEF next_power_of_two
    <2> QED BY <2>1, <2>2, VoiceAssumption
  <1> QED BY <1>1, <1>2

\* Rounding is up.
LEMMA RoundedCovers ==
  ASSUME NEW n \in Nat, NEW q \in Nat \ {0}
  PROVE  round_up_to_multiple(n, q) \in Nat /\ round_up_to_multiple(n, q) >= n
  <1>1. n % q \in 0..(q - 1)
    OBVIOUS
  <1> QED BY <1>1 DEF round_up_to_multiple

\* A capacity that is worked out for a size covers it.
LEMMA CanonicalCovers ==
  ASSUME config \in Configs, NEW what \in {"prompt", "steps"}, NEW size \in Nat \ {0}
  PROVE  LET c == canonical_capacity(what, size)
         IN c \in Nat /\ (c > 0 => c >= size)
  <1>1. config.prompt \in Nat \ {0} /\ config.steps \in Nat \ {0}
    BY VoiceAssumption DEF Config
  <1>2. config[what] \in Nat \ {0}
    BY <1>1
  <1>3. Floor.prompt \in Nat /\ Floor.steps \in Nat /\ Quantum \in Nat \ {0}
    BY VoiceAssumption
  <1>4. CASE ~config.host
    <2>1. canonical_capacity(what, size) = Larger(config[what], size)
      BY <1>4 DEF canonical_capacity
    <2> QED BY <1>2, <2>1 DEF Larger
  <1>5. CASE config.host /\ what = "prompt"
    <2> DEFINE n == Larger(config.prompt, Larger(Floor.prompt, size))
    <2>1. n \in Nat \ {0} /\ n >= size
      BY <1>1, <1>3 DEF Larger
    <2>2. canonical_capacity(what, size) = next_power_of_two(n)
      BY <1>5 DEF canonical_capacity
    <2> QED BY <2>1, <2>2, PowerCovers
  <1>6. CASE config.host /\ what = "steps"
    <2> DEFINE n == Larger(config.steps, Larger(Floor.steps, size + size \div 2))
    <2>1. size \div 2 \in Nat
      OBVIOUS
    <2>2. n \in Nat /\ n >= size
      BY <1>1, <1>3, <2>1 DEF Larger
    <2>3. canonical_capacity(what, size) = round_up_to_multiple(n, Quantum)
      BY <1>6 DEF canonical_capacity
    <2> QED BY <1>3, <2>2, <2>3, RoundedCovers
  <1> QED BY <1>4, <1>5, <1>6

\* The capacity a run is given covers it, in every mode; if one that was there is not
\* taken, it was too small.
LEMMA SelectCovers ==
  ASSUME TypeOK, FixedInv, NEW what \in {"prompt", "steps"}, NEW size \in Nat \ {0}
  PROVE  LET c == select_capacity(what, size)
         IN /\ c \in Nat
            /\ c > 0 => c >= size
            /\ runtime # None /\ c > 0 /\ c # recorded[what] => size > recorded[what]
  <1>1. config \in Configs /\ config.prompt \in Nat \ {0} /\ config.steps \in Nat \ {0}
    BY VoiceAssumption DEF TypeOK, Config
  <1>2. config[what] \in Nat \ {0} /\ recorded[what] \in Nat
    BY <1>1 DEF TypeOK, Capacity
  <1>3. CASE config.mode = "fixed"
    BY <1>2, <1>3 DEF select_capacity, FixedInv
  <1>4. CASE config.mode # "fixed"
    <2> DEFINE prepared == IF runtime = None THEN 0 ELSE recorded[what]
               asked == IF config.mode = "double" THEN 2 * size ELSE size
    <2>1. asked \in Nat \ {0} /\ asked >= size
      OBVIOUS
    <2>2. CASE prepared >= size
      <3>1. select_capacity(what, size) = recorded[what]
        BY <1>2, <1>4, <2>2 DEF select_capacity
      <3> QED BY <1>2, <2>2, <3>1
    <2>3. CASE ~(prepared >= size)
      <3>1. select_capacity(what, size) = canonical_capacity(what, asked)
        BY <1>4, <2>3 DEF select_capacity
      <3> HIDE DEF asked
      <3>2. /\ canonical_capacity(what, asked) \in Nat
            /\ canonical_capacity(what, asked) > 0 => canonical_capacity(what, asked) >= asked
        BY <1>1, <2>1, CanonicalCovers
      <3> QED BY <1>2, <2>1, <2>3, <3>1, <3>2
    <2> QED BY <2>2, <2>3
  <1> QED BY <1>3, <1>4

-----------------------------------------------------------------------------
\* The chunk at work asks for a prompt and for steps.
LEMMA HeadChunk ==
  ASSUME queue \in Seq(Chunks), queue # <<>>
  PROVE  /\ queue[1] \in Chunks /\ Tail(queue) \in Seq(Chunks)
         /\ queue[1].prompt \in Nat \ {0} /\ queue[1].steps \in Nat \ {0}
  BY VoiceAssumption

\* The chunks of a request are a sequence.
LEMMA RequestType ==
  ASSUME NEW q \in Requests
  PROVE  q \in Seq(Chunks)
  <1>1. PICK n \in 0..MaxChunks : q \in [1..n -> Chunks]
    BY DEF Requests
  <1> QED BY <1>1

\* What a request with a voice asks to be built for its chunk.
LEMMA CapacitiesType ==
  ASSUME TypeOK, FixedInv, voice \in Voices, queue # <<>>
  PROVE  LET want == Capacities(queue[1])
         IN /\ want \in Capacity /\ Built(want) \in Plan /\ Built(want) # None
            /\ want.prefix = PrefixOf[voice]
            /\ want.prompt > 0 => want.prompt >= queue[1].prompt
            /\ want.steps > 0 => want.steps >= queue[1].steps
  <1> DEFINE want == Capacities(queue[1])
  <1>1. queue[1].prompt \in Nat \ {0} /\ queue[1].steps \in Nat \ {0}
    BY HeadChunk DEF TypeOK
  <1>2. /\ select_capacity("prompt", queue[1].prompt) \in Nat
        /\ select_capacity("prompt", queue[1].prompt) > 0
             => select_capacity("prompt", queue[1].prompt) >= queue[1].prompt
    BY <1>1, SelectCovers
  <1>3. /\ select_capacity("steps", queue[1].steps) \in Nat
        /\ select_capacity("steps", queue[1].steps) > 0
             => select_capacity("steps", queue[1].steps) >= queue[1].steps
    BY <1>1, SelectCovers
  <1>4. PrefixOf[voice] \in Nat
    BY VoiceAssumption
  <1>5. want \in Capacity
    BY <1>2, <1>3, <1>4 DEF Capacities, Capacity
  <1>6. Built(want) \in Plan
    BY <1>5 DEF Built, Plan, Capacity
  <1>7. Built(want) # None
    BY <1>6, VoiceAssumption
  <1> QED BY <1>2, <1>3, <1>5, <1>6, <1>7 DEF Capacities

\* The initial state satisfies the inductive invariant.
LEMMA InitInv == Init => IInv
  <1> SUFFICES ASSUME Init PROVE IInv
    OBVIOUS
  <1>1. running \in BOOLEAN /\ primed \in BOOLEAN
    BY DEF Init
  <1>2. recorded \in Capacity
    BY DEF Init, Capacity
  <1>3. TypeOK
    BY <1>1, <1>2 DEF Init, TypeOK
  <1>4. WorkInv /\ ChosenInv /\ StepsInv /\ FixedInv /\ AttendsToItsOwn
    BY DEF Init, WorkInv, ChosenInv, StepsInv, FixedInv, AttendsToItsOwn
  <1> QED BY <1>3, <1>4 DEF IInv, Core

\* The flags stay flags.
LEMMA FlagStep ==
  running \in BOOLEAN /\ primed \in BOOLEAN /\ [Next]_vars
    => running' \in BOOLEAN /\ primed' \in BOOLEAN
  BY DEF Next, Prepare, PrepareWithoutVoice, Run, ResolveVoice, VoiceFails, PrepareRuntime,
         NoCapacity, ApplyPrompt, PromptFails, Step, ChunkDone, ChunkFails, Abandon,
         requestVars, cacheVars, vars

\* A request that goes on to its next chunk has one, or is done.
LEMMA NextChunkStep ==
  ASSUME NEW q \in Seq(Chunks), NextChunk(q)
  PROVE  /\ queue' \in Seq(Chunks) /\ pc' \in {"idle", "chunk"}
         /\ pc' = "chunk" => queue' # <<>>
  BY DEF NextChunk

\* A request that fails is over.
LEMMA AbandonStep ==
  ASSUME Abandon
  PROVE  /\ pc' = "idle" /\ queue' = <<>> /\ queue' \in Seq(Chunks)
         /\ UNCHANGED <<config, voice, running>>
  BY DEF Abandon

\* Every step keeps the types and what is known of the runtime that was chosen.
LEMMA CoreStep == Core /\ [Next]_vars => Core'
  <1> SUFFICES ASSUME Core, [Next]_vars PROVE Core'
    OBVIOUS
  <1> USE DEF Core, slotVars, requestVars, cacheVars
  <1>0. running' \in BOOLEAN /\ primed' \in BOOLEAN
    BY FlagStep DEF TypeOK
  <1> DEFINE Types ==
        /\ config \in Configs
        /\ voice \in Voices \cup {None}
        /\ pc \in {"idle", "voice", "chunk", "prompt", "steps"}
        /\ queue \in Seq(Chunks)
        /\ recorded \in Capacity
        /\ runtime \in Plan \cup {None}
        /\ runtime # None => DOMAIN kv = 1..runtime.total
        /\ valid \in Nat /\ end \in Nat /\ done \in Nat
  <1>a. Types
    BY DEF TypeOK
  <1>b. ASSUME Types', (WorkInv /\ ChosenInv /\ StepsInv /\ FixedInv)'
        PROVE  Core'
    BY <1>0, <1>b DEF TypeOK
  <1>1. CASE Prepare
    <2>1. queue' \in Seq(Chunks)
      BY <1>1, RequestType DEF Prepare
    <2>2. Types'
      BY <1>1, <1>a, <2>1 DEF Prepare
    <2>3. (WorkInv /\ ChosenInv /\ StepsInv /\ FixedInv)'
      BY <1>1 DEF Prepare, WorkInv, ChosenInv, StepsInv, FixedInv
    <2> QED BY <1>b, <2>2, <2>3
  <1>2. CASE PrepareWithoutVoice
    <2>1. Types'
      BY <1>2, <1>a DEF PrepareWithoutVoice
    <2>2. (WorkInv /\ ChosenInv /\ StepsInv /\ FixedInv)'
      BY <1>2 DEF PrepareWithoutVoice, WorkInv, ChosenInv, StepsInv, FixedInv
    <2> QED BY <1>b, <2>1, <2>2
  <1>3. CASE Run
    <2>1. queue' \in Seq(Chunks)
      BY <1>3, RequestType DEF Run
    <2>2. Types'
      BY <1>3, <1>a, <2>1 DEF Run
    <2>3. (WorkInv /\ ChosenInv /\ StepsInv /\ FixedInv)'
      BY <1>3, <1>a DEF Run, WorkInv, ChosenInv, StepsInv, FixedInv
    <2> QED BY <1>b, <2>2, <2>3
  <1>4. CASE ResolveVoice
    <2>1. /\ queue' \in Seq(Chunks) /\ pc' \in {"idle", "chunk"}
          /\ pc' = "chunk" => queue' # <<>>
      BY <1>4, <1>a, NextChunkStep DEF ResolveVoice
    <2>2. Types'
      BY <1>4, <1>a, <2>1 DEF ResolveVoice
    <2>3. (WorkInv /\ ChosenInv /\ StepsInv /\ FixedInv)'
      BY <1>4, <2>1 DEF ResolveVoice, WorkInv, ChosenInv, StepsInv, FixedInv
    <2> QED BY <1>b, <2>2, <2>3
  <1>5. CASE VoiceFails \/ NoCapacity \/ ChunkFails
    <2>1. Abandon /\ UNCHANGED <<recorded, runtime, cacheVars>>
      BY <1>5 DEF VoiceFails, NoCapacity, ChunkFails
    <2>2. Types'
      BY <1>a, <2>1, AbandonStep
    <2>3. (WorkInv /\ ChosenInv /\ StepsInv /\ FixedInv)'
      BY <2>1, AbandonStep DEF WorkInv, ChosenInv, StepsInv, FixedInv
    <2> QED BY <1>b, <2>2, <2>3
  <1>6. CASE PrepareRuntime
    <2> DEFINE want == Capacities(queue[1])
    <2>1. voice \in Voices /\ queue # <<>> /\ queue \in Seq(Chunks)
      BY <1>6, <1>a DEF PrepareRuntime, WorkInv
    <2>2. /\ want \in Capacity /\ Built(want) \in Plan /\ Built(want) # None
          /\ want.prefix = PrefixOf[voice] /\ want.prompt > 0 /\ want.steps > 0
          /\ want.prompt >= queue[1].prompt /\ want.steps >= queue[1].steps
      BY <1>6, <2>1, CapacitiesType DEF PrepareRuntime
    <2>3. config.mode = "fixed" => want.prompt = config.prompt /\ want.steps = config.steps
      BY <2>2 DEF Capacities, select_capacity
    <2> HIDE DEF want
    <2>4. CASE CacheHit(want) /\ AfterRuntime /\ UNCHANGED <<config, voice, running, recorded, runtime, cacheVars>>
      <3>1. \/ pc' = "prompt" /\ queue' = queue
            \/ queue' \in Seq(Chunks) /\ pc' \in {"idle", "chunk"} /\ (pc' = "chunk" => queue' # <<>>)
        BY <2>1, <2>4, HeadChunk, NextChunkStep DEF AfterRuntime
      <3>2. Types'
        BY <1>a, <2>4, <3>1
      <3>3. /\ runtime # None /\ recorded.prompt >= want.prompt
            /\ recorded.prefix = want.prefix /\ recorded.steps >= want.steps
        BY <2>4 DEF CacheHit
      <3>4. /\ recorded.prompt >= queue[1].prompt /\ recorded.steps >= queue[1].steps
            /\ recorded.prefix = PrefixOf[voice]
        BY <1>a, <2>1, <2>2, <3>3, HeadChunk DEF Capacity
      <3>5. WorkInv' /\ StepsInv' /\ FixedInv'
        BY <2>1, <2>4, <3>1 DEF WorkInv, StepsInv, FixedInv
      <3>6. ChosenInv'
        BY <2>4, <3>1, <3>3, <3>4 DEF ChosenInv
      <3> QED BY <1>b, <3>2, <3>5, <3>6
    <2>5. CASE /\ recorded' = want /\ runtime' = Built(want) /\ kv' = Zeros(Built(want).total)
               /\ valid' = 0 /\ end' = 0 /\ AfterRuntime /\ UNCHANGED <<config, voice, done>>
      <3>1. \/ pc' = "prompt" /\ queue' = queue
            \/ queue' \in Seq(Chunks) /\ pc' \in {"idle", "chunk"} /\ (pc' = "chunk" => queue' # <<>>)
        BY <2>1, <2>5, HeadChunk, NextChunkStep DEF AfterRuntime
      <3>2. DOMAIN kv' = 1..runtime'.total
        BY <2>5 DEF Zeros
      <3>3. Types'
        BY <1>a, <2>2, <2>5, <3>1, <3>2
      <3>4. WorkInv' /\ StepsInv' /\ FixedInv'
        BY <2>1, <2>3, <2>5, <3>1 DEF WorkInv, StepsInv, FixedInv
      <3>5. ChosenInv'
        BY <2>2, <2>5, <3>1 DEF ChosenInv
      <3> QED BY <1>b, <3>3, <3>4, <3>5
    <2>6. CASE recorded' = want /\ Abandon /\ UNCHANGED <<runtime, cacheVars>>
      <3>1. Types'
        BY <1>a, <2>2, <2>6, AbandonStep
      <3>2. (WorkInv /\ ChosenInv /\ StepsInv /\ FixedInv)'
        BY <2>3, <2>6, AbandonStep DEF WorkInv, ChosenInv, StepsInv, FixedInv
      <3> QED BY <1>b, <3>1, <3>2
    <2> QED BY <1>6, <2>4, <2>5, <2>6 DEF PrepareRuntime, want
  <1>7. CASE ApplyPrompt
    <2>1. CASE Abandon /\ UNCHANGED <<recorded, runtime, cacheVars>>
      <3>1. Types'
        BY <1>a, <2>1, AbandonStep
      <3>2. (WorkInv /\ ChosenInv /\ StepsInv /\ FixedInv)'
        BY <2>1, AbandonStep DEF WorkInv, ChosenInv, StepsInv, FixedInv
      <3> QED BY <1>b, <3>1, <3>2
    <2>2. CASE ~(Abandon /\ UNCHANGED <<recorded, runtime, cacheVars>>)
      <3>1. /\ pc = "prompt" /\ pc' = "steps"
            /\ kv' = Prompted(runtime, voice, queue[1].prompt)
            /\ valid' = PrefixOf[voice] + queue[1].prompt /\ end' = valid' /\ done' = 0
            /\ UNCHANGED <<config, voice, queue, recorded, runtime>>
        BY <1>7, <2>2 DEF ApplyPrompt
      <3>2. /\ queue # <<>> /\ voice \in Voices /\ runtime # None
            /\ queue[1].prompt \in Nat /\ queue[1].steps \in Nat \ {0}
        BY <1>a, <3>1, HeadChunk DEF WorkInv, ChosenInv
      <3>3. PrefixOf[voice] \in Nat
        BY <3>2, VoiceAssumption
      <3>4. DOMAIN kv' = 1..runtime.total
        BY <3>1 DEF Prompted
      <3>5. Types'
        BY <1>a, <3>1, <3>2, <3>3, <3>4
      <3>6. (WorkInv /\ ChosenInv /\ StepsInv /\ FixedInv)'
        BY <3>1, <3>2 DEF WorkInv, ChosenInv, StepsInv, FixedInv
      <3> QED BY <1>b, <3>5, <3>6
    <2> QED BY <2>1, <2>2
  <1>8. CASE PromptFails
    <2>1. /\ kv' = Imported(runtime, voice) /\ valid' = PrefixOf[voice] /\ end' = valid'
          /\ pc = "prompt" /\ Abandon /\ UNCHANGED <<recorded, runtime, done>>
      BY <1>8 DEF PromptFails
    <2>2. PrefixOf[voice] \in Nat
      BY <2>1, VoiceAssumption DEF WorkInv
    <2>3. DOMAIN kv' = 1..runtime.total
      BY <2>1 DEF Imported
    <2>4. Types'
      BY <1>a, <2>1, <2>2, <2>3, AbandonStep
    <2>5. (WorkInv /\ ChosenInv /\ StepsInv /\ FixedInv)'
      BY <2>1, AbandonStep DEF WorkInv, ChosenInv, StepsInv, FixedInv
    <2> QED BY <1>b, <2>4, <2>5
  <1>9. CASE Step
    <2>1. /\ pc = "steps" /\ done < queue[1].steps /\ DOMAIN kv' = DOMAIN kv
          /\ valid' = valid + 1 /\ end' = end + 1 /\ done' = done + 1
          /\ UNCHANGED <<config, pc, voice, queue, recorded, runtime>>
      BY <1>9 DEF Step
    <2>2. queue[1].steps \in Nat
      BY <1>a, <2>1, HeadChunk DEF WorkInv
    <2>3. Types'
      BY <1>a, <2>1
    <2>4. WorkInv' /\ ChosenInv' /\ FixedInv'
      BY <2>1 DEF WorkInv, ChosenInv, FixedInv
    <2>5. StepsInv'
      BY <1>a, <2>1, <2>2 DEF StepsInv
    <2> QED BY <1>b, <2>3, <2>4, <2>5
  <1>10. CASE ChunkDone
    <2>1. /\ pc = "steps" /\ NextChunk(Tail(queue))
          /\ UNCHANGED <<config, voice, recorded, runtime, kv, valid, end, done>>
      BY <1>10 DEF ChunkDone
    <2>2. /\ queue' \in Seq(Chunks) /\ pc' \in {"idle", "chunk"}
          /\ pc' = "chunk" => queue' # <<>>
      BY <1>a, <2>1, HeadChunk, NextChunkStep DEF WorkInv
    <2>3. Types'
      BY <1>a, <2>1, <2>2
    <2>4. (WorkInv /\ ChosenInv /\ StepsInv /\ FixedInv)'
      BY <2>1, <2>2 DEF WorkInv, ChosenInv, StepsInv, FixedInv
    <2> QED BY <1>b, <2>3, <2>4
  <1>11. CASE UNCHANGED vars
    <2>1. Types'
      BY <1>11, <1>a DEF vars
    <2>2. (WorkInv /\ ChosenInv /\ StepsInv /\ FixedInv)'
      BY <1>11 DEF vars, WorkInv, ChosenInv, StepsInv, FixedInv
    <2> QED BY <1>b, <2>1, <2>2
  <1> QED BY <1>1, <1>2, <1>3, <1>4, <1>5, <1>6, <1>7, <1>8, <1>9, <1>10, <1>11 DEF Next

\* Applying the prompt fills the slots from the voice and the prompt, and a step adds
\* its own behind them.
LEMMA AttendsStep == Core /\ AttendsToItsOwn /\ [Next]_vars => AttendsToItsOwn'
  <1> SUFFICES ASSUME Core, AttendsToItsOwn, [Next]_vars, (pc = "steps" /\ AsRecorded)'
               PROVE  ChunkAttends'
    BY DEF AttendsToItsOwn
  <1> USE DEF slotVars, requestVars, cacheVars
  <1>a. TypeOK /\ WorkInv /\ ChosenInv
    BY DEF Core
  <1>1. CASE ApplyPrompt
    <2> DEFINE n == PrefixOf[voice]
               prompt == queue[1].prompt
    <2>1. /\ pc = "prompt" /\ kv' = Prompted(runtime, voice, prompt)
          /\ valid' = n + prompt /\ end' = n + prompt /\ done' = 0
          /\ UNCHANGED <<voice, queue, recorded, runtime>>
          /\ n + prompt <= runtime.total
      BY <1>1 DEF ApplyPrompt, Abandon
    <2>2. /\ runtime # None /\ recorded.prefix = n /\ voice \in Voices
          /\ queue # <<>> /\ queue \in Seq(Chunks) /\ recorded \in Capacity
      BY <1>a, <2>1 DEF TypeOK, WorkInv, ChosenInv
    <2>3. n \in Nat /\ prompt \in Nat
      BY <2>2, HeadChunk, VoiceAssumption
    <2>4. runtime.prefix = n /\ runtime.total \in Nat
      BY <2>1, <2>2 DEF AsRecorded, Built, Capacity
    <2>5. ASSUME NEW i \in 1..(n + prompt)
          PROVE  kv'[i] = Belongs(voice, prompt, i)
      <3>1. i \in 1..runtime.total
        BY <2>1, <2>3, <2>4, <2>5
      <3>2. CASE i <= n
        <4>1. kv'[i] = <<voice, i>>
          BY <2>1, <2>3, <2>4, <3>1, <3>2 DEF Prompted
        <4> QED BY <3>2, <4>1 DEF Belongs
      <3>3. CASE ~(i <= n)
        <4>1. kv'[i] = <<"prompt", i - n>>
          BY <2>1, <2>3, <2>4, <2>5, <3>1, <3>3 DEF Prompted
        <4> QED BY <2>5, <3>3, <4>1 DEF Belongs
      <3> QED BY <3>2, <3>3
    <2> QED BY <2>1, <2>3, <2>5 DEF ChunkAttends
  <1>2. CASE Step
    <2> DEFINE n == PrefixOf[voice]
               prompt == queue[1].prompt
    <2>1. /\ pc = "steps" /\ valid < runtime.total
          /\ kv' = [kv EXCEPT ![valid + 1] = <<"step", done + 1>>]
          /\ valid' = valid + 1 /\ end' = end + 1 /\ done' = done + 1
          /\ UNCHANGED <<voice, queue, recorded, runtime>>
      BY <1>2 DEF Step
    <2>2. /\ valid = n + prompt + done /\ end = valid
          /\ \A i \in 1..valid : kv[i] = Belongs(voice, prompt, i)
      BY <2>1 DEF AttendsToItsOwn, AsRecorded, ChunkAttends
    <2>3. /\ runtime # None /\ voice \in Voices /\ queue # <<>> /\ queue \in Seq(Chunks)
          /\ valid \in Nat /\ done \in Nat /\ runtime \in Plan /\ DOMAIN kv = 1..runtime.total
      BY <1>a, <2>1 DEF TypeOK, WorkInv, ChosenInv
    <2>4. n \in Nat /\ prompt \in Nat /\ runtime.total \in Nat
      BY <2>3, HeadChunk, VoiceAssumption DEF Plan
    <2>5. ASSUME NEW i \in 1..(valid + 1)
          PROVE  kv'[i] = Belongs(voice, prompt, i)
      <3>1. i \in DOMAIN kv
        BY <2>1, <2>3, <2>4, <2>5
      <3>2. CASE i \in 1..valid
        <4>1. kv'[i] = kv[i]
          BY <2>1, <2>3, <3>1, <3>2
        <4> QED BY <2>2, <3>2, <4>1
      <3>3. CASE i = valid + 1
        <4>1. kv'[i] = <<"step", done + 1>>
          BY <2>1, <3>1, <3>3
        <4>2. ~(i <= n) /\ ~(i <= n + prompt) /\ i - n - prompt = done + 1
          BY <2>2, <2>3, <2>4, <3>3
        <4> QED BY <4>1, <4>2 DEF Belongs
      <3> QED BY <2>3, <2>5, <3>2, <3>3
    <2>6. valid' = n + prompt + done' /\ end' = valid'
      <3>1. valid = n + prompt + done /\ end = valid
        BY <2>2
      <3>2. valid' = valid + 1 /\ end' = end + 1 /\ done' = done + 1
        BY <2>1
      <3> HIDE DEF n, prompt
      <3> QED BY <3>1, <3>2, <2>3, <2>4
    <2>7. \A i \in 1..valid' : kv'[i] = Belongs(voice, prompt, i)
      BY <2>1, <2>5
    <2> HIDE DEF n, prompt
    <2>8. n = PrefixOf[voice'] /\ prompt = queue'[1].prompt /\ voice' = voice
      BY <2>1 DEF n, prompt
    <2> QED BY <2>6, <2>7, <2>8 DEF ChunkAttends
  <1>3. CASE UNCHANGED vars
    BY <1>3 DEF vars, AttendsToItsOwn, AsRecorded, ChunkAttends
  <1>4. CASE Prepare \/ Run
    BY <1>4 DEF Prepare, Run
  <1>5. CASE PrepareWithoutVoice
    BY <1>5 DEF PrepareWithoutVoice
  <1>6. CASE ResolveVoice \/ ChunkDone
    BY <1>6 DEF ResolveVoice, ChunkDone, NextChunk
  <1>7. CASE VoiceFails \/ NoCapacity \/ PromptFails \/ ChunkFails
    BY <1>7 DEF VoiceFails, NoCapacity, PromptFails, ChunkFails, Abandon
  <1>8. CASE PrepareRuntime
    BY <1>8 DEF PrepareRuntime, AfterRuntime, NextChunk, Abandon
  <1> QED BY <1>1, <1>2, <1>3, <1>4, <1>5, <1>6, <1>7, <1>8 DEF Next

\* The inductive invariant holds in every reachable state.
THEOREM Invariant == Spec => []IInv
  <1>1. IInv /\ [Next]_vars => IInv'
    BY CoreStep, AttendsStep DEF IInv
  <1> QED BY InitInv, <1>1, PTL DEF Spec

-----------------------------------------------------------------------------
\* Every variable of a session keeps its type.
THEOREM TypeCorrect == Spec => []TypeOK
  <1>1. IInv => TypeOK
    BY DEF IInv, Core
  <1> QED BY Invariant, <1>1, PTL

\* The steps of a runtime that is what its key says attend to their own voice, prompt
\* and steps.
THEOREM Attention == Spec => []AttendsToItsOwn
  <1>1. IInv => AttendsToItsOwn
    BY DEF IInv
  <1> QED BY Invariant, <1>1, PTL

\* A runtime that was chosen for a chunk has room for its prompt and all its steps.
THEOREM Room == Spec => []HasRoom
  <1>1. ASSUME IInv PROVE HasRoom
    <2> SUFFICES ASSUME AsRecorded, pc \in {"prompt", "steps"}
                 PROVE  /\ pc = "prompt" =>
                             /\ queue[1].prompt <= runtime.prompt
                             /\ PrefixOf[voice] <= runtime.prefix
                             /\ PrefixOf[voice] + queue[1].prompt + queue[1].steps <= runtime.total
                        /\ pc = "steps" => valid + (queue[1].steps - done) <= runtime.total
      BY DEF HasRoom
    <2>1. /\ runtime # None /\ voice \in Voices /\ queue # <<>> /\ queue \in Seq(Chunks)
          /\ recorded \in Capacity /\ done \in Nat /\ recorded.prefix = PrefixOf[voice]
          /\ recorded.prompt >= queue[1].prompt /\ recorded.steps >= queue[1].steps
      BY <1>1 DEF IInv, Core, TypeOK, WorkInv, ChosenInv
    <2>2. /\ queue[1].prompt \in Nat /\ queue[1].steps \in Nat /\ PrefixOf[voice] \in Nat
          /\ recorded.prompt \in Nat /\ recorded.steps \in Nat
      BY <2>1, HeadChunk, VoiceAssumption DEF Capacity
    <2>3. /\ runtime.prompt = recorded.prompt /\ runtime.prefix = recorded.prefix
          /\ runtime.total = recorded.prefix + recorded.prompt + recorded.steps
      BY <2>1 DEF AsRecorded, Built
    <2>4. pc = "steps" => valid = PrefixOf[voice] + queue[1].prompt + done
      BY <1>1 DEF IInv, AttendsToItsOwn, ChunkAttends
    <2> QED BY <2>1, <2>2, <2>3, <2>4
  <1> QED BY Invariant, <1>1, PTL

\* As long as allocations succeed, the runtime is the one its key says.
LEMMA RecordedStep ==
  ASSUME AsRecorded, ~config.fails, [Next]_vars
  PROVE  AsRecorded' /\ ~config.fails'
  <1>1. CASE UNCHANGED <<config, recorded, runtime>>
    BY <1>1 DEF AsRecorded, Built
  <1>2. CASE PrepareRuntime
    <2> DEFINE want == Capacities(queue[1])
    <2>1. \/ UNCHANGED <<config, recorded, runtime>>
          \/ recorded' = want /\ runtime' = Built(want) /\ config' = config
      BY <1>2, Zenon DEF PrepareRuntime
    <2> HIDE DEF want
    <2> QED BY <1>1, <2>1 DEF AsRecorded, Built
  <1> QED BY <1>1, <1>2 DEF Next, Prepare, PrepareWithoutVoice, Run, ResolveVoice, VoiceFails,
         NoCapacity, ApplyPrompt, PromptFails, Step, ChunkDone, ChunkFails, Abandon,
         requestVars, vars

\* A failed allocation is all that a wrong step takes: on a backend where none fails every
\* step attends to its own, and the run voice_runtime_lost shows what one does
\* (acoustic_model.cpp:97-115).
THEOREM AllocatedAttend == Spec /\ ~config.fails => []AlwaysAttendsToItsOwn
  <1>1. Init => AsRecorded
    BY DEF Init, AsRecorded
  <1>2. IInv /\ AsRecorded => AlwaysAttendsToItsOwn
    BY DEF IInv, AttendsToItsOwn, AlwaysAttendsToItsOwn
  <1> QED BY Invariant, RecordedStep, <1>1, <1>2, PTL DEF Spec

\* A runtime is replaced only for another prefix or for more than it has, and never by
\* one with less.
THEOREM Rebuilds == Spec => RebuildsToGrow
  <1> DEFINE Grown ==
        /\ \/ runtime'.prefix # runtime.prefix
           \/ queue[1].prompt > runtime.prompt
           \/ queue[1].steps > StepRoom(runtime)
        /\ runtime'.prompt >= runtime.prompt
        /\ StepRoom(runtime') >= StepRoom(runtime)
  <1>1. ASSUME IInv, [Next]_vars, runtime' # runtime, runtime # None, AsRecorded
        PROVE  Grown
    <2> DEFINE want == Capacities(queue[1])
    <2> USE DEF slotVars, requestVars, cacheVars
    <2>1. CASE PrepareRuntime
      <3>1. voice \in Voices /\ queue # <<>> /\ queue \in Seq(Chunks) /\ TypeOK /\ FixedInv
        BY <1>1, <2>1 DEF PrepareRuntime, WorkInv, IInv, Core, TypeOK
      <3>2. want \in Capacity /\ queue[1].prompt \in Nat \ {0} /\ queue[1].steps \in Nat \ {0}
        BY <3>1, CapacitiesType, HeadChunk
      <3>3. runtime' = Built(want) /\ ~CacheHit(want) /\ want.prompt > 0 /\ want.steps > 0
        BY <1>1, <2>1 DEF PrepareRuntime
      <3>4. /\ want.prompt = select_capacity("prompt", queue[1].prompt)
            /\ want.steps = select_capacity("steps", queue[1].steps)
        BY DEF Capacities
      <3>5. /\ want.prompt >= queue[1].prompt
            /\ want.prompt # recorded["prompt"] => queue[1].prompt > recorded["prompt"]
        BY <1>1, <3>1, <3>2, <3>3, <3>4, SelectCovers
      <3>6. /\ want.steps >= queue[1].steps
            /\ want.steps # recorded["steps"] => queue[1].steps > recorded["steps"]
        BY <1>1, <3>1, <3>2, <3>3, <3>4, SelectCovers
      <3> HIDE DEF want
      <3>7. ~(/\ recorded.prompt >= want.prompt /\ recorded.prefix = want.prefix
              /\ recorded.steps >= want.steps)
        BY <1>1, <3>3 DEF CacheHit
      <3>8. recorded \in Capacity /\ runtime = Built(recorded)
        BY <1>1, <3>1 DEF TypeOK, AsRecorded
      <3>9. /\ runtime.prompt = recorded.prompt /\ runtime.prefix = recorded.prefix
            /\ StepRoom(runtime) = recorded.steps
        BY <3>8 DEF Built, StepRoom, Capacity
      <3>10. /\ runtime'.prompt = want.prompt /\ runtime'.prefix = want.prefix
             /\ StepRoom(runtime') = want.steps
        BY <3>2, <3>3 DEF Built, StepRoom, Capacity
      <3>11. /\ recorded.prompt \in Nat /\ recorded.steps \in Nat
             /\ want.prompt \in Nat /\ want.steps \in Nat
        BY <3>2, <3>8 DEF Capacity
      <3> QED BY <3>2, <3>5, <3>6, <3>7, <3>9, <3>10, <3>11
    <2>2. CASE ~PrepareRuntime
      BY <1>1, <2>2 DEF Next, Prepare, PrepareWithoutVoice, Run, ResolveVoice, VoiceFails,
                        NoCapacity, ApplyPrompt, PromptFails, Step, ChunkDone, ChunkFails, vars
    <2> QED BY <2>1, <2>2
  <1>2. IInv /\ [Next]_vars => [runtime' # runtime /\ runtime # None /\ AsRecorded => Grown]_vars
    BY <1>1
  <1> QED BY Invariant, <1>2, PTL DEF Spec, RebuildsToGrow

-----------------------------------------------------------------------------
(* The slots.                                                               *)

\* Ages tell voices apart, and there is a voice of every age up to the oldest.
Ages(a) ==
  /\ a \in [DOMAIN a -> Nat] /\ DOMAIN a \subseteq Voices
  /\ \A v, w \in DOMAIN a : a[v] = a[w] => v = w
  /\ \A v \in DOMAIN a : \A n \in 0..a[v] : \E w \in DOMAIN a : a[w] = n

\* The entries are the voices that are young enough, each once, and their ranks are
\* their ages from the other end.
Entries(s, a) ==
  /\ s \in Seq([key : Voices, used : Nat]) /\ Len(s) <= Slots
  /\ \A i \in 1..Len(s) : s[i].key \in DOMAIN a /\ s[i].used + a[s[i].key] = Len(s) - 1
  /\ \A n \in 0..(Len(s) - 1) : \E i \in 1..Len(s) : s[i].used = n
  /\ \A i, j \in 1..Len(s) : s[i].key = s[j].key => i = j
  /\ Keys(s) = {v \in DOMAIN a : a[v] < Slots}

\* A use keeps the ages.
LEMMA AgesKept ==
  ASSUME NEW a, Ages(a), NEW k \in Voices
  PROVE  Ages(AgesAfter(a, k))
  <1> DEFINE b == AgesAfter(a, k)
  <1>1. /\ a \in [DOMAIN a -> Nat] /\ DOMAIN a \subseteq Voices
        /\ \A v, w \in DOMAIN a : a[v] = a[w] => v = w
        /\ \A v \in DOMAIN a : \A n \in 0..a[v] : \E w \in DOMAIN a : a[w] = n
    BY DEF Ages
  <1>2. /\ DOMAIN b = DOMAIN a \cup {k}
        /\ \A v \in DOMAIN b : b[v] = IF v = k THEN 0
             ELSE IF k \in DOMAIN a /\ a[v] > a[k] THEN a[v] ELSE a[v] + 1
        /\ b = [v \in DOMAIN b |-> b[v]]
    BY DEF AgesAfter
  <1> HIDE DEF b
  <1>3. b \in [DOMAIN b -> Nat] /\ DOMAIN b \subseteq Voices
    BY <1>1, <1>2
  <1>4. \A v, w \in DOMAIN b : b[v] = b[w] => v = w
    BY <1>1, <1>2
  <1>5. ASSUME NEW v \in DOMAIN b, NEW n \in 0..b[v]
        PROVE  \E w \in DOMAIN b : b[w] = n
    <2>1. CASE n = 0
      BY <1>2, <2>1
    <2>2. CASE n # 0
      <3>1. v # k /\ v \in DOMAIN a /\ a[v] \in Nat
        BY <1>1, <1>2, <2>2
      <3>2. CASE k \in DOMAIN a /\ n > a[k]
        <4>1. a[v] > a[k] /\ n \in 0..a[v]
          BY <1>1, <1>2, <1>5, <3>1, <3>2
        <4>2. PICK w \in DOMAIN a : a[w] = n
          BY <1>1, <3>1, <4>1
        <4> QED BY <1>1, <1>2, <3>2, <4>2
      <3>3. CASE ~(k \in DOMAIN a /\ n > a[k])
        <4>1. n - 1 \in 0..a[v]
          BY <1>2, <2>2, <3>1
        <4>2. PICK w \in DOMAIN a : a[w] = n - 1
          BY <1>1, <3>1, <4>1
        <4>3. w # k
          BY <1>1, <3>3, <4>2
        <4> QED BY <1>1, <1>2, <3>3, <4>2, <4>3
      <3> QED BY <3>2, <3>3
    <2> QED BY <2>1, <2>2
  <1>6. Ages(b)
    BY <1>3, <1>4, <1>5 DEF Ages
  <1> QED BY <1>6 DEF b

\* A voice that is found becomes the one used last.
LEMMA FoundKept ==
  ASSUME NEW a, NEW s, Ages(a), Entries(s, a), NEW k \in Keys(s)
  PROVE  Entries(Touched(s, k), AgesAfter(a, k))
  <1> DEFINE b == AgesAfter(a, k)
             e == Touched(s, k)
             n == Len(s)
  <1>1. /\ a \in [DOMAIN a -> Nat] /\ n \in Nat /\ n <= Slots
        /\ s \in Seq([key : Voices, used : Nat])
        /\ \A v, w \in DOMAIN a : a[v] = a[w] => v = w
    BY DEF Ages, Entries
  <1>2. /\ \A i \in 1..n : s[i] \in [key : Voices, used : Nat]
        /\ \A v \in DOMAIN a : a[v] \in Nat
    <2> DEFINE E == [key : Voices, used : Nat]
    <2>1. s \in Seq(E)
      BY <1>1
    <2> HIDE DEF E
    <2>2. \A i \in 1..n : s[i] \in E
      BY <2>1
    <2> QED BY <1>1, <2>2 DEF E
  <1>a. \A i \in 1..n : /\ s[i].used \in Nat /\ s[i].key \in DOMAIN a
                        /\ s[i].used = n - 1 - a[s[i].key]
    <2> TAKE i \in 1..n
    <2>1. s[i].used \in Nat /\ s[i].key \in DOMAIN a /\ s[i].used + a[s[i].key] = n - 1
      BY <1>2 DEF Entries
    <2>2. a[s[i].key] \in Nat
      BY <1>2, <2>1
    <2> QED BY <1>1, <2>1, <2>2
  <1>3. PICK was \in 1..n : s[was].key = k /\ was = CHOOSE i \in 1..n : s[i].key = k
    BY DEF Keys
  <1>4. /\ k \in DOMAIN a /\ s[was].used = n - 1 - a[k] /\ s[was].used \in Nat
        /\ a[k] \in Nat
    BY <1>a, <1>2, <1>3
  <1>5. /\ DOMAIN b = DOMAIN a
        /\ \A v \in DOMAIN a : b[v] = IF v = k THEN 0 ELSE IF a[v] > a[k] THEN a[v] ELSE a[v] + 1
    BY <1>4 DEF AgesAfter
  <1>6. /\ e \in Seq([key : Voices, used : Nat]) /\ Len(e) = n
        /\ \A i \in 1..n : /\ e[i].key = s[i].key
                           /\ e[i].used = IF s[i].key = k THEN n - 1
                                ELSE IF s[i].used > s[was].used THEN s[i].used - 1 ELSE s[i].used
    <2>1. e = [i \in 1..n |-> [s[i] EXCEPT !.used =
                 IF s[i].key = k THEN n - 1 ELSE IF @ > s[was].used THEN @ - 1 ELSE @]]
      BY <1>3 DEF Touched
    <2> DEFINE entry(i) == [s[i] EXCEPT !.used =
                 IF s[i].key = k THEN n - 1 ELSE IF @ > s[was].used THEN @ - 1 ELSE @]
    <2>2. ASSUME NEW i \in 1..n
          PROVE  /\ entry(i) \in [key : Voices, used : Nat] /\ entry(i).key = s[i].key
                 /\ entry(i).used = IF s[i].key = k THEN n - 1
                      ELSE IF s[i].used > s[was].used THEN s[i].used - 1 ELSE s[i].used
      <3> DEFINE u == IF s[i].key = k THEN n - 1
                      ELSE IF s[i].used > s[was].used THEN s[i].used - 1 ELSE s[i].used
      <3>1. s[i].used \in Nat /\ s[was].used \in Nat /\ n - 1 \in Nat
        BY <1>a, <1>1, <1>4
      <3>2. u \in Nat
        BY <3>1
      <3>3. entry(i) = [s[i] EXCEPT !.used = u]
        OBVIOUS
      <3> HIDE DEF u, entry
      <3>4. entry(i) \in [key : Voices, used : Nat] /\ entry(i).key = s[i].key /\ entry(i).used = u
        BY <1>2, <3>2, <3>3
      <3> QED BY <3>4 DEF u
    <2>3. e = [i \in 1..n |-> entry(i)]
      BY <2>1
    <2> HIDE DEF entry, e
    <2> QED BY <1>1, <2>2, <2>3
  <1> HIDE DEF b, e, n
  <1>7. ASSUME NEW i \in 1..n
        PROVE  e[i].key \in DOMAIN b /\ e[i].used + b[e[i].key] = n - 1
    <2>1. s[i].key \in DOMAIN a /\ s[i].used = n - 1 - a[s[i].key]
      BY <1>a
    <2>2. a[s[i].key] \in Nat /\ a[k] \in Nat /\ s[i].used \in Nat
      BY <1>a, <1>2, <1>4
    <2>3. CASE s[i].key = k
      BY <1>1, <1>4, <1>5, <1>6, <2>3
    <2>4. CASE s[i].key # k
      <3>1. a[s[i].key] # a[k]
        BY <1>1, <1>4, <2>1, <2>4
      <3>2. s[i].used > s[was].used <=> a[s[i].key] < a[k]
        BY <1>1, <1>4, <2>1, <2>2
      <3>3. /\ e[i].key = s[i].key
            /\ e[i].used = IF s[i].used > s[was].used THEN s[i].used - 1 ELSE s[i].used
        BY <1>6, <2>4
      <3>4. /\ s[i].key \in DOMAIN b
            /\ b[s[i].key] = IF a[s[i].key] > a[k] THEN a[s[i].key] ELSE a[s[i].key] + 1
        BY <1>5, <2>1, <2>4
      <3>5. CASE a[s[i].key] < a[k]
        <4>1. e[i].used = s[i].used - 1 /\ b[s[i].key] = a[s[i].key] + 1
          BY <1>1, <1>4, <2>2, <3>2, <3>3, <3>4, <3>5
        <4> QED BY <1>1, <2>1, <2>2, <3>3, <3>4, <4>1
      <3>6. CASE a[s[i].key] > a[k]
        <4>1. e[i].used = s[i].used /\ b[s[i].key] = a[s[i].key]
          BY <1>1, <1>4, <2>2, <3>2, <3>3, <3>4, <3>6
        <4> QED BY <1>1, <2>1, <2>2, <3>3, <3>4, <4>1
      <3> QED BY <2>2, <3>1, <3>5, <3>6
    <2> QED BY <2>3, <2>4
  <1>8. \A i, j \in 1..n : e[i].key = e[j].key => i = j
    BY <1>6 DEF Entries, n
  <1>9. ASSUME NEW r \in 0..(n - 1) PROVE \E i \in 1..n : e[i].used = r
    <2>1. \A q \in 0..(n - 1) : \E i \in 1..n : s[i].used = q
      BY DEF Entries, n
    <2>2. \A i \in 1..n : s[i].used = s[was].used => s[i].key = k
      <3> TAKE i \in 1..n
      <3>1. s[i].used = s[was].used => a[s[i].key] = a[k]
        BY <1>a, <1>1, <1>2, <1>4
      <3> QED BY <1>a, <1>1, <1>4, <3>1
    <2>3. CASE r = n - 1
      BY <1>3, <1>6, <2>3
    <2>4. CASE r < s[was].used
      <3>1. PICK i \in 1..n : s[i].used = r
        BY <2>1
      <3>2. s[i].key # k
        BY <1>a, <1>1, <1>4, <2>4, <3>1
      <3> QED BY <1>4, <1>6, <2>4, <3>1, <3>2
    <2>5. CASE r # n - 1 /\ ~(r < s[was].used)
      <3>1. r + 1 \in 0..(n - 1)
        BY <1>1, <2>5
      <3>2. PICK i \in 1..n : s[i].used = r + 1
        BY <2>1, <3>1
      <3>3. s[i].key # k
        BY <1>a, <1>1, <1>4, <2>5, <3>2
      <3>4. e[i].used = IF s[i].used > s[was].used THEN s[i].used - 1 ELSE s[i].used
        BY <1>6, <3>3
      <3> QED BY <1>1, <1>4, <2>5, <3>2, <3>4
    <2> QED BY <1>1, <1>4, <2>3, <2>4, <2>5
  <1>10. Keys(e) = {v \in DOMAIN b : b[v] < Slots}
    <2>1. Keys(e) = Keys(s)
      BY <1>6 DEF Keys, n
    <2>2. Keys(s) = {v \in DOMAIN a : a[v] < Slots}
      BY DEF Entries
    <2>3. a[k] < Slots
      BY <2>2
    <2>4. \A v \in DOMAIN a : b[v] < Slots <=> a[v] < Slots
      <3> TAKE v \in DOMAIN a
      <3>1. a[v] \in Nat /\ (v # k => a[v] # a[k])
        BY <1>1, <1>2, <1>4
      <3> QED BY <1>4, <1>5, <2>3, <3>1, VoiceAssumption
    <2> QED BY <1>5, <2>1, <2>2, <2>4
  <1>11. Entries(e, b)
    BY <1>1, <1>6, <1>7, <1>8, <1>9, <1>10 DEF Entries
  <1> QED BY <1>11 DEF e, b

\* The entry of rank 0 makes room, and the others move down.
LEMMA OldestGone ==
  ASSUME NEW s \in Seq([key : Voices, used : Nat]), NEW n \in Nat, n = Len(s), n > 0,
         \A r \in 0..(n - 1) : \E i \in 1..n : s[i].used = r,
         \A i, j \in 1..n : s[i].used = s[j].used => i = j
  PROVE  LET e == WithoutOldest(s)
         IN \E oldest \in 1..n :
              /\ s[oldest].used = 0
              /\ e \in Seq([key : Voices, used : Nat]) /\ Len(e) = n - 1
              /\ \A i \in 1..(n - 1) :
                   \E j \in 1..n : /\ j = (IF i < oldest THEN i ELSE i + 1) /\ j # oldest
                                   /\ e[i].key = s[j].key /\ e[i].used = s[j].used - 1
  <1>1. \A i \in 1..n : s[i] \in [key : Voices, used : Nat] /\ s[i].used \in Nat
    <2> DEFINE E == [key : Voices, used : Nat]
    <2>1. s \in Seq(E)
      OBVIOUS
    <2> HIDE DEF E
    <2>2. \A i \in 1..n : s[i] \in E
      BY <2>1
    <2> QED BY <2>2 DEF E
  <1>2. PICK first \in 1..n : s[first].used = 0
    OBVIOUS
  <1> DEFINE P(i) == \A j \in 1..Len(s) : s[i].used <= s[j].used
             oldest == CHOOSE i \in 1..Len(s) : P(i)
  <1>3. oldest \in 1..n /\ P(oldest)
    <2>1. first \in 1..n /\ P(first)
      BY <1>1, <1>2
    <2> HIDE DEF P
    <2> QED BY <2>1
  <1>4. s[oldest].used = 0
    <2> HIDE DEF oldest
    <2>1. s[oldest].used <= s[first].used /\ s[oldest].used \in Nat
      BY <1>1, <1>2, <1>3
    <2> QED BY <1>2, <2>1
  <1> DEFINE e == WithoutOldest(s)
             from(i) == IF i < oldest THEN i ELSE i + 1
             entry(i) == LET x == IF i < oldest THEN s[i] ELSE s[i + 1]
                         IN [x EXCEPT !.used = @ - 1]
  <1>5. e = [i \in 1..(n - 1) |-> entry(i)]
    BY DEF WithoutOldest
  <1> HIDE DEF P, oldest, e
  <1>6. ASSUME NEW i \in 1..(n - 1)
        PROVE  /\ from(i) \in 1..n /\ from(i) # oldest
               /\ entry(i) \in [key : Voices, used : Nat]
               /\ entry(i).key = s[from(i)].key /\ entry(i).used = s[from(i)].used - 1
    <2>1. from(i) \in 1..n /\ from(i) # oldest
      BY <1>3
    <2>0. entry(i) = [s[from(i)] EXCEPT !.used = @ - 1]
      OBVIOUS
    <2> HIDE DEF from, entry
    <2>2. s[from(i)].used # 0 /\ s[from(i)].used \in Nat
      BY <1>1, <1>3, <1>4, <2>1
    <2>3. s[from(i)].used - 1 \in Nat
      BY <2>2
    <2>4. s[from(i)] \in [key : Voices, used : Nat]
      BY <1>1, <2>1
    <2> DEFINE x == s[from(i)]
               u == x.used - 1
    <2>5. entry(i) = [x EXCEPT !.used = u] /\ u \in Nat /\ x \in [key : Voices, used : Nat]
      BY <2>0, <2>3, <2>4
    <2> HIDE DEF x, u
    <2>6. /\ entry(i) \in [key : Voices, used : Nat]
          /\ entry(i).key = x.key /\ entry(i).used = u
      BY <2>5
    <2> QED BY <2>1, <2>6 DEF x, u
  <1>7. e \in Seq([key : Voices, used : Nat]) /\ Len(e) = n - 1
    <2> DEFINE E == [key : Voices, used : Nat]
    <2>1. \A i \in 1..(n - 1) : entry(i) \in E
      BY <1>6
    <2> HIDE DEF entry, E
    <2>2. e \in Seq(E) /\ Len(e) = n - 1
      BY <1>5, <2>1
    <2> QED BY <2>2 DEF E
  <1>8. ASSUME NEW i \in 1..(n - 1)
        PROVE  \E j \in 1..n : /\ j = (IF i < oldest THEN i ELSE i + 1) /\ j # oldest
                               /\ e[i].key = s[j].key /\ e[i].used = s[j].used - 1
    <2>1. e[i] = entry(i)
      BY <1>5
    <2> HIDE DEF entry
    <2>2. /\ from(i) \in 1..n /\ from(i) # oldest
          /\ e[i].key = s[from(i)].key /\ e[i].used = s[from(i)].used - 1
      BY <1>6, <2>1
    <2> QED BY <2>2
  <1> QED BY <1>3, <1>4, <1>7, <1>8 DEF e

\* An entry that is appended has the highest rank.
LEMMA AppendedKept ==
  ASSUME NEW s \in Seq([key : Voices, used : Nat]), NEW n \in Nat, n = Len(s), NEW k \in Voices
  PROVE  LET e == Append(s, [key |-> k, used |-> n])
         IN /\ e \in Seq([key : Voices, used : Nat]) /\ Len(e) = n + 1
            /\ \A i \in 1..n : e[i] = s[i]
            /\ e[n + 1].key = k /\ e[n + 1].used = n
  <1> DEFINE E == [key : Voices, used : Nat]
             x == [key |-> k, used |-> n]
  <1>1. s \in Seq(E) /\ x \in E /\ x.key = k /\ x.used = n
    OBVIOUS
  <1> HIDE DEF E, x
  <1>2. /\ Append(s, x) \in Seq(E) /\ Len(Append(s, x)) = n + 1
        /\ \A i \in 1..n : Append(s, x)[i] = s[i]
        /\ Append(s, x)[n + 1] = x
    BY <1>1
  <1> QED BY <1>1, <1>2 DEF E, x

\* What Entries and Ages say of each entry and each voice.
LEMMA EntryFacts ==
  ASSUME NEW a, NEW s, Ages(a), Entries(s, a)
  PROVE  /\ Len(s) \in Nat /\ Len(s) <= Slots /\ Slots \in Nat
         /\ \A v \in DOMAIN a : a[v] \in Nat
         /\ \A i \in 1..Len(s) : /\ s[i] \in [key : Voices, used : Nat]
                                 /\ s[i].used \in Nat /\ s[i].key \in DOMAIN a
                                 /\ a[s[i].key] = Len(s) - 1 - s[i].used
                                 /\ s[i].key \in Keys(s)
         /\ \A v \in Keys(s) : v \in DOMAIN a /\ a[v] < Len(s)
         /\ \A i, j \in 1..Len(s) : s[i].used = s[j].used => i = j
  <1> DEFINE E == [key : Voices, used : Nat]
  <1>1. s \in Seq(E) /\ Len(s) <= Slots /\ Slots \in Nat /\ a \in [DOMAIN a -> Nat]
    BY VoiceAssumption DEF Ages, Entries
  <1>2. Len(s) \in Nat /\ \A v \in DOMAIN a : a[v] \in Nat
    BY <1>1
  <1>3. ASSUME NEW i \in 1..Len(s) PROVE s[i] \in E
    <2> HIDE DEF E
    <2> QED BY <1>1
  <1>4. ASSUME NEW i \in 1..Len(s)
        PROVE  /\ s[i].used \in Nat /\ s[i].key \in DOMAIN a /\ s[i].key \in Keys(s)
               /\ a[s[i].key] = Len(s) - 1 - s[i].used
    <2>1. s[i].used \in Nat
      BY <1>3
    <2>2. s[i].key \in DOMAIN a /\ s[i].used + a[s[i].key] = Len(s) - 1
      BY DEF Entries
    <2>3. s[i].key \in Keys(s)
      BY DEF Keys
    <2> QED BY <1>2, <2>1, <2>2, <2>3
  <1>5. ASSUME NEW v \in Keys(s) PROVE v \in DOMAIN a /\ a[v] < Len(s)
    <2>1. PICK i \in 1..Len(s) : s[i].key = v
      BY DEF Keys
    <2> QED BY <1>2, <1>4, <2>1
  <1>6. ASSUME NEW i \in 1..Len(s), NEW j \in 1..Len(s), s[i].used = s[j].used PROVE i = j
    <2>1. a[s[i].key] = a[s[j].key] /\ s[i].key \in DOMAIN a /\ s[j].key \in DOMAIN a
      BY <1>4, <1>6
    <2>2. s[i].key = s[j].key
      BY <2>1 DEF Ages
    <2> QED BY <2>2 DEF Entries
  <1> QED BY <1>1, <1>2, <1>3, <1>4, <1>5, <1>6

\* The entries a new one is put behind: all the voices that stay young enough.
Behind(m, a, k) ==
  /\ m \in Seq([key : Voices, used : Nat]) /\ Len(m) < Slots
  /\ k \in DOMAIN a => a[k] >= Slots
  /\ \A i \in 1..Len(m) : m[i].key \in DOMAIN a /\ m[i].used + a[m[i].key] = Len(m) - 1
  /\ \A n \in 0..(Len(m) - 1) : \E i \in 1..Len(m) : m[i].used = n
  /\ \A i, j \in 1..Len(m) : m[i].key = m[j].key => i = j
  /\ Keys(m) = {v \in DOMAIN a : a[v] + 1 < Slots}

\* A voice that is put behind them is the one used last.
LEMMA AddedKept ==
  ASSUME NEW a, NEW m, NEW k \in Voices, Ages(a), Behind(m, a, k)
  PROVE  Entries(Append(m, [key |-> k, used |-> Len(m)]), AgesAfter(a, k))
  <1> DEFINE E == [key : Voices, used : Nat]
             b == AgesAfter(a, k)
             n == Len(m)
             e == Append(m, [key |-> k, used |-> n])
  <1>1. m \in Seq(E) /\ a \in [DOMAIN a -> Nat] /\ n < Slots /\ Slots \in Nat
    BY VoiceAssumption DEF Ages, Behind
  <1>2. n \in Nat /\ \A v \in DOMAIN a : a[v] \in Nat
    BY <1>1
  <1>3. e \in Seq(E) /\ Len(e) = n + 1 /\ (\A i \in 1..n : e[i] = m[i])
        /\ e[n + 1].key = k /\ e[n + 1].used = n
    BY <1>1, <1>2, AppendedKept
  <1>4. ASSUME NEW i \in 1..n PROVE m[i] \in E
    <2> HIDE DEF E, e
    <2> QED BY <1>1
  <1>5. ASSUME NEW i \in 1..n
        PROVE  /\ m[i].used \in Nat /\ m[i].key \in DOMAIN a /\ m[i].key \in Keys(m)
               /\ m[i].used + a[m[i].key] = n - 1 /\ a[m[i].key] + 1 < Slots
               /\ m[i].key # k
    <2>1. m[i].used \in Nat
      BY <1>4
    <2>2. m[i].key \in DOMAIN a /\ m[i].used + a[m[i].key] = n - 1
      BY DEF Behind
    <2>3. m[i].key \in Keys(m)
      BY DEF Keys
    <2>4. a[m[i].key] + 1 < Slots
      BY <2>3 DEF Behind
    <2>5. k \in DOMAIN a => a[k] >= Slots
      BY DEF Behind
    <2>6. m[i].key # k
      BY <1>1, <1>2, <2>2, <2>4, <2>5
    <2> QED BY <2>1, <2>2, <2>3, <2>4, <2>6
  <1>6. DOMAIN b = DOMAIN a \cup {k} /\ b[k] = 0
    BY DEF AgesAfter
  <1>7. ASSUME NEW v \in DOMAIN a, v # k
        PROVE  /\ b[v] \in Nat /\ (b[v] < Slots <=> a[v] + 1 < Slots)
               /\ (a[v] < Slots => b[v] = a[v] + 1)
    <2>1. b[v] = IF k \in DOMAIN a /\ a[v] > a[k] THEN a[v] ELSE a[v] + 1
      BY <1>7 DEF AgesAfter
    <2>2. k \in DOMAIN a => a[k] >= Slots /\ a[k] \in Nat
      BY <1>2 DEF Behind
    <2>3. CASE k \in DOMAIN a /\ a[v] > a[k]
      BY <1>1, <1>2, <2>1, <2>2, <2>3
    <2>4. CASE ~(k \in DOMAIN a /\ a[v] > a[k])
      BY <1>1, <1>2, <2>1, <2>4
    <2> QED BY <2>3, <2>4
  <1>8. \A i \in 1..(n + 1) : i \in 1..n \/ i = n + 1
    BY <1>2
  <1> HIDE DEF b, e, n, E
  <1>9. ASSUME NEW i \in 1..(n + 1)
        PROVE  e[i].key \in DOMAIN b /\ e[i].used + b[e[i].key] = (n + 1) - 1
    <2>1. CASE i \in 1..n
      <3>1. e[i].used = m[i].used /\ e[i].key = m[i].key
        BY <1>3, <2>1
      <3>2. b[m[i].key] = a[m[i].key] + 1 /\ m[i].key \in DOMAIN b
        BY <1>1, <1>2, <1>5, <1>6, <1>7, <2>1
      <3>3. m[i].used \in Nat /\ a[m[i].key] \in Nat /\ m[i].used + a[m[i].key] = n - 1
        BY <1>2, <1>5, <2>1
      <3>4. m[i].used + (a[m[i].key] + 1) = (n + 1) - 1
        BY <1>2, <3>3
      <3> QED BY <3>1, <3>2, <3>4
    <2>2. CASE i = n + 1
      BY <1>2, <1>3, <1>6, <2>2
    <2> QED BY <1>8, <2>1, <2>2
  <1>10. ASSUME NEW r \in 0..((n + 1) - 1) PROVE \E i \in 1..(n + 1) : e[i].used = r
    <2>1. CASE r = n
      BY <1>2, <1>3, <2>1
    <2>2. CASE r # n
      <3>1. r \in 0..(n - 1)
        BY <1>2, <2>2
      <3>2. PICK i \in 1..n : m[i].used = r
        BY <3>1 DEF Behind, n
      <3> QED BY <1>2, <1>3, <3>2
    <2> QED BY <2>1, <2>2
  <1>11. ASSUME NEW i \in 1..(n + 1), NEW j \in 1..(n + 1), e[i].key = e[j].key PROVE i = j
    <2>1. \A x \in 1..n : e[x].key = m[x].key /\ e[x].key # k
      BY <1>3, <1>5
    <2>2. i \in 1..n /\ j \in 1..n => i = j
      BY <1>11, <2>1 DEF Behind, n
    <2> QED BY <1>3, <1>8, <1>11, <2>1, <2>2
  <1>12. Keys(e) = {v \in DOMAIN b : b[v] < Slots}
    <2>1. Keys(e) = Keys(m) \cup {k}
      <3>1. Keys(e) = {e[i].key : i \in 1..(n + 1)} /\ Keys(m) = {m[i].key : i \in 1..n}
        BY <1>3 DEF Keys, n
      <3>2. \A i \in 1..n : e[i].key = m[i].key /\ i \in 1..(n + 1)
        BY <1>2, <1>3
      <3>3. n + 1 \in 1..(n + 1)
        BY <1>2
      <3> QED BY <1>3, <1>8, <3>1, <3>2, <3>3
    <2>2. Keys(m) = {v \in DOMAIN a : a[v] + 1 < Slots}
      BY DEF Behind
    <2>3. 0 < Slots
      BY <1>1, <1>2
    <2>4. k \notin Keys(m)
      BY <1>1, <1>2, <2>2 DEF Behind
    <2> QED BY <1>6, <1>7, <2>1, <2>2, <2>3, <2>4
  <1>13. Len(e) <= Slots
    BY <1>1, <1>2, <1>3
  <1>14. Entries(e, b)
    BY <1>3, <1>9, <1>10, <1>11, <1>12, <1>13 DEF Entries, E
  <1> QED BY <1>14 DEF e, b, n

\* Where there is room all the entries stay.
LEMMA RoomBehind ==
  ASSUME NEW a, NEW s, NEW k \in Voices, Ages(a), Entries(s, a), k \notin Keys(s), Len(s) < Slots
  PROVE  Behind(s, a, k)
  <1> DEFINE n == Len(s)
  <1>0. /\ Len(s) \in Nat /\ Slots \in Nat
        /\ \A v \in DOMAIN a : a[v] \in Nat
        /\ \A v \in Keys(s) : v \in DOMAIN a /\ a[v] < Len(s)
    BY EntryFacts
  <1>1. /\ n \in Nat /\ Slots \in Nat /\ n < Slots
        /\ \A v \in DOMAIN a : a[v] \in Nat
        /\ \A v \in Keys(s) : v \in DOMAIN a /\ a[v] < n
    BY <1>0
  <1>2. Keys(s) = {v \in DOMAIN a : a[v] < Slots}
    BY DEF Entries
  <1> HIDE DEF n
  <1>3. \A v \in DOMAIN a : a[v] < n
    <2> SUFFICES ASSUME NEW v \in DOMAIN a, a[v] >= n PROVE FALSE
      BY <1>1
    <2>1. n \in 0..a[v]
      BY <1>1
    <2>2. PICK w \in DOMAIN a : a[w] = n
      BY <2>1 DEF Ages
    <2>3. w \in Keys(s)
      BY <1>1, <1>2, <2>2
    <2> QED BY <1>1, <2>2, <2>3
  <1>4. \A v \in DOMAIN a : a[v] < Slots /\ a[v] + 1 < Slots
    BY <1>1, <1>3
  <1>5. k \notin DOMAIN a
    BY <1>2, <1>4
  <1>6. Keys(s) = {v \in DOMAIN a : a[v] + 1 < Slots}
    BY <1>2, <1>4
  <1> QED BY <1>5, <1>6 DEF Entries, Behind

\* Where there is none, the oldest makes room for it.
LEMMA FullBehind ==
  ASSUME NEW a, NEW s, NEW k \in Voices, Ages(a), Entries(s, a), k \notin Keys(s),
         Len(s) = Slots, Slots > 0
  PROVE  Behind(WithoutOldest(s), a, k)
  <1> DEFINE E == [key : Voices, used : Nat]
             n == Len(s)
             m == WithoutOldest(s)
  <1>1. /\ n \in Nat /\ Slots \in Nat /\ n = Slots /\ n > 0
        /\ \A v \in DOMAIN a : a[v] \in Nat
        /\ \A i \in 1..n : /\ s[i].used \in Nat /\ s[i].key \in DOMAIN a
                           /\ a[s[i].key] = n - 1 - s[i].used
        /\ \A i, j \in 1..n : s[i].used = s[j].used => i = j
    BY EntryFacts
  <1>2. /\ s \in Seq(E)
        /\ \A r \in 0..(n - 1) : \E i \in 1..n : s[i].used = r
        /\ \A i, j \in 1..n : s[i].key = s[j].key => i = j
        /\ Keys(s) = {v \in DOMAIN a : a[v] < Slots}
    BY DEF Entries
  <1>3. PICK oldest \in 1..n :
          /\ s[oldest].used = 0
          /\ m \in Seq(E) /\ Len(m) = n - 1
          /\ \A i \in 1..(n - 1) :
               \E j \in 1..n : /\ j = (IF i < oldest THEN i ELSE i + 1) /\ j # oldest
                               /\ m[i].key = s[j].key /\ m[i].used = s[j].used - 1
    BY <1>1, <1>2, OldestGone
  <1> HIDE DEF m, n, E
  <1>4. ASSUME NEW j \in 1..n, j # oldest
        PROVE  \E i \in 1..(n - 1) : m[i].key = s[j].key /\ m[i].used = s[j].used - 1
    <2> DEFINE i == IF j < oldest THEN j ELSE j - 1
    <2>1. i \in 1..(n - 1) /\ j = (IF i < oldest THEN i ELSE i + 1)
      BY <1>1, <1>4
    <2> QED BY <1>3, <2>1
  <1>5. ASSUME NEW i \in 1..(n - 1)
        PROVE  /\ m[i].key \in DOMAIN a /\ m[i].used + a[m[i].key] = (n - 1) - 1
               /\ a[m[i].key] + 1 < Slots
    <2>1. PICK j \in 1..n : j # oldest /\ m[i].key = s[j].key /\ m[i].used = s[j].used - 1
      BY <1>3
    <2>2. s[oldest].used = 0 /\ \A x, y \in 1..n : s[x].used = s[y].used => x = y
      BY <1>1, <1>3
    <2>3. s[j].used # 0
      BY <2>1, <2>2
    <2>4. /\ s[j].used \in Nat /\ s[j].key \in DOMAIN a
          /\ a[s[j].key] = n - 1 - s[j].used /\ n \in Nat /\ n = Slots
      BY <1>1
    <2>5. a[s[j].key] + 1 < Slots /\ (s[j].used - 1) + a[s[j].key] = (n - 1) - 1
      BY <2>3, <2>4
    <2> QED BY <2>1, <2>4, <2>5
  <1>6. ASSUME NEW r \in 0..((n - 1) - 1) PROVE \E i \in 1..(n - 1) : m[i].used = r
    <2>1. r + 1 \in 0..(n - 1)
      BY <1>1
    <2>2. PICK j \in 1..n : s[j].used = r + 1
      BY <1>2, <2>1
    <2>3. j # oldest
      <3>1. r + 1 # 0 /\ s[oldest].used = 0
        BY <1>1, <1>3
      <3> QED BY <2>2, <3>1
    <2>4. PICK i \in 1..(n - 1) : m[i].used = s[j].used - 1
      BY <1>4, <2>3
    <2> QED BY <2>2, <2>4
  <1>7. ASSUME NEW i \in 1..(n - 1), NEW j \in 1..(n - 1), m[i].key = m[j].key PROVE i = j
    <2>1. PICK x \in 1..n : x = (IF i < oldest THEN i ELSE i + 1) /\ m[i].key = s[x].key
      BY <1>3
    <2>2. PICK y \in 1..n : y = (IF j < oldest THEN j ELSE j + 1) /\ m[j].key = s[y].key
      BY <1>3
    <2>3. s[x].key = s[y].key
      BY <1>7, <2>1, <2>2
    <2>4. \A u, w \in 1..n : s[u].key = s[w].key => u = w
      BY <1>2
    <2>5. x = y
      BY <2>3, <2>4
    <2> QED BY <1>1, <2>1, <2>2, <2>5
  <1>8. Keys(m) = {m[i].key : i \in 1..(n - 1)}
    BY <1>3 DEF Keys
  <1>9. ASSUME NEW v \in DOMAIN a, a[v] + 1 < Slots PROVE v \in Keys(m)
    <2>1. v \in Keys(s)
      BY <1>1, <1>2, <1>9
    <2>2. PICK j \in 1..n : s[j].key = v
      BY <2>1 DEF Keys, n
    <2>3. j # oldest
      <3>1. s[oldest].used = 0 /\ a[s[oldest].key] = n - 1 - s[oldest].used
        BY <1>1, <1>3
      <3>2. a[s[oldest].key] = n - 1
        BY <1>1, <3>1
      <3>3. a[v] # n - 1
        BY <1>1, <1>9
      <3> QED BY <2>2, <3>2, <3>3
    <2> QED BY <1>4, <1>8, <2>2, <2>3
  <1>10. Keys(m) = {v \in DOMAIN a : a[v] + 1 < Slots}
    BY <1>5, <1>8, <1>9
  <1>11. k \in DOMAIN a => a[k] >= Slots
    BY <1>1, <1>2
  <1>12. Len(m) < Slots
    BY <1>1, <1>3
  <1>13. Behind(m, a, k)
    BY <1>3, <1>5, <1>6, <1>7, <1>10, <1>11, <1>12 DEF Behind, E
  <1> QED BY <1>13 DEF m

\* Putting a voice that is not among the entries.
LEMMA PutKept ==
  ASSUME NEW a, NEW s, NEW k \in Voices, Ages(a), Entries(s, a), k \notin Keys(s)
  PROVE  Entries(put(s, k), AgesAfter(a, k))
  <1>1. Len(s) \in Nat /\ Slots \in Nat /\ Len(s) <= Slots
    BY EntryFacts
  <1>2. CASE Slots = 0
    <2>1. put(s, k) = <<>>
      BY <1>2 DEF put
    <2>2. \A v \in DOMAIN AgesAfter(a, k) : AgesAfter(a, k)[v] \in Nat
      BY AgesKept DEF Ages
    <2>3. Keys(<<>>) = {} /\ {v \in DOMAIN AgesAfter(a, k) : AgesAfter(a, k)[v] < 0} = {}
      BY <2>2 DEF Keys
    <2> QED BY <1>2, <2>1, <2>3 DEF Entries
  <1>3. CASE Slots # 0 /\ Len(s) < Slots
    <2>1. put(s, k) = Append(s, [key |-> k, used |-> Len(s)])
      BY <1>1, <1>3 DEF put
    <2> QED BY <1>3, <2>1, RoomBehind, AddedKept
  <1>4. CASE Slots # 0 /\ Len(s) = Slots
    <2> DEFINE m == WithoutOldest(s)
    <2>1. put(s, k) = Append(m, [key |-> k, used |-> Len(m)])
      BY <1>1, <1>4 DEF put
    <2>2. Behind(m, a, k)
      BY <1>1, <1>4, FullBehind
    <2> HIDE DEF m
    <2> QED BY <2>1, <2>2, AddedKept
  <1> QED BY <1>1, <1>2, <1>3, <1>4

\* Voices have their ages, and the slots their entries.
SlotsInv == Ages(age) /\ Entries(slots, age)

\* Only resolve_prepared_voice_state touches the slots.
LEMMA SlotsStep == Core /\ SlotsInv /\ [Next]_vars => SlotsInv'
  <1> SUFFICES ASSUME Core, SlotsInv, [Next]_vars PROVE SlotsInv'
    OBVIOUS
  <1>1. CASE ResolveVoice
    <2>1. voice \in Voices
      BY <1>1 DEF Core, WorkInv, ResolveVoice
    <2>2. age' = AgesAfter(age, voice)
      BY <1>1 DEF ResolveVoice
    <2>3. Ages(age')
      BY <2>1, <2>2, AgesKept DEF SlotsInv
    <2>4. CASE voice \in Keys(slots)
      <3>1. slots' = Touched(slots, voice)
        BY <1>1, <2>4 DEF ResolveVoice, find
      <3> QED BY <2>1, <2>2, <2>3, <2>4, <3>1, FoundKept DEF SlotsInv
    <2>5. CASE voice \notin Keys(slots)
      <3>1. slots' = put(slots, voice)
        BY <1>1, <2>5 DEF ResolveVoice
      <3> QED BY <2>1, <2>2, <2>3, <2>5, <3>1, PutKept DEF SlotsInv
    <2> QED BY <2>4, <2>5
  <1>2. CASE ~ResolveVoice
    <2>1. UNCHANGED <<slots, age>>
      BY <1>2 DEF Next, vars, slotVars, Prepare, PrepareWithoutVoice, Run, VoiceFails,
                  PrepareRuntime, NoCapacity, ApplyPrompt, PromptFails, Step, ChunkDone, ChunkFails
    <2> QED BY <2>1 DEF SlotsInv
  <1> QED BY <1>1, <1>2

\* The slots hold the voices used last, as many as there is room for, each once, for any
\* number of slots, none included (cache_slots.h:32-69).
THEOREM LatestKept == Spec => []KeepsTheLatest
  <1>1. Init => SlotsInv
    <2> SUFFICES ASSUME Init PROVE SlotsInv
      OBVIOUS
    <2>1. slots = <<>> /\ age = [v \in {} |-> 0] /\ DOMAIN age = {}
      BY DEF Init
    <2>2. Ages(age)
      BY <2>1 DEF Ages
    <2>3. Keys(slots) = {} /\ Len(slots) = 0
      BY <2>1 DEF Keys
    <2>4. Entries(slots, age)
      BY <2>1, <2>3, VoiceAssumption DEF Entries
    <2> QED BY <2>2, <2>4 DEF SlotsInv
  <1>2. SlotsInv => KeepsTheLatest
    BY DEF SlotsInv, Entries, KeepsTheLatest
  <1>3. IInv => Core
    BY DEF IInv
  <1> QED BY <1>1, <1>2, <1>3, Invariant, SlotsStep, PTL DEF Spec
=============================================================================
