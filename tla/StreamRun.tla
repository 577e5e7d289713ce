----------------------------- MODULE StreamRun -----------------------------
(***************************************************************************)
(* One streaming run of a session: run_stream of app/streaming/streaming.cpp *)
(* with the two sources of audio it reads, raw PCM (pcm_source.cpp) and a  *)
(* buffer.  The session is the model's own and stays for the next run, so  *)
(* its state is that of the session: who listens, and what it heard.       *)
(*                                                                         *)
(* Samples are named by their place in the source.  What a session makes   *)
(* of them is not modelled: it may send events at any point and may throw. *)
(***************************************************************************)
EXTENDS Integers, Sequences

CONSTANTS
  Inputs,     \* the sources and policies of runs; see Source below
  NoInput,    \* no run has begun
  MaxEvents   \* events a run sends; the code has no bound

\* from      "pcm", "buffer", or "none" for a run that takes no audio, or takes
\*           audio and got none
\* audio     the policy wants audio chunks; pull: it has events to be pulled
\* channels  of the audio; width: bytes of a sample
\* frames    preferred chunk in frames, its seconds times the rate, or NoFrames;
\*           samples: preferred chunk in samples, used when there are no frames
\* bytes     of the source; end: "eof", or "error" when the reader throws there.  A
\*           buffer is counted in samples and has its end
NoFrames == -1

Source ==
  [from : {"pcm", "buffer", "none"}, audio : BOOLEAN, pull : BOOLEAN,
   channels : Nat \ {0}, width : {1, 2, 4}, frames : Nat \cup {NoFrames}, samples : Nat,
   bytes : Nat, end : {"eof", "error"}]

ASSUME InputsAssumption ==
  /\ Inputs \subseteq Source
  /\ \A i \in Inputs : i.from = "buffer" => i.width = 1 /\ i.end = "eof"
  /\ NoInput \notin Source
  /\ MaxEvents \in Nat

VARIABLES
  input,      \* what the run reads
  phase,      \* where run_stream is
  sink,       \* the session has the run's event sink
  at,         \* bytes read from the source
  block,      \* the samples of the block just read
  more,       \* what read returned
  start,      \* start_sample
  heard,      \* the chunks the session was given since start_stream
  event,      \* the session is calling the sink, or its event is being passed on
  emitted     \* events of this run

streamVars == <<input, phase, sink, at, block, more, start, heard, event, emitted>>

Phases == {"none", "starting", "reading", "processing", "pulling", "finishing",
           "done", "failed"}
Running == Phases \ {"none", "done", "failed"}

-----------------------------------------------------------------------------

chunk_samples(i) == IF i.frames # NoFrames THEN i.frames * i.channels ELSE i.samples

\* The n samples of the source after its first ones.
After(first, n) == [k \in 1..n |-> first + k]

\* What a source has to offer when `from` bytes have been read: the samples of the
\* next block, the bytes it takes, and what the reader answers.
ReadPcm(i, from) ==
  LET wanted == chunk_samples(i) * i.width
      received == IF i.bytes - from < wanted THEN i.bytes - from ELSE wanted
      frame == i.width * i.channels
      count == ((received \div frame) * frame) \div i.width
  IN [samples |-> After(from \div i.width, count),
      bytes |-> received, more |-> received = wanted]

ReadBuffer(i, from) ==
  LET count == IF i.bytes - from < chunk_samples(i) THEN i.bytes - from
               ELSE chunk_samples(i)
  IN [samples |-> After(from, count),
      bytes |-> count, more |-> from + count < i.bytes]

\* A stream of the HTTP body throws as soon as a read reaches the place it fails at.
ReadFails(i, from) ==
  /\ i.from = "pcm" /\ i.end = "error"
  /\ i.bytes - from < chunk_samples(i) * i.width

\* A buffer that cuts a frame is refused before the session is touched.
Malformed(i) == i.from = "buffer" /\ i.bytes % i.channels # 0

\* The checks before the first chunk.
Acceptable(i) == i.audio => i.from # "none" /\ chunk_samples(i) > 0

-----------------------------------------------------------------------------
StreamInit ==
  /\ input = NoInput
  /\ phase = "none"
  /\ sink = FALSE
  /\ at = 0
  /\ block = <<>>
  /\ more = TRUE
  /\ start = 0
  /\ heard = <<>>
  /\ event = FALSE
  /\ emitted = 0

\* The run is over: its locals are gone, and the sink is taken back.
Over(how) ==
  /\ phase' = how
  /\ sink' = FALSE
  /\ event' = FALSE
  /\ input' = NoInput
  /\ at' = 0 /\ block' = <<>> /\ more' = TRUE /\ start' = 0 /\ emitted' = 0

\* catch (...)
Throw == Over("failed") /\ UNCHANGED heard

\* set_stream_event_sink.
Begin(i) ==
  /\ phase \notin Running
  /\ ~Malformed(i)
  /\ input' = i
  /\ phase' = "starting"
  /\ sink' = TRUE
  /\ UNCHANGED <<at, block, more, start, heard, event, emitted>>

\* Mutant: start_stream leaves what the session heard before.
StartWithoutReset ==
  /\ phase = "starting"
  /\ UNCHANGED heard
  /\ \/ /\ Acceptable(input)
        /\ phase' = IF input.audio THEN "reading" ELSE "pulling"
        /\ UNCHANGED <<input, sink, at, block, more, start, event, emitted>>
     \/ /\ ~Acceptable(input)
        /\ Over("failed")

\* start_stream resets the session.
StartStream ==
  /\ phase = "starting"
  /\ heard' = <<>>
  /\ \/ /\ Acceptable(input)
        /\ phase' = IF input.audio THEN "reading" ELSE "pulling"
        /\ UNCHANGED <<input, sink, at, block, more, start, event, emitted>>
     \/ /\ ~Acceptable(input)
        /\ Over("failed")

Read ==
  /\ phase = "reading"
  /\ ~event
  /\ \/ /\ ~ReadFails(input, at)
        /\ LET r == IF input.from = "pcm" THEN ReadPcm(input, at)
                    ELSE ReadBuffer(input, at)
           IN block' = r.samples /\ at' = at + r.bytes /\ more' = r.more
        /\ phase' = "processing"
        /\ UNCHANGED <<input, sink, start, heard, event, emitted>>
     \/ /\ ReadFails(input, at)
        /\ Throw

MayEmit ==
  \/ UNCHANGED <<event, emitted>>
  \/ /\ emitted < MaxEvents
     /\ event' = TRUE
     /\ emitted' = emitted + 1

\* A block without samples is skipped; one that cuts a frame is refused.
ProcessChunk ==
  /\ phase = "processing"
  /\ \/ /\ Len(block) % input.channels = 0
        /\ IF block = <<>> THEN UNCHANGED <<heard, start, event, emitted>>
           ELSE /\ heard' = Append(heard, [start |-> start, samples |-> block])
                /\ start' = start + Len(block)
                /\ MayEmit
        /\ phase' = IF more THEN "reading" ELSE "pulling"
        /\ block' = <<>>
        /\ UNCHANGED <<input, sink, at, more>>
     \/ /\ Len(block) % input.channels # 0
        /\ Throw

\* pull_stream_events, until the session has no more.
Pull ==
  /\ phase = "pulling"
  /\ ~event
  /\ \/ /\ input.pull /\ emitted < MaxEvents
        /\ MayEmit
        /\ UNCHANGED phase
     \/ /\ phase' = "finishing"
        /\ UNCHANGED <<event, emitted>>
  /\ UNCHANGED <<input, sink, at, block, more, start, heard>>

\* finish_stream: the session may still send events, then gives its result.
Finish ==
  /\ phase = "finishing"
  /\ ~event
  /\ \/ /\ emitted < MaxEvents
        /\ MayEmit
        /\ UNCHANGED <<input, phase, sink, at, block, more, start>>
     \/ Over("done")
  /\ UNCHANGED heard

\* start_stream, process_audio_chunk, next_stream_event or finish_stream throws.
SessionThrows ==
  /\ phase \in Running \ {"reading"}
  /\ ~event
  /\ Throw

\* The sink is given the event, and returns or throws.
Delivered ==
  /\ event
  /\ event' = FALSE
  /\ UNCHANGED <<input, phase, sink, at, block, more, start, heard, emitted>>

SinkThrows == event /\ Throw

RunStep == StartStream \/ Read \/ ProcessChunk \/ Pull \/ Finish

StreamNext ==
  \/ \E i \in Inputs : Begin(i)
  \/ RunStep \/ SessionThrows \/ Delivered \/ SinkThrows

StreamSpec == StreamInit /\ [][StreamNext]_streamVars

-----------------------------------------------------------------------------
StreamTypeOK ==
  /\ input \in Inputs \cup {NoInput}
  /\ phase \in Phases
  /\ sink \in BOOLEAN /\ more \in BOOLEAN /\ event \in BOOLEAN
  /\ {at, start} \subseteq Nat
  /\ emitted \in 0..MaxEvents
  /\ input # NoInput => at <= input.bytes

\* The samples of a full block that make whole frames.
FullPart(i) == chunk_samples(i) - (chunk_samples(i) % i.channels)

\* A session is given the blocks of its source one after another, in whole frames and
\* from their first sample: no block is lost, repeated or shifted, a full one loses less
\* than a frame, at its end, and start_sample counts what was given before
\* (streaming.cpp:55-78, pcm_source.cpp:87-97).
HearsItsBlocks ==
  phase \in Running \ {"starting"} =>
    \A k \in 1..Len(heard) :
      LET size == Len(heard[k].samples) IN
      /\ heard[k].start = (k - 1) * FullPart(input)
      /\ heard[k].samples = After((k - 1) * chunk_samples(input), size)
      /\ size % input.channels = 0
      /\ k < Len(heard) => size = FullPart(input)

\* Samples in the first k chunks, as their places count them.
HeardUpTo(k) == IF k = 0 THEN 0 ELSE heard[k].start + Len(heard[k].samples)

\* A session hears the samples of the source in their places: none is lost, doubled or
\* moved to another channel, and each chunk starts where its start_sample says.  The
\* comments and a test say so of raw audio as of a buffer (streaming.cpp:81-82,
\* pcm_source.cpp:87-88); the code keeps it only while chunks are whole frames.
HearsTheSource ==
  phase \in Running \ {"starting"} =>
    \A k \in 1..Len(heard) :
      /\ heard[k].start = HeardUpTo(k - 1)
      /\ heard[k].samples = After(heard[k].start, Len(heard[k].samples))

\* The samples a source gives: a buffer all, raw audio the whole frames of its blocks.
InBlocks(i) ==
  LET full == chunk_samples(i) * i.width
      Whole(bytes) == (bytes \div (i.width * i.channels)) * i.channels
  IN IF i.from = "buffer" THEN i.bytes
     ELSE (i.bytes \div full) * FullPart(i) + Whole(i.bytes % full)

HeardAll == input.end = "eof" /\ HeardUpTo(Len(heard)) = InBlocks(input)
=============================================================================
