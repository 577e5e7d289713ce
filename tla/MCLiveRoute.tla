---------------------------- MODULE MCLiveRoute ----------------------------
(* Instances of LiveRoute and StreamRun for the model checker. *)
EXTENDS LiveRoute, TLC

Pcm(channels, frames, samples, bytes, ends) ==
  [from |-> "pcm", audio |-> TRUE, pull |-> FALSE, channels |-> channels, width |-> 2,
   frames |-> frames, samples |-> samples, bytes |-> bytes, end |-> ends]

Buffer(channels, frames, samples, length) ==
  [from |-> "buffer", audio |-> TRUE, pull |-> FALSE, channels |-> channels, width |-> 1,
   frames |-> frames, samples |-> samples, bytes |-> length, end |-> "eof"]

Text(pull, audio) ==
  [from |-> "none", audio |-> audio, pull |-> pull, channels |-> 1, width |-> 2,
   frames |-> NoFrames, samples |-> 2, bytes |-> 0, end |-> "eof"]

\* A body that fails, with chunks in frames; one that ends inside a frame, with chunks
\* in samples that its three channels do not divide, as the 16000 of nemotron_asr;
\* buffers of several chunks, of one that cuts a frame, and malformed; runs from text.
MCInputs ==
  {Pcm(2, 1, 0, 6, "error"), Pcm(3, NoFrames, 4, 15, "eof"),
   Buffer(2, NoFrames, 4, 6), Buffer(2, NoFrames, 3, 4), Buffer(2, 1, 0, 3),
   Text(TRUE, FALSE), Text(FALSE, TRUE)}

CONSTANTS a, b

\* One live request and one of any kind.
MCRoutes == (a :> {"live"}) @@ (b :> Kinds)
=============================================================================
