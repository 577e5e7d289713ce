--------------------------- MODULE MCChunkedBody ---------------------------
(* Instances of ChunkedBody for the model checker. *)
EXTENDS ChunkedBody

\* The places from p on where the chunks of w begin.
RECURSIVE BeginsFrom(_, _)
BeginsFrom(w, p) ==
  IF \E q \in 1..(Len(w) + 1) : ChunkAt(w, p, q)
  THEN <<p>> \o BeginsFrom(w, p + w[p].n + 2) ELSE <<p>>

Body(w) == [units |-> w, begins |-> BeginsFrom(w, 1)]

Size(n) == Unit("size", n)
Byte == Unit("other", 0)
Crlf == Unit("crlf", 0)
Data(n) == [i \in 1..n |-> Byte]
Chunk(n) == <<Size(n)>> \o Data(n) \o <<Crlf>>
End == <<Size(0), Crlf>>

\* A whole body with a trailer, and one whose chunk is two windows; a chunk that is
\* longer or shorter than it says or has no end, and one that takes framing for data;
\* one beyond the cap on a chunk; a body without its last chunk; and a trailer that is
\* too long.
MCBodies ==
  {Body(w) : w \in
    {Chunk(1) \o Chunk(2) \o <<Size(0), Byte, Crlf>>,
     Chunk(3) \o End,
     Chunk(1) \o <<Size(1)>> \o Data(2) \o <<Crlf>> \o End,
     Chunk(1) \o <<Size(2)>> \o Data(1) \o <<Crlf>> \o End,
     <<Size(3), Byte, Crlf, Byte, Crlf>> \o End,
     <<Size(2)>> \o Data(2) \o End,
     Chunk(1) \o Chunk(4) \o End,
     Chunk(2) \o Chunk(1),
     Chunk(1) \o <<Size(0), Byte, Byte, Crlf>>}}

Limited(idle, total, cap) ==
  [idle |-> idle, total |-> total, body |-> cap, chunk |-> 3]

MCLimits == {Limited(1, 2, 5), Limited(0, 2, 0), Limited(1, 0, 5), Limited(0, 0, 0)}
=============================================================================
