---------------------------- MODULE ChunkedBody ----------------------------
(***************************************************************************)
(* The de-framer of a live request body: ChunkedSocketStreambuf of         *)
(* app/server/http.cpp, between a client that sends, stalls or closes and  *)
(* a reader that takes the data.                                           *)
(*                                                                         *)
(* A body is whatever the client sends, sound or not: a sequence of units. *)
(* A line of framing is one unit, and so are a byte of data and a CRLF.    *)
(* Data is named by its place, so a lost, doubled or reordered byte is     *)
(* seen.                                                                   *)
(***************************************************************************)
EXTENDS Integers, Sequences, FiniteSetsExt

CONSTANTS
  Bodies,     \* the bodies a client may send
  Limits,     \* the LiveIngestLimits a request may get: idle, total, body, chunk; 0 is none
  MaxTrailer, \* lines of trailer that are read (8192 bytes in the code)
  Window,     \* units published at a time (kWindowBytes)
  LastTime    \* times are told apart up to this many ticks: beyond every limit

ASSUME BoundsAssumption ==
  /\ Window \in Nat \ {0}
  /\ MaxTrailer \in Nat
  /\ LastTime \in Nat
  /\ \A l \in Limits : /\ {l.idle, l.total, l.body} \subseteq Nat
                       /\ l.idle < LastTime /\ l.total < LastTime
                       /\ l.chunk \in Nat \ {0}

VARIABLES
  body,       \* what this client sends, if it goes on to the end
  limits,     \* limits_
  sent,       \* units on the wire so far
  closed,     \* the client has closed its side
  received,   \* units received (received_bytes_): pending_ ends here
  used,       \* units de-framed (pending_pos_)
  chunk,      \* place of the last unit of chunk_ that was published, and of its last
  area,       \* units published and not taken (egptr - gptr)
  goal,       \* what next_chunk is reading: "none", "header", "data", "trailer"
  wait,       \* ticks left of the poll in progress; Idle when there is none
  finished,   \* finished_
  lines,      \* trailer lines read
  now,        \* time since started_
  delivered,  \* history: the data the reader took
  late,       \* history: of it, after the total deadline
  outcome     \* what underflow told the reader: "open", "eof", "error"

clientVars == <<body, limits, sent, closed>>
socketVars == <<received, wait>>
frameVars  == <<used, chunk, goal, finished, lines>>
readerVars == <<area, delivered, late>>
bodyVars   == <<clientVars, socketVars, frameVars, readerVars, now, outcome>>

Idle == -1
Forever == LastTime

-----------------------------------------------------------------------------
(* The wire.                                                                *)

\* "size" is a line that gives the size n of a chunk; "crlf" ends a chunk, and as a
\* line is empty; "other" is any byte or line that is none of these.
Unit(is, n) == [is |-> is, n |-> n]

\* A chunk stands in w at place p, and what follows it at place q.
ChunkAt(w, p, q) ==
  /\ p <= Len(w) /\ w[p].is = "size" /\ w[p].n > 0
  /\ q = p + w[p].n + 2
  /\ q - 1 <= Len(w) /\ w[q - 1].is = "crlf"

\* A body is its units and the places where its chunks begin, of which the last is where
\* no more chunk begins.
ASSUME BodiesAssumption ==
  \A b \in Bodies :
    /\ b.units \in Seq([is : {"size", "crlf", "other"}, n : Nat])
    /\ b.begins \in Seq(Nat) /\ b.begins # <<>> /\ b.begins[1] = 1
    /\ \A i, j \in 1..Len(b.begins) : i < j => b.begins[i] < b.begins[j]
    /\ \A k \in 1..(Len(b.begins) - 1) : ChunkAt(b.units, b.begins[k], b.begins[k + 1])
    /\ \A q \in 1..(Len(b.units) + 1) : ~ChunkAt(b.units, b.begins[Len(b.begins)], q)

\* The reference: what a body says, from its chunks and not by reading it.
Chunks == Len(body.begins) - 1

Accepted(k) == \A j \in 1..k : body.units[body.begins[j]].n <= limits.chunk

Content ==
  {p \in 1..Len(body.units) :
     \E k \in 1..Chunks : Accepted(k) /\ body.begins[k] < p /\ p < body.begins[k + 1] - 1}

\* The terminating chunk stands at p, with n lines of trailer.
EndsAt(p, n) ==
  /\ p + n + 1 <= Len(body.units)
  /\ body.units[p] = Unit("size", 0)
  /\ \A i \in 1..n : body.units[p + i].is # "crlf"
  /\ body.units[p + n + 1].is = "crlf"

Whole == Accepted(Chunks) /\ \E n \in 0..MaxTrailer : EndsAt(body.begins[Chunks + 1], n)

-----------------------------------------------------------------------------

\* started_ is the time the connection built the buffer; bytes that came with the
\* headers are already received.
BodyInit ==
  /\ body \in Bodies
  /\ limits \in Limits
  /\ received \in 0..Len(body.units)
  /\ sent = received
  /\ closed = FALSE
  /\ used = 0
  /\ chunk = [at |-> 0, last |-> 0]
  /\ area = 0
  /\ goal = "none"
  /\ wait = Idle
  /\ finished = FALSE
  /\ lines = 0
  /\ now = 0
  /\ delivered = <<>>
  /\ late = 0
  /\ outcome = "open"

\* The client sends the rest of its body in pieces, or stops wherever it likes.
Send ==
  /\ ~closed
  /\ sent < Len(body.units)
  /\ sent' \in (sent + 1)..Len(body.units)
  /\ UNCHANGED <<body, limits, closed, socketVars, frameVars, readerVars, now, outcome>>

Close ==
  /\ ~closed
  /\ closed' = TRUE
  /\ UNCHANGED <<body, limits, sent, socketVars, frameVars, readerVars, now, outcome>>

\* A total deadline lies before LastTime, so a clock that stays there has passed it.
Tick ==
  /\ now < LastTime \/ wait \in 1..(Forever - 1)
  /\ now' = IF now < LastTime THEN now + 1 ELSE now
  /\ wait' = IF wait \in 1..(Forever - 1) THEN wait - 1 ELSE wait
  /\ UNCHANGED <<clientVars, received, frameVars, readerVars, outcome>>

-----------------------------------------------------------------------------
(* The reader's side.                                                       *)

WithinDeadline == limits.total > 0 => now < limits.total

\* Mutant: the cap is only looked at when bytes are received.
CapOnReceipt(n) == n = received \/ (limits.body > 0 => n <= limits.body)

WithinCap(n) == limits.body > 0 => n <= limits.body

\* A throw out of underflow, which rethrows as long as body_stream has badbit among
\* its exceptions: the reader's read ends with it.
Thrown ==
  /\ outcome' = "error"
  /\ goal' = "none"
  /\ wait' = Idle
  /\ UNCHANGED <<clientVars, used, chunk, finished, lines, readerVars, now>>

Throw == Thrown /\ UNCHANGED received

\* Mutant: the whole chunk is published at once.
PublishChunk(at, last) ==
  /\ area' = last - at
  /\ chunk' = [at |-> last, last |-> last]

PublishWindow(at, last) ==
  LET n == IF last - at < Window THEN last - at ELSE Window
  IN /\ area' = n
     /\ chunk' = [at |-> at + n, last |-> last]

\* underflow: the get area is empty.  The next window of the chunk, or the next
\* chunk, whose header is then awaited.
Underflow ==
  /\ outcome = "open"
  /\ area = 0
  /\ goal = "none"
  /\ \/ /\ ~WithinCap(received)
        /\ Throw
     \/ /\ WithinCap(received)
        /\ chunk.at < chunk.last
        /\ WithinDeadline
        /\ PublishWindow(chunk.at, chunk.last)
        /\ UNCHANGED <<clientVars, socketVars, used, goal, finished, lines,
                       delivered, late, now, outcome>>
     \/ /\ WithinCap(received)
        /\ chunk.at = chunk.last
        /\ finished
        /\ outcome' = "eof"
        /\ UNCHANGED <<clientVars, socketVars, frameVars, readerVars, now>>
     \/ /\ WithinCap(received)
        /\ chunk.at = chunk.last
        /\ ~finished
        /\ WithinDeadline
        /\ goal' = "header"
        /\ UNCHANGED <<clientVars, socketVars, used, chunk, finished, lines,
                       readerVars, now, outcome>>
     \/ /\ WithinCap(received)
        /\ chunk.at < chunk.last \/ ~finished
        /\ ~WithinDeadline
        /\ Throw

\* Whether what is awaited has been received: a line, or a chunk and its CRLF.
Need == IF goal = "data" THEN chunk.last - used + 1 ELSE 1
Available == received - used >= Need
NextUnit == body.units[used + 1]

\* next_chunk: the size line.
ReadHeader ==
  /\ goal = "header"
  /\ Available
  /\ \/ /\ NextUnit.is = "size"
        /\ NextUnit.n \in 1..limits.chunk
        /\ goal' = "data"
        /\ used' = used + 1
        /\ chunk' = [at |-> used + 1, last |-> used + 1 + NextUnit.n]
        /\ UNCHANGED <<clientVars, socketVars, finished, lines, readerVars, now, outcome>>
     \/ /\ NextUnit = Unit("size", 0)
        /\ goal' = "trailer"
        /\ used' = used + 1
        /\ finished' = TRUE
        /\ UNCHANGED <<clientVars, socketVars, chunk, lines, readerVars, now, outcome>>
     \/ /\ NextUnit.is # "size" \/ NextUnit.n > limits.chunk
        /\ Throw

\* The chunk is materialised when all of it and its CRLF are there.
TakeChunk ==
  /\ goal = "data"
  /\ Available
  /\ \/ /\ body.units[chunk.last + 1].is = "crlf"
        /\ WithinDeadline
        /\ used' = chunk.last + 1
        /\ goal' = "none"
        /\ PublishWindow(chunk.at, chunk.last)
        /\ UNCHANGED <<clientVars, socketVars, finished, lines, delivered, late,
                       now, outcome>>
     \/ /\ body.units[chunk.last + 1].is # "crlf" \/ ~WithinDeadline
        /\ Throw

ReadTrailer ==
  /\ goal = "trailer"
  /\ Available
  /\ \/ /\ NextUnit.is = "crlf"
        /\ goal' = "none"
        /\ used' = used + 1
        /\ outcome' = "eof"
        /\ UNCHANGED <<clientVars, socketVars, chunk, finished, lines, readerVars, now>>
     \/ /\ NextUnit.is # "crlf"
        /\ lines < MaxTrailer
        /\ used' = used + 1
        /\ lines' = lines + 1
        /\ UNCHANGED <<clientVars, socketVars, chunk, goal, finished, readerVars,
                       now, outcome>>
     \/ /\ NextUnit.is # "crlf"
        /\ lines >= MaxTrailer
        /\ Throw

\* receive_more, up to the poll: it waits for the idle timeout, cut at what is left
\* of the total deadline; with neither limit it waits for as long as it takes.
\* Mutant: the poll does not know of the total deadline.
WaitForIdle == IF limits.idle > 0 THEN limits.idle ELSE Forever

WaitFor ==
  LET bounds == (IF limits.idle > 0 THEN {limits.idle} ELSE {})
                  \cup (IF limits.total > 0 THEN {limits.total - now} ELSE {})
  IN IF bounds = {} THEN Forever ELSE Min(bounds)

Poll ==
  /\ goal # "none"
  /\ ~Available
  /\ wait = Idle
  /\ \/ /\ WithinDeadline
        /\ wait' = WaitFor
        /\ UNCHANGED <<clientVars, received, frameVars, readerVars, now, outcome>>
     \/ /\ ~WithinDeadline
        /\ Throw

\* The poll finds data; the deadline and the cap are looked at before it is used.
Receive ==
  /\ wait # Idle
  /\ \E n \in 1..(sent - received) :
       \/ /\ WithinDeadline
          /\ received' = received + n
          /\ \/ /\ WithinCap(received')
                /\ wait' = Idle
                /\ UNCHANGED <<clientVars, frameVars, readerVars, now, outcome>>
             \/ /\ ~WithinCap(received')
                /\ Thrown
       \/ /\ ~WithinDeadline
          /\ Throw

\* Mutant: a connection half closed is taken for the end of the body.
InterruptedIsEnd ==
  /\ wait # Idle
  /\ sent = received
  /\ \/ /\ closed
        /\ outcome' = "eof"
        /\ goal' = "none"
        /\ wait' = Idle
        /\ UNCHANGED <<clientVars, received, used, chunk, finished, lines, readerVars, now>>
     \/ /\ wait = 0
        /\ Throw

\* The poll ends with the connection, which no body may do before its last chunk,
\* or without it.
Interrupted ==
  /\ wait # Idle
  /\ sent = received
  /\ closed \/ wait = 0
  /\ Throw

\* The reader takes n units from the get area.
Take(n) ==
  /\ outcome = "open"
  /\ n \in 1..area
  /\ area' = area - n
  /\ delivered' = delivered \o [i \in 1..n |-> chunk.at - area + i]
  /\ late' = IF WithinDeadline THEN late ELSE late + n
  /\ UNCHANGED <<clientVars, socketVars, frameVars, now, outcome>>

Reading == Underflow \/ ReadHeader \/ TakeChunk \/ ReadTrailer \/ Poll \/ Receive \/ Interrupted

Next == Send \/ Close \/ Tick \/ Reading \/ \E n \in 1..Window : Take(n)

Spec == BodyInit /\ [][Next]_bodyVars

\* Time passes, and the reader goes on reading.  The client owes nothing.
Fairness ==
  /\ WF_bodyVars(Tick)
  /\ WF_bodyVars(Reading)
  /\ WF_bodyVars(\E n \in 1..Window : Take(n))

FairSpec == Spec /\ Fairness

-----------------------------------------------------------------------------
(* Properties.                                                              *)

\* Every variable has its type, and what is used, received and sent are in order.
TypeOK ==
  /\ body \in Bodies
  /\ limits \in Limits
  /\ sent \in Nat /\ received \in Nat /\ used \in Nat
  /\ area \in Nat /\ lines \in Nat /\ late \in Nat
  /\ used <= received /\ received <= sent /\ sent <= Len(body.units)
  /\ chunk \in [at : Nat, last : Nat]
  /\ chunk.at <= chunk.last
  /\ closed \in BOOLEAN /\ finished \in BOOLEAN
  /\ goal \in {"none", "header", "data", "trailer"}
  /\ wait \in Idle..Forever
  /\ now \in 0..LastTime
  /\ outcome \in {"open", "eof", "error"}

\* The buffer keeps the promise of body_stream (http.h:45-65): the data in its
\* order, the end only after all of it, and an error in every other case.
Promise == INSTANCE BodyPromise WITH content <- Content, whole <- Whole
KeepsThePromise == Promise!Spec

\* Data taken after the total deadline is at most one window, however much was
\* buffered before it passed (the comment on windows, http.cpp:254-258).
LateIsOneWindow == late <= Window

\* Once more has been received than the cap allows, with the headers or later,
\* nothing of the body is used: not another unit of data, and not its end
\* (http.cpp:250-253, 347).
CapIsNotOvershot ==
  [][limits.body > 0 /\ received > limits.body =>
       delivered' = delivered /\ outcome' # "eof"]_bodyVars

\* A body with a limit on time ends, whatever the client does: it is the promise of
\* the "stalls, never stops" comment (http.cpp:228-233).
BodyEnds ==
  limits.idle > 0 \/ limits.total > 0 => <>(outcome # "open")
=============================================================================
