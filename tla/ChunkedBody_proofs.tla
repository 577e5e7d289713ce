------------------------- MODULE ChunkedBody_proofs -------------------------
(***************************************************************************)
(* Proofs about the de-framer of live bodies, for any bodies and limits,   *)
(* any window and any length of trailer.                                   *)
(***************************************************************************)
EXTENDS ChunkedBody, SequencesExt, TLAPS

\* What was taken late was published before the deadline, and no more than one window
\* of it is left then.
LateInv ==
  /\ late + area <= Window
  /\ WithinDeadline => late = 0

\* Whatever is still to be used was let in by the cap: a read in progress, a published
\* window, and the end that was told.  A poll is under way only for what is missing.
CapInv ==
  /\ outcome = "eof" \/ goal # "none" \/ (outcome = "open" /\ area > 0) => WithinCap(received)
  /\ goal # "none" => outcome = "open"
  /\ wait # Idle => goal # "none" /\ ~Available

IInv == TypeOK /\ LateInv /\ CapInv

-----------------------------------------------------------------------------
\* The limits of a request are numbers, and the times lie before the last tick.
LEMMA LimitTypes ==
  ASSUME limits \in Limits
  PROVE  /\ limits.idle \in Nat /\ limits.total \in Nat /\ limits.body \in Nat
         /\ limits.chunk \in Nat /\ limits.idle < LastTime /\ limits.total < LastTime
  BY BoundsAssumption

\* A body has a length.
LEMMA LengthType ==
  ASSUME body \in Bodies
  PROVE  Len(body.units) \in Nat
  <1>1. body.units \in Seq([is : {"size", "crlf", "other"}, n : Nat])
    BY BodiesAssumption
  <1> QED BY <1>1

\* A poll waits for some ticks, and no longer than the clock can tell.
LEMMA WaitForType ==
  ASSUME limits \in Limits, now \in Nat, WithinDeadline
  PROVE  WaitFor \in 0..Forever
  <1> DEFINE idles == IF limits.idle > 0 THEN {limits.idle} ELSE {}
             totals == IF limits.total > 0 THEN {limits.total - now} ELSE {}
             bounds == idles \cup totals
  <1>1. bounds \subseteq 0..Forever
    BY LimitTypes, BoundsAssumption DEF WithinDeadline, Forever
  <1>2. CASE bounds = {}
    BY <1>2, BoundsAssumption DEF WaitFor, Forever
  <1>3. CASE bounds # {}
    <2>1. \E x \in bounds : \A y \in bounds : x <= y
      BY <1>1, <1>3
    <2>2. Min(bounds) \in bounds
      BY <2>1 DEF Min
    <2> QED BY <1>1, <1>3, <2>2 DEF WaitFor
  <1> QED BY <1>2, <1>3

\* The initial state satisfies the inductive invariant.
LEMMA InitInv == BodyInit => IInv
  <1> SUFFICES ASSUME BodyInit PROVE IInv
    OBVIOUS
  <1> USE BoundsAssumption DEF BodyInit
  <1>0. closed \in BOOLEAN /\ finished \in BOOLEAN
    OBVIOUS
  <1>1. TypeOK
    BY <1>0, LengthType DEF TypeOK, Idle, Forever
  <1>2. LateInv
    BY DEF LateInv
  <1>3. CapInv
    BY DEF CapInv, Idle
  <1> QED BY <1>1, <1>2, <1>3 DEF IInv

-----------------------------------------------------------------------------
\* The flags of the client and of the de-framer stay flags.
LEMMA FlagStep ==
  closed \in BOOLEAN /\ finished \in BOOLEAN /\ [Next]_bodyVars
    => closed' \in BOOLEAN /\ finished' \in BOOLEAN
  BY DEF Next, Reading, Send, Close, Tick, Underflow, ReadHeader, TakeChunk, ReadTrailer, Poll,
         Receive, Interrupted, Take, Throw, Thrown, clientVars, socketVars, frameVars,
         readerVars, bodyVars

\* An error keeps the types, whatever was received before it.
LEMMA ThrownStep == TypeOK /\ Thrown /\ received' \in received..sent => TypeOK'
  <1> SUFFICES ASSUME TypeOK, Thrown, received' \in received..sent PROVE TypeOK'
    OBVIOUS
  <1> USE BoundsAssumption DEF TypeOK, Thrown, clientVars, readerVars
  <1>1. closed' \in BOOLEAN /\ finished' \in BOOLEAN
    OBVIOUS
  <1> QED BY <1>1 DEF Idle, Forever

\* What is published is counted, and lies in its chunk.
LEMMA PublishType ==
  ASSUME NEW at \in Nat, NEW last \in Nat, at <= last, PublishWindow(at, last)
  PROVE  area' \in Nat /\ chunk' \in [at : Nat, last : Nat] /\ chunk'.at <= chunk'.last
  BY BoundsAssumption DEF PublishWindow

\* Every step keeps the types.
LEMMA TypeStep == TypeOK /\ [Next]_bodyVars => TypeOK'
  <1> SUFFICES ASSUME TypeOK, [Next]_bodyVars PROVE TypeOK'
    OBVIOUS
  <1> USE BoundsAssumption, LimitTypes
      DEF TypeOK, Idle, Forever, clientVars, socketVars, frameVars, readerVars
  <1>0. closed' \in BOOLEAN /\ finished' \in BOOLEAN
    BY FlagStep
  <1>1. CASE Send
    BY <1>0, <1>1 DEF Send
  <1>2. CASE Close
    BY <1>0, <1>2 DEF Close
  <1>3. CASE Tick
    BY <1>0, <1>3 DEF Tick
  <1>4. CASE Underflow
    <2>1. CASE Throw
      BY <2>1, ThrownStep DEF Throw
    <2>2. CASE ~Throw
      <3>1. area' \in Nat /\ chunk' \in [at : Nat, last : Nat] /\ chunk'.at <= chunk'.last
        BY <1>4, <2>2, PublishType DEF Underflow
      <3> QED BY <1>0, <1>4, <2>2, <3>1 DEF Underflow
    <2> QED BY <2>1, <2>2
  <1>5. CASE ReadHeader
    <2>1. CASE Throw
      BY <2>1, ThrownStep DEF Throw
    <2>2. CASE ~Throw
      <3>1. used' = used + 1 /\ goal' \in {"data", "trailer"}
        BY <1>5, <2>2 DEF ReadHeader
      <3>2. UNCHANGED <<body, limits, sent, received, area, lines, late, wait, now, outcome>>
        BY <1>5, <2>2 DEF ReadHeader
      <3>3. \/ chunk' = chunk
            \/ \E n \in 1..limits.chunk : chunk' = [at |-> used + 1, last |-> used + 1 + n]
        BY <1>5, <2>2 DEF ReadHeader
      <3>4. chunk' \in [at : Nat, last : Nat] /\ chunk'.at <= chunk'.last
        BY <3>3
      <3>5. received - used >= 1
        BY <1>5 DEF ReadHeader, Available, Need
      <3> QED BY <1>0, <3>1, <3>2, <3>4, <3>5
    <2> QED BY <2>1, <2>2
  <1>6. CASE TakeChunk
    <2>1. CASE Throw
      BY <2>1, ThrownStep DEF Throw
    <2>2. CASE ~Throw
      <3>1. area' \in Nat /\ chunk' \in [at : Nat, last : Nat] /\ chunk'.at <= chunk'.last
        BY <1>6, <2>2, PublishType DEF TakeChunk
      <3>2. used' = chunk.last + 1 /\ goal' = "none"
        BY <1>6, <2>2 DEF TakeChunk
      <3>3. UNCHANGED <<body, limits, sent, received, lines, late, wait, now, outcome>>
        BY <1>6, <2>2 DEF TakeChunk
      <3>4. received - used >= chunk.last - used + 1
        BY <1>6 DEF TakeChunk, Available, Need
      <3>5. used' \in 0..received
        BY <3>2, <3>4
      <3> QED BY <1>0, <3>1, <3>2, <3>3, <3>5
    <2> QED BY <2>1, <2>2
  <1>7. CASE ReadTrailer
    <2>1. CASE Throw
      BY <2>1, ThrownStep DEF Throw
    <2>2. CASE ~Throw
      <3>1. used' = used + 1 /\ goal' \in {"none", goal} /\ lines' \in {lines, lines + 1}
             /\ outcome' \in {"eof", outcome}
        BY <1>7, <2>2 DEF ReadTrailer
      <3>2. UNCHANGED <<body, limits, sent, received, chunk, area, late, wait, now>>
        BY <1>7, <2>2 DEF ReadTrailer
      <3>3. received - used >= 1
        BY <1>7 DEF ReadTrailer, Available, Need
      <3> QED BY <1>0, <3>1, <3>2, <3>3
    <2> QED BY <2>1, <2>2
  <1>8. CASE Poll
    <2>1. CASE Throw
      BY <2>1, ThrownStep DEF Throw
    <2>2. CASE ~Throw
      <3>1. wait' \in 0..Forever
        BY <1>8, <2>2, WaitForType DEF Poll
      <3>2. UNCHANGED <<body, limits, sent, received, used, chunk, goal, area, lines, late, now, outcome>>
        BY <1>8, <2>2 DEF Poll
      <3> QED BY <1>0, <3>1, <3>2
    <2> QED BY <2>1, <2>2
  <1>9. CASE Receive
    <2>1. PICK n \in 1..(sent - received) : received' \in {received, received + n}
      BY <1>9 DEF Receive, Throw
    <2>2. received' \in received..sent
      BY <2>1
    <2>3. CASE Thrown
      BY <2>2, <2>3, ThrownStep
    <2>4. CASE ~Thrown
      <3>1. wait' = Idle
        BY <1>9, <2>4 DEF Receive, Throw
      <3>2. UNCHANGED <<body, limits, sent, used, chunk, goal, area, lines, late, now, outcome>>
        BY <1>9, <2>4 DEF Receive, Throw
      <3> QED BY <1>0, <2>2, <3>1, <3>2
    <2> QED BY <2>3, <2>4
  <1>10. CASE Interrupted
    <2>1. Thrown /\ received' = received
      BY <1>10 DEF Interrupted, Throw
    <2> QED BY <2>1, ThrownStep
  <1>11. ASSUME NEW n \in 1..Window, Take(n) PROVE TypeOK'
    BY <1>0, <1>11 DEF Take
  <1>12. CASE UNCHANGED bodyVars
    BY <1>0, <1>12 DEF bodyVars
  <1> QED BY <1>1, <1>2, <1>3, <1>4, <1>5, <1>6, <1>7, <1>8, <1>9, <1>10, <1>11, <1>12
             DEF Next, Reading

\* A deadline that has passed stays passed, and after it nothing is published.
LEMMA LateStep == TypeOK /\ LateInv /\ [Next]_bodyVars => LateInv'
  <1> SUFFICES ASSUME TypeOK, LateInv, [Next]_bodyVars PROVE LateInv'
    OBVIOUS
  <1> USE BoundsAssumption, LimitTypes
      DEF TypeOK, LateInv, WithinDeadline, clientVars, socketVars, frameVars,
          readerVars, Throw, Thrown
  <1>1. CASE Send
    BY <1>1 DEF Send
  <1>2. CASE Close
    BY <1>2 DEF Close
  <1>3. CASE Tick
    BY <1>3 DEF Tick
  <1>4. CASE Underflow
    BY <1>4 DEF Underflow, PublishWindow
  <1>5. CASE ReadHeader
    BY <1>5 DEF ReadHeader
  <1>6. CASE TakeChunk
    BY <1>6 DEF TakeChunk, PublishWindow
  <1>7. CASE ReadTrailer
    BY <1>7 DEF ReadTrailer
  <1>8. CASE Poll
    BY <1>8 DEF Poll
  <1>9. CASE Receive
    BY <1>9 DEF Receive
  <1>10. CASE Interrupted
    BY <1>10 DEF Interrupted
  <1>11. ASSUME NEW n \in 1..Window, Take(n) PROVE LateInv'
    BY <1>11 DEF Take
  <1>12. CASE UNCHANGED bodyVars
    BY <1>12 DEF bodyVars
  <1> QED BY <1>1, <1>2, <1>3, <1>4, <1>5, <1>6, <1>7, <1>8, <1>9, <1>10, <1>11, <1>12
             DEF Next, Reading

\* Only what the cap lets in is read on, published or ended with.
LEMMA CapStep == TypeOK /\ CapInv /\ [Next]_bodyVars => CapInv'
  <1> SUFFICES ASSUME TypeOK, CapInv, [Next]_bodyVars PROVE CapInv'
    OBVIOUS
  <1> USE BoundsAssumption, LimitTypes
      DEF TypeOK, CapInv, WithinCap, Idle, Forever, clientVars, socketVars,
          frameVars, readerVars, Throw, Thrown
  <1>1. CASE Send
    BY <1>1 DEF Send, Available, Need
  <1>2. CASE Close
    BY <1>2 DEF Close, Available, Need
  <1>3. CASE Tick
    BY <1>3 DEF Tick, Available, Need
  <1>4. CASE Underflow
    BY <1>4 DEF Underflow, PublishWindow
  <1>5. CASE ReadHeader
    BY <1>5 DEF ReadHeader
  <1>6. CASE TakeChunk
    BY <1>6 DEF TakeChunk
  <1>7. CASE ReadTrailer
    BY <1>7 DEF ReadTrailer
  <1>8. CASE Poll
    BY <1>8 DEF Poll, Available, Need
  <1>9. CASE Receive
    BY <1>9 DEF Receive
  <1>10. CASE Interrupted
    BY <1>10 DEF Interrupted
  <1>11. ASSUME NEW n \in 1..Window, Take(n) PROVE CapInv'
    BY <1>11 DEF Take, Available, Need
  <1>12. CASE UNCHANGED bodyVars
    BY <1>12 DEF bodyVars, Available, Need
  <1> QED BY <1>1, <1>2, <1>3, <1>4, <1>5, <1>6, <1>7, <1>8, <1>9, <1>10, <1>11, <1>12
             DEF Next, Reading

\* The inductive invariant holds in every reachable state.
THEOREM Invariant == Spec => []IInv
  <1>1. IInv /\ [Next]_bodyVars => IInv'
    BY TypeStep, LateStep, CapStep DEF IInv
  <1> QED BY InitInv, <1>1, PTL DEF Spec

-----------------------------------------------------------------------------
\* Every variable of the de-framer keeps its type, and what it uses it has received.
THEOREM TypeCorrect == Spec => []TypeOK
  <1>1. IInv => TypeOK
    BY DEF IInv
  <1> QED BY Invariant, <1>1, PTL

\* Of a body that is longer than its deadline the reader gets at most one window more,
\* however much of it was buffered.
THEOREM LateBounded == Spec => []LateIsOneWindow
  <1>1. IInv => LateIsOneWindow
    BY BoundsAssumption DEF IInv, TypeOK, LateInv, LateIsOneWindow
  <1> QED BY Invariant, <1>1, PTL

\* Beyond its cap a body is not used: no step takes data of it or tells its end.
THEOREM CapKept == Spec => CapIsNotOvershot
  <1> DEFINE Kept == limits.body > 0 /\ received > limits.body =>
                       delivered' = delivered /\ outcome' # "eof"
  <1>1. ASSUME IInv, [Next]_bodyVars PROVE Kept
    <2> SUFFICES ASSUME limits.body > 0, received > limits.body
                 PROVE  delivered' = delivered /\ outcome' # "eof"
      OBVIOUS
    <2>1. outcome # "eof" /\ goal = "none" /\ wait = Idle /\ ~(outcome = "open" /\ area > 0)
      BY <1>1, LimitTypes DEF IInv, TypeOK, CapInv, WithinCap
    <2> USE DEF clientVars, socketVars, frameVars, readerVars, Throw, Thrown
    <2>2. CASE Send \/ Close \/ Tick \/ UNCHANGED bodyVars
      BY <2>1, <2>2 DEF Send, Close, Tick, bodyVars
    <2>3. CASE Underflow
      BY <1>1, <2>1, <2>3, LimitTypes DEF Underflow, WithinCap, IInv, TypeOK
    <2>4. CASE ReadHeader \/ TakeChunk \/ ReadTrailer \/ Poll
      BY <2>1, <2>4 DEF ReadHeader, TakeChunk, ReadTrailer, Poll
    <2>5. CASE Receive \/ Interrupted
      BY <2>1, <2>5 DEF Receive, Interrupted
    <2>6. ASSUME NEW n \in 1..Window, Take(n) PROVE FALSE
      BY <1>1, <2>1, <2>6 DEF Take, IInv, TypeOK
    <2> QED BY <1>1, <2>2, <2>3, <2>4, <2>5, <2>6 DEF Next, Reading
  <1>2. IInv /\ [Next]_bodyVars => [Kept]_bodyVars
    BY <1>1
  <1> QED BY Invariant, <1>2, PTL DEF Spec, CapIsNotOvershot

-----------------------------------------------------------------------------
(* The body is read as it is framed.                                        *)

\* The last place of the first k chunks that is data, of which there is none before them.
LastData(k) == IF k = 0 THEN 0 ELSE body.begins[k + 1] - 2

\* Where the de-framer is: after k chunks, in the one after them, or in the trailer.
AfterChunk ==
  \E k \in 0..Chunks : Accepted(k) /\ used = body.begins[k + 1] - 1 /\ chunk.last = LastData(k)

InChunk ==
  /\ \E k \in 0..Chunks : Accepted(k) /\ used = body.begins[k + 1]
  /\ body.units[used] = Unit("size", chunk.last - used)
  /\ chunk.last - used \in 1..limits.chunk
  /\ chunk.at = used /\ area = 0

InTrailer ==
  /\ Accepted(Chunks)
  /\ body.units[body.begins[Chunks + 1]] = Unit("size", 0)
  /\ used = body.begins[Chunks + 1] + lines
  /\ lines <= MaxTrailer
  /\ \A i \in 1..lines : body.units[body.begins[Chunks + 1] + i].is # "crlf"
  /\ chunk.at = chunk.last /\ area = 0 /\ chunk.last = LastData(Chunks)

\* What is published of the chunk, and what is left of it, is data of the body.
PublishedIsData ==
  /\ area <= chunk.at
  /\ \A p \in Nat : chunk.at - area < p /\ p <= chunk.last => p \in Content

PlaceInv ==
  /\ goal \in {"none", "header"} => AfterChunk /\ PublishedIsData /\ ~finished /\ lines = 0
  /\ goal = "header" => chunk.at = chunk.last /\ area = 0
  /\ goal = "data" => InChunk /\ ~finished /\ lines = 0
  /\ goal = "trailer" => InTrailer

\* The reader has the data up to what is published, in its order.
TakenInv ==
  /\ delivered \in Seq(Nat)
  /\ \A i, j \in 1..Len(delivered) : i < j => delivered[i] < delivered[j]
  /\ \A p \in Nat : (\E i \in 1..Len(delivered) : p = delivered[i])
                      <=> p \in Content /\ p <= chunk.at - area

ReadInv == outcome = "open" => PlaceInv /\ TakenInv

\* What BodiesAssumption says of the body that is read.
LaidOut ==
  /\ Chunks \in Nat /\ Len(body.units) \in Nat
  /\ \A p \in 1..Len(body.units) :
       body.units[p] \in [is : {"size", "crlf", "other"}, n : Nat]
  /\ body.begins[1] = 1
  /\ \A i, j \in 1..(Chunks + 1) : i < j => body.begins[i] < body.begins[j]
  /\ \A i \in 1..(Chunks + 1) : body.begins[i] \in Nat /\ body.begins[i] > 0
  /\ \A k \in 1..Chunks : ChunkAt(body.units, body.begins[k], body.begins[k + 1])
  /\ \A q \in 1..(Len(body.units) + 1) :
       ~ChunkAt(body.units, body.begins[Chunks + 1], q)

LEMMA Layout ==
  ASSUME body \in Bodies
  PROVE  LaidOut
  <1>1. /\ body.units \in Seq([is : {"size", "crlf", "other"}, n : Nat])
        /\ body.begins \in Seq(Nat) /\ body.begins # <<>> /\ body.begins[1] = 1
        /\ \A i, j \in 1..Len(body.begins) : i < j => body.begins[i] < body.begins[j]
        /\ \A k \in 1..(Len(body.begins) - 1) :
             ChunkAt(body.units, body.begins[k], body.begins[k + 1])
        /\ \A q \in 1..(Len(body.units) + 1) :
             ~ChunkAt(body.units, body.begins[Len(body.begins)], q)
    BY BodiesAssumption
  <1>2. Len(body.begins) \in Nat /\ Len(body.begins) > 0
    BY <1>1
  <1>3. Len(body.begins) = Chunks + 1 /\ Chunks \in Nat
    BY <1>2 DEF Chunks
  <1>4. \A i \in 1..(Chunks + 1) : body.begins[i] \in Nat /\ body.begins[i] > 0
    <2> TAKE i \in 1..(Chunks + 1)
    <2>1. body.begins[i] \in Nat /\ body.begins[1] = 1 /\ 1 \in 1..(Chunks + 1)
      BY <1>1, <1>3
    <2>2. 1 < i => body.begins[1] < body.begins[i]
      BY <1>1, <1>3, <2>1
    <2> QED BY <2>1, <2>2
  <1>5. /\ Len(body.units) \in Nat
        /\ \A p \in 1..Len(body.units) :
             body.units[p] \in [is : {"size", "crlf", "other"}, n : Nat]
    <2> DEFINE U == [is : {"size", "crlf", "other"}, n : Nat]
    <2>1. body.units \in Seq(U)
      BY <1>1
    <2> HIDE DEF U
    <2>2. Len(body.units) \in Nat /\ \A p \in 1..Len(body.units) : body.units[p] \in U
      BY <2>1
    <2> QED BY <2>2 DEF U
  <1>6. \A k \in 1..Chunks : ChunkAt(body.units, body.begins[k], body.begins[k + 1])
    BY <1>1 DEF Chunks
  <1>7. \A q \in 1..(Len(body.units) + 1) :
          ~ChunkAt(body.units, body.begins[Chunks + 1], q)
    BY <1>1, <1>3
  <1> QED BY <1>1, <1>3, <1>4, <1>5, <1>6, <1>7 DEF LaidOut

\* Between the data of a chunk and the data of the next there is none.
LEMMA NoDataBetween ==
  ASSUME body \in Bodies, NEW k \in 0..Chunks, NEW p \in Content, p <= body.begins[k + 1]
  PROVE  p <= LastData(k)
  <1> USE Layout DEF LaidOut
  <1>1. PICK i \in 1..Chunks : body.begins[i] < p /\ p < body.begins[i + 1] - 1
    BY DEF Content
  <1>2. p \in Nat /\ k + 1 \in 1..(Chunks + 1) /\ i + 1 \in 1..(Chunks + 1) /\ i \in 1..(Chunks + 1)
    BY DEF Content
  <1>3. i <= k
    <2>1. k + 1 < i => body.begins[k + 1] < body.begins[i]
      BY <1>2
    <2>2. k + 1 = i => body.begins[k + 1] = body.begins[i]
      OBVIOUS
    <2> QED BY <1>1, <1>2, <2>1, <2>2
  <1>4. body.begins[i + 1] <= body.begins[k + 1]
    <2>1. i < k => body.begins[i + 1] < body.begins[k + 1]
      BY <1>2
    <2> QED BY <1>2, <1>3, <2>1
  <1> QED BY <1>1, <1>2, <1>3, <1>4 DEF LastData

\* All of the data comes before the end of the chunks.
LEMMA DataBeforeEnd ==
  ASSUME body \in Bodies, NEW p \in Content
  PROVE  p <= LastData(Chunks)
  <1> USE Layout DEF LaidOut
  <1>1. PICK i \in 1..Chunks : body.begins[i] < p /\ p < body.begins[i + 1] - 1
    BY DEF Content
  <1>2. p \in Nat /\ Chunks + 1 \in 1..(Chunks + 1) /\ i + 1 \in 1..(Chunks + 1)
    BY DEF Content
  <1>3. body.begins[i + 1] <= body.begins[Chunks + 1]
    <2>1. i < Chunks => body.begins[i + 1] < body.begins[Chunks + 1]
      BY <1>2
    <2> QED BY <1>2, <2>1
  <1>4. p <= body.begins[Chunks + 1]
    BY <1>1, <1>2, <1>3
  <1> QED BY <1>2, <1>4, NoDataBetween

\* A chunk whose size is accepted and whose data ends with a CRLF is one of the body's, and
\* its data is content.
LEMMA SoundChunk ==
  ASSUME body \in Bodies, limits \in Limits, NEW k \in 0..Chunks, Accepted(k),
         NEW size \in 1..limits.chunk,
         body.units[body.begins[k + 1]] = Unit("size", size),
         body.begins[k + 1] + size + 1 <= Len(body.units),
         body.units[body.begins[k + 1] + size + 1].is = "crlf"
  PROVE  /\ k + 1 \in 0..Chunks /\ Accepted(k + 1)
         /\ body.begins[k + 2] = body.begins[k + 1] + size + 2
         /\ \A p \in Nat : body.begins[k + 1] < p /\ p <= body.begins[k + 1] + size
              => p \in Content
  <1>a. size \in Nat /\ size > 0 /\ LaidOut
    BY Layout, LimitTypes
  <1>0. /\ Len(body.units) \in Nat /\ Chunks \in Nat
        /\ k + 1 \in 1..(Chunks + 1) /\ body.begins[k + 1] \in Nat
        /\ body.begins[k + 1] > 0
    BY <1>a DEF LaidOut
  <1>1. /\ body.units[body.begins[k + 1]].is = "size"
        /\ body.units[body.begins[k + 1]].n = size
    BY DEF Unit
  <1>2. ChunkAt(body.units, body.begins[k + 1], body.begins[k + 1] + size + 2)
    <2>1. (body.begins[k + 1] + size + 2) - 1 = body.begins[k + 1] + size + 1
      BY <1>0, <1>a
    <2>2. body.begins[k + 1] <= Len(body.units)
      BY <1>0, <1>a
    <2> QED BY <1>a, <1>1, <2>1, <2>2 DEF ChunkAt
  <1>3. body.begins[k + 1] + size + 2 \in 1..(Len(body.units) + 1)
    BY <1>0, <1>a
  <1>4. k # Chunks
    BY <1>2, <1>3, <1>a DEF LaidOut
  <1>5. k + 1 \in 1..Chunks /\ (k + 1) + 1 = k + 2
    BY <1>0, <1>4
  <1>6. ChunkAt(body.units, body.begins[k + 1], body.begins[k + 2])
    BY <1>5, <1>a DEF LaidOut
  <1>7. body.begins[k + 2] = body.begins[k + 1] + size + 2
    BY <1>1, <1>6 DEF ChunkAt
  <1>8. Accepted(k + 1)
    <2>1. \A j \in 1..(k + 1) : j \in 1..k \/ j = k + 1
      BY <1>0
    <2>2. body.units[body.begins[k + 1]].n <= limits.chunk
      BY <1>1, LimitTypes
    <2> QED BY <2>1, <2>2 DEF Accepted
  <1>9. ASSUME NEW p \in Nat, body.begins[k + 1] < p, p <= body.begins[k + 1] + size
        PROVE  p \in Content
    <2>1. p \in 1..Len(body.units)
      BY <1>a, <1>0, <1>9
    <2>2. p < body.begins[(k + 1) + 1] - 1
      BY <1>a, <1>0, <1>5, <1>7, <1>9
    <2> QED BY <1>5, <1>8, <1>9, <2>1, <2>2 DEF Content
  <1> QED BY <1>0, <1>5, <1>7, <1>8, <1>9

-----------------------------------------------------------------------------
\* A request is of one body with one set of limits, and so has one content.
LEMMA SameBody ==
  ASSUME [Next]_bodyVars
  PROVE  /\ body' = body /\ limits' = limits
         /\ Chunks' = Chunks /\ Content' = Content /\ Whole' = Whole
         /\ \A k \in Nat : Accepted(k)' = Accepted(k) /\ LastData(k)' = LastData(k)
  <1>1. body' = body /\ limits' = limits
    BY DEF Next, Reading, Send, Close, Tick, Underflow, ReadHeader, TakeChunk, ReadTrailer, Poll,
           Receive, Interrupted, Take, Throw, Thrown, clientVars, bodyVars
  <1> QED BY <1>1 DEF Chunks, Content, Whole, Accepted, LastData, EndsAt

\* Where nothing of the de-framer changes, it stays where it is.
LEMMA SamePlace ==
  ASSUME PlaceInv, TakenInv, [Next]_bodyVars,
         UNCHANGED <<used, chunk, goal, finished, lines, area, delivered>>
  PROVE  PlaceInv' /\ TakenInv'
  <1>1. body' = body /\ limits' = limits
    BY SameBody
  <1>2. (AfterChunk <=> AfterChunk') /\ (PublishedIsData <=> PublishedIsData')
    BY <1>1 DEF AfterChunk, PublishedIsData, Chunks, Accepted, LastData, Content
  <1>3. InChunk <=> InChunk'
    BY <1>1 DEF InChunk, Chunks, Accepted
  <1>4. InTrailer <=> InTrailer'
    BY <1>1 DEF InTrailer, Chunks, Accepted, LastData
  <1>5. PlaceInv'
    BY <1>2, <1>3, <1>4 DEF PlaceInv
  <1>6. TakenInv'
    BY SameBody DEF TakenInv
  <1> QED BY <1>5, <1>6

\* At the beginning nothing is read.
LEMMA ReadInit == BodyInit => ReadInv
  <1> SUFFICES ASSUME BodyInit PROVE ReadInv
    OBVIOUS
  <1>1. LaidOut
    BY Layout DEF BodyInit
  <1>2. AfterChunk
    <2>1. 0 \in 0..Chunks /\ Accepted(0)
      BY <1>1 DEF LaidOut, Accepted
    <2> QED BY <1>1, <2>1 DEF LaidOut, AfterChunk, LastData, BodyInit
  <1>3. PlaceInv
    BY <1>2 DEF PlaceInv, PublishedIsData, BodyInit
  <1>4. TakenInv
    <2>1. \A p \in Content : p > 0
      BY DEF Content
    <2>2. delivered = <<>> /\ chunk.at - area = 0
      BY DEF BodyInit
    <2>3. \A p \in Content : p \in Nat
      BY DEF Content
    <2> QED BY <2>1, <2>2, <2>3 DEF TakenInv
  <1> QED BY <1>3, <1>4 DEF ReadInv

\* The next window of a chunk, and the wait for the header of the next one.
LEMMA UnderflowReads ==
  TypeOK /\ PlaceInv /\ TakenInv /\ Underflow /\ outcome' = "open" => PlaceInv' /\ TakenInv'
  <1> SUFFICES ASSUME TypeOK, PlaceInv, TakenInv, Underflow, outcome' = "open"
               PROVE  PlaceInv' /\ TakenInv'
    OBVIOUS
  <1>0. [Next]_bodyVars
    BY DEF Next, Reading
  <1>1. goal = "none" /\ area = 0 /\ outcome = "open"
    BY DEF Underflow
  <1>2. /\ chunk.at \in Nat /\ chunk.last \in Nat /\ chunk.at <= chunk.last
    BY DEF TypeOK
  <1>3. ~Throw
    BY DEF Throw, Thrown
  <1>4. CASE goal' = "none"
    <2>1. /\ PublishWindow(chunk.at, chunk.last)
          /\ UNCHANGED <<used, finished, lines, delivered>>
      BY <1>1, <1>3, <1>4 DEF Underflow, frameVars, readerVars
    <2>2. /\ area' \in Nat /\ chunk'.at - area' = chunk.at /\ chunk'.last = chunk.last
          /\ area' <= chunk'.at
      BY <1>2, <2>1, BoundsAssumption DEF PublishWindow
    <2>3. AfterChunk'
      <3>1. AfterChunk /\ body' = body /\ limits' = limits
        BY <1>0, <1>1, SameBody DEF PlaceInv
      <3> QED BY <2>1, <2>2, <3>1 DEF AfterChunk, Chunks, Accepted, LastData
    <2>5. PublishedIsData'
      <3>1. PublishedIsData /\ Content' = Content
        BY <1>0, <1>1, SameBody DEF PlaceInv
      <3> QED BY <1>1, <1>2, <2>2, <3>1 DEF PublishedIsData
    <2>4. TakenInv'
      BY <1>0, <1>1, <1>2, <2>1, <2>2, SameBody DEF TakenInv
    <2> QED BY <1>1, <1>4, <2>1, <2>3, <2>4, <2>5 DEF PlaceInv
  <1>5. CASE goal' = "header"
    <2>1. chunk.at = chunk.last /\ UNCHANGED <<used, chunk, finished, lines, area, delivered>>
      BY <1>1, <1>3, <1>5 DEF Underflow, readerVars, frameVars
    <2>2. AfterChunk' /\ PublishedIsData' /\ TakenInv'
      BY <1>0, <1>1, <2>1, SameBody DEF PlaceInv, TakenInv, AfterChunk, PublishedIsData,
         Chunks, Accepted, LastData, Content
    <2> QED BY <1>1, <1>5, <2>1, <2>2 DEF PlaceInv
  <1>6. goal' \in {"none", "header"}
    BY <1>1, <1>3 DEF Underflow, frameVars
  <1> QED BY <1>4, <1>5, <1>6

\* The size line: of a chunk, whose data comes next, or of the end.
LEMMA HeaderReads ==
  TypeOK /\ PlaceInv /\ TakenInv /\ ReadHeader /\ outcome' = "open" => PlaceInv' /\ TakenInv'
  <1> SUFFICES ASSUME TypeOK, PlaceInv, TakenInv, ReadHeader, outcome' = "open"
               PROVE  PlaceInv' /\ TakenInv'
    OBVIOUS
  <1>0. [Next]_bodyVars
    BY DEF Next, Reading
  <1>1. ~Throw /\ goal = "header"
    BY DEF ReadHeader, Throw, Thrown
  <1>2. LaidOut /\ Chunks' = Chunks /\ Content' = Content /\ body' = body /\ limits' = limits
    BY <1>0, Layout, SameBody DEF TypeOK
  <1>3. chunk.at = chunk.last /\ area = 0 /\ chunk.at \in Nat /\ ~finished /\ lines = 0
    BY <1>1 DEF PlaceInv, TypeOK
  <1>4. PICK k \in 0..Chunks : Accepted(k) /\ used = body.begins[k + 1] - 1
                               /\ chunk.last = LastData(k)
    BY <1>1 DEF PlaceInv, AfterChunk
  <1>5. used + 1 = body.begins[k + 1] /\ body.begins[k + 1] \in Nat
    BY <1>2, <1>4 DEF LaidOut
  <1>6. received \in Nat /\ used \in Nat /\ received <= Len(body.units) /\ used + 1 <= received
    BY <1>1 DEF TypeOK, ReadHeader, Available, Need
  <1>7. NextUnit \in [is : {"size", "crlf", "other"}, n : Nat]
    BY <1>2, <1>6 DEF LaidOut, NextUnit
  <1>8. \A p \in Content : p <= body.begins[k + 1] <=> p <= chunk.last
    <2> TAKE p \in Content
    <2>1. p \in Nat
      BY DEF Content
    <2>2. chunk.last <= body.begins[k + 1]
      BY <1>4, <1>5 DEF LastData
    <2>3. p <= body.begins[k + 1] => p <= chunk.last
      BY <1>4, NoDataBetween DEF TypeOK
    <2> QED BY <1>3, <1>5, <2>1, <2>2, <2>3
  <1>9. CASE goal' = "data"
    <2>1. /\ NextUnit.is = "size" /\ NextUnit.n \in 1..limits.chunk
          /\ used' = used + 1 /\ chunk' = [at |-> used + 1, last |-> used + 1 + NextUnit.n]
          /\ UNCHANGED <<finished, lines, area, delivered>>
      BY <1>1, <1>9 DEF ReadHeader, readerVars
    <2>2. chunk'.at = used' /\ chunk'.last - used' = NextUnit.n
      BY <1>6, <1>7, <2>1
    <2>3. InChunk'
      <3>1. Accepted(k)' /\ k \in 0..Chunks'
        BY <1>2, <1>4 DEF Accepted
      <3>2. body.units'[used'] = Unit("size", chunk'.last - used')
        <4>1. NextUnit = body.units[used']
          BY <2>1 DEF NextUnit
        <4>2. NextUnit = Unit("size", NextUnit.n)
          BY <1>7, <2>1 DEF Unit
        <4> QED BY <1>2, <2>2, <4>1, <4>2
      <3> QED BY <1>2, <1>3, <1>5, <2>1, <2>2, <3>1, <3>2 DEF InChunk
    <2>4. TakenInv'
      <3>1. chunk'.at - area' = body.begins[k + 1]
        BY <1>3, <1>5, <2>1, <2>2
      <3>2. \A p \in Nat : p \in Content /\ p <= chunk'.at - area'
                             <=> p \in Content /\ p <= chunk.at - area
        BY <1>3, <1>8, <3>1
      <3> QED BY <1>2, <2>1, <3>2 DEF TakenInv
    <2> QED BY <1>3, <1>9, <2>1, <2>3, <2>4 DEF PlaceInv
  <1>10. CASE goal' = "trailer"
    <2>1. /\ NextUnit = Unit("size", 0) /\ used' = used + 1
          /\ UNCHANGED <<chunk, lines, area, delivered>>
      BY <1>1, <1>10 DEF ReadHeader, readerVars
    <2>2. body.units[body.begins[k + 1]] = Unit("size", 0)
      BY <1>5, <2>1 DEF NextUnit
    <2>3. k = Chunks
      <3>1. body.units[body.begins[k + 1]].n = 0
        BY <2>2 DEF Unit
      <3>2. k + 1 \in 1..Chunks => body.units[body.begins[k + 1]].n > 0
        BY <1>2 DEF LaidOut, ChunkAt
      <3> QED BY <1>2, <3>1, <3>2 DEF LaidOut
    <2>4. InTrailer'
      BY <1>2, <1>3, <1>4, <1>5, <2>1, <2>2, <2>3, BoundsAssumption
         DEF InTrailer, Accepted, LastData
    <2>5. TakenInv'
      BY <1>2, <2>1 DEF TakenInv
    <2> QED BY <1>10, <2>4, <2>5 DEF PlaceInv
  <1>11. goal' \in {"data", "trailer"}
    BY <1>1 DEF ReadHeader
  <1> QED BY <1>9, <1>10, <1>11

\* A chunk that ends where it says is one of the body's.
LEMMA ChunkReads ==
  TypeOK /\ PlaceInv /\ TakenInv /\ TakeChunk /\ outcome' = "open" => PlaceInv' /\ TakenInv'
  <1> SUFFICES ASSUME TypeOK, PlaceInv, TakenInv, TakeChunk, outcome' = "open"
               PROVE  PlaceInv' /\ TakenInv'
    OBVIOUS
  <1>0. [Next]_bodyVars
    BY DEF Next, Reading
  <1>1. /\ goal = "data" /\ body.units[chunk.last + 1].is = "crlf"
        /\ used' = chunk.last + 1 /\ goal' = "none" /\ PublishWindow(chunk.at, chunk.last)
        /\ UNCHANGED <<finished, lines, delivered>>
    BY DEF TakeChunk, Throw, Thrown
  <1>2. /\ LaidOut /\ Chunks' = Chunks /\ Content' = Content /\ body' = body
        /\ limits' = limits
    BY <1>0, Layout, SameBody DEF TypeOK
  <1>3. InChunk /\ ~finished /\ lines = 0
    BY <1>1 DEF PlaceInv
  <1>4. PICK k \in 0..Chunks : Accepted(k) /\ used = body.begins[k + 1]
    BY <1>3 DEF InChunk
  <1>5. chunk.last \in Nat /\ used \in Nat /\ chunk.at = used /\ area = 0
    BY <1>3 DEF InChunk, TypeOK
  <1>6. chunk.last + 1 <= Len(body.units)
    <2>1. received - used >= chunk.last - used + 1
      BY <1>1 DEF TakeChunk, Available, Need
    <2>2. received \in Nat /\ sent \in Nat /\ received <= sent /\ sent <= Len(body.units)
      BY DEF TypeOK
    <2>3. Len(body.units) \in Nat
      BY <1>2 DEF LaidOut
    <2> QED BY <1>5, <2>1, <2>2, <2>3
  <1> DEFINE size == chunk.last - used
  <1>7. /\ size \in 1..limits.chunk
        /\ body.units[body.begins[k + 1]] = Unit("size", size)
        /\ body.begins[k + 1] + size = chunk.last
    BY <1>3, <1>4, <1>5 DEF InChunk
  <1> HIDE DEF size
  <1>8. /\ k + 1 \in 0..Chunks /\ Accepted(k + 1)
        /\ body.begins[k + 2] = body.begins[k + 1] + size + 2
        /\ \A p \in Nat : body.begins[k + 1] < p /\ p <= body.begins[k + 1] + size
             => p \in Content
    BY <1>1, <1>4, <1>6, <1>7, SoundChunk DEF TypeOK
  <1>9. /\ area' \in Nat /\ chunk'.at - area' = chunk.at /\ chunk'.last = chunk.last
        /\ area' <= chunk'.at
    <2>1. chunk.at \in Nat /\ chunk.at <= chunk.last
      BY DEF TypeOK
    <2> QED BY <1>1, <1>5, <2>1, BoundsAssumption DEF PublishWindow
  <1>10. AfterChunk'
    <2>1. body.begins[k + 2] = chunk.last + 2
      BY <1>7, <1>8
    <2>2. (k + 1) + 1 = k + 2 /\ k + 1 # 0
      BY <1>2 DEF LaidOut
    <2>3. chunk.last = LastData(k + 1) /\ chunk.last + 1 = body.begins[(k + 1) + 1] - 1
      BY <1>5, <2>1, <2>2 DEF LastData
    <2> QED BY <1>1, <1>2, <1>8, <1>9, <2>3 DEF AfterChunk, Accepted, LastData
  <1>11. PublishedIsData'
    BY <1>2, <1>4, <1>5, <1>7, <1>8, <1>9 DEF PublishedIsData
  <1>12. TakenInv'
    BY <1>1, <1>2, <1>5, <1>9 DEF TakenInv
  <1> QED BY <1>1, <1>3, <1>10, <1>11, <1>12 DEF PlaceInv

\* A line of trailer.
LEMMA TrailerReads ==
  TypeOK /\ PlaceInv /\ TakenInv /\ ReadTrailer /\ outcome' = "open" => PlaceInv' /\ TakenInv'
  <1> SUFFICES ASSUME TypeOK, PlaceInv, TakenInv, ReadTrailer, outcome' = "open"
               PROVE  PlaceInv' /\ TakenInv'
    OBVIOUS
  <1>0. [Next]_bodyVars
    BY DEF Next, Reading
  <1>1. /\ goal = "trailer" /\ NextUnit.is # "crlf" /\ lines < MaxTrailer
        /\ used' = used + 1 /\ lines' = lines + 1
        /\ UNCHANGED <<goal, chunk, area, delivered>>
    BY DEF ReadTrailer, Throw, Thrown, readerVars
  <1>2. /\ LaidOut /\ Chunks' = Chunks /\ Content' = Content /\ body' = body
        /\ limits' = limits
    BY <1>0, Layout, SameBody DEF TypeOK
  <1>3. InTrailer /\ lines \in Nat
    BY <1>1 DEF PlaceInv, TypeOK
  <1>4. body.begins[Chunks + 1] \in Nat
    BY <1>2 DEF LaidOut
  <1>5. body.units[body.begins[Chunks + 1] + lines'].is # "crlf"
    <2>1. used + 1 = body.begins[Chunks + 1] + lines'
      BY <1>1, <1>3, <1>4 DEF InTrailer
    <2> QED BY <1>1, <2>1 DEF NextUnit
  <1>6. \A i \in 1..lines' : body.units[body.begins[Chunks + 1] + i].is # "crlf"
    <2>1. \A i \in 1..lines' : i \in 1..lines \/ i = lines'
      BY <1>1, <1>3
    <2> QED BY <1>3, <1>5, <2>1 DEF InTrailer
  <1>7. used' = body.begins[Chunks + 1] + lines' /\ lines' <= MaxTrailer
    BY <1>1, <1>3, <1>4, BoundsAssumption DEF InTrailer
  <1>8. InTrailer'
    BY <1>1, <1>2, <1>3, <1>6, <1>7 DEF InTrailer, Accepted, LastData
  <1>9. TakenInv'
    BY <1>1, <1>2 DEF TakenInv
  <1> QED BY <1>1, <1>8, <1>9 DEF PlaceInv

\* The sequence e is d followed by the n numbers after r.
Follows(e, d, r, n) ==
  /\ e \in Seq(Nat) /\ Len(e) = Len(d) + n
  /\ \A i \in 1..Len(d) : e[i] = d[i]
  /\ \A i \in 1..n : e[Len(d) + i] = r + i
  /\ \A i \in 1..Len(e) : i \in 1..Len(d) \/ \E j \in 1..n : i = Len(d) + j

LEMMA Joined ==
  ASSUME NEW d \in Seq(Nat), NEW r \in Nat, NEW n \in Nat
  PROVE  Follows(d \o [i \in 1..n |-> r + i], d, r, n)
  <1> DEFINE new == [i \in 1..n |-> r + i]
             e == d \o new
  <1>0. Len(d) \in Nat
    OBVIOUS
  <1>1. new \in Seq(Nat) /\ Len(new) = n /\ \A i \in 1..n : new[i] = r + i
    OBVIOUS
  <1> HIDE DEF new
  <1>3. e \in Seq(Nat) /\ Len(e) = Len(d) + n
    BY <1>1
  <1>4. ASSUME NEW i \in 1..Len(d) PROVE e[i] = d[i]
    <2>1. i \in 1..(Len(d) + Len(new)) /\ i <= Len(d)
      BY <1>0, <1>1
    <2> QED BY <1>1, <2>1
  <1>5. ASSUME NEW i \in 1..n PROVE e[Len(d) + i] = r + i
    <2>1. Len(d) + i \in 1..(Len(d) + Len(new)) /\ ~(Len(d) + i <= Len(d))
      BY <1>0, <1>1
    <2>2. e[Len(d) + i] = new[Len(d) + i - Len(d)]
      BY <1>1, <2>1
    <2>3. Len(d) + i - Len(d) = i
      BY <1>0
    <2> QED BY <1>1, <2>2, <2>3
  <1>6. ASSUME NEW i \in 1..Len(e)
        PROVE  i \in 1..Len(d) \/ \E j \in 1..n : i = Len(d) + j
    <2>1. CASE i > Len(d)
      <3>1. i - Len(d) \in 1..n /\ i = Len(d) + (i - Len(d))
        BY <1>0, <1>3, <2>1
      <3> QED BY <3>1
    <2>2. CASE ~(i > Len(d))
      BY <1>0, <1>3, <2>2
    <2> QED BY <2>1, <2>2
  <1> HIDE DEF e
  <1>7. Follows(e, d, r, n)
    BY <1>3, <1>4, <1>5, <1>6 DEF Follows
  <1> QED BY <1>7 DEF e, new

\* The first of a set in its order, up to r, followed by its next n members.
LEMMA StillInOrder ==
  ASSUME NEW C, NEW d \in Seq(Nat), NEW r \in Nat, NEW n \in Nat, n > 0,
         \A i, j \in 1..Len(d) : i < j => d[i] < d[j],
         \A p \in Nat : (\E i \in 1..Len(d) : p = d[i]) <=> p \in C /\ p <= r,
         \A p \in Nat : r < p /\ p <= r + n => p \in C,
         NEW e, Follows(e, d, r, n)
  PROVE  /\ \A i, j \in 1..Len(e) : i < j => e[i] < e[j]
         /\ \A p \in Nat : (\E i \in 1..Len(e) : p = e[i]) <=> p \in C /\ p <= r + n
  <1>0. Len(d) \in Nat
    OBVIOUS
  <1>1. /\ e \in Seq(Nat) /\ Len(e) = Len(d) + n
        /\ \A i \in 1..Len(d) : e[i] = d[i]
        /\ \A i \in 1..n : e[Len(d) + i] = r + i
        /\ \A i \in 1..Len(e) : i \in 1..Len(d) \/ \E j \in 1..n : i = Len(d) + j
    BY DEF Follows
  <1>2. \A i \in 1..Len(d) : d[i] \in Nat /\ d[i] <= r
    <2> TAKE i \in 1..Len(d)
    <2>1. d[i] \in Nat
      OBVIOUS
    <2> QED BY <2>1
  <1>3. ASSUME NEW i \in 1..Len(e), NEW j \in 1..Len(e), i < j
        PROVE  e[i] < e[j]
    <2>1. CASE j \in 1..Len(d)
      <3>1. i \in 1..Len(d)
        BY <1>0, <1>1, <1>3, <2>1
      <3> QED BY <1>1, <1>3, <2>1, <3>1
    <2>2. CASE j \notin 1..Len(d)
      <3>1. PICK b \in 1..n : j = Len(d) + b
        BY <1>1, <2>2
      <3>2. e[j] = r + b
        BY <1>1, <3>1
      <3>3. CASE i \in 1..Len(d)
        <4>1. e[i] = d[i] /\ d[i] \in Nat /\ d[i] <= r
          BY <1>1, <1>2, <3>3
        <4> QED BY <3>2, <4>1
      <3>4. CASE i \notin 1..Len(d)
        <4>1. PICK a \in 1..n : i = Len(d) + a
          BY <1>1, <3>4
        <4>2. e[i] = r + a
          BY <1>1, <4>1
        <4> QED BY <1>0, <1>3, <3>1, <3>2, <4>1, <4>2
      <3> QED BY <3>3, <3>4
    <2> QED BY <2>1, <2>2
  <1>4. ASSUME NEW p \in Nat, NEW i \in 1..Len(e), p = e[i]
        PROVE  p \in C /\ p <= r + n
    <2>1. CASE i \in 1..Len(d)
      <3>1. p = d[i]
        BY <1>1, <1>4, <2>1
      <3>2. p \in C /\ p <= r
        BY <2>1, <3>1
      <3> QED BY <3>2
    <2>2. CASE i \notin 1..Len(d)
      <3>1. PICK b \in 1..n : i = Len(d) + b
        BY <1>1, <2>2
      <3>2. p = r + b
        BY <1>1, <1>4, <3>1
      <3>3. r < p /\ p <= r + n
        BY <3>2
      <3> QED BY <3>3
    <2> QED BY <2>1, <2>2
  <1>5. ASSUME NEW p \in Nat, p \in C, p <= r + n
        PROVE  \E i \in 1..Len(e) : p = e[i]
    <2>1. CASE p <= r
      <3>1. PICK i \in 1..Len(d) : p = d[i]
        BY <1>5, <2>1
      <3>2. i \in 1..Len(e) /\ p = e[i]
        BY <1>0, <1>1, <3>1
      <3> QED BY <3>2
    <2>2. CASE ~(p <= r)
      <3>1. p - r \in 1..n /\ p = r + (p - r)
        BY <1>5, <2>2
      <3>2. Len(d) + (p - r) \in 1..Len(e)
        BY <1>0, <1>1, <3>1
      <3>3. p = e[Len(d) + (p - r)]
        BY <1>1, <3>1
      <3> QED BY <3>2, <3>3
    <2> QED BY <2>1, <2>2
  <1> QED BY <1>3, <1>4, <1>5

\* The reader takes data, in its order.
LEMMA TakeReads ==
  ASSUME TypeOK, PlaceInv, TakenInv, NEW n \in 1..Window, Take(n)
  PROVE  /\ PlaceInv' /\ TakenInv'
         /\ IsStrictPrefix(delivered, delivered')
  <1>0. [Next]_bodyVars
    BY DEF Next
  <1>1. /\ n \in 1..area /\ area' = area - n
        /\ delivered' = delivered \o [i \in 1..n |-> chunk.at - area + i]
        /\ UNCHANGED <<used, chunk, goal, finished, lines>>
    BY DEF Take, frameVars
  <1>2. /\ Chunks' = Chunks /\ Content' = Content /\ body' = body /\ limits' = limits
    BY <1>0, SameBody DEF TypeOK
  <1>3. n \in Nat /\ n > 0 /\ area \in Nat /\ area > 0 /\ chunk.at \in Nat /\ chunk.last \in Nat
        /\ chunk.at <= chunk.last
    BY <1>1, BoundsAssumption DEF TypeOK
  <1>4. goal = "none"
    BY <1>3 DEF PlaceInv, InChunk, InTrailer, TypeOK
  <1>5. AfterChunk /\ PublishedIsData /\ area <= chunk.at
    BY <1>4 DEF PlaceInv, PublishedIsData
  <1>6. AfterChunk'
    BY <1>1, <1>2, <1>5 DEF AfterChunk, Accepted, LastData
  <1>7. PublishedIsData'
    BY <1>1, <1>2, <1>3, <1>5 DEF PublishedIsData
  <1>8. PlaceInv'
    BY <1>1, <1>4, <1>6, <1>7 DEF PlaceInv
  <1> DEFINE reached == chunk.at - area
  <1> DEFINE e == delivered'
  <1>9. /\ reached \in Nat /\ delivered \in Seq(Nat) /\ Follows(e, delivered, reached, n)
    <2>1. reached \in Nat /\ delivered \in Seq(Nat)
      BY <1>3, <1>5 DEF TakenInv
    <2>2. Follows(delivered \o [i \in 1..n |-> reached + i], delivered, reached, n)
      <3> HIDE DEF reached
      <3> QED BY <1>3, <2>1, Joined
    <2> QED BY <1>1, <2>1, <2>2
  <1>10. \A p \in Nat : reached < p /\ p <= reached + n => p \in Content
    <2>1. reached + n <= chunk.last
      BY <1>1, <1>3
    <2> QED BY <1>3, <1>5, <2>1 DEF PublishedIsData
  <1>11. /\ \A i, j \in 1..Len(delivered) : i < j => delivered[i] < delivered[j]
         /\ \A p \in Nat : (\E i \in 1..Len(delivered) : p = delivered[i])
                               <=> p \in Content /\ p <= reached
    BY DEF TakenInv
  <1>12. chunk'.at - area' = reached + n
    BY <1>1, <1>3
  <1> HIDE DEF reached, e
  <1>13. e \in Seq(Nat) /\ IsStrictPrefix(delivered, e)
    <2>1. /\ e \in Seq(Nat) /\ Len(delivered) \in Nat /\ Len(e) = Len(delivered) + n
          /\ \A i \in 1..Len(delivered) : e[i] = delivered[i]
      BY <1>9 DEF Follows
    <2>2. SubSeq(delivered, 1, Len(delivered)) = SubSeq(e, 1, Len(delivered))
      BY <1>3, <1>9, <2>1
    <2>3. Len(delivered) <= Len(e) /\ delivered # e
      BY <1>3, <2>1
    <2> QED BY <2>1, <2>2, <2>3 DEF IsStrictPrefix, IsPrefix
  <1>14. /\ \A i, j \in 1..Len(e) : i < j => e[i] < e[j]
         /\ \A p \in Nat : (\E i \in 1..Len(e) : p = e[i])
                               <=> p \in Content /\ p <= reached + n
    BY <1>3, <1>9, <1>10, <1>11, StillInOrder
  <1>15. TakenInv'
    BY <1>2, <1>12, <1>13, <1>14 DEF TakenInv, e
  <1> QED BY <1>8, <1>13, <1>15 DEF e

\* A step that moves neither the de-framer nor the reader.
LEMMA OtherReads ==
  ASSUME TypeOK, PlaceInv, TakenInv, outcome' = "open",
         Send \/ Close \/ Tick \/ Poll \/ Receive \/ Interrupted \/ UNCHANGED bodyVars
  PROVE  PlaceInv' /\ TakenInv'
  <1>1. [Next]_bodyVars
    BY DEF Next, Reading
  <1>2. UNCHANGED <<used, chunk, goal, finished, lines, area, delivered>>
    BY DEF Send, Close, Tick, Poll, Receive, Interrupted, Throw, Thrown, frameVars, readerVars,
           bodyVars
  <1> QED BY <1>1, <1>2, SamePlace

\* A body that was ended or given up stays so.
LEMMA StaysOver ==
  ASSUME CapInv, TypeOK, [Next]_bodyVars, outcome # "open"
  PROVE  outcome' # "open" /\ delivered' = delivered
  <1>1. goal = "none" /\ wait = Idle
    BY DEF CapInv, TypeOK
  <1> QED BY <1>1 DEF Next, Reading, Send, Close, Tick, Underflow, ReadHeader, TakeChunk,
        ReadTrailer, Poll, Receive, Interrupted, Take, readerVars, bodyVars

\* Every step of an open body keeps its reading.
LEMMA ReadStep == IInv /\ ReadInv /\ [Next]_bodyVars => ReadInv'
  <1> SUFFICES ASSUME IInv, ReadInv, [Next]_bodyVars, outcome' = "open"
               PROVE  PlaceInv' /\ TakenInv'
    BY DEF ReadInv
  <1>1. TypeOK /\ PlaceInv /\ TakenInv
    BY StaysOver DEF IInv, ReadInv
  <1>2. CASE Underflow
    BY <1>1, <1>2, UnderflowReads
  <1>3. CASE ReadHeader
    BY <1>1, <1>3, HeaderReads
  <1>4. CASE TakeChunk
    BY <1>1, <1>4, ChunkReads
  <1>5. CASE ReadTrailer
    BY <1>1, <1>5, TrailerReads
  <1>6. CASE Send \/ Close \/ Tick \/ Poll \/ Receive \/ Interrupted \/ UNCHANGED bodyVars
    BY <1>1, <1>6, OtherReads
  <1>7. ASSUME NEW n \in 1..Window, Take(n) PROVE PlaceInv' /\ TakenInv'
    BY <1>1, <1>7, TakeReads
  <1> QED BY <1>2, <1>3, <1>4, <1>5, <1>6, <1>7 DEF Next, Reading

\* The body is read as it is framed, in every reachable state.
THEOREM ReadAsFramed == Spec => [](IInv /\ ReadInv)
  <1>1. IInv /\ [Next]_bodyVars => IInv'
    BY TypeStep, LateStep, CapStep DEF IInv
  <1> QED BY InitInv, ReadInit, ReadStep, <1>1, PTL DEF Spec

-----------------------------------------------------------------------------
(* The de-framer keeps the promise.                                         *)

\* The end that is told is the end of a whole body, all of which was read.
LEMMA EndIsTrue ==
  ASSUME IInv, ReadInv, ReadTrailer, outcome' = "eof"
  PROVE  /\ outcome = "open" /\ Whole /\ delivered' = delivered
         /\ \A p \in Content : \E i \in 1..Len(delivered) : p = delivered[i]
  <1>1. goal = "trailer" /\ outcome = "open" /\ body \in Bodies
    BY DEF ReadTrailer, IInv, CapInv, TypeOK
  <1>2. goal = "trailer" /\ NextUnit.is = "crlf" /\ delivered' = delivered
        /\ received - used >= 1
    BY <1>1 DEF ReadTrailer, Throw, Thrown, readerVars, Available, Need
  <1>3. InTrailer /\ TakenInv /\ LaidOut
    BY <1>1, <1>2, Layout DEF ReadInv, PlaceInv
  <1>4. lines \in Nat /\ used \in Nat /\ received \in Nat /\ received <= Len(body.units)
    <2>1. /\ lines \in Nat /\ used \in Nat /\ received \in Nat /\ sent \in Nat
          /\ received <= sent /\ sent <= Len(body.units)
      BY DEF IInv, TypeOK
    <2> QED BY <1>3, <2>1 DEF LaidOut
  <1>5. body.begins[Chunks + 1] \in Nat /\ Len(body.units) \in Nat
    BY <1>3 DEF LaidOut
  <1>6. EndsAt(body.begins[Chunks + 1], lines)
    <2>1. used + 1 = body.begins[Chunks + 1] + lines + 1
      BY <1>3, <1>4, <1>5 DEF InTrailer
    <2>2. body.units[body.begins[Chunks + 1] + lines + 1].is = "crlf"
      BY <1>2, <2>1 DEF NextUnit
    <2>3. body.begins[Chunks + 1] + lines + 1 <= Len(body.units)
      BY <1>2, <1>4, <1>5, <2>1
    <2> QED BY <1>3, <2>2, <2>3 DEF InTrailer, EndsAt
  <1>7. Whole
    BY <1>3, <1>4, <1>6, BoundsAssumption DEF InTrailer, Whole
  <1>8. ASSUME NEW p \in Content PROVE \E i \in 1..Len(delivered) : p = delivered[i]
    <2>1. p \in Nat /\ p <= LastData(Chunks)
      BY <1>1, DataBeforeEnd DEF Content
    <2>2. chunk.at - area = LastData(Chunks)
      BY <1>3 DEF InTrailer, IInv, TypeOK
    <2> QED BY <1>3, <2>1, <2>2 DEF TakenInv
  <1> QED BY <1>1, <1>2, <1>7, <1>8

\* Every step of the de-framer is one of the promise, or none of its business.
LEMMA PromiseStep == IInv /\ ReadInv /\ [Next]_bodyVars => [Promise!Next]_(Promise!vars)
  <1> SUFFICES ASSUME IInv, ReadInv, [Next]_bodyVars PROVE [Promise!Next]_(Promise!vars)
    OBVIOUS
  <1>1. Content' = Content /\ Whole' = Whole
    BY SameBody
  <1>2. CASE outcome' = outcome /\ delivered' = delivered
    BY <1>1, <1>2 DEF Promise!vars
  <1>3. CASE outcome = "open" /\ outcome' = "error" /\ delivered' = delivered
    BY <1>1, <1>3 DEF Promise!Next, Promise!Fail
  <1>4. ASSUME Throw \/ Thrown, outcome = "open" PROVE [Promise!Next]_(Promise!vars)
    BY <1>3, <1>4 DEF Throw, Thrown, readerVars
  <1>5. CASE outcome # "open"
    <2>1. goal = "none" /\ wait = Idle
      BY <1>5 DEF IInv, CapInv, TypeOK
    <2>2. outcome' = outcome /\ delivered' = delivered
      BY <1>5, <2>1 DEF Next, Reading, Send, Close, Tick, Underflow, ReadHeader, TakeChunk,
         ReadTrailer, Poll, Receive, Interrupted, Take, readerVars, bodyVars
    <2> QED BY <1>2, <2>2
  <1>6. CASE outcome = "open"
    <2>1. CASE Send \/ Close \/ Tick \/ UNCHANGED bodyVars
      BY <1>2, <2>1 DEF Send, Close, Tick, readerVars, bodyVars
    <2>2. CASE Underflow
      <3>1. goal = "none" /\ ~finished
        BY <1>6, <2>2 DEF Underflow, ReadInv, PlaceInv
      <3> QED BY <1>2, <1>4, <1>6, <2>2, <3>1 DEF Underflow, readerVars
    <2>3. CASE ReadHeader \/ TakeChunk \/ Poll \/ Interrupted
      BY <1>2, <1>4, <1>6, <2>3
         DEF ReadHeader, TakeChunk, Poll, Interrupted, readerVars
    <2>4. CASE Receive
      BY <1>2, <1>4, <1>6, <2>4 DEF Receive, readerVars
    <2>5. CASE ReadTrailer /\ outcome' = "eof"
      BY <1>1, <2>5, EndIsTrue DEF Promise!Next, Promise!End
    <2>6. CASE ReadTrailer /\ outcome' # "eof"
      BY <1>2, <1>4, <1>6, <2>6 DEF ReadTrailer, readerVars
    <2>7. ASSUME NEW n \in 1..Window, Take(n) PROVE Promise!Next
      <3>1. TakenInv' /\ IsStrictPrefix(delivered, delivered') /\ outcome' = outcome
        BY <1>6, <2>7, TakeReads DEF IInv, ReadInv, Take
      <3>2. Promise!Begins(delivered)'
        <4>1. \A p \in Content : p \in Nat
          BY DEF Content
        <4>2. delivered' \in Seq(Nat)
          BY <3>1 DEF TakenInv
        <4> DEFINE d == delivered'
                   reached == chunk'.at - area'
        <4>3. /\ \A i, j \in 1..Len(d) : i < j => d[i] < d[j]
              /\ \A p \in Nat : (\E i \in 1..Len(d) : p = d[i]) <=> p \in Content /\ p <= reached
          BY <1>1, <3>1 DEF TakenInv
        <4>4. d \in Seq(Nat) /\ reached \in Int
          BY <4>2, <2>7, TypeStep DEF IInv, TypeOK
        <4> HIDE DEF d, reached
        <4>5. ASSUME NEW i \in 1..Len(d) PROVE d[i] \in Content /\ d[i] <= reached /\ d[i] \in Nat
          BY <4>3, <4>4
        <4>6. ASSUME NEW p \in Content, NEW i \in 1..Len(d), p <= d[i]
              PROVE  \E j \in 1..Len(d) : p = d[j]
          <5>1. p <= reached /\ p \in Nat
            BY <4>1, <4>4, <4>5, <4>6
          <5> QED BY <4>3, <5>1
        <4> QED BY <1>1, <4>3, <4>5, <4>6 DEF Promise!Begins, d
      <3>3. Promise!IsStrictPrefix(delivered, delivered')
        BY <3>1 DEF IsStrictPrefix, IsPrefix, Promise!IsStrictPrefix, Promise!IsPrefix
      <3> QED BY <1>1, <1>6, <3>1, <3>2, <3>3 DEF Promise!Next, Promise!Deliver
    <2> QED BY <2>1, <2>2, <2>3, <2>4, <2>5, <2>6, <2>7 DEF Next, Reading
  <1> QED BY <1>5, <1>6

\* The reader gets the data in its order, the end only after all of a whole body, and an
\* error otherwise, for any bodies, sound or not, any limits and any client.
THEOREM PromiseKept == Spec => KeepsThePromise
  <1>1. BodyInit => Promise!Init
    BY DEF BodyInit, Promise!Init, Content, Whole
  <1> QED BY ReadAsFramed, PromiseStep, <1>1, PTL
         DEF Spec, KeepsThePromise, Promise!Spec
=============================================================================
