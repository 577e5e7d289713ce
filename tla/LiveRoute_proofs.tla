-------------------------- MODULE LiveRoute_proofs --------------------------
(***************************************************************************)
(* Proofs about streamed answers, for any connections and routes, any      *)
(* sources and any number of events.                                       *)
(***************************************************************************)
EXTENDS LiveRoute, TLAPS

\* The variables of the turn and of the connections have their types.
ConnTypes ==
  /\ want \in [Conns -> Turn!Want]
  /\ pc \in [Conns -> PC]
  /\ client \in [Conns -> {"reads", "stalled", "gone"}]
  /\ wire \in [Conns -> Seq(Pieces)]

\* Who has been granted the turn is preparing or running, and nobody else is.
TurnInv ==
  \A c \in Conns : /\ pc[c] \in {"prepare", "run"} <=> want[c] = "granted"
                   /\ want[c] = "granted" => turn = c

\* The session has a sink and sends events only during a run, which is some
\* connection's.
SessionInv ==
  /\ sink => phase \in Running
  /\ event => phase \in Running
  /\ phase \in Running => \E c \in Conns : pc[c] = "run"

IInv == ConnTypes /\ TurnInv /\ SessionInv

-----------------------------------------------------------------------------
\* A step of the session or of its sink is one of a run, and leaves the sink with it.
LEMMA RunKeeps ==
  ASSUME sink => phase \in Running, event => phase \in Running,
         RunStep \/ SessionThrows \/ Delivered \/ SinkThrows
  PROVE  /\ phase \in Running
         /\ sink' => phase' \in Running
         /\ event' => phase' \in Running
  <1> USE DEF Running, Phases, Throw, Over
  <1>1. CASE StartStream
    BY <1>1 DEF StartStream
  <1>2. CASE Read
    BY <1>2 DEF Read
  <1>3. CASE ProcessChunk
    BY <1>3 DEF ProcessChunk
  <1>4. CASE Pull
    BY <1>4 DEF Pull
  <1>5. CASE Finish
    BY <1>5 DEF Finish
  <1>6. CASE SessionThrows
    BY <1>6 DEF SessionThrows
  <1>7. CASE Delivered \/ SinkThrows
    BY <1>7 DEF Delivered, SinkThrows
  <1> QED BY <1>1, <1>2, <1>3, <1>4, <1>5, <1>6, <1>7 DEF RunStep

\* A write moves one thread and appends to one answer at most.
LEMMA WriteMoves ==
  ASSUME ConnTypes, NEW c \in Conns, NEW piece \in Pieces, NEW from, NEW to \in PC, NEW fail \in PC,
         Write(c, piece, from, to, fail)
  PROVE  /\ ConnTypes' /\ UNCHANGED <<streamVars, turnVars>>
         /\ pc[c] = from /\ pc' = [pc EXCEPT ![c] = pc'[c]] /\ pc'[c] \in {to, fail}
  <1>1. pc' \in [Conns -> PC] /\ pc[c] = from /\ pc' = [pc EXCEPT ![c] = pc'[c]]
        /\ pc'[c] \in {to, fail}
    BY DEF Write, Goto, ConnTypes
  <1>2. \/ wire' = wire
        \/ \E s \in Pieces : wire' = [wire EXCEPT ![c] = Append(@, s)]
    BY DEF Write, Sent, SendFails, Pieces
  <1>3. wire' \in [Conns -> Seq(Pieces)]
    <2>1. wire[c] \in Seq(Pieces)
      BY DEF ConnTypes
    <2>2. \A s \in Pieces : Append(wire[c], s) \in Seq(Pieces)
      BY <2>1
    <2> QED BY <1>2, <2>2 DEF ConnTypes
  <1>4. UNCHANGED <<streamVars, turnVars, client>>
    BY DEF Write
  <1> QED BY <1>1, <1>3, <1>4 DEF ConnTypes, turnVars


\* A thread that neither prepares nor runs, before and after, leaves the session alone.
LEMMA PlainMove ==
  ASSUME IInv, NEW c \in Conns, ConnTypes', UNCHANGED <<streamVars, turnVars>>,
         pc' = [pc EXCEPT ![c] = pc'[c]],
         pc[c] \notin {"prepare", "run"}, pc'[c] \notin {"prepare", "run"}
  PROVE  IInv'
  <1>1. \A d \in Conns : d # c => pc'[d] = pc[d]
    BY DEF IInv, ConnTypes
  <1>2. TurnInv'
    BY <1>1 DEF IInv, TurnInv, turnVars
  <1>3. SessionInv'
    BY <1>1 DEF IInv, SessionInv, streamVars
  <1> QED BY <1>2, <1>3 DEF IInv

\* The initial state satisfies the inductive invariant.
LEMMA InitInv == Init => IInv
  <1> SUFFICES ASSUME Init PROVE IInv
    OBVIOUS
  <1>1. wire \in [Conns -> Seq(Pieces)]
    BY DEF Init
  <1>2. ConnTypes
    BY <1>1 DEF Init, ConnTypes, Turn!Init, Turn!Want, PC
  <1>3. TurnInv
    BY DEF Init, TurnInv, Turn!Init
  <1>4. SessionInv
    BY DEF Init, SessionInv, StreamInit, Running
  <1> QED BY <1>2, <1>3, <1>4 DEF IInv

\* Every step keeps the turn with the run and the sink with the turn.
LEMMA Step == IInv /\ [Next]_vars => IInv'
  <1> SUFFICES ASSUME IInv, [Next]_vars PROVE IInv'
    OBVIOUS
  <1>a. ConnTypes /\ TurnInv /\ SessionInv
    BY DEF IInv
  <1>1. ASSUME NEW c \in Conns, Dispatch(c) PROVE IInv'
    <2>1. ConnTypes'
      BY <1>1, <1>a DEF Dispatch, Goto, ConnTypes, PC, turnVars
    <2> QED BY <1>1, <1>a, <2>1, PlainMove DEF Dispatch, Goto, ConnTypes
  <1>2. ASSUME NEW c \in Conns, SendHead(c) \/ WriteLast(c) \/ WriteEnd(c) \/ AnswerError(c)
        PROVE  IInv'
    <2>1. PICK piece \in Pieces, from \in PC \ {"prepare", "run"}, to \in PC \ {"prepare", "run"},
               fail \in PC \ {"prepare", "run"} : Write(c, piece, from, to, fail)
      BY <1>2 DEF SendHead, WriteLast, WriteEnd, AnswerError, Pieces, PC
    <2> QED BY <1>a, <2>1, WriteMoves, PlainMove
  <1>3. ASSUME NEW c \in Conns, Conclude(c) \/ Catch(c) PROVE IInv'
    <2>1. CASE \E piece \in Pieces, from \in PC \ {"prepare", "run"}, to \in PC \ {"prepare", "run"},
                  fail \in PC \ {"prepare", "run"} : Write(c, piece, from, to, fail)
      BY <1>a, <2>1, WriteMoves, PlainMove
    <2>2. CASE /\ \E from \in PC \ {"prepare", "run"}, to \in PC \ {"prepare", "run"} : Goto(c, from, to)
               /\ UNCHANGED <<streamVars, turnVars, client, wire>>
      <3>1. ConnTypes'
        BY <1>a, <2>2 DEF Goto, ConnTypes, turnVars
      <3> QED BY <1>a, <2>2, <3>1, PlainMove DEF Goto, ConnTypes
    <2> QED BY <1>3, <2>1, <2>2 DEF Conclude, Catch, Pieces, PC
  <1>4. ASSUME NEW c \in Conns, AskTurn(c) \/ Granted(c) \/ Refused(c) \/ Depart(c)
        PROVE  IInv'
    <2>1. ConnTypes'
      BY <1>4, <1>a DEF AskTurn, Granted, Refused, Depart, Goto, ConnTypes, PC, connVars,
                        Turn!Ask, Turn!Grant, Turn!Refuse, Turn!Depart, Turn!Want
    <2>2. TurnInv'
      BY <1>4, <1>a, RoutesAssumption
         DEF AskTurn, Granted, Refused, Depart, Goto, ConnTypes, TurnInv, connVars,
             Turn!Ask, Turn!Grant, Turn!Refuse, Turn!Depart
    <2>3. /\ \A d \in Conns : pc[d] = "run" => pc'[d] = "run"
          /\ UNCHANGED <<sink, event, phase>>
      BY <1>4, <1>a DEF AskTurn, Granted, Refused, Depart, Goto, ConnTypes, connVars, streamVars
    <2>4. SessionInv'
      BY <1>a, <2>3 DEF SessionInv
    <2> QED BY <2>1, <2>2, <2>4 DEF IInv
  <1>5. ASSUME NEW c \in Conns, Prepare(c) PROVE IInv'
    <2>1. CASE Goto(c, "prepare", "run") /\ (\E i \in InputsOf(kind[c]) : Begin(i)) /\ UNCHANGED turnVars
      <3>1. ConnTypes'
        BY <1>5, <1>a, <2>1 DEF Prepare, Goto, ConnTypes, PC, turnVars
      <3>2. TurnInv'
        BY <1>a, <2>1 DEF Goto, ConnTypes, TurnInv, turnVars
      <3>3. phase' \in Running /\ pc'[c] = "run"
        BY <1>a, <2>1 DEF Begin, Running, Phases, Goto, ConnTypes
      <3>4. SessionInv'
        BY <3>3 DEF SessionInv
      <3> QED BY <3>1, <3>2, <3>4 DEF IInv
    <2>2. CASE Goto(c, "prepare", "catch") /\ Turn!Release(c) /\ UNCHANGED streamVars
      <3>1. ConnTypes'
        BY <1>5, <1>a, <2>2 DEF Prepare, Goto, ConnTypes, PC, Turn!Release, Turn!Want
      <3>2. TurnInv'
        BY <1>a, <2>2 DEF Goto, ConnTypes, TurnInv, Turn!Release
      <3>3. \A d \in Conns : pc[d] = "run" => pc'[d] = "run"
        BY <1>a, <2>2 DEF Goto, ConnTypes
      <3>4. SessionInv'
        BY <1>a, <2>2, <3>3 DEF SessionInv, streamVars
      <3> QED BY <3>1, <3>2, <3>4 DEF IInv
    <2> QED BY <1>5, <2>1, <2>2 DEF Prepare
  <1>6. ASSUME NEW c \in Conns, Run(c) \/ Deliver(c) PROVE IInv'
    <2>1. /\ pc[c] = "run" /\ (RunStep \/ SessionThrows \/ Delivered \/ SinkThrows)
          /\ UNCHANGED <<turnVars, pc, client>>
          /\ wire' = wire \/ \E s \in Pieces : wire' = [wire EXCEPT ![c] = Append(@, s)]
      BY <1>6 DEF Run, Deliver, Sent, SendFails, Pieces
    <2>2. wire[c] \in Seq(Pieces)
      BY <1>a DEF ConnTypes
    <2>3. \A s \in Pieces : Append(wire[c], s) \in Seq(Pieces)
      BY <2>2
    <2>4. ConnTypes'
      BY <1>a, <2>1, <2>3 DEF ConnTypes, turnVars
    <2>5. TurnInv'
      BY <1>a, <2>1 DEF TurnInv, turnVars
    <2>6. SessionInv'
      BY <1>a, <2>1, RunKeeps DEF SessionInv
    <2> QED BY <2>4, <2>5, <2>6 DEF IInv
  <1>7. ASSUME NEW c \in Conns, RunEnds(c) PROVE IInv'
    <2>1. ConnTypes'
      BY <1>7, <1>a DEF RunEnds, Goto, ConnTypes, PC, Turn!Release, Turn!Want
    <2>2. TurnInv'
      BY <1>7, <1>a DEF RunEnds, Goto, ConnTypes, TurnInv, Turn!Release
    <2>3. phase \notin Running /\ UNCHANGED <<phase, sink, event>>
      BY <1>7 DEF RunEnds, Running, streamVars
    <2>4. SessionInv'
      BY <1>a, <2>3 DEF SessionInv
    <2> QED BY <2>1, <2>2, <2>4 DEF IInv
  <1>8. ASSUME NEW c \in Conns, ClientMoves(c) PROVE IInv'
    BY <1>8, <1>a DEF ClientMoves, ConnTypes, TurnInv, SessionInv, IInv, turnVars, streamVars
  <1>9. CASE UNCHANGED vars
    BY <1>9, <1>a DEF vars, connVars, ConnTypes, TurnInv, SessionInv, IInv, turnVars, streamVars
  <1> QED BY <1>1, <1>2, <1>3, <1>4, <1>5, <1>6, <1>7, <1>8, <1>9 DEF Next, Thread

\* The inductive invariant holds in every reachable state.
THEOREM Invariant == Spec => []IInv
  <1> QED BY InitInv, Step, PTL DEF Spec

\* The session calls its sink only for the connection that has the turn.
THEOREM SinkFollowsTurn == Spec => []SinkIsTheRunners
  <1>1. IInv => SinkIsTheRunners
    BY RoutesAssumption DEF IInv, TurnInv, SessionInv, SinkIsTheRunners
  <1> QED BY Invariant, <1>1, PTL

\* Whoever is about to begin a run finds the session without one: run_stream does not look,
\* and the guard of StreamRun's Begin says no more than the turn does.
THEOREM SessionIsFree == Spec => [](\A c \in Conns : pc[c] = "prepare" => phase \notin Running)
  <1>1. IInv => \A c \in Conns : pc[c] = "prepare" => phase \notin Running
    BY RoutesAssumption DEF IInv, TurnInv, SessionInv
  <1> QED BY Invariant, <1>1, PTL

-----------------------------------------------------------------------------
(* The shape of an answer.                                                  *)

\* An answer under way, one that has told how it went, and one that is complete.
Between(w, last) == \A k \in 2..last : w[k] \in {"delta", "done"}
Open(w) == Len(w) >= 1 /\ w[1] = "head" /\ Between(w, Len(w))
Told(w) == Len(w) >= 2 /\ w[1] = "head" /\ w[Len(w)] \in {"last", "error"} /\ Between(w, Len(w) - 1)
Ended(w, events) ==
  /\ Len(w) >= 2 /\ w[1] = "head" /\ w[Len(w)] = "end"
  /\ IF events THEN /\ Len(w) >= 3 /\ w[Len(w) - 1] \in {"last", "error"}
                    /\ Between(w, Len(w) - 2)
     ELSE Between(w, Len(w) - 1)

Uncut(w) == \A k \in 1..Len(w) : w[k] # "cut"

\* The answer of a connection has the shape that its place in handle_client asks for.
\* Where an error was met after the head was sent, the client is gone.
Shape(c) ==
  /\ pc[c] \in {"new", "head"} => wire[c] = <<>>
  /\ pc[c] \in {"ask", "waiting", "prepare", "run", "after", "tail", "catch"} => Open(wire[c])
  /\ pc[c] = "tail" => IsEvents(kind[c])
  /\ pc[c] = "finish" => IF IsEvents(kind[c]) THEN Told(wire[c]) ELSE Open(wire[c])
  /\ pc[c] = "error" =>
       \/ wire[c] = <<>>
       \/ client[c] = "gone" /\ (Open(wire[c]) \/ Told(wire[c]))
  /\ pc[c] = "closed" =>
       \/ wire[c] \in {<<>>, <<"500">>} \/ Open(wire[c]) \/ Told(wire[c])
       \/ Ended(wire[c], IsEvents(kind[c]))

WireInv == \A c \in Conns : Uncut(wire[c]) => Shape(c)

\* What a piece does to the shape of an answer.
LEMMA AppendShape ==
  ASSUME NEW w \in Seq(Pieces), NEW s \in Pieces
  PROVE  /\ Uncut(Append(w, s)) => Uncut(w) /\ s # "cut"
         /\ w = <<>> /\ s = "head" => Open(Append(w, s))
         /\ Open(w) /\ s \in {"delta", "done"} => Open(Append(w, s))
         /\ Open(w) /\ s \in {"last", "error"} => Told(Append(w, s))
         /\ Told(w) /\ s = "end" => Ended(Append(w, s), TRUE)
         /\ Open(w) /\ s = "end" => Ended(Append(w, s), FALSE)
  <1> DEFINE v == Append(w, s)
  <1>1. /\ Len(w) \in Nat /\ Len(v) = Len(w) + 1 /\ v[Len(w) + 1] = s
        /\ \A k \in 1..Len(w) : v[k] = w[k]
    OBVIOUS
  <1> HIDE DEF v
  <1>2. Uncut(v) => Uncut(w) /\ s # "cut"
    BY <1>1 DEF Uncut
  <1>3. w = <<>> /\ s = "head" => Open(v)
    BY <1>1 DEF Open, Between
  <1>4. Open(w) /\ s \in {"delta", "done"} => Open(v)
    BY <1>1 DEF Open, Between
  <1>5. Open(w) /\ s \in {"last", "error"} => Told(v)
    BY <1>1 DEF Open, Told, Between
  <1>6. Told(w) /\ s = "end" => Ended(v, TRUE)
    BY <1>1 DEF Told, Ended, Between
  <1>7. Open(w) /\ s = "end" => Ended(v, FALSE)
    BY <1>1 DEF Open, Ended, Between
  <1> QED BY <1>2, <1>3, <1>4, <1>5, <1>6, <1>7 DEF v

\* The same, piece by piece.
LEMMA PieceShape ==
  ASSUME NEW w \in Seq(Pieces)
  PROVE  /\ w = <<>> => Open(Append(w, "head"))
         /\ Open(w) => /\ Open(Append(w, "delta")) /\ Open(Append(w, "done"))
                       /\ Told(Append(w, "last")) /\ Told(Append(w, "error"))
                       /\ Ended(Append(w, "end"), FALSE)
         /\ Told(w) => Ended(Append(w, "end"), TRUE)
  <1>1. /\ "head" \in Pieces /\ "delta" \in Pieces /\ "done" \in Pieces /\ "last" \in Pieces
        /\ "error" \in Pieces /\ "end" \in Pieces
    BY DEF Pieces
  <1>2. w = <<>> => Open(Append(w, "head"))
    BY <1>1, AppendShape
  <1>3. Open(w) => Open(Append(w, "delta")) /\ Open(Append(w, "done"))
    BY <1>1, AppendShape
  <1>4. Open(w) => Told(Append(w, "last")) /\ Told(Append(w, "error"))
    BY <1>1, AppendShape
  <1>5. Open(w) => Ended(Append(w, "end"), FALSE)
    BY <1>1, AppendShape
  <1>6. Told(w) => Ended(Append(w, "end"), TRUE)
    BY <1>1, AppendShape
  <1> QED BY <1>2, <1>3, <1>4, <1>5, <1>6

\* What a write does to one connection.
LEMMA WriteShape ==
  ASSUME ConnTypes, NEW c \in Conns, NEW piece \in Pieces, NEW from, NEW to, NEW fail,
         Write(c, piece, from, to, fail)
  PROVE  /\ pc[c] = from
         /\ \/ pc'[c] = to /\ client[c] = "reads" /\ wire'[c] = Append(wire[c], piece)
            \/ pc'[c] = fail /\ client[c] = "gone" /\ wire'[c] = wire[c]
            \/ pc'[c] = fail /\ wire'[c] = Append(wire[c], "cut")
  BY DEF Write, Goto, Sent, SendFails, ConnTypes

\* A step of a thread is no other connection's, and no client's.
LEMMA Others ==
  ASSUME ConnTypes, NEW c \in Conns, Thread(c)
  PROVE  /\ UNCHANGED <<kind, client>>
         /\ \A d \in Conns \ {c} : pc'[d] = pc[d] /\ wire'[d] = wire[d]
  <1> USE DEF ConnTypes, Write, Goto, Sent, SendFails, connVars
  <1>1. CASE Dispatch(c) \/ SendHead(c) \/ WriteLast(c) \/ WriteEnd(c) \/ AnswerError(c)
    BY <1>1 DEF Dispatch, SendHead, WriteLast, WriteEnd, AnswerError
  <1>2. CASE Conclude(c) \/ Catch(c)
    BY <1>2 DEF Conclude, Catch
  <1>3. CASE AskTurn(c) \/ Granted(c) \/ Refused(c) \/ Depart(c) \/ Prepare(c) \/ RunEnds(c)
    BY <1>3 DEF AskTurn, Granted, Refused, Depart, Prepare, RunEnds
  <1>4. CASE Run(c) \/ Deliver(c)
    BY <1>4 DEF Run, Deliver
  <1> QED BY <1>1, <1>2, <1>3, <1>4 DEF Thread

\* A thread keeps its answer in shape.
LEMMA ThreadShape ==
  ASSUME ConnTypes, NEW c \in Conns, Uncut(wire[c]) => Shape(c), Thread(c), Uncut(wire'[c])
  PROVE  Shape(c)'
  <1>a. UNCHANGED <<kind, client>> /\ wire[c] \in Seq(Pieces) /\ {"cut"} \subseteq Pieces
    BY Others DEF ConnTypes, Pieces
  <1>b. ASSUME NEW s \in Pieces, wire'[c] = Append(wire[c], s)
        PROVE  Uncut(wire[c]) /\ s # "cut" /\ Shape(c)
    BY <1>a, <1>b, AppendShape
  <1>c. ASSUME wire'[c] = wire[c]
        PROVE  Shape(c)
    BY <1>c
  <1>1. CASE Dispatch(c)
    BY <1>1, <1>c DEF Dispatch, Goto, ConnTypes, Shape
  <1>2. CASE SendHead(c)
    <2>1. /\ pc[c] = "head"
          /\ \/ pc'[c] = "ask" /\ wire'[c] = Append(wire[c], "head")
             \/ pc'[c] = "error" /\ wire'[c] = wire[c]
      BY <1>2, <1>b, WriteShape DEF SendHead, Pieces
    <2>2. wire[c] = <<>>
      BY <2>1, <1>b, <1>c DEF Shape, Pieces
    <2> QED BY <2>1, <2>2, <1>a, PieceShape DEF Shape
  <1>3. CASE AskTurn(c) \/ Granted(c) \/ Refused(c) \/ Prepare(c) \/ RunEnds(c)
    <2>1. /\ wire' = wire /\ pc[c] \in {"ask", "waiting", "prepare", "run"}
          /\ pc'[c] \in {"waiting", "prepare", "run", "after", "catch"}
      BY <1>3 DEF AskTurn, Granted, Refused, Prepare, RunEnds, Goto, ConnTypes
    <2> QED BY <2>1, <1>c DEF Shape
  <1>4. CASE Depart(c) \/ Run(c)
    <2>1. wire' = wire /\ pc' = pc
      BY <1>4 DEF Depart, Run, connVars
    <2> QED BY <2>1, <1>a, <1>c DEF Shape
  <1>5. CASE Deliver(c)
    <2>1. /\ pc[c] = "run" /\ pc' = pc
          /\ wire'[c] = wire[c] \/ wire'[c] = Append(wire[c], "delta") \/ wire'[c] = Append(wire[c], "cut")
      BY <1>5 DEF Deliver, Sent, SendFails, ConnTypes
    <2>2. wire'[c] = wire[c] \/ wire'[c] = Append(wire[c], "delta")
      BY <2>1, <1>b DEF Pieces
    <2>3. Open(wire[c])
      BY <2>1, <2>2, <1>b, <1>c DEF Shape, Pieces
    <2>4. Open(wire'[c])
      BY <2>2, <2>3, <1>a, PieceShape
    <2> QED BY <2>1, <2>4 DEF Shape
  <1>6. CASE Conclude(c)
    <2>1. /\ pc[c] = "after"
          /\ \/ pc'[c] = "tail" /\ IsEvents(kind[c]) /\ wire'[c] = Append(wire[c], "done")
             \/ pc'[c] = "catch" /\ wire'[c] = wire[c]
             \/ pc'[c] = "finish" /\ ~IsEvents(kind[c]) /\ wire'[c] = wire[c]
      <3>1. CASE IsEvents(kind[c]) /\ Write(c, "done", "after", "tail", "catch")
        BY <3>1, <1>b, WriteShape DEF Pieces
      <3>2. CASE ~(IsEvents(kind[c]) /\ Write(c, "done", "after", "tail", "catch"))
        BY <1>6, <3>2 DEF Conclude, Goto, ConnTypes
      <3> QED BY <3>1, <3>2
    <2>2. Open(wire[c])
      BY <2>1, <1>b, <1>c DEF Shape, Pieces
    <2>3. Open(wire'[c])
      BY <2>1, <2>2, <1>a, PieceShape
    <2> QED BY <2>1, <2>3, <1>a DEF Shape
  <1>7. CASE WriteLast(c)
    <2>1. /\ pc[c] = "tail"
          /\ \/ pc'[c] = "finish" /\ wire'[c] = Append(wire[c], "last")
             \/ pc'[c] = "catch" /\ wire'[c] = wire[c]
      BY <1>7, <1>b, WriteShape DEF WriteLast, Pieces
    <2>2. Open(wire[c]) /\ IsEvents(kind[c])
      BY <2>1, <1>b, <1>c DEF Shape, Pieces
    <2> QED BY <2>1, <2>2, <1>a, PieceShape DEF Shape
  <1>8. CASE Catch(c)
    <2>1. /\ pc[c] = "catch"
          /\ \/ pc'[c] = "finish" /\ IsEvents(kind[c]) /\ wire'[c] = Append(wire[c], "error")
             \/ pc'[c] = "error" /\ client[c] = "gone" /\ wire'[c] = wire[c]
             \/ pc'[c] = "finish" /\ ~IsEvents(kind[c]) /\ wire'[c] = wire[c]
      <3>1. CASE IsEvents(kind[c])
        BY <1>8, <3>1, <1>b, WriteShape DEF Catch, Pieces
      <3>2. CASE ~IsEvents(kind[c])
        BY <1>8, <3>2 DEF Catch, Goto, ConnTypes
      <3> QED BY <3>1, <3>2
    <2>2. Open(wire[c])
      BY <2>1, <1>b, <1>c DEF Shape, Pieces
    <2> QED BY <2>1, <2>2, <1>a, PieceShape DEF Shape
  <1>9. CASE WriteEnd(c)
    <2>1. /\ pc[c] = "finish"
          /\ \/ pc'[c] = "closed" /\ wire'[c] = Append(wire[c], "end")
             \/ pc'[c] = "error" /\ client[c] = "gone" /\ wire'[c] = wire[c]
      BY <1>9, <1>b, WriteShape DEF WriteEnd, Pieces
    <2>2. IF IsEvents(kind[c]) THEN Told(wire[c]) ELSE Open(wire[c])
      BY <2>1, <1>b, <1>c DEF Shape, Pieces
    <2>3. pc'[c] = "closed" => Ended(wire'[c], IsEvents(kind[c]))
      <3>1. CASE IsEvents(kind[c])
        <4>1. IsEvents(kind[c]) = TRUE
          BY <3>1 DEF IsEvents
        <4> QED BY <2>1, <2>2, <4>1, <1>a, PieceShape
      <3>2. CASE ~IsEvents(kind[c])
        <4>1. IsEvents(kind[c]) = FALSE
          BY <3>2 DEF IsEvents
        <4> QED BY <2>1, <2>2, <4>1, <1>a, PieceShape
      <3> QED BY <3>1, <3>2
    <2> QED BY <2>1, <2>2, <2>3, <1>a DEF Shape
  <1>10. CASE AnswerError(c)
    <2>1. /\ pc[c] = "error" /\ pc'[c] = "closed"
          /\ \/ client[c] = "reads" /\ wire'[c] = Append(wire[c], "500")
             \/ wire'[c] = wire[c]
      BY <1>10, <1>b, WriteShape DEF AnswerError, Pieces
    <2>2. \/ wire[c] = <<>>
          \/ client[c] = "gone" /\ (Open(wire[c]) \/ Told(wire[c]))
      BY <2>1, <1>b, <1>c DEF Shape, Pieces
    <2>3. Append(<<>>, "500") = <<"500">>
      OBVIOUS
    <2> QED BY <2>1, <2>2, <2>3 DEF Shape
  <1> QED BY <1>1, <1>2, <1>3, <1>4, <1>5, <1>6, <1>7, <1>8, <1>9, <1>10 DEF Thread

\* Every answer keeps its shape.
LEMMA WireStep == ConnTypes /\ WireInv /\ [Next]_vars => WireInv'
  <1> SUFFICES ASSUME ConnTypes, WireInv, [Next]_vars, NEW d \in Conns, Uncut(wire'[d])
               PROVE  Shape(d)'
    BY DEF WireInv
  <1>1. Uncut(wire[d]) => Shape(d)
    BY DEF WireInv
  <1>2. ASSUME NEW c \in Conns, Thread(c) PROVE Shape(d)'
    <2>1. CASE c = d
      BY <1>1, <1>2, <2>1, ThreadShape
    <2>2. CASE c # d
      <3>1. kind' = kind /\ client' = client /\ pc'[d] = pc[d] /\ wire'[d] = wire[d]
        BY <1>2, <2>2, Others
      <3> QED BY <1>1, <3>1 DEF Shape
    <2> QED BY <2>1, <2>2
  <1>3. ASSUME NEW c \in Conns, ClientMoves(c) PROVE Shape(d)'
    <2>1. /\ UNCHANGED <<kind, pc, wire>>
          /\ client[d] = "gone" => client'[d] = "gone"
      BY <1>3 DEF ClientMoves, ConnTypes
    <2> QED BY <1>1, <2>1 DEF Shape
  <1>4. CASE UNCHANGED vars
    BY <1>1, <1>4 DEF Shape, vars, connVars
  <1> QED BY <1>2, <1>3, <1>4 DEF Next

\* Every answer has its shape in every reachable state.
THEOREM Shapes == Spec => [](IInv /\ WireInv)
  <1>1. Init => WireInv
    BY DEF Init, WireInv, Shape
  <1>2. IInv /\ WireInv /\ [Next]_vars => WireInv'
    BY WireStep DEF IInv
  <1> QED BY InitInv, Step, <1>1, <1>2, PTL DEF Spec

\* In an answer of such a shape the head is first and the end is last; with the end of
\* an answer of events, the one piece that tells how it went comes before it.
LEMMA ShapeEnds ==
  ASSUME NEW w \in Seq(Pieces), NEW events, Open(w) \/ Told(w) \/ Ended(w, events)
  PROVE  /\ \A k \in 1..Len(w) : w[k] \in {"head", "500"} => k = 1
         /\ \A k \in 1..Len(w) : w[k] = "end" => k = Len(w)
         /\ (\E k \in 1..Len(w) : w[k] = "end") /\ events =>
              {k \in 1..Len(w) : w[k] \in {"last", "error"}} = {Len(w) - 1}
  <1>0. Len(w) \in Nat
    OBVIOUS
  <1>1. CASE Open(w)
    BY <1>0, <1>1 DEF Open, Between
  <1>2. CASE Told(w)
    BY <1>0, <1>2 DEF Told, Between
  <1>3. CASE Ended(w, events)
    BY <1>0, <1>3 DEF Ended, Between
  <1> QED BY <1>1, <1>2, <1>3

\* An answer that was not cut begins with its head, tells once how it went, and is
\* written no further than its end.
THEOREM AnswersEndOnce == Spec => []EndsOnce
  <1>1. ASSUME IInv, WireInv PROVE EndsOnce
    <2> SUFFICES ASSUME NEW c \in Conns, ~Wrote(c, "cut")
                 PROVE  LET At(s) == {k \in 1..Len(wire[c]) : wire[c][k] \in s}
                        IN /\ At({"head", "500"}) \subseteq {1}
                           /\ At({"end"}) \subseteq {Len(wire[c])}
                           /\ Wrote(c, "end") /\ IsEvents(kind[c]) =>
                                At({"last", "error"}) = {Len(wire[c]) - 1}
      BY DEF EndsOnce
    <2>1. Shape(c) /\ wire[c] \in Seq(Pieces) /\ pc[c] \in PC
      BY <1>1 DEF WireInv, IInv, ConnTypes, Uncut, Wrote
    <2> DEFINE w == wire[c]
    <2>2. \/ w \in {<<>>, <<"500">>} \/ Open(w) \/ Told(w) \/ Ended(w, IsEvents(kind[c]))
      BY <2>1 DEF Shape, PC
    <2>3. CASE w \in {<<>>, <<"500">>}
      BY <2>3 DEF Wrote
    <2>4. CASE Open(w) \/ Told(w) \/ Ended(w, IsEvents(kind[c]))
      BY <2>1, <2>4, ShapeEnds DEF Wrote
    <2> QED BY <2>2, <2>3, <2>4
  <1> QED BY Shapes, <1>1, PTL

-----------------------------------------------------------------------------
(* Types.                                                                   *)

\* The run has an input while it is under way, and has read nothing before it begins.
StreamTyped ==
  /\ StreamTypeOK
  /\ \E n \in Nat : block \in [1..n -> Int] /\ Len(block) = n
  /\ phase \in Running => input \in Inputs
  /\ phase \notin Running => at = 0

\* What the invariant above does not say of the turn and of the connections.
RestTypes ==
  /\ turn \in Conns \cup {Nobody}
  /\ bounded \subseteq Conns
  /\ kind \in [Conns -> Kinds]
  /\ wrote \in [Conns -> BOOLEAN]
  /\ whole \in [Conns -> BOOLEAN]

\* The samples after some number of others are as many as are asked for.
LEMMA AfterIs ==
  ASSUME NEW first \in Nat, NEW n \in Nat
  PROVE  After(first, n) \in [1..n -> Int] /\ Len(After(first, n)) = n
  BY DEF After

\* A source gives no more than it has, and a number of samples.
LEMMA Reads ==
  ASSUME NEW i \in Inputs, NEW from \in Nat, from <= i.bytes
  PROVE  /\ ReadPcm(i, from).bytes \in 0..(i.bytes - from)
         /\ ReadBuffer(i, from).bytes \in 0..(i.bytes - from)
         /\ ReadPcm(i, from).more \in BOOLEAN /\ ReadBuffer(i, from).more \in BOOLEAN
         /\ \E n \in Nat : /\ ReadPcm(i, from).samples \in [1..n -> Int]
                           /\ Len(ReadPcm(i, from).samples) = n
         /\ \E n \in Nat : /\ ReadBuffer(i, from).samples \in [1..n -> Int]
                           /\ Len(ReadBuffer(i, from).samples) = n
  <1>1. /\ i.bytes \in Nat /\ i.width \in Nat \ {0} /\ i.channels \in Nat \ {0}
        /\ i.frames = NoFrames \/ i.frames \in Nat
        /\ i.samples \in Nat
    BY InputsAssumption DEF Source
  <1>2. chunk_samples(i) \in Nat
    BY <1>1 DEF chunk_samples
  <1> DEFINE wanted == chunk_samples(i) * i.width
             received == IF i.bytes - from < wanted THEN i.bytes - from ELSE wanted
             frame == i.width * i.channels
             whole_frames == (received \div frame) * frame
             count == whole_frames \div i.width
             buffered == IF i.bytes - from < chunk_samples(i) THEN i.bytes - from
                         ELSE chunk_samples(i)
             pcm_more == received = wanted
             buffer_more == from + buffered < i.bytes
  <1>3. wanted \in Nat /\ frame \in Nat \ {0}
    BY <1>1, <1>2
  <1>4. received \in 0..(i.bytes - from) /\ buffered \in 0..(i.bytes - from)
    <2> HIDE DEF wanted
    <2> QED BY <1>1, <1>2, <1>3
  <1>5. \A a \in Nat, d \in Nat \ {0} : a \div d \in Nat
    OBVIOUS
  <1>6. received \in Nat /\ buffered \in Nat
    BY <1>1, <1>4
  <1>7. received \div frame \in Nat
    <2> HIDE DEF received, frame
    <2> QED BY <1>3, <1>5, <1>6
  <1>8. whole_frames \in Nat
    <2> DEFINE k == received \div frame
    <2> HIDE DEF k, frame
    <2>1. k \in Nat
      BY <1>7 DEF k
    <2>2. k * frame \in Nat
      BY <1>3, <2>1
    <2> QED BY <2>2 DEF k
  <1>9. count \in Nat /\ from \div i.width \in Nat
    <2> HIDE DEF whole_frames
    <2> QED BY <1>1, <1>5, <1>8
  <1>10. ReadPcm(i, from) = [samples |-> After(from \div i.width, count),
                             bytes |-> received, more |-> pcm_more]
    BY DEF ReadPcm
  <1>11. ReadBuffer(i, from) = [samples |-> After(from, buffered),
                                bytes |-> buffered, more |-> buffer_more]
    BY DEF ReadBuffer
  <1> DEFINE first == from \div i.width
  <1> HIDE DEF received, count, wanted, buffered, first
  <1>13. ReadPcm(i, from).samples = After(first, count)
    BY <1>10 DEF first
  <1>14. first \in Nat /\ count \in Nat
    BY <1>9 DEF first
  <1>15. \E n \in Nat : /\ ReadPcm(i, from).samples \in [1..n -> Int]
                        /\ Len(ReadPcm(i, from).samples) = n
    BY <1>13, <1>14, AfterIs
  <1>16. \E n \in Nat : /\ ReadBuffer(i, from).samples \in [1..n -> Int]
                        /\ Len(ReadBuffer(i, from).samples) = n
    BY <1>6, <1>11, AfterIs
  <1>17. pcm_more \in BOOLEAN /\ buffer_more \in BOOLEAN
    OBVIOUS
  <1> HIDE DEF pcm_more, buffer_more
  <1>18. ReadPcm(i, from).more \in BOOLEAN /\ ReadBuffer(i, from).more \in BOOLEAN
    BY <1>10, <1>11, <1>17
  <1>19. ReadPcm(i, from).bytes = received /\ ReadBuffer(i, from).bytes = buffered
    BY <1>10, <1>11
  <1> QED BY <1>4, <1>15, <1>16, <1>18, <1>19

\* The run keeps its types.
LEMMA StreamTypes ==
  ASSUME StreamTyped,
         (\E i \in Inputs : Begin(i)) \/ RunStep \/ SessionThrows \/ Delivered \/ SinkThrows
  PROVE  StreamTyped'
  <1>a. \A i \in Inputs : i.bytes \in Nat /\ i # NoInput
    BY InputsAssumption DEF Source
  <1>c. MaxEvents \in Nat
    BY InputsAssumption
  <1>b. ASSUME NEW how \in {"done", "failed"}, Over(how) PROVE StreamTyped'
    <2>1. block' \in [1..0 -> Int] /\ Len(block') = 0
      BY <1>b DEF Over
    <2>2. StreamTypeOK'
      <3>1. sink' \in BOOLEAN /\ more' \in BOOLEAN /\ event' \in BOOLEAN
        BY <1>b DEF Over
      <3>2. {at', start'} \subseteq Nat /\ emitted' \in 0..MaxEvents
        BY <1>b, <1>c DEF Over
      <3>3. input' = NoInput /\ phase' \in Phases
        BY <1>b DEF Over, Phases
      <3> QED BY <3>1, <3>2, <3>3 DEF StreamTypeOK
    <2>3. phase' \notin Running /\ at' = 0
      BY <1>b DEF Over, Running
    <2> QED BY <2>1, <2>2, <2>3 DEF StreamTyped
  <1>1. ASSUME NEW i \in Inputs, Begin(i) PROVE StreamTyped'
    BY <1>1, <1>a DEF Begin, StreamTyped, StreamTypeOK, Running, Phases
  <1>2. CASE StartStream
    <2>1. CASE Over("failed")
      BY <1>b, <2>1
    <2>2. CASE /\ phase = "starting" /\ phase' \in {"reading", "pulling"}
               /\ UNCHANGED <<input, sink, at, block, more, start, event, emitted>>
      BY <2>2 DEF StreamTyped, StreamTypeOK, Running, Phases
    <2> QED BY <1>2, <2>1, <2>2 DEF StartStream
  <1>3. CASE Read
    <2>1. CASE Throw
      BY <1>b, <2>1 DEF Throw
    <2>2. CASE ~Throw
      <3> DEFINE r == IF input.from = "pcm" THEN ReadPcm(input, at) ELSE ReadBuffer(input, at)
      <3>1. /\ block' = r.samples /\ at' = at + r.bytes /\ more' = r.more
            /\ phase = "reading" /\ phase' = "processing"
            /\ UNCHANGED <<input, sink, start, heard, event, emitted>>
        BY <1>3, <2>2 DEF Read
      <3>2. input \in Inputs /\ at \in Nat /\ at <= input.bytes /\ input.bytes \in Nat
        BY <1>a, <3>1 DEF StreamTyped, StreamTypeOK, Running, Phases
      <3>3. /\ r.bytes \in 0..(input.bytes - at) /\ r.more \in BOOLEAN
            /\ \E n \in Nat : r.samples \in [1..n -> Int] /\ Len(r.samples) = n
        BY <3>2, Reads
      <3> HIDE DEF r
      <3>4. at' \in Nat /\ at' <= input.bytes
        BY <3>1, <3>2, <3>3
      <3> QED BY <3>1, <3>2, <3>3, <3>4 DEF StreamTyped, StreamTypeOK, Running, Phases
    <2> QED BY <2>1, <2>2
  <1>d. ASSUME MayEmit PROVE event' \in BOOLEAN /\ emitted' \in 0..MaxEvents
    <2>1. event \in BOOLEAN /\ emitted \in 0..MaxEvents
      BY DEF StreamTyped, StreamTypeOK
    <2>2. event' \in BOOLEAN
      BY <1>d, <2>1 DEF MayEmit
    <2>3. emitted' \in 0..MaxEvents
      BY <1>c, <1>d, <2>1 DEF MayEmit
    <2> QED BY <2>2, <2>3
  <1>4. CASE ProcessChunk
    <2>1. CASE Throw
      BY <1>b, <2>1 DEF Throw
    <2>2. CASE ~Throw
      <3>1. /\ phase = "processing" /\ phase' \in {"reading", "pulling"} /\ block' = <<>>
            /\ UNCHANGED <<input, sink, at, more>>
            /\ \/ UNCHANGED <<start, event, emitted>>
               \/ start' = start + Len(block) /\ MayEmit
        BY <1>4, <2>2 DEF ProcessChunk
      <3>2. start' \in Nat
        BY <3>1 DEF StreamTyped, StreamTypeOK
      <3>3. event' \in BOOLEAN /\ emitted' \in 0..MaxEvents
        BY <1>d, <3>1 DEF StreamTyped, StreamTypeOK
      <3>4. block' \in [1..0 -> Int] /\ Len(block') = 0
        BY <3>1
      <3> QED BY <3>1, <3>2, <3>3, <3>4 DEF StreamTyped, StreamTypeOK, Running, Phases
    <2> QED BY <2>1, <2>2
  <1>5. CASE Pull
    <2>1. /\ phase = "pulling" /\ phase' \in {"pulling", "finishing"}
          /\ MayEmit \/ UNCHANGED <<event, emitted>>
          /\ UNCHANGED <<input, sink, at, block, more, start>>
      BY <1>5 DEF Pull
    <2>2. event' \in BOOLEAN /\ emitted' \in 0..MaxEvents
      BY <1>d, <2>1 DEF StreamTyped, StreamTypeOK
    <2> QED BY <2>1, <2>2 DEF StreamTyped, StreamTypeOK, Running, Phases
  <1>6. CASE Finish
    <2>1. CASE Over("done")
      BY <1>b, <2>1
    <2>2. CASE MayEmit /\ UNCHANGED <<input, phase, sink, at, block, more, start>>
      BY <1>d, <2>2 DEF StreamTyped, StreamTypeOK
    <2> QED BY <1>6, <2>1, <2>2 DEF Finish
  <1>7. CASE SessionThrows \/ SinkThrows
    BY <1>b, <1>7 DEF SessionThrows, SinkThrows, Throw
  <1>8. CASE Delivered
    BY <1>8 DEF Delivered, StreamTyped, StreamTypeOK
  <1> QED BY <1>1, <1>2, <1>3, <1>4, <1>5, <1>6, <1>7, <1>8 DEF RunStep

\* Every step keeps the types.
LEMMA TypesStep ==
  ASSUME StreamTyped, RestTypes, [Next]_vars
  PROVE  StreamTyped' /\ RestTypes'
  <1>a. UNCHANGED streamVars => StreamTyped'
    BY DEF streamVars, StreamTyped, StreamTypeOK
  <1>1. ASSUME NEW c \in Conns, NEW piece, NEW from, NEW to, NEW fail,
               Write(c, piece, from, to, fail)
        PROVE  StreamTyped' /\ RestTypes'
    BY <1>a, <1>1 DEF Write, RestTypes, turnVars
  <1>2. ASSUME NEW c \in Conns,
               \/ Dispatch(c) \/ SendHead(c) \/ Conclude(c) \/ WriteLast(c) \/ Catch(c)
               \/ WriteEnd(c) \/ AnswerError(c)
        PROVE  StreamTyped' /\ RestTypes'
    <2>1. CASE UNCHANGED <<streamVars, turnVars, kind, wrote, whole>>
      BY <1>a, <2>1 DEF RestTypes, turnVars
    <2> QED BY <1>1, <1>2, <2>1 DEF Dispatch, SendHead, Conclude, WriteLast, Catch, WriteEnd,
                                    AnswerError
  <1>3. ASSUME NEW c \in Conns, AskTurn(c) \/ Granted(c) \/ Refused(c) \/ RunEnds(c) \/ Depart(c)
        PROVE  StreamTyped' /\ RestTypes'
    <2>1. UNCHANGED streamVars
      BY <1>3 DEF AskTurn, Granted, Refused, RunEnds, Depart
    <2>2. RestTypes'
      BY <1>3 DEF AskTurn, Granted, Refused, RunEnds, Depart, RestTypes, connVars,
                  Turn!Ask, Turn!Grant, Turn!Refuse, Turn!Release, Turn!Depart
    <2> QED BY <1>a, <2>1, <2>2
  <1>4. ASSUME NEW c \in Conns, Prepare(c) PROVE StreamTyped' /\ RestTypes'
    <2>1. StreamTyped'
      BY <1>4, <1>a, StreamTypes DEF Prepare, InputsOf
    <2>2. RestTypes'
      BY <1>4 DEF Prepare, RestTypes, turnVars, Turn!Release
    <2> QED BY <2>1, <2>2
  <1>5. ASSUME NEW c \in Conns, Run(c) PROVE StreamTyped' /\ RestTypes'
    <2>1. StreamTyped'
      BY <1>5, StreamTypes DEF Run
    <2>2. (phase' = "done" /\ (input.audio => HeardAll)) \in BOOLEAN
      OBVIOUS
    <2>3. whole' \in [Conns -> BOOLEAN]
      BY <1>5, <2>2, Zenon DEF Run, RestTypes
    <2>4. RestTypes'
      BY <1>5, <2>3 DEF Run, RestTypes, turnVars
    <2> QED BY <2>1, <2>4
  <1>6. ASSUME NEW c \in Conns, Deliver(c) PROVE StreamTyped' /\ RestTypes'
    <2>1. StreamTyped'
      BY <1>6, StreamTypes DEF Deliver
    <2>2. RestTypes'
      BY <1>6 DEF Deliver, RestTypes, turnVars
    <2> QED BY <2>1, <2>2
  <1>7. ASSUME NEW c \in Conns, ClientMoves(c) PROVE StreamTyped' /\ RestTypes'
    BY <1>7, <1>a DEF ClientMoves, RestTypes, turnVars
  <1>8. CASE UNCHANGED vars
    BY <1>8, <1>a DEF vars, connVars, turnVars, RestTypes
  <1> QED BY <1>2, <1>3, <1>4, <1>5, <1>6, <1>7, <1>8 DEF Next, Thread

\* The invariants of the turn and of the types hold in every reachable state.
THEOREM Typed == Spec => [](IInv /\ StreamTyped /\ RestTypes)
  <1>1. ASSUME Init PROVE StreamTyped /\ RestTypes
    <2>1. StreamTyped
      <3>1. block \in [1..0 -> Int] /\ Len(block) = 0
        BY <1>1 DEF Init, StreamInit
      <3>2. MaxEvents \in Nat
        BY InputsAssumption
      <3>3. StreamTypeOK
        <4>1. sink \in BOOLEAN /\ more \in BOOLEAN /\ event \in BOOLEAN
          BY <1>1 DEF Init, StreamInit
        <4>2. {at, start} \subseteq Nat /\ emitted \in 0..MaxEvents
          BY <1>1, <3>2 DEF Init, StreamInit
        <4>3. input = NoInput /\ phase \in Phases
          BY <1>1 DEF Init, StreamInit, Phases
        <4> QED BY <4>1, <4>2, <4>3 DEF StreamTypeOK
      <3> QED BY <1>1, <3>1, <3>3 DEF Init, StreamInit, StreamTyped, Running
    <2>2. RestTypes
      BY <1>1 DEF Init, Turn!Init, RestTypes
    <2> QED BY <2>1, <2>2
  <1>2. StreamTyped /\ RestTypes /\ [Next]_vars => StreamTyped' /\ RestTypes'
    BY TypesStep
  <1> QED BY InitInv, Step, <1>1, <1>2, PTL DEF Spec

\* Every variable of the run, the turn and the connections keeps its type.
THEOREM TypeCorrect == Spec => []TypeOK
  <1>1. IInv /\ StreamTyped /\ RestTypes => TypeOK
    BY DEF IInv, ConnTypes, StreamTyped, RestTypes, TypeOK, Turn!TypeOK
  <1> QED BY Typed, <1>1, PTL

-----------------------------------------------------------------------------
(* What a session hears.                                                    *)

\* A number is its quotient times the divisor, and its remainder.
LEMMA Division ==
  ASSUME NEW n \in Nat \ {0}, NEW a \in Nat
  PROVE  /\ a = n * (a \div n) + (a % n)
         /\ a \div n \in Nat /\ a % n \in 0..(n - 1)
  OBVIOUS

\* Multiples of n less than n apart are the same.
LEMMA Multiples ==
  ASSUME NEW n \in Nat \ {0}, NEW k \in Int, NEW j \in Int,
         n * k - n * j < n, n * j - n * k < n
  PROVE  k = j
  <1>1. CASE k >= j + 1
    <2>1. n * (k - j) >= n * 1
      BY <1>1
    <2>2. n * (k - j) = n * k - n * j
      OBVIOUS
    <2> QED BY <2>1, <2>2
  <1>2. CASE j >= k + 1
    <2>1. n * (j - k) >= n * 1
      BY <1>2
    <2>2. n * (j - k) = n * j - n * k
      OBVIOUS
    <2> QED BY <2>1, <2>2
  <1> QED BY <1>1, <1>2

\* Dividing what is a number of times the divisor and a rest.
LEMMA Quotient ==
  ASSUME NEW n \in Nat \ {0}, NEW k \in Nat, NEW r \in Nat
  PROVE  (n * k + r) \div n = k + (r \div n)
  <1> DEFINE a == n * k + r
             x == a \div n
             y == r \div n
             s == a % n
             t == r % n
  <1>1. a \in Nat
    <2>1. n * k \in Nat
      OBVIOUS
    <2> QED BY <2>1
  <1>2. a = n * x + s /\ x \in Nat /\ s \in 0..(n - 1)
    <2> HIDE DEF a
    <2> QED BY <1>1, Division
  <1>3. r = n * y + t /\ y \in Nat /\ t \in 0..(n - 1)
    BY Division
  <1> HIDE DEF x, y, s, t
  <1>4. n * (k + y) = n * k + n * y
    BY <1>3
  <1>5. n * x - n * (k + y) = t - s
    <2> DEFINE p == n * x
               q == n * y
               m == n * k
    <2>1. p \in Int /\ q \in Int /\ m \in Int
      BY <1>2, <1>3
    <2>2. m + r = p + s /\ r = q + t
      BY <1>2, <1>3
    <2>3. n * (k + y) = m + q
      BY <1>4
    <2> HIDE DEF p, q, m
    <2>4. p - (m + q) = t - s
      BY <1>2, <1>3, <2>1, <2>2
    <2> QED BY <2>3, <2>4 DEF p
  <1>6. x = k + y
    <2> DEFINE p == n * x
               q == n * (k + y)
    <2>1. p \in Int /\ q \in Int /\ p - q = t - s
      BY <1>2, <1>3, <1>5
    <2> HIDE DEF p, q
    <2>2. p - q < n /\ q - p < n
      BY <1>2, <1>3, <2>1
    <2>3. k + y \in Int /\ x \in Int
      BY <1>2, <1>3
    <2> QED BY <2>2, <2>3, Multiples DEF p, q
  <1> QED BY <1>6 DEF x, y

\* A product is no less than another only if its factor is not.
LEMMA Factors ==
  ASSUME NEW n \in Nat \ {0}, NEW k \in Int, NEW j \in Int, n * k < n * j + n
  PROVE  k <= j
  <1>1. CASE k >= j + 1
    <2>1. n * (k - j) >= n * 1
      BY <1>1
    <2>2. n * (k - j) = n * k - n * j
      OBVIOUS
    <2> QED BY <2>1, <2>2
  <1> QED BY <1>1

\* What a full block gives is its whole frames, and all of them when it cuts none.
LEMMA FullParts ==
  ASSUME NEW i \in Inputs
  PROVE  /\ chunk_samples(i) \in Nat /\ FullPart(i) \in Nat
         /\ FullPart(i) = (chunk_samples(i) \div i.channels) * i.channels
         /\ chunk_samples(i) \div i.channels \in Nat
         /\ chunk_samples(i) % i.channels = 0 => FullPart(i) = chunk_samples(i)
         /\ chunk_samples(i) < FullPart(i) + i.channels
  <1> DEFINE ch == i.channels
             cs == chunk_samples(i)
             m == cs \div ch
  <1>1. /\ ch \in Nat \ {0} /\ i.samples \in Nat
        /\ i.frames = NoFrames \/ i.frames \in Nat
    BY InputsAssumption DEF Source
  <1>2. cs \in Nat
    BY <1>1 DEF chunk_samples
  <1>3. FullPart(i) = cs - (cs % ch)
    BY DEF FullPart
  <1> HIDE DEF ch, cs
  <1>4. cs = ch * m + (cs % ch) /\ m \in Nat /\ cs % ch \in 0..(ch - 1)
    BY <1>1, <1>2, Division
  <1> HIDE DEF m
  <1>5. ch * m = m * ch /\ m * ch \in Nat
    BY <1>1, <1>4
  <1>6. /\ cs \in Nat /\ FullPart(i) \in Nat /\ FullPart(i) = m * ch /\ m \in Nat
        /\ cs % ch = 0 => FullPart(i) = cs
        /\ cs < FullPart(i) + ch
    <2> DEFINE y == cs % ch
               x == m * ch
    <2>1. /\ FullPart(i) = cs - y /\ y \in Nat /\ y < ch /\ cs = x + y /\ x \in Nat
          /\ cs % ch = 0 <=> y = 0
      BY <1>1, <1>3, <1>4, <1>5
    <2> HIDE DEF x, y
    <2>2. FullPart(i) = x /\ x \in Nat /\ (cs % ch = 0 => x = cs) /\ cs < x + ch
      BY <1>1, <1>2, <2>1
    <2> QED BY <1>2, <1>4, <2>2 DEF x
  <1> QED BY <1>6 DEF ch, cs, m

\* Whole frames that fit in a block fit in its whole frames.
LEMMA WithinFullPart ==
  ASSUME NEW i \in Inputs, NEW n \in Nat, n <= chunk_samples(i), n % i.channels = 0
  PROVE  n <= FullPart(i)
  <1> DEFINE ch == i.channels
             m == chunk_samples(i) \div ch
             d == n \div ch
  <1>1. ch \in Nat \ {0} /\ n % ch = 0
    BY InputsAssumption DEF Source
  <1>2. m \in Nat /\ FullPart(i) = m * ch /\ n < m * ch + ch
    <2>1. /\ FullPart(i) \in Nat /\ chunk_samples(i) \in Nat /\ m \in Nat
          /\ FullPart(i) = m * ch /\ chunk_samples(i) < FullPart(i) + ch
      BY FullParts
    <2> HIDE DEF m, ch
    <2>2. n < FullPart(i) + ch
      BY <1>1, <2>1
    <2> QED BY <2>1, <2>2
  <1> HIDE DEF ch, m
  <1>3. n = ch * d + 0 /\ d \in Nat
    BY <1>1, Division
  <1> HIDE DEF d
  <1>4. n = ch * d /\ m * ch = ch * m /\ ch * d \in Nat /\ ch * m \in Nat
    BY <1>1, <1>2, <1>3
  <1>5. d <= m
    BY <1>1, <1>2, <1>3, <1>4, Factors
  <1>6. ch * d <= ch * m
    <2>1. ch * (m - d) >= 0 /\ ch * (m - d) = ch * m - ch * d
      BY <1>1, <1>2, <1>3, <1>5
    <2> QED BY <1>4, <2>1
  <1> QED BY <1>2, <1>4, <1>6

\* The source has given j full blocks, with `first` samples of whole frames: what a read
\* gives then is its next block.
NextBlock(i, j, from, first, r) ==
  /\ Len(r.samples) \in Nat /\ Len(r.samples) <= chunk_samples(i)
  /\ r.samples = After(j * chunk_samples(i), Len(r.samples))
  /\ r.more => /\ from + r.bytes = ((j + 1) * chunk_samples(i)) * i.width
               /\ Len(r.samples) % i.channels = 0 => Len(r.samples) = FullPart(i)
               /\ i.from = "buffer" => from + r.bytes = first + Len(r.samples)
  /\ ~r.more => i.end = "eof" /\ first + Len(r.samples) = InBlocks(i)

\* Raw audio.
LEMMA PcmNext ==
  ASSUME NEW i \in Inputs, NEW j \in Nat, NEW from \in Nat, i.from = "pcm",
         from = (j * chunk_samples(i)) * i.width,
         from <= i.bytes, ~ReadFails(i, from)
  PROVE  NextBlock(i, j, from, j * FullPart(i), ReadPcm(i, from))
  <1> DEFINE ch == i.channels
             w == i.width
             cs == chunk_samples(i)
             b == i.bytes
             part == FullPart(i)
             wanted == cs * w
             received == IF b - from < wanted THEN b - from ELSE wanted
             frame == w * ch
             d == received \div frame
             count == (d * frame) \div w
             first == j * cs
  <1>1. /\ ch \in Nat \ {0} /\ w \in Nat \ {0} /\ b \in Nat /\ i.end \in {"eof", "error"}
    BY InputsAssumption DEF Source
  <1>2. /\ cs \in Nat /\ part \in Nat /\ part = (cs \div ch) * ch /\ cs \div ch \in Nat
    BY FullParts
  <1>3. ReadPcm(i, from) = [samples |-> After(from \div w, count),
                            bytes |-> received, more |-> received = wanted]
    BY DEF ReadPcm
  <1>4. InBlocks(i) = (b \div wanted) * part + ((b % wanted) \div frame) * ch
    BY DEF InBlocks
  <1>5. ~(i.end = "error" /\ b - from < wanted)
    BY DEF ReadFails
  <1>6. from = first * w /\ from <= b
    OBVIOUS
  <1> HIDE DEF ch, w, cs, b, part
  <1>7. wanted \in Nat /\ frame \in Nat \ {0} /\ first \in Nat
    BY <1>1, <1>2
  <1>8. received \in Nat /\ received <= wanted
    <2> HIDE DEF wanted
    <2> QED BY <1>1, <1>6, <1>7
  <1>9. d \in Nat /\ frame * d <= received
    <2> HIDE DEF received, frame
    <2>1. /\ received = frame * d + (received % frame) /\ d \in Nat
          /\ received % frame \in 0..(frame - 1)
      BY <1>7, <1>8, Division
    <2> DEFINE p == frame * d
               y == received % frame
    <2>2. p \in Nat /\ received = p + y /\ y \in Nat
      BY <1>7, <2>1
    <2> HIDE DEF p, y, d
    <2>3. p <= received
      BY <2>2
    <2> QED BY <2>1, <2>3 DEF p
  <1>10. count = d * ch
    <2> HIDE DEF d
    <2>1. d * ch \in Nat /\ 0 \in Nat /\ 0 \div w = 0
      BY <1>1, <1>9
    <2>2. d * frame = w * (d * ch) + 0
      BY <1>1, <1>9
    <2>3. (w * (d * ch) + 0) \div w = d * ch + (0 \div w)
      BY <1>1, <2>1, Quotient, Zenon
    <2> QED BY <2>1, <2>2, <2>3
  <1>11. from \div w = first
    <2> HIDE DEF first
    <2>1. from = w * first + 0 /\ 0 \in Nat /\ 0 \div w = 0
      BY <1>1, <1>6, <1>7
    <2>2. (w * first + 0) \div w = first + (0 \div w)
      BY <1>1, <1>7, <2>1, Quotient, Zenon
    <2> QED BY <1>7, <2>1, <2>2
  <1>12. count \in Nat /\ count <= cs
    <2>1. w * (d * ch) = frame * d
      <3> HIDE DEF d
      <3> QED BY <1>1, <1>9
    <2> HIDE DEF d
    <2>2. d * ch \in Nat
      BY <1>1, <1>9
    <2> DEFINE x == d * ch
    <2>3. x \in Nat /\ w * x <= w * cs
      <3>1. wanted = w * cs
        BY <1>1, <1>2
      <3> HIDE DEF received, wanted, frame, x
      <3>2. w * x = frame * d
        BY <2>1 DEF x
      <3>3. w * x <= wanted /\ x \in Nat
        BY <1>7, <1>8, <1>9, <2>2, <3>2 DEF x
      <3> QED BY <3>1, <3>3
    <2> HIDE DEF x
    <2>4. w * x < w * cs + w
      <3> DEFINE p == w * x
                 q == w * cs
      <3>1. p \in Nat /\ q \in Nat /\ p <= q
        BY <1>1, <1>2, <2>3
      <3> HIDE DEF p, q
      <3>2. p < q + w
        BY <1>1, <3>1
      <3> QED BY <3>2 DEF p, q
    <2>5. x <= cs
      BY <1>1, <1>2, <2>3, <2>4, Factors
    <2> HIDE DEF count
    <2> QED BY <1>10, <2>3, <2>5 DEF x
  <1> DEFINE r == ReadPcm(i, from)
  <1>13. r.samples = After(first, count) /\ r.bytes = received /\ r.more = (received = wanted)
    <2> DEFINE done == received = wanted
    <2>1. r = [samples |-> After(first, count), bytes |-> received, more |-> done]
      BY <1>3, <1>11
    <2> HIDE DEF done, count, first, received, r
    <2>2. r.samples = After(first, count) /\ r.bytes = received /\ r.more = done
      BY <2>1
    <2> QED BY <2>2 DEF done
  <1>14. Len(r.samples) = count
    <2> HIDE DEF count, first, r
    <2> QED BY <1>7, <1>12, <1>13, AfterIs
  <1>15. ASSUME received = wanted
         PROVE  from + received = ((j + 1) * cs) * w /\ count = part
    <2>1. from + received = ((j + 1) * cs) * w
      <3>1. (j + 1) * cs = first + cs
        BY <1>2
      <3>2. (first + cs) * w = first * w + cs * w
        BY <1>1, <1>2, <1>7
      <3> QED BY <1>6, <1>15, <3>1, <3>2
    <2>2. d = cs \div ch
      <3> DEFINE m == cs \div ch
                 y == cs % ch
      <3>1. cs = ch * m + y /\ m \in Nat /\ y \in 0..(ch - 1)
        BY <1>1, <1>2, Division
      <3> HIDE DEF m, y
      <3>2. wanted = frame * m + w * y /\ w * y \in Nat
        BY <1>1, <3>1
      <3>3. w * y < frame
        <4>1. w * (ch - y) >= w * 1
          BY <1>1, <3>1
        <4>2. w * (ch - y) = w * ch - w * y
          BY <1>1, <3>1
        <4> QED BY <1>1, <3>2, <4>1, <4>2
      <3> DEFINE rest == w * y
      <3>4. wanted = frame * m + rest /\ rest \in Nat /\ rest < frame
        BY <3>2, <3>3
      <3> HIDE DEF rest, frame, wanted, received
      <3>5. rest \div frame = 0
        BY <1>7, <3>4
      <3>6. (frame * m + rest) \div frame = m + (rest \div frame)
        BY <1>7, <3>1, <3>4, Quotient
      <3> QED BY <1>15, <3>1, <3>4, <3>5, <3>6 DEF m
    <2> HIDE DEF d, count
    <2> QED BY <1>2, <1>10, <2>1, <2>2
  <1>16. ASSUME received # wanted
         PROVE  i.end = "eof" /\ j * part + count = InBlocks(i)
    <2>1. received = b - from /\ b - from < wanted
      BY <1>16
    <2>2. i.end = "eof"
      BY <1>1, <1>5, <2>1
    <2>3. from = wanted * j
      BY <1>1, <1>2, <1>6
    <2>4. b = wanted * j + received /\ received < wanted /\ wanted \in Nat \ {0}
      <3> HIDE DEF wanted
      <3>1. received < wanted /\ wanted \in Nat \ {0}
        BY <1>1, <1>7, <1>8, <2>1
      <3> DEFINE p == wanted * j
      <3>2. p \in Int /\ from = p
        BY <1>7, <2>3
      <3> HIDE DEF p, received
      <3>3. b = p + received
        BY <1>1, <2>1, <3>2
      <3> QED BY <3>1, <3>3 DEF p
    <2>5. b \div wanted = j /\ b % wanted = received
      <3> HIDE DEF wanted, received
      <3>1. received \div wanted = 0
        BY <1>8, <2>4
      <3>a. wanted \in Nat \ {0} /\ b \in Nat
        BY <1>1, <2>4
      <3>b. (wanted * j + received) \div wanted = j + (received \div wanted)
        BY <1>8, <3>a, Quotient
      <3>2. b \div wanted = j
        BY <2>4, <3>1, <3>b
      <3>3. b = wanted * (b \div wanted) + (b % wanted) /\ b % wanted \in Nat
        BY <3>a, Division
      <3>4. b = wanted * j + (b % wanted)
        BY <3>2, <3>3
      <3> DEFINE p == wanted * j
                 s == b % wanted
      <3>5. p \in Int /\ b = p + s /\ b = p + received /\ s \in Nat
        BY <2>4, <3>3, <3>4
      <3> HIDE DEF p, s
      <3>6. s = received
        BY <1>8, <3>5
      <3> QED BY <3>2, <3>6 DEF s
    <2> HIDE DEF wanted, received, frame, count
    <2>6. InBlocks(i) = j * part + d * ch
      BY <1>4, <2>5
    <2> QED BY <1>10, <2>2, <2>6
  <1>17. first = j * chunk_samples(i) /\ w = i.width /\ cs = chunk_samples(i)
         /\ part = FullPart(i) /\ ch = i.channels
    BY DEF cs, w, part, ch
  <1> HIDE DEF r, count, first, received, wanted
  <1>18. NextBlock(i, j, from, j * part, r)
    BY <1>12, <1>13, <1>14, <1>15, <1>16, <1>17 DEF NextBlock
  <1> QED BY <1>17, <1>18 DEF r

\* A buffer.
LEMMA BufferNext ==
  ASSUME NEW i \in Inputs, NEW j \in Nat, NEW from \in Nat, i.from = "buffer",
         from = (j * chunk_samples(i)) * i.width, from <= i.bytes
  PROVE  NextBlock(i, j, from, from, ReadBuffer(i, from))
  <1> DEFINE b == i.bytes
             cs == chunk_samples(i)
             count == IF b - from < cs THEN b - from ELSE cs
             r == ReadBuffer(i, from)
  <1>1. i.width = 1 /\ b \in Nat /\ i.end = "eof"
    BY InputsAssumption DEF Source
  <1>2. cs \in Nat /\ (cs % i.channels = 0 => FullPart(i) = cs)
    BY FullParts
  <1>3. ReadBuffer(i, from) = [samples |-> After(from, count),
                               bytes |-> count, more |-> from + count < b]
    BY DEF ReadBuffer
  <1>4. InBlocks(i) = b
    BY DEF InBlocks
  <1>5. from = j * cs /\ from <= b
    BY <1>1, <1>2
  <1> HIDE DEF b, cs
  <1>6. /\ count \in Nat /\ from + count <= b /\ count <= cs
        /\ from + count < b => count = cs
    BY <1>1, <1>2, <1>5
  <1> HIDE DEF count
  <1>7. r.samples = After(from, count) /\ r.bytes = count /\ r.more = (from + count < b)
    BY <1>3
  <1> HIDE DEF r
  <1>8. Len(r.samples) = count
    BY <1>6, <1>7, AfterIs
  <1>9. r.more => from + r.bytes = ((j + 1) * cs) * i.width
    <2>1. (j + 1) * cs = j * cs + cs /\ ((j + 1) * cs) * 1 = (j + 1) * cs
      BY <1>2
    <2> QED BY <1>1, <1>5, <1>6, <1>7, <2>1
  <1>10. r.more => (Len(r.samples) % i.channels = 0 => Len(r.samples) = FullPart(i))
    BY <1>2, <1>6, <1>7, <1>8
  <1>11. ~r.more => from + Len(r.samples) = InBlocks(i)
    <2>1. ~r.more => ~(from + count < b)
      BY <1>7, Zenon
    <2> QED BY <1>1, <1>4, <1>6, <1>8, <2>1
  <1>12. NextBlock(i, j, from, from, r)
    <2>1. r.samples = After(j * cs, Len(r.samples))
      BY <1>5, <1>7, <1>8
    <2>2. Len(r.samples) \in Nat /\ Len(r.samples) <= cs /\ r.bytes = Len(r.samples)
      BY <1>6, <1>7, <1>8
    <2> QED BY <1>1, <1>9, <1>10, <1>11, <2>1, <2>2 DEF NextBlock, cs
  <1> QED BY <1>12 DEF r

\* What was heard is the blocks of the source in their places, and `start` counts it.
Blocks ==
  \A k \in 1..Len(heard) :
    /\ heard[k].start = (k - 1) * FullPart(input)
    /\ heard[k].samples = After((k - 1) * chunk_samples(input), Len(heard[k].samples))
    /\ Len(heard[k].samples) % input.channels = 0

FullOnes(last) == \A k \in 1..last : Len(heard[k].samples) = FullPart(input)

Fed ==
  /\ Blocks
  /\ start = HeardUpTo(Len(heard))
  /\ \A k \in 1..Len(heard) : k < Len(heard) => Len(heard[k].samples) = FullPart(input)

\* The source has given j full blocks and the session has their whole frames, if there
\* are any.
Given(j) ==
  /\ input.from \in {"pcm", "buffer"}
  /\ FullOnes(Len(heard))
  /\ start = j * FullPart(input)
  /\ FullPart(input) # 0 => Len(heard) = j
  /\ FullPart(input) = 0 => heard = <<>>

AllGivenIsRead(j) ==
  /\ at = (j * chunk_samples(input)) * input.width
  /\ input.from = "buffer" => at = start

\* The block is what comes next; when there is no more, it is the rest of the source.
BlockIsNext(j) ==
  /\ Len(block) <= chunk_samples(input)
  /\ block = After(j * chunk_samples(input), Len(block))
  /\ more => /\ at = ((j + 1) * chunk_samples(input)) * input.width
             /\ Len(block) % input.channels = 0 => Len(block) = FullPart(input)
             /\ input.from = "buffer" => at = start + Len(block)
  /\ ~more => input.end = "eof" /\ start + Len(block) = InBlocks(input)

\* Each of these where it holds.
FedInv ==
  /\ heard \in Seq([start : Nat, samples : Seq(Int)])
  /\ phase \in {"none", "starting", "done", "failed"} => at = 0 /\ start = 0
  /\ phase \in {"reading", "processing", "pulling", "finishing"} => Fed
  /\ phase = "reading" => \E j \in Nat : Given(j) /\ AllGivenIsRead(j)
  /\ phase = "processing" => \E j \in Nat : Given(j) /\ BlockIsNext(j)
  /\ phase \in {"pulling", "finishing"} => (input.audio => HeardAll)

\* One more chunk, in its place.
LEMMA ChunkHeard ==
  ASSUME StreamTyped, input \in Inputs, heard \in Seq([start : Nat, samples : Seq(Int)]), Fed,
         NEW j \in Nat, Given(j), FullPart(input) # 0,
         start \in Nat, block \in Seq(Int), Len(block) % input.channels = 0,
         block = After(j * chunk_samples(input), Len(block)),
         heard' = Append(heard, [start |-> start, samples |-> block]),
         input' = input, start' = start + Len(block)
  PROVE  /\ heard' \in Seq([start : Nat, samples : Seq(Int)])
         /\ Len(heard') = j + 1
         /\ Fed'
         /\ Len(block) = FullPart(input) => FullOnes(j + 1)'
  <1> DEFINE c == [start |-> start, samples |-> block]
             part == FullPart(input)
             cs == chunk_samples(input)
             ch == input.channels
  <1>1. c \in [start : Nat, samples : Seq(Int)] /\ c.start = start /\ c.samples = block
    OBVIOUS
  <1>2. heard' = Append(heard, c)
    OBVIOUS
  <1>3. /\ Len(heard) = j /\ start = j * part
        /\ \A k \in 1..j : /\ heard[k].start = (k - 1) * part
                           /\ heard[k].samples = After((k - 1) * cs, Len(heard[k].samples))
                           /\ Len(heard[k].samples) % ch = 0
                           /\ Len(heard[k].samples) = part
    BY DEF Given, Fed, Blocks, FullOnes
  <1>4. /\ FullPart(input)' = part /\ chunk_samples(input)' = cs /\ input'.channels = ch
    BY DEF FullPart, chunk_samples
  <1>5. block = After(j * cs, Len(block)) /\ Len(block) % ch = 0
    OBVIOUS
  <1> HIDE DEF c, part, cs, ch
  <1>6. /\ heard' \in Seq([start : Nat, samples : Seq(Int)])
        /\ Len(heard') = j + 1 /\ heard'[j + 1] = c
        /\ \A k \in 1..j : heard'[k] = heard[k]
    BY <1>1, <1>2, <1>3
  <1>7. HeardUpTo(Len(heard))' = start'
    <2>1. j + 1 # 0
      OBVIOUS
    <2> QED BY <1>1, <1>6, <2>1 DEF HeardUpTo
  <1>8. ASSUME NEW k \in 1..(j + 1)
        PROVE  /\ heard'[k].start = (k - 1) * part
               /\ heard'[k].samples = After((k - 1) * cs, Len(heard'[k].samples))
               /\ Len(heard'[k].samples) % ch = 0
    <2>1. CASE k \in 1..j
      BY <1>3, <1>6, <2>1
    <2>2. CASE k = j + 1
      <3>1. k - 1 = j /\ heard'[k].start = start /\ heard'[k].samples = block
        BY <1>1, <1>6, <2>2
      <3> QED BY <1>3, <1>5, <3>1
    <2>3. k \in 1..j \/ k = j + 1
      OBVIOUS
    <2> QED BY <2>1, <2>2, <2>3, Zenon
  <1>a. ASSUME NEW k \in 1..(j + 1), k < j + 1 \/ Len(block) = part
        PROVE  Len(heard'[k].samples) = part
    <2>1. CASE k \in 1..j
      BY <1>3, <1>6, <2>1
    <2>2. CASE k = j + 1
      <3>1. heard'[k].samples = block /\ Len(block) = part
        BY <1>1, <1>6, <1>a, <2>2
      <3> QED BY <3>1
    <2>3. k \in 1..j \/ k = j + 1
      OBVIOUS
    <2> QED BY <2>1, <2>2, <2>3, Zenon
  <1>9. Blocks'
    BY <1>4, <1>6, <1>8 DEF Blocks
  <1>10. (\A k \in 1..Len(heard) : k < Len(heard) => Len(heard[k].samples) = FullPart(input))'
    BY <1>4, <1>6, <1>a
  <1>11. Len(block) = part => FullOnes(j + 1)'
    BY <1>4, <1>a DEF FullOnes
  <1>12. Fed'
    BY <1>7, <1>9, <1>10 DEF Fed
  <1> QED BY <1>6, <1>11, <1>12 DEF part

\* A session hears on what it heard, as long as nothing else is said of it.
LEMMA HeardStays ==
  ASSUME UNCHANGED <<heard, input, start>>
  PROVE  /\ Fed' <=> Fed
         /\ HeardAll' <=> HeardAll
         /\ \A j : Given(j)' <=> Given(j)
         /\ UNCHANGED at => \A j : AllGivenIsRead(j)' <=> AllGivenIsRead(j)
         /\ UNCHANGED <<at, block, more>> => \A j : BlockIsNext(j)' <=> BlockIsNext(j)
  <1> USE DEF FullPart, chunk_samples, InBlocks, HeardUpTo
  <1>1. (Fed' <=> Fed) /\ (HeardAll' <=> HeardAll)
    BY DEF Fed, Blocks, HeardAll
  <1>2. \A j : Given(j)' <=> Given(j)
    BY DEF Given, FullOnes
  <1>3. UNCHANGED at => \A j : AllGivenIsRead(j)' <=> AllGivenIsRead(j)
    BY DEF AllGivenIsRead
  <1>4. UNCHANGED <<at, block, more>> => \A j : BlockIsNext(j)' <=> BlockIsNext(j)
    BY DEF BlockIsNext
  <1> QED BY <1>1, <1>2, <1>3, <1>4

\* Steps that leave the run alone.
LEMMA FedStays ==
  ASSUME FedInv, UNCHANGED <<input, phase, at, block, more, start, heard>>
  PROVE  FedInv'
  <1>1. (Fed' <=> Fed) /\ (HeardAll' <=> HeardAll)
    BY HeardStays
  <1>2. ASSUME NEW j \in Nat
        PROVE  /\ Given(j)' <=> Given(j)
               /\ AllGivenIsRead(j)' <=> AllGivenIsRead(j)
               /\ BlockIsNext(j)' <=> BlockIsNext(j)
    BY HeardStays
  <1> QED BY <1>1, <1>2 DEF FedInv

\* A read gives the next block.
LEMMA FedRead ==
  ASSUME StreamTyped, FedInv, Read, phase' = "processing"
  PROVE  FedInv'
  <1>1. /\ phase = "reading" /\ ~ReadFails(input, at)
        /\ UNCHANGED <<input, start, heard>>
    BY DEF Read, Throw, Over
  <1> DEFINE r == IF input.from = "pcm" THEN ReadPcm(input, at) ELSE ReadBuffer(input, at)
  <1>2. block' = r.samples /\ at' = at + r.bytes /\ more' = r.more
    BY DEF Read, Throw, Over
  <1>3. /\ input \in Inputs /\ at \in Nat /\ at <= input.bytes
    <2>1. phase \in Running
      BY <1>1 DEF Running, Phases
    <2> QED BY <2>1, InputsAssumption DEF StreamTyped, StreamTypeOK
  <1>4. PICK j \in Nat : Given(j) /\ AllGivenIsRead(j)
    BY <1>1 DEF FedInv
  <1>5. /\ Fed /\ heard \in Seq([start : Nat, samples : Seq(Int)])
        /\ input.from \in {"pcm", "buffer"} /\ start = j * FullPart(input)
        /\ at = (j * chunk_samples(input)) * input.width
        /\ input.from = "buffer" => at = start
    BY <1>1, <1>4 DEF FedInv, Given, AllGivenIsRead
  <1>6. NextBlock(input, j, at, start, r)
    <2>1. CASE input.from = "pcm"
      <3>1. NextBlock(input, j, at, j * FullPart(input), ReadPcm(input, at))
        BY <1>1, <1>3, <1>5, <2>1, PcmNext
      <3> QED BY <1>5, <2>1, <3>1
    <2>2. CASE input.from = "buffer"
      <3>1. NextBlock(input, j, at, at, ReadBuffer(input, at))
        BY <1>3, <1>5, <2>2, BufferNext
      <3> QED BY <1>5, <2>2, <3>1
    <2> QED BY <1>5, <2>1, <2>2
  <1> HIDE DEF r
  <1>7. BlockIsNext(j)'
    <2>1. /\ chunk_samples(input)' = chunk_samples(input) /\ FullPart(input)' = FullPart(input)
          /\ InBlocks(input)' = InBlocks(input)
      BY <1>1 DEF FullPart, chunk_samples, InBlocks
    <2> QED BY <1>1, <1>2, <1>6, <2>1 DEF NextBlock, BlockIsNext
  <1>8. Fed' /\ Given(j)'
    BY <1>1, <1>4, <1>5, HeardStays
  <1> QED BY <1>1, <1>5, <1>7, <1>8 DEF FedInv

\* A chunk is heard in its place, and the last one completes the source.
LEMMA FedChunk ==
  ASSUME StreamTyped, FedInv, ProcessChunk, phase' \in {"reading", "pulling"}
  PROVE  FedInv'
  <1> DEFINE part == FullPart(input)
             n == Len(block)
  <1>1. /\ phase = "processing" /\ n % input.channels = 0
        /\ phase' = IF more THEN "reading" ELSE "pulling"
        /\ UNCHANGED <<input, at, more>>
        /\ IF block = <<>> THEN UNCHANGED <<heard, start>>
           ELSE /\ heard' = Append(heard, [start |-> start, samples |-> block])
                /\ start' = start + n
    BY DEF ProcessChunk, Throw, Over
  <1>2. input \in Inputs /\ start \in Nat /\ block \in Seq(Int) /\ more \in BOOLEAN
    <2>1. phase \in Running
      BY <1>1 DEF Running, Phases
    <2> QED BY <2>1 DEF StreamTyped, StreamTypeOK
  <1>3. PICK j \in Nat : Given(j) /\ BlockIsNext(j)
    BY <1>1 DEF FedInv
  <1>4. /\ Fed /\ heard \in Seq([start : Nat, samples : Seq(Int)])
        /\ n <= chunk_samples(input) /\ block = After(j * chunk_samples(input), n)
        /\ more => /\ at = ((j + 1) * chunk_samples(input)) * input.width
                   /\ n = part
                   /\ input.from = "buffer" => at = start + n
        /\ ~more => input.end = "eof" /\ start + n = InBlocks(input)
        /\ input.from \in {"pcm", "buffer"} /\ FullOnes(Len(heard)) /\ start = j * part
        /\ part # 0 => Len(heard) = j
        /\ part = 0 => heard = <<>>
    BY <1>1, <1>3 DEF FedInv, BlockIsNext, Given
  <1>5. part \in Nat /\ chunk_samples(input) \in Nat
    BY <1>2, FullParts
  <1>6. n \in Nat /\ n <= part
    <2>1. n \in Nat
      BY <1>2
    <2> QED BY <1>1, <1>2, <1>4, <2>1, WithinFullPart
  <1>7. /\ chunk_samples(input)' = chunk_samples(input) /\ FullPart(input)' = part
        /\ InBlocks(input)' = InBlocks(input)
    BY <1>1 DEF FullPart, chunk_samples, InBlocks
  <1>8. /\ heard' \in Seq([start : Nat, samples : Seq(Int)])
        /\ Fed' /\ start' = start + n
        /\ n = part => /\ FullOnes(Len(heard))'
                       /\ part # 0 => Len(heard') = j + 1
                       /\ part = 0 => heard' = <<>>
    <2>1. CASE block = <<>>
      <3>1. n = 0
        BY <2>1
      <3>2. UNCHANGED <<heard, start, input>>
        BY <1>1, <2>1
      <3>3. start' = start + n
        <4> HIDE DEF n
        <4> QED BY <1>2, <3>1, <3>2
      <3>4. n = part => part = 0 /\ heard' = <<>>
        <4> HIDE DEF n, part
        <4> QED BY <1>4, <3>1, <3>2
      <3>5. n = part => FullOnes(Len(heard))'
        BY <3>4 DEF FullOnes
      <3> HIDE DEF n, part
      <3> QED BY <1>4, <3>2, <3>3, <3>4, <3>5, HeardStays
    <2>2. CASE block # <<>>
      <3>1. n # 0
        BY <1>2, <2>2
      <3>2. part # 0
        <4> HIDE DEF n, part
        <4> QED BY <1>5, <1>6, <3>1
      <3>3. /\ heard' \in Seq([start : Nat, samples : Seq(Int)])
            /\ Len(heard') = j + 1 /\ Fed' /\ (n = part => FullOnes(j + 1)')
        BY <1>1, <1>2, <1>3, <1>4, <2>2, <3>2, ChunkHeard
      <3>4. n = part => FullOnes(Len(heard))'
        BY <3>3
      <3> HIDE DEF n, part
      <3> QED BY <1>1, <2>2, <3>2, <3>3, <3>4
    <2> QED BY <2>1, <2>2
  <1> HIDE DEF n, part
  <1>9. CASE more
    <2>1. start' = (j + 1) * part
      <3>1. (j + 1) * part = j * part + part
        BY <1>5
      <3> QED BY <1>4, <1>8, <1>9, <3>1
    <2>2. Given(j + 1)'
      <3>1. /\ FullOnes(Len(heard))' /\ (part # 0 => Len(heard') = j + 1)
            /\ (part = 0 => heard' = <<>>)
        BY <1>4, <1>8, <1>9
      <3> QED BY <1>1, <1>4, <1>7, <2>1, <3>1 DEF Given
    <2>3. AllGivenIsRead(j + 1)'
      BY <1>1, <1>4, <1>7, <1>8, <1>9 DEF AllGivenIsRead
    <2>4. phase' = "reading" /\ j + 1 \in Nat
      BY <1>1, <1>9
    <2> QED BY <1>8, <2>2, <2>3, <2>4 DEF FedInv
  <1>10. CASE ~more
    <2>1. phase' = "pulling" /\ HeardAll'
      BY <1>1, <1>4, <1>7, <1>8, <1>10 DEF HeardAll, Fed
    <2> QED BY <1>8, <2>1 DEF FedInv
  <1> QED BY <1>2, <1>9, <1>10

\* Every step of a run keeps what it is fed in place.
LEMMA FedStep ==
  ASSUME StreamTyped, FedInv,
         (\E i \in Inputs : Begin(i)) \/ RunStep \/ SessionThrows \/ Delivered \/ SinkThrows
  PROVE  FedInv'
  <1>a. ASSUME NEW how \in {"done", "failed"}, Over(how), UNCHANGED heard \/ heard' = <<>>
        PROVE  FedInv'
    <2>1. CASE UNCHANGED heard
      BY <1>a, <2>1 DEF Over, FedInv
    <2>2. CASE heard' = <<>>
      <3>1. heard' \in Seq([start : Nat, samples : Seq(Int)])
        BY <2>2
      <3> QED BY <1>a, <3>1 DEF Over, FedInv
    <2> QED BY <1>a, <2>1, <2>2
  <1>b. ASSUME UNCHANGED <<input, start, heard>>,
               phase \in {"pulling", "finishing"}, phase' \in {"pulling", "finishing"}
        PROVE  FedInv'
    <2>1. Fed' /\ (input'.audio => HeardAll')
      BY <1>b, HeardStays DEF FedInv
    <2>2. heard' \in Seq([start : Nat, samples : Seq(Int)])
      BY <1>b DEF FedInv
    <2> QED BY <1>b, <2>1, <2>2 DEF FedInv
  <1>1. ASSUME NEW i \in Inputs, Begin(i) PROVE FedInv'
    <2>1. /\ phase \notin Running /\ input' = i /\ phase' = "starting"
          /\ UNCHANGED <<at, start, heard>>
      BY <1>1 DEF Begin
    <2>2. phase \in {"none", "done", "failed"}
      BY <2>1 DEF StreamTyped, StreamTypeOK, Running
    <2> QED BY <2>1, <2>2 DEF FedInv
  <1>2. CASE StartStream
    <2>1. CASE Over("failed")
      BY <1>2, <1>a, <2>1 DEF StartStream
    <2>2. CASE Acceptable(input)
      <3>1. /\ phase = "starting" /\ heard' = <<>> /\ UNCHANGED <<input, at, start>>
            /\ phase' = IF input.audio THEN "reading" ELSE "pulling"
        BY <1>2, <2>2 DEF StartStream
      <3>2. /\ input' \in Inputs /\ input' \in Source /\ input'.width \in Nat
        BY <3>1, InputsAssumption DEF StreamTyped, Source, Running, Phases
      <3>3. at' = 0 /\ start' = 0
        BY <3>1 DEF FedInv
      <3>4. HeardUpTo(Len(heard))' = 0 /\ Len(heard') = 0
        BY <3>1 DEF HeardUpTo
      <3>5. Fed' /\ FullOnes(Len(heard))'
        BY <3>3, <3>4 DEF Fed, Blocks, FullOnes
      <3>6. heard' \in Seq([start : Nat, samples : Seq(Int)])
        BY <3>1
      <3>7. ASSUME input.audio PROVE Given(0)' /\ AllGivenIsRead(0)'
        <4>1. input'.from \in {"pcm", "buffer"}
          BY <2>2, <3>1, <3>2, <3>7 DEF Acceptable, Source
        <4>2. /\ FullPart(input') \in Nat /\ chunk_samples(input') \in Nat
          BY <3>2, FullParts
        <4>3. /\ 0 = 0 * FullPart(input')
              /\ 0 = (0 * chunk_samples(input')) * input'.width
          BY <3>2, <4>2
        <4>4. Given(0)'
          BY <3>1, <3>3, <3>4, <3>5, <4>1, <4>3 DEF Given
        <4>5. AllGivenIsRead(0)'
          BY <3>3, <4>3 DEF AllGivenIsRead
        <4> QED BY <4>4, <4>5
      <3>8. CASE input.audio
        <4>1. phase' = "reading" /\ \E j \in Nat : (Given(j) /\ AllGivenIsRead(j))'
          BY <3>1, <3>7, <3>8
        <4> QED BY <3>5, <3>6, <4>1 DEF FedInv
      <3>9. CASE ~input.audio
        BY <3>1, <3>5, <3>6, <3>9 DEF FedInv
      <3> QED BY <3>8, <3>9
    <2> QED BY <1>2, <2>1, <2>2 DEF StartStream
  <1>3. CASE Read
    <2>1. CASE phase' = "processing"
      BY <1>3, <2>1, FedRead
    <2>2. CASE Throw
      BY <1>a, <2>2 DEF Throw
    <2> QED BY <1>3, <2>1, <2>2 DEF Read
  <1>4. CASE ProcessChunk
    <2>1. CASE phase' \in {"reading", "pulling"}
      BY <1>4, <2>1, FedChunk
    <2>2. CASE Throw
      BY <1>a, <2>2 DEF Throw
    <2> QED BY <1>4, <2>1, <2>2 DEF ProcessChunk
  <1>5. CASE Pull
    BY <1>5, <1>b DEF Pull
  <1>6. CASE Finish
    <2>1. CASE Over("done")
      BY <1>6, <1>a, <2>1 DEF Finish
    <2>2. CASE UNCHANGED <<input, phase, start>>
      BY <1>6, <1>b, <2>2 DEF Finish
    <2> QED BY <1>6, <2>1, <2>2 DEF Finish
  <1>7. CASE SessionThrows \/ SinkThrows
    BY <1>7, <1>a DEF SessionThrows, SinkThrows, Throw
  <1>8. CASE Delivered
    BY <1>8, FedStays DEF Delivered
  <1> QED BY <1>1, <1>2, <1>3, <1>4, <1>5, <1>6, <1>7, <1>8 DEF RunStep

\* A step of a thread feeds the run, or leaves it alone.
LEMMA RunOrStay ==
  ASSUME NEW c \in Conns, Thread(c)
  PROVE  \/ UNCHANGED streamVars
         \/ /\ pc[c] \in {"prepare", "run"}
            /\ (\E i \in Inputs : Begin(i)) \/ RunStep \/ SessionThrows \/ Delivered \/ SinkThrows
  <1>1. CASE \/ Dispatch(c) \/ SendHead(c) \/ AskTurn(c) \/ Granted(c) \/ Refused(c)
             \/ RunEnds(c) \/ Conclude(c) \/ WriteLast(c) \/ Catch(c) \/ WriteEnd(c)
             \/ AnswerError(c) \/ Depart(c)
    BY <1>1 DEF Dispatch, SendHead, AskTurn, Granted, Refused, RunEnds, Conclude, WriteLast,
                Catch, WriteEnd, AnswerError, Depart, Write
  <1>2. CASE Prepare(c)
    BY <1>2 DEF Prepare, InputsOf, Goto
  <1>3. CASE Run(c) \/ Deliver(c)
    BY <1>3 DEF Run, Deliver
  <1> QED BY <1>1, <1>2, <1>3 DEF Thread

\* Whatever the connections do, what the session hears stays in place.
LEMMA FedNext ==
  ASSUME StreamTyped, FedInv, [Next]_vars
  PROVE  FedInv'
  <1>a. ASSUME UNCHANGED streamVars PROVE FedInv'
    BY <1>a, FedStays DEF streamVars
  <1>1. ASSUME NEW c \in Conns, Thread(c) PROVE FedInv'
    BY <1>1, <1>a, RunOrStay, FedStep
  <1>2. ASSUME NEW c \in Conns, ClientMoves(c) PROVE FedInv'
    BY <1>2, <1>a DEF ClientMoves
  <1>3. CASE UNCHANGED vars
    BY <1>3, <1>a DEF vars
  <1> QED BY <1>1, <1>2, <1>3 DEF Next

\* Before anything was heard it is in place.
LEMMA FedInit == Init => FedInv
  <1> SUFFICES ASSUME Init PROVE FedInv
    OBVIOUS
  <1>1. heard \in Seq([start : Nat, samples : Seq(Int)])
    BY DEF Init, StreamInit
  <1> QED BY <1>1 DEF Init, StreamInit, FedInv

\* Whatever sources, chunk sizes and channels there are, a session is given the blocks of
\* its source in order, in whole frames and from their first sample, each full one but
\* for less than a frame at its end (streaming.cpp:55-78).
THEOREM BlocksAreHeard == Spec => []HearsItsBlocks
  <1>1. FedInv => HearsItsBlocks
    BY DEF FedInv, Fed, Blocks, HearsItsBlocks, Running, Phases
  <1>2. StreamTyped /\ FedInv /\ [Next]_vars => FedInv'
    BY FedNext
  <1> QED BY Typed, FedInit, <1>1, <1>2, PTL DEF Spec

\* What is heard in place is a run whose chunks are whole frames.
InPlaceIfFramesFit ==
  input # NoInput /\ chunk_samples(input) % input.channels = 0 => HearsTheSource

\* A run whose chunks are whole frames, as are those of every policy in seconds, and of
\* any policy for audio of one channel, hears every sample of its source in its place,
\* whatever runs were before it.  One that cuts frames does not (MCLiveChannels.cfg).
THEOREM SourcesAreHeard == Spec => []InPlaceIfFramesFit
  <1>1. ASSUME FedInv, StreamTyped PROVE InPlaceIfFramesFit
    <2> SUFFICES ASSUME chunk_samples(input) % input.channels = 0,
                        phase \in Running \ {"starting"}, NEW k \in 1..Len(heard)
                 PROVE  /\ heard[k].start = HeardUpTo(k - 1)
                        /\ heard[k].samples = After(heard[k].start, Len(heard[k].samples))
      BY DEF InPlaceIfFramesFit, HearsTheSource
    <2> DEFINE part == FullPart(input)
    <2>1. part \in Nat /\ part = chunk_samples(input)
      BY <1>1, FullParts DEF StreamTyped
    <2>2. \A i \in 1..Len(heard) :
            /\ heard[i].start = (i - 1) * part
            /\ heard[i].samples = After((i - 1) * part, Len(heard[i].samples))
            /\ i < Len(heard) => Len(heard[i].samples) = part
      BY <1>1, <2>1 DEF FedInv, Fed, Blocks, Running, Phases
    <2>3. Len(heard) \in Nat
      BY <1>1 DEF FedInv
    <2> HIDE DEF part
    <2>4. heard[k].samples = After(heard[k].start, Len(heard[k].samples))
      BY <2>2
    <2>5. HeardUpTo(k - 1) = (k - 1) * part
      <3>1. CASE k = 1
        BY <2>1, <3>1 DEF HeardUpTo
      <3>2. CASE k # 1
        <4> DEFINE i == k - 1
        <4>1. i \in 1..Len(heard) /\ i < Len(heard) /\ i # 0 /\ i \in Nat
          BY <2>3, <3>2
        <4>2. heard[i].start = (i - 1) * part /\ Len(heard[i].samples) = part
          BY <2>2, <4>1
        <4>3. (i - 1) * part + part = i * part
          <5> HIDE DEF i
          <5> QED BY <2>1, <4>1
        <4> HIDE DEF i
        <4>4. HeardUpTo(i) = i * part
          BY <4>1, <4>2, <4>3 DEF HeardUpTo
        <4> QED BY <4>4 DEF i
      <3> QED BY <3>1, <3>2
    <2> QED BY <2>2, <2>4, <2>5
  <1>2. StreamTyped /\ FedInv /\ [Next]_vars => FedInv'
    BY FedNext
  <1> QED BY Typed, FedInit, <1>1, <1>2, PTL DEF Spec

-----------------------------------------------------------------------------
(* What a transcript claims.                                                *)

\* Where a connection may have said that it is done.
Late == {"tail", "catch", "finish", "error", "closed"}

\* A run that is over and an answer that says so have heard all of the source.
DoneInv ==
  \A c \in Conns :
    /\ Wrote(c, "done") => pc[c] \in Late /\ whole[c]
    /\ pc[c] = "after" => whole[c]
    /\ pc[c] = "run" /\ phase = "done" => whole[c]

\* A piece that is none of it, or nothing, does not say that it is done.
LEMMA Undone ==
  ASSUME ConnTypes, NEW c \in Conns, NEW s \in Pieces, s # "done",
         wire'[c] = wire[c] \/ wire'[c] = Append(wire[c], s), Wrote(c, "done")'
  PROVE  Wrote(c, "done")
  <1>1. CASE wire'[c] = wire[c]
    BY <1>1 DEF Wrote
  <1>2. CASE wire'[c] = Append(wire[c], s)
    <2> DEFINE w == wire[c]
               v == wire'[c]
    <2>1. w \in Seq(Pieces)
      BY DEF ConnTypes
    <2>2. PICK k \in 1..Len(v) : v[k] = "done"
      BY DEF Wrote
    <2>3. v = Append(w, s)
      BY <1>2
    <2> HIDE DEF w, v
    <2>4. /\ Len(w) \in Nat /\ Len(v) = Len(w) + 1 /\ v[Len(w) + 1] = s
          /\ \A j \in 1..Len(w) : v[j] = w[j]
      BY <2>1, <2>3
    <2>5. k \in 1..Len(w) /\ w[k] = "done"
      BY <2>2, <2>4
    <2> QED BY <2>5 DEF Wrote, w
  <1> QED BY <1>1, <1>2

\* A run comes to its end after its source.
LEMMA DoneRun ==
  ASSUME RunStep \/ SessionThrows, phase' = "done"
  PROVE  phase = "finishing"
  <1> USE DEF Throw, Over
  <1>1. CASE StartStream
    BY <1>1 DEF StartStream
  <1>2. CASE Read \/ ProcessChunk
    BY <1>2 DEF Read, ProcessChunk
  <1>3. CASE Pull
    BY <1>3 DEF Pull
  <1>4. CASE Finish
    BY <1>4 DEF Finish
  <1>5. CASE SessionThrows
    BY <1>5 DEF SessionThrows
  <1> QED BY <1>1, <1>2, <1>3, <1>4, <1>5 DEF RunStep

\* A connection claims to be done only after a run that heard it all.
LEMMA ThreadDone ==
  ASSUME IInv, StreamTyped, RestTypes, FedInv, DoneInv, NEW c \in Conns, Thread(c)
  PROVE  /\ Wrote(c, "done")' => pc'[c] \in Late /\ whole'[c]
         /\ pc'[c] = "after" => whole'[c]
         /\ pc'[c] = "run" /\ phase' = "done" => whole'[c]
         /\ \A d \in Conns \ {c} : whole'[d] = whole[d]
  <1>a. /\ Wrote(c, "done") => pc[c] \in Late /\ whole[c]
        /\ pc[c] = "after" => whole[c]
        /\ pc[c] = "run" /\ phase = "done" => whole[c]
    BY DEF DoneInv
  <1>b. ConnTypes /\ {"cut", "head", "delta", "last", "error", "end", "500"} \subseteq Pieces
    BY DEF IInv, Pieces
  <1>c. ASSUME NEW piece \in Pieces, piece # "done", NEW from, NEW to \in Late \cup {"ask"},
               NEW fail \in Late, Write(c, piece, from, to, fail),
               to = "ask" => from = "head"
        PROVE  /\ Wrote(c, "done")' => pc'[c] \in Late /\ whole'[c]
               /\ pc'[c] \notin {"after", "run"} /\ whole' = whole
    <2>1. /\ pc[c] = from /\ pc'[c] \in {to, fail} /\ whole' = whole
          /\ wire'[c] = wire[c] \/ wire'[c] = Append(wire[c], piece)
               \/ wire'[c] = Append(wire[c], "cut")
      BY <1>b, <1>c, WriteShape DEF Write
    <2>2. Wrote(c, "done")' => Wrote(c, "done")
      BY <1>b, <1>c, <2>1, Undone
    <2> QED BY <1>a, <1>c, <2>1, <2>2 DEF Late
  <1>1. CASE SendHead(c) \/ WriteLast(c) \/ WriteEnd(c) \/ AnswerError(c)
    <2>1. \E piece \in Pieces, from \in PC, to \in Late \cup {"ask"}, fail \in Late :
            /\ piece # "done" /\ Write(c, piece, from, to, fail)
            /\ to = "ask" => from = "head"
      BY <1>1, <1>b DEF SendHead, WriteLast, WriteEnd, AnswerError, Late, PC
    <2> QED BY <1>c, <2>1
  <1>2. CASE Dispatch(c) \/ AskTurn(c) \/ Granted(c) \/ Refused(c) \/ Depart(c)
    <2>1. /\ wire' = wire /\ whole' = whole /\ phase' = phase
          /\ \/ pc[c] \in {"new", "ask", "waiting"} /\ pc'[c] \notin {"after", "run"}
             \/ pc' = pc
      BY <1>2, <1>b DEF Dispatch, AskTurn, Granted, Refused, Depart, Goto, ConnTypes, connVars,
                        streamVars
    <2> QED BY <1>a, <2>1 DEF Wrote, Late
  <1>3. CASE Prepare(c)
    <2>1. /\ wire' = wire /\ whole' = whole /\ pc[c] = "prepare"
          /\ pc'[c] = "catch" \/ (pc'[c] = "run" /\ phase' = "starting")
      BY <1>3, <1>b DEF Prepare, Begin, Goto, ConnTypes
    <2> QED BY <1>a, <2>1 DEF Wrote, Late
  <1>4. CASE Run(c)
    <2>1. /\ wire' = wire /\ pc' = pc /\ pc[c] = "run"
          /\ RunStep \/ SessionThrows
          /\ whole' = [whole EXCEPT ![c] = phase' = "done" /\ (input.audio => HeardAll)]
      BY <1>4 DEF Run
    <2>2. whole'[c] = (phase' = "done" /\ (input.audio => HeardAll))
      BY <2>1 DEF RestTypes
    <2>3. phase' = "done" => (input.audio => HeardAll)
      BY <2>1, DoneRun DEF FedInv
    <2>4. phase' = "done" => whole'[c]
      BY <2>2, <2>3
    <2>5. ~Wrote(c, "done")'
      BY <1>a, <2>1 DEF Wrote, Late
    <2>6. \A d \in Conns \ {c} : whole'[d] = whole[d]
      BY <2>1 DEF RestTypes
    <2> QED BY <2>1, <2>4, <2>5, <2>6
  <1>5. CASE Deliver(c)
    <2>1. /\ whole' = whole /\ pc' = pc /\ pc[c] = "run"
          /\ phase' = "done" => phase = "done"
          /\ wire'[c] = wire[c] \/ wire'[c] = Append(wire[c], "delta")
               \/ wire'[c] = Append(wire[c], "cut")
      BY <1>5, <1>b DEF Deliver, Delivered, SinkThrows, Throw, Over, Sent, SendFails, ConnTypes
    <2>2. Wrote(c, "done")' => Wrote(c, "done")
      BY <1>b, <2>1, Undone
    <2> QED BY <1>a, <2>1, <2>2 DEF Late
  <1>6. CASE RunEnds(c)
    <2>1. /\ whole' = whole /\ wire' = wire /\ pc[c] = "run"
          /\ (phase = "done" /\ pc'[c] = "after") \/ pc'[c] = "catch"
      BY <1>6, <1>b DEF RunEnds, Goto, ConnTypes
    <2> QED BY <1>a, <2>1 DEF Wrote, Late
  <1>7. CASE Conclude(c)
    <2>1. /\ whole' = whole /\ pc[c] = "after" /\ pc'[c] \in Late
      BY <1>7, <1>b DEF Conclude, Write, Goto, ConnTypes, Late
    <2> QED BY <1>a, <2>1 DEF Late
  <1>8. CASE Catch(c)
    <2>1. CASE Write(c, "error", "catch", "finish", "error")
      BY <1>b, <1>c, <2>1 DEF Late
    <2>2. CASE Goto(c, "catch", "finish") /\ wire' = wire /\ whole' = whole
      BY <1>a, <1>b, <2>2 DEF Goto, ConnTypes, Wrote, Late
    <2> QED BY <1>8, <2>1, <2>2 DEF Catch
  <1> QED BY <1>1, <1>2, <1>3, <1>4, <1>5, <1>6, <1>7, <1>8 DEF Thread

\* No other step makes a connection claim more.
LEMMA DoneStep ==
  ASSUME IInv, StreamTyped, RestTypes, FedInv, DoneInv, [Next]_vars
  PROVE  DoneInv'
  <1> SUFFICES ASSUME NEW d \in Conns
               PROVE  /\ Wrote(d, "done")' => pc'[d] \in Late /\ whole'[d]
                      /\ pc'[d] = "after" => whole'[d]
                      /\ pc'[d] = "run" /\ phase' = "done" => whole'[d]
    BY DEF DoneInv
  <1>a. /\ Wrote(d, "done") => pc[d] \in Late /\ whole[d]
        /\ pc[d] = "after" => whole[d]
        /\ pc[d] = "run" /\ phase = "done" => whole[d]
    BY DEF DoneInv
  <1>1. ASSUME NEW c \in Conns, Thread(c)
        PROVE  /\ Wrote(d, "done")' => pc'[d] \in Late /\ whole'[d]
               /\ pc'[d] = "after" => whole'[d]
               /\ pc'[d] = "run" /\ phase' = "done" => whole'[d]
    <2>1. CASE c = d
      BY <1>1, <2>1, ThreadDone
    <2>2. CASE c # d
      <3>1. pc'[d] = pc[d] /\ wire'[d] = wire[d] /\ whole'[d] = whole[d]
        BY <1>1, <2>2, Others, ThreadDone DEF IInv
      <3>2. pc[d] = "run" => pc[c] \notin {"prepare", "run"}
        BY <2>2 DEF IInv, TurnInv
      <3>3. pc[d] = "run" => phase' = phase
        BY <1>1, <3>2, RunOrStay DEF streamVars
      <3> QED BY <1>a, <3>1, <3>3 DEF Wrote
    <2> QED BY <2>1, <2>2
  <1>2. CASE \/ UNCHANGED vars
             \/ \E c \in Conns : ClientMoves(c)
    <2>1. UNCHANGED <<pc, wire, whole, phase>>
      BY <1>2 DEF ClientMoves, vars, connVars, streamVars
    <2> QED BY <1>a, <2>1 DEF Wrote
  <1> QED BY <1>1, <1>2 DEF Next

\* A transcript is reported as done only after a run that was given every block of a
\* source that came to its proper end, for any sources, chunk sizes and channels.
THEOREM DoneIsTrue == Spec => []DoneIsEarned
  <1>1. Init => DoneInv
    BY DEF Init, StreamInit, DoneInv, Wrote
  <1>2. StreamTyped /\ FedInv /\ [Next]_vars => FedInv'
    BY FedNext
  <1>3. IInv /\ StreamTyped /\ RestTypes /\ FedInv /\ DoneInv /\ [Next]_vars => DoneInv'
    BY DoneStep
  <1>4. DoneInv => DoneIsEarned
    BY DEF DoneInv, DoneIsEarned
  <1> QED BY Typed, FedInit, <1>1, <1>2, <1>3, <1>4, PTL DEF Spec
=============================================================================
