----------------------------- MODULE LiveRoute -----------------------------
(***************************************************************************)
(* Streamed answers: handle_client of app/server/http.cpp and the bodies   *)
(* that ServerState writes while a model runs (app/server/runtime.cpp).    *)
(* It composes the model's turn (ModelTurn, which BusyGuard implements),   *)
(* the run (StreamRun) and the connections; a live request's audio comes   *)
(* as BodyPromise says, which ChunkedBody implements.                      *)
(*                                                                         *)
(* Clients read, stop reading, go on or leave whenever they like.  A write *)
(* is a step: it reaches a client that reads, waits for one that does not, *)
(* up to the send timeout if there is one, and fails for one that left.    *)
(***************************************************************************)
EXTENDS StreamRun, FiniteSets

CONSTANTS
  Conns,        \* the connections, each with its thread
  Nobody,       \* the owner of a free turn
  Routes,       \* the kinds of route each connection may ask for
  SendTimeout   \* the live route has a send timeout (send_timeout_ms > 0)

Kinds == {"live", "file", "speech", "audio"}

ASSUME RoutesAssumption == Routes \in [Conns -> SUBSET Kinds] /\ Nobody \notin Conns

VARIABLES
  turn, want, bounded,  \* ModelTurn's
  kind,       \* the route each connection asked for
  pc,         \* where its thread is in handle_client
  client,     \* what its client does: "reads", "stalled", "gone"
  wire,       \* the pieces of the answer that were written
  wrote,      \* the run had output for the client (wrote_audio; ttft_ms)
  whole       \* history: the run was given all blocks of a source that ended well

turnVars == <<turn, want, bounded>>
connVars == <<kind, pc, client, wire, wrote, whole>>
vars == <<streamVars, turnVars, connVars>>

Turn == INSTANCE ModelTurn WITH Callers <- Conns

\* audio/pcm has no events of its own: what is not audio cannot be said.
IsEvents(k) == k # "audio"

\* "finish" writes the last chunk, "error" is the outer catch.
PC == {"new", "head", "ask", "waiting", "prepare", "run", "after", "tail",
       "catch", "finish", "error", "closed"}

Pieces == {"head", "delta", "done", "last", "error", "end", "cut", "500"}

-----------------------------------------------------------------------------
Init ==
  /\ StreamInit
  /\ Turn!Init
  /\ kind \in [Conns -> Kinds] /\ \A c \in Conns : kind[c] \in Routes[c]
  /\ pc = [c \in Conns |-> "new"]
  /\ client = [c \in Conns |-> "reads"]
  /\ wire = [c \in Conns |-> <<>>]
  /\ wrote = [c \in Conns |-> FALSE]
  /\ whole = [c \in Conns |-> FALSE]

Goto(c, from, to) == pc[c] = from /\ pc' = [pc EXCEPT ![c] = to]

\* The client.  What it does is seen by writes alone, so it moves where there is one.
Writing(c) ==
  \/ pc[c] \in {"head", "after", "tail", "catch", "finish", "error"}
  \/ pc[c] = "run" /\ event

ClientMoves(c) ==
  /\ Writing(c)
  /\ \/ client[c] = "reads" /\ client' = [client EXCEPT ![c] = "stalled"]
     \/ client[c] = "stalled" /\ client' = [client EXCEPT ![c] = "reads"]
     \/ client[c] # "gone" /\ client' = [client EXCEPT ![c] = "gone"]
  /\ UNCHANGED <<streamVars, turnVars, kind, pc, wire, wrote, whole>>

\* send_all puts the piece on the wire, or throws: the client left, or the timeout
\* found a part of it sent.
Sent(c, piece) ==
  /\ client[c] = "reads"
  /\ wire' = [wire EXCEPT ![c] = Append(@, piece)]

\* Mutant: a send never times out.
SendFailsGone(c) == client[c] = "gone" /\ UNCHANGED wire

SendFails(c) ==
  \/ /\ client[c] = "gone"
     /\ UNCHANGED wire
  \/ /\ client[c] = "stalled" /\ kind[c] = "live" /\ SendTimeout
     /\ wire' = [wire EXCEPT ![c] = Append(@, "cut")]

Write(c, piece, from, to, fail) ==
  /\ \/ Goto(c, from, to) /\ Sent(c, piece)
     \/ Goto(c, from, fail) /\ SendFails(c)
  /\ UNCHANGED <<streamVars, turnVars, kind, client, wrote, whole>>

\* The request is read and dispatched: the response has a stream_body, or the
\* request is refused before one is made.
Dispatch(c) ==
  /\ Goto(c, "new", "head") \/ Goto(c, "new", "error")
  /\ UNCHANGED <<streamVars, turnVars, kind, client, wire, wrote, whole>>

SendHead(c) == Write(c, "head", "head", "ask", "error")

\* run_streaming_model_impl: acquire_model_run.
AskTurn(c) ==
  /\ Goto(c, "ask", "waiting")
  /\ Turn!Ask(c)
  /\ UNCHANGED <<streamVars, kind, client, wire, wrote, whole>>

Granted(c) ==
  /\ Goto(c, "waiting", "prepare")
  /\ Turn!Grant(c)
  /\ UNCHANGED <<streamVars, kind, client, wire, wrote, whole>>

\* ServerBusyError.
Refused(c) ==
  /\ Goto(c, "waiting", "catch")
  /\ Turn!Refuse(c)
  /\ UNCHANGED <<streamVars, kind, client, wire, wrote, whole>>

\* The model is loaded, has a streaming interface and is prepared, or one of these
\* throws and the lock's destructor gives the turn back.
InputsOf(k) ==
  {i \in Inputs : i.from = CASE k = "live" -> "pcm" [] k = "file" -> "buffer"
                             [] OTHER -> "none"}

\* Mutant: the turn is given back once the model is prepared.
PrepareReleases(c) ==
  /\ Turn!Release(c)
  /\ \/ /\ Goto(c, "prepare", "run")
        /\ \E i \in InputsOf(kind[c]) : Begin(i)
     \/ /\ Goto(c, "prepare", "catch")
        /\ UNCHANGED streamVars
  /\ UNCHANGED <<kind, client, wire, wrote, whole>>

Prepare(c) ==
  /\ \/ /\ Goto(c, "prepare", "run")
        /\ \E i \in InputsOf(kind[c]) : Begin(i)
        /\ UNCHANGED turnVars
     \/ /\ Goto(c, "prepare", "catch")
        /\ Turn!Release(c)
        /\ UNCHANGED streamVars
  /\ UNCHANGED <<kind, client, wire, wrote, whole>>

Run(c) ==
  /\ pc[c] = "run"
  /\ RunStep \/ SessionThrows
  /\ whole' = [whole EXCEPT ![c] = phase' = "done" /\ (input.audio => HeardAll)]
  /\ UNCHANGED <<turnVars, kind, pc, client, wire, wrote>>

\* The sink: an event is written at once, by the thread that runs the model.  Events
\* that have nothing for this client change nothing and are left out.
Deliver(c) ==
  /\ pc[c] = "run"
  /\ event
  /\ \/ /\ Delivered
        /\ Sent(c, "delta")
        /\ wrote' = [wrote EXCEPT ![c] = TRUE]
     \/ /\ SinkThrows
        /\ SendFails(c)
        /\ UNCHANGED wrote
  /\ UNCHANGED <<turnVars, kind, pc, client, whole>>

\* Mutant: a run that threw is reported like one that returned.
RunEndsWell(c) ==
  /\ phase \in {"done", "failed"}
  /\ Goto(c, "run", "after")
  /\ Turn!Release(c)
  /\ UNCHANGED <<streamVars, kind, client, wire, wrote, whole>>

\* run_streaming_task returned or threw; either way the turn is given back.
RunEnds(c) ==
  /\ \/ /\ phase = "done"
        /\ Goto(c, "run", "after")
     \/ /\ phase = "failed"
        /\ Goto(c, "run", "catch")
  /\ Turn!Release(c)
  /\ UNCHANGED <<streamVars, kind, client, wire, wrote, whole>>

\* What the body does with the result: a speech route that wrote no audio throws, a
\* transcription without a text throws, and raw audio has nothing to add.
Conclude(c) ==
  \/ /\ kind[c] \in {"speech", "audio"} => wrote[c]
     /\ IF IsEvents(kind[c]) THEN Write(c, "done", "after", "tail", "catch")
        ELSE /\ Goto(c, "after", "finish")
             /\ UNCHANGED <<streamVars, turnVars, kind, client, wire, wrote, whole>>
  \/ /\ kind[c] \in {"speech", "audio"} => ~wrote[c]
     /\ Goto(c, "after", "catch")
     /\ UNCHANGED <<streamVars, turnVars, kind, client, wire, wrote, whole>>

WriteLast(c) == Write(c, "last", "tail", "finish", "catch")

\* Mutant: no event says what went wrong.
CatchSilently(c) ==
  /\ Goto(c, "catch", "finish")
  /\ UNCHANGED <<streamVars, turnVars, kind, client, wire, wrote, whole>>

\* The handler of the first exception: an event, if the answer has events.
Catch(c) ==
  /\ IF IsEvents(kind[c]) THEN Write(c, "error", "catch", "finish", "error")
     ELSE /\ Goto(c, "catch", "finish")
          /\ UNCHANGED <<streamVars, turnVars, kind, client, wire, wrote, whole>>

WriteEnd(c) == Write(c, "end", "finish", "closed", "error")

\* The outer handler: a response with status 500, or nothing.
AnswerError(c) == Write(c, "500", "error", "closed", "closed")

\* A refusal is over once its exception was handled.
Depart(c) ==
  /\ Turn!Depart(c)
  /\ UNCHANGED <<streamVars, connVars>>

Thread(c) ==
  \/ Dispatch(c) \/ SendHead(c) \/ AskTurn(c) \/ Granted(c) \/ Refused(c) \/ Prepare(c)
  \/ Run(c) \/ Deliver(c) \/ RunEnds(c) \/ Conclude(c) \/ WriteLast(c)
  \/ Catch(c) \/ WriteEnd(c) \/ AnswerError(c) \/ Depart(c)

Next ==
  \/ \E c \in Conns : Thread(c) \/ ClientMoves(c)
  \/ (\A c \in Conns : pc[c] = "closed") /\ UNCHANGED vars

Spec == Init /\ [][Next]_vars

\* Threads run, reads of a body end (BodyEnds of ChunkedBody), sessions compute, and a
\* guard answers a bounded wait.  Clients owe nothing: a write to one that does not
\* read, without a timeout, is no step.
Fairness == \A c \in Conns : WF_vars(Thread(c))

FairSpec == Spec /\ Fairness

-----------------------------------------------------------------------------
TypeOK ==
  /\ StreamTypeOK
  /\ Turn!TypeOK
  /\ kind \in [Conns -> Kinds]
  /\ pc \in [Conns -> PC]
  /\ client \in [Conns -> {"reads", "stalled", "gone"}]
  /\ wire \in [Conns -> Seq(Pieces)]
  /\ wrote \in [Conns -> BOOLEAN] /\ whole \in [Conns -> BOOLEAN]

Wrote(c, piece) == \E k \in 1..Len(wire[c]) : wire[c][k] = piece

\* A transcript is reported as done only after a run that was given every block of a
\* body that ended with its last chunk (src/app/server/README.md:366); what a block that
\* cuts a frame loses is not counted, see HearsItsBlocks.
DoneIsEarned == \A c \in Conns : Wrote(c, "done") => whole[c]

\* The session calls its sink only for the connection that has the turn, and has no
\* sink while no connection has it.
SinkIsTheRunners ==
  /\ event => \E c \in Conns : turn = c /\ pc[c] = "run"
  /\ sink => turn # Nobody

\* An answer begins with its head and is written no further than its end; one of
\* events says exactly once how it went, last thing before that end
\* (http.cpp:756-772, runtime.cpp:1810-2166).
EndsOnce ==
  \A c \in Conns :
    LET Places(s) == {k \in 1..Len(wire[c]) : wire[c][k] \in s}
    IN ~Wrote(c, "cut") =>
         /\ Places({"head", "500"}) \subseteq {1}
         /\ Places({"end"}) \subseteq {Len(wire[c])}
         /\ Wrote(c, "end") /\ IsEvents(kind[c]) =>
              Places({"last", "error"}) = {Len(wire[c]) - 1}

\* A live request gives the turn back, whatever its client does (http.cpp:737-741).
LiveGivesTheTurnBack ==
  \A c \in Conns : kind[c] = "live" => (turn = c ~> turn # c)
=============================================================================
