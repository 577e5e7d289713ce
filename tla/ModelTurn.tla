----------------------------- MODULE ModelTurn -----------------------------
(***************************************************************************)
(* What a model's run guard promises its callers, without saying how.      *)
(*                                                                         *)
(* A model runs one request at a time.  A caller asks for the turn; it is  *)
(* granted the turn when nobody has it, or it is refused, and only a       *)
(* caller that bounded its wait may be refused.  BusyGuard.tla is the      *)
(* detailed guard of app/server/busy_guard.h and implements this module;   *)
(* ServerModels.tla composes this module, one turn per registered model.   *)
(***************************************************************************)

CONSTANTS Callers,   \* the request threads of the server
          Nobody     \* the owner of a free turn, which is no caller

VARIABLES turn,      \* the caller whose run has the model, or Nobody
          want,      \* what each caller is doing about the turn
          bounded    \* the callers whose wait has a bound

vars == <<turn, want, bounded>>

Want == {"out", "asking", "granted", "refused"}

TypeOK ==
    /\ turn \in Callers \cup {Nobody}
    /\ want \in [Callers -> Want]
    /\ bounded \subseteq Callers

Init ==
    /\ turn = Nobody
    /\ want = [c \in Callers |-> "out"]
    /\ bounded = {}

\* A caller outside asks for the turn, with or without a bound on its wait.
Ask(c) ==
    /\ want[c] = "out"
    /\ want' = [want EXCEPT ![c] = "asking"]
    /\ bounded' \in {bounded, bounded \cup {c}}
    /\ UNCHANGED turn

\* A free turn goes to one of the callers asking for it, in any order.
Grant(c) ==
    /\ want[c] = "asking"
    /\ turn = Nobody
    /\ turn' = c
    /\ want' = [want EXCEPT ![c] = "granted"]
    /\ UNCHANGED bounded

\* Only a caller that bounded its wait is turned away.
Refuse(c) ==
    /\ want[c] = "asking"
    /\ c \in bounded
    /\ want' = [want EXCEPT ![c] = "refused"]
    /\ UNCHANGED <<turn, bounded>>

\* The run is over, by its end or by an exception.
Release(c) ==
    /\ want[c] = "granted"
    /\ turn' = Nobody
    /\ want' = [want EXCEPT ![c] = "out"]
    /\ bounded' = bounded \ {c}

\* The refusal has been reported.
Depart(c) ==
    /\ want[c] = "refused"
    /\ want' = [want EXCEPT ![c] = "out"]
    /\ bounded' = bounded \ {c}
    /\ UNCHANGED turn

Next == \E c \in Callers :
            Ask(c) \/ Grant(c) \/ Refuse(c) \/ Release(c) \/ Depart(c)

Spec == Init /\ [][Next]_vars

\* A bounded caller is answered whatever the run that has the turn does; an
\* unbounded one is answered if the turn stays free.  Nothing obliges a run to
\* release the turn.
Fairness == \A c \in Callers : WF_vars(Grant(c) \/ Refuse(c))

FairSpec == Spec /\ Fairness
=============================================================================
