--------------------------- MODULE MCVoiceSession ---------------------------
(* Instances of VoiceSession for the model checker. *)
EXTENDS VoiceSession, TLC

CONSTANTS u, v, w

\* A voice with a shorter state than the other two.
MCPrefixOf == (u :> 1) @@ (v :> 2) @@ (w :> 2)
MCFloor == [prompt |-> 2, steps |-> 2]
MCChunks == {[prompt |-> 1, steps |-> 1], [prompt |-> 2, steps |-> 1], [prompt |-> 1, steps |-> 2]}

Configured(mode, prompt, steps, host, fails) ==
  [mode |-> mode, prompt |-> prompt, steps |-> steps, host |-> host, fails |-> fails]

\* Each mode, with and without rounding, capacities that are too small, and a backend
\* whose allocations may fail.
MCConfigs ==
  {Configured("tiered", 1, 1, TRUE, FALSE), Configured("double", 1, 1, FALSE, FALSE),
   Configured("grow", 1, 2, FALSE, FALSE), Configured("fixed", 1, 2, TRUE, FALSE),
   Configured("double", 1, 1, FALSE, TRUE)}

MCFailing == {Configured("double", 1, 1, FALSE, TRUE)}
=============================================================================
