--------------------------- MODULE MCServerModels ---------------------------
(* An instance of ServerModels for the model checker. *)
EXTENDS ServerModels

CONSTANTS m1, m2

Config(source, weight, task, mode, serves) ==
    [source |-> source, weight |-> weight, task |-> task, mode |-> mode,
     serves |-> serves]

Each == {"offline", "streaming"}

\* An offline-only family; one that implements both interfaces, in either mode, with
\* other weights, and with a task that cannot be parsed beside a mode that can.
Offline   == Config("a", "w", "tts", "offline", {"offline"})
Both      == Config("b", "w", "asr", "offline", Each)
Streaming == Config("b", "w", "asr", "streaming", Each)
Reweighed == Config("b", "v", "asr", "streaming", Each)
BadTask   == Config("b", "w", "sing", "offline", Each)
MCConfigs == {Offline, Both, Streaming, Reweighed, BadTask}

Request(kind, id, config, bounded) ==
    [kind |-> kind, id |-> id, config |-> config, bounded |-> bounded]

\* One configured model, streaming, not yet in memory; the other id is free.
MCStartup == <<[id |-> m1, config |-> Streaming, lazy |-> TRUE]>>

\* Runs, loads and unloads of the configured model; its loads go through all the
\* configurations but the one it starts with.
ModelRequests ==
    {Request(k, m1, Streaming, TRUE) : k \in {"run", "events", "live", "unload"}}
    \cup {Request("load", m1, k, TRUE) : k \in MCConfigs \ {Streaming}}

\* Registrations of the other id race with lookups, sweeps and listings.
RegistryRequests ==
    {Request("load", m2, Both, TRUE), Request("list", m1, Both, FALSE),
     Request("unload_all", m1, Both, FALSE)}
    \cup {Request(k, m2, Both, FALSE) : k \in {"live", "unload_models"}}

MCRequests == ModelRequests \cup RegistryRequests
=============================================================================
