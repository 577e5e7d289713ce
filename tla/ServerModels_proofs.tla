------------------------- MODULE ServerModels_proofs -------------------------
(***************************************************************************)
(* Proofs about the model registry, for any request threads, ids,          *)
(* configurations, requests and configured models.                         *)
(***************************************************************************)
EXTENDS ServerModels, FiniteSetTheorems, TLAPS

\* Handlers in one of these places work on a registered model ...
AtModel == Holding \cup {"mode", "bound", "asking", "busy"}

\* ... and these on one that is not registered yet.
Drafting == {"register", "push"}

\* The handlers' variables have their types, but for the bounds that depend on the
\* registry ...
HandlerTypes ==
  /\ meta \in [Positions -> Clients \cup {Nobody}]
  /\ turn \in [Positions -> Clients \cup {Nobody}]
  /\ pc \in [Clients -> PC]
  /\ req \in [Clients -> Requests]
  /\ at \in [Clients -> Nat]
  /\ route \in [Clients -> Modes]
  /\ draft \in [Clients -> LoadedModel \cup {NoSession}]
  /\ todo \in [Clients -> SUBSET Nat]
  /\ calls \in [Clients -> 0..MaxCalls]

\* ... and so have all the variables.
Types ==
  /\ models \in Seq(LoadedModel)
  /\ DOMAIN index \subseteq Ids
  /\ \A id \in DOMAIN index : index[id] \in Nat
  /\ registry \in Clients \cup {Nobody}
  /\ HandlerTypes

\* The model the handler works on is registered, and so are those of a sweep.
Places ==
  \A c \in Clients :
    /\ at[c] = 0 \/ at[c] \in 1..Len(models)
    /\ pc[c] \in AtModel => at[c] # 0
    /\ todo[c] \subseteq 1..Len(models)

\* The index and the list agree, but for the registration in progress.
Registered ==
  /\ \A c \in Clients : registry = c <=> pc[c] \in {"push", "listing"}
  /\ \A c \in Clients : pc[c] = "push" =>
        req[c].id \in DOMAIN index /\ index[req[c].id] = Len(models) + 1
  /\ \A i \in 1..Len(models) : models[i].id \in DOMAIN index /\ index[models[i].id] = i
  /\ \A id \in DOMAIN index :
        \/ index[id] \in 1..Len(models) /\ models[index[id]].id = id
        \/ \E c \in Clients : pc[c] = "push" /\ req[c].id = id

\* A model's session is that of its configuration, task and mode, and the flag says so.
Sound(m) ==
  /\ m.session # NoSession =>
        /\ m.session = [config |-> m.config, task |-> m.task, mode |-> m.mode]
        /\ m.loaded
  /\ Parses(m.config) => m.task = m.config.task /\ m.mode = m.config.mode

ModelsAreSound ==
  /\ \A i \in 1..Len(models) : Sound(models[i])
  /\ \A c \in Clients : pc[c] \in Drafting \cup {"draftload"} =>
        draft[c] \in LoadedModel /\ draft[c].id = req[c].id /\ Sound(draft[c])

\* Who is in a place that has the turn of its model has it, and nobody else.
Turns ==
  \A i \in Positions, c \in Clients : turn[i] = c <=> (pc[c] \in Holding /\ at[c] = i)

\* What a handler with the turn has found out about its model m, by the place it
\* has got to.
Used(m, place, r, way) ==
  /\ place \in {"exclusive", "compare", "finish"} => r.kind = "load"
  /\ place \in {"ensure", "loading", "finish"} /\ r.kind = "load" =>
        /\ m.config.source = r.config.source
        /\ Parses(r.config) => m.task = r.config.task /\ m.mode = r.config.mode
  /\ place \in {"start", "running", "finish"} => m.session # NoSession
  /\ place = "running" => way \in m.session.config.serves

Uses == \A c \in Clients : Used(models[at[c]], pc[c], req[c], route[c])

IInv == Types /\ Places /\ Registered /\ ModelsAreSound /\ Turns /\ Uses

-----------------------------------------------------------------------------
\* A step of the handler of c, and what it leaves alone of the other handlers.
Act(c) == Begin(c) \/ Step(c) \/ Refuse(c) \/ Load(c) \/ FinishRun(c)

Alone(c) ==
  \A d \in Clients \ {c} :
               /\ pc'[d] = pc[d] /\ req'[d] = req[d] /\ at'[d] = at[d]
               /\ route'[d] = route[d] /\ draft'[d] = draft[d] /\ todo'[d] = todo[d]

\* The places of the handlers.
LEMMA PCs ==
  /\ "exclusive" \in PC /\ "compare" \in PC /\ "ensure" \in PC /\ "loading" \in PC
  /\ "start" \in PC /\ "running" \in PC /\ "finish" \in PC /\ "reset" \in PC
  /\ "away" \in PC /\ "limits" \in PC /\ "lookup" \in PC /\ "mode" \in PC
  /\ "bound" \in PC /\ "asking" \in PC /\ "busy" \in PC /\ "draft" \in PC
  /\ "draftload" \in PC /\ "register" \in PC /\ "push" \in PC /\ "sweep" \in PC
  /\ "sweepall" \in PC /\ "list" \in PC /\ "listing" \in PC
  BY DEF PC, Holding

\* The places a request is sent on to are places.
LEMMA Nexts ==
  /\ \A k \in Kinds : FirstStep(k) \in PC /\ WithTurn(k) \in PC /\ AfterLoad(k) \in PC
  BY PCs DEF FirstStep, WithTurn, AfterLoad

\* The fields of a request.
LEMMA ReqType ==
  \A r \in Requests : r.kind \in Kinds /\ r.id \in Ids /\ r.config \in Configs
  BY DataAssumption

\* A handler that ends leaves the types.
LEMMA Returned ==
  ASSUME HandlerTypes, NEW c \in Clients, Return(c), UNCHANGED <<req, calls>>
  PROVE HandlerTypes'
  BY PCs DEF Return, HandlerTypes, Modes

\* A handler goes on to another place with the same model.
LEMMA Moved ==
  ASSUME HandlerTypes, NEW c \in Clients, NEW from, NEW to \in PC, Goto(c, from, to),
         UNCHANGED <<meta, turn, req, at, route, draft, todo, calls>>
  PROVE HandlerTypes'
  BY DEF Goto, HandlerTypes

\* A sweep that goes on to the next model, or ends, leaves the types.
LEMMA SweepGoesOn ==
  ASSUME HandlerTypes, NEW c \in Clients, NEW left \in SUBSET Nat, NextSweep(c, left),
         UNCHANGED <<req, calls>>
  PROVE HandlerTypes'
  <1>1. CASE req[c].kind = "unload_all"
    <2>1. /\ pc' = [pc EXCEPT ![c] = "sweepall"]
          /\ todo' = [todo EXCEPT ![c] = left]
          /\ turn' = [i \in Positions |-> IF turn[i] = c THEN Nobody ELSE turn[i]]
          /\ at' = [at EXCEPT ![c] = 0]
          /\ UNCHANGED <<meta, route, draft>>
      BY <1>1 DEF NextSweep
    <2> QED BY <2>1, PCs DEF HandlerTypes
  <1>2. CASE req[c].kind # "unload_all"
    BY <1>2, Returned DEF NextSweep
  <1> QED BY <1>1, <1>2

\* A step keeps the types of the handlers and touches its own handler's state only.
LEMMA HandlerStep ==
  ASSUME Types, Places, ModelsAreSound, NEW c \in Clients, Act(c)
  PROVE  HandlerTypes' /\ Alone(c)
  <1>0. HandlerTypes
    BY DEF Types
  <1>a. models \in Seq(LoadedModel) /\ Len(models) \in Nat /\ \A id \in DOMAIN index : index[id] \in Nat
    BY DEF Types, HandlerTypes
  <1>b. /\ pc[c] \in AtModel => at[c] \in 1..Len(models)
        /\ pc[c] \in Drafting \cup {"draftload"} => draft[c] \in LoadedModel
    BY DEF Places, ModelsAreSound
  <1>1. ASSUME Begin(c) PROVE HandlerTypes' /\ Alone(c)
    <2>1. HandlerTypes'
      <3>1. PICK r \in Requests :
               /\ calls[c] < MaxCalls
               /\ Goto(c, "away", FirstStep(r.kind))
               /\ req' = [req EXCEPT ![c] = r]
               /\ calls' = [calls EXCEPT ![c] = @ + 1]
               /\ todo' = [todo EXCEPT ![c] =
                       IF r.kind = "unload_all" THEN 1..Len(models) ELSE {}]
               /\ UNCHANGED <<models, index, locks, at, route, draft>>
        BY <1>1 DEF Begin
      <3>2. FirstStep(r.kind) \in PC
        BY ReqType, Nexts
      <3>3. calls' \in [Clients -> 0..MaxCalls]
        BY <1>0, <3>1, DataAssumption DEF HandlerTypes
      <3>4. todo' \in [Clients -> SUBSET Nat]
        BY <1>0, <1>a, <3>1 DEF HandlerTypes
      <3> QED BY <1>0, <3>1, <3>2, <3>3, <3>4 DEF HandlerTypes, Goto, locks
    <2>2. Alone(c)
      BY <1>1, <1>0 DEF Begin, HandlerTypes, Alone, Goto, locks
    <2> QED BY <2>1, <2>2
  <1>2. ASSUME LiveLimits(c) PROVE HandlerTypes' /\ Alone(c)
    <2>1. HandlerTypes'
      <3>1. \/ Goto(c, "limits", "lookup") /\ UNCHANGED <<locks, at, route, draft, todo, req, calls>>
            \/ Return(c) /\ UNCHANGED <<req, calls>>
        BY <1>2 DEF LiveLimits
      <3> QED BY <1>0, <3>1, PCs, Moved, Returned DEF locks
    <2>2. Alone(c)
      BY <1>2, <1>0 DEF LiveLimits, HandlerTypes, Alone, Goto, locks, Return
    <2> QED BY <2>1, <2>2
  <1>3. ASSUME Lookup(c) PROVE HandlerTypes' /\ Alone(c)
    <2>1. HandlerTypes'
      <3>1. CASE Return(c)
        BY <1>0, <1>3, <3>1, Returned DEF Lookup
      <3>2. CASE /\ at' = [at EXCEPT ![c] = index[req[c].id]] /\ req[c].id \in DOMAIN index
                 /\ route' = [route EXCEPT ![c] = IF req[c].kind = "events" THEN "streaming" ELSE "offline"]
                 /\ Goto(c, "lookup", IF req[c].kind \in RunKinds \ {"events"} THEN "mode" ELSE "bound")
                 /\ UNCHANGED <<locks, draft, todo, req, calls>>
        BY <1>0, <1>a, <3>2, PCs DEF HandlerTypes, Modes, Goto, locks
      <3>3. CASE Goto(c, "lookup", "draft") /\ UNCHANGED <<locks, at, route, draft, todo, req, calls>>
        BY <1>0, <3>3, PCs, Moved DEF locks
      <3> QED BY <1>3, <3>1, <3>2, <3>3 DEF Lookup
    <2>2. Alone(c)
      BY <1>3, <1>0 DEF Lookup, HandlerTypes, Alone, Goto, locks, Return
    <2> QED BY <2>1, <2>2
  <1>4. ASSUME ReadMode(c) PROVE HandlerTypes' /\ Alone(c)
    <2>1. HandlerTypes'
      <3>1. CASE Return(c)
        BY <1>0, <1>4, <3>1, Returned DEF ReadMode
      <3>2. CASE ~Return(c)
        <4>1. at[c] \in 1..Len(models)
          BY <1>4, <1>b DEF ReadMode, AtModel
        <4>2. models[at[c]].mode \in Modes
          <5>1. models[at[c]] \in LoadedModel
            BY <1>a, <4>1
          <5> QED BY <5>1 DEF LoadedModel
        <4> QED BY <1>0, <1>4, <3>2, <4>2, PCs DEF ReadMode, HandlerTypes, Goto, locks
      <3> QED BY <3>1, <3>2
    <2>2. Alone(c)
      BY <1>4, <1>0 DEF ReadMode, HandlerTypes, Alone, Goto, locks, Return
    <2> QED BY <2>1, <2>2
  <1>5. ASSUME ReadBound(c) PROVE HandlerTypes' /\ Alone(c)
    <2>1. HandlerTypes'
      BY <1>5, <1>0, PCs, Nexts, ReqType DEF ReadBound, HandlerTypes, Modes, Goto, locks
    <2>2. Alone(c)
      BY <1>5, <1>0 DEF ReadBound, HandlerTypes, Alone, Goto, locks
    <2> QED BY <2>1, <2>2
  <1>6. ASSUME Grant(c) PROVE HandlerTypes' /\ Alone(c)
    <2>1. HandlerTypes'
      BY <1>6, <1>0, PCs, Nexts, ReqType DEF Grant, HandlerTypes, Modes, Goto
    <2>2. Alone(c)
      BY <1>6, <1>0 DEF Grant, HandlerTypes, Alone, Goto
    <2> QED BY <2>1, <2>2
  <1>7. ASSUME AnswerBusy(c) PROVE HandlerTypes' /\ Alone(c)
    <2>1. HandlerTypes'
      BY <1>7, <1>0, PCs, Nexts, ReqType DEF AnswerBusy, HandlerTypes, Modes, Return
    <2>2. Alone(c)
      BY <1>7, <1>0 DEF AnswerBusy, HandlerTypes, Alone, Return
    <2> QED BY <2>1, <2>2
  <1>8. ASSUME EnsureLoaded(c) PROVE HandlerTypes' /\ Alone(c)
    <2>1. HandlerTypes'
      BY <1>8, <1>0, PCs, Nexts, ReqType DEF EnsureLoaded, HandlerTypes, Modes, Goto, locks
    <2>2. Alone(c)
      BY <1>8, <1>0 DEF EnsureLoaded, HandlerTypes, Alone, Goto, locks
    <2> QED BY <2>1, <2>2
  <1>9. ASSUME StartRun(c) PROVE HandlerTypes' /\ Alone(c)
    <2>1. HandlerTypes'
      BY <1>9, <1>0, PCs, Nexts, ReqType DEF StartRun, HandlerTypes, Modes, Goto, locks,
         Return
    <2>2. Alone(c)
      BY <1>9, <1>0 DEF StartRun, HandlerTypes, Alone, Goto, locks, Return
    <2> QED BY <2>1, <2>2
  <1>10. ASSUME LockMetadata(c) PROVE HandlerTypes' /\ Alone(c)
    <2>1. HandlerTypes'
      BY <1>10, <1>0, PCs, Nexts, ReqType DEF LockMetadata, HandlerTypes, Modes, Goto
    <2>2. Alone(c)
      BY <1>10, <1>0 DEF LockMetadata, HandlerTypes, Alone, Goto
    <2> QED BY <2>1, <2>2
  <1>11. ASSUME Reconfigure(c) PROVE HandlerTypes' /\ Alone(c)
    <2>1. HandlerTypes'
      BY <1>11, <1>0, PCs, Nexts, ReqType DEF Reconfigure, HandlerTypes, Modes, Goto, locks,
         Return
    <2>2. Alone(c)
      BY <1>11, <1>0 DEF Reconfigure, HandlerTypes, Alone, Goto, locks, Return
    <2> QED BY <2>1, <2>2
  <1>12. ASSUME FinishLoad(c) PROVE HandlerTypes' /\ Alone(c)
    <2>1. HandlerTypes'
      BY <1>12, <1>0, PCs, Nexts, ReqType DEF FinishLoad, HandlerTypes, Modes, Return
    <2>2. Alone(c)
      BY <1>12, <1>0 DEF FinishLoad, HandlerTypes, Alone, Return
    <2> QED BY <2>1, <2>2
  <1>13. ASSUME MakeDraft(c) PROVE HandlerTypes' /\ Alone(c)
    <2>1. HandlerTypes'
      <3>1. CASE Return(c)
        BY <1>0, <1>13, <3>1, Returned DEF MakeDraft
      <3>2. CASE /\ Parses(req[c].config)
                 /\ draft' = [draft EXCEPT ![c] = make_model(req[c].id, req[c].config)]
                 /\ Goto(c, "draft", "draftload")
                 /\ UNCHANGED <<locks, at, route, todo, req, calls>>
        <4>1. make_model(req[c].id, req[c].config) \in LoadedModel
          BY <1>0, <3>2, ReqType DEF HandlerTypes, make_model, LoadedModel, Parses
        <4> QED BY <1>0, <3>2, <4>1, PCs DEF HandlerTypes, Goto, locks
      <3> QED BY <1>13, <3>1, <3>2 DEF MakeDraft
    <2>2. Alone(c)
      BY <1>13, <1>0 DEF MakeDraft, HandlerTypes, Alone, Goto, locks, Return
    <2> QED BY <2>1, <2>2
  <1>14. ASSUME RegisterIndex(c) PROVE HandlerTypes' /\ Alone(c)
    <2>1. HandlerTypes'
      <3>1. CASE Return(c)
        BY <1>0, <1>14, <3>1, Returned DEF RegisterIndex
      <3>2. CASE ~Return(c)
        BY <1>0, <1>14, <3>2, PCs, Moved DEF RegisterIndex
      <3> QED BY <3>1, <3>2
    <2>2. Alone(c)
      BY <1>14, <1>0 DEF RegisterIndex, HandlerTypes, Alone, Goto, Return
    <2> QED BY <2>1, <2>2
  <1>15. ASSUME PushModel(c) PROVE HandlerTypes' /\ Alone(c)
    <2>1. HandlerTypes'
      BY <1>15, <1>0, PCs, Nexts, ReqType DEF PushModel, HandlerTypes, Modes, Return
    <2>2. Alone(c)
      BY <1>15, <1>0 DEF PushModel, HandlerTypes, Alone, Return
    <2> QED BY <2>1, <2>2
  <1>16. ASSUME Sweep(c) PROVE HandlerTypes' /\ Alone(c)
    <2>1. HandlerTypes'
      <3>1. CASE Return(c)
        BY <1>0, <1>16, <3>1, Returned DEF Sweep
      <3>2. CASE ~Return(c)
        BY <1>0, <1>a, <1>16, <3>2, PCs DEF Sweep, HandlerTypes, Goto, locks
      <3> QED BY <3>1, <3>2
    <2>2. Alone(c)
      BY <1>16, <1>0 DEF Sweep, HandlerTypes, Alone, Goto, locks, Return
    <2> QED BY <2>1, <2>2
  <1>17. ASSUME SweepAll(c) PROVE HandlerTypes' /\ Alone(c)
    <2>1. HandlerTypes'
      <3>1. CASE \E i \in todo[c] :
                   /\ at' = [at EXCEPT ![c] = i]
                   /\ todo' = [todo EXCEPT ![c] = @ \ {i}]
                   /\ Goto(c, "sweepall", "asking")
                   /\ UNCHANGED <<meta, turn, route, draft, req, calls>>
        BY <1>0, <3>1, PCs DEF HandlerTypes, Goto
      <3>2. CASE \E i \in todo[c] : NextSweep(c, todo[c] \ {i}) /\ UNCHANGED <<req, calls>>
        BY <1>0, <3>2, SweepGoesOn DEF HandlerTypes
      <3>3. CASE Return(c) /\ UNCHANGED <<req, calls>>
        BY <1>0, <3>3, Returned
      <3> QED BY <1>17, <3>1, <3>2, <3>3 DEF SweepAll
    <2>2. Alone(c)
      BY <1>17, <1>0 DEF SweepAll, HandlerTypes, Alone, Goto, Return, NextSweep
    <2> QED BY <2>1, <2>2
  <1>18. ASSUME ResetModel(c) PROVE HandlerTypes' /\ Alone(c)
    <2>1. HandlerTypes'
      BY <1>0, <1>18, SweepGoesOn DEF ResetModel, HandlerTypes
    <2>2. Alone(c)
      BY <1>18, <1>0 DEF ResetModel, HandlerTypes, Alone, Return, NextSweep
    <2> QED BY <2>1, <2>2
  <1>19. ASSUME BeginList(c) PROVE HandlerTypes' /\ Alone(c)
    <2>1. HandlerTypes'
      BY <1>19, <1>0, PCs, Nexts, ReqType DEF BeginList, HandlerTypes, Modes, Goto
    <2>2. Alone(c)
      BY <1>19, <1>0 DEF BeginList, HandlerTypes, Alone, Goto
    <2> QED BY <2>1, <2>2
  <1>20. ASSUME ListModel(c) PROVE HandlerTypes' /\ Alone(c)
    <2>1. HandlerTypes'
      BY <1>20, <1>0, PCs, Nexts, ReqType DEF ListModel, HandlerTypes, Modes, locks, Return
    <2>2. Alone(c)
      BY <1>20, <1>0 DEF ListModel, HandlerTypes, Alone, locks, Return
    <2> QED BY <2>1, <2>2
  <1>21. ASSUME Refuse(c) PROVE HandlerTypes' /\ Alone(c)
    <2>1. HandlerTypes'
      BY <1>21, <1>0, PCs, Nexts, ReqType DEF Refuse, HandlerTypes, Modes, Goto, locks
    <2>2. Alone(c)
      BY <1>21, <1>0 DEF Refuse, HandlerTypes, Alone, Goto, locks
    <2> QED BY <2>1, <2>2
  <1>22. ASSUME LoadModel(c) PROVE HandlerTypes' /\ Alone(c)
    <2>1. HandlerTypes'
      BY <1>22, <1>0, PCs, Nexts, ReqType DEF LoadModel, HandlerTypes, Modes, Goto, locks
    <2>2. Alone(c)
      BY <1>22, <1>0 DEF LoadModel, HandlerTypes, Alone, Goto, locks
    <2> QED BY <2>1, <2>2
  <1>23. ASSUME LoadFails(c) PROVE HandlerTypes' /\ Alone(c)
    <2>1. HandlerTypes'
      BY <1>23, <1>0, PCs, Nexts, ReqType DEF LoadFails, HandlerTypes, Modes, Return
    <2>2. Alone(c)
      BY <1>23, <1>0 DEF LoadFails, HandlerTypes, Alone, Return
    <2> QED BY <2>1, <2>2
  <1>24. ASSUME LoadDraft(c) PROVE HandlerTypes' /\ Alone(c)
    <2>1. HandlerTypes'
      <3>1. CASE Return(c)
        BY <1>0, <1>24, <3>1, Returned DEF LoadDraft
      <3>2. CASE /\ draft' = [draft EXCEPT ![c] = Resident(@)]
                 /\ Goto(c, "draftload", "register")
                 /\ UNCHANGED <<locks, at, route, todo, req, calls>>
        <4>1. draft[c] \in LoadedModel
          BY <1>24, <1>b DEF LoadDraft, Drafting
        <4>2. Resident(draft[c]) \in LoadedModel
          BY <4>1 DEF Resident, LoadedModel, Session
        <4> QED BY <1>0, <3>2, <4>2, PCs DEF HandlerTypes, Goto, locks
      <3> QED BY <1>24, <3>1, <3>2 DEF LoadDraft
    <2>2. Alone(c)
      BY <1>24, <1>0 DEF LoadDraft, HandlerTypes, Alone, Goto, locks, Return
    <2> QED BY <2>1, <2>2
  <1>25. ASSUME FinishRun(c) PROVE HandlerTypes' /\ Alone(c)
    <2>1. HandlerTypes'
      BY <1>25, <1>0, PCs, Nexts, ReqType DEF FinishRun, HandlerTypes, Modes, Return
    <2>2. Alone(c)
      BY <1>25, <1>0 DEF FinishRun, HandlerTypes, Alone, Return
    <2> QED BY <2>1, <2>2
  <1> QED BY <1>1, <1>2, <1>3, <1>4, <1>5, <1>6, <1>7, <1>8, <1>9, <1>10, <1>11, <1>12,
         <1>13, <1>14, <1>15, <1>16, <1>17, <1>18, <1>19, <1>20, <1>21, <1>22, <1>23, <1>24,
         <1>25 DEF Act, Step, Load

-----------------------------------------------------------------------------
\* What a step does to the list: nothing; a sound change of the model whose turn the
\* handler has; or one more model.
LEMMA ModelsStep ==
  ASSUME Types, Places, ModelsAreSound, NEW c \in Clients, Act(c)
  PROVE  \/ models' = models /\ pc[c] # "push"
         \/ /\ pc[c] \in Holding
            /\ \E m \in LoadedModel : /\ m.id = models[at[c]].id /\ Sound(m)
                                      /\ models' = [models EXCEPT ![at[c]] = m]
         \/ pc[c] = "push" /\ models' = Append(models, draft[c])
  <1> DEFINE Kept == models' = models /\ pc[c] # "push"
             Set(m) == models' = [models EXCEPT ![at[c]] = m]
  <1>a. pc[c] \in AtModel => models[at[c]] \in LoadedModel /\ Sound(models[at[c]])
    <2>1. pc[c] \in AtModel => at[c] \in 1..Len(models)
      BY DEF Places
    <2>2. models \in Seq(LoadedModel)
      BY DEF Types, HandlerTypes
    <2> QED BY <2>1, <2>2 DEF ModelsAreSound
  <1>b. req[c] \in Requests
    BY DEF Types, HandlerTypes
  <1>c. \A id \in Ids, k \in Configs : Parses(k) =>
           /\ make_model(id, k) \in LoadedModel /\ make_model(id, k).id = id
           /\ Sound(make_model(id, k))
    BY DEF make_model, LoadedModel, Sound, Parses
  <1>1. CASE \/ Begin(c) \/ LiveLimits(c) \/ Lookup(c) \/ ReadMode(c) \/ ReadBound(c)
             \/ Grant(c) \/ AnswerBusy(c) \/ EnsureLoaded(c) \/ StartRun(c) \/ LockMetadata(c)
             \/ FinishLoad(c) \/ MakeDraft(c) \/ RegisterIndex(c) \/ Sweep(c) \/ SweepAll(c)
             \/ BeginList(c) \/ ListModel(c) \/ Refuse(c) \/ LoadFails(c) \/ LoadDraft(c)
             \/ FinishRun(c)
    <2>1. Begin(c) => Kept
      BY DEF Begin, Goto
    <2>2. LiveLimits(c) => Kept
      BY DEF LiveLimits, Goto
    <2>3. Lookup(c) => Kept
      BY DEF Lookup, Goto
    <2>4. ReadMode(c) => Kept
      BY DEF ReadMode, Goto
    <2>5. ReadBound(c) => Kept
      BY DEF ReadBound, Goto
    <2>6. Grant(c) => Kept
      BY DEF Grant, Goto
    <2>7. AnswerBusy(c) => Kept
      BY DEF AnswerBusy, Goto
    <2>8. EnsureLoaded(c) => Kept
      BY DEF EnsureLoaded, Goto
    <2>9. StartRun(c) => Kept
      BY DEF StartRun, Goto
    <2>10. LockMetadata(c) => Kept
      BY DEF LockMetadata, Goto
    <2>11. FinishLoad(c) => Kept
      BY DEF FinishLoad, Goto
    <2>12. MakeDraft(c) => Kept
      BY DEF MakeDraft, Goto
    <2>13. RegisterIndex(c) => Kept
      BY DEF RegisterIndex, Goto
    <2>14. Sweep(c) => Kept
      BY DEF Sweep, Goto
    <2>15. SweepAll(c) => Kept
      BY DEF SweepAll, Goto
    <2>16. BeginList(c) => Kept
      BY DEF BeginList, Goto
    <2>17. ListModel(c) => Kept
      BY DEF ListModel, Goto
    <2>18. Refuse(c) => Kept
      BY DEF Refuse, Goto
    <2>19. LoadFails(c) => Kept
      BY DEF LoadFails, Goto
    <2>20. LoadDraft(c) => Kept
      BY DEF LoadDraft, Goto
    <2>21. FinishRun(c) => Kept
      BY DEF FinishRun, Goto
    <2> QED BY <1>1, <2>1, <2>2, <2>3, <2>4, <2>5, <2>6, <2>7, <2>8, <2>9, <2>10, <2>11,
           <2>12, <2>13, <2>14, <2>15, <2>16, <2>17, <2>18, <2>19, <2>20, <2>21
  <1>2. CASE LoadModel(c)
    <2>1. Set(Resident(models[at[c]])) /\ pc[c] = "loading"
      BY <1>2 DEF LoadModel
    <2>2. models[at[c]] \in LoadedModel /\ Sound(models[at[c]])
      BY <1>a, <2>1 DEF AtModel, Holding
    <2>3. /\ Resident(models[at[c]]) \in LoadedModel /\ Resident(models[at[c]]).id = models[at[c]].id
          /\ Sound(Resident(models[at[c]]))
      BY <2>2 DEF Resident, LoadedModel, Session, Sound
    <2> QED BY <2>1, <2>3 DEF Holding
  <1>3. CASE Reconfigure(c)
    <2>1. pc[c] = "compare"
      BY <1>3 DEF Reconfigure
    <2>2. models[at[c]] \in LoadedModel /\ Sound(models[at[c]])
      BY <1>a, <2>1 DEF AtModel, Holding
    <2>3. /\ models[at[c]].id \in Ids /\ models[at[c]].task \in Tasks
          /\ models[at[c]].mode \in Modes /\ req[c].config \in Configs
      BY <1>b, <2>2, ReqType DEF LoadedModel
    <2>4. CASE Parses(req[c].config) /\ Set(make_model(models[at[c]].id, req[c].config))
      BY <1>c, <2>1, <2>3, <2>4 DEF Holding
    <2>5. CASE /\ ~Parses(req[c].config)
               /\ Set([make_model(models[at[c]].id, req[c].config)
                          EXCEPT !.task = models[at[c]].task, !.mode = models[at[c]].mode])
      <3> DEFINE m == [make_model(models[at[c]].id, req[c].config)
                          EXCEPT !.task = models[at[c]].task, !.mode = models[at[c]].mode]
      <3>1. m \in LoadedModel /\ m.id = models[at[c]].id /\ Sound(m)
        BY <2>3, <2>5 DEF make_model, LoadedModel, Sound
      <3> QED BY <2>1, <2>5, <3>1 DEF Holding
    <2> QED BY <1>3, <2>4, <2>5, <2>1 DEF Reconfigure
  <1>4. CASE ResetModel(c)
    <2>1. pc[c] = "reset" /\ Set(IF req[c].kind = "unload"
                              THEN [unload(models[at[c]]) EXCEPT !.loaded = FALSE] ELSE unload(models[at[c]]))
      BY <1>4 DEF ResetModel
    <2>2. models[at[c]] \in LoadedModel /\ Sound(models[at[c]])
      BY <1>a, <2>1 DEF AtModel, Holding
    <2>3. \A m \in {unload(models[at[c]]), [unload(models[at[c]]) EXCEPT !.loaded = FALSE]} :
             m \in LoadedModel /\ m.id = models[at[c]].id /\ Sound(m)
      BY <2>2 DEF unload, LoadedModel, Sound
    <2> QED BY <2>1, <2>3 DEF Holding
  <1>5. CASE PushModel(c)
    BY <1>5 DEF PushModel
  <1> QED BY <1>1, <1>2, <1>3, <1>4, <1>5 DEF Act, Step, Load

\* So the models keep their places and ids, and stay sound.
LEMMA ListKept ==
  ASSUME Types, Places, ModelsAreSound, NEW c \in Clients, Act(c)
  PROVE  /\ models' \in Seq(LoadedModel)
         /\ pc[c] # "push" => Len(models') = Len(models)
         /\ pc[c] = "push" => Len(models') = Len(models) + 1 /\ models'[Len(models) + 1] = draft[c]
         /\ \A i \in 1..Len(models) :
               /\ models'[i].id = models[i].id
               /\ models'[i] = models[i] \/ (pc[c] \in Holding /\ at[c] = i)
         /\ \A i \in 1..Len(models') : Sound(models'[i])
  <1>a. models \in Seq(LoadedModel) /\ \A i \in 1..Len(models) : Sound(models[i])
    BY DEF Types, HandlerTypes, ModelsAreSound
  <1>1. CASE models' = models /\ pc[c] # "push"
    BY <1>a, <1>1
  <1>2. CASE pc[c] \in Holding /\ \E m \in LoadedModel :
                 m.id = models[at[c]].id /\ Sound(m) /\ models' = [models EXCEPT ![at[c]] = m]
    <2>1. PICK m \in LoadedModel :
                 m.id = models[at[c]].id /\ Sound(m) /\ models' = [models EXCEPT ![at[c]] = m]
      BY <1>2
    <2>2. at[c] \in 1..Len(models) /\ pc[c] # "push"
      BY <1>2 DEF Places, AtModel, Holding
    <2> QED BY <1>a, <1>2, <2>1, <2>2
  <1>3. CASE pc[c] = "push" /\ models' = Append(models, draft[c])
    <2>1. draft[c] \in LoadedModel /\ Sound(draft[c])
      BY <1>3 DEF ModelsAreSound, Drafting
    <2> QED BY <1>a, <1>3, <2>1
  <1> QED BY <1>1, <1>2, <1>3, ModelsStep

-----------------------------------------------------------------------------
\* What a step does about the turn of the model its handler works on.
Free(place) == place \notin AtModel \ {"mode", "bound"}
DropTurn(c) == turn' = [i \in Positions |-> IF turn[i] = c THEN Nobody ELSE turn[i]]

Out(c)       == Free(pc[c]) /\ Free(pc'[c]) /\ turn' = turn
Asks(c)      == Free(pc[c]) /\ pc'[c] = "asking" /\ turn' = turn /\ req' = req
Takes(c)     == /\ pc[c] = "asking" /\ pc'[c] \in Holding
                /\ turn[at[c]] = Nobody /\ turn' = [turn EXCEPT ![at[c]] = c]
                /\ at' = at /\ req' = req
IsRefused(c) == /\ pc[c] = "asking" /\ pc'[c] = "busy" /\ req[c].bounded
                /\ turn' = turn /\ at' = at /\ req' = req
Holds(c)     == /\ pc[c] \in Holding /\ pc'[c] \in Holding
                /\ turn' = turn /\ at' = at /\ req' = req
Leaves(c)    == pc[c] # "asking" /\ Free(pc'[c]) /\ DropTurn(c)

\* Every step is one of these.
LEMMA TurnStep ==
  ASSUME Types, NEW c \in Clients, Act(c)
  PROVE  Out(c) \/ Asks(c) \/ Takes(c) \/ IsRefused(c) \/ Holds(c) \/ Leaves(c)
  <1>a. pc \in [Clients -> PC] /\ req[c].kind \in Kinds
    BY ReqType DEF Types, HandlerTypes
  <1>b. /\ \A k \in Kinds : Free(FirstStep(k)) /\ WithTurn(k) \in Holding /\ AfterLoad(k) \in Holding
        /\ \A k \in Requests : k.kind \in Kinds
    BY ReqType DEF Free, AtModel, Holding, FirstStep, WithTurn, AfterLoad
  <1>c. Return(c) => pc'[c] = "away" /\ DropTurn(c)
    BY <1>a DEF Return, DropTurn
  <1>d. \A left : NextSweep(c, left) => pc'[c] \in {"away", "sweepall"} /\ DropTurn(c)
    BY <1>a, <1>c DEF NextSweep, DropTurn
  <1> USE <1>a, <1>b, <1>c, <1>d DEF Goto, locks
  <1>1. CASE Begin(c)
    BY <1>1 DEF Begin, Out, Free, AtModel, Holding
  <1>2. CASE LiveLimits(c)
    BY <1>2 DEF LiveLimits, Out, Leaves, Free, AtModel, Holding
  <1>3. CASE Lookup(c)
    BY <1>3 DEF Lookup, Out, Leaves, Free, AtModel, Holding
  <1>4. CASE ReadMode(c)
    BY <1>4 DEF ReadMode, Out, Leaves, Free, AtModel, Holding
  <1>5. CASE ReadBound(c)
    BY <1>5 DEF ReadBound, Asks, Free, AtModel, Holding
  <1>6. CASE Grant(c)
    BY <1>6 DEF Grant, Takes, Free, AtModel, Holding
  <1>7. CASE AnswerBusy(c)
    BY <1>7 DEF AnswerBusy, Leaves, Free, AtModel, Holding
  <1>8. CASE EnsureLoaded(c)
    BY <1>8 DEF EnsureLoaded, Holds, Free, AtModel, Holding
  <1>9. CASE StartRun(c)
    BY <1>9 DEF StartRun, Holds, Leaves, Free, AtModel, Holding
  <1>10. CASE LockMetadata(c)
    BY <1>10 DEF LockMetadata, Holds, Free, AtModel, Holding
  <1>11. CASE Reconfigure(c)
    BY <1>11 DEF Reconfigure, Holds, Leaves, Free, AtModel, Holding
  <1>12. CASE FinishLoad(c)
    BY <1>12 DEF FinishLoad, Leaves, Free, AtModel, Holding
  <1>13. CASE MakeDraft(c)
    BY <1>13 DEF MakeDraft, Out, Leaves, Free, AtModel, Holding
  <1>14. CASE RegisterIndex(c)
    BY <1>14 DEF RegisterIndex, Out, Leaves, Free, AtModel, Holding
  <1>15. CASE PushModel(c)
    BY <1>15 DEF PushModel, Leaves, Free, AtModel, Holding
  <1>16. CASE Sweep(c)
    BY <1>16 DEF Sweep, Asks, Leaves, Free, AtModel, Holding
  <1>17. CASE SweepAll(c)
    BY <1>17 DEF SweepAll, Asks, Leaves, Free, AtModel, Holding
  <1>18. CASE ResetModel(c)
    BY <1>18 DEF ResetModel, Leaves, Free, AtModel, Holding
  <1>19. CASE BeginList(c)
    BY <1>19 DEF BeginList, Out, Free, AtModel, Holding
  <1>20. CASE ListModel(c)
    BY <1>20 DEF ListModel, Out, Leaves, Free, AtModel, Holding
  <1>21. CASE Refuse(c)
    BY <1>21 DEF Refuse, IsRefused, Free, AtModel, Holding
  <1>22. CASE LoadModel(c)
    BY <1>22 DEF LoadModel, Holds, Free, AtModel, Holding
  <1>23. CASE LoadFails(c)
    BY <1>23 DEF LoadFails, Leaves, Free, AtModel, Holding
  <1>24. CASE LoadDraft(c)
    BY <1>24 DEF LoadDraft, Out, Leaves, Free, AtModel, Holding
  <1>25. CASE FinishRun(c)
    BY <1>25 DEF FinishRun, Leaves, Free, AtModel, Holding
  <1> QED BY <1>1, <1>2, <1>3, <1>4, <1>5, <1>6, <1>7, <1>8, <1>9, <1>10, <1>11, <1>12,
         <1>13, <1>14, <1>15, <1>16, <1>17, <1>18, <1>19, <1>20, <1>21, <1>22, <1>23, <1>24,
         <1>25 DEF Act, Step, Load

-----------------------------------------------------------------------------
\* No more models than ids: their ids are distinct, and that being registered is new.
LEMMA RoomForAll ==
  ASSUME Types, Registered
  PROVE  /\ 1..Len(models) \subseteq Positions
         /\ \A c \in Clients : pc[c] = "push" => Len(models) + 1 \in Positions
         /\ Cardinality(Ids) \in Nat
  <1>a. models \in Seq(LoadedModel) /\ Len(models) \in Nat
    BY DEF Types, HandlerTypes
  <1>b. \A i \in 1..Len(models) : models[i].id \in Ids
    <2> SUFFICES ASSUME NEW i \in 1..Len(models) PROVE models[i].id \in Ids
      OBVIOUS
    <2>1. models[i] \in LoadedModel
      BY <1>a
    <2> QED BY <2>1 DEF LoadedModel
  <1>c. Cardinality(Ids) \in Nat /\ IsFiniteSet(Ids)
    BY DataAssumption, FS_CardinalityType
  <1>1. Len(models) <= Cardinality(Ids)
    <2> DEFINE f == [i \in 1..Len(models) |-> models[i].id]
    <2>1. \A i, j \in 1..Len(models) : models[i].id = models[j].id => i = j
      BY DEF Registered
    <2>2. f \in Injection(1..Len(models), Ids)
      BY <1>b, <2>1, Zenon DEF Injection, IsInjective
    <2>3. Cardinality(1..Len(models)) <= Cardinality(Ids)
      BY <1>c, <2>2, FS_Injection
    <2>4. \A n \in Nat : Cardinality(1..n) = n
      <3> SUFFICES ASSUME NEW n \in Nat PROVE Cardinality(1..n) = n
        OBVIOUS
      <3>1. Cardinality(1..n) = IF 1 > n THEN 0 ELSE n - 1 + 1
        BY FS_Interval
      <3> QED BY <3>1
    <2> QED BY <1>a, <2>3, <2>4
  <1>2. ASSUME NEW c \in Clients, pc[c] = "push" PROVE Len(models) + 1 <= Cardinality(Ids)
    <2> DEFINE n == Len(models) + 1
               f == [i \in 1..n |-> IF i = n THEN req[c].id ELSE models[i].id]
    <2>1. req[c].id \in Ids
      BY ReqType DEF Types, HandlerTypes
    <2>2. req[c].id \in DOMAIN index /\ index[req[c].id] = n
      BY <1>2 DEF Registered
    <2>3. \A i \in 1..Len(models) : index[models[i].id] = i
      BY DEF Registered
    <2>4. \A i \in 1..n : i = n \/ i \in 1..Len(models)
      BY <1>a
    <2>5. \A i, j \in 1..n : f[i] = f[j] => i = j
      <3>1. \A i \in 1..n : index[f[i]] = i
        BY <2>2, <2>3, <2>4
      <3> QED BY <3>1
    <2>6. \A i \in 1..n : f[i] \in Ids
      BY <1>b, <2>1, <2>4
    <2>7. f \in Injection(1..n, Ids)
      <3>1. f \in [1..n -> Ids]
        BY <2>6
      <3> HIDE DEF f
      <3> QED BY <2>5, <3>1, Zenon DEF Injection, IsInjective
    <2>8. Cardinality(1..n) <= Cardinality(Ids)
      BY <1>c, <2>7, FS_Injection
    <2>9. n \in Nat /\ n >= 1
      BY <1>a
    <2>10. Cardinality(1..n) = n
      BY <2>9, FS_Interval
    <2> QED BY <2>8, <2>10
  <1> QED BY <1>a, <1>c, <1>1, <1>2 DEF Positions

\* Every step keeps the turns with the handlers in the places that have them.
LEMMA TurnsStep ==
  ASSUME IInv, NEW c \in Clients, Act(c)
  PROVE  Turns'
  <1>a. Types /\ Places /\ Registered /\ ModelsAreSound /\ Turns /\ HandlerTypes' /\ Alone(c)
    BY HandlerStep DEF IInv
  <1>b. c # Nobody /\ Nobody \notin Clients
    BY NobodyAssumption
  <1>c. turn \in [Positions -> Clients \cup {Nobody}] /\ at \in [Clients -> Nat] /\ pc \in [Clients -> PC]
    BY <1>a DEF Types, HandlerTypes
  <1> SUFFICES ASSUME NEW i \in Positions, NEW d \in Clients
               PROVE  turn'[i] = d <=> (pc'[d] \in Holding /\ at'[d] = i)
    BY DEF Turns, Positions
  <1>d. turn[i] = d <=> (pc[d] \in Holding /\ at[d] = i)
    BY <1>a DEF Turns
  <1>e. turn[i] = c <=> (pc[c] \in Holding /\ at[c] = i)
    BY <1>a DEF Turns
  <1>f. d # c => pc'[d] = pc[d] /\ at'[d] = at[d]
    BY <1>a DEF Alone
  <1>1. CASE Out(c) \/ Asks(c) \/ IsRefused(c) \/ Holds(c)
    BY <1>1, <1>d, <1>f DEF Out, Asks, IsRefused, Holds, Free, AtModel, Holding
  <1>2. CASE Takes(c)
    <2>1. at[c] \in Positions
      BY <1>2, <1>a, RoomForAll DEF Takes, Places, AtModel
    <2>2. CASE at[c] = i
      BY <1>2, <1>b, <1>c, <1>d, <1>f, <2>1, <2>2 DEF Takes
    <2>3. CASE at[c] # i
      BY <1>2, <1>b, <1>c, <1>d, <1>e, <1>f, <2>1, <2>3 DEF Takes
    <2> QED BY <2>2, <2>3
  <1>3. CASE Leaves(c)
    <2>1. turn'[i] = IF turn[i] = c THEN Nobody ELSE turn[i]
      BY <1>3 DEF Leaves, DropTurn
    <2>2. pc'[c] \notin Holding
      BY <1>3 DEF Leaves, Free, AtModel, Holding
    <2>3. CASE d = c
      BY <1>b, <2>1, <2>2, <2>3
    <2>4. CASE d # c
      BY <1>b, <1>d, <1>f, <2>1, <2>4
    <2> QED BY <2>3, <2>4
  <1> QED BY <1>1, <1>2, <1>3, <1>a, TurnStep

-----------------------------------------------------------------------------
\* What a step does to the registry's lock and index.
Unregistered(place) == place \notin {"push", "listing"}

Apart(c)     == Unregistered(pc[c]) /\ Unregistered(pc'[c]) /\ registry' = registry /\ index' = index
Opens(c)     == /\ Unregistered(pc[c]) /\ pc'[c] = "listing"
                /\ registry = Nobody /\ registry' = c /\ index' = index
Lists(c)     == pc[c] = "listing" /\ pc'[c] = "listing" /\ registry' = registry /\ index' = index
Closes(c)    == pc[c] = "listing" /\ Unregistered(pc'[c]) /\ registry' = Nobody /\ index' = index
Pushes(c)    == pc[c] = "push" /\ Unregistered(pc'[c]) /\ registry' = Nobody /\ index' = index /\ req' = req
Registers(c) == /\ Unregistered(pc[c]) /\ pc'[c] = "push" /\ req' = req
                /\ registry = Nobody /\ registry' = c
                /\ req[c].id \notin DOMAIN index
                /\ index' = [i \in DOMAIN index \cup {req[c].id} |->
                                IF i = req[c].id THEN Len(models) + 1 ELSE index[i]]

\* Every step is one of these.
LEMMA RegistryStep ==
  ASSUME Types, NEW c \in Clients, Act(c)
  PROVE  Apart(c) \/ Opens(c) \/ Lists(c) \/ Closes(c) \/ Pushes(c) \/ Registers(c)
  <1>a. pc \in [Clients -> PC] /\ req[c].kind \in Kinds
    BY ReqType DEF Types, HandlerTypes
  <1>b. /\ \A k \in Kinds : /\ Unregistered(FirstStep(k)) /\ Unregistered(WithTurn(k))
                            /\ Unregistered(AfterLoad(k))
        /\ \A k \in Requests : k.kind \in Kinds
    BY ReqType DEF Unregistered, FirstStep, WithTurn, AfterLoad
  <1>c. Return(c) => pc'[c] = "away"
    BY <1>a DEF Return
  <1>d. \A left : NextSweep(c, left) => pc'[c] \in {"away", "sweepall"}
    BY <1>a, <1>c DEF NextSweep
  <1> USE <1>a, <1>b, <1>c, <1>d DEF Goto, locks
  <1>1. CASE Begin(c)
    BY <1>1 DEF Begin, Apart, Unregistered
  <1>2. CASE LiveLimits(c)
    BY <1>2 DEF LiveLimits, Apart, Unregistered
  <1>3. CASE Lookup(c)
    BY <1>3 DEF Lookup, Apart, Unregistered
  <1>4. CASE ReadMode(c)
    BY <1>4 DEF ReadMode, Apart, Unregistered
  <1>5. CASE ReadBound(c)
    BY <1>5 DEF ReadBound, Apart, Unregistered
  <1>6. CASE Grant(c)
    BY <1>6 DEF Grant, Apart, Unregistered
  <1>7. CASE AnswerBusy(c)
    BY <1>7 DEF AnswerBusy, Apart, Unregistered
  <1>8. CASE EnsureLoaded(c)
    BY <1>8 DEF EnsureLoaded, Apart, Unregistered
  <1>9. CASE StartRun(c)
    BY <1>9 DEF StartRun, Apart, Unregistered
  <1>10. CASE LockMetadata(c)
    BY <1>10 DEF LockMetadata, Apart, Unregistered
  <1>11. CASE Reconfigure(c)
    BY <1>11 DEF Reconfigure, Apart, Unregistered
  <1>12. CASE FinishLoad(c)
    BY <1>12 DEF FinishLoad, Apart, Unregistered
  <1>13. CASE MakeDraft(c)
    BY <1>13 DEF MakeDraft, Apart, Unregistered
  <1>14. CASE RegisterIndex(c)
    BY <1>14 DEF RegisterIndex, Apart, Registers, Unregistered
  <1>15. CASE PushModel(c)
    BY <1>15 DEF PushModel, Pushes, Unregistered
  <1>16. CASE Sweep(c)
    BY <1>16 DEF Sweep, Apart, Unregistered
  <1>17. CASE SweepAll(c)
    BY <1>17 DEF SweepAll, Apart, Unregistered
  <1>18. CASE ResetModel(c)
    BY <1>18 DEF ResetModel, Apart, Unregistered
  <1>19. CASE BeginList(c)
    BY <1>19 DEF BeginList, Opens, Unregistered
  <1>20. CASE ListModel(c)
    BY <1>20 DEF ListModel, Lists, Closes, Unregistered
  <1>21. CASE Refuse(c)
    BY <1>21 DEF Refuse, Apart, Unregistered
  <1>22. CASE LoadModel(c)
    BY <1>22 DEF LoadModel, Apart, Unregistered
  <1>23. CASE LoadFails(c)
    BY <1>23 DEF LoadFails, Apart, Unregistered
  <1>24. CASE LoadDraft(c)
    BY <1>24 DEF LoadDraft, Apart, Unregistered
  <1>25. CASE FinishRun(c)
    BY <1>25 DEF FinishRun, Apart, Unregistered
  <1> QED BY <1>1, <1>2, <1>3, <1>4, <1>5, <1>6, <1>7, <1>8, <1>9, <1>10, <1>11, <1>12,
         <1>13, <1>14, <1>15, <1>16, <1>17, <1>18, <1>19, <1>20, <1>21, <1>22, <1>23, <1>24,
         <1>25 DEF Act, Step, Load

\* Every step keeps the index and the list in agreement.
LEMMA RegisteredStep ==
  ASSUME IInv, NEW c \in Clients, Act(c)
  PROVE  Registered'
  <1>a. Types /\ Places /\ Registered /\ ModelsAreSound /\ HandlerTypes' /\ Alone(c)
    BY HandlerStep DEF IInv
  <1>b. c # Nobody /\ Nobody \notin Clients
    BY NobodyAssumption
  <1>c. /\ Len(models) \in Nat
        /\ \A id \in DOMAIN index : index[id] \in Nat
    BY <1>a DEF Types, HandlerTypes
  <1>d. \A d \in Clients : d # c => pc'[d] = pc[d] /\ req'[d] = req[d]
    BY <1>a DEF Alone
  <1>e. \A d \in Clients : registry = d <=> pc[d] \in {"push", "listing"}
    BY <1>a DEF Registered
  <1>f. /\ pc[c] # "push" => Len(models') = Len(models)
        /\ pc[c] = "push" => Len(models') = Len(models) + 1 /\ models'[Len(models) + 1] = draft[c]
        /\ \A i \in 1..Len(models) : models'[i].id = models[i].id
    BY <1>a, ListKept
  <1>g. pc[c] = "push" => /\ req[c].id \in DOMAIN index /\ index[req[c].id] = Len(models) + 1
                          /\ draft[c].id = req[c].id
    BY <1>a DEF Registered, ModelsAreSound, Drafting
  <1>h. /\ \A d \in Clients : pc[d] = "push" =>
              req[d].id \in DOMAIN index /\ index[req[d].id] = Len(models) + 1
        /\ \A i \in 1..Len(models) : models[i].id \in DOMAIN index /\ index[models[i].id] = i
        /\ \A id \in DOMAIN index :
              \/ index[id] \in 1..Len(models) /\ models[index[id]].id = id
              \/ \E d \in Clients : pc[d] = "push" /\ req[d].id = id
    BY <1>a DEF Registered
  <1>1. \A d \in Clients : registry' = d <=> pc'[d] \in {"push", "listing"}
    <2> SUFFICES ASSUME NEW d \in Clients PROVE registry' = d <=> pc'[d] \in {"push", "listing"}
      OBVIOUS
    <2>1. CASE d = c
      BY <1>a, <1>b, <1>e, <2>1, RegistryStep
         DEF Apart, Opens, Lists, Closes, Pushes, Registers, Unregistered
    <2>2. CASE d # c
      BY <1>a, <1>b, <1>d, <1>e, <2>2, RegistryStep
         DEF Apart, Opens, Lists, Closes, Pushes, Registers, Unregistered
    <2> QED BY <2>1, <2>2
  <1>2. CASE Apart(c) \/ Opens(c) \/ Lists(c) \/ Closes(c)
    <2>1. pc[c] # "push" /\ pc'[c] # "push" /\ index' = index /\ Len(models') = Len(models)
      BY <1>2, <1>f DEF Apart, Opens, Lists, Closes, Unregistered
    <2>2. \A d \in Clients : pc'[d] = "push" =>
             req'[d].id \in DOMAIN index' /\ index'[req'[d].id] = Len(models') + 1
      BY <1>d, <1>h, <2>1
    <2>3. \A i \in 1..Len(models') : models'[i].id \in DOMAIN index' /\ index'[models'[i].id] = i
      BY <1>f, <1>h, <2>1
    <2>4. \A id \in DOMAIN index' :
              \/ index'[id] \in 1..Len(models') /\ models'[index'[id]].id = id
              \/ \E d \in Clients : pc'[d] = "push" /\ req'[d].id = id
      BY <1>d, <1>f, <1>h, <2>1
    <2> QED BY <1>1, <2>2, <2>3, <2>4 DEF Registered
  <1>3. CASE Pushes(c)
    <2>1. /\ pc[c] = "push" /\ pc'[c] # "push" /\ index' = index /\ req' = req
          /\ Len(models') = Len(models) + 1 /\ models'[Len(models) + 1].id = req[c].id
      BY <1>3, <1>f, <1>g DEF Pushes, Unregistered
    <2>2. \A d \in Clients : d # c => pc[d] # "push" /\ pc'[d] # "push"
      BY <1>d, <1>e, <2>1
    <2>3. \A i \in 1..Len(models') : models'[i].id \in DOMAIN index' /\ index'[models'[i].id] = i
      <3> SUFFICES ASSUME NEW i \in 1..Len(models')
                   PROVE  models'[i].id \in DOMAIN index' /\ index'[models'[i].id] = i
        OBVIOUS
      <3>1. CASE i \in 1..Len(models)
        BY <1>f, <1>h, <2>1, <3>1
      <3>2. CASE i = Len(models) + 1
        BY <1>g, <2>1, <3>2
      <3> QED BY <1>c, <2>1, <3>1, <3>2
    <2>4. \A id \in DOMAIN index' : index'[id] \in 1..Len(models') /\ models'[index'[id]].id = id
      <3> SUFFICES ASSUME NEW id \in DOMAIN index
                   PROVE  index[id] \in 1..Len(models') /\ models'[index[id]].id = id
        BY <2>1
      <3>1. CASE index[id] \in 1..Len(models) /\ models[index[id]].id = id
        BY <1>c, <1>f, <2>1, <3>1
      <3>2. CASE id = req[c].id
        BY <1>c, <1>g, <2>1, <3>2
      <3> QED BY <1>h, <2>2, <3>1, <3>2
    <2> QED BY <1>1, <2>1, <2>2, <2>3, <2>4 DEF Registered
  <1>4. CASE Registers(c)
    <2>1. /\ pc[c] # "push" /\ pc'[c] = "push" /\ req' = req /\ Len(models') = Len(models)
          /\ registry = Nobody /\ req[c].id \notin DOMAIN index
      BY <1>4, <1>f DEF Registers, Unregistered
    <2>2. /\ DOMAIN index' = DOMAIN index \cup {req[c].id} /\ index'[req[c].id] = Len(models) + 1
          /\ \A id \in DOMAIN index : index'[id] = index[id]
      BY <1>4, <2>1 DEF Registers
    <2>3. \A d \in Clients : d # c => pc[d] # "push" /\ pc'[d] # "push"
      BY <1>b, <1>d, <1>e, <2>1
    <2>4. \A i \in 1..Len(models') : models'[i].id \in DOMAIN index' /\ index'[models'[i].id] = i
      BY <1>f, <1>h, <2>1, <2>2
    <2>5. \A id \in DOMAIN index' :
              \/ index'[id] \in 1..Len(models') /\ models'[index'[id]].id = id
              \/ \E d \in Clients : pc'[d] = "push" /\ req'[d].id = id
      BY <1>f, <1>h, <2>1, <2>2, <2>3
    <2> QED BY <1>1, <2>1, <2>2, <2>3, <2>4, <2>5 DEF Registered
  <1> QED BY <1>2, <1>3, <1>4, <1>a, RegistryStep

\* Every step keeps the types.
LEMMA TypesStep ==
  ASSUME IInv, NEW c \in Clients, Act(c)
  PROVE  Types'
  <1>a. Types /\ Places /\ ModelsAreSound /\ HandlerTypes'
    BY HandlerStep DEF IInv
  <1>1. models' \in Seq(LoadedModel)
    BY <1>a, ListKept
  <1>2. registry' \in Clients \cup {Nobody}
    BY <1>a, RegistryStep DEF Types, HandlerTypes, Apart, Opens, Lists, Closes, Pushes,
       Registers
  <1>3. DOMAIN index' \subseteq Ids /\ \A id \in DOMAIN index' : index'[id] \in Nat
    <2>1. Len(models) \in Nat /\ req[c].id \in Ids
      BY <1>a, ReqType DEF Types, HandlerTypes
    <2>2. DOMAIN index \subseteq Ids /\ \A id \in DOMAIN index : index[id] \in Nat
      BY <1>a DEF Types, HandlerTypes
    <2>3. CASE index' = index
      BY <2>2, <2>3
    <2>4. CASE index' = [i \in DOMAIN index \cup {req[c].id} |->
                                IF i = req[c].id THEN Len(models) + 1 ELSE index[i]]
      BY <2>1, <2>2, <2>4
    <2> QED BY <1>a, <2>3, <2>4, RegistryStep DEF Apart, Opens, Lists, Closes, Pushes,
           Registers
  <1> QED BY <1>a, <1>1, <1>2, <1>3 DEF Types, HandlerTypes, Positions

-----------------------------------------------------------------------------
\* Where a handler goes, and what a sweep has left, are places of the list.
LEMMA PlacesStep ==
  ASSUME IInv, NEW c \in Clients, Act(c)
  PROVE  Places'
  <1>0. Types /\ Places /\ Registered /\ ModelsAreSound /\ Alone(c)
    BY HandlerStep DEF IInv
  <1>a. /\ at \in [Clients -> Nat] /\ pc \in [Clients -> PC] /\ todo \in [Clients -> SUBSET Nat]
        /\ req[c].kind \in Kinds /\ Len(models) \in Nat
    BY <1>0, ReqType DEF Types, HandlerTypes
  <1>b. /\ at[c] = 0 \/ at[c] \in 1..Len(models)
        /\ pc[c] \in AtModel => at[c] # 0
        /\ todo[c] \subseteq 1..Len(models)
    BY <1>0 DEF Places
  <1>c. \A id \in DOMAIN index : registry = Nobody \/ index[id] <= Len(models) =>
           index[id] \in 1..Len(models)
    <2> SUFFICES ASSUME NEW id \in DOMAIN index, registry = Nobody \/ index[id] <= Len(models),
                        index[id] \notin 1..Len(models)
                 PROVE  FALSE
      OBVIOUS
    <2>1. PICK d \in Clients : pc[d] = "push" /\ req[d].id = id
      BY <1>0 DEF Registered
    <2>2. registry = d /\ index[id] = Len(models) + 1
      BY <1>0, <2>1 DEF Registered
    <2> QED BY <1>a, <2>2, NobodyAssumption
  <1> DEFINE Placed == /\ at'[c] = 0 \/ at'[c] \in 1..Len(models)
                       /\ pc'[c] \in AtModel => at'[c] # 0
                       /\ todo'[c] \subseteq 1..Len(models)
  <1>d. Return(c) => Placed
    BY <1>a DEF Return, AtModel, Holding
  <1>e. \A left : left \subseteq 1..Len(models) /\ NextSweep(c, left) => Placed
    BY <1>a, <1>d DEF NextSweep, AtModel, Holding
  <1>f. /\ \A k \in Kinds : FirstStep(k) \notin AtModel
        /\ \A k \in Requests : k.kind \in Kinds
    BY ReqType DEF FirstStep, AtModel, Holding
  <1> HIDE DEF Placed
  <1>1. Begin(c) => Placed
    BY <1>a, <1>b, <1>f DEF Begin, Placed, Goto, locks
  <1>2. LiveLimits(c) => Placed
    BY <1>a, <1>b, <1>d DEF LiveLimits, Placed, Goto, locks, AtModel, Holding
  <1>3. Lookup(c) => Placed
    <2> SUFFICES ASSUME Lookup(c), ~Return(c) PROVE Placed
      BY <1>d
    <2>1. CASE req[c].id \in DOMAIN index
      <3>1. at' = [at EXCEPT ![c] = index[req[c].id]] /\ todo' = todo /\ registry = Nobody
        BY <2>1 DEF Lookup
      <3>2. index[req[c].id] \in 1..Len(models)
        BY <1>c, <2>1, <3>1
      <3> QED BY <1>a, <1>b, <3>1, <3>2 DEF Placed
    <2>2. CASE req[c].id \notin DOMAIN index
      BY <1>a, <1>b, <2>2 DEF Lookup, Placed, Goto, AtModel, Holding
    <2> QED BY <2>1, <2>2
  <1>4. ReadMode(c) => Placed
    BY <1>a, <1>b, <1>d DEF ReadMode, Placed, Goto, locks, AtModel, Holding
  <1>5. ReadBound(c) => Placed
    BY <1>a, <1>b, <1>d DEF ReadBound, Placed, Goto, locks, AtModel, Holding
  <1>6. Grant(c) => Placed
    BY <1>a, <1>b, <1>d DEF Grant, Placed, Goto, AtModel, Holding
  <1>7. AnswerBusy(c) => Placed
    BY <1>a, <1>b, <1>d DEF AnswerBusy, Placed, AtModel, Holding
  <1>8. EnsureLoaded(c) => Placed
    BY <1>a, <1>b, <1>d DEF EnsureLoaded, Placed, Goto, locks, AtModel, Holding
  <1>9. StartRun(c) => Placed
    BY <1>a, <1>b, <1>d DEF StartRun, Placed, Goto, locks, AtModel, Holding
  <1>10. LockMetadata(c) => Placed
    BY <1>a, <1>b, <1>d DEF LockMetadata, Placed, Goto, AtModel, Holding
  <1>11. Reconfigure(c) => Placed
    BY <1>a, <1>b, <1>d DEF Reconfigure, Placed, Goto, locks, AtModel, Holding
  <1>12. FinishLoad(c) => Placed
    BY <1>a, <1>b, <1>d DEF FinishLoad, Placed, AtModel, Holding
  <1>13. MakeDraft(c) => Placed
    BY <1>a, <1>b, <1>d DEF MakeDraft, Placed, Goto, locks, AtModel, Holding
  <1>14. RegisterIndex(c) => Placed
    BY <1>a, <1>b, <1>d DEF RegisterIndex, Placed, Goto, AtModel, Holding
  <1>15. PushModel(c) => Placed
    BY <1>a, <1>b, <1>d DEF PushModel, Placed, AtModel, Holding
  <1>16. Sweep(c) => Placed
    <2> SUFFICES ASSUME Sweep(c), ~Return(c) PROVE Placed
      BY <1>d
    <2>1. /\ req[c].id \in DOMAIN index /\ index[req[c].id] <= Len(models)
          /\ at' = [at EXCEPT ![c] = index[req[c].id]] /\ todo' = todo
      BY DEF Sweep
    <2> QED BY <1>a, <1>b, <1>c, <2>1 DEF Placed
  <1>17. SweepAll(c) => Placed
    <2> SUFFICES ASSUME SweepAll(c), ~Return(c) PROVE Placed
      BY <1>d
    <2>1. PICK i \in todo[c] : \/ /\ at' = [at EXCEPT ![c] = i]
                                  /\ todo' = [todo EXCEPT ![c] = @ \ {i}]
                               \/ NextSweep(c, todo[c] \ {i})
      BY DEF SweepAll
    <2>2. CASE at' = [at EXCEPT ![c] = i] /\ todo' = [todo EXCEPT ![c] = @ \ {i}]
      BY <1>a, <1>b, <2>2 DEF Placed
    <2>3. CASE NextSweep(c, todo[c] \ {i})
      BY <1>b, <1>e, <2>3
    <2> QED BY <2>1, <2>2, <2>3
  <1>18. ResetModel(c) => Placed
    BY <1>b, <1>e DEF ResetModel
  <1>19. BeginList(c) => Placed
    BY <1>a, <1>b DEF BeginList, Placed, Goto, AtModel, Holding
  <1>20. ListModel(c) => Placed
    BY <1>a, <1>b, <1>d DEF ListModel, Placed, AtModel, Holding
  <1>21. Refuse(c) => Placed
    BY <1>a, <1>b, <1>d DEF Refuse, Placed, Goto, locks, AtModel, Holding
  <1>22. LoadModel(c) => Placed
    BY <1>a, <1>b, <1>d DEF LoadModel, Placed, Goto, locks, AtModel, Holding
  <1>23. LoadFails(c) => Placed
    BY <1>a, <1>b, <1>d DEF LoadFails, Placed, AtModel, Holding
  <1>24. LoadDraft(c) => Placed
    BY <1>a, <1>b, <1>d DEF LoadDraft, Placed, Goto, locks, AtModel, Holding
  <1>25. FinishRun(c) => Placed
    BY <1>a, <1>b, <1>d DEF FinishRun, Placed, AtModel, Holding
  <1>26. Placed
    BY <1>1, <1>2, <1>3, <1>4, <1>5, <1>6, <1>7, <1>8, <1>9, <1>10, <1>11, <1>12, <1>13,
       <1>14, <1>15, <1>16, <1>17, <1>18, <1>19, <1>20, <1>21, <1>22, <1>23, <1>24, <1>25
       DEF Act, Step, Load
  <1>27. Len(models') \in Nat /\ Len(models) <= Len(models')
    BY <1>0, <1>a, ListKept
  <1> QED
    <2> SUFFICES ASSUME NEW d \in Clients
                 PROVE  /\ at'[d] = 0 \/ at'[d] \in 1..Len(models')
                        /\ pc'[d] \in AtModel => at'[d] # 0
                        /\ todo'[d] \subseteq 1..Len(models')
      BY DEF Places, AtModel, Holding
    <2>1. /\ at'[d] = 0 \/ at'[d] \in 1..Len(models)
          /\ pc'[d] \in AtModel => at'[d] # 0
          /\ todo'[d] \subseteq 1..Len(models)
      <3>1. CASE d = c
        BY <1>26, <3>1 DEF Placed
      <3>2. CASE d # c
        BY <1>0, <3>2 DEF Places, Alone
      <3> QED BY <3>1, <3>2
    <2> QED BY <1>a, <1>27, <2>1

-----------------------------------------------------------------------------
\* Models and drafts stay sound.
LEMMA SoundStep ==
  ASSUME IInv, NEW c \in Clients, Act(c)
  PROVE  ModelsAreSound'
  <1>0. Types /\ Places /\ ModelsAreSound /\ Alone(c)
    BY HandlerStep DEF IInv
  <1>a. /\ pc \in [Clients -> PC] /\ req \in [Clients -> Requests]
        /\ draft \in [Clients -> LoadedModel \cup {NoSession}]
        /\ req[c].id \in Ids /\ req[c].config \in Configs /\ req[c].kind \in Kinds
    BY <1>0, ReqType DEF Types, HandlerTypes
  <1>b. pc[c] \in Drafting \cup {"draftload"} =>
           draft[c] \in LoadedModel /\ draft[c].id = req[c].id /\ Sound(draft[c])
    BY <1>0 DEF ModelsAreSound
  <1>c. /\ \A k \in Kinds : {FirstStep(k), WithTurn(k), AfterLoad(k)} \cap (Drafting \cup {"draftload"}) = {}
        /\ \A k \in Requests : k.kind \in Kinds
    BY ReqType DEF FirstStep, WithTurn, AfterLoad, Drafting
  <1>d. Return(c) => pc'[c] = "away"
    BY <1>a DEF Return
  <1>e. \A left : NextSweep(c, left) => pc'[c] \in {"away", "sweepall"}
    BY <1>a, <1>d DEF NextSweep
  <1> DEFINE Drafted == pc'[c] \in Drafting \cup {"draftload"} =>
               draft'[c] \in LoadedModel /\ draft'[c].id = req'[c].id /\ Sound(draft'[c])
  <1>1. MakeDraft(c) => Drafted
    <2> SUFFICES ASSUME MakeDraft(c), pc'[c] # "away" PROVE Drafted
      BY DEF Drafting
    <2>1. /\ Parses(req[c].config) /\ req' = req
          /\ draft'[c] = make_model(req[c].id, req[c].config)
      BY <1>a, <1>d DEF MakeDraft
    <2> QED BY <1>a, <2>1 DEF make_model, LoadedModel, Sound, Parses
  <1>2. LoadDraft(c) => Drafted
    <2> SUFFICES ASSUME LoadDraft(c), pc'[c] # "away" PROVE Drafted
      BY DEF Drafting
    <2>1. draft'[c] = Resident(draft[c]) /\ req' = req /\ pc[c] = "draftload"
      BY <1>a, <1>d DEF LoadDraft
    <2>2. draft[c] \in LoadedModel /\ draft[c].id = req[c].id /\ Sound(draft[c])
      BY <1>b, <2>1
    <2>3. Resident(draft[c]) \in LoadedModel /\ Resident(draft[c]).id = draft[c].id
      BY <2>2 DEF Resident, LoadedModel, Session
    <2>4. Sound(Resident(draft[c]))
      BY <2>2 DEF Resident, LoadedModel, Sound
    <2> QED BY <2>1, <2>2, <2>3, <2>4
  <1>3. RegisterIndex(c) => Drafted
    <2> SUFFICES ASSUME RegisterIndex(c), pc'[c] # "away" PROVE Drafted
      BY DEF Drafting
    <2>1. draft' = draft /\ req' = req /\ pc[c] = "register"
      BY <1>d DEF RegisterIndex
    <2> QED BY <1>b, <2>1 DEF Drafting
  <1>4. ASSUME \/ Begin(c) \/ LiveLimits(c) \/ Lookup(c) \/ ReadMode(c)
               \/ ReadBound(c) \/ Grant(c) \/ AnswerBusy(c) \/ EnsureLoaded(c)
               \/ StartRun(c) \/ LockMetadata(c) \/ Reconfigure(c) \/ FinishLoad(c)
               \/ PushModel(c) \/ Sweep(c) \/ SweepAll(c) \/ ResetModel(c)
               \/ BeginList(c) \/ ListModel(c) \/ Refuse(c) \/ LoadModel(c)
               \/ LoadFails(c) \/ FinishRun(c)
        PROVE  pc'[c] \notin Drafting \cup {"draftload"}
    <2> USE <1>a, <1>c, <1>d, <1>e DEF Goto, Drafting
    <2>1. CASE Begin(c)
      BY <2>1 DEF Begin
    <2>2. CASE LiveLimits(c)
      BY <2>2 DEF LiveLimits
    <2>3. CASE Lookup(c)
      BY <2>3 DEF Lookup
    <2>4. CASE ReadMode(c)
      BY <2>4 DEF ReadMode
    <2>5. CASE ReadBound(c)
      BY <2>5 DEF ReadBound
    <2>6. CASE Grant(c)
      BY <2>6 DEF Grant
    <2>7. CASE AnswerBusy(c)
      BY <2>7 DEF AnswerBusy
    <2>8. CASE EnsureLoaded(c)
      BY <2>8 DEF EnsureLoaded
    <2>9. CASE StartRun(c)
      BY <2>9 DEF StartRun
    <2>10. CASE LockMetadata(c)
      BY <2>10 DEF LockMetadata
    <2>11. CASE Reconfigure(c)
      BY <2>11 DEF Reconfigure
    <2>12. CASE FinishLoad(c)
      BY <2>12 DEF FinishLoad
    <2>13. CASE PushModel(c)
      BY <2>13 DEF PushModel
    <2>14. CASE Sweep(c)
      BY <2>14 DEF Sweep
    <2>15. CASE SweepAll(c)
      BY <2>15 DEF SweepAll
    <2>16. CASE ResetModel(c)
      BY <2>16 DEF ResetModel
    <2>17. CASE BeginList(c)
      BY <2>17 DEF BeginList
    <2>18. CASE ListModel(c)
      BY <2>18 DEF ListModel
    <2>19. CASE Refuse(c)
      BY <2>19 DEF Refuse
    <2>20. CASE LoadModel(c)
      BY <2>20 DEF LoadModel
    <2>21. CASE LoadFails(c)
      BY <2>21 DEF LoadFails
    <2>22. CASE FinishRun(c)
      BY <2>22 DEF FinishRun
    <2> QED BY <1>4, <2>1, <2>2, <2>3, <2>4, <2>5, <2>6, <2>7, <2>8, <2>9, <2>10, <2>11,
           <2>12, <2>13, <2>14, <2>15, <2>16, <2>17, <2>18, <2>19, <2>20, <2>21, <2>22
  <1>5. Drafted
    BY <1>1, <1>2, <1>3, <1>4 DEF Act, Step, Load
  <1>6. \A d \in Clients : pc'[d] \in Drafting \cup {"draftload"} =>
           draft'[d] \in LoadedModel /\ draft'[d].id = req'[d].id /\ Sound(draft'[d])
    BY <1>0, <1>5 DEF Alone, ModelsAreSound
  <1>7. \A i \in 1..Len(models') : Sound(models'[i])
    BY <1>0, ListKept
  <1>8. \A i \in 1..Len(models') : Sound(models[i])'
    BY <1>7 DEF Sound
  <1>9. \A d \in Clients : pc'[d] \in Drafting \cup {"draftload"} => Sound(draft[d])'
    BY <1>6 DEF Sound
  <1> QED BY <1>6, <1>8, <1>9 DEF ModelsAreSound, LoadedModel, Session, Drafting

\* What the handler that has a model's turn found out about it stays so.
LEMMA UndisturbedByOthers ==
  ASSUME IInv, NEW c \in Clients, Act(c), NEW d \in Clients \ {c}, pc[d] \in Holding
  PROVE  models'[at[d]] = models[at[d]]
  <1>0. Types /\ Places /\ Registered /\ ModelsAreSound /\ Turns
    BY DEF IInv
  <1>1. at[d] \in 1..Len(models) /\ at[d] \in Positions
    BY <1>0, RoomForAll DEF Places, AtModel
  <1>2. turn[at[d]] = d
    BY <1>0, <1>1 DEF Turns
  <1>3. ~(pc[c] \in Holding /\ at[c] = at[d])
    BY <1>0, <1>1, <1>2 DEF Turns
  <1> QED BY <1>0, <1>1, <1>3, ListKept

\* What a handler has found out is still so after a step, its own or another's.
LEMMA UsesStep ==
  ASSUME IInv, NEW c \in Clients, Act(c)
  PROVE  Uses'
  <1>0. Types /\ Places /\ ModelsAreSound /\ Uses /\ Alone(c)
    BY HandlerStep DEF IInv
  <1>a. /\ pc \in [Clients -> PC] /\ req[c] \in Requests /\ req[c].kind \in Kinds
        /\ models \in Seq(LoadedModel) /\ \A k \in Requests : k.kind \in Kinds
    BY <1>0, ReqType DEF Types, HandlerTypes
  <1>b. Used(models[at[c]], pc[c], req[c], route[c])
    BY <1>0 DEF Uses, Used
  <1>c. pc[c] \in Holding => at[c] \in 1..Len(models) /\ Sound(models[at[c]]) /\ models[at[c]] \in LoadedModel
    BY <1>0, <1>a DEF Places, AtModel, ModelsAreSound
  <1>d. Return(c) => pc'[c] = "away"
    BY <1>a DEF Return
  <1>e. \A left : NextSweep(c, left) => pc'[c] \in {"away", "sweepall"}
    BY <1>a, <1>d DEF NextSweep
  <1> DEFINE Using == {"exclusive", "compare", "finish", "ensure", "loading", "start", "running"}
             Good == Used(models'[at'[c]], pc'[c], req'[c], route'[c])
  <1>f. pc'[c] \notin Using => Good
    BY DEF Used
  <1> HIDE DEF Good
  <1>1. Grant(c) => Good
    BY <1>a DEF Grant, Good, Used, Goto, WithTurn, RunKinds
  <1>2. EnsureLoaded(c) => Good
    BY <1>a, <1>b DEF EnsureLoaded, Good, Used, Goto, locks, AfterLoad
  <1>3. LoadModel(c) => Good
    <2> SUFFICES ASSUME LoadModel(c) PROVE Good
      OBVIOUS
    <2>1. /\ pc[c] = "loading" /\ pc'[c] = AfterLoad(req[c].kind)
          /\ models' = [models EXCEPT ![at[c]] = Resident(@)]
          /\ at' = at /\ req' = req
      BY <1>a DEF LoadModel, Goto
    <2>2. models'[at[c]] = Resident(models[at[c]]) /\ models[at[c]] \in LoadedModel
      BY <1>a, <1>c, <2>1 DEF Holding
    <2>3. Resident(models[at[c]]).session # NoSession
      BY <2>2, DataAssumption DEF Resident, LoadedModel
    <2>4. /\ Resident(models[at[c]]).config = models[at[c]].config
          /\ Resident(models[at[c]]).task = models[at[c]].task
          /\ Resident(models[at[c]]).mode = models[at[c]].mode
      BY <2>2 DEF Resident, LoadedModel
    <2> QED BY <1>b, <2>1, <2>2, <2>3, <2>4 DEF Good, Used, AfterLoad
  <1>4. StartRun(c) => Good
    BY <1>a, <1>b, <1>d, <1>f DEF StartRun, Good, Used, Goto, locks
  <1>5. LockMetadata(c) => Good
    BY <1>a, <1>b DEF LockMetadata, Good, Used, Goto
  <1>6. Reconfigure(c) => Good
    <2> SUFFICES ASSUME Reconfigure(c), pc'[c] # "away" PROVE Good
      BY <1>f
    <2>1. /\ pc[c] = "compare" /\ pc'[c] = "ensure" /\ at' = at /\ req' = req
          /\ \/ /\ models' = [models EXCEPT ![at[c]] = make_model(models[at[c]].id, req[c].config)]
             \/ ~Changed(models[at[c]].config, req[c].config) /\ models' = models
      BY <1>a, <1>d DEF Reconfigure, Goto, locks
    <2>2. Sound(models[at[c]]) /\ at[c] \in 1..Len(models)
      BY <1>c, <2>1 DEF Holding
    <2>3. CASE models' = [models EXCEPT ![at[c]] = make_model(models[at[c]].id, req[c].config)]
      <3>1. models'[at[c]] = make_model(models[at[c]].id, req[c].config)
        BY <1>a, <2>2, <2>3
      <3> QED BY <1>b, <2>1, <3>1 DEF Good, Used, make_model
    <2>4. CASE ~Changed(models[at[c]].config, req[c].config) /\ models' = models
      BY <1>b, <2>1, <2>2, <2>4 DEF Good, Used, Changed, Sound, Parses
    <2> QED BY <2>1, <2>3, <2>4
  <1>7. ASSUME \/ Begin(c) \/ LiveLimits(c) \/ Lookup(c) \/ ReadMode(c)
               \/ ReadBound(c) \/ AnswerBusy(c) \/ FinishLoad(c) \/ MakeDraft(c)
               \/ RegisterIndex(c) \/ PushModel(c) \/ Sweep(c) \/ SweepAll(c)
               \/ ResetModel(c) \/ BeginList(c) \/ ListModel(c) \/ Refuse(c)
               \/ LoadFails(c) \/ LoadDraft(c) \/ FinishRun(c)
        PROVE  pc'[c] \notin Using
    <2> USE <1>a, <1>d, <1>e DEF Goto
    <2>1. CASE Begin(c)
      BY <2>1 DEF Begin, FirstStep
    <2>2. CASE LiveLimits(c)
      BY <2>2 DEF LiveLimits
    <2>3. CASE Lookup(c)
      BY <2>3 DEF Lookup
    <2>4. CASE ReadMode(c)
      BY <2>4 DEF ReadMode
    <2>5. CASE ReadBound(c)
      BY <2>5 DEF ReadBound
    <2>6. CASE AnswerBusy(c)
      BY <2>6 DEF AnswerBusy
    <2>7. CASE FinishLoad(c)
      BY <2>7 DEF FinishLoad
    <2>8. CASE MakeDraft(c)
      BY <2>8 DEF MakeDraft
    <2>9. CASE RegisterIndex(c)
      BY <2>9 DEF RegisterIndex
    <2>10. CASE PushModel(c)
      BY <2>10 DEF PushModel
    <2>11. CASE Sweep(c)
      BY <2>11 DEF Sweep
    <2>12. CASE SweepAll(c)
      BY <2>12 DEF SweepAll
    <2>13. CASE ResetModel(c)
      BY <2>13 DEF ResetModel
    <2>14. CASE BeginList(c)
      BY <2>14 DEF BeginList
    <2>15. CASE ListModel(c)
      BY <2>15 DEF ListModel
    <2>16. CASE Refuse(c)
      BY <2>16 DEF Refuse
    <2>17. CASE LoadFails(c)
      BY <2>17 DEF LoadFails
    <2>18. CASE LoadDraft(c)
      BY <2>18 DEF LoadDraft
    <2>19. CASE FinishRun(c)
      BY <2>19 DEF FinishRun
    <2> QED BY <1>7, <2>1, <2>2, <2>3, <2>4, <2>5, <2>6, <2>7, <2>8, <2>9, <2>10, <2>11,
           <2>12, <2>13, <2>14, <2>15, <2>16, <2>17, <2>18, <2>19
  <1>8. Good
    BY <1>f, <1>1, <1>2, <1>3, <1>4, <1>5, <1>6, <1>7 DEF Act, Step, Load
  <1>9. \A d \in Clients \ {c} : pc[d] \in Holding =>
           Used(models'[at'[d]], pc'[d], req'[d], route'[d])
    <2> SUFFICES ASSUME NEW d \in Clients \ {c}, pc[d] \in Holding
                 PROVE  Used(models'[at'[d]], pc'[d], req'[d], route'[d])
      OBVIOUS
    <2>1. models'[at[d]] = models[at[d]]
      BY UndisturbedByOthers
    <2>2. Used(models[at[d]], pc[d], req[d], route[d])
      BY <1>0 DEF Uses, Used
    <2> QED BY <1>0, <2>1, <2>2 DEF Alone
  <1>10. \A d \in Clients \ {c} : pc[d] \notin Holding =>
            Used(models'[at'[d]], pc'[d], req'[d], route'[d])
    BY <1>0 DEF Alone, Used, Holding
  <1>11. \A d \in Clients : Used(models'[at'[d]], pc'[d], req'[d], route'[d])
    BY <1>8, <1>9, <1>10 DEF Good
  <1> QED BY <1>11 DEF Uses, Used

-----------------------------------------------------------------------------
\* The initial state satisfies the inductive invariant.
LEMMA InitInv == Init => IInv
  <1> SUFFICES ASSUME Init PROVE IInv
    OBVIOUS
  <1> DEFINE m(i) == IF Startup[i].lazy THEN make_model(Startup[i].id, Startup[i].config)
                     ELSE Resident(make_model(Startup[i].id, Startup[i].config))
  <1>1. /\ DOMAIN Startup = 1..Len(Startup) /\ Len(Startup) \in Nat
        /\ models = [i \in DOMAIN Startup |-> m(i)]
    BY DataAssumption DEF Init
  <1>2. \A i \in DOMAIN Startup :
           m(i) \in LoadedModel /\ m(i).id = Startup[i].id /\ Sound(m(i))
    <2> SUFFICES ASSUME NEW i \in DOMAIN Startup
                 PROVE  m(i) \in LoadedModel /\ m(i).id = Startup[i].id /\ Sound(m(i))
      OBVIOUS
    <2>1. Startup[i].id \in Ids /\ Startup[i].config \in Configs /\ Parses(Startup[i].config)
      <3>a. Startup \in Seq([id : Ids, config : Configs, lazy : BOOLEAN])
        BY DataAssumption
      <3>1. Startup[i] \in [id : Ids, config : Configs, lazy : BOOLEAN]
        <4> DEFINE S == [id : Ids, config : Configs, lazy : BOOLEAN]
        <4>1. Startup \in Seq(S)
          BY <3>a
        <4> HIDE DEF S
        <4>2. Startup[i] \in S
          BY <4>1
        <4> QED BY <4>2 DEF S
      <3> QED BY <3>1, DataAssumption
    <2> DEFINE k == make_model(Startup[i].id, Startup[i].config)
    <2>2. k \in LoadedModel /\ k.id = Startup[i].id /\ Sound(k)
      BY <2>1, DataAssumption DEF make_model, LoadedModel, Sound, Parses
    <2>3. Resident(k) \in LoadedModel /\ Resident(k).id = k.id /\ Sound(Resident(k))
      BY <2>2 DEF Resident, LoadedModel, Session, Sound
    <2> HIDE DEF k
    <2>4. m(i) = k \/ m(i) = Resident(k)
      BY DEF k
    <2> QED BY <2>2, <2>3, <2>4
  <1> HIDE DEF m
  <1>3. models \in Seq(LoadedModel) /\ Len(models) = Len(Startup)
    BY <1>1, <1>2
  <1>4. /\ DOMAIN index = {Startup[i].id : i \in DOMAIN Startup}
        /\ \A i \in DOMAIN Startup : index[Startup[i].id] = i
    <2>1. \A i, j \in DOMAIN Startup : Startup[i].id = Startup[j].id => i = j
      BY DataAssumption
    <2>2. \A i \in DOMAIN Startup : (CHOOSE j \in DOMAIN Startup : Startup[j].id = Startup[i].id) = i
      BY <2>1
    <2> QED BY <2>2 DEF Init
  <1>5. DOMAIN index \subseteq Ids
    BY <1>1, <1>2, <1>4 DEF LoadedModel
  <1>6. (CHOOSE r \in Requests : TRUE) \in Requests
    BY DataAssumption
  <1>7. Types
    <2>1. \A id \in DOMAIN index : index[id] \in Nat
      BY <1>1, <1>4
    <2>2. /\ registry \in Clients \cup {Nobody}
          /\ meta \in [Positions -> Clients \cup {Nobody}]
          /\ turn \in [Positions -> Clients \cup {Nobody}]
          /\ at \in [Clients -> Nat]
          /\ draft \in [Clients -> LoadedModel \cup {NoSession}]
          /\ todo \in [Clients -> SUBSET Nat]
      BY DEF Init
    <2>3. pc \in [Clients -> PC] /\ route \in [Clients -> Modes] /\ calls \in [Clients -> 0..MaxCalls]
      BY DataAssumption, PCs DEF Init, Modes
    <2>4. req \in [Clients -> Requests]
      BY <1>6 DEF Init
    <2> QED BY <1>3, <1>5, <2>1, <2>2, <2>3, <2>4 DEF Types, HandlerTypes
  <1>8. Places
    BY DEF Init, Places, AtModel, Holding
  <1>9. Registered
    <2>1. \A c \in Clients : registry # c /\ pc[c] = "away"
      BY NobodyAssumption DEF Init
    <2>2. \A i \in DOMAIN Startup : models[i].id = Startup[i].id
      BY <1>1, <1>2
    <2> QED BY <1>1, <1>3, <1>4, <2>1, <2>2 DEF Registered
  <1>10. ModelsAreSound
    BY <1>1, <1>2, <1>3 DEF Init, ModelsAreSound, Drafting
  <1>11. Turns
    BY NobodyAssumption DEF Init, Turns, Holding
  <1>12. Uses
    BY DEF Init, Uses, Used
  <1> QED BY <1>7, <1>8, <1>9, <1>10, <1>11, <1>12 DEF IInv

\* Every step satisfies it.
LEMMA InvStep == IInv /\ [Next]_vars => IInv'
  <1>1. ASSUME IInv, NEW c \in Clients, Act(c) PROVE IInv'
    BY <1>1, TypesStep, PlacesStep, RegisteredStep, SoundStep, TurnsStep, UsesStep DEF IInv
  <1>2. ASSUME IInv, UNCHANGED vars PROVE IInv'
    <2> USE <1>2 DEF vars, IInv
    <2>1. Types' /\ Places'
      BY DEF Types, HandlerTypes, Places
    <2>2. Registered' /\ Turns'
      BY DEF Registered, Turns
    <2>3. ModelsAreSound' /\ Uses'
      BY DEF ModelsAreSound, Sound, Uses
    <2> QED BY <2>1, <2>2, <2>3
  <1> QED BY <1>1, <1>2 DEF Next, Act, Served

\* The inductive invariant: what every reachable state satisfies.
THEOREM Invariant == Spec => []IInv
  BY InitInv, InvStep, PTL DEF Spec

-----------------------------------------------------------------------------
\* The variables keep their types, whatever races (LoadedModel, ServerState).
THEOREM TypeCorrect == Spec => []TypeOK
  <1>1. IInv => TypeOK
    <2> SUFFICES ASSUME IInv PROVE TypeOK
      OBVIOUS
    <2>a. Types /\ Places /\ Registered /\ 1..Len(models) \subseteq Positions
          /\ \A c \in Clients : pc[c] = "push" => Len(models) + 1 \in Positions
      BY RoomForAll DEF IInv
    <2>1. \A id \in DOMAIN index : index[id] \in Positions
      BY <2>a DEF Registered
    <2>2. at \in [Clients -> Positions \cup {0}] /\ todo \in [Clients -> SUBSET Positions]
      BY <2>a DEF Types, HandlerTypes, Places
    <2> QED BY <2>a, <2>1, <2>2 DEF Types, HandlerTypes, TypeOK
  <1> QED BY <1>1, Invariant, PTL

\* A session in memory is that of its model's configuration and task, through failed
\* loads, reconfigurations and unloads.
THEOREM SessionsMatch == Spec => []SessionMatchesConfig
  <1>1. IInv => SessionMatchesConfig
    BY DEF IInv, ModelsAreSound, Sound, SessionMatchesConfig
  <1> QED BY <1>1, Invariant, PTL

\* A run uses an interface its session has, although it chose it before its turn.
THEOREM RunsAreServed == Spec => []RunHasItsInterface
  <1>1. IInv => RunHasItsInterface
    BY DEF IInv, Uses, Used, RunHasItsInterface
  <1> QED BY <1>1, Invariant, PTL

\* {"loaded": true} is said of a model that is in memory from the source that was asked
\* for and, if the request could be parsed, for the task and the mode asked for; a
\* reload that could not be, repeated, is answered with the old ones.
THEOREM LoadsAreTruthful == Spec => []LoadAnswersTruthfully
  <1>1. IInv => LoadAnswersTruthfully
    <2> SUFFICES ASSUME IInv, NEW c \in Clients, pc[c] = "finish"
                 PROVE  LET m == models[at[c]] IN
                        /\ m.session # NoSession /\ m.loaded
                        /\ m.session.config.source = req[c].config.source
                        /\ Parses(req[c].config) =>
                              /\ m.session.task = req[c].config.task
                              /\ m.session.mode = req[c].config.mode
      BY DEF LoadAnswersTruthfully
    <2>1. Sound(models[at[c]])
      BY DEF IInv, Places, ModelsAreSound, AtModel, Holding
    <2>2. /\ req[c].kind = "load" /\ models[at[c]].session # NoSession
          /\ models[at[c]].config.source = req[c].config.source
          /\ Parses(req[c].config) => /\ models[at[c]].task = req[c].config.task
                                      /\ models[at[c]].mode = req[c].config.mode
      BY DEF IInv, Uses, Used
    <2> QED BY <2>1, <2>2 DEF Sound
  <1> QED BY <1>1, Invariant, PTL

\* Whatever loads raced, ids and models correspond when no registration is half done.
THEOREM IdsAndModelsAgree == Spec => []RegistryConsistent
  <1>1. IInv => RegistryConsistent
    <2> SUFFICES ASSUME IInv, ~(\E c \in Clients : pc[c] = "push")
                 PROVE  /\ Len(models) = Cardinality(DOMAIN index)
                        /\ \A id \in DOMAIN index :
                              index[id] \in 1..Len(models) /\ models[index[id]].id = id
      BY DEF RegistryConsistent
    <2>1. \A id \in DOMAIN index : index[id] \in 1..Len(models) /\ models[index[id]].id = id
      BY DEF IInv, Registered
    <2>2. \A i \in 1..Len(models) : models[i].id \in DOMAIN index /\ index[models[i].id] = i
      BY DEF IInv, Registered
    <2>3. ExistsBijection(1..Len(models), DOMAIN index)
      <3> DEFINE f == [i \in 1..Len(models) |-> models[i].id]
      <3>1. f \in [1..Len(models) -> DOMAIN index]
        BY <2>2
      <3>2. \A i, j \in 1..Len(models) : f[i] = f[j] => i = j
        BY <2>2
      <3>3. \A id \in DOMAIN index : \E i \in 1..Len(models) : f[i] = id
        BY <2>1
      <3> HIDE DEF f
      <3>4. f \in Bijection(1..Len(models), DOMAIN index)
        BY <3>1, <3>2, <3>3, Zenon DEF Bijection, Injection, Surjection, IsInjective
      <3> QED BY <3>4, Zenon DEF ExistsBijection
    <2>4. Len(models) \in Nat
      BY DEF IInv, Types, HandlerTypes
    <2>5. IsFiniteSet(1..Len(models)) /\ Cardinality(1..Len(models)) = Len(models)
      <3>1. \A n \in Nat : IsFiniteSet(1..n) /\ Cardinality(1..n) = IF 1 > n THEN 0 ELSE n - 1 + 1
        BY FS_Interval
      <3> QED BY <2>4, <3>1
    <2>6. Cardinality(DOMAIN index) = Cardinality(1..Len(models))
      BY <2>3, <2>5, FS_Bijection
    <2> QED BY <2>1, <2>5, <2>6
  <1> QED BY <1>1, Invariant, PTL

\* Nothing replaces or drops a session while a run uses it.
THEOREM RunsKeepTheirSession == Spec => RunningSessionStays
  <1>1. ASSUME IInv, [Next]_vars, NEW d \in Clients, pc[d] = "running"
        PROVE  models'[at[d]].session = models[at[d]].session
    <2>1. CASE UNCHANGED vars
      BY <2>1 DEF vars
    <2>2. ASSUME NEW c \in Clients, Act(c), c # d
          PROVE  models'[at[d]].session = models[at[d]].session
      BY <1>1, <2>2, UndisturbedByOthers DEF Holding
    <2>3. CASE Act(d)
      <3>1. models' = models
        BY <1>1, <2>3 DEF Act, Step, Load, Begin, LiveLimits, Lookup, ReadMode, ReadBound,
           Grant,
           AnswerBusy, EnsureLoaded, StartRun, LockMetadata, Reconfigure, FinishLoad, MakeDraft,
           RegisterIndex, PushModel, Sweep, SweepAll, ResetModel, BeginList, ListModel, Refuse,
           LoadModel, LoadFails, LoadDraft, FinishRun, Goto
      <3> QED BY <3>1
    <2> QED BY <1>1, <2>1, <2>2, <2>3 DEF Next, Act, Served
  <1>2. IInv /\ [Next]_vars =>
           [\A c \in Clients : pc[c] = "running" =>
               models'[at[c]].session = models[at[c]].session]_vars
    BY <1>1
  <1> QED BY <1>2, Invariant, PTL DEF Spec, RunningSessionStays

-----------------------------------------------------------------------------
\* What a step of a handler means for the turn of each model.
LEMMA TurnMoves ==
  ASSUME IInv, NEW c \in Clients, Act(c), NEW i \in Positions
  PROVE  [TurnOf(i)!Next]_(TurnOf(i)!vars)
  <1>0. Types /\ Places /\ Turns /\ Alone(c) /\ HandlerTypes'
    BY HandlerStep DEF IInv
  <1>a. /\ turn[i] = c <=> (pc[c] \in Holding /\ at[c] = i)
        /\ turn \in [Positions -> Clients \cup {Nobody}] /\ at \in [Clients -> Nat]
        /\ pc \in [Clients -> PC]
    BY <1>0 DEF Turns, Types, HandlerTypes
  <1>b. pc[c] = "asking" => at[c] \in Positions
    BY RoomForAll DEF IInv, Places, AtModel
  <1> DEFINE want   == [d \in Clients |-> WantOf(d, i)]
             limit  == {d \in Clients : req[d].bounded /\ WantOf(d, i) # "out"}
             w      == WantOf(c, i)
  <1>1. \A d \in Clients \ {c} : WantOf(d, i)' = WantOf(d, i) /\ req'[d] = req[d]
    BY <1>0 DEF Alone, WantOf, Holding
  <1>2. want' = [want EXCEPT ![c] = w']
    BY <1>1
  <1>3. limit' \ {c} = limit \ {c} /\ (w' = "out" => c \notin limit')
        /\ (w = "out" => c \notin limit)
    BY <1>1
  <1>4. req' = req /\ w # "out" /\ w' # "out" => limit' = limit
    BY <1>1
  <1>5. (w' = w /\ turn'[i] = turn[i] /\ (w = "out" \/ req' = req)) => UNCHANGED TurnOf(i)!vars
    <2> SUFFICES ASSUME w' = w, turn'[i] = turn[i], w = "out" \/ req' = req
                 PROVE  UNCHANGED TurnOf(i)!vars
      OBVIOUS
    <2>1. want' = want
      BY <1>1
    <2>2. limit' = limit
      BY <1>1
    <2> QED BY <2>1, <2>2 DEF TurnOf!vars
  <1> USE DEF TurnOf!Next
  <1>6. CASE Out(c)
    <2>1. w = "out" /\ w' = "out" /\ turn'[i] = turn[i]
      BY <1>6 DEF Out, Free, AtModel, Holding, WantOf
    <2> QED BY <1>5, <2>1
  <1>7. CASE Holds(c)
    <2>1. w' = w /\ turn'[i] = turn[i] /\ req' = req
      BY <1>7 DEF Holds, Holding, WantOf
    <2> QED BY <1>5, <2>1
  <1>8. CASE Asks(c)
    <2>1. w = "out" /\ w' \in {"out", "asking"} /\ turn'[i] = turn[i]
      BY <1>8 DEF Asks, Free, AtModel, Holding, WantOf
    <2>2. CASE w' = "out"
      BY <1>5, <2>1, <2>2
    <2>3. CASE w' = "asking"
      <3>1. want' = [want EXCEPT ![c] = "asking"] /\ want[c] = "out"
        BY <1>2, <2>1, <2>3
      <3>2. limit' \in {limit, limit \cup {c}}
        BY <1>3, <2>1
      <3>3. TurnOf(i)!Ask(c)
        BY <2>1, <3>1, <3>2 DEF TurnOf!Ask
      <3> QED BY <3>3
    <2> QED BY <2>1, <2>2, <2>3
  <1>9. CASE Takes(c)
    <2>1. CASE at[c] = i
      <3>1. w = "asking" /\ w' = "granted" /\ turn[i] = Nobody /\ turn'[i] = c /\ req' = req
        BY <1>9, <1>a, <2>1 DEF Takes, WantOf, Holding
      <3>2. want' = [want EXCEPT ![c] = "granted"] /\ want[c] = "asking"
        BY <1>2, <3>1
      <3>3. limit' = limit
        BY <1>4, <3>1
      <3>4. TurnOf(i)!Grant(c)
        BY <3>1, <3>2, <3>3 DEF TurnOf!Grant
      <3> QED BY <3>4
    <2>2. CASE at[c] # i
      <3>1. w = "out" /\ w' = "out" /\ turn'[i] = turn[i]
        BY <1>9, <1>a, <1>b, <2>2 DEF Takes, WantOf
      <3> QED BY <1>5, <3>1
    <2> QED BY <2>1, <2>2
  <1>10. CASE IsRefused(c)
    <2>1. CASE at[c] = i
      <3>1. w = "asking" /\ w' = "refused" /\ turn'[i] = turn[i] /\ req' = req /\ req[c].bounded
        BY <1>10, <2>1 DEF IsRefused, WantOf
      <3>2. want' = [want EXCEPT ![c] = "refused"] /\ want[c] = "asking" /\ c \in limit
        BY <1>2, <3>1
      <3>3. limit' = limit
        BY <1>4, <3>1
      <3>4. TurnOf(i)!Refuse(c)
        BY <3>1, <3>2, <3>3 DEF TurnOf!Refuse
      <3> QED BY <3>4
    <2>2. CASE at[c] # i
      <3>1. w = "out" /\ w' = "out" /\ turn'[i] = turn[i]
        BY <1>10, <2>2 DEF IsRefused, WantOf
      <3> QED BY <1>5, <3>1
    <2> QED BY <2>1, <2>2
  <1>11. CASE Leaves(c)
    <2>1. w' = "out" /\ w \in {"out", "granted", "refused"}
      BY <1>11 DEF Leaves, WantOf, Free, AtModel, Holding
    <2>2. turn'[i] = IF turn[i] = c THEN Nobody ELSE turn[i]
      BY <1>11 DEF Leaves, DropTurn
    <2>3. turn[i] = c <=> w = "granted"
      BY <1>a, <1>11 DEF Leaves, WantOf, Holding
    <2>4. want' = [want EXCEPT ![c] = "out"] /\ want[c] = w
      BY <1>2, <2>1
    <2>5. limit' = limit \ {c}
      BY <1>3, <2>1
    <2>6. CASE w = "out"
      BY <1>5, <2>1, <2>2, <2>3, <2>6
    <2>7. CASE w = "granted"
      <3>1. TurnOf(i)!Release(c)
        BY <2>2, <2>3, <2>4, <2>5, <2>7 DEF TurnOf!Release
      <3> QED BY <3>1
    <2>8. CASE w = "refused"
      <3>1. TurnOf(i)!Depart(c)
        BY <2>2, <2>3, <2>4, <2>5, <2>8 DEF TurnOf!Depart
      <3> QED BY <3>1
    <2> QED BY <2>1, <2>6, <2>7, <2>8
  <1> QED BY <1>0, <1>6, <1>7, <1>8, <1>9, <1>10, <1>11, TurnStep

\* The server takes the turn of each model only as its guard allows (acquire_model_run).
THEOREM TurnsAreKept == Spec => UsesTheTurns
  <1>1. Init => \A i \in Positions : TurnOf(i)!Init
    BY DEF Init, TurnOf!Init, WantOf, Holding
  <1>2. IInv /\ [Next]_vars => [\A i \in Positions : [TurnOf(i)!Next]_(TurnOf(i)!vars)]_vars
    <2>1. ASSUME IInv, NEW c \in Clients, Act(c)
          PROVE  \A i \in Positions : [TurnOf(i)!Next]_(TurnOf(i)!vars)
      BY <2>1, TurnMoves
    <2>2. UNCHANGED vars => \A i \in Positions : [TurnOf(i)!Next]_(TurnOf(i)!vars)
      <3> SUFFICES ASSUME UNCHANGED vars, NEW i \in Positions PROVE UNCHANGED TurnOf(i)!vars
        OBVIOUS
      <3>1. \A d \in Clients : WantOf(d, i)' = WantOf(d, i)
        BY DEF vars, WantOf, Holding
      <3> QED BY <3>1 DEF vars, TurnOf!vars
    <2> QED BY <2>1, <2>2 DEF Next, Act, Served
  <1> QED BY <1>1, <1>2, Invariant, PTL DEF Spec, UsesTheTurns

-----------------------------------------------------------------------------
(* Waiting.                                                                *)

\* A load keeps the metadata of its model in these places ...
Keeping == {"compare", "ensure", "loading", "finish"}

\* ... and nobody else does.
MetadataKept ==
  \A i \in Positions, c \in Clients :
    meta[i] = c => pc[c] \in Keeping /\ at[c] = i /\ req[c].kind = "load"

\* What a step does about the metadata of the model its handler works on.
Keeps(c)   == /\ pc[c] \in Keeping /\ req[c].kind = "load" =>
                    pc'[c] \in Keeping /\ at' = at /\ req' = req
              /\ meta' = meta
Locks(c)   == /\ pc[c] = "exclusive" /\ pc'[c] = "compare" /\ at' = at /\ req' = req
              /\ meta' = [meta EXCEPT ![at[c]] = c]
Unlocks(c) == meta' = [i \in Positions |-> IF meta[i] = c THEN Nobody ELSE meta[i]]

\* Every step is one of these.
LEMMA MetadataStep ==
  ASSUME Types, NEW c \in Clients, Act(c)
  PROVE  Keeps(c) \/ Locks(c) \/ Unlocks(c)
  <1>a. pc \in [Clients -> PC]
    BY DEF Types, HandlerTypes
  <1>b. Return(c) => Unlocks(c)
    BY DEF Return, Unlocks
  <1>c. \A left : NextSweep(c, left) => meta' = meta \/ Unlocks(c)
    BY <1>b DEF NextSweep
  <1>1. CASE Begin(c) \/ LiveLimits(c) \/ Lookup(c) \/ ReadMode(c) \/ ReadBound(c) \/ Grant(c)
             \/ AnswerBusy(c) \/ StartRun(c) \/ Refuse(c)
    BY <1>1, <1>b DEF Begin, LiveLimits, Lookup, ReadMode, ReadBound, Grant, AnswerBusy,
                      StartRun, Refuse, Goto, locks, Keeps, Keeping
  <1>2. CASE EnsureLoaded(c) \/ LoadModel(c) \/ Reconfigure(c)
    <2>1. Return(c) \/ (pc'[c] \in Keeping \cup {AfterLoad(req[c].kind)}
                        /\ at' = at /\ req' = req /\ meta' = meta)
      BY <1>2, <1>a DEF EnsureLoaded, LoadModel, Reconfigure, Goto, locks, Keeping
    <2> QED BY <1>b, <2>1 DEF Keeps, Keeping, AfterLoad
  <1>3. CASE LockMetadata(c)
    BY <1>3, <1>a DEF LockMetadata, Goto, Locks
  <1>4. CASE FinishLoad(c) \/ LoadFails(c) \/ PushModel(c) \/ FinishRun(c)
    BY <1>4, <1>b DEF FinishLoad, LoadFails, PushModel, FinishRun
  <1>5. CASE MakeDraft(c) \/ LoadDraft(c) \/ RegisterIndex(c) \/ BeginList(c) \/ ListModel(c)
             \/ Sweep(c)
    BY <1>5, <1>b DEF MakeDraft, LoadDraft, RegisterIndex, BeginList, ListModel, Sweep, Goto,
                      locks, Keeps, Keeping
  <1>6. CASE SweepAll(c) \/ ResetModel(c)
    BY <1>6, <1>b, <1>c DEF SweepAll, ResetModel, Goto, Keeps, Keeping
  <1> QED BY <1>1, <1>2, <1>3, <1>4, <1>5, <1>6 DEF Act, Step, Load

\* Metadata locks stay with the loads that took them.
LEMMA MetadataKeptStep ==
  ASSUME IInv, MetadataKept, NEW c \in Clients, Act(c)
  PROVE  MetadataKept'
  <1>a. /\ Types /\ Places /\ Uses /\ Alone(c) /\ Nobody \notin Clients
        /\ meta \in [Positions -> Clients \cup {Nobody}]
    BY HandlerStep, NobodyAssumption DEF IInv, Types, HandlerTypes
  <1> SUFFICES ASSUME NEW i \in Positions, NEW d \in Clients, meta'[i] = d
               PROVE  pc'[d] \in Keeping /\ at'[d] = i /\ req'[d].kind = "load"
    BY DEF MetadataKept, Positions
  <1>b. meta[i] = d => pc[d] \in Keeping /\ at[d] = i /\ req[d].kind = "load"
    BY DEF MetadataKept
  <1>c. d # c => pc'[d] = pc[d] /\ at'[d] = at[d] /\ req'[d] = req[d]
    BY <1>a DEF Alone
  <1>1. CASE Keeps(c)
    BY <1>1, <1>b, <1>c DEF Keeps
  <1>2. CASE Locks(c)
    <2>1. req[c].kind = "load"
      BY <1>2, <1>a DEF Locks, Uses, Used
    <2>2. CASE meta[i] = d
      <3>1. d # c
        BY <1>2, <1>b, <2>2 DEF Locks, Keeping
      <3> QED BY <1>b, <1>c, <2>2, <3>1
    <2>3. CASE meta[i] # d
      <3>1. i = at[c] /\ d = c
        BY <1>2, <1>a, <2>3 DEF Locks
      <3> QED BY <1>2, <2>1, <3>1 DEF Locks, Keeping
    <2> QED BY <2>2, <2>3
  <1>3. CASE Unlocks(c)
    BY <1>3, <1>a, <1>b, <1>c DEF Unlocks
  <1> QED BY <1>1, <1>2, <1>3, <1>a, MetadataStep

LEMMA MetadataAlways == Spec => []MetadataKept
  <1>1. Init => MetadataKept
    BY NobodyAssumption DEF Init, MetadataKept
  <1>2. IInv /\ MetadataKept /\ [Next]_vars => MetadataKept'
    <2>1. ASSUME MetadataKept, UNCHANGED vars PROVE MetadataKept'
      BY <2>1 DEF vars, locks, MetadataKept
    <2> QED BY <2>1, MetadataKeptStep DEF Next, Act, Served
  <1> QED BY <1>1, <1>2, Invariant, PTL DEF Spec

\* Whom a handler waits for has the turn of its model or the registry.
LEMMA WhoIsWaitedFor ==
  ASSUME IInv, MetadataKept, NEW c \in Clients, NEW d \in Clients, WaitsFor(c, d)
  PROVE  pc[d] \in Holding \cup {"push", "listing"}
  <1>1. CASE pc[c] \in {"lookup", "register", "list"} /\ registry = d
    BY <1>1 DEF IInv, Registered
  <1>2. CASE \E i \in Positions : NeedsMetadata(c, i) /\ meta[i] = d
    BY <1>2 DEF MetadataKept, Keeping, Holding
  <1>3. CASE pc[c] = "asking" /\ turn[at[c]] = d
    <2>1. at[c] \in Positions
      BY <1>3, RoomForAll DEF IInv, Places, AtModel
    <2> QED BY <1>3, <2>1 DEF IInv, Turns
  <1> QED BY <1>1, <1>2, <1>3 DEF WaitsFor

\* Who has a turn waits for nobody: the one place where it could is that of a load that
\* wants the metadata, and who keeps those has had the turn before.
LEMMA TurnsDoNotWait ==
  ASSUME IInv, MetadataKept, NEW c \in Clients, NEW d \in Clients, pc[c] \in Holding
  PROVE  ~WaitsFor(c, d)
  <1> SUFFICES ASSUME WaitsFor(c, d) PROVE FALSE
    OBVIOUS
  <1>1. PICK i \in Positions : NeedsMetadata(c, i) /\ meta[i] = d
    BY DEF WaitsFor, Holding
  <1>2. pc[c] = "exclusive" /\ at[c] = i
    BY <1>1 DEF NeedsMetadata, Holding
  <1>3. pc[d] \in Keeping /\ at[d] = i
    BY <1>1 DEF MetadataKept
  <1>4. turn[i] = c /\ turn[i] = d
    BY <1>2, <1>3 DEF IInv, Turns, Holding, Keeping
  <1> QED BY <1>2, <1>3, <1>4 DEF Keeping

\* No handlers wait for each other in a circle, however many there are: a chain of them
\* has two waits at most, of a listing that is waited for and of the listing itself.
THEOREM NoCircleOfWaits == Spec => []WaitsAreShort
  <1>1. IInv /\ MetadataKept => WaitsAreShort
    <2> SUFFICES ASSUME IInv, MetadataKept, NEW c \in Clients, NEW d \in Clients,
                        NEW e \in Clients, WaitsFor(c, d), WaitsFor(d, e)
                 PROVE  \A f \in Clients : ~WaitsFor(e, f)
      BY DEF WaitsAreShort
    <2>1. pc[d] = "listing"
      <3>1. pc[d] \in {"push", "listing"}
        BY WhoIsWaitedFor, TurnsDoNotWait
      <3>2. pc[d] # "push"
        BY DEF WaitsFor, NeedsMetadata
      <3> QED BY <3>1, <3>2
    <2>2. pc[e] \in Holding
      BY <2>1 DEF WaitsFor, MetadataKept, Keeping, Holding
    <2> QED BY <2>2, TurnsDoNotWait
  <1> QED BY <1>1, Invariant, MetadataAlways, PTL
=============================================================================
