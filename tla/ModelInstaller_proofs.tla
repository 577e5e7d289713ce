------------------------ MODULE ModelInstaller_proofs ------------------------
(***************************************************************************)
(* Proofs about ModelInstaller, for any packages, files and bound on the   *)
(* calls.  The jobs are proved about first: what the commands do to the    *)
(* disk plays no part in them.  The steps of the commands are those that   *)
(* PackageManager_proofs is about: its lemmas are taken for the processes  *)
(* of the server.                                                          *)
(***************************************************************************)
EXTENDS ModelInstaller, TLAPS

\* What the variables of the jobs range over.
JobsType ==
    /\ jobs \in [Packages -> {"none", "queued", "running", "cancelling",
                              "complete", "failed", "cancelled"}]
    /\ worker \in [Packages -> {"none", "begin", "command"}]
    /\ jobRoot \in [Packages -> Nat]
    /\ root \in Nat

\* A job being stopped has cancel_requested, which decides how it ends.
CancellingIsRequested == \A p \in Packages : jobs[p] = "cancelling" => p \in cancel

\* While a command of clean_partial or remove runs, its package has no active job:
\* the job they forget at their end is one whose worker is gone.
HandlerHasNoJob ==
    handler.step \in {"clean", "remove"} =>
        handler.package \in Packages /\ ~Active(handler.package)

\* The inductive invariant.
JobsInv ==
    /\ JobsType
    /\ ActiveJobsAreTheWorkers
    /\ WorkersUseTheRoot
    /\ CancellingIsRequested
    /\ HandlerHasNoJob

jobVars == <<jobs, cancel, worker, handler, root, jobRoot>>

-----------------------------------------------------------------------------
\* The state that every run of the server starts in.
LEMMA InitJobs == Init => JobsInv
  BY DEF Init, Idle, JobsInv, JobsType, ActiveJobsAreTheWorkers, WorkersUseTheRoot,
         CancellingIsRequested, HandlerHasNoJob, Active

\* Steps that leave the jobs alone keep the invariant.
LEMMA SameJobs == JobsInv /\ UNCHANGED jobVars => JobsInv'
  BY DEF jobVars, JobsInv, JobsType, ActiveJobsAreTheWorkers, WorkersUseTheRoot,
         CancellingIsRequested, HandlerHasNoJob, Active

\* The steps of a job: start, stop, and those of its worker.
LEMMA JobSteps ==
    ASSUME JobsInv, NEW p \in Packages,
           Start(p) \/ AddJob(p) \/ Stop(p) \/ BeginWork(p) \/ EndWork(p)
    PROVE  JobsInv'
<1> USE DEF JobsInv, JobsType, ActiveJobsAreTheWorkers, WorkersUseTheRoot,
            CancellingIsRequested, HandlerHasNoJob, Active
<1>1. CASE Start(p)
  BY <1>1 DEF Start, Call
<1>2. CASE AddJob(p)
  BY <1>2 DEF AddJob, Idle
<1>3. CASE Stop(p)
  BY <1>3 DEF Stop, Call, Idle
<1>4. CASE BeginWork(p)
  BY <1>4 DEF BeginWork
<1>5. CASE EndWork(p)
  <2>1. JobEnd(p) \in {"cancelled", "complete", "failed"}
    BY DEF JobEnd
  <2>. QED
    BY <1>5, <2>1 DEF EndWork
<1>. QED
  BY <1>1, <1>2, <1>3, <1>4, <1>5

\* The steps of clean_partial and remove.
LEMMA CommandSteps ==
    ASSUME JobsInv,
           \/ \E p \in Packages : \/ BeginCommand("clean", "clean-partial", p)
                                  \/ BeginCommand("remove", "uninstall", p)
           \/ CommandFailed \/ EndClean \/ EndRemove
    PROVE  JobsInv'
<1> USE DEF JobsInv, JobsType, ActiveJobsAreTheWorkers, WorkersUseTheRoot,
            CancellingIsRequested, HandlerHasNoJob, Active
<1>1. ASSUME NEW p \in Packages,
             \/ BeginCommand("clean", "clean-partial", p)
             \/ BeginCommand("remove", "uninstall", p)
      PROVE  JobsInv'
  <2>1. \/ handler' = [step |-> "clean", package |-> p]
        \/ handler' = [step |-> "remove", package |-> p]
    BY <1>1, Zenon DEF BeginCommand
  <2>2. ~Active(p) /\ UNCHANGED <<jobs, cancel, worker, root, jobRoot>>
    BY <1>1, Zenon DEF BeginCommand
  <2>. QED
    BY <2>1, <2>2
<1>2. CASE CommandFailed
  BY <1>2 DEF CommandFailed, Idle
<1>3. CASE EndClean
  BY <1>3 DEF EndClean, Idle
<1>4. CASE EndRemove
  BY <1>4 DEF EndRemove, Idle
<1>. QED
  BY <1>1, <1>2, <1>3, <1>4

\* A new models root finds no worker, since no job is active.
LEMMA RootStep == JobsInv /\ SetModelsRoot => JobsInv'
  BY DEF SetModelsRoot, Call, Idle, has_active_jobs, JobsInv, JobsType,
         ActiveJobsAreTheWorkers, WorkersUseTheRoot, CancellingIsRequested,
         HandlerHasNoJob, Active

\* Every step of the server keeps the invariant.
LEMMA JobsInductive == JobsInv /\ [Next]_vars => JobsInv'
<1> SUFFICES ASSUME JobsInv, [Next]_vars PROVE JobsInv'
  OBVIOUS
<1>1. CASE \E p \in Packages :
              Start(p) \/ AddJob(p) \/ Stop(p) \/ BeginWork(p) \/ EndWork(p)
  BY <1>1, JobSteps
<1>2. CASE \/ \E p \in Packages : \/ BeginCommand("clean", "clean-partial", p)
                                  \/ BeginCommand("remove", "uninstall", p)
           \/ CommandFailed \/ EndClean \/ EndRemove
  BY <1>2, CommandSteps
<1>3. CASE SetModelsRoot
  BY <1>3, RootStep
<1>4. CASE package_sizes \/ \E s \in scans : ReadPackages(s) \/ EndScan(s)
  BY <1>4, SameJobs DEF package_sizes, ReadPackages, EndScan, jobVars
<1>5. CASE \E q \in Packages \cup {Handler} :
              \/ Command(PM!Work(q))
              \/ Command(PM!RemoteFails(q) \/ (MayCrash /\ PM!Crash(q)))
  BY <1>5, SameJobs DEF Command, jobVars
<1>6. CASE UNCHANGED vars
  BY <1>6, SameJobs DEF vars, jobVars
<1>. QED
  BY <1>1, <1>2, <1>3, <1>4, <1>5, <1>6 DEF Next, Handle, Progress

LEMMA JobsAlways == Spec => []JobsInv
  BY InitJobs, JobsInductive, PTL DEF Spec

-----------------------------------------------------------------------------
\* A job is active exactly while it has a worker: jobs.at() never throws in a
\* worker, and no job is left active with nobody to end it.
THEOREM JobsHaveWorkers == Spec => []ActiveJobsAreTheWorkers
<1>1. JobsInv => ActiveJobsAreTheWorkers
  BY DEF JobsInv
<1>. QED
  BY <1>1, JobsAlways, PTL

\* The models root never changes under a download.
THEOREM DownloadsKeepTheRoot == Spec => []WorkersUseTheRoot
<1>1. JobsInv => WorkersUseTheRoot
  BY DEF JobsInv
<1>. QED
  BY <1>1, JobsAlways, PTL

\* What a step does to a job that is being stopped: nothing, or its end as cancelled.
LEMMA StopStep ==
    ASSUME JobsInv, [Next]_vars, NEW p \in Packages, jobs[p] = "cancelling"
    PROVE  jobs'[p] \in {"cancelling", "cancelled"}
<1>. Active(p) /\ p \in cancel
  BY DEF JobsInv, CancellingIsRequested, Active
<1>. jobs = [o \in Packages |-> jobs[o]]
  BY DEF JobsInv, JobsType
<1>1. CASE \E o \in Packages : AddJob(o) \/ Stop(o) \/ BeginWork(o)
  BY <1>1 DEF AddJob, Stop, BeginWork, Active
<1>2. CASE \E o \in Packages : EndWork(o)
  BY <1>2 DEF EndWork, JobEnd
<1>3. CASE EndClean \/ EndRemove
  BY <1>3 DEF EndClean, EndRemove, JobsInv, HandlerHasNoJob
<1>4. CASE SetModelsRoot
  BY <1>4 DEF SetModelsRoot, has_active_jobs
<1>5. CASE UNCHANGED jobs
  BY <1>5
<1>6. CASE \/ \E o \in Packages : \/ Start(o)
                                  \/ BeginCommand("clean", "clean-partial", o)
                                  \/ BeginCommand("remove", "uninstall", o)
           \/ CommandFailed \/ package_sizes
           \/ \E s \in scans : ReadPackages(s) \/ EndScan(s)
  BY <1>6, <1>5 DEF Start, BeginCommand, CommandFailed, package_sizes, ReadPackages, EndScan
<1>7. CASE \E q \in Packages \cup {Handler} :
              \/ Command(PM!Work(q))
              \/ Command(PM!RemoteFails(q) \/ (MayCrash /\ PM!Crash(q)))
  BY <1>7, <1>5 DEF Command
<1>8. CASE UNCHANGED vars
  BY <1>8, <1>5 DEF vars
<1>. QED
  BY <1>1, <1>2, <1>3, <1>4, <1>6, <1>7, <1>8 DEF Next, Handle, Progress

\* A stop request is never lost.
THEOREM StopRequestsAreKept == Spec => StopIsNotLost
<1>1. JobsInv /\ [Next]_vars =>
        [\A p \in Packages : jobs[p] = "cancelling" => jobs'[p] \in {"cancelling", "cancelled"}]_vars
  BY StopStep
<1>. QED
  BY <1>1, JobsAlways, PTL DEF Spec, StopIsNotLost

-----------------------------------------------------------------------------
(* The commands.                                                           *)

Processes == Packages \cup {Handler}

Commands == INSTANCE PackageManager_proofs WITH Procs <- Packages \cup {Handler}

\* What PackageManager assumes of the packages.
LEMMA CommandsAssumption == Commands!PackagesAssumption
  BY PackagesAssumption DEF Commands!PackagesAssumption

\* The steps of a command are the same in both instances of PackageManager.
LEMMA SameWork ==
    ASSUME NEW q
    PROVE  PM!Work(q) <=> Commands!Work(q)
  BY Zenon
     DEF PM!Work, Commands!Work, PM!InstallCheck, Commands!InstallCheck,
         PM!MakeStaging, Commands!MakeStaging, PM!SeeMarker, Commands!SeeMarker,
         PM!OpenFile, Commands!OpenFile, PM!CloseFile, Commands!CloseFile,
         PM!BeginMerge, Commands!BeginMerge, PM!MergeFile, Commands!MergeFile,
         PM!EndMerge, Commands!EndMerge, PM!WriteManifest, Commands!WriteManifest,
         PM!UninstallCheck, Commands!UninstallCheck, PM!UnlinkFile, Commands!UnlinkFile,
         PM!EndUninstall, Commands!EndUninstall, PM!CleanPartial, Commands!CleanPartial,
         PM!Goto, Commands!Goto, PM!Fail, Commands!Fail, PM!Present, Commands!Present,
         PM!Staged, Commands!Staged, PM!Reusable, Commands!Reusable,
         PM!package_is_installed, Commands!package_is_installed,
         PM!TargetExists, Commands!TargetExists, PM!Empty, Commands!Empty,
         PM!Current, Commands!Current

LEMMA SameOthers ==
    ASSUME NEW q
    PROVE  /\ PM!RemoteFails(q) <=> Commands!RemoteFails(q)
           /\ PM!Crash(q) <=> Commands!Crash(q)
           /\ PM!Reap(q) <=> Commands!Reap(q)
           /\ \A op, p, overwrite :
                PM!Launch(q, op, p, overwrite) <=> Commands!Launch(q, op, p, overwrite)
  BY Zenon
     DEF PM!RemoteFails, Commands!RemoteFails, PM!Crash, Commands!Crash, PM!Reap,
         Commands!Reap, PM!Launch, Commands!Launch, PM!Fail, Commands!Fail,
         PM!Running, Commands!Running, PM!Ended, Commands!Ended

LEMMA SameInit == PM!Init <=> Commands!Init
  BY Zenon DEF PM!Init, Commands!Init, PM!Empty, Commands!Empty

\* A step of the server starts a command, ends one, is one of a command's own, or is none
\* of these.
CommandStarts(q, op, p) ==
    \E overwrite \in BOOLEAN : Commands!Launch(q, op, p, overwrite)
CommandEnds(q) == Commands!Reap(q) /\ UNCHANGED <<disk, staging>>
CommandGoesOn(q) ==
    \/ Commands!Work(q) \/ Commands!RemoteFails(q)
    \/ MayCrash /\ Commands!Crash(q)

Elsewhere ==
    \/ \E p \in Packages : Start(p) \/ Stop(p) \/ AddJob(p)
    \/ package_sizes
    \/ \E s \in scans : ReadPackages(s) \/ EndScan(s)
    \/ UNCHANGED vars

LEMMA StepsOfCommands ==
    ASSUME [Next]_vars
    PROVE  \/ Elsewhere /\ UNCHANGED <<disk, staging, proc>>
           \/ \E p \in Packages : BeginWork(p) /\ CommandStarts(p, "install", p)
           \/ \E p \in Packages : \/ /\ BeginCommand("clean", "clean-partial", p)
                                     /\ CommandStarts(Handler, "clean-partial", p)
                                  \/ /\ BeginCommand("remove", "uninstall", p)
                                     /\ CommandStarts(Handler, "uninstall", p)
           \/ \E p \in Packages : EndWork(p) /\ CommandEnds(p)
           \/ (CommandFailed \/ EndClean \/ EndRemove) /\ CommandEnds(Handler)
           \/ \E q \in Processes : /\ CommandGoesOn(q)
                                   /\ Command(TRUE)
           \/ SetModelsRoot
<1>1. ASSUME NEW p \in Packages, BeginWork(p)
      PROVE  CommandStarts(p, "install", p)
  BY <1>1, SameOthers, Zenon DEF BeginWork, CommandStarts
<1>2. ASSUME NEW p \in Packages, BeginCommand("clean", "clean-partial", p)
      PROVE  CommandStarts(Handler, "clean-partial", p)
  BY <1>2, SameOthers, Zenon DEF BeginCommand, CommandStarts
<1>3. ASSUME NEW p \in Packages, BeginCommand("remove", "uninstall", p)
      PROVE  CommandStarts(Handler, "uninstall", p)
  BY <1>3, SameOthers, Zenon DEF BeginCommand, CommandStarts
<1>4. ASSUME NEW p \in Packages, EndWork(p)
      PROVE  CommandEnds(p)
  BY <1>4, SameOthers, Zenon DEF EndWork, CommandEnds, files
<1>5. ASSUME CommandFailed \/ EndClean \/ EndRemove
      PROVE  CommandEnds(Handler)
  BY <1>5, SameOthers, Zenon DEF CommandFailed, EndClean, EndRemove, CommandEnds, files
<1>6. ASSUME NEW q \in Processes,
             \/ Command(PM!Work(q))
             \/ Command(PM!RemoteFails(q) \/ (MayCrash /\ PM!Crash(q)))
      PROVE  CommandGoesOn(q) /\ Command(TRUE)
  BY <1>6, SameOthers, SameWork, Zenon DEF Command, CommandGoesOn
<1>7. CASE Elsewhere
  BY <1>7 DEF Elsewhere, Start, Stop, AddJob, package_sizes, ReadPackages, EndScan, vars, files
<1>. QED
  BY <1>1, <1>2, <1>3, <1>4, <1>5, <1>6, <1>7, Zenon
     DEF Elsewhere, Next, Handle, Progress, Processes

-----------------------------------------------------------------------------
(* Partial downloads.                                                      *)

LEMMA FilesInit == Init => Commands!FilesInv
  BY SameInit, Commands!FilesInit, CommandsAssumption DEF Init

\* Every handler, worker and command preserves the invariant of the commands.
LEMMA FilesInductive == Commands!FilesInv /\ [Next]_vars => Commands!FilesInv'
<1>. SUFFICES ASSUME Commands!FilesInv, [Next]_vars PROVE Commands!FilesInv'
  OBVIOUS
<1>0. /\ Handler \in Processes /\ Packages \subseteq Processes
      /\ {"install", "uninstall", "clean-partial"} \subseteq Commands!Ops
  BY DEF Processes, Commands!Ops
<1>1. CASE UNCHANGED <<disk, staging, proc>>
  BY <1>1, Commands!SameFiles, CommandsAssumption DEF Commands!fileVars
<1>2. ASSUME NEW q \in Processes, NEW p \in Packages, NEW op \in Commands!Ops,
             CommandStarts(q, op, p)
      PROVE  Commands!FilesInv'
  BY <1>2, Commands!LaunchStep, CommandsAssumption DEF CommandStarts, Processes
<1>3. ASSUME NEW q \in Processes, CommandEnds(q)
      PROVE  Commands!FilesInv'
  BY <1>3, Commands!ReapStep, CommandsAssumption DEF CommandEnds, Processes
<1>4. ASSUME NEW q \in Processes, CommandGoesOn(q)
      PROVE  Commands!FilesInv'
  BY <1>4, Commands!WorkStep, Commands!FailStep, Commands!CrashStep, CommandsAssumption
     DEF CommandGoesOn, Processes, Commands!RemoteFails
<1>5. CASE SetModelsRoot
  <2>1. disk' \in [Files -> Commands!Content] /\ \A f \in Files : disk'[f] # "part"
    BY <1>5 DEF SetModelsRoot, PM!Empty, Commands!Content
  <2>2. UNCHANGED <<staging, proc>>
    BY <1>5 DEF SetModelsRoot
  <2>. QED
    BY <2>1, <2>2 DEF Commands!FilesInv, Commands!FilesType,
                      Commands!OnlyWholeFilesInstalled, Commands!StagedWhole
<1>. QED
  BY <1>0, <1>1, <1>2, <1>3, <1>4, <1>5, StepsOfCommands, Zenon

\* No file that was not downloaded to its end is in a target directory, whichever
\* commands the server runs at a time and wherever they are killed (the staging
\* directories and the size check of tools/model_manager_v2.py).
THEOREM PartsStayStaged == Spec => []NoPartialDownload
<1>1. Init => Commands!FilesInv
  BY FilesInit
<1>2. Commands!FilesInv /\ [Next]_vars => Commands!FilesInv'
  BY FilesInductive
<1>3. Commands!FilesInv => NoPartialDownload
  BY DEF Commands!FilesInv, Commands!OnlyWholeFilesInstalled, NoPartialDownload,
         PM!OnlyWholeFilesInstalled
<1>. QED
  BY <1>1, <1>2, <1>3, PTL DEF Spec

-----------------------------------------------------------------------------
(* Types.                                                                   *)

\* What FilesType and JobsType leave out.
RestType ==
    /\ manifest \subseteq Packages
    /\ orphans \subseteq {Target[p] : p \in Packages}
    /\ marker \subseteq Packages
    /\ cancel \subseteq Packages
    /\ handler \in [step : {"idle", "start", "clean", "remove"}, package : Packages]
    /\ size_state \in {"idle", "running", "complete", "failed"}
    /\ size_generation \in Nat
    /\ scans \subseteq [generation : Nat, seen : (SUBSET Packages) \cup {Unread}]
    /\ shown \in (SUBSET Packages) \cup {Unread}
    /\ calls \in 0..MaxCalls

\* A handler or a worker leaves the types true.
LEMMA HandlerTypes ==
    ASSUME RestType, JobsInv, NEW p \in Packages,
           \/ Start(p) \/ AddJob(p) \/ Stop(p) \/ BeginWork(p) \/ EndWork(p)
           \/ BeginCommand("clean", "clean-partial", p)
           \/ BeginCommand("remove", "uninstall", p)
           \/ CommandFailed \/ EndClean \/ EndRemove
    PROVE  RestType'
<1>0. Idle \in [step : {"idle", "start", "clean", "remove"}, package : Packages]
  BY DEF Idle
<1> USE HandlerAssumption DEF RestType, Call, files, sizes, Refresh
<1>1. CASE Start(p) \/ Stop(p) \/ BeginCommand("clean", "clean-partial", p)
           \/ BeginCommand("remove", "uninstall", p)
  BY <1>1 DEF Start, Stop, BeginCommand, PM!Launch
<1>2. CASE AddJob(p)
  BY <1>0, <1>2 DEF AddJob
<1>3. CASE BeginWork(p) \/ EndWork(p)
  BY <1>3 DEF BeginWork, EndWork, PM!Launch
<1>4. CASE CommandFailed \/ EndClean \/ EndRemove
  BY <1>0, <1>4 DEF CommandFailed, EndClean, EndRemove
<1>. QED
  BY <1>1, <1>2, <1>3, <1>4

\* The inventory, and a new models root, leave the types true.
LEMMA InventoryTypes ==
    ASSUME RestType,
           package_sizes \/ SetModelsRoot \/ \E s \in scans : ReadPackages(s) \/ EndScan(s)
    PROVE  RestType'
<1> USE HandlerAssumption DEF RestType, Call, files, sizes
<1>1. CASE package_sizes
  BY <1>1 DEF package_sizes
<1>2. CASE SetModelsRoot
  BY <1>2 DEF SetModelsRoot
<1>3. ASSUME NEW s \in scans, ReadPackages(s)
      PROVE  RestType'
  <2>1. Installed \in SUBSET Packages
    BY DEF Installed
  <2>2. [s EXCEPT !.seen = Installed]
            \in [generation : Nat, seen : (SUBSET Packages) \cup {Unread}]
    BY <2>1
  <2>. QED
    BY <1>3, <2>2 DEF ReadPackages
<1>4. ASSUME NEW s \in scans, EndScan(s)
      PROVE  RestType'
  BY <1>4 DEF EndScan
<1>. QED
  BY <1>1, <1>2, <1>3, <1>4

\* Every step leaves the types true.
LEMMA TypesInductive ==
    ASSUME Commands!FilesInv, JobsInv, RestType, [Next]_vars
    PROVE  RestType'
<1>1. CASE UNCHANGED vars
  BY <1>1 DEF vars, RestType, files, sizes
<1>2. CASE \/ \E p \in Packages : \/ Start(p) \/ AddJob(p) \/ Stop(p)
                                  \/ BeginWork(p) \/ EndWork(p)
                                  \/ BeginCommand("clean", "clean-partial", p)
                                  \/ BeginCommand("remove", "uninstall", p)
           \/ CommandFailed \/ EndClean \/ EndRemove
  <2>1. handler.package \in Packages
    BY DEF RestType
  <2>. QED
    BY <1>2, <2>1, HandlerTypes
<1>3. CASE package_sizes \/ SetModelsRoot \/ \E s \in scans : ReadPackages(s) \/ EndScan(s)
  BY <1>3, InventoryTypes
<1>4. ASSUME NEW q \in Processes,
             \/ Command(PM!Work(q))
             \/ Command(PM!RemoteFails(q) \/ (MayCrash /\ PM!Crash(q)))
      PROVE  RestType'
  <2>1. Commands!Work(q) \/ Commands!RemoteFails(q) \/ Commands!Crash(q)
    BY <1>4, SameWork, SameOthers, Zenon DEF Command
  <2>2. /\ manifest' \subseteq Packages
        /\ orphans' \subseteq {Target[p] : p \in Packages}
        /\ marker' \subseteq Packages
    <3>1. Commands!RestType
      BY DEF RestType, Commands!RestType
    <3>. QED
      BY <2>1, <3>1, Commands!CommandTypes, CommandsAssumption DEF Processes
  <2>. QED
    BY <1>4, <2>2 DEF Command, RestType, sizes
<1>. QED
  BY <1>1, <1>2, <1>3, <1>4 DEF Next, Handle, Progress, Processes

LEMMA InitTypes == Init => RestType
<1>. SUFFICES ASSUME Init PROVE RestType
  OBVIOUS
<1>1. PICK p \in Packages : TRUE
  BY DEF Init, PM!Init
<1>. QED
  BY <1>1, HandlerAssumption DEF Init, PM!Init, RestType, Idle

\* Every variable of the installer, its jobs and its commands keeps its type, with
\* handlers, workers, scans and kills in any order.
THEOREM TypeCorrect == Spec => []TypeOK
<1>1. Init => Commands!FilesInv /\ JobsInv
  BY FilesInit, InitJobs
<1>2. Init => RestType
  BY InitTypes
<1>3. Commands!FilesInv /\ JobsInv /\ RestType /\ [Next]_vars
        => Commands!FilesInv' /\ JobsInv' /\ RestType'
  BY FilesInductive, JobsInductive, TypesInductive
<1>4. Commands!FilesInv /\ JobsInv /\ RestType => TypeOK
  BY DEF Commands!FilesInv, Commands!FilesType, JobsInv, JobsType, RestType, TypeOK,
         PM!TypeOK, Commands!Process, PM!Content, Commands!Content, PM!Running,
         Commands!Running, PM!Ended, Commands!Ended, PM!Ops, Commands!Ops
<1>. QED
  BY <1>1, <1>2, <1>3, <1>4, PTL DEF Spec

-----------------------------------------------------------------------------
(* Processes apart: no two commands work in one target directory at a time. *)

\* No two packages share a target directory.
Separate == \A p, o \in Packages : p # o => Target[p] # Target[o]

\* A worker's command is the install of its package, and a handler's that of its call;
\* no other process runs.
Owned ==
    /\ \A p \in Packages :
          IF worker[p] = "command"
          THEN Commands!Busy(p) /\ proc[p].op = "install" /\ proc[p].package = p
          ELSE ~Commands!Busy(p)
    /\ IF handler.step \in {"clean", "remove"}
       THEN /\ Commands!Busy(Handler) /\ proc[Handler].package = handler.package
            /\ proc[Handler].op = IF handler.step = "clean" THEN "clean-partial" ELSE "uninstall"
       ELSE ~Commands!Busy(Handler)

\* The inductive invariant, while commands in one target directory only add files to it,
\* and while no two of them work in one.
CommandsInv ==
    JobsInv /\ RestType /\ Commands!FilesInv /\ Commands!GathersInv /\ Owned
ServerInv ==
    JobsInv /\ RestType /\ Commands!FilesInv /\ Commands!TidyInv /\ Owned

LEMMA ServerGathers == ServerInv => CommandsInv
  BY Commands!TidyGathers, CommandsAssumption DEF ServerInv, CommandsInv

\* Packages of separate directories keep the processes apart: a package has one command.
LEMMA ProcessesApart ==
    ASSUME Separate, JobsInv, RestType, Owned
    PROVE  Commands!Apart
<1>. SUFFICES ASSUME NEW q \in Processes, NEW r \in Processes, q # r,
                     Commands!Busy(q), Commands!Busy(r)
              PROVE  Target[proc[q].package] # Target[proc[r].package]
  BY DEF Commands!Apart, Processes
<1>1. ASSUME NEW p \in Packages, Commands!Busy(p)
      PROVE  proc[p].package = p /\ worker[p] # "none"
  BY <1>1 DEF Owned
<1>2. ASSUME Commands!Busy(Handler)
      PROVE  proc[Handler].package \in Packages /\ worker[proc[Handler].package] = "none"
  BY <1>2 DEF Owned, RestType, JobsInv, HandlerHasNoJob, ActiveJobsAreTheWorkers
<1>. QED
  BY <1>1, <1>2 DEF Separate, Processes

\* What a step of a command leaves as it is.
LEMMA GoesOnOwned ==
    ASSUME Commands!FilesInv, Commands!GathersInv, Owned, NEW q \in Processes,
           CommandGoesOn(q), Command(TRUE)
    PROVE  Owned'
<1>1. /\ Commands!FilesType /\ Commands!Gathers(q)
      /\ Commands!Work(q) \/ Commands!RemoteFails(q) \/ Commands!Crash(q)
  BY DEF Commands!FilesInv, Commands!GathersInv, CommandGoesOn, Processes
<1>2. /\ Commands!Busy(q) /\ Commands!Busy(q)'
      /\ proc'[q].package = proc[q].package /\ proc'[q].op = proc[q].op
      /\ \A r \in Processes \ {q} : proc'[r] = proc[r]
  BY <1>1, Commands!TouchesItsOwn, CommandsAssumption DEF Processes
<1>3. \A r \in Processes : /\ Commands!Busy(r)' <=> Commands!Busy(r)
                           /\ proc'[r].package = proc[r].package /\ proc'[r].op = proc[r].op
  BY <1>2 DEF Commands!Busy
<1>. QED
  BY <1>3 DEF Owned, Command, Processes

\* Starting a command.
LEMMA StartOwned ==
    ASSUME JobsInv, Commands!FilesType, Owned, NEW p \in Packages,
           \/ BeginWork(p) /\ CommandStarts(p, "install", p)
           \/ /\ BeginCommand("clean", "clean-partial", p)
              /\ CommandStarts(Handler, "clean-partial", p)
           \/ /\ BeginCommand("remove", "uninstall", p)
              /\ CommandStarts(Handler, "uninstall", p)
    PROVE  Owned'
<1>1. ASSUME NEW q \in Processes, NEW op, CommandStarts(q, op, p)
      PROVE  /\ Commands!Busy(q)' /\ proc'[q].op = op /\ proc'[q].package = p
             /\ \A r \in Processes \ {q} : proc'[r] = proc[r]
  <2>1. PICK overwrite \in BOOLEAN :
           proc' = [proc EXCEPT ![q] = [at |-> "begin", op |-> op, package |-> p,
                                        overwrite |-> overwrite, todo |-> {}]]
    BY <1>1, Zenon DEF CommandStarts, Commands!Launch
  <2>. QED
    BY <2>1 DEF Commands!FilesType, Commands!Busy, Processes
<1>2. Handler \notin Packages
  BY HandlerAssumption
<1>3. CASE BeginWork(p) /\ CommandStarts(p, "install", p)
  <2>1. /\ worker' = [worker EXCEPT ![p] = "command"] /\ handler' = handler
    BY <1>3, Zenon DEF BeginWork
  <2>2. worker'[p] = "command" /\ \A o \in Packages \ {p} : worker'[o] = worker[o]
    BY <2>1 DEF JobsInv, JobsType
  <2>3. /\ Commands!Busy(p)' /\ proc'[p].op = "install" /\ proc'[p].package = p
        /\ \A r \in Processes \ {p} : proc'[r] = proc[r]
    BY <1>1, <1>3 DEF Processes
  <2>. QED
    BY <1>2, <2>1, <2>2, <2>3 DEF Owned, Commands!Busy, Processes
<1>4. ASSUME NEW step \in {"clean", "remove"}, NEW op, BeginCommand(step, op, p),
             CommandStarts(Handler, op, p),
             op = IF step = "clean" THEN "clean-partial" ELSE "uninstall"
      PROVE  Owned'
  <2>1. handler' = [step |-> step, package |-> p] /\ worker' = worker
    BY <1>4, Zenon DEF BeginCommand
  <2>2. /\ Commands!Busy(Handler)' /\ proc'[Handler].op = op /\ proc'[Handler].package = p
        /\ \A r \in Processes \ {Handler} : proc'[r] = proc[r]
    BY <1>1, <1>4 DEF Processes
  <2>. QED
    BY <1>2, <1>4, <2>1, <2>2 DEF Owned, Commands!Busy, Processes
<1>. QED
  BY <1>3, <1>4

\* Ending one.
LEMMA EndOwned ==
    ASSUME JobsInv, Commands!FilesType, Owned,
           \/ \E p \in Packages : EndWork(p) /\ CommandEnds(p)
           \/ (CommandFailed \/ EndClean \/ EndRemove) /\ CommandEnds(Handler)
    PROVE  Owned'
<1>1. ASSUME NEW q \in Processes, CommandEnds(q)
      PROVE  ~Commands!Busy(q)' /\ \A r \in Processes \ {q} : proc'[r] = proc[r]
  <2>. DEFINE new == [proc[q] EXCEPT !.at = "away", !.todo = {}]
  <2>1. proc'[q] = new /\ \A r \in Processes \ {q} : proc'[r] = proc[r]
    BY <1>1 DEF CommandEnds, Commands!Reap, Commands!FilesType, Processes
  <2>2. proc[q] \in Commands!Process
    BY DEF Commands!FilesType, Processes
  <2>. QED
    BY <2>1, <2>2 DEF Commands!Process, Commands!Busy
<1>2. Handler \notin Packages
  BY HandlerAssumption
<1>3. ASSUME NEW p \in Packages, EndWork(p), CommandEnds(p)
      PROVE  Owned'
  <2>1. worker' = [worker EXCEPT ![p] = "none"] /\ handler' = handler
    BY <1>3, Zenon DEF EndWork
  <2>2. worker'[p] = "none" /\ \A o \in Packages \ {p} : worker'[o] = worker[o]
    BY <2>1 DEF JobsInv, JobsType
  <2>3. ~Commands!Busy(p)' /\ \A r \in Processes \ {p} : proc'[r] = proc[r]
    BY <1>1, <1>3 DEF Processes
  <2>. QED
    BY <1>2, <2>1, <2>2, <2>3 DEF Owned, Commands!Busy, Processes
<1>4. CASE (CommandFailed \/ EndClean \/ EndRemove) /\ CommandEnds(Handler)
  <2>1. handler'.step = "idle" /\ worker' = worker
    BY <1>4 DEF CommandFailed, EndClean, EndRemove, Idle
  <2>2. ~Commands!Busy(Handler)' /\ \A r \in Processes \ {Handler} : proc'[r] = proc[r]
    BY <1>1, <1>4 DEF Processes
  <2>. QED
    BY <1>2, <2>1, <2>2 DEF Owned, Commands!Busy, Processes
<1>. QED
  BY <1>3, <1>4

\* A step that is none of a command's.
LEMMA ElsewhereOwned ==
    ASSUME JobsInv, Owned, Elsewhere, UNCHANGED proc
    PROVE  Owned'
<1>1. \A r : Commands!Busy(r)' <=> Commands!Busy(r)
  BY DEF Commands!Busy
<1>2. ASSUME NEW p \in Packages, Start(p)
      PROVE  Owned'
  <2>1. handler.step = "idle" /\ handler'.step = "start" /\ worker' = worker
    BY <1>2 DEF Start, Call, Idle
  <2>. QED
    BY <1>1, <2>1 DEF Owned
<1>3. ASSUME NEW p \in Packages, AddJob(p)
      PROVE  Owned'
  <2>1. /\ handler.step = "start" /\ handler'.step = "idle"
        /\ worker' = worker \/ (worker' = [worker EXCEPT ![p] = "begin"] /\ ~Active(p))
    BY <1>3 DEF AddJob, Idle
  <2>2. \A o \in Packages : worker'[o] = "command" <=> worker[o] = "command"
    BY <2>1 DEF JobsInv, JobsType, ActiveJobsAreTheWorkers
  <2>. QED
    BY <1>1, <2>1, <2>2 DEF Owned
<1>4. CASE UNCHANGED <<worker, handler>>
  BY <1>1, <1>4 DEF Owned
<1>5. ASSUME NEW p \in Packages, Stop(p)
      PROVE  UNCHANGED <<worker, handler>>
  BY <1>5 DEF Stop
<1>6. ASSUME package_sizes \/ (\E s \in scans : ReadPackages(s) \/ EndScan(s)) \/ UNCHANGED vars
      PROVE  UNCHANGED <<worker, handler>>
  BY <1>6 DEF package_sizes, ReadPackages, EndScan, vars
<1>. QED
  BY <1>2, <1>3, <1>4, <1>5, <1>6 DEF Elsewhere

\* The models root changes when no command runs.
LEMMA RootIsQuiet ==
    ASSUME JobsInv, Owned, SetModelsRoot
    PROVE  \A q \in Processes : ~Commands!Busy(q)
<1>1. \A p \in Packages : worker[p] = "none"
  BY DEF SetModelsRoot, has_active_jobs, JobsInv, ActiveJobsAreTheWorkers
<1>2. handler.step = "idle"
  BY DEF SetModelsRoot, Call, Idle
<1>. QED
  BY <1>1, <1>2 DEF Owned, Processes

\* Processes stay tidy.
LEMMA ServerTidy ==
    ASSUME Commands!Apart, ServerInv, [Next]_vars
    PROVE  Commands!TidyInv'
<1>0. /\ Commands!FilesInv /\ Commands!FilesType /\ Commands!TidyInv /\ Commands!Apart
      /\ Handler \in Processes /\ Packages \subseteq Processes
  BY DEF ServerInv, Commands!FilesInv, Processes
<1>1. CASE UNCHANGED <<disk, staging, proc>>
  BY <1>0, <1>1, Commands!SameForOne, CommandsAssumption DEF Commands!TidyInv
<1>2. ASSUME NEW q \in Processes, NEW op, NEW p, CommandStarts(q, op, p)
      PROVE  Commands!TidyInv'
  BY <1>0, <1>2, Commands!LaunchTidy, CommandsAssumption DEF CommandStarts, Processes
<1>3. ASSUME NEW q \in Processes, CommandEnds(q)
      PROVE  Commands!TidyInv'
  BY <1>0, <1>3, Commands!ReapTidy, CommandsAssumption DEF CommandEnds, Processes
<1>4. ASSUME NEW q \in Processes, CommandGoesOn(q)
      PROVE  Commands!TidyInv'
  BY <1>0, <1>4, Commands!TidyStep, CommandsAssumption DEF CommandGoesOn, Processes
<1>5. CASE SetModelsRoot
  <2>1. \A q \in Processes : proc[q].at = "away" /\ proc'[q] = proc[q]
    BY <1>5, RootIsQuiet DEF ServerInv, SetModelsRoot, Commands!Busy
  <2>2. \A q \in Processes : staging'[q] = NoDir
    BY <1>0, <1>5, <2>1
       DEF SetModelsRoot, Commands!TidyInv, Commands!Tidy, Commands!Gathers, Commands!InItsPlace,
           Commands!Downloading, Processes
  <2>. QED
    BY <2>1, <2>2, Commands!Rests, CommandsAssumption DEF Commands!TidyInv, Processes
<1>. QED
  BY <1>0, <1>1, <1>2, <1>3, <1>4, <1>5, StepsOfCommands, Zenon

\* Processes go on gathering their files.
LEMMA ServerGathering ==
    ASSUME Commands!Alongside, CommandsInv, [Next]_vars
    PROVE  Commands!GathersInv'
<1>0. /\ Commands!FilesInv /\ Commands!FilesType /\ Commands!GathersInv
      /\ Handler \in Processes /\ Packages \subseteq Processes
  BY DEF CommandsInv, Commands!FilesInv, Processes
<1>1. CASE UNCHANGED <<disk, staging, proc>>
  <2>1. \A f : Commands!Present(f)' <=> Commands!Present(f)
    BY <1>1 DEF Commands!Present
  <2>. QED
    BY <1>0, <1>1, <2>1, Commands!KeptForOne, CommandsAssumption DEF Commands!GathersInv
<1>2. ASSUME NEW q \in Processes, NEW op, NEW p, CommandStarts(q, op, p)
      PROVE  Commands!GathersInv'
  BY <1>0, <1>2, Commands!LaunchGathers, CommandsAssumption DEF CommandStarts, Processes
<1>3. ASSUME NEW q \in Processes, CommandEnds(q)
      PROVE  Commands!GathersInv'
  BY <1>0, <1>3, Commands!ReapGathers, CommandsAssumption DEF CommandEnds, Processes
<1>4. ASSUME NEW q \in Processes, CommandGoesOn(q)
      PROVE  Commands!GathersInv'
  BY <1>0, <1>4, Commands!GathersStep, CommandsAssumption DEF CommandGoesOn, Processes
<1>5. CASE SetModelsRoot
  <2>1. \A q \in Processes : proc[q].at = "away" /\ proc'[q] = proc[q]
    BY <1>5, RootIsQuiet DEF CommandsInv, SetModelsRoot, Commands!Busy
  <2>2. \A q \in Processes : staging'[q] = NoDir
    BY <1>0, <1>5, <2>1
       DEF SetModelsRoot, Commands!GathersInv, Commands!Gathers, Commands!InItsPlace,
           Commands!Downloading, Processes
  <2>. QED
    BY <2>1, <2>2, Commands!Rests, CommandsAssumption
       DEF Commands!GathersInv, Commands!Tidy, Processes
<1>. QED
  BY <1>0, <1>1, <1>2, <1>3, <1>4, <1>5, StepsOfCommands, Zenon

\* Commands stay with their workers and handlers.
LEMMA ServerOwned ==
    ASSUME CommandsInv, [Next]_vars
    PROVE  Owned'
<1>0. /\ JobsInv /\ Commands!FilesInv /\ Commands!FilesType /\ Commands!GathersInv /\ Owned
  BY DEF CommandsInv, Commands!FilesInv
<1>1. CASE SetModelsRoot
  <2>1. \A q \in Processes : ~Commands!Busy(q)'
    BY <1>0, <1>1, RootIsQuiet DEF SetModelsRoot, Commands!Busy
  <2>2. handler'.step = "idle" /\ \A p \in Packages : worker'[p] = "none"
    BY <1>0, <1>1 DEF SetModelsRoot, Call, Idle, has_active_jobs, JobsInv,
                      ActiveJobsAreTheWorkers
  <2>. QED
    BY <2>1, <2>2 DEF Owned, Processes
<1>. QED
  BY <1>0, <1>1, StepsOfCommands, GoesOnOwned, StartOwned, EndOwned, ElsewhereOwned

LEMMA ServerInit == Init => ServerInv
<1>. SUFFICES ASSUME Init PROVE ServerInv
  OBVIOUS
<1>1. Commands!TidyInv
  BY SameInit, Commands!InitTidy, CommandsAssumption DEF Init
<1>2. \A q \in Processes : ~Commands!Busy(q)
  BY DEF Init, PM!Init, Commands!Busy, Processes
<1>3. Owned
  BY <1>2 DEF Init, Idle, Owned, Processes
<1>. QED
  BY <1>1, <1>3, InitTypes, FilesInit, InitJobs DEF ServerInv

LEMMA ServerStep ==
    ASSUME Commands!Apart, ServerInv, [Next]_vars
    PROVE  ServerInv'
<1>1. JobsInv' /\ RestType' /\ Commands!FilesInv'
  BY JobsInductive, TypesInductive, FilesInductive DEF ServerInv
<1>. QED
  BY <1>1, ServerGathers, ServerTidy, ServerOwned DEF ServerInv

LEMMA CommandsStep ==
    ASSUME Commands!Alongside, CommandsInv, [Next]_vars
    PROVE  CommandsInv'
<1>1. JobsInv' /\ RestType' /\ Commands!FilesInv'
  BY JobsInductive, TypesInductive, FilesInductive DEF CommandsInv
<1>. QED
  BY <1>1, ServerGathering, ServerOwned DEF CommandsInv

\* A process that has installed a package of its own has all its files in place.
LEMMA OkIsInstalled ==
    ASSUME CommandsInv, NEW p \in Packages, worker[p] = "command", proc[p].at = "ok"
    PROVE  p \in Installed
<1>1. Commands!package_is_installed(p)
  BY DEF CommandsInv, Owned, Commands!GathersInv, Commands!Gathers, Commands!GetsAll
<1>. QED
  BY <1>1 DEF Installed, PM!package_is_installed, PM!Present,
              Commands!package_is_installed, Commands!Present

\* While no two commands work in one target directory, the invariant holds.
LEMMA ServerInvariant == Spec /\ []Commands!Apart => []ServerInv
  BY ServerInit, ServerStep, PTL DEF Spec

LEMMA CommandsInvariant == Spec /\ []Commands!Alongside => []CommandsInv
  BY ServerInit, ServerGathers, CommandsStep, PTL DEF Spec

\* Downloads and removals of packages with directories of their own keep apart.
THEOREM SeparateIsApart == Separate => (Spec => []Commands!Apart)
<1>. SUFFICES ASSUME Separate PROVE Spec => []Commands!Apart
  OBVIOUS
<1>1. ServerInv => Commands!Apart
  BY ProcessesApart DEF ServerInv
<1>. QED
  BY <1>1, ServerInit, ServerStep, PTL DEF Spec

\* No removal and no cleaning is under way, and no download replaces files.
OnlyDownloads ==
    /\ handler.step \notin {"clean", "remove"}
    /\ \A p \in Packages : Commands!Busy(p) => ~proc[p].overwrite

\* While the server only downloads, whatever directories the packages share, its commands
\* only add files.
THEOREM DownloadsAreAlongside == Spec /\ []OnlyDownloads => []Commands!Alongside
<1>1. CommandsInv /\ OnlyDownloads => Commands!Alongside
  BY DEF CommandsInv, OnlyDownloads, Owned, Processes, Commands!Alongside, Commands!Adds
<1>2. Init => CommandsInv
  BY ServerInit, ServerGathers
<1>. QED
  BY <1>1, <1>2, CommandsStep, PTL DEF Spec

\* A job reported as complete has left its package installed, as long as the commands that
\* work in one target directory at the same time only add files to it.
THEOREM CompletedAreInstalled == Spec /\ []Commands!Alongside => CompleteIsInstalled
<1>1. CommandsInv /\ [Next]_vars =>
        [\A p \in Packages :
            jobs[p] # "complete" /\ jobs'[p] = "complete" => p \in Installed]_vars
  <2>. SUFFICES ASSUME CommandsInv, Next, NEW p \in Packages,
                       jobs[p] # "complete", jobs'[p] = "complete"
                PROVE  p \in Installed
    OBVIOUS
  <2>1. jobs = [o \in Packages |-> jobs[o]]
    BY DEF CommandsInv, JobsInv, JobsType
  <2>2. ASSUME NEW o \in Packages, EndWork(o)
        PROVE  p \in Installed
    <3>1. o = p /\ JobEnd(p) = "complete"
      BY <2>1, <2>2 DEF EndWork
    <3>2. worker[p] = "command" /\ proc[p].at = "ok"
      BY <2>2, <3>1 DEF EndWork, JobEnd
    <3>. QED
      BY <3>2, OkIsInstalled
  <2>3. ASSUME NEW o \in Packages, AddJob(o) \/ Stop(o) \/ BeginWork(o)
        PROVE  FALSE
    BY <2>1, <2>3 DEF AddJob, Stop, BeginWork
  <2>4. ASSUME EndClean \/ EndRemove \/ SetModelsRoot
        PROVE  FALSE
    BY <2>1, <2>4 DEF EndClean, EndRemove, SetModelsRoot
  <2>5. ASSUME \/ \E o \in Packages : \/ Start(o)
                                      \/ BeginCommand("clean", "clean-partial", o)
                                      \/ BeginCommand("remove", "uninstall", o)
               \/ CommandFailed \/ package_sizes
               \/ \E s \in scans : ReadPackages(s) \/ EndScan(s)
        PROVE  FALSE
    BY <2>5 DEF Start, BeginCommand, CommandFailed, package_sizes, ReadPackages, EndScan
  <2>6. ASSUME \E q \in Processes :
                  \/ Command(PM!Work(q))
                  \/ Command(PM!RemoteFails(q) \/ (MayCrash /\ PM!Crash(q)))
        PROVE  FALSE
    BY <2>6 DEF Command
  <2>7. ~UNCHANGED vars
    BY DEF vars
  <2>. QED
    BY <2>2, <2>3, <2>4, <2>5, <2>6, <2>7 DEF Next, Handle, Progress, Processes
<1>. QED
  BY <1>1, CommandsInvariant, PTL DEF Spec, CompleteIsInstalled

-----------------------------------------------------------------------------
(* The inventory.                                                          *)

\* No command has begun to change files and is not yet known to have.
Settled == \A q \in Processes : ~Commands!Dirty(q)

\* No scan is newer than the inventory; while nothing is being changed, what a scan that
\* was not overtaken has seen is what is installed, and so is what is shown.
FreshInv ==
    /\ \A s \in scans : s.generation <= size_generation
    /\ Settled =>
          /\ \A s \in scans :
                s.generation = size_generation /\ s.seen # Unread => s.seen = Installed
          /\ size_state = "complete" => shown = Installed

\* A step after which nothing is being changed, when nothing was before and no file changed.
LEMMA StaysFresh ==
    ASSUME FreshInv, UNCHANGED disk, UNCHANGED sizes, Settled' => Settled
    PROVE  FreshInv'
<1>1. Installed' = Installed
  BY DEF Installed, PM!package_is_installed, PM!Present
<1>. QED
  BY <1>1 DEF FreshInv, sizes

\* Results that are out of date are not taken for new ones.
LEMMA RefreshFresh ==
    ASSUME RestType, FreshInv, Refresh
    PROVE  FreshInv'
<1>1. size_generation' = size_generation + 1 /\ size_state' = "idle" /\ scans' = scans
  BY DEF Refresh
<1>2. \A s \in scans : s.generation \in Nat /\ s.generation <= size_generation
  BY DEF FreshInv, RestType
<1>. QED
  BY <1>1, <1>2 DEF FreshInv, RestType

\* The scans.
LEMMA ScanFresh ==
    ASSUME RestType, FreshInv, Elsewhere, UNCHANGED <<disk, staging, proc>>
    PROVE  FreshInv'
<1>0. Installed' = Installed /\ (Settled' <=> Settled)
  BY DEF Installed, PM!package_is_installed, PM!Present, Settled, Commands!Dirty
<1>1. CASE UNCHANGED sizes
  BY <1>0, <1>1, StaysFresh
<1>2. CASE package_sizes
  <2>1. /\ size_generation' = size_generation + 1 /\ size_state' = "running"
        /\ scans' = scans \cup {[generation |-> size_generation + 1, seen |-> Unread]}
    BY <1>2 DEF package_sizes
  <2>2. \A s \in scans : s.generation \in Nat /\ s.generation <= size_generation
    BY DEF FreshInv, RestType
  <2>. QED
    BY <2>1, <2>2 DEF FreshInv, RestType
<1>3. ASSUME NEW s \in scans, ReadPackages(s)
      PROVE  FreshInv'
  <2>. DEFINE read == [s EXCEPT !.seen = Installed]
  <2>1. /\ scans' = (scans \ {s}) \cup {read}
        /\ UNCHANGED <<size_state, size_generation, shown>>
    BY <1>3 DEF ReadPackages
  <2>2. read.generation = s.generation /\ read.seen = Installed
    BY DEF RestType
  <2>. HIDE DEF read
  <2>. QED
    BY <1>0, <2>1, <2>2 DEF FreshInv
<1>4. ASSUME NEW s \in scans, EndScan(s)
      PROVE  FreshInv'
  <2>1. /\ scans' = scans \ {s} /\ size_generation' = size_generation
        /\ \/ /\ s.generation = size_generation /\ s.seen # Unread
              /\ size_state' = "complete" /\ shown' = s.seen
           \/ size_state' = "failed"
           \/ UNCHANGED <<size_state, shown>>
    BY <1>4 DEF EndScan
  <2>. QED
    BY <1>0, <2>1 DEF FreshInv
<1>5. ASSUME (\E p \in Packages : Start(p) \/ Stop(p) \/ AddJob(p)) \/ UNCHANGED vars
      PROVE  UNCHANGED sizes
  BY <1>5 DEF Start, Stop, AddJob, vars
<1>. QED
  BY <1>1, <1>2, <1>3, <1>4, <1>5 DEF Elsewhere

\* A command that ends and may have changed files has the inventory read again.
LEMMA EndFresh ==
    ASSUME ServerInv, FreshInv,
           \/ \E p \in Packages : EndWork(p) /\ CommandEnds(p)
           \/ (CommandFailed \/ EndClean \/ EndRemove) /\ CommandEnds(Handler)
    PROVE  FreshInv'
<1>0. RestType /\ Commands!FilesType /\ Owned
  BY DEF ServerInv, Commands!FilesInv
<1>1. ASSUME NEW q \in Processes, CommandEnds(q), ~Commands!Dirty(q), UNCHANGED sizes
      PROVE  FreshInv'
  <2>1. disk' = disk /\ \A r \in Processes \ {q} : proc'[r] = proc[r]
    BY <1>0, <1>1 DEF CommandEnds, Commands!Reap, Commands!FilesType, Processes
  <2>2. Settled' => Settled
    BY <1>1, <2>1 DEF Settled, Commands!Dirty
  <2>. QED
    BY <1>1, <2>1, <2>2, StaysFresh
<1>2. ASSUME NEW p \in Packages, EndWork(p), CommandEnds(p)
      PROVE  FreshInv'
  <2>1. CASE proc[p].at = "ok"
    BY <1>0, <1>2, <2>1, RefreshFresh DEF EndWork
  <2>2. CASE proc[p].at # "ok"
    <3>1. ~Commands!Dirty(p)
      BY <1>2, <2>2 DEF CommandEnds, Commands!Reap, Commands!Ended, Commands!Dirty
    <3>2. UNCHANGED sizes
      BY <1>2, <2>2 DEF EndWork
    <3>. QED
      BY <1>1, <1>2, <3>1, <3>2 DEF Processes
  <2>. QED
    BY <2>1, <2>2
<1>3. ASSUME CommandFailed \/ EndClean, CommandEnds(Handler)
      PROVE  FreshInv'
  <2>1. \/ proc[Handler].at = "failed"
        \/ handler.step = "clean"
    BY <1>3 DEF CommandFailed, EndClean
  <2>2. ~Commands!Dirty(Handler)
    BY <1>0, <1>3, <2>1 DEF Owned, Commands!Dirty, CommandEnds, Commands!Reap, Commands!Ended
  <2>3. UNCHANGED sizes
    BY <1>3 DEF CommandFailed, EndClean
  <2>. QED
    BY <1>1, <1>3, <2>2, <2>3 DEF Processes
<1>4. ASSUME EndRemove
      PROVE  FreshInv'
  BY <1>0, <1>4, RefreshFresh DEF EndRemove
<1>. QED
  BY <1>2, <1>3, <1>4

LEMMA FreshStep ==
    ASSUME ~MayCrash, ServerInv, FreshInv, [Next]_vars
    PROVE  FreshInv'
<1>0. /\ RestType /\ Commands!FilesInv /\ Commands!FilesType /\ Commands!TidyInv
      /\ Handler \in Processes /\ Packages \subseteq Processes
  BY DEF ServerInv, Commands!FilesInv, Processes
<1>1. CASE Elsewhere /\ UNCHANGED <<disk, staging, proc>>
  BY <1>0, <1>1, ScanFresh
<1>2. ASSUME NEW q \in Processes, NEW op, NEW p, CommandStarts(q, op, p), UNCHANGED sizes
      PROVE  FreshInv'
  <2>1. /\ disk' = disk /\ proc[q].at = "away"
        /\ \A r \in Processes \ {q} : proc'[r] = proc[r]
    BY <1>0, <1>2 DEF CommandStarts, Commands!Launch, Commands!FilesType, Processes
  <2>2. Settled' => Settled
    BY <2>1 DEF Settled, Commands!Dirty
  <2>. QED
    BY <1>2, <2>1, <2>2, StaysFresh
<1>3. ASSUME NEW q \in Processes, CommandGoesOn(q), Command(TRUE)
      PROVE  FreshInv'
  <2>1. Commands!Tidy(q) /\ (Commands!Work(q) \/ Commands!RemoteFails(q))
    BY <1>0, <1>3 DEF CommandGoesOn, Commands!TidyInv, Processes
  <2>2. /\ disk' # disk => Commands!Dirty(q)'
        /\ Commands!Dirty(q) => Commands!Dirty(q)'
    BY <1>0, <2>1, Commands!DirtyStep, CommandsAssumption DEF Processes
  <2>3. \A r \in Processes \ {q} : proc'[r] = proc[r]
    BY <1>0, <2>1, Commands!TouchesItsOwn, CommandsAssumption DEF Commands!Tidy, Processes
  <2>4. Settled' => Settled /\ disk' = disk
    BY <2>2, <2>3 DEF Settled, Commands!Dirty
  <2>5. UNCHANGED sizes
    BY <1>3 DEF Command
  <2>6. CASE Settled'
    BY <2>4, <2>5, <2>6, StaysFresh
  <2>7. CASE ~Settled'
    BY <2>5, <2>7 DEF FreshInv, sizes
  <2>. QED
    BY <2>6, <2>7
<1>4. CASE SetModelsRoot
  BY <1>4 DEF SetModelsRoot, FreshInv
<1>5. ASSUME NEW p \in Packages,
             \/ BeginWork(p) \/ BeginCommand("clean", "clean-partial", p)
             \/ BeginCommand("remove", "uninstall", p)
      PROVE  UNCHANGED sizes
  BY <1>5, Zenon DEF BeginWork, BeginCommand
<1>6. CASE \/ \E p \in Packages : EndWork(p) /\ CommandEnds(p)
           \/ (CommandFailed \/ EndClean \/ EndRemove) /\ CommandEnds(Handler)
  BY <1>6, EndFresh
<1>. QED
  BY <1>0, <1>1, <1>2, <1>3, <1>4, <1>5, <1>6, StepsOfCommands, Zenon

\* An inventory reported as complete is that of the disk, if no command is killed and no
\* two of them work in one target directory.
THEOREM InventoriesAreFresh == ~MayCrash => (Spec /\ []Commands!Apart => []InventoryIsFresh)
<1>. SUFFICES ASSUME ~MayCrash PROVE Spec /\ []Commands!Apart => []InventoryIsFresh
  OBVIOUS
<1>1. Init => ServerInv /\ FreshInv
  <2>1. Init => FreshInv
    BY DEF Init, FreshInv
  <2>. QED
    BY <2>1, ServerInit
<1>2. Commands!Apart /\ ServerInv /\ FreshInv /\ [Next]_vars => ServerInv' /\ FreshInv'
  BY ServerStep, FreshStep
<1>3. ServerInv /\ FreshInv => InventoryIsFresh
  <2>. SUFFICES ASSUME ServerInv, FreshInv, size_state = "complete", handler = Idle,
                       ~has_active_jobs
                PROVE  shown = Installed
    BY DEF InventoryIsFresh
  <2>1. \A p \in Packages : worker[p] # "command"
    BY DEF has_active_jobs, ServerInv, JobsInv, ActiveJobsAreTheWorkers
  <2>2. \A q \in Processes : ~Commands!Busy(q)
    BY <2>1 DEF ServerInv, Owned, Idle, Processes
  <2>3. Settled
    BY <2>2 DEF Settled, Commands!Dirty, Commands!Busy
  <2>. QED
    BY <2>3 DEF FreshInv
<1>. QED
  BY <1>1, <1>2, <1>3, PTL DEF Spec

-----------------------------------------------------------------------------
(* What the server leaves on the disk.                                     *)

\* A change of the models root leaves an empty folder to commands that are all over.
LEMMA RootAccounted ==
    ASSUME ServerInv, SetModelsRoot
    PROVE  Commands!FilesAccounted'
<1>1. \A q \in Processes : ~Commands!Busy(q)'
  BY RootIsQuiet DEF ServerInv, SetModelsRoot, Commands!Busy
<1>2. \A f \in Files : disk'[f] = "absent"
  BY DEF SetModelsRoot, PM!Empty
<1>3. \A p \in Packages : Needs[p] \in SUBSET Files
  BY PackagesAssumption
<1>. QED
  BY <1>1, <1>2, <1>3
     DEF Commands!FilesAccounted, Commands!Settled, Commands!Declared, Commands!Present,
         Processes

\* Every other step of the server is one of a command's, or leaves the disk alone.
LEMMA ServerAccounted ==
    ASSUME ~MayCrash, Commands!Apart, Commands!Apart', ServerInv, Commands!FilesAccounted,
           [Next]_vars
    PROVE  Commands!FilesAccounted'
<1>0. /\ Commands!FilesInv /\ Commands!FilesType /\ Commands!TidyInv
      /\ Handler \in Processes /\ Packages \subseteq Processes
  BY DEF ServerInv, Commands!FilesInv, Processes
<1>1. CASE UNCHANGED <<disk, staging, proc>>
  BY <1>1, Commands!SameAccounted, CommandsAssumption
<1>2. ASSUME NEW q \in Processes, NEW op, NEW p \in Packages, CommandStarts(q, op, p)
      PROVE  Commands!FilesAccounted'
  BY <1>0, <1>2, Commands!LaunchAccounted, CommandsAssumption DEF CommandStarts, Processes
<1>3. ASSUME NEW q \in Processes, CommandEnds(q)
      PROVE  Commands!FilesAccounted'
  BY <1>0, <1>3, Commands!ReapAccounted, CommandsAssumption DEF CommandEnds, Processes
<1>4. ASSUME NEW q \in Processes, CommandGoesOn(q)
      PROVE  Commands!FilesAccounted'
  BY <1>0, <1>4, Commands!StepAccounted, CommandsAssumption DEF CommandGoesOn, Processes
<1>5. CASE SetModelsRoot
  BY <1>5, RootAccounted
<1>. QED
  BY <1>0, <1>1, <1>2, <1>3, <1>4, <1>5, StepsOfCommands, Zenon

\* Between its commands the server leaves no file behind that belongs to no installed
\* package, whatever fails, is stopped or is removed, if no command is killed and no two
\* of them work in one target directory.
THEOREM NothingIsStranded == ~MayCrash => (Spec /\ []Commands!Apart => []PM!NoStrandedFiles)
<1>. SUFFICES ASSUME ~MayCrash PROVE Spec /\ []Commands!Apart => []PM!NoStrandedFiles
  OBVIOUS
<1>1. Init => Commands!FilesAccounted
  BY SameInit, Commands!InitAccounted, CommandsAssumption DEF Init
<1>2. ServerInv /\ Commands!FilesAccounted => PM!NoStrandedFiles
  <2>1. PM!NoStrandedFiles <=> Commands!NoStrandedFiles
    BY Zenon DEF PM!NoStrandedFiles, Commands!NoStrandedFiles, PM!Present, Commands!Present,
                 PM!package_is_installed, Commands!package_is_installed, PM!Running,
                 Commands!Running
  <2>. QED
    BY <2>1, Commands!AccountedFiles, CommandsAssumption DEF ServerInv
<1>3. /\ Commands!Apart /\ Commands!Apart' /\ ServerInv /\ Commands!FilesAccounted
      /\ [Next]_vars
      => Commands!FilesAccounted'
  BY ServerAccounted
<1>. QED
  BY <1>1, <1>2, <1>3, ServerInvariant, PTL DEF Spec
=============================================================================
