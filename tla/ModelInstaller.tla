--------------------------- MODULE ModelInstaller ---------------------------
(***************************************************************************)
(* Package downloads of the server: class ModelInstaller of                *)
(* app/server/model_installer.cpp, the handlers of ServerState that call   *)
(* it, and the commands it runs, which are those of PackageManager.        *)
(*                                                                         *)
(* A download is a job with a detached worker thread, which runs the       *)
(* install command and reports its end; a package is its worker's name.    *)
(* Every handler holds the server's model_installer_mutex_ from start to   *)
(* end, so that at most one is between two steps: `handler` is that one.   *)
(* A step of a handler or a worker is a critical section of State::mutex,  *)
(* the start or end of a command, or an access to a cancel file.           *)
(***************************************************************************)
EXTENDS Integers, FiniteSets

CONSTANTS
    Packages, Files, Needs, Target, NoDir,   \* see PackageManager
    MayCrash,   \* whether commands are killed
    Handler,    \* the process that runs the commands of the handlers
    Unread,     \* what a package scan has seen before it has looked
    MaxCalls    \* bound: calls of the handlers that change something

ASSUME HandlerAssumption == Handler \notin Packages /\ MayCrash \in BOOLEAN /\ MaxCalls \in Nat
ASSUME PackagesAssumption ==    \* that of PackageManager
    /\ Needs \in [Packages -> (SUBSET Files) \ {{}}]
    /\ DOMAIN Target = Packages
    /\ \A p, o \in Packages : Needs[p] \cap Needs[o] # {} => Target[p] = Target[o]
    /\ NoDir \notin [Files -> {"absent", "part", "whole"}]

VARIABLES
    disk, manifest, staging, orphans, marker, proc,    \* see PackageManager
    jobs,       \* the state of each package's job, "none" before the first one
    cancel,     \* packages whose job has cancel_requested
    worker,     \* where each package's worker thread is
    handler,    \* what the handler with model_installer_mutex_ does
    root,       \* which models root the server uses: a number
    jobRoot,    \* the models root each worker was started for
    size_state, size_generation,
    scans,      \* scan threads: their generation and what they have seen
    shown,      \* the content of the last complete scan's output
    calls       \* bound: calls made so far

files == <<disk, manifest, staging, orphans>>
sizes == <<size_state, size_generation, scans, shown>>
vars == <<files, marker, proc, jobs, cancel, worker, handler, root, jobRoot, sizes, calls>>

PM == INSTANCE PackageManager WITH Procs <- Packages \cup {Handler}

Installed == {p \in Packages : PM!package_is_installed(p)}
Active(p) == jobs[p] \in {"queued", "running", "cancelling"}
Idle == [step |-> "idle", package |-> CHOOSE p \in Packages : TRUE]

\* Mutated: a job that has not begun does not count.
has_running_jobs == \E p \in Packages : jobs[p] \in {"running", "cancelling"}

\* has_active_jobs
has_active_jobs == \E p \in Packages : Active(p)

Init ==
    /\ PM!Init
    /\ jobs = [p \in Packages |-> "none"]
    /\ cancel = {}
    /\ worker = [p \in Packages |-> "none"]
    /\ handler = Idle
    /\ root = 0
    /\ jobRoot = [p \in Packages |-> 0]
    /\ size_state = "idle" /\ size_generation = 0 /\ scans = {} /\ shown = Unread
    /\ calls = 0

\* A handler takes model_installer_mutex_.
Call ==
    /\ handler = Idle
    /\ calls < MaxCalls
    /\ calls' = calls + 1

\* What a change of the installed packages does to the inventory.
Refresh ==
    /\ size_generation' = size_generation + 1
    /\ size_state' = "idle"
    /\ UNCHANGED <<scans, shown>>

-----------------------------------------------------------------------------
(* start, stop                                                              *)

\* The cancel file of an earlier job is removed before anything is looked at.
Start(p) ==
    /\ Call
    /\ handler' = [step |-> "start", package |-> p]
    /\ marker' = marker \ {p}
    /\ UNCHANGED <<files, proc, jobs, cancel, worker, root, jobRoot, sizes>>

\* The job is made and its thread started, unless the package has an active job.
AddJob(p) ==
    /\ handler = [step |-> "start", package |-> p]
    /\ handler' = Idle
    /\ \/ /\ ~Active(p)
          /\ jobs' = [jobs EXCEPT ![p] = "queued"]
          /\ cancel' = cancel \ {p}
          /\ worker' = [worker EXCEPT ![p] = "begin"]
          /\ jobRoot' = [jobRoot EXCEPT ![p] = root]
       \/ /\ Active(p)
          /\ UNCHANGED <<jobs, cancel, worker, jobRoot>>
    /\ UNCHANGED <<files, marker, proc, root, sizes, calls>>

\* The cancel file is written and the job marked, in one critical section.
Stop(p) ==
    /\ Call
    /\ Active(p)
    /\ marker' = marker \cup {p}
    /\ cancel' = cancel \cup {p}
    /\ jobs' = [jobs EXCEPT ![p] = "cancelling"]
    /\ UNCHANGED <<files, proc, worker, handler, root, jobRoot, sizes>>

-----------------------------------------------------------------------------
(* The worker.                                                              *)

\* Mutated: a stop request that came first is overwritten.
BeginUncancelled(p) ==
    /\ worker[p] = "begin"
    /\ jobs' = [jobs EXCEPT ![p] = "running"]
    /\ worker' = [worker EXCEPT ![p] = "command"]
    /\ \E overwrite \in BOOLEAN : PM!Launch(p, "install", p, overwrite)
    /\ UNCHANGED <<marker, cancel, handler, root, jobRoot, sizes, calls>>

\* The worker enters its job as running and starts the command.
BeginWork(p) ==
    /\ worker[p] = "begin"
    /\ jobs' = [jobs EXCEPT ![p] = IF p \in cancel THEN @ ELSE "running"]
    /\ worker' = [worker EXCEPT ![p] = "command"]
    /\ \E overwrite \in BOOLEAN : PM!Launch(p, "install", p, overwrite)
    /\ UNCHANGED <<marker, cancel, handler, root, jobRoot, sizes, calls>>

JobEnd(p) ==
    IF p \in cancel \cup marker THEN "cancelled"
    ELSE IF proc[p].at = "ok" THEN "complete" ELSE "failed"

\* Mutated: only a job that is still running gets its end recorded.
EndIfRunning(p) ==
    /\ worker[p] = "command"
    /\ PM!Reap(p)
    /\ worker' = [worker EXCEPT ![p] = "none"]
    /\ jobs' = [jobs EXCEPT ![p] = IF @ = "running" THEN JobEnd(p) ELSE @]
    /\ IF proc[p].at = "ok" THEN Refresh ELSE UNCHANGED sizes
    /\ UNCHANGED <<files, marker, cancel, handler, root, jobRoot, calls>>

\* Mutated: the exit code is not looked at.
EndAsComplete(p) ==
    /\ worker[p] = "command"
    /\ PM!Reap(p)
    /\ worker' = [worker EXCEPT ![p] = "none"]
    /\ jobs' = [jobs EXCEPT ![p] = IF p \in cancel THEN "cancelled" ELSE "complete"]
    /\ Refresh
    /\ UNCHANGED <<files, marker, cancel, handler, root, jobRoot, calls>>

\* The command is over: the job gets its end, and a successful install, cancelled
\* or not, has the inventory read again.
EndWork(p) ==
    /\ worker[p] = "command"
    /\ PM!Reap(p)
    /\ worker' = [worker EXCEPT ![p] = "none"]
    /\ jobs' = [jobs EXCEPT ![p] = JobEnd(p)]
    /\ IF proc[p].at = "ok" THEN Refresh ELSE UNCHANGED sizes
    /\ UNCHANGED <<files, marker, cancel, handler, root, jobRoot, calls>>

-----------------------------------------------------------------------------
(* clean_partial, remove                                                    *)

\* The command starts, unless the package has an active job.
BeginCommand(step, op, p) ==
    /\ Call
    /\ ~Active(p)
    /\ handler' = [step |-> step, package |-> p]
    /\ PM!Launch(Handler, op, p, FALSE)
    /\ UNCHANGED <<marker, jobs, cancel, worker, root, jobRoot, sizes>>

\* The command failed, which the handler throws.
CommandFailed ==
    /\ handler.step \in {"clean", "remove"}
    /\ proc[Handler].at = "failed"
    /\ PM!Reap(Handler)
    /\ handler' = Idle
    /\ UNCHANGED <<files, marker, jobs, cancel, worker, root, jobRoot, sizes, calls>>

\* The job is forgotten, and its cancel file removed.
EndClean ==
    LET p == handler.package IN
    /\ handler.step = "clean"
    /\ proc[Handler].at = "ok"
    /\ PM!Reap(Handler)
    /\ handler' = Idle
    /\ marker' = IF jobs[p] # "none" THEN marker \ {p} ELSE marker
    /\ jobs' = [jobs EXCEPT ![p] = "none"]
    /\ cancel' = cancel \ {p}
    /\ UNCHANGED <<files, worker, root, jobRoot, sizes, calls>>

\* The job is forgotten and the inventory read again.
EndRemove ==
    LET p == handler.package IN
    /\ handler.step = "remove"
    /\ proc[Handler].at = "ok"
    /\ PM!Reap(Handler)
    /\ handler' = Idle
    /\ jobs' = [jobs EXCEPT ![p] = "none"]
    /\ cancel' = cancel \ {p}
    /\ Refresh
    /\ UNCHANGED <<files, marker, worker, root, jobRoot, calls>>

-----------------------------------------------------------------------------
(* package_sizes, and the models root.                                      *)

\* An idle inventory is scanned by a thread with a generation of its own.
package_sizes ==
    /\ Call
    /\ size_state = "idle"
    /\ size_generation' = size_generation + 1
    /\ size_state' = "running"
    /\ scans' = scans \cup {[generation |-> size_generation + 1, seen |-> Unread]}
    /\ UNCHANGED <<files, marker, proc, jobs, cancel, worker, handler, root, jobRoot, shown>>

\* Its command looks at the packages' files.
ReadPackages(s) ==
    /\ s.seen = Unread
    /\ scans' = (scans \ {s}) \cup {[s EXCEPT !.seen = Installed]}
    /\ UNCHANGED <<files, marker, proc, jobs, cancel, worker, handler, root, jobRoot,
                   size_state, size_generation, shown, calls>>

\* Mutated: a scan that was overtaken is taken for a new one.
EndAnyScan(s) ==
    /\ s.seen # Unread
    /\ scans' = scans \ {s}
    /\ size_state' = "complete" /\ shown' = s.seen
    /\ UNCHANGED <<files, marker, proc, jobs, cancel, worker, handler, root, jobRoot,
                   size_generation, calls>>

\* A scan that was overtaken by another, or by a change, leaves no result.
EndScan(s) ==
    /\ scans' = scans \ {s}
    /\ \/ /\ s.generation = size_generation /\ s.seen # Unread
          /\ size_state' = "complete" /\ shown' = s.seen
       \/ /\ s.generation = size_generation
          /\ size_state' = "failed"
          /\ UNCHANGED shown
       \/ /\ s.generation # size_generation
          /\ UNCHANGED <<size_state, shown>>
    /\ UNCHANGED <<files, marker, proc, jobs, cancel, worker, handler, root, jobRoot,
                   size_generation, calls>>

\* handle_models_root_set: a new folder, here an empty one, and a new installer.
\* Scan threads keep the State of the old one to themselves.
SetModelsRoot ==
    /\ Call
    /\ ~has_active_jobs
    /\ root' = root + 1
    /\ jobs' = [p \in Packages |-> "none"]
    /\ cancel' = {} /\ marker' = {}
    /\ size_state' = "idle" /\ size_generation' = 0 /\ scans' = {} /\ shown' = Unread
    /\ disk' = PM!Empty /\ manifest' = {} /\ orphans' = {}
    /\ UNCHANGED <<staging, proc, worker, handler, jobRoot>>

-----------------------------------------------------------------------------
Handle ==
    \/ \E p \in Packages : Start(p) \/ Stop(p) \/ BeginCommand("clean", "clean-partial", p)
                           \/ BeginCommand("remove", "uninstall", p)
    \/ package_sizes
    \/ SetModelsRoot

\* A command goes on, and nothing else changes.
Command(A) == A /\ UNCHANGED <<jobs, cancel, worker, handler, root, jobRoot, sizes, calls>>

\* What goes on by itself once a handler was called.
Progress ==
    \/ \E p \in Packages : AddJob(p) \/ BeginWork(p) \/ EndWork(p)
    \/ CommandFailed \/ EndClean \/ EndRemove
    \/ \E q \in Packages \cup {Handler} : Command(PM!Work(q))
    \/ \E s \in scans : ReadPackages(s) \/ EndScan(s)

Next ==
    \/ Handle
    \/ Progress
    \/ \E q \in Packages \cup {Handler} : Command(PM!RemoteFails(q) \/ (MayCrash /\ PM!Crash(q)))
    \/ calls = MaxCalls /\ UNCHANGED vars   \* the bound of the model

Spec == Init /\ [][Next]_vars

\* Threads are scheduled, handlers go through, and every command ends: its reads
\* of the network time out.
FairSpec ==
    /\ Spec
    /\ \A p \in Packages : /\ WF_vars(AddJob(p)) /\ WF_vars(BeginWork(p))
                           /\ WF_vars(EndWork(p)) /\ WF_vars(Command(PM!Work(p)))

-----------------------------------------------------------------------------
TypeOK ==
    /\ PM!TypeOK
    /\ jobs \in [Packages -> {"none", "queued", "running", "cancelling",
                              "complete", "failed", "cancelled"}]
    /\ cancel \subseteq Packages
    /\ worker \in [Packages -> {"none", "begin", "command"}]
    /\ handler \in [step : {"idle", "start", "clean", "remove"}, package : Packages]
    /\ root \in Nat /\ jobRoot \in [Packages -> Nat]
    /\ size_state \in {"idle", "running", "complete", "failed"}
    /\ size_generation \in Nat
    /\ scans \subseteq [generation : Nat, seen : (SUBSET Packages) \cup {Unread}]
    /\ shown \in (SUBSET Packages) \cup {Unread}
    /\ calls \in 0..MaxCalls

\* A job is active exactly while its worker thread is: jobs.at() finds the job when
\* the worker ends, and no job stays active with nobody left to end it, which would
\* keep the models root from ever being changed.
ActiveJobsAreTheWorkers == \A p \in Packages : Active(p) <=> worker[p] # "none"

\* A download goes to the models root the server uses now (models-root is refused
\* with 409 while a download is active).
WorkersUseTheRoot == \A p \in Packages : worker[p] # "none" => jobRoot[p] = root

\* A stop request is not lost: a job that was asked to stop never goes back to
\* running and never ends as complete or failed.
StopIsNotLost ==
    [][\A p \in Packages : jobs[p] = "cancelling" => jobs'[p] \in {"cancelling", "cancelled"}]_vars

\* A job reported as complete has left its package installed.
CompleteIsInstalled ==
    [][\A p \in Packages :
          jobs[p] # "complete" /\ jobs'[p] = "complete" => p \in Installed]_vars

\* An inventory reported as complete is that of the disk, whichever installs,
\* removals and scans overlapped: results of overtaken scans are dropped.
InventoryIsFresh ==
    size_state = "complete" /\ handler = Idle /\ ~has_active_jobs => shown = Installed

\* Every download comes to an end.
EveryJobEnds == \A p \in Packages : Active(p) ~> ~Active(p)

\* Whichever commands overlap and are killed, no file that was not downloaded whole
\* is in a target directory.
NoPartialDownload == PM!OnlyWholeFilesInstalled
=============================================================================
