------------------------ MODULE PackageManager_proofs ------------------------
(***************************************************************************)
(* Proofs about the package commands, for any packages, files and          *)
(* processes: whichever commands overlap and wherever they are killed, no  *)
(* partial download reaches a target directory; processes that work in     *)
(* different target directories complete their installs; and commands run  *)
(* one after another strand no file and keep what siblings share.          *)
(*                                                                         *)
(* The lemmas are about single steps of the commands, so that they also    *)
(* hold for the processes the server runs (ModelInstaller_proofs).         *)
(***************************************************************************)
EXTENDS PackageManager, TLAPS

Process == [at : {"away"} \cup Running \cup Ended, op : Ops,
            package : Packages, overwrite : BOOLEAN, todo : SUBSET Files]

FilesType ==
    /\ disk \in [Files -> Content]
    /\ staging \in [Procs -> [Files -> Content] \cup {NoDir}]
    /\ proc \in [Procs -> Process]

\* Between downloads, and while files are moved, all that is staged is whole; during
\* a download the file being written is the only one that may not be.
StagedWhole(q) ==
    staging[q] # NoDir =>
        /\ proc[q].at \in {"fetch", "merge"} => \A f \in Files : staging[q][f] # "part"
        /\ proc[q].at = "file" =>
              \A f \in Files : staging[q][f] = "part" => f \in proc[q].todo

\* The inductive invariant.
FilesInv ==
    /\ FilesType
    /\ OnlyWholeFilesInstalled
    /\ \A q \in Procs : StagedWhole(q)

fileVars == <<disk, staging, proc>>

-----------------------------------------------------------------------------
\* A step that changes neither files nor processes.
LEMMA SameFiles == FilesInv /\ UNCHANGED fileVars => FilesInv'
  BY DEF FilesInv, FilesType, OnlyWholeFilesInstalled,
         StagedWhole, fileVars

\* A step that changes neither files nor staging directories, and takes a process to
\* where it has no staged file to account for.
LEMMA MovesOn ==
    ASSUME FilesInv, NEW q \in Procs, NEW to \in Process,
           to.at \notin {"fetch", "file", "merge"},
           proc' = [proc EXCEPT ![q] = to], UNCHANGED <<disk, staging>>
    PROVE  FilesInv'
  BY DEF FilesInv, FilesType, OnlyWholeFilesInstalled, StagedWhole

\* A process that goes on with other content in its staging directory.
LEMMA Stages ==
    ASSUME FilesInv, NEW q \in Procs, NEW to \in Process,
           NEW new \in [Files -> Content],
           to.at \in {"fetch", "merge"} => \A f \in Files : new[f] # "part",
           to.at = "file" => \A f \in Files : new[f] = "part" => f \in to.todo,
           proc' = [proc EXCEPT ![q] = to],
           staging' = [staging EXCEPT ![q] = new],
           disk' \in [Files -> Content], \A f \in Files : disk'[f] # "part"
    PROVE  FilesInv'
<1>1. FilesType'
  BY DEF FilesInv, FilesType
<1>2. StagedWhole(q)'
  BY DEF FilesInv, FilesType, StagedWhole
<1>3. ASSUME NEW o \in Procs \ {q}
      PROVE  StagedWhole(o)'
  BY DEF FilesInv, FilesType, StagedWhole
<1>. QED
  BY <1>1, <1>2, <1>3 DEF FilesInv, OnlyWholeFilesInstalled

\* A process that has lost its staging directory.
LEMMA LosesStaging ==
    ASSUME FilesInv, NEW q \in Procs, NEW to \in Process,
           proc' = [proc EXCEPT ![q] = to],
           staging' = [staging EXCEPT ![q] = NoDir], UNCHANGED disk
    PROVE  FilesInv'
  BY DEF FilesInv, FilesType, OnlyWholeFilesInstalled, StagedWhole

\* A process goes to another step of its command.
LEMMA AtProcess ==
    ASSUME NEW r \in Process, NEW at \in {"away"} \cup Running \cup Ended
    PROVE  /\ [r EXCEPT !.at = at] \in Process
           /\ [r EXCEPT !.at = at].at = at
           /\ [r EXCEPT !.at = at].todo = r.todo
  BY DEF Process

\* Like MovesOn, when only the step changes.
LEMMA Goes ==
    ASSUME FilesInv, NEW q \in Procs,
           NEW to \in {"away", "begin", "stage", "manifest", "unlink", "ok", "failed"},
           proc' = [proc EXCEPT ![q].at = to], UNCHANGED <<disk, staging>>
    PROVE  FilesInv'
<1>1. to \in {"away"} \cup Running \cup Ended
  BY DEF Running, Ended
<1>2. proc[q] \in Process
  BY DEF FilesInv, FilesType
<1>. DEFINE r == [proc[q] EXCEPT !.at = to]
<1>3. r \in Process /\ r.at = to
  BY <1>1, <1>2, AtProcess
<1>4. proc' = [proc EXCEPT ![q] = r]
  OBVIOUS
<1>. HIDE DEF r
<1>. QED
  BY <1>3, <1>4, MovesOn

\* A command fails and removes its staging directory.
LEMMA FailStep ==
    ASSUME FilesInv, NEW q \in Procs, Fail(q)
    PROVE  FilesInv'
<1>1. "failed" \in {"away"} \cup Running \cup Ended
  BY DEF Running, Ended
<1>2. proc[q] \in Process
  BY DEF FilesInv, FilesType
<1>. DEFINE r == [proc[q] EXCEPT !.at = "failed"]
<1>3. r \in Process
  BY <1>1, <1>2, AtProcess
<1>4. proc' = [proc EXCEPT ![q] = r] /\ staging' = [staging EXCEPT ![q] = NoDir]
      /\ UNCHANGED disk
  BY DEF Fail
<1>. HIDE DEF r
<1>. QED
  BY <1>3, <1>4, LosesStaging

\* A process is killed.
LEMMA CrashStep ==
    ASSUME FilesInv, NEW q \in Procs, Crash(q)
    PROVE  FilesInv'
<1>1. "failed" \in {"away"} \cup Running \cup Ended
  BY DEF Running, Ended
<1>2. proc[q] \in Process
  BY DEF FilesInv, FilesType
<1>. DEFINE r == [proc[q] EXCEPT !.at = "failed"]
<1>3. r \in Process
  BY <1>1, <1>2, AtProcess
<1>4. proc' = [proc EXCEPT ![q] = r] /\ staging' = [staging EXCEPT ![q] = NoDir]
      /\ UNCHANGED disk
  BY DEF Crash
<1>. HIDE DEF r
<1>. QED
  BY <1>3, <1>4, LosesStaging

\* A process ends and its parent has the exit status.
LEMMA ReapStep ==
    ASSUME FilesInv, NEW q \in Procs, Reap(q), UNCHANGED <<disk, staging>>
    PROVE  FilesInv'
<1>. DEFINE r == [proc[q] EXCEPT !.at = "away", !.todo = {}]
<1>1. r \in Process /\ r.at = "away"
  BY DEF FilesInv, FilesType, Process
<1>2. proc' = [proc EXCEPT ![q] = r]
  BY DEF Reap
<1>. HIDE DEF r
<1>. QED
  BY <1>1, <1>2, MovesOn

\* A command starts.
LEMMA LaunchStep ==
    ASSUME FilesInv, NEW q \in Procs, NEW p \in Packages, NEW op \in Ops,
           NEW overwrite \in BOOLEAN, Launch(q, op, p, overwrite)
    PROVE  FilesInv'
<1>. DEFINE r == [at |-> "begin", op |-> op, package |-> p,
                  overwrite |-> overwrite, todo |-> {}]
<1>1. r \in Process /\ r.at = "begin"
  BY DEF Process, Running
<1>2. proc' = [proc EXCEPT ![q] = r] /\ UNCHANGED <<disk, staging>>
  BY Zenon DEF Launch
<1>. HIDE DEF r
<1>. QED
  BY <1>1, <1>2, MovesOn

-----------------------------------------------------------------------------
\* Before the download: what is there decides what is to do, and nothing is staged.
LEMMA CheckSteps ==
    ASSUME FilesInv, NEW q \in Procs, InstallCheck(q) \/ UninstallCheck(q)
    PROVE  FilesInv'
<1>1. \/ \E to \in {"ok", "failed"} : proc' = [proc EXCEPT ![q].at = to]
      \/ \E to \in {"stage", "unlink"}, todo \in SUBSET Files :
            proc' = [proc EXCEPT ![q].at = to, ![q].todo = todo]
  <2>1. proc[q].package \in Packages
    BY DEF FilesInv, FilesType, Process
  <2>. DEFINE existing == {f \in Needs[proc[q].package] : Present(f)}
              shared == Reusable(proc[q].package)
              needs == Needs[proc[q].package]
  <2>2. existing \in SUBSET Files /\ needs \in SUBSET Files
    BY <2>1, PackagesAssumption
  <2>3. needs \ shared \in SUBSET Files /\ existing \ shared \in SUBSET Files
    BY <2>2
  <2>4. ASSUME InstallCheck(q)
        PROVE  \/ Goto(q, "begin", "ok") \/ Goto(q, "begin", "failed")
               \/ proc' = [proc EXCEPT ![q].at = "stage", ![q].todo = needs]
               \/ proc' = [proc EXCEPT ![q].at = "stage", ![q].todo = needs \ shared]
    BY <2>4, Zenon DEF InstallCheck
  <2>5. ASSUME UninstallCheck(q)
        PROVE  \/ Goto(q, "begin", "failed")
               \/ proc' = [proc EXCEPT ![q].at = "unlink", ![q].todo = existing \ shared]
    BY <2>5, Zenon DEF UninstallCheck
  <2>. HIDE DEF existing, shared, needs
  <2>. QED
    BY <2>2, <2>3, <2>4, <2>5 DEF Goto
<1>2. UNCHANGED <<disk, staging>>
  BY DEF InstallCheck, UninstallCheck
<1>3. CASE \E to \in {"ok", "failed"} : proc' = [proc EXCEPT ![q].at = to]
  BY <1>2, <1>3, Goes
<1>4. ASSUME NEW todo \in SUBSET Files, NEW to \in {"stage", "unlink"},
             proc' = [proc EXCEPT ![q].at = to, ![q].todo = todo]
      PROVE  FilesInv'
  <2>. DEFINE r == [proc[q] EXCEPT !.at = to, !.todo = todo]
  <2>1. r \in Process /\ r.at = to
    BY DEF FilesInv, FilesType, Process, Running
  <2>2. proc' = [proc EXCEPT ![q] = r]
    BY <1>4
  <2>. HIDE DEF r
  <2>. QED
    BY <1>2, <2>1, <2>2, MovesOn
<1>. QED
  BY <1>1, <1>3, <1>4

\* The staging directory is made, empty.
LEMMA MakeStagingStep ==
    ASSUME FilesInv, NEW q \in Procs, MakeStaging(q)
    PROVE  FilesInv'
<1>1. proc[q] \in Process
  BY DEF FilesInv, FilesType
<1>. DEFINE r == [proc[q] EXCEPT !.at = "fetch"]
<1>2. r \in Process /\ r.at = "fetch"
  BY <1>1, AtProcess DEF Running
<1>3. proc' = [proc EXCEPT ![q] = r] /\ staging' = [staging EXCEPT ![q] = Empty]
      /\ UNCHANGED disk
  BY DEF MakeStaging, Goto
<1>4. Empty \in [Files -> Content] /\ \A f \in Files : Empty[f] = "absent"
  BY DEF Empty, Content
<1>. HIDE DEF r
<1>. QED
  BY <1>2, <1>3, <1>4
     DEF FilesInv, FilesType, OnlyWholeFilesInstalled, StagedWhole

\* A download begins: the file being written is one of those still to do.
LEMMA OpenFileStep ==
    ASSUME FilesInv, NEW q \in Procs, OpenFile(q)
    PROVE  FilesInv'
<1>1. proc[q] \in Process /\ proc[q].todo \subseteq Files
  BY DEF FilesInv, FilesType, Process
<1>2. PICK f \in proc[q].todo :
        /\ Goto(q, "fetch", "file")
        /\ staging' = [staging EXCEPT ![q] =
                          [(IF @ = NoDir THEN Empty ELSE @) EXCEPT ![f] = "part"]]
        /\ UNCHANGED disk
  BY DEF OpenFile
<1>. DEFINE r == [proc[q] EXCEPT !.at = "file"]
            old == IF staging[q] = NoDir THEN Empty ELSE staging[q]
<1>3. r \in Process /\ r.at = "file" /\ r.todo = proc[q].todo
  BY <1>1, AtProcess DEF Running
<1>4. /\ proc[q].at = "fetch" /\ proc' = [proc EXCEPT ![q] = r]
      /\ staging' = [staging EXCEPT ![q] = [old EXCEPT ![f] = "part"]]
  BY <1>2 DEF Goto
<1>5. Empty \in [Files -> Content] /\ \A g \in Files : Empty[g] = "absent"
  BY DEF Empty, Content
<1>6. old \in [Files -> Content] /\ \A g \in Files : old[g] # "part"
  BY <1>4, <1>5 DEF FilesInv, FilesType, StagedWhole
<1>. DEFINE new == [old EXCEPT ![f] = "part"]
<1>8. staging' = [staging EXCEPT ![q] = new] /\ UNCHANGED disk
  BY <1>2, <1>4
<1>. HIDE DEF old
<1>7. new \in [Files -> Content] /\ \A g \in Files : new[g] = "part" => g \in r.todo
  BY <1>2, <1>3, <1>6 DEF Content
<1>9. disk' \in [Files -> Content] /\ \A g \in Files : disk'[g] # "part"
  BY <1>8 DEF FilesInv, FilesType, OnlyWholeFilesInstalled
<1>. HIDE DEF r, new
<1>. QED
  BY <1>3, <1>4, <1>7, <1>8, <1>9, Stages

\* A download ends: its file is whole, and every other staged one was.
LEMMA CloseFileStep ==
    ASSUME FilesInv, NEW q \in Procs, CloseFile(q)
    PROVE  FilesInv'
<1>1. CASE Fail(q)
  BY <1>1, FailStep
<1>2. CASE /\ proc[q].at = "file" /\ Current(q) # {}
           /\ proc' = [proc EXCEPT ![q].at = "fetch", ![q].todo = @ \ Current(q)]
           /\ staging' = [staging EXCEPT ![q] =
                 [f \in Files |-> IF f \in Current(q) THEN "whole" ELSE @[f]]]
           /\ UNCHANGED disk
  <2>. DEFINE r == [proc[q] EXCEPT !.at = "fetch", !.todo = @ \ Current(q)]
              new == [f \in Files |-> IF f \in Current(q) THEN "whole" ELSE staging[q][f]]
  <2>1. r \in Process /\ r.at = "fetch"
    BY DEF FilesInv, FilesType, Process, Running
  <2>2. staging[q] # NoDir
    BY <1>2 DEF Current, Staged
  <2>3. \A f \in Files : staging[q][f] = "part" => f \in Current(q)
    BY <1>2, <2>2 DEF Current, Staged, FilesInv, StagedWhole
  <2>4. new \in [Files -> Content] /\ \A f \in Files : new[f] # "part"
    BY <2>2, <2>3 DEF FilesInv, FilesType, Content
  <2>5. proc' = [proc EXCEPT ![q] = r] /\ staging' = [staging EXCEPT ![q] = new]
        /\ UNCHANGED disk
    BY <1>2
  <2>. HIDE DEF r, new
  <2>. QED
    BY <2>1, <2>4, <2>5
       DEF FilesInv, FilesType, OnlyWholeFilesInstalled, StagedWhole
<1>. QED
  BY <1>1, <1>2 DEF CloseFile

-----------------------------------------------------------------------------
\* The download is complete: the staging directory takes the place of the target
\* directory, or its files are moved there one by one.
LEMMA BeginMergeStep ==
    ASSUME FilesInv, NEW q \in Procs, BeginMerge(q)
    PROVE  FilesInv'
<1>1. proc[q] \in Process /\ proc[q].at = "fetch"
  BY DEF FilesInv, FilesType, BeginMerge
<1>2. CASE Fail(q)
  BY <1>2, FailStep
<1>3. CASE /\ staging[q] # NoDir
           /\ disk' = [f \in Files |-> IF f \in Staged(q) THEN staging[q][f] ELSE disk[f]]
           /\ staging' = [staging EXCEPT ![q] = NoDir]
           /\ Goto(q, "fetch", "manifest")
  <2>. DEFINE r == [proc[q] EXCEPT !.at = "manifest"]
  <2>1. r \in Process
    BY <1>1, AtProcess DEF Running
  <2>2. disk' \in [Files -> Content] /\ \A f \in Files : disk'[f] # "part"
    BY <1>1, <1>3 DEF FilesInv, FilesType, OnlyWholeFilesInstalled,
                      StagedWhole
  <2>3. proc' = [proc EXCEPT ![q] = r] /\ staging' = [staging EXCEPT ![q] = NoDir]
    BY <1>3 DEF Goto
  <2>. HIDE DEF r
  <2>. QED
    BY <2>1, <2>2, <2>3
       DEF FilesInv, FilesType, OnlyWholeFilesInstalled, StagedWhole
<1>4. CASE /\ proc' = [proc EXCEPT ![q].at = "merge", ![q].todo = Staged(q)]
           /\ UNCHANGED <<disk, staging>>
  <2>. DEFINE r == [proc[q] EXCEPT !.at = "merge", !.todo = Staged(q)]
  <2>1. r \in Process /\ r.at = "merge"
    BY <1>1 DEF Process, Running, Staged
  <2>2. proc' = [proc EXCEPT ![q] = r]
    BY <1>4
  <2>. HIDE DEF r
  <2>. QED
    BY <1>1, <1>4, <2>1, <2>2
       DEF FilesInv, FilesType, OnlyWholeFilesInstalled, StagedWhole
<1>. QED
  BY <1>2, <1>3, <1>4, Zenon DEF BeginMerge

\* One staged file is moved, or what it replaces is unlinked.
LEMMA MergeFileStep ==
    ASSUME FilesInv, NEW q \in Procs, MergeFile(q)
    PROVE  FilesInv'
<1>1. proc[q] \in Process /\ proc[q].at = "merge" /\ proc[q].todo \subseteq Files
  BY DEF FilesInv, FilesType, Process, MergeFile
<1>2. PICK f \in proc[q].todo :
        \/ disk' = [disk EXCEPT ![f] = "absent"] /\ UNCHANGED <<staging, proc>>
        \/ /\ f \in Staged(q)
           /\ disk' = [disk EXCEPT ![f] = staging[q][f]]
           /\ staging' = [staging EXCEPT ![q][f] = "absent"]
           /\ proc' = [proc EXCEPT ![q].todo = @ \ {f}]
        \/ Fail(q)
  BY Zenon DEF MergeFile
<1>3. CASE disk' = [disk EXCEPT ![f] = "absent"] /\ UNCHANGED <<staging, proc>>
  BY <1>1, <1>3 DEF FilesInv, FilesType, OnlyWholeFilesInstalled,
                    StagedWhole, Content
<1>4. CASE /\ f \in Staged(q)
           /\ disk' = [disk EXCEPT ![f] = staging[q][f]]
           /\ staging' = [staging EXCEPT ![q][f] = "absent"]
           /\ proc' = [proc EXCEPT ![q].todo = @ \ {f}]
  <2>. DEFINE r == [proc[q] EXCEPT !.todo = @ \ {f}]
              new == [staging[q] EXCEPT ![f] = "absent"]
  <2>1. r \in Process /\ r.at = "merge"
    BY <1>1 DEF Process
  <2>2. /\ staging[q] \in [Files -> Content]
        /\ \A g \in Files : staging[q][g] # "part"
    BY <1>1, <1>4 DEF FilesInv, FilesType, StagedWhole, Staged
  <2>3. new \in [Files -> Content] /\ \A g \in Files : new[g] # "part"
    BY <2>2 DEF Content
  <2>4. disk' \in [Files -> Content] /\ \A g \in Files : disk'[g] # "part"
    BY <1>1, <1>4, <2>2 DEF FilesInv, FilesType, OnlyWholeFilesInstalled
  <2>5. proc' = [proc EXCEPT ![q] = r] /\ staging' = [staging EXCEPT ![q] = new]
    BY <1>4
  <2>. HIDE DEF r, new
  <2>. QED
    BY <2>1, <2>3, <2>4, <2>5, Stages
<1>5. CASE Fail(q)
  BY <1>5, FailStep
<1>. QED
  BY <1>2, <1>3, <1>4, <1>5

\* The emptied staging directory is removed.
LEMMA EndMergeStep ==
    ASSUME FilesInv, NEW q \in Procs, EndMerge(q)
    PROVE  FilesInv'
<1>1. CASE Fail(q)
  BY <1>1, FailStep
<1>2. CASE /\ staging' = [staging EXCEPT ![q] = NoDir]
           /\ Goto(q, "merge", "manifest") /\ UNCHANGED disk
  <2>. DEFINE r == [proc[q] EXCEPT !.at = "manifest"]
  <2>1. r \in Process
    BY AtProcess DEF FilesInv, FilesType, Running
  <2>2. proc' = [proc EXCEPT ![q] = r]
    BY <1>2 DEF Goto
  <2>. HIDE DEF r
  <2>. QED
    BY <1>2, <2>1, <2>2, LosesStaging
<1>. QED
  BY <1>1, <1>2, Zenon DEF EndMerge

\* A file of a package that is removed is unlinked.
LEMMA UnlinkFileStep ==
    ASSUME FilesInv, NEW q \in Procs, UnlinkFile(q)
    PROVE  FilesInv'
<1>1. proc[q] \in Process /\ proc[q].at = "unlink" /\ proc[q].todo \subseteq Files
  BY DEF FilesInv, FilesType, Process, UnlinkFile
<1>2. PICK f \in proc[q].todo :
        \/ /\ disk' = [disk EXCEPT ![f] = "absent"]
           /\ proc' = [proc EXCEPT ![q].todo = @ \ {f}]
           /\ UNCHANGED staging
        \/ Fail(q)
  BY Zenon DEF UnlinkFile
<1>3. CASE /\ disk' = [disk EXCEPT ![f] = "absent"]
           /\ proc' = [proc EXCEPT ![q].todo = @ \ {f}]
           /\ UNCHANGED staging
  <2>. DEFINE r == [proc[q] EXCEPT !.todo = @ \ {f}]
  <2>1. r \in Process /\ r.at = "unlink"
    BY <1>1 DEF Process
  <2>2. proc' = [proc EXCEPT ![q] = r]
    BY <1>3
  <2>. HIDE DEF r
  <2>. QED
    BY <1>1, <1>3, <2>1, <2>2
       DEF FilesInv, FilesType, OnlyWholeFilesInstalled,
           StagedWhole, Content
<1>. QED
  BY <1>2, <1>3, FailStep

\* The staging directories next to a target directory are removed.
LEMMA CleanPartialStep ==
    ASSUME FilesInv, NEW q \in Procs, CleanPartial(q)
    PROVE  FilesInv'
<1>. DEFINE r == [proc[q] EXCEPT !.at = "ok"]
<1>1. r \in Process /\ r.at = "ok"
  BY AtProcess DEF FilesInv, FilesType, Ended
<1>2. proc' = [proc EXCEPT ![q] = r] /\ UNCHANGED disk
  BY DEF CleanPartial, Goto
<1>3. /\ staging' \in [Procs -> [Files -> Content] \cup {NoDir}]
      /\ \A o \in Procs : staging'[o] \in {staging[o], NoDir}
  BY DEF CleanPartial, FilesInv, FilesType
<1>. HIDE DEF r
<1>. QED
  BY <1>1, <1>2, <1>3
     DEF FilesInv, FilesType, OnlyWholeFilesInstalled, StagedWhole

\* What a command does of itself.
LEMMA WorkStep ==
    ASSUME FilesInv, NEW q \in Procs, Work(q)
    PROVE  FilesInv'
<1>1. CASE InstallCheck(q) \/ UninstallCheck(q)
  BY <1>1, CheckSteps
<1>2. CASE MakeStaging(q)
  BY <1>2, MakeStagingStep
<1>3. CASE SeeMarker(q)
  BY <1>3, FailStep DEF SeeMarker
<1>4. CASE OpenFile(q)
  BY <1>4, OpenFileStep
<1>5. CASE CloseFile(q)
  BY <1>5, CloseFileStep
<1>6. CASE BeginMerge(q)
  BY <1>6, BeginMergeStep
<1>7. CASE MergeFile(q)
  BY <1>7, MergeFileStep
<1>8. CASE EndMerge(q)
  BY <1>8, EndMergeStep
<1>9. CASE WriteManifest(q) \/ EndUninstall(q)
  <2>1. proc' = [proc EXCEPT ![q].at = "ok"] /\ UNCHANGED <<disk, staging>>
    BY <1>9 DEF WriteManifest, EndUninstall, Goto
  <2>. QED
    BY <2>1, Goes
<1>10. CASE UnlinkFile(q)
  BY <1>10, UnlinkFileStep
<1>11. CASE CleanPartial(q)
  BY <1>11, CleanPartialStep
<1>. QED
  BY <1>1, <1>2, <1>3, <1>4, <1>5, <1>6, <1>7, <1>8, <1>9, <1>10, <1>11 DEF Work

-----------------------------------------------------------------------------

\* The rest of the types.
RestType ==
    /\ manifest \subseteq Packages
    /\ orphans \subseteq {Target[p] : p \in Packages}
    /\ marker \subseteq Packages

\* What the commands do to manifests, abandoned directories and cancel files.
LEMMA CommandTypes ==
    ASSUME FilesInv, RestType, NEW q \in Procs,
           Work(q) \/ RemoteFails(q) \/ Crash(q)
    PROVE  /\ manifest' \subseteq Packages
           /\ orphans' \subseteq {Target[p] : p \in Packages}
           /\ marker' \subseteq Packages
<1>1. proc[q].package \in Packages
  BY DEF FilesInv, FilesType, Process
<1>2. CASE UNCHANGED <<manifest, orphans, marker>>
  BY <1>2 DEF RestType
<1>3. CASE WriteManifest(q) \/ EndUninstall(q)
  BY <1>1, <1>3 DEF RestType, WriteManifest, EndUninstall
<1>4. CASE CleanPartial(q) \/ Crash(q)
  BY <1>1, <1>4 DEF RestType, CleanPartial, Crash
<1>5. CASE \/ InstallCheck(q) \/ MakeStaging(q) \/ OpenFile(q)
           \/ UninstallCheck(q) \/ UnlinkFile(q)
           \/ SeeMarker(q) \/ RemoteFails(q)
  BY <1>2, <1>5 DEF InstallCheck, MakeStaging, OpenFile, UninstallCheck,
                    UnlinkFile, SeeMarker, RemoteFails, Fail
<1>6. CASE CloseFile(q) \/ BeginMerge(q) \/ MergeFile(q) \/ EndMerge(q)
  BY <1>2, <1>6 DEF CloseFile, BeginMerge, MergeFile, EndMerge, Fail
<1>. QED
  BY <1>3, <1>4, <1>5, <1>6 DEF Work

-----------------------------------------------------------------------------
LEMMA FilesInit == Init => FilesInv
<1>. SUFFICES ASSUME Init PROVE FilesInv
  OBVIOUS
<1>2. PICK p \in Packages :
        proc = [q \in Procs |-> [at |-> "away", op |-> "install", package |-> p,
                                 overwrite |-> FALSE, todo |-> {}]]
  BY DEF Init
<1>3. proc \in [Procs -> Process]
  BY <1>2, Zenon DEF Process, Ops
<1>. QED
  BY <1>3 DEF Init, FilesInv, FilesType, OnlyWholeFilesInstalled, StagedWhole, Empty, Content

\* Every step of the shells preserves the invariant and the types.
LEMMA FilesInductive ==
    ASSUME FilesInv, RestType, [Next]_vars PROVE FilesInv' /\ RestType'
<1>1. CASE UNCHANGED vars
  BY <1>1, SameFiles DEF vars, fileVars, RestType
<1>2. ASSUME NEW q \in Procs, NEW op \in Ops, NEW p \in Packages, NEW overwrite \in BOOLEAN,
             Launch(q, op, p, overwrite), UNCHANGED marker
      PROVE  FilesInv' /\ RestType'
  <2>1. UNCHANGED <<manifest, orphans, marker>>
    BY <1>2, Zenon DEF Launch
  <2>2. RestType'
    BY <2>1 DEF RestType
  <2>. QED
    BY <1>2, <2>2, LaunchStep
<1>3. ASSUME NEW q \in Procs, Reap(q), UNCHANGED <<disk, manifest, staging, orphans, marker>>
      PROVE  FilesInv' /\ RestType'
  BY <1>3, ReapStep DEF RestType
<1>4. ASSUME NEW q \in Procs, Work(q) \/ RemoteFails(q)
      PROVE  FilesInv' /\ RestType'
  <2>1. FilesInv'
    BY <1>4, WorkStep, FailStep DEF RemoteFails
  <2>. QED
    BY <1>4, <2>1, CommandTypes DEF RestType
<1>5. ASSUME NEW p \in Packages, Cancel(p)
      PROVE  FilesInv' /\ RestType'
  BY <1>5, SameFiles DEF Cancel, fileVars, RestType
<1>. QED
  BY <1>1, <1>2, <1>3, <1>4, <1>5 DEF Next, Shell

\* Every variable of the package commands keeps its type, with shells, downloads that
\* fail and cancel files in any order.
THEOREM TypeCorrect == Spec => []TypeOK
<1>1. Init => FilesInv /\ RestType
  BY FilesInit DEF Init, RestType
<1>2. FilesInv /\ RestType /\ [Next]_vars => FilesInv' /\ RestType'
  BY FilesInductive
<1>3. FilesInv /\ RestType => TypeOK
  BY DEF FilesInv, FilesType, RestType, TypeOK, Process
<1>. QED
  BY <1>1, <1>2, <1>3, PTL DEF Spec

-----------------------------------------------------------------------------
(* Processes that work in different target directories.                    *)

Busy(q) == proc[q].at # "away"
Own(q) == Needs[proc[q].package]

\* No two processes work in one target directory.
Apart ==
    \A q, r \in Procs :
        q # r /\ Busy(q) /\ Busy(r) => Target[proc[q].package] # Target[proc[r].package]

\* A process is where its command goes, and handles the files of its package; it has
\* a staging directory while it downloads.
InItsPlace(q) ==
    /\ proc[q].at \in {"stage", "fetch", "file", "merge", "manifest"} => proc[q].op = "install"
    /\ proc[q].at = "unlink" => proc[q].op = "uninstall"
    /\ proc[q].at \in Running => proc[q].todo \subseteq Own(q)
    /\ Staged(q) \subseteq Own(q)
    /\ staging[q] # NoDir <=> proc[q].at \in Downloading

\* Every file of a package being installed is there, or staged, or still to do.
GetsAll(q) ==
    proc[q].op = "install" =>
        /\ proc[q].at \in {"stage", "merge"} =>
              \A f \in Own(q) : Present(f) \/ f \in proc[q].todo
        /\ proc[q].at \in {"fetch", "file"} =>
              \A f \in Own(q) : Present(f) \/ f \in proc[q].todo \/ f \in Staged(q)
        /\ proc[q].at \in {"manifest", "ok"} => package_is_installed(proc[q].package)

\* Files find their places free, those to move are staged, and those to remove are there.
FindsPlace(q) ==
    /\ proc[q].at \in {"stage"} \cup Downloading /\ ~proc[q].overwrite =>
          \A f \in proc[q].todo \cup Staged(q) : ~Present(f)
    /\ proc[q].at = "merge" => proc[q].todo \subseteq Staged(q)
    /\ proc[q].at = "unlink" => \A f \in proc[q].todo : Present(f)

Gathers(q) == InItsPlace(q) /\ GetsAll(q)
Tidy(q) == Gathers(q) /\ FindsPlace(q)
TidyInv == \A q \in Procs : Tidy(q)

\* A step after which a process is as it was, of these.
Stays(q) == Gathers(q)' /\ (FindsPlace(q) => FindsPlace(q)')

\* What one process sees of its package, and nobody else changes.
LEMMA SameForOne ==
    ASSUME NEW r \in Procs, Tidy(r), proc'[r] = proc[r], staging'[r] = staging[r],
           \A f \in Own(r) : disk'[f] = disk[f],
           FilesType
    PROVE  Tidy(r)'
<1>1. Own(r)' = Own(r) /\ Staged(r)' = Staged(r)
  BY DEF Own, Staged
<1>2. \A f \in Own(r) : Present(f)' <=> Present(f)
  BY DEF Present
<1>3. InItsPlace(r)'
  BY <1>1 DEF Tidy, Gathers, InItsPlace
<1>4. GetsAll(r)'
  <2>1. package_is_installed(proc[r].package) <=> \A f \in Own(r) : Present(f)
    BY DEF package_is_installed, Own
  <2>2. package_is_installed(proc[r].package)' <=> \A f \in Own(r) : Present(f)'
    BY <1>1 DEF package_is_installed, Own
  <2>. QED
    BY <1>1, <1>2, <2>1, <2>2 DEF Tidy, Gathers, GetsAll
<1>5. FindsPlace(r)'
  <2>1. proc[r].at \in {"stage"} \cup Downloading => proc[r].todo \cup Staged(r) \subseteq Own(r)
    BY DEF Tidy, Gathers, InItsPlace, Running, Downloading
  <2>2. proc[r].at = "unlink" => proc[r].todo \subseteq Own(r)
    BY DEF Tidy, Gathers, InItsPlace, Running
  <2>. QED
    BY <1>1, <1>2, <2>1, <2>2 DEF Tidy, FindsPlace
<1>. QED
  BY <1>3, <1>4, <1>5 DEF Tidy, Gathers

\* A process that is where no file matters.
LEMMA Rests ==
    ASSUME NEW r \in Procs, proc'[r].at \in {"away", "begin", "failed"} \/
                            (proc'[r].at = "ok" /\ proc'[r].op # "install"),
           proc'[r].at = "begin" => proc'[r].todo = {},
           staging'[r] = NoDir
    PROVE  Tidy(r)'
<1>1. Staged(r)' = {}
  BY DEF Staged
<1>. QED
  BY <1>1 DEF Tidy, Gathers, InItsPlace, GetsAll, FindsPlace, Running, Downloading

\* The record of a process that goes on.
LEMMA AtFields ==
    ASSUME FilesType, NEW q \in Procs, NEW at, proc' = [proc EXCEPT ![q].at = at]
    PROVE  /\ proc'[q].at = at /\ proc'[q].op = proc[q].op
           /\ proc'[q].package = proc[q].package /\ proc'[q].overwrite = proc[q].overwrite
           /\ proc'[q].todo = proc[q].todo
           /\ \A r \in Procs \ {q} : proc'[r] = proc[r]
<1>1. proc[q] \in Process /\ proc \in [Procs -> Process]
  BY DEF FilesType
<1>2. proc'[q] = [proc[q] EXCEPT !.at = at] /\ \A r \in Procs \ {q} : proc'[r] = proc[r]
  BY <1>1
<1>. QED
  BY <1>1, <1>2 DEF Process

\* What FilesType says of one process.
LEMMA OneProcess ==
    ASSUME FilesType, NEW q \in Procs
    PROVE  /\ proc[q].package \in Packages /\ proc[q].op \in Ops /\ proc[q].overwrite \in BOOLEAN
           /\ Own(q) \subseteq Files /\ Own(q) # {} /\ Staged(q) \subseteq Files
           /\ staging[q] # NoDir => staging[q] \in [Files -> Content]
           /\ NoDir \notin [Files -> Content]
<1>1. proc[q].package \in Packages /\ proc[q].op \in Ops /\ proc[q].overwrite \in BOOLEAN
  BY DEF FilesType, Process
<1>2. Own(q) \subseteq Files /\ Own(q) # {}
  BY <1>1, PackagesAssumption DEF Own
<1>3. Staged(q) \subseteq Files
  BY DEF Staged
<1>4. staging[q] # NoDir => staging[q] \in [Files -> Content]
  BY DEF FilesType
<1>. QED
  BY <1>1, <1>2, <1>3, <1>4, PackagesAssumption DEF Content

\* An install or a removal begins: files that are to be fetched are not there, or will
\* be replaced, and those that are to be removed are.
LEMMA CheckTidy ==
    ASSUME FilesType, NEW q \in Procs, Gathers(q), InstallCheck(q) \/ UninstallCheck(q)
    PROVE  Stays(q)
<1>. DEFINE p == proc[q].package
            existing == {f \in Needs[p] : Present(f)}
            shared == Reusable(p)
<1>1. /\ p \in Packages /\ Own(q) = Needs[p] /\ Own(q) \subseteq Files
      /\ proc[q].overwrite \in BOOLEAN
  BY OneProcess DEF Own
<1>2. shared \subseteq Needs[p] /\ \A f \in shared : Present(f)
  BY DEF Reusable, package_is_installed
<1>3. proc[q].at = "begin" /\ UNCHANGED <<disk, staging>>
  BY DEF InstallCheck, UninstallCheck, Goto
<1>4. staging[q] = NoDir /\ staging'[q] = NoDir /\ Staged(q)' = {}
  BY <1>3 DEF Gathers, InItsPlace, Downloading, Staged
<1>5. \A f \in Files : Present(f)' <=> Present(f)
  BY <1>3 DEF Present
<1>6. ASSUME NEW at \in {"ok", "failed"}, proc' = [proc EXCEPT ![q].at = at],
             at = "ok" => proc[q].op = "install" /\ existing = Needs[p]
      PROVE  Stays(q)
  <2>1. proc'[q].at = at /\ proc'[q].op = proc[q].op /\ proc'[q].package = p
    BY <1>6, AtFields
  <2>2. at = "ok" => package_is_installed(p)'
    BY <1>1, <1>5, <1>6 DEF package_is_installed
  <2>. QED
    BY <1>4, <2>1, <2>2 DEF Stays, Gathers, InItsPlace, GetsAll, FindsPlace, Running, Downloading
<1>7. ASSUME NEW todo, todo \subseteq Needs[p], proc[q].op = "install",
             proc' = [proc EXCEPT ![q].at = "stage", ![q].todo = todo],
             \A f \in Needs[p] : Present(f) \/ f \in todo,
             ~proc[q].overwrite => \A f \in todo : ~Present(f)
      PROVE  Stays(q)
  <2>1. /\ proc'[q].at = "stage" /\ proc'[q].op = "install" /\ proc'[q].package = p
        /\ proc'[q].overwrite = proc[q].overwrite /\ proc'[q].todo = todo
    <3>. DEFINE r == [proc[q] EXCEPT !.at = "stage", !.todo = todo]
    <3>1. proc' = [proc EXCEPT ![q] = r]
      BY <1>7
    <3>2. proc[q] \in Process /\ proc \in [Procs -> Process]
      BY DEF FilesType
    <3>3. proc'[q] = r
      BY <3>1, <3>2
    <3>. QED
      BY <3>2, <3>3, <1>7 DEF Process
  <2>2. Own(q)' = Needs[p]
    BY <2>1 DEF Own
  <2>. QED
    BY <1>1, <1>4, <1>5, <1>7, <2>1, <2>2
       DEF Stays, Gathers, InItsPlace, GetsAll, FindsPlace, Running, Downloading
<1>8. ASSUME InstallCheck(q) PROVE Stays(q)
  <2>0. proc[q].op = "install"
    BY <1>8 DEF InstallCheck
  <2>1. CASE /\ existing = {} \/ proc[q].overwrite
             /\ proc' = [proc EXCEPT ![q].at = "stage", ![q].todo = Needs[p]]
    BY <2>0, <2>1, <1>7
  <2>2. CASE existing = Needs[p] /\ Goto(q, "begin", "ok")
    BY <2>0, <2>2, <1>6 DEF Goto
  <2>3. CASE /\ existing \subseteq shared
             /\ proc' = [proc EXCEPT ![q].at = "stage", ![q].todo = Needs[p] \ shared]
    <3>1. Needs[p] \ shared \subseteq Needs[p]
      OBVIOUS
    <3>2. /\ \A f \in Needs[p] : Present(f) \/ f \in Needs[p] \ shared
          /\ \A f \in Needs[p] \ shared : ~Present(f)
      BY <1>2, <2>3
    <3>. HIDE DEF shared
    <3>. QED
      BY <2>0, <2>3, <3>1, <3>2, <1>7
  <2>4. CASE Goto(q, "begin", "failed")
    BY <2>4, <1>6 DEF Goto
  <2>. QED
    BY <1>8, <2>1, <2>2, <2>3, <2>4, Zenon DEF InstallCheck
<1>9. ASSUME UninstallCheck(q) PROVE Stays(q)
  <2>1. CASE Goto(q, "begin", "failed")
    BY <2>1, <1>6 DEF Goto
  <2>2. CASE proc' = [proc EXCEPT ![q].at = "unlink", ![q].todo = existing \ shared]
    <3>1. proc[q].op = "uninstall"
      BY <1>9 DEF UninstallCheck
    <3>. DEFINE todo == existing \ shared
    <3>2. /\ proc'[q].at = "unlink" /\ proc'[q].op = "uninstall" /\ proc'[q].package = p
          /\ proc'[q].todo = todo
      <4>. DEFINE r == [proc[q] EXCEPT !.at = "unlink", !.todo = todo]
      <4>1. proc' = [proc EXCEPT ![q] = r]
        BY <2>2
      <4>. HIDE DEF todo
      <4>2. proc[q] \in Process /\ proc \in [Procs -> Process]
        BY DEF FilesType
      <4>3. proc'[q] = r
        BY <4>1, <4>2
      <4>. QED
        BY <4>2, <4>3, <3>1 DEF Process
    <3>3. todo \subseteq Needs[p] /\ \A f \in todo : Present(f)
      OBVIOUS
    <3>4. Own(q)' = Needs[p]
      BY <3>2 DEF Own
    <3>. HIDE DEF todo
    <3>. QED
      BY <1>1, <1>4, <1>5, <3>2, <3>3, <3>4
         DEF Stays, Gathers, InItsPlace, GetsAll, FindsPlace, Running, Downloading
  <2>. QED
    BY <1>9, <2>1, <2>2, Zenon DEF UninstallCheck
<1>. QED
  BY <1>8, <1>9

\* The steps of a download that leave the target directory alone.
LEMMA DownloadTidy ==
    ASSUME FilesInv, NEW q \in Procs, Gathers(q),
           MakeStaging(q) \/ OpenFile(q) \/ CloseFile(q) \/ SeeMarker(q) \/ RemoteFails(q)
    PROVE  Stays(q)
<1>0. FilesType
  BY DEF FilesInv
<1>1. /\ Own(q) \subseteq Files /\ proc[q].overwrite \in BOOLEAN
      /\ staging[q] # NoDir => staging[q] \in [Files -> Content]
      /\ NoDir \notin [Files -> Content]
      /\ q \in DOMAIN staging
  BY <1>0, OneProcess DEF FilesType
<1>2. \A f \in Files : Empty[f] = "absent"
  BY DEF Empty
<1>3. CASE Fail(q)
  <2>1. proc'[q].at = "failed" /\ staging'[q] = NoDir
    BY <1>0, <1>1, <1>3, AtFields DEF Fail
  <2>. QED
    BY <2>1, Rests DEF Stays, Tidy
<1>4. CASE MakeStaging(q)
  <2>1. /\ proc[q].at = "stage" /\ proc' = [proc EXCEPT ![q].at = "fetch"]
        /\ staging'[q] = Empty /\ disk' = disk
    BY <1>1, <1>4 DEF MakeStaging, Goto
  <2>2. /\ proc'[q].at = "fetch" /\ proc'[q].op = proc[q].op
        /\ proc'[q].package = proc[q].package /\ proc'[q].overwrite = proc[q].overwrite
        /\ proc'[q].todo = proc[q].todo
    BY <1>0, <2>1, AtFields
  <2>3. Empty # NoDir
    BY <1>1 DEF Empty, Content
  <2>4. Staged(q)' = {}
    BY <1>2, <2>1, <2>3 DEF Staged
  <2>5. Own(q)' = Own(q) /\ \A f \in Files : Present(f)' <=> Present(f)
    BY <2>1, <2>2 DEF Own, Present
  <2>. QED
    BY <1>1, <2>1, <2>2, <2>3, <2>4, <2>5
       DEF Stays, Gathers, InItsPlace, GetsAll, FindsPlace, Running, Downloading
<1>5. CASE OpenFile(q)
  <2>0. proc[q].at = "fetch"
    BY <1>5 DEF OpenFile, Goto
  <2>1. staging[q] # NoDir /\ proc[q].todo \subseteq Own(q)
    BY <2>0 DEF Gathers, InItsPlace, Downloading, Running
  <2>2. PICK f \in proc[q].todo :
          /\ proc' = [proc EXCEPT ![q].at = "file"]
          /\ staging'[q] = [staging[q] EXCEPT ![f] = "part"] /\ disk' = disk
    BY <1>1, <1>5, <2>1 DEF OpenFile, Goto
  <2>3. /\ proc'[q].at = "file" /\ proc'[q].op = proc[q].op
        /\ proc'[q].package = proc[q].package /\ proc'[q].overwrite = proc[q].overwrite
        /\ proc'[q].todo = proc[q].todo
    BY <1>0, <2>2, AtFields
  <2>4. staging'[q] # NoDir /\ Staged(q)' = Staged(q) \cup {f}
    <3>1. staging'[q] \in [Files -> Content] /\ f \in Files
      BY <1>1, <2>1, <2>2 DEF Content
    <3>2. \A g \in Files : staging'[q][g] = IF g = f THEN "part" ELSE staging[q][g]
      BY <1>1, <2>1, <2>2
    <3>. QED
      BY <1>1, <2>1, <3>1, <3>2 DEF Staged
  <2>5. Own(q)' = Own(q) /\ \A g \in Files : Present(g)' <=> Present(g)
    BY <2>2, <2>3 DEF Own, Present
  <2>. QED
    BY <1>1, <2>0, <2>1, <2>2, <2>3, <2>4, <2>5
       DEF Stays, Gathers, InItsPlace, GetsAll, FindsPlace, Running, Downloading
<1>6. CASE /\ proc[q].at = "file" /\ Current(q) # {}
           /\ proc' = [proc EXCEPT ![q].at = "fetch", ![q].todo = @ \ Current(q)]
           /\ staging' = [staging EXCEPT ![q] =
                 [f \in Files |-> IF f \in Current(q) THEN "whole" ELSE @[f]]]
           /\ UNCHANGED disk
  <2>1. staging[q] # NoDir /\ proc[q].todo \subseteq Own(q)
    BY <1>6 DEF Gathers, InItsPlace, Downloading, Running
  <2>. DEFINE todo == proc[q].todo \ Current(q)
  <2>2. proc' = [proc EXCEPT ![q].at = "fetch", ![q].todo = todo]
    BY <1>6
  <2>3. /\ proc'[q].at = "fetch" /\ proc'[q].op = proc[q].op
        /\ proc'[q].package = proc[q].package /\ proc'[q].overwrite = proc[q].overwrite
        /\ proc'[q].todo = todo
    <3>. DEFINE r == [proc[q] EXCEPT !.at = "fetch", !.todo = todo]
    <3>1. proc' = [proc EXCEPT ![q] = r]
      BY <2>2
    <3>. HIDE DEF todo
    <3>2. proc[q] \in Process /\ proc \in [Procs -> Process]
      BY <1>0 DEF FilesType
    <3>3. proc'[q] = r
      BY <3>1, <3>2
    <3>. QED
      BY <3>2, <3>3 DEF Process
  <2>4. staging'[q] # NoDir /\ Staged(q)' = Staged(q)
    <3>1. staging'[q] = [f \in Files |-> IF f \in Current(q) THEN "whole" ELSE staging[q][f]]
      BY <1>1, <1>6
    <3>2. staging'[q] \in [Files -> Content]
      BY <1>1, <2>1, <3>1 DEF Content
    <3>3. Current(q) \subseteq Staged(q)
      BY DEF Current
    <3>. QED
      BY <1>1, <2>1, <3>1, <3>2, <3>3 DEF Staged
  <2>5. Own(q)' = Own(q) /\ \A g \in Files : Present(g)' <=> Present(g)
    BY <1>6, <2>3 DEF Own, Present
  <2>6. Current(q) \subseteq Staged(q)
    BY DEF Current
  <2>. QED
    BY <1>1, <1>6, <2>1, <2>3, <2>4, <2>5, <2>6
       DEF Stays, Gathers, InItsPlace, GetsAll, FindsPlace, Running, Downloading
<1>. QED
  BY <1>3, <1>4, <1>5, <1>6 DEF CloseFile, SeeMarker, RemoteFails

\* Everything is downloaded, and goes to the target directory at once or is to be moved.
LEMMA BeginMergeTidy ==
    ASSUME FilesInv, NEW q \in Procs, Gathers(q), BeginMerge(q)
    PROVE  Stays(q)
<1>0. FilesType
  BY DEF FilesInv
<1>1. /\ Own(q) \subseteq Files /\ Staged(q) \subseteq Files /\ proc[q].overwrite \in BOOLEAN
      /\ disk \in [Files -> Content] /\ q \in DOMAIN staging
      /\ proc[q] \in Process /\ proc \in [Procs -> Process]
  BY <1>0, OneProcess DEF FilesType
<1>2. proc[q].at = "fetch" /\ proc[q].todo = {}
  BY DEF BeginMerge
<1>3. /\ proc[q].op = "install" /\ staging[q] # NoDir /\ Staged(q) \subseteq Own(q)
      /\ \A f \in Own(q) : Present(f) \/ f \in Staged(q)
      /\ FindsPlace(q) /\ ~proc[q].overwrite => \A f \in Staged(q) : ~Present(f)
  BY <1>2 DEF Gathers, InItsPlace, GetsAll, FindsPlace, Downloading
<1>4. CASE /\ disk' = [f \in Files |-> IF f \in Staged(q) THEN staging[q][f] ELSE disk[f]]
           /\ staging' = [staging EXCEPT ![q] = NoDir]
           /\ Goto(q, "fetch", "manifest")
  <2>1. /\ proc'[q].at = "manifest" /\ proc'[q].op = "install"
        /\ proc'[q].package = proc[q].package /\ proc'[q].todo = {}
    BY <1>0, <1>2, <1>3, <1>4, AtFields DEF Goto
  <2>2. staging'[q] = NoDir /\ Staged(q)' = {}
    BY <1>1, <1>4 DEF Staged
  <2>3. \A f \in Staged(q) : staging[q][f] # "absent"
    BY <1>3 DEF Staged
  <2>4. \A f \in Own(q) : Present(f)'
    BY <1>1, <1>3, <1>4, <2>3 DEF Present
  <2>5. package_is_installed(proc[q].package)' /\ Own(q)' = Own(q)
    BY <2>1, <2>4 DEF package_is_installed, Own
  <2>. QED
    BY <2>1, <2>2, <2>5 DEF Stays, Gathers, InItsPlace, GetsAll, FindsPlace, Running, Downloading
<1>5. CASE Fail(q)
  <2>1. proc'[q].at = "failed" /\ staging'[q] = NoDir
    BY <1>0, <1>1, <1>5, AtFields DEF Fail
  <2>. QED
    BY <2>1, Rests DEF Stays, Tidy
<1>6. CASE /\ proc' = [proc EXCEPT ![q].at = "merge", ![q].todo = Staged(q)]
           /\ UNCHANGED <<disk, staging>>
  <2>. DEFINE r == [proc[q] EXCEPT !.at = "merge", !.todo = Staged(q)]
  <2>1. proc'[q] = r
    BY <1>1, <1>6
  <2>2. /\ proc'[q].at = "merge" /\ proc'[q].op = proc[q].op
        /\ proc'[q].package = proc[q].package /\ proc'[q].overwrite = proc[q].overwrite
        /\ proc'[q].todo = Staged(q)
    BY <1>1, <2>1 DEF Process
  <2>3. Own(q)' = Own(q) /\ Staged(q)' = Staged(q) /\ staging'[q] = staging[q]
    BY <1>6, <2>2 DEF Own, Staged
  <2>4. \A f \in Files : Present(f)' <=> Present(f)
    BY <1>6 DEF Present
  <2>. QED
    BY <1>1, <1>3, <2>2, <2>3, <2>4
       DEF Stays, Gathers, InItsPlace, GetsAll, FindsPlace, Running, Downloading
<1>. QED
  BY <1>4, <1>5, <1>6, Zenon DEF BeginMerge

\* A staged file is moved to its place, or what it replaces is unlinked.
LEMMA MergeFileTidy ==
    ASSUME FilesInv, NEW q \in Procs, Gathers(q), MergeFile(q)
    PROVE  Stays(q)
<1>0. FilesType
  BY DEF FilesInv
<1>1. /\ Own(q) \subseteq Files /\ Staged(q) \subseteq Files /\ proc[q].overwrite \in BOOLEAN
      /\ staging[q] # NoDir => staging[q] \in [Files -> Content]
      /\ NoDir \notin [Files -> Content]
      /\ disk \in [Files -> Content] /\ q \in DOMAIN staging
      /\ proc[q] \in Process /\ proc \in [Procs -> Process]
  BY <1>0, OneProcess DEF FilesType
<1>2. proc[q].at = "merge"
  BY DEF MergeFile
<1>3. /\ proc[q].op = "install" /\ staging[q] # NoDir
      /\ FindsPlace(q) => proc[q].todo \subseteq Staged(q)
      /\ Staged(q) \subseteq Own(q)
      /\ \A f \in Own(q) : Present(f) \/ f \in proc[q].todo
      /\ FindsPlace(q) /\ ~proc[q].overwrite =>
            \A f \in proc[q].todo \cup Staged(q) : ~Present(f)
  BY <1>2 DEF Gathers, InItsPlace, GetsAll, FindsPlace, Downloading
<1>4. PICK f \in proc[q].todo :
        \/ /\ proc[q].overwrite
           /\ disk' = [disk EXCEPT ![f] = "absent"] /\ UNCHANGED <<staging, proc>>
        \/ /\ f \in Staged(q)
           /\ disk' = [disk EXCEPT ![f] = staging[q][f]]
           /\ staging' = [staging EXCEPT ![q][f] = "absent"]
           /\ proc' = [proc EXCEPT ![q].todo = @ \ {f}]
        \/ Fail(q)
  BY Zenon DEF MergeFile
<1>5. CASE /\ proc[q].overwrite
           /\ disk' = [disk EXCEPT ![f] = "absent"] /\ UNCHANGED <<staging, proc>>
  <2>1. \A g \in Files : g # f => (Present(g)' <=> Present(g))
    BY <1>1, <1>5 DEF Present
  <2>2. Own(q)' = Own(q) /\ Staged(q)' = Staged(q)
    BY <1>5 DEF Own, Staged
  <2>. QED
    BY <1>1, <1>2, <1>3, <1>4, <1>5, <2>1, <2>2
       DEF Stays, Gathers, InItsPlace, GetsAll, FindsPlace, Running, Downloading
<1>6. CASE /\ f \in Staged(q)
           /\ disk' = [disk EXCEPT ![f] = staging[q][f]]
           /\ staging' = [staging EXCEPT ![q][f] = "absent"]
           /\ proc' = [proc EXCEPT ![q].todo = @ \ {f}]
  <2>1. proc'[q] = [proc[q] EXCEPT !.todo = @ \ {f}]
    BY <1>1, <1>6
  <2>2. /\ proc'[q].at = "merge" /\ proc'[q].op = "install"
        /\ proc'[q].package = proc[q].package /\ proc'[q].overwrite = proc[q].overwrite
        /\ proc'[q].todo = proc[q].todo \ {f}
    BY <1>1, <1>2, <1>3, <2>1 DEF Process
  <2>3. staging'[q] # NoDir /\ Staged(q)' = Staged(q) \ {f}
    <3>1. staging'[q] = [staging[q] EXCEPT ![f] = "absent"]
      BY <1>1, <1>6
    <3>0. staging[q] \in [Files -> Content]
      BY <1>1, <1>3
    <3>2. staging'[q] \in [Files -> Content]
      BY <3>0, <3>1 DEF Content
    <3>3. \A g \in Files : staging'[q][g] = IF g = f THEN "absent" ELSE staging[q][g]
      BY <1>1, <1>3, <3>1
    <3>. QED
      BY <1>1, <1>3, <3>2, <3>3 DEF Staged
  <2>4. Present(f)' /\ \A g \in Files : g # f => (Present(g)' <=> Present(g))
    <3>1. f \in Files /\ staging[q][f] # "absent"
      BY <1>1, <1>3, <1>6 DEF Staged
    <3>. QED
      BY <1>1, <1>6, <3>1 DEF Present
  <2>5. Own(q)' = Own(q)
    BY <2>2 DEF Own
  <2>. QED
    BY <1>1, <1>3, <2>2, <2>3, <2>4, <2>5
       DEF Stays, Gathers, InItsPlace, GetsAll, FindsPlace, Running, Downloading
<1>7. CASE Fail(q)
  <2>1. proc'[q].at = "failed" /\ staging'[q] = NoDir
    BY <1>0, <1>1, <1>7, AtFields DEF Fail
  <2>. QED
    BY <2>1, Rests DEF Stays, Tidy
<1>. QED
  BY <1>4, <1>5, <1>6, <1>7

\* The end of an install.
LEMMA EndInstallTidy ==
    ASSUME FilesInv, NEW q \in Procs, Gathers(q), EndMerge(q) \/ WriteManifest(q)
    PROVE  Stays(q)
<1>0. FilesType
  BY DEF FilesInv
<1>1. q \in DOMAIN staging
  BY <1>0 DEF FilesType
<1>2. CASE Fail(q)
  <2>1. proc'[q].at = "failed" /\ staging'[q] = NoDir
    BY <1>0, <1>1, <1>2, AtFields DEF Fail
  <2>. QED
    BY <2>1, Rests DEF Stays, Tidy
<1>3. ASSUME NEW at \in {"manifest", "ok"}, proc[q].op = "install", UNCHANGED disk,
             package_is_installed(proc[q].package), proc[q].todo \subseteq Own(q),
             proc' = [proc EXCEPT ![q].at = at], staging'[q] = NoDir
      PROVE  Stays(q)
  <2>1. /\ proc'[q].at = at /\ proc'[q].op = "install"
        /\ proc'[q].package = proc[q].package /\ proc'[q].todo = proc[q].todo
    BY <1>0, <1>3, AtFields
  <2>2. package_is_installed(proc[q].package)' /\ Own(q)' = Own(q) /\ Staged(q)' = {}
    BY <1>3, <2>1 DEF package_is_installed, Own, Present, Staged
  <2>. QED
    BY <1>3, <2>1, <2>2 DEF Stays, Gathers, InItsPlace, GetsAll, FindsPlace, Running, Downloading
<1>4. CASE /\ proc[q].at = "merge" /\ proc[q].todo = {} /\ staging[q] # NoDir
           /\ staging' = [staging EXCEPT ![q] = NoDir]
           /\ Goto(q, "merge", "manifest") /\ UNCHANGED disk
  <2>1. proc[q].op = "install" /\ package_is_installed(proc[q].package)
    BY <1>4 DEF Gathers, InItsPlace, GetsAll, package_is_installed, Own
  <2>. QED
    BY <1>1, <1>3, <1>4, <2>1 DEF Goto
<1>5. CASE WriteManifest(q)
  <2>1. proc[q].at = "manifest"
    BY <1>5 DEF WriteManifest, Goto
  <2>2. /\ proc[q].op = "install" /\ package_is_installed(proc[q].package)
        /\ proc[q].todo \subseteq Own(q) /\ staging[q] = NoDir
    BY <2>1 DEF Gathers, InItsPlace, GetsAll, Running, Downloading
  <2>. QED
    BY <1>3, <1>5, <2>2 DEF WriteManifest, Goto
<1>. QED
  BY <1>2, <1>4, <1>5, Zenon DEF EndMerge

\* A removal, a cleaning and a kill.
LEMMA OtherTidy ==
    ASSUME FilesInv, NEW q \in Procs, Gathers(q),
           UnlinkFile(q) \/ EndUninstall(q) \/ CleanPartial(q) \/ Crash(q)
    PROVE  Stays(q)
<1>0. FilesType
  BY DEF FilesInv
<1>1. /\ Own(q) \subseteq Files /\ disk \in [Files -> Content] /\ q \in DOMAIN staging
      /\ proc[q] \in Process /\ proc \in [Procs -> Process]
  BY <1>0, OneProcess DEF FilesType
<1>2. ASSUME proc' = [proc EXCEPT ![q].at = "failed"], staging' = [staging EXCEPT ![q] = NoDir]
      PROVE  Stays(q)
  <2>1. proc'[q].at = "failed" /\ staging'[q] = NoDir
    BY <1>0, <1>1, <1>2, AtFields
  <2>. QED
    BY <2>1, Rests DEF Stays, Tidy
<1>3. CASE UnlinkFile(q)
  <2>1. proc[q].at = "unlink"
    BY <1>3 DEF UnlinkFile
  <2>2. /\ proc[q].op = "uninstall" /\ staging[q] = NoDir /\ proc[q].todo \subseteq Own(q)
        /\ FindsPlace(q) => \A g \in proc[q].todo : Present(g)
    BY <2>1 DEF Gathers, InItsPlace, FindsPlace, Running, Downloading
  <2>3. PICK f \in proc[q].todo :
          \/ /\ disk' = [disk EXCEPT ![f] = "absent"]
             /\ proc' = [proc EXCEPT ![q].todo = @ \ {f}]
             /\ UNCHANGED staging
          \/ Fail(q)
    BY <1>3, Zenon DEF UnlinkFile
  <2>4. CASE /\ disk' = [disk EXCEPT ![f] = "absent"]
             /\ proc' = [proc EXCEPT ![q].todo = @ \ {f}]
             /\ UNCHANGED staging
    <3>1. proc'[q] = [proc[q] EXCEPT !.todo = @ \ {f}]
      BY <1>1, <2>4
    <3>2. /\ proc'[q].at = "unlink" /\ proc'[q].op = "uninstall"
          /\ proc'[q].package = proc[q].package /\ proc'[q].todo = proc[q].todo \ {f}
      BY <1>1, <2>1, <2>2, <3>1 DEF Process
    <3>3. Own(q)' = Own(q) /\ staging'[q] = NoDir /\ Staged(q)' = {}
      BY <2>2, <2>4, <3>2 DEF Own, Staged
    <3>4. \A g \in Files : g # f => (Present(g)' <=> Present(g))
      BY <1>1, <2>4 DEF Present
    <3>. QED
      BY <1>1, <2>2, <3>2, <3>3, <3>4
         DEF Stays, Gathers, InItsPlace, GetsAll, FindsPlace, Running, Downloading
  <2>. QED
    BY <1>2, <2>3, <2>4 DEF Fail
<1>4. CASE EndUninstall(q)
  <2>1. proc[q].at = "unlink" /\ proc' = [proc EXCEPT ![q].at = "ok"] /\ staging' = staging
    BY <1>4 DEF EndUninstall, Goto
  <2>2. proc[q].op = "uninstall" /\ staging[q] = NoDir
    BY <2>1 DEF Gathers, InItsPlace, Downloading
  <2>3. proc'[q].at = "ok" /\ proc'[q].op = "uninstall"
    BY <1>0, <2>1, <2>2, AtFields
  <2>. QED
    BY <2>1, <2>2, <2>3, Rests DEF Stays, Tidy
<1>5. CASE CleanPartial(q)
  <2>1. /\ proc[q].op = "clean-partial" /\ proc' = [proc EXCEPT ![q].at = "ok"]
        /\ staging'[q] = NoDir
    BY <1>5 DEF CleanPartial, Goto
  <2>2. proc'[q].at = "ok" /\ proc'[q].op = "clean-partial"
    BY <1>0, <2>1, AtFields
  <2>. QED
    BY <2>1, <2>2, Rests DEF Stays, Tidy
<1>6. CASE Crash(q)
  BY <1>2, <1>6 DEF Crash
<1>. QED
  BY <1>3, <1>4, <1>5, <1>6

\* What a process does of itself, or has done to it, keeps it tidy.
LEMMA OwnStays ==
    ASSUME FilesInv, NEW q \in Procs, Gathers(q), Work(q) \/ RemoteFails(q) \/ Crash(q)
    PROVE  Stays(q)
<1>1. CASE InstallCheck(q) \/ UninstallCheck(q)
  BY <1>1, CheckTidy DEF FilesInv
<1>2. CASE MakeStaging(q) \/ OpenFile(q) \/ CloseFile(q) \/ SeeMarker(q) \/ RemoteFails(q)
  BY <1>2, DownloadTidy
<1>3. CASE BeginMerge(q)
  BY <1>3, BeginMergeTidy
<1>4. CASE MergeFile(q)
  BY <1>4, MergeFileTidy
<1>5. CASE EndMerge(q) \/ WriteManifest(q)
  BY <1>5, EndInstallTidy
<1>6. CASE UnlinkFile(q) \/ EndUninstall(q) \/ CleanPartial(q) \/ Crash(q)
  BY <1>6, OtherTidy
<1>. QED
  BY <1>1, <1>2, <1>3, <1>4, <1>5, <1>6 DEF Work

LEMMA OwnTidy ==
    ASSUME FilesInv, NEW q \in Procs, Tidy(q), Work(q) \/ RemoteFails(q) \/ Crash(q)
    PROVE  Tidy(q)'
  BY OwnStays DEF Stays, Tidy

\* It touches the files of its own package only, and the staging directories next to them.
LEMMA TouchesItsOwn ==
    ASSUME FilesType, NEW q \in Procs, Gathers(q), Work(q) \/ RemoteFails(q) \/ Crash(q)
    PROVE  /\ Busy(q) /\ Busy(q)'
           /\ proc'[q].package = proc[q].package /\ proc'[q].op = proc[q].op
           /\ \A f \in Files \ Own(q) : disk'[f] = disk[f]
           /\ \A r \in Procs \ {q} :
                /\ proc'[r] = proc[r]
                /\ \/ staging'[r] = staging[r]
                   \/ /\ staging'[r] = NoDir /\ proc[q].op = "clean-partial"
                      /\ Target[proc[r].package] = Target[proc[q].package]
<1>1. /\ Own(q) \subseteq Files /\ disk \in [Files -> Content] /\ DOMAIN staging = Procs
      /\ proc[q] \in Process /\ proc \in [Procs -> Process]
  BY OneProcess DEF FilesType
<1>2. Busy(q)
  BY DEF Busy, Work, InstallCheck, MakeStaging, SeeMarker, OpenFile, CloseFile, BeginMerge,
         MergeFile, EndMerge, WriteManifest, UninstallCheck, UnlinkFile, EndUninstall,
         CleanPartial, RemoteFails, Crash, Goto, Running
<1>. DEFINE Moved == /\ proc'[q].at # "away"
                     /\ proc'[q].package = proc[q].package /\ proc'[q].op = proc[q].op
                     /\ \A r \in Procs \ {q} : proc'[r] = proc[r]
<1>3. Moved
  <2>1. ASSUME NEW at, at # "away", proc' = [proc EXCEPT ![q].at = at]
        PROVE  Moved
    BY <2>1, AtFields
  <2>2. ASSUME NEW at, at # "away", NEW todo,
               proc' = [proc EXCEPT ![q].at = at, ![q].todo = todo]
        PROVE  Moved
    <3>. DEFINE r == [proc[q] EXCEPT !.at = at, !.todo = todo]
    <3>1. proc'[q] = r /\ \A o \in Procs \ {q} : proc'[o] = proc[o]
      BY <1>1, <2>2
    <3>. QED
      BY <1>1, <2>2, <3>1 DEF Process
  <2>3. ASSUME NEW todo, proc' = [proc EXCEPT ![q].todo = todo]
        PROVE  Moved
    <3>1. /\ proc'[q] = [proc[q] EXCEPT !.todo = todo]
          /\ \A o \in Procs \ {q} : proc'[o] = proc[o]
      BY <1>1, <2>3
    <3>. QED
      BY <1>1, <1>2, <3>1 DEF Process, Busy
  <2>4. CASE UNCHANGED proc
    BY <1>2, <2>4 DEF Busy
  <2>5. CASE \/ MakeStaging(q) \/ SeeMarker(q) \/ OpenFile(q) \/ EndMerge(q)
             \/ WriteManifest(q) \/ EndUninstall(q) \/ CleanPartial(q)
             \/ RemoteFails(q) \/ Crash(q)
    BY <2>1, <2>5 DEF MakeStaging, SeeMarker, OpenFile, EndMerge, WriteManifest,
                      EndUninstall, CleanPartial, RemoteFails, Crash, Goto, Fail
  <2>6. CASE CloseFile(q)
    BY <2>1, <2>2, <2>6 DEF CloseFile, Fail
  <2>7. CASE InstallCheck(q) \/ UninstallCheck(q)
    <3>. DEFINE p == proc[q].package
                existing == {f \in Needs[p] : Present(f)}
                shared == Reusable(p)
                needs == Needs[p]
    <3>1. ASSUME InstallCheck(q)
          PROVE  \/ Goto(q, "begin", "ok") \/ Goto(q, "begin", "failed")
                 \/ proc' = [proc EXCEPT ![q].at = "stage", ![q].todo = needs]
                 \/ proc' = [proc EXCEPT ![q].at = "stage", ![q].todo = needs \ shared]
      BY <3>1, Zenon DEF InstallCheck
    <3>2. ASSUME UninstallCheck(q)
          PROVE  \/ Goto(q, "begin", "failed")
                 \/ proc' = [proc EXCEPT ![q].at = "unlink", ![q].todo = existing \ shared]
      BY <3>2, Zenon DEF UninstallCheck
    <3>. HIDE DEF p, existing, shared, needs
    <3>3. \/ \E at \in {"ok", "failed"} : proc' = [proc EXCEPT ![q].at = at]
          \/ \E at \in {"stage", "unlink"} : \E todo :
                proc' = [proc EXCEPT ![q].at = at, ![q].todo = todo]
      BY <2>7, <3>1, <3>2 DEF Goto
    <3>. HIDE DEF Moved
    <3>. QED
      BY <2>1, <2>2, <3>3
  <2>8. CASE BeginMerge(q)
    BY <2>1, <2>2, <2>8, Zenon DEF BeginMerge, Goto, Fail
  <2>9. CASE MergeFile(q)
    BY <2>1, <2>3, <2>4, <2>9 DEF MergeFile, Fail
  <2>10. CASE UnlinkFile(q)
    BY <2>1, <2>3, <2>10 DEF UnlinkFile, Fail
  <2>. QED
    BY <2>5, <2>6, <2>7, <2>8, <2>9, <2>10 DEF Work
<1>4. \A f \in Files \ Own(q) : disk'[f] = disk[f]
  <2>1. CASE UNCHANGED disk
    BY <2>1
  <2>2. CASE BeginMerge(q)
    <3>1. \/ UNCHANGED disk
          \/ disk' = [f \in Files |-> IF f \in Staged(q) THEN staging[q][f] ELSE disk[f]]
      BY <2>2, Zenon DEF BeginMerge, Fail
    <3>2. Staged(q) \subseteq Own(q)
      BY DEF Gathers, InItsPlace
    <3>. QED
      BY <2>1, <3>1, <3>2
  <2>3. CASE MergeFile(q) \/ UnlinkFile(q)
    <3>1. proc[q].todo \subseteq Own(q)
      BY <2>3 DEF MergeFile, UnlinkFile, Gathers, InItsPlace, Running
    <3>2. PICK f \in proc[q].todo : UNCHANGED disk \/ \E c : disk' = [disk EXCEPT ![f] = c]
      BY <2>3, Zenon DEF MergeFile, UnlinkFile, Fail
    <3>. QED
      BY <1>1, <2>1, <3>1, <3>2
  <2>4. CASE \/ MakeStaging(q) \/ SeeMarker(q) \/ OpenFile(q) \/ EndMerge(q) \/ CloseFile(q)
             \/ WriteManifest(q) \/ EndUninstall(q) \/ CleanPartial(q)
             \/ InstallCheck(q) \/ UninstallCheck(q) \/ RemoteFails(q) \/ Crash(q)
    BY <2>1, <2>4 DEF MakeStaging, SeeMarker, OpenFile, EndMerge, CloseFile, WriteManifest,
           EndUninstall, CleanPartial, InstallCheck, UninstallCheck, RemoteFails, Crash, Fail
  <2>. QED
    BY <2>2, <2>3, <2>4 DEF Work
<1>5. ASSUME NEW r \in Procs \ {q}
      PROVE  \/ staging'[r] = staging[r]
             \/ /\ staging'[r] = NoDir /\ proc[q].op = "clean-partial"
                /\ Target[proc[r].package] = Target[proc[q].package]
  <2>1. CASE CleanPartial(q)
    BY <2>1 DEF CleanPartial
  <2>2. CASE UNCHANGED staging
    BY <2>2
  <2>3. ASSUME NEW new, staging' = [staging EXCEPT ![q] = new]
        PROVE  staging'[r] = staging[r]
    BY <1>1, <2>3
  <2>4. CASE Fail(q) \/ MakeStaging(q) \/ OpenFile(q) \/ CloseFile(q) \/ Crash(q)
    BY <2>3, <2>4 DEF Fail, MakeStaging, OpenFile, CloseFile, Crash
  <2>5. CASE BeginMerge(q) \/ MergeFile(q) \/ EndMerge(q)
    <3>1. \/ UNCHANGED staging
          \/ \E new : staging' = [staging EXCEPT ![q] = new]
      <4>1. CASE BeginMerge(q)
        BY <4>1, Zenon DEF BeginMerge, Fail
      <4>2. CASE MergeFile(q)
        <5>1. PICK f \in proc[q].todo :
                UNCHANGED staging \/ staging' = [staging EXCEPT ![q] = NoDir]
                \/ staging' = [staging EXCEPT ![q][f] = "absent"]
          BY <4>2, Zenon DEF MergeFile, Fail
        <5>2. CASE staging' = [staging EXCEPT ![q][f] = "absent"]
          <6>1. staging' = [staging EXCEPT ![q] = [staging[q] EXCEPT ![f] = "absent"]]
            BY <5>2
          <6>. QED
            BY <6>1
        <5>. QED
          BY <5>1, <5>2
      <4>3. CASE EndMerge(q)
        BY <4>3, Zenon DEF EndMerge, Fail
      <4>. QED
        BY <2>5, <4>1, <4>2, <4>3
    <3>. QED
      BY <2>2, <2>3, <3>1
  <2>6. CASE \/ WriteManifest(q) \/ EndUninstall(q) \/ InstallCheck(q) \/ UninstallCheck(q)
    BY <2>2, <2>6 DEF WriteManifest, EndUninstall, InstallCheck, UninstallCheck
  <2>7. CASE UnlinkFile(q) \/ SeeMarker(q) \/ RemoteFails(q)
    BY <2>2, <2>4, <2>7 DEF UnlinkFile, SeeMarker, RemoteFails
  <2>. QED
    BY <2>1, <2>4, <2>5, <2>6, <2>7 DEF Work
<1>6. Busy(q)'
  BY <1>3 DEF Busy
<1>. QED
  BY <1>2, <1>3, <1>4, <1>5, <1>6

\* A step of one process keeps all of them tidy, and apart.
LEMMA TidyStep ==
    ASSUME FilesInv, Apart, TidyInv, NEW q \in Procs, Work(q) \/ RemoteFails(q) \/ Crash(q)
    PROVE  TidyInv' /\ Apart'
<1>0. FilesType /\ Tidy(q)
  BY DEF FilesInv, TidyInv
<1>1. /\ Busy(q) /\ Busy(q)' /\ proc'[q].package = proc[q].package
      /\ \A f \in Files \ Own(q) : disk'[f] = disk[f]
      /\ \A r \in Procs \ {q} :
           /\ proc'[r] = proc[r]
           /\ \/ staging'[r] = staging[r]
              \/ staging'[r] = NoDir /\ Target[proc[r].package] = Target[proc[q].package]
  BY <1>0, TouchesItsOwn DEF Tidy
<1>2. ASSUME NEW r \in Procs PROVE Tidy(r)'
  <2>1. CASE r = q
    BY <1>0, <2>1, OwnTidy
  <2>2. CASE r # q /\ ~Busy(r)
    <3>1. proc'[r].at = "away"
      BY <1>1, <2>2 DEF Busy
    <3>2. staging[r] = NoDir
      BY <2>2 DEF Busy, TidyInv, Tidy, Gathers, InItsPlace, Downloading
    <3>3. staging'[r] = NoDir
      BY <1>1, <2>2, <3>2
    <3>. QED
      BY <3>1, <3>3, Rests
  <2>3. CASE r # q /\ Busy(r)
    <3>1. Target[proc[r].package] # Target[proc[q].package]
      BY <1>1, <2>3 DEF Apart
    <3>2. proc'[r] = proc[r] /\ staging'[r] = staging[r]
      BY <1>1, <2>3, <3>1
    <3>3. proc[r].package \in Packages /\ proc[q].package \in Packages /\ Own(r) \subseteq Files
      BY <1>0, OneProcess
    <3>4. Own(r) \cap Own(q) = {}
      BY <3>1, <3>3, PackagesAssumption DEF Own
    <3>5. \A f \in Own(r) : disk'[f] = disk[f]
      BY <1>1, <3>3, <3>4
    <3>6. Tidy(r)
      BY DEF TidyInv
    <3>. QED
      BY <1>0, <3>2, <3>5, <3>6, SameForOne
  <2>. QED
    BY <2>1, <2>2, <2>3
<1>3. \A r \in Procs : (Busy(r)' <=> Busy(r)) /\ proc'[r].package = proc[r].package
  BY <1>1 DEF Busy
<1>4. Apart'
  BY <1>3 DEF Apart
<1>. QED
  BY <1>2, <1>4 DEF TidyInv

\* Starting a command, and taking its exit status, change nothing for the others.
LEMMA Launched ==
    ASSUME FilesType, NEW q \in Procs, Gathers(q), NEW op, NEW p, NEW overwrite,
           Launch(q, op, p, overwrite)
    PROVE  /\ Tidy(q)' /\ UNCHANGED <<disk, staging>>
           /\ \A r \in Procs \ {q} : proc'[r] = proc[r]
<1>1. /\ proc[q].at = "away" /\ UNCHANGED <<disk, staging>>
      /\ proc'[q] = [at |-> "begin", op |-> op, package |-> p, overwrite |-> overwrite, todo |-> {}]
      /\ \A r \in Procs \ {q} : proc'[r] = proc[r]
  BY DEF Launch, FilesType
<1>2. staging[q] = NoDir
  BY <1>1 DEF Gathers, InItsPlace, Downloading
<1>3. proc'[q].at = "begin" /\ proc'[q].todo = {}
  BY <1>1
<1>. QED
  BY <1>1, <1>2, <1>3, Rests

LEMMA Reaped ==
    ASSUME FilesType, NEW q \in Procs, Gathers(q), Reap(q), UNCHANGED staging
    PROVE  Tidy(q)' /\ \A r \in Procs \ {q} : proc'[r] = proc[r]
<1>. DEFINE new == [proc[q] EXCEPT !.at = "away", !.todo = {}]
<1>1. proc[q].at \in Ended /\ proc'[q] = new /\ \A r \in Procs \ {q} : proc'[r] = proc[r]
  BY DEF Reap, FilesType
<1>2. proc'[q].at = "away"
  BY <1>1 DEF FilesType, Process
<1>3. staging[q] = NoDir
  BY <1>1 DEF Gathers, InItsPlace, Downloading, Ended
<1>. QED
  BY <1>1, <1>2, <1>3, Rests

LEMMA LaunchTidy ==
    ASSUME FilesType, TidyInv, NEW q \in Procs, NEW op, NEW p, NEW overwrite,
           Launch(q, op, p, overwrite)
    PROVE  TidyInv'
<1>1. /\ Tidy(q)' /\ UNCHANGED <<disk, staging>>
      /\ \A r \in Procs \ {q} : proc'[r] = proc[r]
  BY Launched DEF TidyInv, Tidy
<1>. QED
  BY <1>1, SameForOne DEF TidyInv

LEMMA ReapTidy ==
    ASSUME FilesType, TidyInv, NEW q \in Procs, Reap(q), UNCHANGED <<disk, staging>>
    PROVE  TidyInv'
<1>1. Tidy(q)' /\ \A r \in Procs \ {q} : proc'[r] = proc[r]
  BY Reaped DEF TidyInv, Tidy
<1>. QED
  BY <1>1, SameForOne DEF TidyInv

\* Processes start away.
LEMMA InitTidy == Init => TidyInv /\ Apart
<1>. SUFFICES ASSUME Init PROVE TidyInv /\ Apart
  OBVIOUS
<1>1. \A q \in Procs : proc[q].at = "away" /\ staging[q] = NoDir
  BY DEF Init
<1>2. \A q \in Procs : Staged(q) = {}
  BY <1>1 DEF Staged
<1>. QED
  BY <1>1, <1>2 DEF TidyInv, Tidy, Gathers, InItsPlace, GetsAll, FindsPlace, Apart, Busy, Running,
                    Downloading
-----------------------------------------------------------------------------
(* Installs that work in one target directory at the same time.            *)

\* An install that replaces nothing.
Adds(q) == proc[q].op = "install" /\ ~proc[q].overwrite

\* Processes that work in one target directory at the same time are such installs.
Alongside ==
    \A q, r \in Procs :
        /\ q # r /\ Busy(q) /\ Busy(r)
        /\ Target[proc[q].package] = Target[proc[r].package]
        => Adds(q) /\ Adds(r)

GathersInv == \A q \in Procs : Gathers(q)

LEMMA ApartIsAlongside == Apart => Alongside
  BY DEF Apart, Alongside

\* An install that replaces nothing leaves what is there.
LEMMA AddsFiles ==
    ASSUME FilesType, NEW q \in Procs, Gathers(q), Adds(q),
           Work(q) \/ RemoteFails(q) \/ Crash(q),
           NEW f \in Files, Present(f)
    PROVE  Present(f)'
<1>1. disk \in [Files -> Content]
  BY DEF FilesType
<1>2. CASE disk' = disk
  BY <1>2 DEF Present
<1>3. CASE BeginMerge(q)
  <2>1. \/ disk' = disk
        \/ disk' = [g \in Files |-> IF g \in Staged(q) THEN staging[q][g] ELSE disk[g]]
    BY <1>3, Zenon DEF BeginMerge, Fail
  <2>2. f \in Staged(q) => staging[q][f] # "absent"
    BY DEF Staged
  <2>. QED
    BY <1>2, <2>1, <2>2 DEF Present
<1>4. CASE MergeFile(q)
  <2>1. \/ disk' = disk
        \/ \E g \in Staged(q) : disk' = [disk EXCEPT ![g] = staging[q][g]]
    BY <1>4, Zenon DEF MergeFile, Fail, Adds
  <2>2. \A g \in Staged(q) : staging[q][g] # "absent"
    BY DEF Staged
  <2>. QED
    BY <1>1, <1>2, <2>1, <2>2 DEF Present
<1>5. CASE UnlinkFile(q)
  BY <1>5 DEF UnlinkFile, Gathers, InItsPlace, Adds
<1>6. CASE \/ MakeStaging(q) \/ SeeMarker(q) \/ OpenFile(q) \/ EndMerge(q) \/ CloseFile(q)
           \/ WriteManifest(q) \/ EndUninstall(q) \/ CleanPartial(q)
           \/ InstallCheck(q) \/ UninstallCheck(q) \/ RemoteFails(q) \/ Crash(q)
  BY <1>2, <1>6 DEF MakeStaging, SeeMarker, OpenFile, EndMerge, CloseFile, WriteManifest,
         EndUninstall, CleanPartial, InstallCheck, UninstallCheck, RemoteFails, Crash, Fail
<1>. QED
  BY <1>3, <1>4, <1>5, <1>6 DEF Work

\* A process goes on gathering its files while others only add to them.
LEMMA KeptForOne ==
    ASSUME NEW r \in Procs, Gathers(r), proc'[r] = proc[r], staging'[r] = staging[r],
           \A f \in Own(r) : Present(f) => Present(f)'
    PROVE  Gathers(r)'
<1>1. Own(r)' = Own(r) /\ Staged(r)' = Staged(r)
  BY DEF Own, Staged
<1>2. InItsPlace(r)'
  BY <1>1 DEF Gathers, InItsPlace
<1>3. GetsAll(r)'
  BY <1>1 DEF Gathers, GetsAll, package_is_installed, Own
<1>. QED
  BY <1>2, <1>3 DEF Gathers

\* A step of one process.
LEMMA GathersStep ==
    ASSUME FilesInv, Alongside, GathersInv, NEW q \in Procs,
           Work(q) \/ RemoteFails(q) \/ Crash(q)
    PROVE  GathersInv'
<1>0. FilesType /\ Gathers(q)
  BY DEF FilesInv, GathersInv
<1>1. /\ Busy(q)
      /\ \A f \in Files \ Own(q) : disk'[f] = disk[f]
      /\ \A r \in Procs \ {q} :
           /\ proc'[r] = proc[r]
           /\ \/ staging'[r] = staging[r]
              \/ /\ staging'[r] = NoDir /\ proc[q].op = "clean-partial"
                 /\ Target[proc[r].package] = Target[proc[q].package]
  BY <1>0, TouchesItsOwn
<1>2. ASSUME NEW r \in Procs PROVE Gathers(r)'
  <2>0. Gathers(r)
    BY DEF GathersInv
  <2>1. CASE r = q
    BY <1>0, <2>1, OwnStays DEF Stays
  <2>2. CASE r # q /\ ~Busy(r)
    <3>1. proc'[r].at = "away"
      BY <1>1, <2>2 DEF Busy
    <3>2. staging[r] = NoDir
      BY <2>0, <2>2 DEF Busy, Gathers, InItsPlace, Downloading
    <3>3. staging'[r] = NoDir
      BY <1>1, <2>2, <3>2
    <3>. QED
      BY <3>1, <3>3, Rests DEF Tidy
  <2>3. CASE r # q /\ Busy(r)
    <3>0. proc[r].package \in Packages /\ proc[q].package \in Packages /\ Own(r) \subseteq Files
      BY <1>0, OneProcess
    <3>1. CASE Target[proc[r].package] # Target[proc[q].package]
      <4>1. proc'[r] = proc[r] /\ staging'[r] = staging[r]
        BY <1>1, <2>3, <3>1
      <4>2. Own(r) \cap Own(q) = {}
        BY <3>0, <3>1, PackagesAssumption DEF Own
      <4>3. \A f \in Own(r) : Present(f) => Present(f)'
        BY <1>1, <3>0, <4>2 DEF Present
      <4>. QED
        BY <2>0, <4>1, <4>3, KeptForOne
    <3>2. CASE Target[proc[r].package] = Target[proc[q].package]
      <4>1. Adds(q)
        BY <1>1, <2>3, <3>2 DEF Alongside
      <4>2. proc'[r] = proc[r] /\ staging'[r] = staging[r]
        BY <1>1, <2>3, <4>1 DEF Adds
      <4>3. \A f \in Own(r) : Present(f) => Present(f)'
        BY <1>0, <3>0, <4>1, AddsFiles
      <4>. QED
        BY <2>0, <4>2, <4>3, KeptForOne
    <3>. QED
      BY <3>1, <3>2
  <2>. QED
    BY <2>1, <2>2, <2>3
<1>. QED
  BY <1>2 DEF GathersInv

LEMMA LaunchGathers ==
    ASSUME FilesType, GathersInv, NEW q \in Procs, NEW op, NEW p, NEW overwrite,
           Launch(q, op, p, overwrite)
    PROVE  GathersInv'
<1>1. /\ Tidy(q)' /\ UNCHANGED <<disk, staging>>
      /\ \A r \in Procs \ {q} : proc'[r] = proc[r]
  BY Launched DEF GathersInv
<1>2. \A f : Present(f)' <=> Present(f)
  BY <1>1 DEF Present
<1>. QED
  BY <1>1, <1>2, KeptForOne DEF GathersInv, Tidy

LEMMA ReapGathers ==
    ASSUME FilesType, GathersInv, NEW q \in Procs, Reap(q), UNCHANGED <<disk, staging>>
    PROVE  GathersInv'
<1>1. Tidy(q)' /\ \A r \in Procs \ {q} : proc'[r] = proc[r]
  BY Reaped DEF GathersInv
<1>2. \A f : Present(f)' <=> Present(f)
  BY DEF Present
<1>. QED
  BY <1>1, <1>2, KeptForOne DEF GathersInv, Tidy

LEMMA TidyGathers == TidyInv => GathersInv
  BY DEF TidyInv, Tidy, GathersInv

\* What an install leaves is there.
LEMMA GathersInstalls == GathersInv => InstallIsComplete
  BY DEF GathersInv, Gathers, GetsAll, InstallIsComplete

-----------------------------------------------------------------------------
(* What a step of a tidy process does to the target directory.             *)

\* Nothing, before the command begins to change files.
Prepares(q) ==
    /\ proc[q].at \in {"begin", "stage", "fetch", "file"}
    /\ proc'[q].at \notin {"merge", "unlink"}
    /\ disk' = disk

\* The staging directory becomes the target directory.
Renames(q) ==
    /\ proc[q].at = "fetch" /\ proc[q].todo = {} /\ proc'[q].at = "manifest"
    /\ ~TargetExists(proc[q].package)
    /\ disk' = [f \in Files |-> IF f \in Staged(q) THEN staging[q][f] ELSE disk[f]]

\* All that is staged is to be moved; a file in its way is removed; it is moved; no
\* more is to be moved; the manifest is written.
StartsMoving(q) ==
    /\ proc[q].at = "fetch" /\ proc[q].todo = {} /\ disk' = disk
    /\ proc'[q].at = "merge" /\ proc'[q].todo = Staged(q)
Replaces(q) ==
    /\ proc[q].at = "merge" /\ proc'[q] = proc[q]
    /\ \E f \in proc[q].todo : disk' = [disk EXCEPT ![f] = "absent"]
Moves(q) ==
    /\ proc[q].at = "merge" /\ proc'[q].at = "merge"
    /\ \E f \in proc[q].todo, c \in Content \ {"absent"} :
          disk' = [disk EXCEPT ![f] = c] /\ proc'[q].todo = proc[q].todo \ {f}
HasMoved(q) ==
    /\ proc[q].at = "merge" /\ proc[q].todo = {} /\ proc'[q].at = "manifest" /\ disk' = disk
Finishes(q) ==
    proc[q].at = "manifest" /\ proc'[q].at = "ok" /\ disk' = disk

\* What no other installed package needs is to be removed; it is; no more is to be.
StartsRemoving(q) ==
    /\ proc[q].at = "begin" /\ proc'[q].at = "unlink" /\ disk' = disk
    /\ proc'[q].todo = {f \in Own(q) : Present(f)} \ Reusable(proc[q].package)
Removes(q) ==
    /\ proc[q].at = "unlink" /\ proc'[q].at = "unlink"
    /\ \E f \in proc[q].todo :
          disk' = [disk EXCEPT ![f] = "absent"] /\ proc'[q].todo = proc[q].todo \ {f}
HasRemoved(q) ==
    proc[q].at = "unlink" /\ proc[q].todo = {} /\ proc'[q].at = "ok" /\ disk' = disk

\* A tidy process that has begun to change files does not fail of itself.
LEMMA InstallShapes ==
    ASSUME FilesInv, NEW q \in Procs, Tidy(q),
           BeginMerge(q) \/ MergeFile(q) \/ EndMerge(q) \/ WriteManifest(q)
    PROVE  \/ Prepares(q) \/ Renames(q) \/ StartsMoving(q) \/ Replaces(q) \/ Moves(q)
           \/ HasMoved(q) \/ Finishes(q)
<1>0. FilesType /\ proc[q] \in Process /\ proc \in [Procs -> Process]
  BY DEF FilesInv, FilesType
<1>1. CASE BeginMerge(q)
  <2>1. proc[q].at = "fetch" /\ proc[q].todo = {}
    BY <1>1 DEF BeginMerge
  <2>2. CASE Fail(q)
    <3>1. proc'[q].at = "failed" /\ disk' = disk
      BY <1>0, <2>2, AtFields DEF Fail
    <3>. QED
      BY <2>1, <3>1 DEF Prepares
  <2>3. CASE /\ ~TargetExists(proc[q].package) /\ Goto(q, "fetch", "manifest")
             /\ disk' = [f \in Files |-> IF f \in Staged(q) THEN staging[q][f] ELSE disk[f]]
    <3>1. proc'[q].at = "manifest"
      BY <1>0, <2>3, AtFields DEF Goto
    <3>. QED
      BY <2>1, <2>3, <3>1 DEF Renames
  <2>4. CASE /\ proc' = [proc EXCEPT ![q].at = "merge", ![q].todo = Staged(q)]
             /\ disk' = disk
    <3>. DEFINE r == [proc[q] EXCEPT !.at = "merge", !.todo = Staged(q)]
    <3>1. proc'[q] = r
      BY <1>0, <2>4
    <3>2. proc'[q].at = "merge" /\ proc'[q].todo = Staged(q)
      BY <1>0, <3>1 DEF Process
    <3>. QED
      BY <2>1, <2>4, <3>2 DEF StartsMoving
  <2>. QED
    BY <1>1, <2>2, <2>3, <2>4, Zenon DEF BeginMerge
<1>2. CASE MergeFile(q)
  <2>1. /\ proc[q].at = "merge"
        /\ proc[q].todo \subseteq Staged(q) /\ staging[q] # NoDir
        /\ ~proc[q].overwrite => \A f \in proc[q].todo : ~Present(f)
    BY <1>2 DEF MergeFile, Tidy, Gathers, InItsPlace, FindsPlace, Downloading
  <2>2. PICK f \in proc[q].todo :
          \/ disk' = [disk EXCEPT ![f] = "absent"] /\ UNCHANGED proc
          \/ /\ disk' = [disk EXCEPT ![f] = staging[q][f]]
             /\ proc' = [proc EXCEPT ![q].todo = @ \ {f}]
          \/ IF Present(f) THEN ~proc[q].overwrite ELSE f \notin Staged(q)
    BY <1>2, Zenon DEF MergeFile
  <2>3. ~(IF Present(f) THEN ~proc[q].overwrite ELSE f \notin Staged(q))
    BY <2>1
  <2>4. CASE disk' = [disk EXCEPT ![f] = "absent"] /\ UNCHANGED proc
    BY <2>1, <2>4 DEF Replaces
  <2>5. CASE /\ disk' = [disk EXCEPT ![f] = staging[q][f]]
             /\ proc' = [proc EXCEPT ![q].todo = @ \ {f}]
    <3>1. proc'[q] = [proc[q] EXCEPT !.todo = @ \ {f}]
      BY <1>0, <2>5
    <3>2. proc'[q].at = "merge" /\ proc'[q].todo = proc[q].todo \ {f}
      BY <1>0, <2>1, <3>1 DEF Process
    <3>3. staging[q] \in [Files -> Content]
      BY <1>0, <2>1, OneProcess
    <3>4. f \in Files /\ staging[q][f] # "absent"
      BY <2>1 DEF Staged
    <3>5. staging[q][f] \in Content \ {"absent"}
      BY <3>3, <3>4
    <3>. QED
      BY <2>1, <2>5, <3>2, <3>5 DEF Moves
  <2>. QED
    BY <2>2, <2>3, <2>4, <2>5
<1>3. CASE EndMerge(q)
  <2>1. proc[q].at = "merge" /\ proc[q].todo = {}
    BY <1>3 DEF EndMerge
  <2>2. staging[q] # NoDir
    BY <2>1 DEF Tidy, Gathers, InItsPlace, Downloading
  <2>3. proc' = [proc EXCEPT ![q].at = "manifest"] /\ disk' = disk
    BY <1>3, <2>2 DEF EndMerge, Goto
  <2>4. proc'[q].at = "manifest"
    BY <1>0, <2>3, AtFields
  <2>. QED
    BY <2>1, <2>3, <2>4 DEF HasMoved
<1>4. CASE WriteManifest(q)
  <2>1. /\ proc[q].at = "manifest" /\ proc' = [proc EXCEPT ![q].at = "ok"]
        /\ disk' = disk
    BY <1>4 DEF WriteManifest, Goto
  <2>2. proc'[q].at = "ok"
    BY <1>0, <2>1, AtFields
  <2>. QED
    BY <2>1, <2>2 DEF Finishes
<1>. QED
  BY <1>1, <1>2, <1>3, <1>4

LEMMA RemovalShapes ==
    ASSUME FilesInv, NEW q \in Procs, Tidy(q),
           UninstallCheck(q) \/ UnlinkFile(q) \/ EndUninstall(q)
    PROVE  Prepares(q) \/ StartsRemoving(q) \/ Removes(q) \/ HasRemoved(q)
<1>0. FilesType /\ proc[q] \in Process /\ proc \in [Procs -> Process]
  BY DEF FilesInv, FilesType
<1>1. CASE UninstallCheck(q)
  <2>. DEFINE todo == {f \in Own(q) : Present(f)} \ Reusable(proc[q].package)
  <2>1. proc[q].at = "begin" /\ disk' = disk
    BY <1>1 DEF UninstallCheck, Goto
  <2>2. \/ proc' = [proc EXCEPT ![q].at = "failed"]
        \/ proc' = [proc EXCEPT ![q].at = "unlink", ![q].todo = todo]
    BY <1>1 DEF UninstallCheck, Goto, Own
  <2>. HIDE DEF todo
  <2>3. CASE proc' = [proc EXCEPT ![q].at = "failed"]
    <3>1. proc'[q].at = "failed"
      BY <1>0, <2>3, AtFields
    <3>. QED
      BY <2>1, <3>1 DEF Prepares
  <2>4. CASE proc' = [proc EXCEPT ![q].at = "unlink", ![q].todo = todo]
    <3>. DEFINE r == [proc[q] EXCEPT !.at = "unlink", !.todo = todo]
    <3>1. proc'[q] = r
      BY <1>0, <2>4
    <3>2. proc'[q].at = "unlink" /\ proc'[q].todo = todo
      BY <1>0, <3>1 DEF Process
    <3>. QED
      BY <2>1, <3>2 DEF StartsRemoving, todo
  <2>. QED
    BY <2>2, <2>3, <2>4
<1>2. CASE UnlinkFile(q)
  <2>1. proc[q].at = "unlink"
    BY <1>2 DEF UnlinkFile
  <2>2. \A f \in proc[q].todo : Present(f)
    BY <2>1 DEF Tidy, FindsPlace
  <2>3. PICK f \in proc[q].todo : /\ disk' = [disk EXCEPT ![f] = "absent"]
                                  /\ proc' = [proc EXCEPT ![q].todo = @ \ {f}]
    BY <1>2, <2>2 DEF UnlinkFile
  <2>4. proc'[q] = [proc[q] EXCEPT !.todo = @ \ {f}]
    BY <1>0, <2>3
  <2>5. proc'[q].at = "unlink" /\ proc'[q].todo = proc[q].todo \ {f}
    BY <1>0, <2>1, <2>4 DEF Process
  <2>. QED
    BY <2>1, <2>3, <2>5 DEF Removes
<1>3. CASE EndUninstall(q)
  <2>1. /\ proc[q].at = "unlink" /\ proc' = [proc EXCEPT ![q].at = "ok"]
        /\ proc[q].todo = {} /\ disk' = disk
    BY <1>3 DEF EndUninstall, Goto
  <2>2. proc'[q].at = "ok"
    BY <1>0, <2>1, AtFields
  <2>. QED
    BY <2>1, <2>2 DEF HasRemoved
<1>. QED
  BY <1>1, <1>2, <1>3

LEMMA Shapes ==
    ASSUME FilesInv, NEW q \in Procs, Tidy(q), Work(q) \/ RemoteFails(q)
    PROVE  \/ Prepares(q) \/ Renames(q) \/ StartsMoving(q) \/ Replaces(q) \/ Moves(q)
           \/ HasMoved(q) \/ Finishes(q) \/ StartsRemoving(q) \/ Removes(q) \/ HasRemoved(q)
<1>0. FilesType /\ proc[q] \in Process /\ proc \in [Procs -> Process]
  BY DEF FilesInv, FilesType
<1>1. ASSUME NEW at \in {"ok", "failed", "fetch", "file"},
             proc' = [proc EXCEPT ![q].at = at], disk' = disk,
             proc[q].at \in {"begin", "stage", "fetch", "file"}
      PROVE  Prepares(q)
  <2>1. proc'[q].at = at
    BY <1>0, <1>1, AtFields
  <2>. QED
    BY <1>1, <2>1 DEF Prepares
<1>2. CASE MakeStaging(q) \/ SeeMarker(q) \/ OpenFile(q) \/ RemoteFails(q) \/ CleanPartial(q)
  BY <1>1, <1>2 DEF MakeStaging, SeeMarker, OpenFile, RemoteFails, CleanPartial, Fail, Goto
<1>3. CASE CloseFile(q)
  <2>1. CASE Fail(q)
    BY <1>1, <1>3, <2>1 DEF Fail, CloseFile
  <2>2. CASE /\ proc' = [proc EXCEPT ![q].at = "fetch", ![q].todo = @ \ Current(q)]
             /\ disk' = disk
    <3>. DEFINE todo == proc[q].todo \ Current(q)
                r == [proc[q] EXCEPT !.at = "fetch", !.todo = todo]
    <3>1. proc'[q] = r
      BY <1>0, <2>2
    <3>. HIDE DEF todo
    <3>2. proc'[q].at = "fetch"
      BY <1>0, <3>1 DEF Process
    <3>. QED
      BY <1>3, <2>2, <3>2 DEF Prepares, CloseFile
  <2>. QED
    BY <1>3, <2>1, <2>2, Zenon DEF CloseFile
<1>4. CASE InstallCheck(q)
  <2>. DEFINE needs == Needs[proc[q].package]
              rest == Needs[proc[q].package] \ Reusable(proc[q].package)
  <2>1. proc[q].at = "begin" /\ disk' = disk
    BY <1>4 DEF InstallCheck
  <2>2. \/ \E at \in {"ok", "failed"} : proc' = [proc EXCEPT ![q].at = at]
        \/ \E todo \in {needs, rest} :
              proc' = [proc EXCEPT ![q].at = "stage", ![q].todo = todo]
    <3>1. \/ Goto(q, "begin", "ok") \/ Goto(q, "begin", "failed")
          \/ proc' = [proc EXCEPT ![q].at = "stage", ![q].todo = needs]
          \/ proc' = [proc EXCEPT ![q].at = "stage", ![q].todo = rest]
      BY <1>4, Zenon DEF InstallCheck
    <3>. HIDE DEF needs, rest
    <3>. QED
      BY <3>1 DEF Goto
  <2>. HIDE DEF needs, rest
  <2>3. CASE \E at \in {"ok", "failed"} : proc' = [proc EXCEPT ![q].at = at]
    BY <1>1, <2>1, <2>3
  <2>4. CASE \E todo \in {needs, rest} :
               proc' = [proc EXCEPT ![q].at = "stage", ![q].todo = todo]
    <3>0. PICK todo \in {needs, rest} :
             proc' = [proc EXCEPT ![q].at = "stage", ![q].todo = todo]
      BY <2>4
    <3>. DEFINE r == [proc[q] EXCEPT !.at = "stage", !.todo = todo]
    <3>1. proc'[q] = r
      BY <1>0, <3>0
    <3>2. proc'[q].at = "stage"
      BY <1>0, <3>1 DEF Process
    <3>. QED
      BY <2>1, <3>2 DEF Prepares
  <2>. QED
    BY <2>2, <2>3, <2>4
<1>5. CASE BeginMerge(q) \/ MergeFile(q) \/ EndMerge(q) \/ WriteManifest(q)
  BY <1>5, InstallShapes
<1>6. CASE UninstallCheck(q) \/ UnlinkFile(q) \/ EndUninstall(q)
  BY <1>6, RemovalShapes
<1>. QED
  BY <1>2, <1>3, <1>4, <1>5, <1>6 DEF Work
\* A command that has begun to change the files, or has.
Dirty(q) ==
    \/ proc[q].at \in {"merge", "manifest", "unlink"}
    \/ proc[q].at = "ok" /\ proc[q].op # "clean-partial"

\* Only such a command changes the target directory, and until it is reaped it stays one.
LEMMA DirtyStep ==
    ASSUME FilesInv, NEW q \in Procs, Tidy(q), Work(q) \/ RemoteFails(q)
    PROVE  /\ disk' # disk => Dirty(q)'
           /\ Dirty(q) => Dirty(q)'
<1>1. proc'[q].op = proc[q].op
  BY TouchesItsOwn DEF FilesInv, Tidy
<1>2. /\ proc[q].at = "manifest" => proc[q].op = "install"
      /\ proc[q].at = "unlink" => proc[q].op = "uninstall"
  BY DEF Tidy, Gathers, InItsPlace
<1>3. CASE Prepares(q)
  BY <1>3 DEF Prepares, Dirty
<1>4. CASE Renames(q) \/ StartsMoving(q) \/ Replaces(q) \/ Moves(q) \/ HasMoved(q)
  BY <1>4 DEF Renames, StartsMoving, Replaces, Moves, HasMoved, Dirty
<1>5. CASE Finishes(q) \/ StartsRemoving(q) \/ Removes(q) \/ HasRemoved(q)
  BY <1>1, <1>2, <1>5 DEF Finishes, StartsRemoving, Removes, HasRemoved, Dirty
<1>. QED
  BY <1>3, <1>4, <1>5, Shapes

-----------------------------------------------------------------------------
(* What the files in a directory are there for.                            *)

\* The files of the packages in the directory the process works in.
Here(q) ==
    {f \in Files : \E o \in Packages : f \in Needs[o] /\ Target[o] = Target[proc[q].package]}

\* Every file that is there belongs to a package that is installed, or that will be when
\* the files to do are moved, or it is one of those to remove; and these no installed
\* package needs but the one that is removed.
Accounted(q) ==
    /\ \A f \in Here(q) : Present(f) =>
          \/ \E o \in Packages : /\ f \in Needs[o] /\ package_is_installed(o)
                                 /\ proc[q].at = "unlink" => o # proc[q].package
          \/ /\ proc[q].at = "merge"
             /\ \E o \in Packages : /\ f \in Needs[o]
                                    /\ \A g \in Needs[o] : Present(g) \/ g \in proc[q].todo
          \/ proc[q].at = "unlink" /\ f \in proc[q].todo
    /\ proc[q].at = "unlink" =>
          \A o \in Packages \ {proc[q].package} :
              package_is_installed(o) => Needs[o] \cap proc[q].todo = {}

\* A step that changes no file, where none is being moved or removed.
LEMMA StaysAccounted ==
    ASSUME NEW q \in Procs, Accounted(q), disk' = disk, proc'[q].package = proc[q].package,
           proc[q].at \notin {"merge", "unlink"}, proc'[q].at \notin {"merge", "unlink"}
    PROVE  Accounted(q)'
<1>1. /\ \A f : Present(f)' <=> Present(f)
      /\ \A o : package_is_installed(o)' <=> package_is_installed(o)
      /\ Here(q)' = Here(q)
  BY DEF Present, package_is_installed, Here
<1>. QED
  BY <1>1 DEF Accounted

\* A package that is installed stays so while no file it needs is removed.
LEMMA InstalledStays ==
    ASSUME FilesType, NEW o \in Packages, package_is_installed(o),
           \A g \in Needs[o] : Present(g) => Present(g)'
    PROVE  package_is_installed(o)'
  BY DEF package_is_installed

\* The steps of an install.
LEMMA InstallAccounted ==
    ASSUME FilesInv, NEW q \in Procs, Tidy(q), Tidy(q)', Accounted(q),
           proc'[q].package = proc[q].package,
           \/ Renames(q) \/ StartsMoving(q) \/ Replaces(q) \/ Moves(q) \/ HasMoved(q)
    PROVE  Accounted(q)'
<1>0. /\ FilesType /\ disk \in [Files -> Content] /\ proc[q].package \in Packages
      /\ \A o \in Packages : Needs[o] \subseteq Files
      /\ staging[q] # NoDir => staging[q] \in [Files -> Content]
      /\ Here(q) \subseteq Files /\ Here(q)' = Here(q)
  BY OneProcess, PackagesAssumption DEF FilesInv, FilesType, Here
<1>1. CASE Renames(q)
  <2>1. /\ proc[q].at = "fetch" /\ proc'[q].at = "manifest"
        /\ disk' = [f \in Files |-> IF f \in Staged(q) THEN staging[q][f] ELSE disk[f]]
    BY <1>1 DEF Renames
  <2>2. \A f \in Staged(q) : Present(f)'
    BY <1>0, <2>1 DEF Staged, Present
  <2>3. \A f \in Files \ Staged(q) : Present(f)' <=> Present(f)
    BY <2>1 DEF Present
  <2>4. package_is_installed(proc[q].package)'
    BY <2>1 DEF Tidy, Gathers, InItsPlace, GetsAll
  <2>5. ASSUME NEW f \in Here(q), Present(f)'
        PROVE  \E o \in Packages : f \in Needs[o] /\ package_is_installed(o)'
    <3>1. CASE f \in Staged(q)
      BY <1>0, <2>4, <3>1 DEF Tidy, Gathers, InItsPlace, Own
    <3>2. CASE f \notin Staged(q)
      <4>1. PICK o \in Packages : f \in Needs[o] /\ package_is_installed(o)
        BY <1>0, <2>1, <2>3, <2>5, <3>2 DEF Accounted
      <4>2. package_is_installed(o)'
        BY <1>0, <2>2, <2>3, <4>1, InstalledStays
      <4>. QED
        BY <4>1, <4>2
    <3>. QED
      BY <3>1, <3>2
  <2>. QED
    BY <1>0, <2>1, <2>5 DEF Accounted
<1>2. CASE StartsMoving(q) \/ HasMoved(q)
  <2>1. /\ \A f : Present(f)' <=> Present(f)
        /\ \A o : package_is_installed(o)' <=> package_is_installed(o)
    BY <1>2 DEF StartsMoving, HasMoved, Present, package_is_installed
  <2>2. /\ proc[q].at # "unlink" /\ proc'[q].at # "unlink"
        /\ proc[q].at = "merge" => proc[q].todo = {}
    BY <1>2 DEF StartsMoving, HasMoved
  <2>3. ASSUME NEW f \in Here(q), Present(f)
        PROVE  \E o \in Packages : f \in Needs[o] /\ package_is_installed(o)
    BY <2>2, <2>3 DEF Accounted, package_is_installed
  <2>. QED
    BY <1>0, <2>1, <2>2, <2>3 DEF Accounted
<1>3. CASE Replaces(q)
  <2>1. PICK f \in proc[q].todo : disk' = [disk EXCEPT ![f] = "absent"]
    BY <1>3 DEF Replaces
  <2>2. proc[q].at = "merge" /\ proc'[q] = proc[q]
    BY <1>3 DEF Replaces
  <2>3. \A g \in Files : g # f => (Present(g)' <=> Present(g))
    BY <1>0, <2>1 DEF Present
  <2>4. proc[q].todo \subseteq Files
    BY <1>0 DEF FilesType, Process
  <2>5. ~Present(f)'
    BY <1>0, <2>1, <2>4 DEF Present
  <2>6. ASSUME NEW g \in Here(q), Present(g)'
        PROVE  \E o \in Packages : /\ g \in Needs[o]
                                   /\ \A h \in Needs[o] : Present(h)' \/ h \in proc[q].todo
    <3>1. PICK o \in Packages : /\ g \in Needs[o]
                                /\ \A h \in Needs[o] : Present(h) \/ h \in proc[q].todo
      BY <1>0, <2>2, <2>3, <2>5, <2>6 DEF Accounted, package_is_installed
    <3>. QED
      BY <1>0, <2>1, <2>3, <3>1
  <2>. QED
    BY <1>0, <2>2, <2>6 DEF Accounted
<1>4. CASE Moves(q)
  <2>1. PICK f \in proc[q].todo, c \in Content \ {"absent"} :
          disk' = [disk EXCEPT ![f] = c] /\ proc'[q].todo = proc[q].todo \ {f}
    BY <1>4 DEF Moves
  <2>2. proc[q].at = "merge" /\ proc'[q].at = "merge"
    BY <1>4 DEF Moves
  <2>3. \A g \in Files : g # f => (Present(g)' <=> Present(g))
    BY <1>0, <2>1 DEF Present
  <2>4. proc[q].todo \subseteq Files /\ f \in Own(q)
    BY <1>0, <2>2 DEF FilesType, Process, Tidy, Gathers, InItsPlace, Running
  <2>5. Present(f)'
    BY <1>0, <2>1, <2>4 DEF Present
  <2>6. ASSUME NEW g \in Here(q), Present(g)'
        PROVE  \E o \in Packages : /\ g \in Needs[o]
                                   /\ \A h \in Needs[o] : Present(h)' \/ h \in proc'[q].todo
    <3>1. PICK o \in Packages : /\ g \in Needs[o]
                                /\ \A h \in Needs[o] : Present(h) \/ h \in proc[q].todo
      <4>1. CASE g = f
        <5>1. proc[q].op = "install"
          BY <2>2 DEF Tidy, Gathers, InItsPlace
        <5>2. \A h \in Own(q) : Present(h) \/ h \in proc[q].todo
          BY <2>2, <5>1 DEF Tidy, Gathers, GetsAll
        <5>. QED
          BY <1>0, <2>4, <4>1, <5>2 DEF Own
      <4>2. CASE g # f
        BY <1>0, <2>2, <2>3, <2>6, <4>2 DEF Accounted, package_is_installed
      <4>. QED
        BY <4>1, <4>2
    <3>. QED
      BY <1>0, <2>1, <2>3, <2>5, <3>1
  <2>. QED
    BY <1>0, <2>2, <2>6 DEF Accounted
<1>. QED
  BY <1>1, <1>2, <1>3, <1>4

\* The steps of a removal.
LEMMA RemovalAccounted ==
    ASSUME FilesInv, NEW q \in Procs, Tidy(q), Accounted(q),
           proc'[q].package = proc[q].package,
           StartsRemoving(q) \/ Removes(q) \/ HasRemoved(q)
    PROVE  Accounted(q)'
<1>. DEFINE p == proc[q].package
<1>0. /\ FilesType /\ disk \in [Files -> Content] /\ p \in Packages
      /\ \A o \in Packages : Needs[o] \subseteq Files
      /\ Here(q) \subseteq Files /\ Here(q)' = Here(q)
  BY OneProcess, PackagesAssumption DEF FilesInv, FilesType, Here
<1>1. CASE StartsRemoving(q)
  <2>1. /\ proc[q].at = "begin" /\ proc'[q].at = "unlink"
        /\ proc'[q].todo = {f \in Own(q) : Present(f)} \ Reusable(p)
    BY <1>1 DEF StartsRemoving
  <2>2. /\ \A f : Present(f)' <=> Present(f)
        /\ \A o : package_is_installed(o)' <=> package_is_installed(o)
    BY <1>1 DEF StartsRemoving, Present, package_is_installed
  <2>3. ASSUME NEW f \in Own(q)
        PROVE  f \in Reusable(p) <=>
                  \E o \in Packages \ {p} : f \in Needs[o] /\ package_is_installed(o)
    BY DEF Reusable, Own
  <2>4. ASSUME NEW f \in Here(q), Present(f)
        PROVE  \/ \E o \in Packages \ {p} : f \in Needs[o] /\ package_is_installed(o)
               \/ f \in proc'[q].todo
    <3>1. PICK o \in Packages : f \in Needs[o] /\ package_is_installed(o)
      BY <2>1, <2>4 DEF Accounted
    <3>2. CASE o = p
      <4>1. f \in Own(q)
        BY <3>1, <3>2 DEF Own
      <4>. QED
        BY <2>1, <2>3, <2>4, <4>1
    <3>. QED
      BY <3>1, <3>2
  <2>5. ASSUME NEW o \in Packages \ {p}, package_is_installed(o)
        PROVE  Needs[o] \cap proc'[q].todo = {}
    BY <2>1, <2>3, <2>5
  <2>. QED
    BY <1>0, <2>1, <2>2, <2>4, <2>5 DEF Accounted
<1>2. CASE Removes(q)
  <2>1. PICK f \in proc[q].todo : /\ disk' = [disk EXCEPT ![f] = "absent"]
                                  /\ proc'[q].todo = proc[q].todo \ {f}
    BY <1>2 DEF Removes
  <2>2. proc[q].at = "unlink" /\ proc'[q].at = "unlink"
    BY <1>2 DEF Removes
  <2>3. \A g \in Files : g # f => (Present(g)' <=> Present(g))
    BY <1>0, <2>1 DEF Present
  <2>4. f \in Files
    BY <1>0 DEF FilesType, Process
  <2>5. ~Present(f)'
    BY <1>0, <2>1, <2>4 DEF Present
  <2>6. \A o \in Packages \ {p} : package_is_installed(o) => f \notin Needs[o]
    BY <2>1, <2>2 DEF Accounted
  <2>7. \A o \in Packages \ {p} : package_is_installed(o) => package_is_installed(o)'
    BY <1>0, <2>3, <2>6, InstalledStays
  <2>8. \A o \in Packages \ {p} : package_is_installed(o)' => package_is_installed(o)
    BY <1>0, <2>3, <2>5 DEF package_is_installed
  <2>9. ASSUME NEW g \in Here(q), Present(g)'
        PROVE  \/ \E o \in Packages \ {p} : g \in Needs[o] /\ package_is_installed(o)'
               \/ g \in proc'[q].todo
    <3>1. g # f /\ Present(g)
      BY <1>0, <2>3, <2>5, <2>9
    <3>2. \/ \E o \in Packages \ {p} : g \in Needs[o] /\ package_is_installed(o)
          \/ g \in proc[q].todo
      BY <2>2, <3>1 DEF Accounted
    <3>. QED
      BY <2>1, <2>7, <3>1, <3>2
  <2>10. ASSUME NEW o \in Packages \ {p}, package_is_installed(o)'
         PROVE  Needs[o] \cap proc'[q].todo = {}
    <3>1. Needs[o] \cap proc[q].todo = {}
      BY <2>2, <2>8, <2>10 DEF Accounted
    <3>. QED
      BY <2>1, <3>1
  <2>. QED
    BY <1>0, <2>2, <2>9, <2>10 DEF Accounted
<1>3. CASE HasRemoved(q)
  <2>1. /\ \A f : Present(f)' <=> Present(f)
        /\ \A o : package_is_installed(o)' <=> package_is_installed(o)
    BY <1>3 DEF HasRemoved, Present, package_is_installed
  <2>2. proc[q].at = "unlink" /\ proc[q].todo = {} /\ proc'[q].at = "ok"
    BY <1>3 DEF HasRemoved
  <2>. QED
    BY <1>0, <2>1, <2>2 DEF Accounted
<1>. QED
  BY <1>1, <1>2, <1>3
\* What a step of a tidy process keeps.
LEMMA WorkAccounted ==
    ASSUME FilesInv, NEW q \in Procs, Tidy(q), Accounted(q), Work(q) \/ RemoteFails(q)
    PROVE  Accounted(q)'
<1>1. Tidy(q)' /\ proc'[q].package = proc[q].package
  BY OwnTidy, TouchesItsOwn DEF FilesInv, Tidy
<1>2. CASE Prepares(q) \/ Finishes(q)
  <2>1. /\ proc[q].at \notin {"merge", "unlink"} /\ proc'[q].at \notin {"merge", "unlink"}
        /\ disk' = disk
    BY <1>2 DEF Prepares, Finishes
  <2>. QED
    BY <1>1, <2>1, StaysAccounted
<1>3. CASE Renames(q) \/ StartsMoving(q) \/ Replaces(q) \/ Moves(q) \/ HasMoved(q)
  BY <1>1, <1>3, InstallAccounted
<1>4. CASE StartsRemoving(q) \/ Removes(q) \/ HasRemoved(q)
  BY <1>1, <1>4, RemovalAccounted
<1>. QED
  BY <1>2, <1>3, <1>4, Shapes

\* Nobody works in the target directory of the package.
Quiet(p) == \A q \in Procs : Busy(q) => Target[proc[q].package] # Target[p]

\* Then its files that are there are those of installed packages.
Settled(p) ==
    Quiet(p) => \A f \in Needs[p] : Present(f) =>
                   \E o \in Packages : f \in Needs[o] /\ package_is_installed(o)

\* Files come with packages only.
Declared == \A f \in Files : Present(f) => \E p \in Packages : f \in Needs[p]

\* What every file is there for, in every directory.
FilesAccounted ==
    /\ \A q \in Procs : Busy(q) => Accounted(q)
    /\ \A p \in Packages : Settled(p)
    /\ Declared

\* Packages that have a file in common have their directory in common, so the files of a
\* directory are all that its packages need.
LEMMA DirectoryOfFile ==
    ASSUME NEW p \in Packages, NEW o \in Packages, NEW f \in Needs[p], f \in Needs[o]
    PROVE  Target[o] = Target[p]
  BY PackagesAssumption

\* A package is as it was if the files of its directory are.
LEMMA PackageElsewhere ==
    ASSUME NEW o \in Packages, \A f \in Needs[o] : disk'[f] = disk[f]
    PROVE  package_is_installed(o)' <=> package_is_installed(o)
  BY DEF package_is_installed, Present

\* What is accounted for in one directory no step elsewhere changes.
LEMMA AccountedElsewhere ==
    ASSUME FilesType, NEW r \in Procs, Tidy(r), Accounted(r), proc'[r] = proc[r],
           \A f \in Here(r) : disk'[f] = disk[f]
    PROVE  Accounted(r)'
<1>1. Here(r)' = Here(r)
  BY DEF Here
<1>2. \A f \in Here(r) : Present(f)' <=> Present(f)
  BY DEF Present
<1>3. /\ proc[r].package \in Packages /\ Own(r) \subseteq Files
      /\ \A o \in Packages : Needs[o] \subseteq Files
  BY OneProcess, PackagesAssumption
<1>4. \A o \in Packages : Target[o] = Target[proc[r].package] => Needs[o] \subseteq Here(r)
  BY <1>3 DEF Here
<1>5. ASSUME NEW f \in Here(r), NEW o \in Packages, f \in Needs[o]
      PROVE  Needs[o] \subseteq Here(r) /\ (package_is_installed(o)' <=> package_is_installed(o))
  <2>1. Target[o] = Target[proc[r].package]
    BY <1>5, DirectoryOfFile DEF Here
  <2>. QED
    BY <1>4, <2>1, PackageElsewhere
<1>6. ASSUME proc[r].at = "unlink", NEW o \in Packages \ {proc[r].package},
             package_is_installed(o)'
      PROVE  Needs[o] \cap proc[r].todo = {}
  <2>1. proc[r].todo \subseteq Own(r) /\ Own(r) \subseteq Here(r)
    BY <1>3, <1>4, <1>6 DEF Tidy, Gathers, InItsPlace, Running, Own
  <2>2. CASE \E f \in Here(r) : f \in Needs[o]
    <3>1. package_is_installed(o)
      BY <1>5, <1>6, <2>2
    <3>. QED
      BY <1>6, <3>1 DEF Accounted
  <2>. QED
    BY <2>1, <2>2
<1>7. ASSUME NEW f \in Here(r), Present(f)'
      PROVE  \/ \E o \in Packages : /\ f \in Needs[o] /\ package_is_installed(o)'
                                    /\ proc[r].at = "unlink" => o # proc[r].package
             \/ /\ proc[r].at = "merge"
                /\ \E o \in Packages : /\ f \in Needs[o]
                                       /\ \A g \in Needs[o] : Present(g)' \/ g \in proc[r].todo
             \/ proc[r].at = "unlink" /\ f \in proc[r].todo
  <2>1. Present(f)
    BY <1>2, <1>7
  <2>2. CASE \E o \in Packages : /\ f \in Needs[o] /\ package_is_installed(o)
                                 /\ proc[r].at = "unlink" => o # proc[r].package
    BY <1>5, <2>2
  <2>3. CASE /\ proc[r].at = "merge"
             /\ \E o \in Packages : /\ f \in Needs[o]
                                    /\ \A g \in Needs[o] : Present(g) \/ g \in proc[r].todo
    <3>1. PICK o \in Packages : /\ f \in Needs[o]
                                /\ \A g \in Needs[o] : Present(g) \/ g \in proc[r].todo
      BY <2>3
    <3>2. \A g \in Needs[o] : Present(g)' \/ g \in proc[r].todo
      BY <1>2, <1>5, <3>1
    <3>. QED
      BY <2>3, <3>1, <3>2
  <2>. QED
    BY <2>1, <2>2, <2>3 DEF Accounted
<1>. QED
  BY <1>1, <1>6, <1>7 DEF Accounted

\* A directory in which nobody works stays settled when nothing in it changes.
LEMMA SettledElsewhere ==
    ASSUME NEW p \in Packages, Settled(p), Quiet(p)' => Quiet(p),
           Quiet(p)' => \A o \in Packages :
               Target[o] = Target[p] => \A f \in Needs[o] : disk'[f] = disk[f]
    PROVE  Settled(p)'
<1>. SUFFICES ASSUME Quiet(p)', NEW f \in Needs[p], Present(f)'
              PROVE  \E o \in Packages : f \in Needs[o] /\ package_is_installed(o)'
  BY DEF Settled
<1>1. Present(f)
  BY DEF Present
<1>2. PICK o \in Packages : f \in Needs[o] /\ package_is_installed(o)
  BY <1>1 DEF Settled
<1>3. package_is_installed(o)'
  BY <1>2, DirectoryOfFile, PackageElsewhere
<1>. QED
  BY <1>2, <1>3

LEMMA SameAccounted == FilesAccounted /\ UNCHANGED <<disk, proc>> => FilesAccounted'
  BY DEF FilesAccounted, Accounted, Here, Settled, Quiet, Busy, Declared, Present,
         package_is_installed

\* The process that starts is the only one in its directory, where all was settled.
LEMMA LaunchAccounted ==
    ASSUME FilesType, TidyInv, FilesAccounted, Apart', NEW q \in Procs, NEW op,
           NEW p \in Packages, NEW overwrite, Launch(q, op, p, overwrite)
    PROVE  FilesAccounted'
<1>1. /\ proc[q].at = "away" /\ disk' = disk
      /\ proc'[q] = [at |-> "begin", op |-> op, package |-> p, overwrite |-> overwrite, todo |-> {}]
      /\ \A r \in Procs \ {q} : proc'[r] = proc[r]
  BY DEF Launch, FilesType
<1>2. proc'[q].at = "begin" /\ proc'[q].package = p
  BY <1>1
<1>3. /\ \A f : Present(f)' <=> Present(f)
      /\ \A o : package_is_installed(o)' <=> package_is_installed(o)
  BY <1>1 DEF Present, package_is_installed
<1>4. ~Busy(q) /\ Busy(q)' /\ \A r \in Procs \ {q} : Busy(r)' <=> Busy(r)
  BY <1>1, <1>2 DEF Busy
<1>5. ASSUME NEW o \in Packages PROVE Settled(o)'
  <2>1. Quiet(o)' => Quiet(o)
    BY <1>1, <1>4 DEF Quiet
  <2>2. Settled(o)
    BY DEF FilesAccounted
  <2>. QED
    BY <1>1, <2>1, <2>2, SettledElsewhere
<1>6. Accounted(q)'
  <2>1. ASSUME NEW o \in Packages, Target[o] = Target[p] PROVE Quiet(o)
    <3>1. \A r \in Procs \ {q} : Busy(r) => Target[proc[r].package] # Target[p]
      BY <1>1, <1>2, <1>4 DEF Apart
    <3>. QED
      BY <1>4, <2>1, <3>1 DEF Quiet
  <2>2. ASSUME NEW f \in Here(q)', Present(f)'
        PROVE  \E o \in Packages : f \in Needs[o] /\ package_is_installed(o)'
    <3>1. PICK o \in Packages : f \in Needs[o] /\ Target[o] = Target[p]
      BY <1>2 DEF Here
    <3>2. Settled(o)
      BY DEF FilesAccounted
    <3>. QED
      BY <1>3, <2>1, <2>2, <3>1, <3>2 DEF Settled
  <2>. QED
    BY <1>2, <2>2 DEF Accounted
<1>7. ASSUME NEW r \in Procs \ {q}, Busy(r)' PROVE Accounted(r)'
  <2>1. Accounted(r) /\ Tidy(r)
    BY <1>4, <1>7 DEF FilesAccounted, TidyInv
  <2>. QED
    BY <1>1, <2>1, AccountedElsewhere
<1>8. Declared'
  BY <1>3 DEF FilesAccounted, Declared
<1>. QED
  BY <1>5, <1>6, <1>7, <1>8 DEF FilesAccounted

\* A command that ended leaves its directory settled.
LEMMA ReapAccounted ==
    ASSUME FilesType, TidyInv, Apart, FilesAccounted, NEW q \in Procs, Reap(q), disk' = disk
    PROVE  FilesAccounted'
<1>. DEFINE new == [proc[q] EXCEPT !.at = "away", !.todo = {}]
<1>1. proc[q].at \in Ended /\ proc'[q] = new /\ \A r \in Procs \ {q} : proc'[r] = proc[r]
  BY DEF Reap, FilesType
<1>2. proc'[q].at = "away" /\ proc[q].package \in Packages
  BY <1>1 DEF FilesType, Process
<1>3. /\ \A f : Present(f)' <=> Present(f)
      /\ \A o : package_is_installed(o)' <=> package_is_installed(o)
  BY DEF Present, package_is_installed
<1>4. Busy(q) /\ ~Busy(q)' /\ \A r \in Procs \ {q} : Busy(r)' <=> Busy(r)
  BY <1>1, <1>2 DEF Busy, Ended
<1>5. ASSUME NEW o \in Packages PROVE Settled(o)'
  <2>1. CASE Target[o] = Target[proc[q].package]
    <3>1. ASSUME NEW f \in Needs[o], Present(f)
          PROVE  \E p \in Packages : f \in Needs[p] /\ package_is_installed(p)
      <4>1. f \in Here(q)
        BY <2>1, PackagesAssumption DEF Here
      <4>2. Accounted(q) /\ proc[q].at \notin {"merge", "unlink"}
        BY <1>1, <1>4 DEF FilesAccounted, Ended
      <4>. QED
        BY <3>1, <4>1, <4>2 DEF Accounted
    <3>. QED
      BY <1>3, <3>1 DEF Settled
  <2>2. CASE Target[o] # Target[proc[q].package]
    <3>1. Quiet(o)' => Quiet(o)
      BY <1>1, <1>4, <2>2 DEF Quiet
    <3>2. Settled(o)
      BY DEF FilesAccounted
    <3>. QED
      BY <3>1, <3>2, SettledElsewhere
  <2>. QED
    BY <2>1, <2>2
<1>6. ASSUME NEW r \in Procs, Busy(r)' PROVE Accounted(r)'
  <2>1. r # q /\ Accounted(r) /\ Tidy(r)
    BY <1>4, <1>6 DEF FilesAccounted, TidyInv
  <2>. QED
    BY <1>1, <2>1, AccountedElsewhere
<1>7. Declared'
  BY <1>3 DEF FilesAccounted, Declared
<1>. QED
  BY <1>5, <1>6, <1>7 DEF FilesAccounted

\* A step of one process in its directory.
LEMMA StepAccounted ==
    ASSUME FilesInv, TidyInv, Apart, FilesAccounted, NEW q \in Procs, Work(q) \/ RemoteFails(q)
    PROVE  FilesAccounted'
<1>0. FilesType /\ Tidy(q)
  BY DEF FilesInv, TidyInv
<1>1. /\ Busy(q) /\ Busy(q)' /\ proc'[q].package = proc[q].package
      /\ \A f \in Files \ Own(q) : disk'[f] = disk[f]
      /\ \A r \in Procs \ {q} : proc'[r] = proc[r]
  BY <1>0, TouchesItsOwn DEF Tidy
<1>2. proc[q].package \in Packages /\ \A o \in Packages : Needs[o] \subseteq Files
  BY <1>0, OneProcess, PackagesAssumption
<1>3. ASSUME NEW o \in Packages, Target[o] # Target[proc[q].package]
      PROVE  \A f \in Needs[o] : disk'[f] = disk[f]
  <2>1. Needs[o] \cap Own(q) = {}
    BY <1>2, <1>3, DirectoryOfFile DEF Own
  <2>. QED
    BY <1>1, <1>2, <2>1
<1>4. \A r \in Procs : (Busy(r)' <=> Busy(r)) /\ proc'[r].package = proc[r].package
  BY <1>1 DEF Busy
<1>5. ASSUME NEW o \in Packages PROVE Settled(o)'
  <2>1. Quiet(o)' => Quiet(o)
    BY <1>4 DEF Quiet
  <2>2. Quiet(o)' => Target[o] # Target[proc[q].package]
    BY <1>1, <1>4 DEF Quiet
  <2>3. Settled(o)
    BY DEF FilesAccounted
  <2>. QED
    BY <1>3, <2>1, <2>2, <2>3, SettledElsewhere
<1>6. Accounted(q)'
  BY <1>0, <1>1, WorkAccounted DEF FilesAccounted
<1>7. ASSUME NEW r \in Procs \ {q}, Busy(r)' PROVE Accounted(r)'
  <2>1. Accounted(r) /\ Tidy(r)
    BY <1>4, <1>7 DEF FilesAccounted, TidyInv
  <2>2. Target[proc[r].package] # Target[proc[q].package]
    BY <1>1, <1>4, <1>7 DEF Apart
  <2>3. \A f \in Here(r) : disk'[f] = disk[f]
    BY <1>3, <2>2 DEF Here
  <2>. QED
    BY <1>0, <1>1, <2>1, <2>3, AccountedElsewhere
<1>8. Declared'
  <2>. SUFFICES ASSUME NEW f \in Files, Present(f)' PROVE \E p \in Packages : f \in Needs[p]
    BY DEF Declared
  <2>1. CASE f \in Own(q)
    BY <1>2, <2>1 DEF Own
  <2>2. CASE f \notin Own(q)
    BY <1>1, <2>2 DEF FilesAccounted, Declared, Present
  <2>. QED
    BY <2>1, <2>2
<1>. QED
  BY <1>5, <1>6, <1>7, <1>8 DEF FilesAccounted

-----------------------------------------------------------------------------
(* Processes that never work in one directory at the same time.            *)

ApartInv == FilesInv /\ RestType /\ TidyInv /\ FilesAccounted

\* Nothing is there to begin with.
LEMMA InitAccounted == Init => FilesAccounted
<1>. SUFFICES ASSUME Init PROVE FilesAccounted
  OBVIOUS
<1>1. /\ \A f \in Files : ~Present(f)
      /\ \A q \in Procs : ~Busy(q)
      /\ \A p \in Packages : Needs[p] \subseteq Files
  BY PackagesAssumption DEF Init, Empty, Present, Busy
<1>. QED
  BY <1>1 DEF FilesAccounted, Settled, Declared

LEMMA ApartInit == Init => ApartInv
  BY FilesInit, InitTidy, InitAccounted DEF Init, RestType, ApartInv

LEMMA ApartStep == ApartInv /\ Apart /\ Apart' /\ [Next]_vars => ApartInv'
<1>. SUFFICES ASSUME ApartInv, Apart, Apart', [Next]_vars PROVE ApartInv'
  OBVIOUS
<1>0. FilesInv /\ FilesType /\ TidyInv /\ FilesAccounted /\ FilesInv' /\ RestType'
  BY FilesInductive DEF ApartInv, FilesInv
<1>1. CASE UNCHANGED <<disk, staging, proc>>
  <2>1. TidyInv'
    BY <1>0, <1>1, SameForOne DEF TidyInv
  <2>2. FilesAccounted'
    BY <1>0, <1>1, SameAccounted
  <2>. QED
    BY <1>0, <2>1, <2>2 DEF ApartInv
<1>2. ASSUME NEW q \in Procs, NEW op \in Ops, NEW p \in Packages, NEW overwrite \in BOOLEAN,
             Launch(q, op, p, overwrite)
      PROVE  ApartInv'
  BY <1>0, <1>2, LaunchTidy, LaunchAccounted DEF ApartInv
<1>3. ASSUME NEW q \in Procs, Reap(q), UNCHANGED <<disk, manifest, staging, orphans, marker>>
      PROVE  ApartInv'
  BY <1>0, <1>3, ReapTidy, ReapAccounted DEF ApartInv
<1>4. ASSUME NEW q \in Procs, Work(q) \/ RemoteFails(q) PROVE ApartInv'
  BY <1>0, <1>4, TidyStep, StepAccounted DEF ApartInv
<1>5. ASSUME NEW p \in Packages, Cancel(p) PROVE ApartInv'
  BY <1>1, <1>5 DEF Cancel
<1>. QED
  BY <1>1, <1>2, <1>3, <1>4, <1>5 DEF Next, Shell, vars

LEMMA ApartInvariant == Spec /\ []Apart => []ApartInv
  BY ApartInit, ApartStep, PTL DEF Spec

\* One shell is apart from itself, whatever it runs.
LEMMA OneShellIsApart == (\E q : Procs = {q}) => Apart
  BY DEF Apart

\* An install that exits with success has left every file of the package in place, with any
\* number of processes, of which those that work in one directory at the same time only
\* add files to it: precisions of one family can be downloaded beside each other.
THEOREM InstallsAreComplete == Spec /\ []Alongside => []InstallIsComplete
<1>. DEFINE Inv == FilesInv /\ RestType /\ GathersInv
<1>1. Init => Inv
  BY FilesInit, InitTidy, TidyGathers DEF Init, RestType
<1>2. ASSUME Inv, Alongside, [Next]_vars PROVE Inv'
  <2>0. FilesInv /\ FilesType /\ GathersInv /\ FilesInv' /\ RestType'
    BY <1>2, FilesInductive DEF FilesInv
  <2>1. CASE UNCHANGED <<disk, staging, proc>>
    <3>1. \A f : Present(f)' <=> Present(f)
      BY <2>1 DEF Present
    <3>. QED
      BY <2>0, <2>1, <3>1, KeptForOne DEF GathersInv
  <2>2. ASSUME NEW q \in Procs, NEW op, NEW p, NEW overwrite, Launch(q, op, p, overwrite)
        PROVE  Inv'
    BY <2>0, <2>2, LaunchGathers
  <2>3. ASSUME NEW q \in Procs, Reap(q), UNCHANGED <<disk, manifest, staging, orphans, marker>>
        PROVE  Inv'
    BY <2>0, <2>3, ReapGathers
  <2>4. ASSUME NEW q \in Procs, Work(q) \/ RemoteFails(q) PROVE Inv'
    BY <2>0, <1>2, <2>4, GathersStep
  <2>5. ASSUME NEW p \in Packages, Cancel(p) PROVE Inv'
    BY <2>1, <2>5 DEF Cancel
  <2>. QED
    BY <1>2, <2>1, <2>2, <2>3, <2>4, <2>5 DEF Next, Shell, vars
<1>3. Inv => InstallIsComplete
  BY GathersInstalls
<1>. QED
  BY <1>1, <1>2, <1>3, PTL DEF Spec

\* While no command is between its start and its end, every file has its package.
LEMMA AccountedFiles == FilesAccounted => NoStrandedFiles
<1>. SUFFICES ASSUME FilesAccounted, \A q \in Procs : proc[q].at \notin Running,
                     NEW f \in Files, Present(f)
              PROVE  \E p \in Packages : f \in Needs[p] /\ package_is_installed(p)
  BY DEF NoStrandedFiles
<1>1. PICK o \in Packages : f \in Needs[o]
  BY DEF FilesAccounted, Declared
<1>2. CASE Quiet(o)
  BY <1>1, <1>2 DEF FilesAccounted, Settled
<1>3. CASE ~Quiet(o)
  <2>1. PICK q \in Procs : Busy(q) /\ Target[proc[q].package] = Target[o]
    BY <1>3 DEF Quiet
  <2>2. f \in Here(q)
    BY <1>1, <2>1 DEF Here
  <2>3. Accounted(q) /\ proc[q].at \notin {"merge", "unlink"}
    BY <2>1 DEF FilesAccounted, Running
  <2>. QED
    BY <2>2, <2>3 DEF Accounted
<1>. QED
  BY <1>2, <1>3

\* Between their commands every file that is there belongs to a package that is installed.
THEOREM NothingIsStranded == Spec /\ []Apart => []NoStrandedFiles
<1>1. ApartInv => NoStrandedFiles
  BY AccountedFiles DEF ApartInv
<1>. QED
  BY <1>1, ApartInvariant, PTL

\* No step of a removal uninstalls another package, as long as nobody else works in the
\* directory: the run package_removal_race shows what happens if somebody does.
THEOREM SiblingsAreKept == Spec /\ []Apart => SiblingsStayInstalled
<1>1. ApartInv /\ [Next]_vars =>
         [\A q \in Procs, o \in Packages :
             /\ proc[q].at = "unlink" /\ proc'[q] # proc[q]
             /\ o # proc[q].package /\ package_is_installed(o)
             => package_is_installed(o)']_vars
  <2>. SUFFICES ASSUME ApartInv, Next, NEW q \in Procs, NEW o \in Packages,
                       proc[q].at = "unlink", proc'[q] # proc[q],
                       o # proc[q].package, package_is_installed(o)
                PROVE  package_is_installed(o)'
    OBVIOUS
  <2>0. FilesInv /\ FilesType /\ TidyInv /\ Tidy(q) /\ Accounted(q)
    BY DEF ApartInv, FilesInv, TidyInv, FilesAccounted, Busy
  <2>1. CASE UNCHANGED disk
    BY <2>1 DEF package_is_installed, Present
  <2>2. CASE Work(q) \/ RemoteFails(q)
    <3>1. Removes(q) \/ disk' = disk
      BY <2>0, <2>2, Shapes
         DEF Prepares, Renames, StartsMoving, Replaces, Moves, HasMoved, Finishes,
             StartsRemoving, HasRemoved
    <3>2. CASE Removes(q)
      <4>1. PICK f \in proc[q].todo : disk' = [disk EXCEPT ![f] = "absent"]
        BY <3>2 DEF Removes
      <4>2. f \notin Needs[o]
        BY <2>0, <4>1 DEF Accounted
      <4>3. \A g \in Needs[o] : Present(g)'
        BY <2>0, <4>1, <4>2 DEF package_is_installed, Present, FilesType
      <4>. QED
        BY <4>3 DEF package_is_installed
    <3>. QED
      BY <2>1, <3>1, <3>2
  <2>3. ASSUME NEW r \in Procs, Work(r) \/ RemoteFails(r) PROVE r = q
    <3>1. Tidy(r)
      BY <2>0 DEF TidyInv
    <3>. QED
      BY <2>0, <2>3, <3>1, TouchesItsOwn DEF Tidy
  <2>4. ASSUME NEW r \in Procs, Shell(r) PROVE UNCHANGED disk
    BY <2>4 DEF Shell, Launch
  <2>5. ASSUME NEW p \in Packages, Cancel(p) PROVE UNCHANGED disk
    BY <2>5 DEF Cancel
  <2>. QED
    BY <2>1, <2>2, <2>3, <2>4, <2>5 DEF Next
<1>. QED
  BY <1>1, ApartInvariant, PTL DEF Spec, SiblingsStayInstalled
=============================================================================
