--------------------------- MODULE PackageManager ---------------------------
(***************************************************************************)
(* The package commands of tools/model_manager_v2.py - install, uninstall  *)
(* and clean-partial - as processes that share one models root.            *)
(*                                                                         *)
(* Nothing locks the models root.  An install downloads into a staging     *)
(* directory of its own and then moves the files to the package's target   *)
(* directory, which packages of one family share: variants in another      *)
(* precision, with files in common.                                        *)
(*                                                                         *)
(* A file is its output path, and its content is absent, part of the       *)
(* remote file or all of it.  Packages that have a file in common have the *)
(* same download record, as in every specification the repository ships.   *)
(* A step is a system call, or a run of calls that only reads.             *)
(***************************************************************************)
EXTENDS Integers, FiniteSets

CONSTANTS
    Procs,      \* processes that run package commands
    Packages,   \* package ids
    Files,      \* output paths
    Needs,      \* package id -> the files it declares
    Target,     \* package id -> its target directory
    NoDir       \* a staging directory that does not exist

ASSUME PackagesAssumption ==
    /\ Needs \in [Packages -> (SUBSET Files) \ {{}}]
    /\ DOMAIN Target = Packages
    /\ \A p, o \in Packages : Needs[p] \cap Needs[o] # {} => Target[p] = Target[o]
    /\ NoDir \notin [Files -> {"absent", "part", "whole"}]

VARIABLES
    disk,       \* the content of each output path
    manifest,   \* packages with a manifest in their target directory
    staging,    \* the staging directory of each process
    orphans,    \* target directories with an abandoned staging directory
    marker,     \* packages whose cancel file exists
    proc        \* what each process runs and where it is

vars == <<disk, manifest, staging, orphans, marker, proc>>

Content == {"absent", "part", "whole"}
Ops     == {"install", "uninstall", "clean-partial"}
Ended   == {"ok", "failed"}
Running == {"begin", "stage", "fetch", "file", "merge", "manifest", "unlink"}
Downloading == {"fetch", "file", "merge"}

Empty == [f \in Files |-> "absent"]
Present(f) == disk[f] # "absent"
Staged(q) == IF staging[q] = NoDir THEN {} ELSE {f \in Files : staging[q][f] # "absent"}

package_is_installed(p) == \A f \in Needs[p] : Present(f)

\* Mutated: files of any other package that declares them are taken as shared.
ReusableUninstalled(p) ==
    {f \in Needs[p] : \E o \in Packages \ {p} : f \in Needs[o]}

\* reusable_package_outputs: files p shares with another installed package.
Reusable(p) ==
    {f \in Needs[p] : \E o \in Packages \ {p} : f \in Needs[o] /\ package_is_installed(o)}

\* A target directory exists while it holds a file or a manifest.
TargetExists(p) ==
    \E o \in Packages : /\ Target[o] = Target[p]
                        /\ o \in manifest \/ \E f \in Needs[o] : Present(f)

Init ==
    /\ disk = Empty
    /\ manifest = {}
    /\ staging = [q \in Procs |-> NoDir]
    /\ orphans = {}
    /\ marker = {}
    /\ \E p \in Packages :
          proc = [q \in Procs |-> [at |-> "away", op |-> "install", package |-> p,
                                   overwrite |-> FALSE, todo |-> {}]]

Goto(q, from, to) == proc[q].at = from /\ proc' = [proc EXCEPT ![q].at = to]

\* The staging directory is removed and the command exits with an error.
Fail(q) ==
    /\ staging' = [staging EXCEPT ![q] = NoDir]
    /\ proc' = [proc EXCEPT ![q].at = "failed"]
    /\ UNCHANGED <<disk, manifest, orphans, marker>>

\* main: the command line.
Launch(q, op, p, overwrite) ==
    /\ proc[q].at = "away"
    /\ proc' = [proc EXCEPT ![q] = [at |-> "begin", op |-> op, package |-> p,
                                    overwrite |-> overwrite, todo |-> {}]]
    /\ UNCHANGED <<disk, manifest, staging, orphans>>

\* The parent process has the exit status.
Reap(q) ==
    /\ proc[q].at \in Ended
    /\ proc' = [proc EXCEPT ![q].at = "away", ![q].todo = {}]

-----------------------------------------------------------------------------
(* install                                                                  *)

\* Mutated: one file of the package is enough to call it installed.
InstallCheckAny(q) ==
    /\ proc[q].at = "begin" /\ proc[q].op = "install"
    /\ IF proc[q].overwrite \/ \A f \in Needs[proc[q].package] : ~Present(f)
       THEN proc' = [proc EXCEPT ![q].at = "stage", ![q].todo = Needs[proc[q].package]]
       ELSE Goto(q, "begin", "ok")
    /\ UNCHANGED <<disk, manifest, staging, orphans, marker>>

\* What is there already decides what has to be downloaded.
InstallCheck(q) ==
    LET p == proc[q].package
        existing == {f \in Needs[p] : Present(f)} IN
    /\ proc[q].at = "begin" /\ proc[q].op = "install"
    /\ \/ /\ existing = {} \/ proc[q].overwrite
          /\ proc' = [proc EXCEPT ![q].at = "stage", ![q].todo = Needs[p]]
       \/ /\ existing = Needs[p] /\ ~proc[q].overwrite
          /\ Goto(q, "begin", "ok")
       \/ /\ existing \notin {{}, Needs[p]} /\ ~proc[q].overwrite
          /\ existing \subseteq Reusable(p)
          /\ proc' = [proc EXCEPT ![q].at = "stage", ![q].todo = Needs[p] \ Reusable(p)]
       \/ /\ existing \notin {{}, Needs[p]} /\ ~proc[q].overwrite
          /\ ~(existing \subseteq Reusable(p))
          /\ Goto(q, "begin", "failed")
    /\ UNCHANGED <<disk, manifest, staging, orphans, marker>>

\* tempfile.mkdtemp: a name of the process's own.
MakeStaging(q) ==
    /\ Goto(q, "stage", "fetch")
    /\ staging' = [staging EXCEPT ![q] = Empty]
    /\ UNCHANGED <<disk, manifest, orphans, marker>>

\* The cancel file is looked at before the download, between its chunks and after it.
SeeMarker(q) ==
    /\ proc[q].at \in {"fetch", "file"}
    /\ proc[q].package \in marker
    /\ Fail(q)

\* A remote file is not accessible, or its download has not the size expected.
RemoteFails(q) ==
    /\ proc[q].at \in {"fetch", "file"}
    /\ Fail(q)

\* download_file opens its output, and makes the directories it is in.
OpenFile(q) ==
    \E f \in proc[q].todo :
        /\ Goto(q, "fetch", "file")
        /\ staging' = [staging EXCEPT ![q] =
                          [(IF @ = NoDir THEN Empty ELSE @) EXCEPT ![f] = "part"]]
        /\ UNCHANGED <<disk, manifest, orphans, marker>>

Current(q) == {f \in proc[q].todo : f \in Staged(q)}

\* Mutated: the size of the download is not compared.
CloseFileShort(q) ==
    /\ proc[q].at = "file" /\ Current(q) # {}
    /\ proc' = [proc EXCEPT ![q].at = "fetch", ![q].todo = @ \ Current(q)]
    /\ UNCHANGED <<disk, manifest, staging, orphans, marker>>

\* The download is complete and its size is read for the progress report, which
\* fails if the file has been removed meanwhile.
CloseFile(q) ==
    /\ proc[q].at = "file"
    /\ \/ /\ Current(q) # {}
          /\ proc' = [proc EXCEPT ![q].at = "fetch", ![q].todo = @ \ Current(q)]
          /\ staging' = [staging EXCEPT ![q] =
                [f \in Files |-> IF f \in Current(q) THEN "whole" ELSE @[f]]]
          /\ UNCHANGED <<disk, manifest, orphans, marker>>
       \/ /\ Current(q) = {}
          /\ Fail(q)

\* Everything is downloaded.  A new target directory is the staging directory
\* renamed; into one that exists the staged files are moved one by one.
BeginMerge(q) ==
    LET p == proc[q].package IN
    /\ proc[q].at = "fetch" /\ proc[q].todo = {} /\ p \notin marker
    /\ \/ /\ ~TargetExists(p) /\ staging[q] # NoDir
          /\ disk' = [f \in Files |-> IF f \in Staged(q) THEN staging[q][f] ELSE disk[f]]
          /\ staging' = [staging EXCEPT ![q] = NoDir]
          /\ Goto(q, "fetch", "manifest")
          /\ UNCHANGED <<manifest, orphans, marker>>
       \/ /\ ~TargetExists(p) /\ staging[q] = NoDir
          /\ Fail(q)
       \/ /\ TargetExists(p)
          /\ proc' = [proc EXCEPT ![q].at = "merge", ![q].todo = Staged(q)]
          /\ UNCHANGED <<disk, manifest, staging, orphans, marker>>

\* One staged file: what an overwrite replaces is unlinked first.
MergeFile(q) ==
    /\ proc[q].at = "merge"
    /\ \E f \in proc[q].todo :
          \/ /\ Present(f) /\ proc[q].overwrite
             /\ disk' = [disk EXCEPT ![f] = "absent"]
             /\ UNCHANGED <<manifest, staging, orphans, marker, proc>>
          \/ /\ ~Present(f) /\ f \in Staged(q)
             /\ disk' = [disk EXCEPT ![f] = staging[q][f]]
             /\ staging' = [staging EXCEPT ![q][f] = "absent"]
             /\ proc' = [proc EXCEPT ![q].todo = @ \ {f}]
             /\ UNCHANGED <<manifest, orphans, marker>>
          \/ /\ IF Present(f) THEN ~proc[q].overwrite ELSE f \notin Staged(q)
             /\ Fail(q)

\* The staging directory is removed, which fails if it is gone.
EndMerge(q) ==
    /\ proc[q].at = "merge" /\ proc[q].todo = {}
    /\ \/ /\ staging[q] # NoDir
          /\ staging' = [staging EXCEPT ![q] = NoDir]
          /\ Goto(q, "merge", "manifest")
          /\ UNCHANGED <<disk, manifest, orphans, marker>>
       \/ /\ staging[q] = NoDir
          /\ Fail(q)

\* write_package_manifest: a temporary file renamed.
WriteManifest(q) ==
    /\ Goto(q, "manifest", "ok")
    /\ manifest' = manifest \cup {proc[q].package}
    /\ UNCHANGED <<disk, staging, orphans, marker>>

-----------------------------------------------------------------------------
(* uninstall                                                                *)

\* Mutated: shared files are removed too.
UninstallAll(q) ==
    LET existing == {f \in Needs[proc[q].package] : Present(f)} IN
    /\ proc[q].at = "begin" /\ proc[q].op = "uninstall"
    /\ IF existing = {} THEN Goto(q, "begin", "failed")
       ELSE proc' = [proc EXCEPT ![q].at = "unlink", ![q].todo = existing]
    /\ UNCHANGED <<disk, manifest, staging, orphans, marker>>

\* The files to remove are those no other installed package shares.
UninstallCheck(q) ==
    LET p == proc[q].package
        existing == {f \in Needs[p] : Present(f)} IN
    /\ proc[q].at = "begin" /\ proc[q].op = "uninstall"
    /\ IF existing = {} THEN Goto(q, "begin", "failed")
       ELSE proc' = [proc EXCEPT ![q].at = "unlink", ![q].todo = existing \ Reusable(p)]
    /\ UNCHANGED <<disk, manifest, staging, orphans, marker>>

\* A file that is gone already makes unlink fail.
UnlinkFile(q) ==
    /\ proc[q].at = "unlink"
    /\ \E f \in proc[q].todo :
          \/ /\ Present(f)
             /\ disk' = [disk EXCEPT ![f] = "absent"]
             /\ proc' = [proc EXCEPT ![q].todo = @ \ {f}]
             /\ UNCHANGED <<manifest, staging, orphans, marker>>
          \/ /\ ~Present(f)
             /\ Fail(q)

\* The manifest goes last, with the directories left empty.
EndUninstall(q) ==
    /\ proc[q].todo = {}
    /\ Goto(q, "unlink", "ok")
    /\ manifest' = manifest \ {proc[q].package}
    /\ UNCHANGED <<disk, staging, orphans, marker>>

-----------------------------------------------------------------------------
(* clean-partial                                                            *)

\* Every staging directory of the package's target directory is removed, whoever
\* uses it: its name does not tell.
CleanPartial(q) ==
    LET p == proc[q].package IN
    /\ proc[q].op = "clean-partial"
    /\ Goto(q, "begin", "ok")
    /\ staging' = [r \in Procs |->
                      IF Target[proc[r].package] = Target[p] THEN NoDir ELSE staging[r]]
    /\ orphans' = orphans \ {Target[p]}
    /\ UNCHANGED <<disk, manifest, marker>>

-----------------------------------------------------------------------------
\* What a process does of itself.
Work(q) ==
    \/ InstallCheck(q) \/ MakeStaging(q) \/ SeeMarker(q) \/ OpenFile(q) \/ CloseFile(q)
    \/ BeginMerge(q) \/ MergeFile(q) \/ EndMerge(q) \/ WriteManifest(q)
    \/ UninstallCheck(q) \/ UnlinkFile(q) \/ EndUninstall(q) \/ CleanPartial(q)

\* The process is killed: what it staged is abandoned.  Next leaves this out, since
\* the properties of this module are about commands that run to their end; the
\* processes of ModelInstaller are killed.
Crash(q) ==
    /\ proc[q].at \in Running
    /\ orphans' = IF staging[q] = NoDir THEN orphans
                  ELSE orphans \cup {Target[proc[q].package]}
    /\ staging' = [staging EXCEPT ![q] = NoDir]
    /\ proc' = [proc EXCEPT ![q].at = "failed"]
    /\ UNCHANGED <<disk, manifest, marker>>

\* Whoever runs a command with --cancel-file may create that file, or remove it.
Cancel(p) ==
    /\ marker' \in {marker \cup {p}, marker \ {p}}
    /\ UNCHANGED <<disk, manifest, staging, orphans, proc>>

\* A shell runs one command after the other.
Shell(q) ==
    \/ \E op \in Ops, p \in Packages, overwrite \in BOOLEAN :
          /\ overwrite => op = "install"
          /\ Launch(q, op, p, overwrite)
          /\ UNCHANGED marker
    \/ Reap(q) /\ UNCHANGED <<disk, manifest, staging, orphans, marker>>

Next ==
    \/ \E q \in Procs : Shell(q) \/ Work(q) \/ RemoteFails(q)
    \/ \E p \in Packages : Cancel(p)

Spec == Init /\ [][Next]_vars

-----------------------------------------------------------------------------
TypeOK ==
    /\ disk \in [Files -> Content]
    /\ manifest \subseteq Packages
    /\ staging \in [Procs -> [Files -> Content] \cup {NoDir}]
    /\ orphans \subseteq {Target[p] : p \in Packages}
    /\ marker \subseteq Packages
    /\ proc \in [Procs -> [at : {"away"} \cup Running \cup Ended, op : Ops,
                           package : Packages, overwrite : BOOLEAN, todo : SUBSET Files]]

\* A target directory never holds a file that was not downloaded to its end,
\* however processes interleave and wherever they are killed (staging, and the
\* size check of download_file).
OnlyWholeFilesInstalled == \A f \in Files : disk[f] # "part"

\* An install that exits with success has left every file of the package in place.
InstallIsComplete ==
    \A q \in Procs : proc[q].at = "ok" /\ proc[q].op = "install"
                        => package_is_installed(proc[q].package)

\* No step of a removal uninstalls another package: a file shared with an installed
\* package is kept until the last package that declares it is removed
\* (docs/model_manager.md:99-101).
SiblingsStayInstalled ==
    [][\A q \in Procs, o \in Packages :
          /\ proc[q].at = "unlink" /\ proc'[q] # proc[q]
          /\ o # proc[q].package /\ package_is_installed(o)
          => package_is_installed(o)']_vars

\* Between commands every file in a target directory belongs to a package that is
\* installed: a failed, cancelled or refused install leaves nothing behind that
\* would make the next one refuse to run.
NoStrandedFiles ==
    (\A q \in Procs : proc[q].at \notin Running) =>
        \A f \in Files : Present(f) =>
            \E p \in Packages : f \in Needs[p] /\ package_is_installed(p)
=============================================================================
