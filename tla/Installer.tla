----------------------------- MODULE Installer ------------------------------
(***************************************************************************)
(* The managed runtime cache (internal/runtimebin): Install, Remove and     *)
(* the resolver's use of the cache, for one version and target.  Installers *)
(* are processes that share a directory: each takes a lock file, verifies   *)
(* what is installed, unpacks the archive into a directory of its own and   *)
(* renames it into place.  A process may die at any step; a lock file that  *)
(* has become old is removed by whoever waits for it.                       *)
(***************************************************************************)
EXTENDS Naturals, FiniteSets

CONSTANTS
    Installers,      \* processes calling Install, once each
    Removers,        \* processes calling Remove, once each
    Nobody,
    SlowInstalls,    \* may a lock get old while its owner is alive?
    OldRoots         \* what the install root may be in the beginning

\* What a root directory may hold: all the files of the manifest, only some of
\* them but the executable, or only some without it.
Whole == "whole"
Broken == {"partial", "stripped"}
Roots == {"absent", Whole} \cup Broken

ASSUME InstallerAssumption ==
    /\ Nobody \notin Installers /\ SlowInstalls \in BOOLEAN
    /\ OldRoots \subseteq Roots /\ OldRoots # {}

VARIABLES
    lockFile,   \* who created the lock file, Nobody if there is none
    lockOld,    \* its modification time is older than StaleLockAfter
    root,       \* the install root
    temp,       \* the staging directory of each installer
    ipc, result, \* the installers
    rpc,        \* the removers
    selected    \* what the last ResolveRuntime found in the root it selected

lockVars == <<lockFile, lockOld>>
installerVars == <<lockVars, root, temp, ipc, result, rpc, selected>>

Proceed(p, label) == ipc' = [ipc EXCEPT ![p] = label] /\ UNCHANGED result

Return(p, label, outcome) ==
    /\ ipc' = [ipc EXCEPT ![p] = label]
    /\ result' = [result EXCEPT ![p] = outcome]

-----------------------------------------------------------------------------
(* acquireLock *)

\* The manifest, its signature and the archive are read from files or downloaded.
ResolveInstallInputs(p) ==
    /\ ipc[p] = "idle"
    /\ Proceed(p, "inputs") \/ Return(p, "done", "refused")
    /\ UNCHANGED <<lockVars, root, temp, rpc, selected>>

\* The signature, the target and the version are accepted or not.
VerifyManifest(p) ==
    /\ ipc[p] = "inputs"
    /\ Proceed(p, "open") \/ Return(p, "done", "refused")
    /\ UNCHANGED <<lockVars, root, temp, rpc, selected>>

\* O_CREATE|O_EXCL
OpenLock(p) ==
    /\ ipc[p] = "open"
    /\ IF lockFile = Nobody
       THEN lockFile' = p /\ lockOld' = FALSE /\ Proceed(p, "verify")
       ELSE Proceed(p, "stat") /\ UNCHANGED lockVars
    /\ UNCHANGED <<root, temp, rpc, selected>>

\* An error other than that the file exists.
OpenFails(p) ==
    /\ ipc[p] = "open"
    /\ Return(p, "done", "error")
    /\ UNCHANGED <<lockVars, root, temp, rpc, selected>>

StatLock(p) ==
    /\ ipc[p] = "stat"
    /\ Proceed(p, IF lockFile # Nobody /\ lockOld THEN "unlink" ELSE "poll")
    /\ UNCHANGED <<lockVars, root, temp, rpc, selected>>

\* os.Remove removes the file that has the name by now.
UnlinkLock(p) ==
    /\ ipc[p] = "unlink"
    /\ lockFile' = Nobody /\ lockOld' = FALSE
    /\ Proceed(p, "open")
    /\ UNCHANGED <<root, temp, rpc, selected>>

Poll(p) ==
    /\ ipc[p] = "poll"
    /\ Proceed(p, "open")
    /\ UNCHANGED <<lockVars, root, temp, rpc, selected>>

PollCancelled(p) ==
    /\ ipc[p] = "poll"
    /\ Return(p, "done", "cancelled")
    /\ UNCHANGED <<lockVars, root, temp, rpc, selected>>

-----------------------------------------------------------------------------
(* Install, with the lock *)

\* Mutant: a root that exists is taken for installed.
VerifyExists(p) ==
    /\ ipc[p] = "verify"
    /\ IF root # "absent" THEN Return(p, "unlock", "ok") ELSE Proceed(p, "stage")
    /\ UNCHANGED <<lockVars, root, temp, rpc, selected>>

\* verifyInstalledRoot compares every file with the manifest.
Verify(p) ==
    /\ ipc[p] = "verify"
    /\ IF root = Whole THEN Return(p, "unlock", "ok") ELSE Proceed(p, "stage")
    /\ UNCHANGED <<lockVars, root, temp, rpc, selected>>

\* os.MkdirTemp
Stage(p) ==
    /\ ipc[p] = "stage"
    /\ temp' = [temp EXCEPT ![p] = "partial"]
    /\ Proceed(p, "extract")
    /\ UNCHANGED <<lockVars, root, rpc, selected>>

\* Mutant: the archive may lack files.
ExtractSome(p) ==
    /\ ipc[p] = "extract"
    /\ Proceed(p, "metadata")
    /\ UNCHANGED <<lockVars, root, temp, rpc, selected>>

\* extractArchive: every file of the manifest with its size and hash, or an error.
Extract(p) ==
    /\ ipc[p] = "extract"
    /\ \/ temp' = [temp EXCEPT ![p] = Whole] /\ Proceed(p, "metadata")
       \/ Return(p, "cleanup", "error") /\ UNCHANGED temp
    /\ UNCHANGED <<lockVars, root, rpc, selected>>

\* writeInstallMetadata: a file the manifest does not name.
WriteInstallMetadata(p) ==
    /\ ipc[p] = "metadata"
    /\ Proceed(p, "rename")
    /\ UNCHANGED <<lockVars, root, temp, rpc, selected>>

\* os.Rename refuses a root that exists.
Rename(p) ==
    /\ ipc[p] = "rename"
    /\ IF root = "absent"
       THEN /\ root' = temp[p]
            /\ temp' = [temp EXCEPT ![p] = "absent"]
            /\ Proceed(p, "check")
       ELSE Proceed(p, "check") /\ UNCHANGED <<root, temp>>
    /\ UNCHANGED <<lockVars, rpc, selected>>

\* verifyInstalledRoot, os.MkdirTemp, os.WriteFile or os.Rename fail: Install returns the error
\* through the calls it has deferred so far.
InstallFails(p) ==
    /\ ipc[p] \in {"verify", "stage", "metadata", "rename", "check"}
    /\ Return(p, IF ipc[p] \in {"verify", "stage"} THEN "unlock" ELSE "cleanup", "error")
    /\ UNCHANGED <<lockVars, root, temp, rpc, selected>>

\* Both ways Install verifies once more what is at the root.
Check(p) ==
    /\ ipc[p] = "check"
    /\ Return(p, "cleanup", IF root = Whole THEN "ok" ELSE "error")
    /\ UNCHANGED <<lockVars, root, temp, rpc, selected>>

\* Mutant: the staging directory is left behind.
CleanupNothing(p) ==
    /\ ipc[p] = "cleanup"
    /\ Proceed(p, "unlock")
    /\ UNCHANGED <<lockVars, root, temp, rpc, selected>>

\* The deferred os.RemoveAll(tempRoot) ...
Cleanup(p) ==
    /\ ipc[p] = "cleanup"
    /\ temp' = [temp EXCEPT ![p] = "absent"]
    /\ Proceed(p, "unlock")
    /\ UNCHANGED <<lockVars, root, rpc, selected>>

\* ... and releaseLock, which removes whatever lock file there is.
Unlock(p) ==
    /\ ipc[p] = "unlock"
    /\ lockFile' = Nobody /\ lockOld' = FALSE
    /\ Proceed(p, "done")
    /\ UNCHANGED <<root, temp, rpc, selected>>

-----------------------------------------------------------------------------
(* Time and death (external) *)

\* Mutant: a lock is never old.
LockNeverAges == FALSE /\ UNCHANGED installerVars

LockAges ==
    /\ lockFile # Nobody /\ ~lockOld
    /\ SlowInstalls \/ ipc[lockFile] = "dead"
    /\ lockOld' = TRUE
    /\ UNCHANGED <<lockFile, root, temp, ipc, result, rpc, selected>>

Dies(p) ==
    /\ ipc[p] \notin {"idle", "done", "dead"}
    /\ Proceed(p, "dead")
    /\ UNCHANGED <<lockVars, root, temp, rpc, selected>>

RemoverDies(r) ==
    /\ rpc[r] = "remove"
    /\ rpc' = [rpc EXCEPT ![r] = "dead"]
    /\ UNCHANGED <<lockVars, root, temp, ipc, result, selected>>

-----------------------------------------------------------------------------
(* Remove, without the lock, and ResolveRuntime *)

RemoveBegin(r) ==
    /\ rpc[r] = "idle"
    /\ rpc' = [rpc EXCEPT ![r] = "remove"]
    /\ UNCHANGED <<lockVars, root, temp, ipc, result, selected>>

\* os.RemoveAll is not atomic: files go one by one, in any order.
RemoveSome(r) ==
    /\ rpc[r] = "remove" /\ root # "absent"
    /\ root' \in (IF root = "stripped" THEN {} ELSE Broken)
    /\ UNCHANGED <<lockVars, temp, ipc, result, rpc, selected>>

RemoveEnd(r) ==
    /\ rpc[r] = "remove"
    /\ root' = "absent"
    /\ rpc' = [rpc EXCEPT ![r] = "done"]
    /\ UNCHANGED <<lockVars, temp, ipc, result, selected>>

\* The managed runtime is selected when its executable exists.
ResolveRuntime ==
    /\ selected' = IF root \in {Whole, "partial"} THEN root ELSE "absent"
    /\ UNCHANGED <<lockVars, root, temp, ipc, result, rpc>>

-----------------------------------------------------------------------------
InstallerInit ==
    /\ lockFile = Nobody /\ lockOld = FALSE
    /\ root \in OldRoots
    /\ temp = [p \in Installers |-> "absent"]
    /\ ipc = [p \in Installers |-> "idle"]
    /\ result = [p \in Installers |-> "none"]
    /\ rpc = [r \in Removers |-> "idle"]
    /\ selected = "absent"

Install(p) ==
    \/ OpenLock(p) \/ StatLock(p) \/ UnlinkLock(p) \/ Poll(p)
    \/ Verify(p) \/ Stage(p) \/ Extract(p) \/ WriteInstallMetadata(p) \/ Rename(p)
    \/ Check(p) \/ Cleanup(p) \/ Unlock(p)

\* What goes wrong with an installer.
Mishap(p) == PollCancelled(p) \/ OpenFails(p) \/ InstallFails(p) \/ Dies(p)

InstallerNext ==
    \/ \E p \in Installers :
          ResolveInstallInputs(p) \/ VerifyManifest(p) \/ Install(p) \/ Mishap(p)
    \/ \E r \in Removers :
          RemoveBegin(r) \/ RemoveSome(r) \/ RemoveEnd(r) \/ RemoverDies(r)
    \/ LockAges
    \/ ResolveRuntime

InstallerSpec == InstallerInit /\ [][InstallerNext]_installerVars

\* Installers that are alive run, and time passes.
InstallerFairness == (\A p \in Installers : WF_installerVars(Install(p))) /\ WF_installerVars(LockAges)

InstallerFairSpec == InstallerSpec /\ InstallerFairness

-----------------------------------------------------------------------------
(* Properties *)

Locked == {"verify", "stage", "extract", "metadata", "rename", "check", "cleanup", "unlock"}

\* Type invariant.
TypeOK ==
    /\ lockFile \in Installers \cup {Nobody} /\ lockOld \in BOOLEAN
    /\ root \in Roots /\ temp \in [Installers -> Roots]
    /\ ipc \in [Installers -> Locked \cup {"idle", "inputs", "open", "stat", "unlink", "poll",
                                          "done", "dead"}]
    /\ result \in [Installers -> {"none", "refused", "cancelled", "ok", "error"}]
    /\ rpc \in [Removers -> {"idle", "remove", "done", "dead"}]
    /\ selected \in Roots

Removing == \E r \in Removers : rpc[r] = "remove"
Untouched == \A r \in Removers : rpc[r] = "idle"

\* "corrupt, truncated ... concurrent-install, and interrupted-install tests fail
\* safely without damaging an existing cache": whatever dies and however many
\* installers believe they hold the lock, the root changes only from nothing to
\* everything, unless a Remove is at work.
InstallsAtomically ==
    [][root' # root /\ ~Removing => root = "absent" /\ root' = Whole]_installerVars

\* "concurrent installs converge on one verified cache": as long as nobody has
\* called Remove, a successful Install has the whole runtime at the root,
\* whoever put it there.
OkMeansInstalled ==
    Untouched => \A p \in Installers : result[p] = "ok" => root = Whole

\* "verified managed cache": what ResolveRuntime selects is a whole runtime.  It does not
\* hold: it looks for the executable alone, and takes no lock while Remove deletes.
SelectedIsWhole == selected \in {"absent", Whole}

\* Installers that return take their staging directory and the lock with them.
NothingLeftBehind ==
    /\ \A p \in Installers : ipc[p] = "done" => temp[p] = "absent"
    /\ (\A p \in Installers : ipc[p] \in {"idle", "done"}) => lockFile = Nobody

\* Installers that wait for a lock whose owner has died do not wait for ever.
InstallsReturn ==
    \A p \in Installers : (ipc[p] = "open") ~> (ipc[p] \in {"done", "dead"})

=============================================================================
