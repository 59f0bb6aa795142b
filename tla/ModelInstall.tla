---------------------------- MODULE ModelInstall -----------------------------
(***************************************************************************)
(* Swapping the model of a running edge device: ModelManager in the MQTT   *)
(* thread (ModelReceiver holds its lock, so one installation at a time),   *)
(* CrowdCounter.count in the inference thread, and the restart of the      *)
(* device from whatever file is then the current one.                      *)
(*                                                                         *)
(* A file is the model it holds, or Torn when writing it was cut short.    *)
(* Copying opens, and so truncates, its target first and fills it later: a *)
(* crash or an OSError in between leaves the target Torn.  A file that     *)
(* passed its SHA-256 need not be one that YOLO can load.                  *)
(***************************************************************************)
EXTENDS Integers

CONSTANTS
    Model,
    Loadable,        \* the models YOLO(path) accepts
    Factory,         \* the model the device is delivered with
    None,            \* no such file; no such model
    Torn,            \* contents of a file written in part
    MaxInstalls,     \* bound on models received
    MaxFailures,     \* bound on exceptions from file operations and YOLO
    MaxCrashes       \* bound on crashes of the device

ASSUME LoadableAssumption == Loadable \subseteq Model /\ Factory \in Loadable
ASSUME NoModelAssumption == None \notin Model /\ Torn \notin Model /\ None # Torn
ASSUME BoundsAssumption == {MaxInstalls, MaxFailures, MaxCrashes} \subseteq Nat

VARIABLES
    sameFileSystem,  \* tempfile's directory is on the file system of models/
    status,    \* of the device: "up", "down", or "failed" to start
    current,   \* models/current/best.pt
    backup,    \* models/backup/best.pt
    loaded,    \* CrowdCounter._model
    paused,    \* CrowdCounter._paused is clear
    pc,        \* of install_new_model and rollback
    incoming,  \* the model at new_model_path, of the latest installation
    infer,     \* the inference thread: waiting for _paused, or predicting
    installs, failures, crashes

diskVars == <<current, backup>>
boundVars == <<installs, failures, crashes>>
vars == <<sameFileSystem, status, diskVars, loaded, paused, pc, incoming, infer, boundVars>>

File == Model \cup {None, Torn}

Init ==
    /\ sameFileSystem \in BOOLEAN
    /\ status = "up"
    /\ current = Factory /\ backup = None
    /\ loaded = Factory
    /\ paused = FALSE
    /\ pc = "idle" /\ incoming = None
    /\ infer = "waiting"
    /\ installs = 0 /\ failures = 0 /\ crashes = 0

-----------------------------------------------------------------------------
(* install_new_model                                                       *)

MoveBeforeBackup == "move"

NextAfterPause == IF current # None THEN "backup" ELSE "move"

(* on_model_ready, up to counter.pause()                                   *)
Install(m) ==
    /\ status = "up" /\ pc = "idle"
    /\ installs < MaxInstalls
    /\ installs' = installs + 1
    /\ incoming' = m
    /\ paused' = TRUE
    /\ pc' = NextAfterPause
    /\ UNCHANGED <<sameFileSystem, status, diskVars, loaded, infer, failures, crashes>>

Goes(from, to) ==
    /\ pc = from
    /\ pc' = to
    /\ UNCHANGED <<sameFileSystem, status, incoming, infer, boundVars>>

BackUpOnce ==
    /\ Goes("backup", IF backup = None THEN "backingUp" ELSE "move")
    /\ backup' = IF backup = None THEN Torn ELSE backup
    /\ UNCHANGED <<current, loaded, paused>>

(* shutil.copy2(current_path, backup_path)                                 *)
OpenBackup ==
    /\ Goes("backup", "backingUp")
    /\ backup' = Torn
    /\ UNCHANGED <<current, loaded, paused>>

FillBackup ==
    /\ Goes("backingUp", "move")
    /\ backup' = current
    /\ UNCHANGED <<current, loaded, paused>>

NeverRename == FALSE

CanRename == sameFileSystem

(* shutil.move(new_model_path, current_path): a rename within one file     *)
(* system, a copy across two.                                              *)
Rename ==
    /\ CanRename
    /\ Goes("move", "reload")
    /\ current' = incoming
    /\ UNCHANGED <<backup, loaded, paused>>

OpenCurrent ==
    /\ ~CanRename
    /\ Goes("move", "moving")
    /\ current' = Torn
    /\ UNCHANGED <<backup, loaded, paused>>

FillCurrent ==
    /\ Goes("moving", "reload")
    /\ current' = incoming
    /\ UNCHANGED <<backup, loaded, paused>>

(* reload_model: _model is replaced only once the new one is there.        *)
Reload ==
    /\ current \in Loadable
    /\ Goes("reload", "resume")
    /\ loaded' = current
    /\ UNCHANGED <<diskVars, paused>>

ReloadRaises ==
    /\ current \notin Loadable
    /\ Goes("reload", "rollback")
    /\ UNCHANGED <<diskVars, loaded, paused>>

(* rollback                                                                *)
NoBackup ==
    /\ backup = None
    /\ Goes("rollback", "resume")
    /\ UNCHANGED <<diskVars, loaded, paused>>

RollbackWithoutRestoring ==
    /\ Goes("rollback", "resume")
    /\ UNCHANGED <<diskVars, loaded, paused>>

OpenRestored ==
    /\ backup # None
    /\ Goes("rollback", "restoring")
    /\ current' = Torn
    /\ UNCHANGED <<backup, loaded, paused>>

FillRestored ==
    /\ Goes("restoring", "reloadBackup")
    /\ current' = backup
    /\ UNCHANGED <<backup, loaded, paused>>

(* An exception of this reload is caught and logged.                       *)
ReloadBackup ==
    /\ Goes("reloadBackup", "resume")
    /\ loaded' = IF current \in Loadable THEN current ELSE loaded
    /\ UNCHANGED <<diskVars, paused>>

(* The finally clause.                                                     *)
Resume ==
    /\ Goes("resume", "idle")
    /\ paused' = FALSE
    /\ UNCHANGED <<diskVars, loaded>>

ResumeSkippedBy(from) == "idle"

(* Where an exception leads: to the except clause, from within the except  *)
(* clause to finally (and out to ModelReceiver, which logs it), and from   *)
(* the reload of the backup to the except clause of rollback.              *)
Handler(from) ==
    IF from \in {"backup", "backingUp", "move", "moving", "reload"}
    THEN "rollback" ELSE "resume"

Raise ==
    /\ pc \notin {"idle", "resume"}
    /\ pc = "rollback" => backup # None
    /\ failures < MaxFailures
    /\ failures' = failures + 1
    /\ pc' = Handler(pc)
    /\ UNCHANGED <<sameFileSystem, status, diskVars, loaded, paused, incoming, infer, installs,
                   crashes>>

InstallStep ==
    \/ OpenBackup \/ FillBackup
    \/ Rename \/ OpenCurrent \/ FillCurrent
    \/ Reload \/ ReloadRaises
    \/ NoBackup \/ OpenRestored \/ FillRestored \/ ReloadBackup
    \/ Resume

-----------------------------------------------------------------------------
(* count in the inference thread: it may have passed the wait before the   *)
(* pause, and predicts with the model that is loaded when it gets there.   *)

PassWait ==
    /\ status = "up" /\ infer = "waiting"
    /\ ~paused
    /\ infer' = "predicting"
    /\ UNCHANGED <<sameFileSystem, status, diskVars, loaded, paused, pc, incoming, boundVars>>

Predict ==
    /\ infer = "predicting"
    /\ infer' = "waiting"
    /\ UNCHANGED <<sameFileSystem, status, diskVars, loaded, paused, pc, incoming, boundVars>>

-----------------------------------------------------------------------------
Crash ==
    /\ status = "up"
    /\ crashes < MaxCrashes
    /\ crashes' = crashes + 1
    /\ status' = "down"
    /\ loaded' = None
    /\ paused' = FALSE
    /\ pc' = "idle"
    /\ infer' = "waiting"
    /\ UNCHANGED <<sameFileSystem, diskVars, incoming, installs, failures>>

(* CrowdCounter(model_path=CURRENT_MODEL_PATH): nothing catches what YOLO  *)
(* raises, and nothing else is tried.                                      *)
Start ==
    /\ status = "down"
    /\ current \in Loadable
    /\ status' = "up"
    /\ loaded' = current
    /\ UNCHANGED <<sameFileSystem, diskVars, paused, pc, incoming, infer, boundVars>>

StartRaises ==
    /\ status = "down"
    /\ current \notin Loadable
    /\ status' = "failed"
    /\ UNCHANGED <<sameFileSystem, diskVars, loaded, paused, pc, incoming, infer, boundVars>>

Next ==
    \/ \E m \in Model : Install(m)
    \/ InstallStep
    \/ Raise
    \/ PassWait
    \/ Predict
    \/ Crash
    \/ Start
    \/ StartRaises

(* The MQTT thread goes on with an installation it has begun, and the      *)
(* inference thread with its loop; nobody has to send a model, to crash or *)
(* to start the device again.                                              *)
Fairness ==
    /\ WF_vars(InstallStep)
    /\ WF_vars(PassWait)
    /\ WF_vars(Predict)

Spec == Init /\ [][Next]_vars

FairSpec == Spec /\ Fairness

-----------------------------------------------------------------------------
(* Every variable keeps its type.                                          *)
TypeOK ==
    /\ sameFileSystem \in BOOLEAN
    /\ status \in {"up", "down", "failed"}
    /\ current \in File /\ backup \in File
    /\ loaded \in Loadable \cup {None}
    /\ paused \in BOOLEAN
    /\ pc \in {"idle", "backup", "backingUp", "move", "moving", "reload",
               "rollback", "restoring", "reloadBackup", "resume"}
    /\ incoming \in Model \cup {None}
    /\ infer \in {"waiting", "predicting"}
    /\ installs \in 0 .. MaxInstalls
    /\ failures \in 0 .. MaxFailures
    /\ crashes \in 0 .. MaxCrashes

(* When no installation is under way, the device runs the model its        *)
(* current file holds: a restart would change nothing.  install_new_model  *)
(* and rollback leave file and memory in agreement, whatever was received  *)
(* and whenever the device crashed, as long as no file operation fails.    *)
FileIsWhatRuns ==
    failures = 0 /\ status = "up" /\ pc = "idle" => current = loaded

(* Crash or no crash, in the middle of any copy, the disk always holds a   *)
(* model that can be loaded, as the current file or as the backup: the     *)
(* order backup, move, restore never overwrites the last good copy, as     *)
(* long as no file operation fails.                                        *)
RunnableModelOnDisk ==
    failures = 0 => current \in Loadable \/ backup \in Loadable

(* With the temporary directory on the file system of the models, a device *)
(* that does not come up again after a crash was killed while it swapped   *)
(* in a model that cannot be loaded; a crash while a good model is         *)
(* installed is always survived, as long as no file operation fails.       *)
FailedStartHasCause ==
    failures = 0 /\ sameFileSystem /\ status = "failed" => incoming \notin Loadable

(* The inference thread is never left waiting: whatever raises in          *)
(* install_new_model and in rollback, a device that stays up predicts      *)
(* again and again.                                                        *)
InferenceContinues ==
    []<>(infer = "predicting" \/ status # "up")

(* docs/SYSTEM.md: a model that cannot be taken into use leads back to the *)
(* backup, "rather than leaving the system broken".  When an installation  *)
(* is over, the current file is one the device can start from.             *)
NeverLeftBroken ==
    status = "up" /\ pc = "idle" => current \in Loadable

(* The swap, seen from the inference thread: the candidate is under        *)
(* consideration from the pause until reload_model accepts or refuses it.  *)
Undecided ==
    pc \in {"backup", "backingUp", "move", "moving", "reload"}

Swap == INSTANCE HotSwap WITH
    running <- loaded,
    candidate <- IF Undecided THEN incoming ELSE None,
    disturbed <- failures > 0 \/ crashes > 0

(* install_new_model implements HotSwap: until the first exception or      *)
(* crash rolling back is invisible to the inference thread, and every      *)
(* model is decided on.                                                    *)
ImplementsHotSwap == Swap!Spec
=============================================================================
