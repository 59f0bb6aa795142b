------------------------- MODULE ModelInstallProofs --------------------------
(***************************************************************************)
(* Theorems about ModelInstall, for any models and any number of           *)
(* installations, exceptions and crashes.                                  *)
(***************************************************************************)
EXTENDS ModelInstall, TLAPS

(* Where the good copies are while install_new_model is on its way, as     *)
(* long as nothing has raised.                                             *)
GoodCopies ==
    /\ status = "up" => loaded \in Loadable
    /\ status # "up" => pc = "idle" /\ (current \in Loadable \/ backup \in Loadable)
    /\ status = "up" /\ pc \in {"idle", "backup", "backingUp", "resume"}
         => current = loaded
    /\ pc \in {"move", "moving", "reload", "rollback", "restoring", "reloadBackup"}
         => backup = loaded
    /\ pc = "reloadBackup" => current = loaded

(* What the current file holds when it is not the model that runs.         *)
CurrentFile ==
    /\ pc = "reload" => current = incoming
    /\ pc \in {"rollback", "restoring"} => incoming \notin Loadable
    /\ pc = "move" => current = loaded
    /\ sameFileSystem =>
         /\ pc # "moving"
         /\ status # "up" /\ current \notin Loadable => incoming \notin Loadable
    /\ status = "failed" => current \notin Loadable

CandidateKnown == Undecided => incoming \in Model

DownAfterCrash == status # "up" => crashes > 0

Orderly == GoodCopies /\ CurrentFile /\ CandidateKnown /\ DownAfterCrash

IInv == TypeOK /\ (failures = 0 => Orderly)

-----------------------------------------------------------------------------
(* The initial state satisfies the type invariant.                         *)
LEMMA InitTypeOK == Init => TypeOK
<1> SUFFICES ASSUME Init PROVE TypeOK
  OBVIOUS
<1>1. installs \in 0 .. MaxInstalls /\ failures \in 0 .. MaxFailures
        /\ crashes \in 0 .. MaxCrashes
  BY BoundsAssumption DEF Init
<1>2. current \in File /\ backup \in File /\ loaded \in Loadable \cup {None}
  BY LoadableAssumption DEF Init, File
<1>3. paused \in BOOLEAN
  BY DEF Init
<1> QED
  BY <1>1, <1>2, <1>3 DEF Init, TypeOK

(* No step leaves the types: reload_model keeps _model loadable.           *)
LEMMA NextTypeOK == TypeOK /\ [Next]_vars => TypeOK'
<1> SUFFICES ASSUME TypeOK, [Next]_vars PROVE TypeOK'
  OBVIOUS
<1> USE LoadableAssumption, BoundsAssumption
<1>1. ASSUME NEW m \in Model, Install(m) PROVE TypeOK'
  BY <1>1 DEF Install, NextAfterPause, TypeOK, File, diskVars
<1>2. CASE OpenBackup
  BY <1>2 DEF OpenBackup, Goes, TypeOK, File, boundVars
<1>3. CASE FillBackup
  BY <1>3 DEF FillBackup, Goes, TypeOK, File, boundVars
<1>4. CASE Rename
  BY <1>4 DEF Rename, Goes, TypeOK, File, boundVars
<1>5. CASE OpenCurrent
  BY <1>5 DEF OpenCurrent, Goes, TypeOK, File, boundVars
<1>6. CASE FillCurrent
  BY <1>6 DEF FillCurrent, Goes, TypeOK, File, boundVars
<1>7. CASE Reload
  BY <1>7 DEF Reload, Goes, TypeOK, File, boundVars, diskVars
<1>8. CASE ReloadRaises
  BY <1>8 DEF ReloadRaises, Goes, TypeOK, File, boundVars, diskVars
<1>9. CASE NoBackup
  BY <1>9 DEF NoBackup, Goes, TypeOK, File, boundVars, diskVars
<1>10. CASE OpenRestored
  BY <1>10 DEF OpenRestored, Goes, TypeOK, File, boundVars
<1>11. CASE FillRestored
  BY <1>11 DEF FillRestored, Goes, TypeOK, File, boundVars
<1>12. CASE ReloadBackup
  BY <1>12 DEF ReloadBackup, Goes, TypeOK, File, boundVars, diskVars
<1>13. CASE Resume
  BY <1>13 DEF Resume, Goes, TypeOK, File, boundVars, diskVars
<1>14. CASE Raise
  BY <1>14 DEF Raise, Handler, TypeOK, File, diskVars
<1>15. CASE PassWait \/ Predict
  BY <1>15 DEF PassWait, Predict, TypeOK, File, boundVars, diskVars
<1>16. CASE Crash
  <2>1. crashes' \in 0 .. MaxCrashes
    BY <1>16 DEF Crash, TypeOK
  <2>2. paused' \in BOOLEAN
    BY <1>16 DEF Crash
  <2> QED
    BY <1>16, <2>1, <2>2 DEF Crash, TypeOK, File, diskVars
<1>17. CASE Start \/ StartRaises
  BY <1>17 DEF Start, StartRaises, TypeOK, File, boundVars, diskVars
<1>18. CASE UNCHANGED vars
  BY <1>18 DEF vars, TypeOK, File, boundVars, diskVars
<1> QED
  BY <1>1, <1>2, <1>3, <1>4, <1>5, <1>6, <1>7, <1>8, <1>9, <1>10, <1>11, <1>12,
     <1>13, <1>14, <1>15, <1>16, <1>17, <1>18 DEF Next, InstallStep

(* The device is always in one of the states of ModelInstall: in           *)
(* particular what runs is a model that YOLO has loaded, whatever raises   *)
(* or crashes in install_new_model, rollback and at start-up.              *)
THEOREM InstallTypeCorrect == Spec => []TypeOK
  BY InitTypeOK, NextTypeOK, PTL DEF Spec

-----------------------------------------------------------------------------
(* The initial state satisfies the inductive invariant.                    *)
LEMMA InitIInv == Init => IInv
<1>1. Init => Orderly
  BY LoadableAssumption DEF Init, Orderly, GoodCopies, CurrentFile, CandidateKnown,
     DownAfterCrash, Undecided
<1> QED
  BY <1>1, InitTypeOK DEF IInv

(* Every step of install_new_model, rollback, a crash and a start keeps it.*)
LEMMA NextIInv == IInv /\ [Next]_vars => IInv'
<1>1. SUFFICES ASSUME TypeOK, [Next]_vars, failures' = 0, failures = 0 => Orderly
               PROVE  Orderly'
  BY NextTypeOK DEF IInv
<1> USE LoadableAssumption, NoModelAssumption, <1>1
    DEF Orderly, GoodCopies, CurrentFile, CandidateKnown, DownAfterCrash, Undecided,
        boundVars
<1>2. ASSUME NEW m \in Model, Install(m) PROVE Orderly'
  BY <1>2 DEF Install, NextAfterPause, TypeOK, diskVars
<1>3. CASE OpenBackup
  BY <1>3 DEF OpenBackup, Goes
<1>4. CASE FillBackup
  BY <1>4 DEF FillBackup, Goes
<1>5. CASE Rename
  BY <1>5 DEF Rename, Goes
<1>6. CASE OpenCurrent
  BY <1>6 DEF OpenCurrent, CanRename, Goes
<1>7. CASE FillCurrent
  BY <1>7 DEF FillCurrent, Goes
<1>8. CASE Reload
  BY <1>8 DEF Reload, Goes, diskVars
<1>9. CASE ReloadRaises
  BY <1>9 DEF ReloadRaises, Goes, diskVars
<1>10. CASE NoBackup
  BY <1>10 DEF NoBackup, Goes, diskVars
<1>11. CASE OpenRestored
  BY <1>11 DEF OpenRestored, Goes
<1>12. CASE FillRestored
  BY <1>12 DEF FillRestored, Goes
<1>13. CASE ReloadBackup
  BY <1>13 DEF ReloadBackup, Goes, diskVars
<1>14. CASE Resume
  BY <1>14 DEF Resume, Goes, diskVars
<1>15. ~Raise
  BY DEF Raise, TypeOK
<1>16. CASE PassWait \/ Predict
  BY <1>16 DEF PassWait, Predict, diskVars
<1>17. CASE Crash
  BY <1>17 DEF Crash, TypeOK, diskVars
<1>18. CASE Start \/ StartRaises
  BY <1>18 DEF Start, StartRaises, diskVars
<1>19. CASE UNCHANGED vars
  BY <1>19 DEF vars, diskVars
<1> HIDE DEF Orderly
<1> QED
  BY <1>2, <1>3, <1>4, <1>5, <1>6, <1>7, <1>8, <1>9, <1>10, <1>11, <1>12, <1>13,
     <1>14, <1>15, <1>16, <1>17, <1>18, <1>19 DEF Next, InstallStep

(* The inductive invariant holds in every state.                           *)
LEMMA AlwaysIInv == Spec => []IInv
  BY InitIInv, NextIInv, PTL DEF Spec

(* As long as no file operation raises, crashes at any point of            *)
(* install_new_model and rollback leave a loadable model on the disk.      *)
THEOREM GoodModelSurvives == Spec => []RunnableModelOnDisk
<1>1. IInv => RunnableModelOnDisk
  BY DEF IInv, Orderly, GoodCopies, CurrentFile, RunnableModelOnDisk, TypeOK
<1> QED
  BY <1>1, AlwaysIInv, PTL

(* As long as no file operation raises, install_new_model and rollback     *)
(* leave the current file and the model in memory in agreement.            *)
THEOREM FileAndMemoryAgree == Spec => []FileIsWhatRuns
<1>1. IInv => FileIsWhatRuns
  BY DEF IInv, Orderly, GoodCopies, FileIsWhatRuns
<1> QED
  BY <1>1, AlwaysIInv, PTL

(* As long as no file operation raises and the move is a rename, only a    *)
(* crash while an unusable model is swapped in keeps the device from       *)
(* starting again.                                                         *)
THEOREM GoodInstallSurvivesCrash == Spec => []FailedStartHasCause
<1>1. IInv => FailedStartHasCause
  BY DEF IInv, Orderly, CurrentFile, FailedStartHasCause
<1> QED
  BY <1>1, AlwaysIInv, PTL

-----------------------------------------------------------------------------
(* Every step of the installation is a step of HotSwap or invisible to it: *)
(* reload_model decides, and the reload of the backup puts back the model  *)
(* that is running anyway.                                                 *)
THEOREM InstallImplementsHotSwap == Spec => Swap!SafeSpec
<1> USE LoadableAssumption, NoModelAssumption
<1>1. Init => Swap!Init
  BY DEF Init, Swap!Init, Undecided
<1>2. IInv /\ IInv' /\ [Next]_vars => [Swap!Next]_(Swap!swapVars)
  <2> SUFFICES ASSUME IInv, IInv', [Next]_vars
               PROVE  Swap!Next \/ UNCHANGED Swap!swapVars
    OBVIOUS
  <2>1. CASE failures' > 0 \/ crashes' > 0
    <3>1. loaded' \in Loadable \cup {None}
      BY DEF IInv, TypeOK
    <3>2. incoming' \in Model \cup {None}
      BY DEF IInv, TypeOK
    <3>3. Swap!Disturb
      BY <2>1, <3>1, <3>2 DEF Swap!Disturb
    <3> QED
      BY <3>3 DEF Swap!Next
  <2>2. CASE ~(failures' > 0 \/ crashes' > 0)
    <3>1. failures' = 0 /\ crashes' = 0
      BY <2>2, BoundsAssumption DEF IInv, TypeOK
    <3>2. ~Raise /\ ~Crash
      BY <3>1 DEF Raise, Crash, IInv, TypeOK
    <3>3. failures = 0 /\ crashes = 0
      BY <3>1, <3>2 DEF Next, InstallStep, Install, OpenBackup, FillBackup, Rename,
         OpenCurrent, FillCurrent, Reload, ReloadRaises, NoBackup, OpenRestored,
         FillRestored, ReloadBackup, Resume, Goes, PassWait, Predict, Start,
         StartRaises, vars, boundVars
    <3>4. Orderly /\ status = "up"
      BY <3>3 DEF IInv, Orderly, DownAfterCrash
    <3> USE <3>1, <3>3 DEF Undecided, Swap!swapVars
    <3>5. ASSUME NEW m \in Model, Install(m) PROVE Swap!Offer(m)
      BY <3>4, <3>5 DEF Install, NextAfterPause, Orderly, GoodCopies, Swap!Offer
    <3>6. CASE OpenBackup \/ FillBackup \/ Rename \/ OpenCurrent \/ FillCurrent
      BY <3>6 DEF OpenBackup, FillBackup, Rename, OpenCurrent, FillCurrent, Goes
    <3>7. CASE Reload
      BY <3>4, <3>7 DEF Reload, Goes, Orderly, CurrentFile, Swap!Next, Swap!Accept
    <3>8. CASE ReloadRaises
      BY <3>4, <3>8 DEF ReloadRaises, Goes, Orderly, CurrentFile, CandidateKnown,
         Swap!Next, Swap!Reject
    <3>9. CASE NoBackup \/ OpenRestored \/ FillRestored \/ ReloadBackup \/ Resume
      BY <3>4, <3>9 DEF NoBackup, OpenRestored, FillRestored, ReloadBackup, Resume,
         Goes, Orderly, GoodCopies
    <3>10. CASE PassWait \/ Predict
      BY <3>10 DEF PassWait, Predict
    <3>11. ~Start /\ ~StartRaises
      BY <3>4 DEF Start, StartRaises
    <3>12. CASE UNCHANGED vars
      BY <3>12 DEF vars
    <3> QED
      BY <3>2, <3>5, <3>6, <3>7, <3>8, <3>9, <3>10, <3>11, <3>12
         DEF Next, InstallStep, Swap!Next
  <2> QED
    BY <2>1, <2>2
<1> QED
  BY <1>1, <1>2, AlwaysIInv, PTL DEF Spec, Swap!SafeSpec
=============================================================================
