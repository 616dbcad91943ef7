------------------------- MODULE FactoryResetProofs -------------------------
(***************************************************************************)
(* TLAPS proofs about the factory reset, for every number of submissions   *)
(* and of faults.                                                          *)
(***************************************************************************)
EXTENDS FactoryReset, TLAPS

(* The plan on disk is that of the last admitted submission, and a         *)
(* submission under way is one the marker allowed.                         *)
PlanAdmitted == plan \in {None, admitted}
SubmitOwns   == /\ submit = "plan" => admitted < MaxSubmits
                /\ submit \in {"marker", "arm"} => plan = admitted /\ plan # None
                /\ submit # "idle" => marker.state \in {"none", "unscheduled", "scheduled"}

(* What a runner has done so far, at each place of its sequence.           *)
Complete == db = admitted /\ runtime = admitted /\ password = admitted

RunnerMarked == \A r \in Runners : pc[r] \in RunPcs \ {"begin"} =>
                    marker.state \notin {"none", "scheduled", "unscheduled"}
RunnerFirst  == \A r \in Runners : pc[r] \in RunPcs \ {"begin", "forget", "hand", "fail"} =>
                    ~marker.activated
RuntimeDone  == \A r \in Runners : pc[r] \in {"passwords", "commit", "replace", "scrub",
                                              "await", "forget", "hand"} => runtime = admitted
PasswordDone == \A r \in Runners : pc[r] \in {"commit", "replace", "scrub", "await",
                                              "forget", "hand"} => password = admitted
DatabaseDone == \A r \in Runners : pc[r] \in {"scrub", "await", "forget", "hand"} =>
                    db = admitted

(* A reset that only awaits readiness is complete, and stays so while a    *)
(* finalizer works on it.                                                  *)
ActivatedComplete == marker.activated => Complete
FinalComplete     == \A f \in Finalizers : pc[f] \in {"start", "ready", "mark", "unlink"} =>
                         Complete /\ plan = None

Sequence == /\ PlanAdmitted /\ SubmitOwns /\ RunnerMarked /\ RunnerFirst
            /\ RuntimeDone /\ PasswordDone /\ DatabaseDone
            /\ ActivatedComplete /\ FinalComplete /\ RequestHasPlan

(* The inductive invariant.                                                *)
IInv == TypeOK /\ Sequence

-----------------------------------------------------------------------------
(* Every step keeps the invariant: the submission writes the plan before   *)
(* the marker, a runner goes through its sequence under the lock, and a    *)
(* process that dies or an appliance that reboots leaves the durable state *)
(* of the step it was at (_schedule_factory_reset_locked,                  *)
(* _run_factory_reset_locked, finalize_factory_reset).                     *)
LEMMA InvStep == IInv /\ [Next]_vars => IInv'
  <1> SUFFICES ASSUME IInv, [Next]_vars PROVE IInv'
    OBVIOUS
  <1> USE ResetConstants
      DEF IInv, TypeOK, FilesTyped, MachineTyped, LockHeld, UnitsTyped,
          Sequence, PlanAdmitted, SubmitOwns, RunnerMarked, RunnerFirst,
          RuntimeDone, PasswordDone, DatabaseDone, Complete, ActivatedComplete,
          FinalComplete, RequestHasPlan, At, Goto, End, EndLocked,
          files, history, machine, units, RunPcs, FinPcs, Procs, Runners, Finalizers,
          Plans, None, Mixed, Progress
  <1>1. CASE Submit
    BY <1>1 DEF Submit, Admissible, AfterSubmit
  <1>2. CASE SubmitPlan
    BY <1>2 DEF SubmitPlan, AfterSubmit
  <1>3. CASE SubmitMarker
    BY <1>3 DEF SubmitMarker, AfterSubmit, Marker
  <1>4. CASE SubmitArm
    <2>1. timer' \in BOOLEAN
      BY <1>4, Zenon DEF SubmitArm
    <2>2. marker' \in {marker, Marker("unscheduled")} /\ faults' \in 0 .. MaxFaults
      BY <1>4 DEF SubmitArm, Spend
    <2>3. /\ submit = "arm" /\ lock' = "free" /\ submit' = "idle"
          /\ UNCHANGED <<plan, history, result, machine, web, webDb, worker, release, pc>>
      BY <1>4, Zenon DEF SubmitArm
    <2>4. CASE marker' = marker
      BY <2>1, <2>2, <2>3, <2>4
    <2>5. CASE marker' = Marker("unscheduled")
      BY <2>1, <2>2, <2>3, <2>5 DEF Marker
    <2>6. QED
      BY <2>2, <2>4, <2>5
  <1>5. CASE SubmitDies
    BY <1>5 DEF SubmitDies, Spend
  <1>6. CASE TimerFires
    <2>1. timer' \in BOOLEAN
      BY <1>6, Zenon DEF TimerFires
    <2>2. QED
      BY <1>6, <2>1 DEF TimerFires
  <1>7. CASE WebStarts
    BY <1>7 DEF WebStarts, Resume, Resumable, ActivationPending, AwaitingOrFailed
  <1>8. CASE WorkerStarts
    BY <1>8 DEF WorkerStarts
  <1>9. CASE ConsoleResume
    BY <1>9 DEF ConsoleResume, Resume, Spend, ActivationPending, AwaitingOrFailed
  <1>10. CASE ReleaseBegins
    BY <1>10 DEF ReleaseBegins
  <1>11. CASE ReleasePublishes
    BY <1>11 DEF ReleasePublishes
  <1>12. CASE ReleaseEnds
    BY <1>12 DEF ReleaseEnds
  <1>13. CASE WebCrashes
    BY <1>13 DEF WebCrashes, Spend
  <1>14. CASE PreflightDies
    BY <1>14 DEF PreflightDies, Spend
  <1>15. CASE Reboot
    <2>1. faults' \in 0 .. MaxFaults
      BY <1>15 DEF Reboot, Spend
    <2>2. timer' \in BOOLEAN
      BY <1>15, Zenon DEF Reboot
    <2>3. QED
      BY <1>15, <2>1, <2>2 DEF Reboot
  <1>16. CASE \E p \in Procs : Take(p)
    BY <1>16 DEF Take
  <1>17. CASE \E p \in Procs : GiveUp(p)
    BY <1>17 DEF GiveUp
  <1>18. CASE \E r \in Runners : Begin(r)
    BY <1>18 DEF Begin, Marker
  <1>19. CASE \E r \in Runners : Admit(r)
    BY <1>19 DEF Admit, Terminal
  <1>20. CASE \E r \in Runners : StopWriters(r)
    BY <1>20 DEF StopWriters
  <1>21. CASE \E r \in Runners : Quiesce(r)
    BY <1>21 DEF Quiesce, Terminal
  <1>22. CASE \E r \in Runners : Build(r)
    BY <1>22 DEF Build, Marker
  <1>23. CASE \E r \in Runners : Validate(r)
    BY <1>23 DEF Validate, Marker
  <1>24. CASE \E r \in Runners : Cleanup(r)
    BY <1>24 DEF Cleanup
  <1>25. CASE \E r \in Runners : Activate(r)
    BY <1>25 DEF Activate
  <1>26. CASE \E r \in Runners : SetPasswords(r)
    BY <1>26 DEF SetPasswords
  <1>27. CASE \E r \in Runners : Commit(r)
    BY <1>27 DEF Commit, Marker
  <1>28. CASE \E r \in Runners : Replace(r)
    BY <1>28 DEF Replace
  <1>29. CASE \E r \in Runners : Scrub(r)
    BY <1>29 DEF Scrub, Terminal
  <1>30. CASE \E r \in Runners : Await(r)
    BY <1>30 DEF Await
  <1>31. CASE \E r \in Runners : Forget(r)
    BY <1>31 DEF Forget
  <1>32. CASE \E r \in Runners : HandOver(r)
    BY <1>32 DEF HandOver
  <1>33. CASE \E r \in Runners : Raise(r)
    BY <1>33 DEF Raise, Spend
  <1>34. CASE \E r \in Runners : Fail(r)
    BY <1>34 DEF Fail
  <1>35. CASE \E f \in Finalizers : FinCheck(f)
    BY <1>35 DEF FinCheck, ActivationPending, AwaitingOrFailed
  <1>36. CASE \E f \in Finalizers : FinStart(f)
    BY <1>36 DEF FinStart
  <1>37. CASE \E f \in Finalizers : FinReady(f)
    BY <1>37 DEF FinReady
  <1>38. CASE \E f \in Finalizers : FinFails(f)
    BY <1>38 DEF FinFails, Spend
  <1>39. CASE \E f \in Finalizers : FinMark(f)
    BY <1>39 DEF FinMark
  <1>40. CASE \E f \in Finalizers : FinUnlink(f)
    BY <1>40 DEF FinUnlink, NoMarker, Marker
  <1>41. CASE UNCHANGED vars
    BY <1>41 DEF vars
  <1>42. QED
    BY ZenonT(60), <1>1, <1>2, <1>3, <1>4, <1>5, <1>6, <1>7, <1>8, <1>9, <1>10, <1>11,
       <1>12, <1>13, <1>14, <1>15, <1>16, <1>17, <1>18, <1>19, <1>20,
       <1>21, <1>22, <1>23, <1>24, <1>25, <1>26, <1>27, <1>28, <1>29, <1>30,
       <1>31, <1>32, <1>33, <1>34, <1>35, <1>36, <1>37, <1>38, <1>39, <1>40,
       <1>41
    DEF Next, SubmitStep, UnitStep, RunStep, FinStep, Procs

(* The invariant holds before any submission.                              *)
LEMMA InitInv == Init => IInv
  <1> SUFFICES ASSUME Init PROVE IInv
    OBVIOUS
  <1> USE ResetConstants DEF Init, NoMarker, Marker, Procs, Runners, Finalizers, None
  <1>1. FilesTyped /\ MachineTyped
    BY DEF FilesTyped, MachineTyped, Plans, Mixed, Progress
  <1>2. timer \in BOOLEAN
    BY Zenon
  <1>3. UnitsTyped
    BY <1>2 DEF UnitsTyped, Plans
  <1>4. LockHeld
    BY DEF LockHeld, RunPcs, FinPcs
  <1>5. Sequence
    BY DEF Sequence, PlanAdmitted, SubmitOwns, RunnerMarked, RunnerFirst, RuntimeDone,
           PasswordDone, DatabaseDone, Complete, ActivatedComplete, FinalComplete,
           RequestHasPlan, RunPcs
  <1>6. QED
    BY <1>1, <1>3, <1>4, <1>5 DEF IInv, TypeOK

(* The reset keeps its sequence through every failure, death and reboot:   *)
(* the invariant holds in every reachable state.                           *)
THEOREM Invariance == Spec => []IInv
  BY InitInv, InvStep, PTL DEF Spec

(* The files, the machine and the units keep their types, and the lock is  *)
(* held by the one process past its wait (transaction.lock).               *)
THEOREM TypeCorrect == Spec => []TypeOK
  <1>1. IInv => TypeOK
    BY DEF IInv
  <1>2. QED
    BY <1>1, Invariance, PTL

(* A marker that can be resumed never stands without the password plan of  *)
(* the submission that was admitted last (_schedule_factory_reset_locked). *)
THEOREM ResumeFindsPlan == Spec => []RequestHasPlan
  <1>1. IInv => RequestHasPlan
    BY DEF IInv, Sequence
  <1>2. QED
    BY <1>1, Invariance, PTL

-----------------------------------------------------------------------------
(* The action properties.                                                  *)

(* Only the runner installs a database, only the finalizer records a       *)
(* result.                                                                 *)
LEMMA OnlyTheRunnerReplaces ==
    ASSUME [Next]_vars, db' # db
    PROVE  \E r \in Runners : Replace(r)
  BY DEF Next, SubmitStep, UnitStep, RunStep, FinStep, vars, files, history, machine, units,
         Submit, SubmitPlan, SubmitMarker, SubmitArm, SubmitDies, TimerFires, Take, GiveUp,
         Begin, Admit, StopWriters, Quiesce, Build, Validate, Cleanup, Activate,
         SetPasswords, Commit, Scrub, Await, Forget, HandOver, Raise, Fail, WebStarts,
         ConsoleResume, WorkerStarts, FinCheck, FinStart, FinReady, FinFails, FinMark,
         FinUnlink, ReleaseBegins, ReleasePublishes, ReleaseEnds, WebCrashes,
         PreflightDies, Reboot

(* A result is recorded by a finalizer that has seen the services ready.   *)
LEMMA OnlyTheFinalizerRecords ==
    ASSUME [Next]_vars, result' # result
    PROVE  \E f \in Finalizers : FinMark(f)
  BY DEF Next, SubmitStep, UnitStep, RunStep, FinStep, vars, files, history, machine, units,
         Submit, SubmitPlan, SubmitMarker, SubmitArm, SubmitDies, TimerFires, Take, GiveUp,
         Begin, Admit, StopWriters, Quiesce, Build, Validate, Cleanup, Activate,
         SetPasswords, Commit, Replace, Scrub, Await, Forget, HandOver, Raise, Fail,
         WebStarts, ConsoleResume, WorkerStarts, FinCheck, FinStart, FinReady, FinFails,
         FinUnlink, ReleaseBegins, ReleasePublishes, ReleaseEnds, WebCrashes,
         PreflightDies, Reboot

(* The database is replaced last: the defaults of the admitted reset run   *)
(* and its passwords are set when the runner replaces it                   *)
(* (_run_factory_reset_locked, _replace_database).                         *)
THEOREM DatabaseReplacedLast == Spec => DatabaseLast
  <1>1. IInv /\ [Next]_vars => (db' # db => runtime = db' /\ password = db')
    <2> SUFFICES ASSUME IInv, [Next]_vars, db' # db
                 PROVE  runtime = db' /\ password = db'
      OBVIOUS
    <2>1. PICK r \in Runners : Replace(r)
      BY OnlyTheRunnerReplaces
    <2>2. QED
      BY <2>1 DEF Replace, At, IInv, Sequence, RuntimeDone, PasswordDone
  <1>2. QED
    BY <1>1, Invariance, PTL DEF Spec, DatabaseLast

(* A recorded success is a complete reset: database, defaults and          *)
(* passwords are those of the admitted submission and its plan is erased   *)
(* (finalize_factory_reset).                                               *)
THEOREM SuccessMeansComplete == Spec => SuccessIsComplete
  <1>1. IInv /\ [Next]_vars =>
          (result' # result => /\ db = result' /\ runtime = result' /\ password = result'
                               /\ plan = None)
    <2> SUFFICES ASSUME IInv, [Next]_vars, result' # result
                 PROVE  /\ db = result' /\ runtime = result' /\ password = result'
                        /\ plan = None
      OBVIOUS
    <2>1. PICK f \in Finalizers : FinMark(f)
      BY OnlyTheFinalizerRecords
    <2>2. QED
      BY <2>1 DEF FinMark, At, IInv, Sequence, FinalComplete, Complete
  <1>2. QED
    BY <1>1, Invariance, PTL DEF Spec, SuccessIsComplete

(* A pending release transaction keeps its finalizer file: the steps that  *)
(* clear the staging or stop the helpers look at the release first         *)
(* (_require_terminal_release_update, _clear_apply_staging).               *)
THEOREM PendingReleaseKept == Spec => ReleaseKept
  <1>1. [Next]_vars => (release = "pending" => release' # "none")
    <2> SUFFICES ASSUME [Next]_vars, release = "pending" PROVE release' # "none"
      OBVIOUS
    <2>1. CASE \E r \in Runners : Quiesce(r) \/ Scrub(r)
      BY <2>1 DEF Quiesce, Scrub, Terminal
    <2>2. CASE Reboot
      BY <2>2 DEF Reboot
    <2>3. CASE ReleaseBegins \/ ReleasePublishes \/ ReleaseEnds
      BY <2>3 DEF ReleaseBegins, ReleasePublishes, ReleaseEnds
    <2>4. CASE release' = release
      BY <2>4
    <2>5. QED
      BY <2>1, <2>2, <2>3, <2>4
      DEF Next, SubmitStep, UnitStep, RunStep, FinStep, vars, files, history, machine, units,
          Submit, SubmitPlan, SubmitMarker, SubmitArm, SubmitDies, TimerFires, Take,
          GiveUp, Begin, Admit, StopWriters, Build, Validate, Cleanup, Activate,
          SetPasswords, Commit, Replace, Await, Forget, HandOver, Raise, Fail, WebStarts,
          ConsoleResume, WorkerStarts, FinCheck, FinStart, FinReady, FinFails, FinMark,
          FinUnlink, WebCrashes, PreflightDies
  <1>2. QED
    BY <1>1, PTL DEF Spec, ReleaseKept
=============================================================================
