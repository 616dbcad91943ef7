----------------------------- MODULE FactoryReset -----------------------------
(***************************************************************************)
(* The complete factory reset of the appliance                             *)
(*                                                                         *)
(*   atlaso/app/factory_reset.py   the runner and the readiness finalizer  *)
(*   scripts/appliance/atlaso-helper  factory-reset schedule and resume    *)
(*   image/common/systemd/atlaso.service, atlaso-worker.service            *)
(*                                                                         *)
(* A browser submission leaves a password plan and a request marker, both  *)
(* durable, and arms a timer.  The reset is run by the timer's service, by *)
(* the preflight of the web service at every start while a marker is       *)
(* there, or by an operator at the console; a finalizer verifies the       *)
(* restarted services.  One lock serialises them, and each waits for it a  *)
(* bounded time.  One action is one durable step; a process dies, a step   *)
(* fails or the appliance reboots between any two of them.                 *)
(***************************************************************************)
EXTENDS Integers

CONSTANTS
    MaxSubmits,  \* bound: submissions admitted by the helper
    MaxFaults    \* bound: failures, deaths, crashes and console commands

ASSUME ResetConstants == MaxSubmits \in Nat /\ MaxFaults \in Nat

Runners    == {"timer", "boot", "console"}
Finalizers == {"first", "resumed"}      \* scheduled by a runner, by a resume
Procs      == Runners \cup Finalizers

Plans == 1 .. MaxSubmits
None  == 0        \* no plan; the state before any reset
Mixed == -1       \* partly reset

VARIABLES
    marker,    \* request.json
    plan,      \* credentials.json
    admitted,  \* history: the plan of the last admitted submission
    left,      \* history: who died and left the reset to nobody
    result,    \* last-result.json
    db,        \* the reset whose factory database is installed
    runtime,   \* the reset whose defaults run
    password,  \* the plan whose passwords are set
    release,   \* the release transaction and its finalizer file
    web, webDb,  \* atlaso.service, and the database it has opened
    worker,
    timer,
    lock, pc,  \* transaction.lock, and where each process is
    submit,    \* where the helper's schedule command is
    faults

vars == <<marker, plan, admitted, left, result, db, runtime, password, release,
          web, webDb, worker, timer, lock, pc, submit, faults>>

history == <<admitted, left>>
files   == <<marker, plan, history, result>>
machine == <<db, runtime, password>>
units   == <<web, webDb, worker, timer>>

(* A marker without applied_unit_count and one with it: `activated'.  The  *)
(* state "unscheduled" is failed with failure_phase scheduling.            *)
Marker(state)  == [state |-> state, activated |-> FALSE]
NoMarker       == Marker("none")
Progress == {"scheduled", "stopping", "building", "applying", "committing", "awaiting"}

RunPcs == {"begin", "admit", "stop", "quiesce", "build", "validate", "cleanup",
           "activate", "passwords", "commit", "replace", "scrub", "await", "forget",
           "hand", "fail"}
FinPcs == {"check", "start", "ready", "mark", "unlink"}

FilesTyped ==
    /\ marker \in [state : Progress \cup {"none", "unscheduled", "failed"},
                   activated : BOOLEAN]
    /\ marker.activated => marker.state \in {"awaiting", "failed"}
    /\ plan \in Plans \cup {None} /\ admitted \in Plans \cup {None}
    /\ result \in Plans \cup {None} /\ left \in {"none", "submit", "console"}
MachineTyped ==
    /\ db \in Plans \cup {None} /\ runtime \in Plans \cup {None, Mixed}
    /\ password \in Plans \cup {None}
UnitsTyped ==
    /\ web \in {"up", "starting", "stopped"} /\ webDb \in Plans \cup {None}
    /\ worker \in {"up", "queued", "stopped"} /\ timer \in BOOLEAN
    /\ release \in {"none", "helper", "pending", "done"}
    /\ faults \in 0 .. MaxFaults

(* The lock has the one process that is past its wait, or the submission.  *)
LockHeld ==
    /\ lock \in Procs \cup {"free", "submit"}
    /\ pc \in [Procs -> RunPcs \cup FinPcs \cup {"idle", "wait"}]
    /\ \A p \in Procs : pc[p] \notin {"idle", "wait"} <=> lock = p
    /\ submit \in {"idle", "plan", "marker", "arm"}
    /\ (submit # "idle") <=> (lock = "submit")

TypeOK == FilesTyped /\ MachineTyped /\ UnitsTyped /\ LockHeld

Init ==
    /\ marker = NoMarker /\ plan = None /\ admitted = None /\ result = None
    /\ left = "none"
    /\ db = None /\ runtime = None /\ password = None
    /\ release = "none"
    /\ web = "up" /\ webDb = None /\ worker = "up" /\ timer = FALSE
    /\ lock = "free" /\ pc = [p \in Procs |-> "idle"] /\ submit = "idle"
    /\ faults = 0

Spend == faults < MaxFaults /\ faults' = faults + 1

-----------------------------------------------------------------------------
(* factory-reset schedule.                                                 *)

(* A submission is busy while the lock, the timer or its service is        *)
(* active, and refused while a marker needs recovery: only a failed        *)
(* scheduling may be replaced.                                             *)
Admissible == /\ lock = "free" /\ ~timer /\ pc["timer"] = "idle"
              /\ marker.state \in {"none", "unscheduled"}

(* The plan is durable before the marker that promises it, and both before *)
(* the timer.                                                              *)
MarkerFirst == [idle |-> "marker", marker |-> "plan", plan |-> "arm"]
AfterSubmit == [idle |-> "plan", plan |-> "marker", marker |-> "arm"]

Submit ==
    /\ web = "up" /\ Admissible /\ admitted < MaxSubmits
    /\ lock' = "submit" /\ submit' = AfterSubmit["idle"]
    /\ UNCHANGED <<files, machine, units, release, pc, faults>>

SubmitPlan ==
    /\ submit = "plan"
    /\ plan' = admitted + 1 /\ admitted' = admitted + 1
    /\ submit' = AfterSubmit["plan"]
    /\ UNCHANGED <<marker, left, result, machine, units, release, lock, pc, faults>>

SubmitMarker ==
    /\ submit = "marker"
    /\ marker' = Marker("scheduled") /\ left' = "none"
    /\ submit' = AfterSubmit["marker"]
    /\ UNCHANGED <<plan, admitted, result, machine, units, release, lock, pc, faults>>

SubmitArm ==
    /\ submit = "arm"
    /\ \/ timer' = TRUE /\ UNCHANGED <<marker, faults>>
       \/ marker' = Marker("unscheduled") /\ Spend /\ UNCHANGED timer
    /\ lock' = "free" /\ submit' = "idle"
    /\ UNCHANGED <<plan, history, result, machine, web, webDb, worker, release, pc>>

(* The adapter's time limit ends the command wherever it is.               *)
SubmitDies ==
    /\ submit # "idle"
    /\ lock' = "free" /\ submit' = "idle"
    /\ left' = IF submit = "arm" THEN "submit" ELSE left
    /\ Spend
    /\ UNCHANGED <<marker, plan, admitted, result, machine, units, release, pc>>

TimerFires ==
    /\ timer /\ pc["timer"] = "idle"
    /\ timer' = FALSE
    /\ pc' = [pc EXCEPT !["timer"] = "wait"]
    /\ UNCHANGED <<files, machine, web, webDb, worker, release, lock, submit, faults>>

-----------------------------------------------------------------------------
(* The lock.  Nothing is read again once it is taken.                      *)

Take(p) ==
    /\ pc[p] = "wait" /\ lock = "free"
    /\ lock' = p
    /\ pc' = [pc EXCEPT ![p] = IF p \in Runners THEN "begin" ELSE "check"]
    /\ UNCHANGED <<files, machine, units, release, submit, faults>>

(* The wait ends, and the process with it; a preflight that failed is      *)
(* started again.  The 30 seconds are longer than a finalizer takes to     *)
(* read the marker.                                                        *)
GiveUp(p) ==
    /\ pc[p] = "wait" /\ lock # "free" /\ \A f \in Finalizers : pc[f] # "check"
    /\ pc' = [pc EXCEPT ![p] = "idle"]
    /\ UNCHANGED <<files, machine, units, release, lock, submit, faults>>

At(p, s)    == pc[p] = s
Goto(p, s)  == pc' = [pc EXCEPT ![p] = s] /\ UNCHANGED lock
EndLocked(p) == pc' = [pc EXCEPT ![p] = "idle"] /\ UNCHANGED lock
End(p)      == pc' = [pc EXCEPT ![p] = "idle"] /\ lock' = "free"

-----------------------------------------------------------------------------
(* _run_factory_reset_locked.                                              *)

(* _update_request keeps nothing of the marker but its time of request.    *)
Begin(r) ==
    /\ At(r, "begin")
    /\ marker' = Marker("stopping") /\ left' = "none"
    /\ Goto(r, "admit")
    /\ UNCHANGED <<plan, admitted, result, machine, units, release, submit, faults>>

(* _require_terminal_release_update.                                       *)
AnyRelease == TRUE
Terminal   == release # "pending"

Admit(r) ==
    /\ At(r, "admit")
    /\ Goto(r, IF Terminal THEN "stop" ELSE "fail")
    /\ UNCHANGED <<files, machine, units, release, submit, faults>>

(* A resume takes the web service for stopped by the order of its start;   *)
(* stopping it ends a preflight that waits for the lock.                   *)
StopWriters(r) ==
    /\ At(r, "stop")
    /\ worker' = "stopped"
    /\ web' = IF r = "timer" THEN "stopped" ELSE web
    /\ pc' = [pc EXCEPT ![r] = "quiesce",
                        !["boot"] = IF r = "timer" THEN "idle"
                                    ELSE IF r = "boot" THEN "quiesce" ELSE @]
    /\ UNCHANGED <<files, machine, webDb, timer, release, lock, submit, faults>>

(* Helper actions are stopped, then the release is looked at again.        *)
Quiesce(r) ==
    /\ At(r, "quiesce")
    /\ release' = IF release = "helper" THEN "none" ELSE release
    /\ Goto(r, IF Terminal THEN "build" ELSE "fail")
    /\ UNCHANGED <<files, machine, units, submit, faults>>

Build(r) ==
    /\ At(r, "build")
    /\ marker' = Marker("building")
    /\ Goto(r, "validate")
    /\ UNCHANGED <<plan, history, result, machine, units, release, submit, faults>>

(* The candidate is built, every unit is validated.                        *)
Validate(r) ==
    /\ At(r, "validate")
    /\ marker' = Marker("applying")
    /\ Goto(r, "cleanup")
    /\ UNCHANGED <<plan, history, result, machine, units, release, submit, faults>>

(* Login sessions and managed networks end; a console runner may be one of *)
(* the sessions.                                                           *)
Cleanup(r) ==
    /\ At(r, "cleanup")
    /\ runtime' = Mixed
    /\ \/ Goto(r, "activate") /\ UNCHANGED left
       \/ r = "console" /\ End(r) /\ left' = "console"
    /\ UNCHANGED <<marker, plan, admitted, result, db, password, units, release, submit, faults>>

Activate(r) ==
    /\ At(r, "activate")
    /\ runtime' = admitted
    /\ Goto(r, "passwords")
    /\ UNCHANGED <<files, db, password, units, release, submit, faults>>

Unverified(r) ==
    /\ At(r, "passwords")
    /\ password' \in {password, plan}
    /\ Goto(r, "commit")
    /\ UNCHANGED <<files, db, runtime, units, release, submit, faults>>

(* The root password comes from the plan, and there must be one.           *)
SetPasswords(r) ==
    /\ At(r, "passwords")
    /\ password' = IF plan = None THEN password ELSE plan
    /\ Goto(r, IF plan = None THEN "fail" ELSE "commit")
    /\ UNCHANGED <<files, db, runtime, units, release, submit, faults>>

Commit(r) ==
    /\ At(r, "commit")
    /\ marker' = Marker("committing")
    /\ Goto(r, "replace")
    /\ UNCHANGED <<plan, history, result, machine, units, release, submit, faults>>

Replace(r) ==
    /\ At(r, "replace")
    /\ db' = admitted
    /\ Goto(r, "scrub")
    /\ UNCHANGED <<files, runtime, password, units, release, submit, faults>>

(* _clear_apply_staging, which holds the finalizer file of a release; then *)
(* the login sessions end once more.                                       *)
Scrub(r) ==
    /\ At(r, "scrub")
    /\ release' = IF Terminal THEN "none" ELSE release
    /\ \/ Goto(r, IF Terminal THEN "await" ELSE "fail") /\ UNCHANGED left
       \/ r = "console" /\ Terminal /\ End(r) /\ left' = "console"
    /\ UNCHANGED <<marker, plan, admitted, result, machine, units, submit, faults>>

Await(r) ==
    /\ At(r, "await")
    /\ marker' = [state |-> "awaiting", activated |-> TRUE]
    /\ Goto(r, "forget")
    /\ UNCHANGED <<plan, history, result, machine, units, release, submit, faults>>

Forget(r) ==
    /\ At(r, "forget")
    /\ plan' = None
    /\ Goto(r, "hand")
    /\ UNCHANGED <<marker, history, result, machine, units, release, submit, faults>>

(* The finalizer is scheduled; a preflight that succeeds starts the web    *)
(* process.                                                                *)
HandOver(r) ==
    /\ At(r, "hand")
    /\ lock' = "free"
    /\ pc' = [pc EXCEPT ![r] = "idle", !["first"] = IF @ = "idle" THEN "wait" ELSE @]
    /\ web' = IF r = "boot" THEN "up" ELSE web
    /\ webDb' = IF r = "boot" THEN db ELSE webDb
    /\ UNCHANGED <<files, machine, worker, timer, release, submit, faults>>

(* Any step of the reset may raise, with its work half done.               *)
Raise(r) ==
    /\ pc[r] \in RunPcs \ {"begin", "fail"}
    /\ runtime' = IF pc[r] \in {"cleanup", "activate"} THEN Mixed ELSE runtime
    /\ Goto(r, "fail")
    /\ Spend
    /\ UNCHANGED <<files, db, password, units, release, submit>>

(* The handler keeps the one fact that decides how the reset is resumed.   *)
Fail(r) ==
    /\ At(r, "fail")
    /\ marker' = [state |-> "failed", activated |-> marker.activated]
    /\ End(r)
    /\ UNCHANGED <<plan, history, result, machine, units, release, submit, faults>>

RunStep(r) ==
    \/ Take(r) \/ GiveUp(r) \/ Begin(r) \/ Admit(r) \/ StopWriters(r) \/ Quiesce(r)
    \/ Build(r) \/ Validate(r) \/ Cleanup(r) \/ Activate(r) \/ SetPasswords(r)
    \/ Commit(r) \/ Replace(r) \/ Scrub(r) \/ Await(r) \/ Forget(r) \/ HandOver(r)
    \/ Fail(r)

-----------------------------------------------------------------------------
(* factory-reset resume, and finalize_factory_reset.                       *)

(* _factory_reset_activation_pending: only readiness remains.              *)
AwaitingOrFailed  == marker.state \in {"awaiting", "failed"}
ActivationPending == AwaitingOrFailed /\ marker.activated

Resumable     == marker.state # "none"

(* What a resume starts: the finalizer or the whole reset.                 *)
Resume(r) ==
    pc' = IF ActivationPending THEN [pc EXCEPT !["resumed"] = IF @ = "idle" THEN "wait" ELSE @]
                               ELSE [pc EXCEPT ![r] = "wait"]

(* The preflight of the web service.                                       *)
WebStarts ==
    /\ web = "starting" /\ pc["boot"] = "idle"
    /\ IF Resumable THEN Resume("boot") ELSE UNCHANGED pc
    /\ IF Resumable /\ ~ActivationPending THEN UNCHANGED <<web, webDb>>
       ELSE web' = "up" /\ webDb' = db
    /\ UNCHANGED <<files, machine, worker, timer, release, lock, submit, faults>>

ConsoleResume ==
    /\ marker.state # "none" /\ pc["console"] = "idle"
    /\ Resume("console")
    /\ Spend
    /\ UNCHANGED <<files, machine, units, release, lock, submit>>

WorkerStarts ==
    /\ worker = "queued" /\ pc["boot"] = "idle"
    /\ worker' = "up"
    /\ UNCHANGED <<files, machine, web, webDb, timer, release, lock, pc, submit, faults>>

FinCheck(f) ==
    /\ At(f, "check")
    /\ IF ActivationPending
       THEN plan' = None /\ Goto(f, "start")
       ELSE UNCHANGED plan /\ End(f)
    /\ UNCHANGED <<marker, history, result, machine, units, release, submit, faults>>

FinStart(f) ==
    /\ At(f, "start")
    /\ web' = IF web = "stopped" THEN "starting" ELSE web
    /\ worker' = IF worker = "stopped" THEN "queued" ELSE worker
    /\ Goto(f, "ready")
    /\ UNCHANGED <<files, machine, webDb, timer, release, submit, faults>>

(* Two ready samples in a row.                                             *)
FinReady(f) ==
    /\ At(f, "ready") /\ web = "up" /\ worker = "up"
    /\ Goto(f, "mark")
    /\ UNCHANGED <<files, machine, units, release, submit, faults>>

(* The services could not be started, or were not ready in time.           *)
FinFails(f) ==
    /\ \/ At(f, "start") /\ Spend
       \/ At(f, "ready") /\ IF web = "up" /\ worker = "up" THEN Spend ELSE UNCHANGED faults
    /\ marker' = [state |-> "failed", activated |-> TRUE]
    /\ End(f)
    /\ UNCHANGED <<plan, history, result, machine, units, release, submit>>

FinMark(f) ==
    /\ At(f, "mark")
    /\ result' = admitted
    /\ Goto(f, "unlink")
    /\ UNCHANGED <<marker, plan, history, machine, units, release, submit, faults>>

FinUnlink(f) ==
    /\ At(f, "unlink")
    /\ marker' = NoMarker
    /\ End(f)
    /\ UNCHANGED <<plan, history, result, machine, units, release, submit, faults>>

FinStep(f) == \/ Take(f) \/ GiveUp(f) \/ FinCheck(f) \/ FinStart(f) \/ FinReady(f)
              \/ FinFails(f) \/ FinMark(f) \/ FinUnlink(f)

-----------------------------------------------------------------------------
(* The release updates of the worker, and faults.                          *)

ReleaseBegins ==
    /\ worker = "up" /\ release \in {"none", "done"}
    /\ release' = "helper"
    /\ UNCHANGED <<files, machine, units, lock, pc, submit, faults>>

(* The helper publishes its finalizer file, whoever started it may be gone. *)
ReleasePublishes ==
    /\ release = "helper"
    /\ release' = "pending"
    /\ UNCHANGED <<files, machine, units, lock, pc, submit, faults>>

ReleaseEnds ==
    /\ release = "pending"
    /\ release' = "done"
    /\ UNCHANGED <<files, machine, units, lock, pc, submit, faults>>

(* systemd starts the web service again.                                   *)
WebCrashes ==
    /\ web = "up"
    /\ web' = "starting"
    /\ lock' = IF lock = "submit" THEN "free" ELSE lock
    /\ submit' = "idle"
    /\ Spend
    /\ UNCHANGED <<files, machine, webDb, worker, timer, release, pc>>

(* The preflight exceeds the service's start time.                         *)
PreflightDies ==
    /\ pc["boot"] # "idle"
    /\ pc' = [pc EXCEPT !["boot"] = "idle"]
    /\ lock' = IF lock = "boot" THEN "free" ELSE lock
    /\ runtime' = IF pc["boot"] \in {"cleanup", "activate"} THEN Mixed ELSE runtime
    /\ Spend
    /\ UNCHANGED <<files, db, password, units, release, submit>>

Reboot ==
    /\ web' = "starting" /\ worker' = "queued" /\ timer' = FALSE
    /\ lock' = "free" /\ pc' = [p \in Procs |-> "idle"] /\ submit' = "idle"
    /\ release' = IF release = "helper" THEN "none" ELSE release
    /\ runtime' = IF \E r \in Runners : pc[r] \in {"cleanup", "activate"}
                  THEN Mixed ELSE runtime
    /\ Spend
    /\ UNCHANGED <<files, db, password, webDb>>


-----------------------------------------------------------------------------
SubmitStep == SubmitPlan \/ SubmitMarker \/ SubmitArm
UnitStep   == TimerFires \/ WebStarts \/ WorkerStarts

Next ==
    \/ Submit \/ SubmitStep \/ SubmitDies
    \/ UnitStep
    \/ \E r \in Runners : RunStep(r) \/ Raise(r)
    \/ \E f \in Finalizers : FinStep(f)
    \/ ConsoleResume
    \/ ReleaseBegins \/ ReleasePublishes \/ ReleaseEnds
    \/ WebCrashes \/ PreflightDies \/ Reboot

Spec == Init /\ [][Next]_vars

(* Processes and units run.  Nobody reboots a reset in progress: the       *)
(* screen says not to.                                                     *)
Fairness ==
    /\ WF_vars(SubmitStep) /\ WF_vars(TimerFires)
    /\ WF_vars(WebStarts) /\ WF_vars(WorkerStarts)
    /\ \A r \in Runners : WF_vars(RunStep(r))
    /\ \A f \in Finalizers : WF_vars(FinStep(f))

LiveSpec == Spec /\ Fairness

-----------------------------------------------------------------------------
(* Properties.                                                             *)

(* A request that is there to be run has its password plan: whatever died  *)
(* while it was scheduled, a resume finds the plan the administrator       *)
(* chose last (_schedule_factory_reset_locked).                            *)
RequestHasPlan ==
    marker.state \in {"scheduled", "unscheduled"} => plan = admitted /\ plan # None

(* The old database stays until the defaults run and the passwords of the  *)
(* admitted plan are set, however often the reset was interrupted          *)
(* (_candidate_database before _replace_database).                         *)
DatabaseLast == [][db' # db => runtime = db' /\ password = db']_vars

(* Success is recorded only for a reset that is complete: data, runtime    *)
(* and passwords are those of the admitted request and its plan is gone    *)
(* (finalize_factory_reset).                                               *)
SuccessIsComplete ==
    [][result' # result =>
         /\ db = result' /\ runtime = result' /\ password = result'
         /\ plan = None]_vars

(* A pending release transaction never loses its finalizer file to the     *)
(* reset (_require_terminal_release_update before and after the helpers    *)
(* are stopped and before the staging is cleared).                         *)
ReleaseKept == [][release = "pending" => release' # "none"]_vars

(* Nothing runs that would carry the reset on.                             *)
Stalled ==
    /\ ~timer /\ submit = "idle" /\ web # "starting"
    /\ \A p \in Procs : pc[p] = "idle"


(* The documentation: Atlaso writers are quiesced before the database is   *)
(* replaced, so that a running web process has opened the installed one.   *)
ServesInstalled == web = "up" => webDb = db
=============================================================================
