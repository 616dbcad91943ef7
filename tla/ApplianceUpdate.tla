--------------------------- MODULE ApplianceUpdate ---------------------------
(***************************************************************************)
(* One appliance installation (appliance-update, mode run): the worker     *)
(* that runs its streams one after the other, the update-only browser      *)
(* surface that must hold while it does, the delayed restart of every      *)
(* service that a changed Photon OS owes, and their recovery:              *)
(*                                                                         *)
(*   atlaso/app/worker.py            _run_appliance_update, recovery,      *)
(*                                   _reconcile_appliance_update_status_   *)
(*                                   surface, _retry_appliance_update_...  *)
(*   atlaso/app/ui.py                execute_, aggregate_, complete_...    *)
(*   scripts/appliance/atlaso-helper status-publish, status-finish, the    *)
(*                                   pre-start guard, the delayed restart  *)
(*                                                                         *)
(* The claim, the queue and the two transactions of a cancellation request *)
(* are those of TaskQueue.  The release transaction inside the helper is   *)
(* seen only through the finalizer file it leaves.                         *)
(***************************************************************************)
EXTENDS Integers, Sequences

CONSTANTS
    Orders,     \* the execution orders a stored task may have
    MaxFaults   \* bound: crashes, reboots and failed external calls

Streams == {"photon", "powershell", "release"}

(* APPLIANCE_UPDATE_EXECUTION_ORDER, and the order of a task queued by an  *)
(* older updater, which is the reverse.                                    *)
Rank == [photon |-> 1, powershell |-> 2, release |-> 3]
Current(o)    == \A i, k \in DOMAIN o : i < k => Rank[o[i]] < Rank[o[k]]
Historical(o) == \A i, k \in DOMAIN o : i < k => Rank[o[i]] > Rank[o[k]]

ASSUME ApplianceUpdateConstants ==
    /\ Orders \subseteq UNION {[1 .. n -> Streams] : n \in 1 .. 3}
    /\ \A o \in Orders : Current(o) \/ Historical(o)
    /\ MaxFaults \in Nat

VARIABLES
    order,      \* execution_order of the stored task
    job,        \* the parent row
    step,       \* its children: step[s]
    surf,       \* the runtime marker, and the durable status snapshot
    w,          \* the worker process
    helper,     \* the stream whose privileged apply unit is alive, or "none"
    finalizer,  \* the release transaction's evidence for this job
    host,       \* packages changed since the services started; restart units
    epoch,      \* which incarnation of the worker runs (or ran last)
    wait,       \* what a retry of the restart must let pass first
    faults

vars == <<order, job, step, surf, w, helper, finalizer, host, epoch, wait, faults>>

Terminal == {"succeeded", "failed"}
Over     == {"succeeded", "failed", "skipped"}

WorkerPcs == {"down", "gate", "recover", "loop",
              "begin", "stream", "announce", "check", "apply", "applying",
              "record", "report", "dispatch", "schedule",
              "surface", "finish", "finishing", "retry", "raised"}

Finalizers == {"none", "pending", "restarted", "nochange", "rolledback", "refuted"}

JobRow == [status : {"pending", "running", "cancelled"} \cup Terminal,
           restart : BOOLEAN, fin : Nat, attempts : 0 .. 3, confirmed : BOOLEAN,
           raised : BOOLEAN, legacy : BOOLEAN]
StepRow == [status : {"none", "pending", "running"} \cup Over, applied : BOOLEAN,
            reported : BOOLEAN, lost : BOOLEAN]
Surface == [marker : {"none", "job", "recovery"},
            state : {"absent", "held", "pending", "restored"}, active : BOOLEAN]
WorkerState == [pc : WorkerPcs, pos : 1 .. 4, failed : BOOLEAN, unproved : BOOLEAN,
                ok : BOOLEAN, loop : BOOLEAN]
HostState == [dirty : BOOLEAN, armed : Nat, proving : Nat, receipt : Nat]

Idle == [pc |-> "down", pos |-> 1, failed |-> FALSE, unproved |-> FALSE,
         ok |-> FALSE, loop |-> FALSE]

(* The type invariant.                                                     *)
TypeOK ==
    /\ order \in Orders
    /\ job \in JobRow
    /\ step \in [Streams -> StepRow]
    /\ surf \in Surface
    /\ w \in WorkerState
    /\ helper \in Streams \cup {"none"}
    /\ finalizer \in Finalizers
    /\ host \in HostState
    /\ epoch \in Nat
    /\ wait \in {"none", "grace", "minute"}
    /\ faults \in 0 .. MaxFaults

Selected == {order[i] : i \in DOMAIN order}
Position(s) == CHOOSE i \in DOMAIN order : order[i] = s
(* status_legacy_execution_order.                                          *)
Legacy == job.legacy

Init ==
    /\ order \in Orders
    /\ \E old \in BOOLEAN :
         /\ IF old THEN Historical(order) ELSE Current(order)
         /\ job = [status |-> "pending", restart |-> FALSE, fin |-> 0, attempts |-> 0,
                   confirmed |-> FALSE, raised |-> FALSE, legacy |-> old]
    /\ step = [s \in Streams |->
                  [status |-> IF s \in Selected THEN "pending" ELSE "none",
                   applied |-> FALSE, reported |-> FALSE, lost |-> FALSE]]
    /\ surf = [marker |-> "none", state |-> "absent", active |-> FALSE]
    /\ w = Idle
    /\ helper = "none" /\ finalizer = "none"
    /\ host = [dirty |-> FALSE, armed |-> 0, proving |-> 0, receipt |-> 0]
    /\ epoch = 0 /\ wait = "none" /\ faults = 0

Fault == /\ faults < MaxFaults
         /\ faults' = faults + 1

Goto(pc) == w' = [w EXCEPT !.pc = pc]

-----------------------------------------------------------------------------
(* The privileged status surface.                                          *)

(* _publish_appliance_update_status: the snapshot is written first, the    *)
(* marker and the nginx guards next, and the listeners proved; a failure   *)
(* takes the marker back only if this publication had put it there and     *)
(* nginx reloads.                                                          *)
Noted == [surf EXCEPT !.state = IF @ = "absent" THEN "held" ELSE @]
Publish(ok) ==
    \/ /\ ok
       /\ surf' = [Noted EXCEPT !.marker = "job", !.active = TRUE]
       /\ UNCHANGED faults
    \/ /\ ~ok /\ Fault
       /\ surf' \in {Noted, [Noted EXCEPT !.marker = "job"]}

(* apply_started in the result of a child: the mark of before_apply, until *)
(* the result of an exception overwrites it.                               *)
ApplyStarted(child) == child.applied /\ ~child.lost

(* _verify_release_status_completion: a release whose apply phase started  *)
(* needs definitive evidence, or proof that no transaction ever began.     *)
ReleaseSettled ==
    ApplyStarted(step["release"]) =>
        \/ finalizer \in {"restarted", "nochange", "rolledback"}
        \/ finalizer = "none" /\ step["release"].status \in {"failed", "skipped"}

(* _finish_appliance_update_status: what it demands of the hierarchy.      *)
MayFinishParent == job.status \in Terminal
MayFinish == /\ job.status \in Terminal
             /\ \A s \in Selected : step[s].status \in Over
             /\ ReleaseSettled

(* _guard_appliance_update_status_startup, before nginx starts: a parent   *)
(* state the renderer does not know is taken for corrupt evidence.         *)
GuardedMarker ==
    CASE surf.state = "absent" -> "none"
      [] surf.state # "absent" /\ job.status = "cancelled" -> "recovery"
      [] surf.state # "absent" /\ job.status # "cancelled" ->
           IF ~surf.active \/ (job.status \in Terminal /\ surf.state = "restored")
           THEN "none" ELSE "job"

-----------------------------------------------------------------------------
(* The outcome of a run, computed from its children f (aggregate_...).     *)

AllSucceeded(f) == \A s \in Selected : f[s].status = "succeeded"

PhotonInstalled(f) == f["photon"].status = "succeeded"
PhotonChanged(f) == f["photon"].status = "succeeded" \/ ApplyStarted(f["photon"])

(* The release transaction restarted the worker after Photon had changed.  *)
ReleaseRestarted == finalizer \in {"restarted", "refuted"}
Covered == /\ ReleaseRestarted
           /\ {"photon", "release"} \subseteq Selected
           /\ Position("release") > Position("photon")

NeedsRestart(f) ==
    \/ PhotonChanged(f) /\ ~Covered
    \/ /\ ~ReleaseRestarted /\ AllSucceeded(f)
       /\ "release" \in Selected /\ finalizer # "nochange"

(* complete_appliance_update_task, its first commit.  A restart with no    *)
(* recorded dispatch waits from the completion time.                       *)
Complete(f, success, restart) ==
    /\ job' = [job EXCEPT !.status = IF success THEN "succeeded" ELSE "failed",
                          !.restart = restart, !.fin = epoch]
    /\ wait' = IF restart THEN "grace" ELSE wait
    /\ w' = [w EXCEPT !.pc = IF restart THEN "dispatch" ELSE "surface",
                      !.loop = FALSE]

(* _terminalize_incomplete_appliance_update_steps and _fail_job.           *)
EndedSteps(f) == [s \in Streams |->
    CASE f[s].status = "running" -> [f[s] EXCEPT !.status = "failed"]
      [] f[s].status = "pending" -> [f[s] EXCEPT !.status = "skipped"]
      [] OTHER -> f[s]]
RestartOwed(f) == \/ f["photon"].status = "succeeded"
                  \/ f["photon"].status = "running" /\ ApplyStarted(f["photon"])
FailJob(raised) ==
    /\ job' = [job EXCEPT !.status = "failed", !.fin = epoch, !.raised = raised,
                          !.restart = @ \/ RestartOwed(step)]
    /\ step' = EndedSteps(step)

-----------------------------------------------------------------------------
(* _run_appliance_update.                                                  *)

(* The hold is published before any stream.                                *)
Begin ==
    /\ w.pc = "begin"
    /\ \E ok \in BOOLEAN :
          /\ Publish(ok)
          /\ w' = [w EXCEPT !.pc = "stream", !.pos = 1, !.failed = ~ok, !.unproved = ~ok]
    /\ UNCHANGED <<order, job, step, helper, finalizer, host, epoch, wait>>

Stream == order[w.pos]

(* A child that ended before a restart is reused; after a failure the rest *)
(* is skipped (a legacy order skips only Photon); otherwise it starts.     *)
TakeStream ==
    /\ w.pc = "stream" /\ w.pos <= Len(order)
    /\ \/ /\ step[Stream].status \in Over
          /\ w' = [w EXCEPT !.pos = @ + 1,
                            !.failed = @ \/ step[Stream].status # "succeeded"]
          /\ UNCHANGED step
       \/ /\ step[Stream].status \notin Over
          /\ w.failed /\ (~Legacy \/ Stream = "photon")
          /\ step' = [step EXCEPT ![Stream] = [@ EXCEPT !.status = "skipped",
                                                        !.reported = TRUE]]
          /\ w' = [w EXCEPT !.pc = "report"]
       \/ /\ step[Stream].status \notin Over
          /\ ~(w.failed /\ (~Legacy \/ Stream = "photon"))
          /\ step' = [step EXCEPT ![Stream].status = "running"]
          /\ Goto("announce")
    /\ UNCHANGED <<order, job, surf, helper, finalizer, host, epoch, wait, faults>>

(* The hold is proved again for the running child, or the child fails.     *)
AnnouncedAnyway(ok) == [w EXCEPT !.pc = "check", !.unproved = ~ok]
Announced(ok) == IF ok THEN [w EXCEPT !.pc = "check"]
                 ELSE [w EXCEPT !.pc = "record", !.ok = FALSE, !.failed = TRUE,
                                !.unproved = TRUE]
Announce ==
    /\ w.pc = "announce"
    /\ \E ok \in BOOLEAN : Publish(ok) /\ w' = Announced(ok)
    /\ UNCHANGED <<order, job, step, helper, finalizer, host, epoch, wait>>

(* execute_appliance_update_job: the check phase, whose helper may fail or *)
(* stay unresolved (the job is then held), and before_apply, the durable   *)
(* mark that the apply phase begins.                                       *)
CheckPhase ==
    /\ w.pc = "check"
    /\ \/ /\ step' = [step EXCEPT ![Stream].applied = TRUE]
          /\ Goto("apply")
          /\ UNCHANGED faults
       \/ /\ w' = [w EXCEPT !.pc = "record", !.ok = FALSE]
          /\ UNCHANGED <<step, faults>>
       \/ /\ Fault
          /\ Goto("loop")
          /\ UNCHANGED step
    /\ UNCHANGED <<order, job, surf, helper, finalizer, host, epoch, wait>>

(* The apply unit starts; Photon's may change packages from here on.       *)
ApplyPhase ==
    /\ w.pc = "apply"
    /\ helper' = Stream
    /\ host' = [host EXCEPT !.dirty = @ \/ Stream = "photon"]
    /\ Goto("applying")
    /\ UNCHANGED <<order, job, step, surf, finalizer, epoch, wait, faults>>

ApplyReturns ==
    /\ w.pc = "applying" /\ helper # "release"
    /\ helper' = "none"
    /\ \E ok \in BOOLEAN : w' = [w EXCEPT !.pc = "record", !.ok = ok]
    /\ UNCHANGED <<order, job, step, surf, finalizer, host, epoch, wait, faults>>

(* _complete_appliance_update_step ...                                     *)
RecordStep ==
    /\ w.pc = "record"
    /\ step' = [step EXCEPT ![Stream] =
                   [@ EXCEPT !.status = IF w.ok THEN "succeeded" ELSE "failed",
                             !.reported = TRUE]]
    /\ w' = [w EXCEPT !.pc = "report", !.failed = @ \/ ~w.ok]
    /\ UNCHANGED <<order, job, surf, helper, finalizer, host, epoch, wait, faults>>

(* ... of the result an exception after before_apply is turned into (the   *)
(* unit does not start, its output does not decode, its credentials cannot *)
(* be unlinked): appliance_update_exception_result has no apply_started.   *)
ApplyRaises ==
    /\ w.pc \in {"apply", "record"} /\ step[Stream].applied /\ Fault
    /\ step' = [step EXCEPT ![Stream] = [@ EXCEPT !.status = "failed", !.reported = TRUE,
                                                 !.lost = TRUE]]
    /\ w' = [w EXCEPT !.pc = "report", !.failed = TRUE]
    /\ UNCHANGED <<order, job, surf, helper, finalizer, host, epoch, wait>>

(* ... and the publication that follows it.                                *)
ReportStep ==
    /\ w.pc = "report"
    /\ \E ok \in BOOLEAN :
          /\ Publish(ok)
          /\ w' = [w EXCEPT !.pc = "stream", !.pos = @ + 1, !.failed = @ \/ ~ok,
                            !.unproved = @ \/ ~ok]
    /\ UNCHANGED <<order, job, step, helper, finalizer, host, epoch, wait>>

CompleteRun ==
    /\ w.pc = "stream" /\ w.pos > Len(order)
    /\ Complete(step, AllSucceeded(step), NeedsRestart(step))
    /\ UNCHANGED <<order, step, surf, helper, finalizer, host, epoch, faults>>

(* An exception that escapes the bookkeeping of a stream, and the handler  *)
(* of run_worker_once that fails the job.                                  *)
Raise ==
    /\ w.pc \in {"stream", "record", "report"} /\ job.status = "running" /\ Fault
    /\ Goto("raised")
    /\ UNCHANGED <<order, job, step, surf, helper, finalizer, host, epoch, wait>>

HandleRaise ==
    /\ w.pc = "raised"
    /\ FailJob(TRUE)
    /\ Goto("loop")
    /\ UNCHANGED <<order, surf, helper, finalizer, host, epoch, wait, faults>>

-----------------------------------------------------------------------------
(* After the first commit of the completion.                               *)

(* The dispatch is recorded before the helper is asked ...                 *)
DispatchRestart ==
    /\ w.pc = "dispatch"
    /\ wait' = "grace"
    /\ Goto("schedule")
    /\ UNCHANGED <<order, job, step, surf, helper, finalizer, host, epoch, faults>>

(* ... to unlink the old receipt and schedule the delayed restart; a       *)
(* refusal proves that nothing was scheduled.                              *)
ScheduleRestart ==
    /\ w.pc = "schedule"
    /\ \/ /\ host' = [host EXCEPT !.armed = @ + 1, !.receipt = 0]
          /\ UNCHANGED <<job, wait, faults>>
       \/ /\ Fault
          /\ host' = [host EXCEPT !.receipt = 0]
          /\ job' = [job EXCEPT !.status = "failed"]
          /\ wait' = "none"
    /\ Goto("surface")
    /\ UNCHANGED <<order, step, surf, helper, finalizer, epoch>>

(* A surface that could not be proved throughout fails the job; without a  *)
(* restart the ordinary UIs are restored at once.                          *)
SettleSurface ==
    /\ w.pc = "surface"
    /\ IF w.unproved THEN FailJob(FALSE) ELSE UNCHANGED <<job, step>>
    /\ Goto(IF job.restart THEN "loop" ELSE "finish")
    /\ UNCHANGED <<order, surf, helper, finalizer, host, epoch, wait, faults>>

(* status-finish: the snapshot says pending before the marker goes.        *)
FinishBegin ==
    /\ w.pc = "finish" /\ MayFinish
    /\ \/ /\ surf.marker = "none" /\ (surf.state = "restored" \/ ~surf.active)
          /\ surf' = [surf EXCEPT !.state = "restored"]
          /\ Goto("loop")
       \/ /\ surf.marker = "job" \/ (surf.state # "restored" /\ surf.active)
          /\ surf' = [surf EXCEPT !.state = "pending", !.marker = "none"]
          /\ Goto("finishing")
    /\ UNCHANGED <<order, job, step, helper, finalizer, host, epoch, wait, faults>>

FinishEnd ==
    /\ w.pc = "finishing"
    /\ surf' = [surf EXCEPT !.state = "restored"]
    /\ Goto("loop")
    /\ UNCHANGED <<order, job, step, helper, finalizer, host, epoch, wait, faults>>

(* nginx did not validate, reload or answer: the marker returns.  Only the *)
(* run's own attempt turns a success into a failure.                       *)
FinishFails ==
    /\ \/ /\ w.pc = "finish"
          /\ (~MayFinish /\ UNCHANGED faults) \/ (MayFinish /\ Fault)
          /\ UNCHANGED surf
       \/ /\ w.pc = "finishing" /\ Fault
          /\ surf' = [surf EXCEPT !.marker = "job"]
    /\ IF ~w.loop /\ job.status = "succeeded" THEN FailJob(FALSE)
       ELSE UNCHANGED <<job, step>>
    /\ Goto("loop")
    /\ UNCHANGED <<order, helper, finalizer, host, epoch, wait>>

-----------------------------------------------------------------------------
(* run_worker_once: _reconcile_appliance_update_status_surface first.      *)

(* The surface names this job, by its marker or by the durable snapshot.   *)
Held == \/ surf.marker = "job"
        \/ surf.marker = "none" /\ surf.state \in {"held", "pending"}

(* A cancelled parent under a hold is failed.                              *)
FailCancelled ==
    /\ w.pc = "loop" /\ Held /\ job.status = "cancelled"
    /\ FailJob(FALSE)
    /\ UNCHANGED <<order, surf, w, helper, finalizer, host, epoch, wait, faults>>

(* The receipt of an all-service restart after the job's end names this    *)
(* very worker.                                                            *)
ReceiptMatches == host.receipt = epoch
RestartProved == job.restart => ReceiptMatches /\ epoch > job.fin

RestoreUI ==
    /\ w.pc = "loop" /\ Held /\ job.status \in Terminal
    /\ RestartProved
    /\ w' = [w EXCEPT !.pc = "finish", !.loop = TRUE]
    /\ UNCHANGED <<order, job, step, surf, helper, finalizer, host, epoch, wait, faults>>

(* _retry_appliance_update_restart: persisted before the helper is called. *)
RetryNow == job.attempts < 3
RetryFourth == wait = "none" /\ job.attempts <= 3
RetryDue == wait = "none" /\ job.attempts < 3

RetryRestart ==
    /\ w.pc = "loop" /\ Held /\ job.status \in Terminal
    /\ job.restart /\ ~ReceiptMatches
    /\ RetryDue
    /\ job' = [job EXCEPT !.attempts = @ + 1]
    /\ wait' = "grace"
    /\ Goto("retry")
    /\ UNCHANGED <<order, step, surf, helper, finalizer, host, epoch, faults>>

RetrySchedule ==
    /\ w.pc = "retry"
    /\ \/ /\ host' = [host EXCEPT !.armed = @ + 1, !.receipt = 0]
          /\ UNCHANGED <<wait, faults>>
       \/ /\ Fault
          /\ host' = [host EXCEPT !.receipt = 0]
          /\ wait' = "minute"
    /\ Goto("loop")
    /\ UNCHANGED <<order, job, step, surf, helper, finalizer, epoch>>

(* claim_next_job, once the surface lets the worker go on.  The code would *)
(* publish a proved hold again whose marker vanished under a pending job;  *)
(* the pre-start guard recreates the marker, so that never happens.        *)
AdmitUnheld == surf.marker = "none" /\ surf.state = "absent"
Admits == \/ surf.marker = "job"
          \/ /\ surf.marker = "none"
             /\ surf.state \in {"absent", "restored"} \/ (surf.state = "held" /\ ~surf.active)

Claim ==
    /\ w.pc = "loop" /\ job.status = "pending" /\ Admits
    /\ job' = [job EXCEPT !.status = "running"]
    /\ Goto("begin")
    /\ UNCHANGED <<order, step, surf, helper, finalizer, host, epoch, wait, faults>>

(* task_cancellation.finish_pending on this job, which may be a resumed    *)
(* one: the untouched children are skipped.                                *)
CancelPending ==
    /\ job.status = "pending"
    /\ job' = [job EXCEPT !.status = "cancelled", !.confirmed = TRUE, !.fin = epoch]
    /\ step' = EndedSteps(step)
    /\ UNCHANGED <<order, surf, w, helper, finalizer, host, epoch, wait, faults>>

-----------------------------------------------------------------------------
(* Startup: main and recover_interrupted_worker_jobs.                      *)

(* _write_worker_startup_status publishes the new incarnation.             *)
Start ==
    /\ w.pc = "down"
    /\ epoch' = epoch + 1
    /\ w' = [Idle EXCEPT !.pc = "gate"]
    /\ UNCHANGED <<order, job, step, surf, helper, finalizer, host, wait, faults>>

(* _wait_for_release_restart_finalizer.                                    *)
PassGate ==
    /\ w.pc = "gate" /\ finalizer # "pending"
    /\ Goto("recover")
    /\ UNCHANGED <<order, job, step, surf, helper, finalizer, host, epoch, wait, faults>>

Definitive == finalizer \in {"restarted", "nochange", "rolledback", "refuted"}
Interrupted == \/ job.status = "running"
               \/ job.status = "succeeded" /\ finalizer = "refuted"

RecoverNothing ==
    /\ w.pc = "recover" /\ ~Interrupted
    /\ Goto("loop")
    /\ UNCHANGED <<order, job, step, surf, helper, finalizer, host, epoch, wait, faults>>

(* The release child as its definitive evidence says.                      *)
WithEvidence(f) ==
    IF Definitive /\ "release" \in Selected
    THEN [f EXCEPT !["release"].status =
             IF finalizer \in {"restarted", "nochange"} THEN "succeeded" ELSE "failed"]
    ELSE f

(* resumable_between_children, and resume_pending_children after a release *)
(* that ended well or was rolled back to a worker that can go on.          *)
ResumableAnyway == /\ ~Definitive
                   /\ \E s \in Selected : step[s].status = "pending"
Resumable ==
    \/ /\ ~Definitive
       /\ \E s \in Selected : step[s].status = "pending"
       /\ \A s \in Selected : step[s].status \in {"pending", "succeeded"}
    \/ /\ Definitive /\ finalizer # "refuted"
       /\ \E s \in Selected \ {"release"} : step[s].status = "pending"
       /\ \A s \in Selected \ {"release"} : step[s].status # "running"

ResumeJob ==
    /\ w.pc = "recover" /\ Interrupted /\ Resumable
    /\ job' = [job EXCEPT !.status = "pending"]
    /\ step' = WithEvidence(step)
    /\ Goto("loop")
    /\ UNCHANGED <<order, surf, helper, finalizer, host, epoch, wait, faults>>

(* Otherwise every interrupted child's unit is stopped first; if that      *)
(* cannot be verified the hierarchy stays as it is, with its hold.         *)
Quiesced(f) == \A s \in Selected : f[s].status = "running" => helper # s

QuiesceHelper ==
    /\ w.pc = "recover" /\ Interrupted /\ ~Resumable
    /\ ~Quiesced(WithEvidence(step))
    /\ \/ helper' = "none" /\ UNCHANGED <<step, w, faults>>
       \/ /\ Fault
          /\ step' = WithEvidence(step)
          /\ Goto("loop")
          /\ UNCHANGED helper
    /\ UNCHANGED <<order, job, surf, finalizer, host, epoch, wait>>

(* A rollback to a worker too old to keep terminal children skips them.    *)
RestoredTooOld == finalizer = "rolledback" /\ Resumable

CompleteRecovered ==
    /\ w.pc = "recover" /\ Interrupted /\ (~Resumable \/ RestoredTooOld)
    /\ Quiesced(WithEvidence(step))
    /\ LET ended == EndedSteps(WithEvidence(step))
           begun == step["photon"].status = "running" /\ ApplyStarted(step["photon"])
       IN /\ step' = ended
          /\ Complete(ended, Definitive /\ AllSucceeded(ended),
                      NeedsRestart(ended) \/ (~Definitive /\ begun))
    /\ UNCHANGED <<order, surf, helper, finalizer, host, epoch, faults>>

-----------------------------------------------------------------------------
(* The host.                                                               *)

(* The release transaction, seen through its finalizer: it fails before it *)
(* begins, finds nothing to change, or begins ...                          *)
ReleaseEndsEarly ==
    /\ w.pc = "applying" /\ helper = "release" /\ finalizer = "none"
    /\ helper' = "none"
    /\ \/ /\ w' = [w EXCEPT !.pc = "record", !.ok = FALSE]
          /\ UNCHANGED finalizer
       \/ /\ w' = [w EXCEPT !.pc = "record", !.ok = TRUE]
          /\ finalizer' = "nochange"
    /\ UNCHANGED <<order, job, step, surf, host, epoch, wait, faults>>

ReleaseBegins ==
    /\ helper = "release" /\ finalizer = "none"
    /\ finalizer' = "pending"
    /\ UNCHANGED <<order, job, step, surf, w, helper, host, epoch, wait, faults>>

(* ... restarts the worker through the candidate, which commits it ...     *)
ReleaseRestartsWorker ==
    /\ finalizer = "pending" /\ w.pc = "applying"
    /\ w' = Idle
    /\ UNCHANGED <<order, job, step, surf, helper, finalizer, host, epoch, wait, faults>>

ReleaseCommits ==
    /\ finalizer = "pending" /\ w.pc = "gate"
    /\ finalizer' = "restarted" /\ helper' = "none"
    /\ host' = [host EXCEPT !.dirty = FALSE]
    /\ UNCHANGED <<order, job, step, surf, w, epoch, wait, faults>>

(* ... or is rolled back, by its helper or by pre-start recovery.          *)
ReleaseRollsBack ==
    /\ finalizer = "pending"
    /\ finalizer' = "rolledback" /\ helper' = "none"
    /\ w' = IF w.pc = "applying" THEN [w EXCEPT !.pc = "record", !.ok = FALSE] ELSE w
    /\ UNCHANGED <<order, job, step, surf, host, epoch, wait, faults>>

(* reconcile_release_success_finalizer will find the links or the receipt  *)
(* of a committed release changed.                                         *)
EvidenceBreaks ==
    /\ finalizer = "restarted" /\ Fault
    /\ finalizer' = "refuted"
    /\ UNCHANGED <<order, job, step, surf, w, helper, host, epoch, wait>>

(* A unit the worker no longer waits for ends by itself.                   *)
HelperExits ==
    /\ helper # "none" /\ w.pc # "applying" /\ finalizer # "pending"
    /\ helper' = "none"
    /\ UNCHANGED <<order, job, step, surf, w, finalizer, host, epoch, wait, faults>>

(* _complete_atlaso_service_restart: every service restarts, and the unit  *)
(* waits for the new worker's startup identity.                            *)
RestartFires ==
    /\ host.armed > 0
    /\ host' = [host EXCEPT !.armed = @ - 1, !.proving = @ + 1, !.dirty = FALSE]
    /\ w' = Idle
    /\ UNCHANGED <<order, job, step, surf, helper, finalizer, epoch, wait, faults>>

RestartProves ==
    /\ host.proving > 0 /\ w.pc # "down"
    /\ host' = [host EXCEPT !.proving = @ - 1, !.receipt = epoch]
    /\ UNCHANGED <<order, job, step, surf, w, helper, finalizer, epoch, wait, faults>>

RestartUnproved ==
    /\ host.proving > 0 /\ Fault
    /\ host' = [host EXCEPT !.proving = @ - 1]
    /\ UNCHANGED <<order, job, step, surf, w, helper, finalizer, epoch, wait>>

(* The grace period outlasts the scheduling call, the unit and its proof   *)
(* (APPLIANCE_UPDATE_RESTART_COMPLETION_GRACE_SECONDS).                    *)
WaitElapses ==
    /\ wait # "none"
    /\ wait = "grace" => /\ host.armed + host.proving = 0
                         /\ w.pc \notin {"dispatch", "schedule", "retry"}
    /\ wait' = "none"
    /\ UNCHANGED <<order, job, step, surf, w, helper, finalizer, host, epoch, faults>>

Crash ==
    /\ w.pc # "down" /\ Fault
    /\ w' = Idle
    /\ UNCHANGED <<order, job, step, surf, helper, finalizer, host, epoch, wait>>

Reboot ==
    /\ Fault
    /\ w' = Idle
    /\ helper' = "none"
    /\ host' = [host EXCEPT !.dirty = FALSE, !.armed = 0, !.proving = 0]
    /\ surf' = [surf EXCEPT !.marker = GuardedMarker]
    /\ UNCHANGED <<order, job, step, finalizer, epoch, wait>>

-----------------------------------------------------------------------------
Worker == \/ Start \/ PassGate \/ RecoverNothing \/ ResumeJob \/ QuiesceHelper
          \/ CompleteRecovered
          \/ FailCancelled \/ RestoreUI \/ RetryRestart \/ RetrySchedule
          \/ Claim
          \/ Begin \/ TakeStream \/ Announce \/ CheckPhase \/ ApplyPhase
          \/ ApplyReturns \/ RecordStep \/ ApplyRaises \/ ReportStep \/ CompleteRun
          \/ Raise \/ HandleRaise
          \/ DispatchRestart \/ ScheduleRestart \/ SettleSurface
          \/ FinishBegin \/ FinishEnd \/ FinishFails

Release == \/ ReleaseEndsEarly \/ ReleaseBegins \/ ReleaseRestartsWorker
           \/ ReleaseCommits \/ ReleaseRollsBack

Restart == RestartFires \/ RestartProves \/ RestartUnproved

Next == \/ Worker \/ Release \/ Restart \/ WaitElapses \/ CancelPending
        \/ EvidenceBreaks \/ HelperExits \/ Crash \/ Reboot

Spec == Init /\ [][Next]_vars

(* systemd restarts the worker and runs its timers; every helper has a     *)
(* deadline; time passes.                                                  *)
FairSpec == /\ Spec
            /\ WF_vars(Worker) /\ WF_vars(Release) /\ WF_vars(Restart)
            /\ WF_vars(WaitElapses)

-----------------------------------------------------------------------------
(* Properties.                                                             *)

(* An installer runs only behind the update-only surface: no apply unit is *)
(* alive unless the marker names the task and its listeners were proved,   *)
(* across failed publications, crashes, reboots and resumed tasks.         *)
ApplyUnderHold == helper # "none" => surf.marker = "job" /\ surf.active

(* A child that started is never replayed (docs/operate/appliance-update:  *)
(* "a child that started is never replayed"): whatever died in between,    *)
(* the worker only ever starts a child that no incarnation has started.    *)
NeverReplayed == [][w.pc = "stream" /\ w'.pc = "announce" =>
                        step[Stream].status = "pending" /\ ~step[Stream].applied]_vars

(* The ordinary UIs return only over a quiet appliance: the parent and its *)
(* children have ended, no apply unit lives, no release transaction is     *)
(* open and no delayed restart is still to come (unless a startup refuted  *)
(* the release afterwards).                                                *)
RestoredIsQuiet == surf.state = "restored" =>
    /\ job.status \in Terminal
    /\ \A s \in Selected : step[s].status \in Over
    /\ helper = "none" /\ finalizer # "pending"
    /\ finalizer = "refuted" \/ host.armed + host.proving = 0

(* A changed Photon OS is followed by a restart of every service before    *)
(* the ordinary UIs return: also when the worker died, or its bookkeeping  *)
(* raised, while the child ran.  The exceptions are the two states that    *)
(* FailedApplyRestarts is about, both of a child recorded as failed: an    *)
(* exception failed the job after that record, or was itself recorded in   *)
(* place of the evidence that the apply phase had started.                 *)
RestartDutyKept == surf.state = "restored" /\ host.dirty =>
    /\ step["photon"].status = "failed" /\ step["photon"].reported
    /\ job.raised \/ step["photon"].lost

(* Retries never run two delayed restarts at once, whatever was lost of    *)
(* the first one's records; only a startup that refutes the release of a   *)
(* succeeded job completes it a second time.                               *)
NoDuplicateRestart == finalizer # "refuted" => host.armed + host.proving <= 1

(* Nobody but an operator can go on: retries are used up, the evidence is  *)
(* corrupt, or a running job's helper could not be stopped.                *)
Attention == \/ job.attempts = 3 \/ surf.marker = "recovery" \/ finalizer = "refuted"
             \/ job.status = "running" /\ w.pc = "loop"

(* The hold is not kept for ever: once published it is released, or the    *)
(* appliance waits for its operator.                                       *)
HoldReleased == surf.state = "held" ~> (surf.state = "restored" \/ Attention)

(* docs/operate/appliance-update.md: "A failed Photon helper result        *)
(* retains the same restart duty because partial package or Python-        *)
(* environment mutation cannot be excluded."                               *)
FailedApplyRestarts == surf.state = "restored" => ~host.dirty
=============================================================================
