---------------------------- MODULE ApplianceApply ----------------------------
(***************************************************************************)
(* The global appliance apply: one master task at a time applies a plan of *)
(* components through the privileged helper                                *)
(*                                                                         *)
(*   atlaso/app/ui.py        _submit_appliance_apply,                      *)
(*       run_appliance_apply_job, execute_management_handoff,              *)
(*       execute_traffic_publishing_pair, active_appliance_apply_job,      *)
(*       recover_interrupted_appliance_apply_jobs                          *)
(*   scripts/appliance/atlaso-helper   management-handoff and              *)
(*       nat ...-publishing: journal, receipt, transient apply unit        *)
(*                                                                         *)
(* Two parts of a plan are protected, the management handoff and the pair  *)
(* of Firewall and Traffic Publishing: the helper journals what ran        *)
(* before, the database records the new baselines, and an acknowledgement  *)
(* closes the journal.  Every other part is applied in place.  One action  *)
(* is one committed transaction or one helper call; the web process, the   *)
(* appliance and the helper's units stop between any two of them.          *)
(***************************************************************************)
EXTENDS Integers, Sequences, FiniteSets

CONSTANTS
    MaxJobs,    \* bound: master tasks ever submitted
    Procs,      \* processes that execute a master task; "web" is one of them
    Plans,      \* what an administrator may select, in execution order
    MaxEdits,   \* bound: changes of the desired state
    MaxFaults   \* bound: crashes, reboots, failures and lost answers

Jobs  == 1 .. MaxJobs
NoJob == 0

(* The parts of a plan, each with the configuration it changes: the        *)
(* management units, Firewall with Traffic Publishing, any other unit.     *)
Protected == {"handoff", "pair"}
Items     == Protected \cup {"unit"}

(* _submit_appliance_apply: something is selected, and a plan with the     *)
(* management handoff has no publishing pair.                              *)
ASSUME ApplyConstants ==
    /\ "web" \in Procs
    /\ MaxJobs \in Nat /\ MaxEdits \in Nat /\ MaxFaults \in Nat
    /\ Plans \subseteq Seq(Items) \ {<<>>}
    /\ \A plan \in Plans : \A m, n \in DOMAIN plan :
           plan[m] \in Protected /\ plan[n] \in Protected => m = n

Versions == 0 .. MaxEdits + 1
Mixed    == -1                      \* partly changed
Values   == Versions \cup {Mixed}

VARIABLES
    desired,   \* version the administrators have saved
    baseline,  \* version recorded as applied
    runtime,   \* version that runs
    job,       \* the master tasks in the database
    exec,      \* run_appliance_apply_job in each process
    web,       \* the web process
    recovery,  \* answers the startup recovery has collected
    journal,   \* the helper's durable transaction of each protected part
    faults

vars == <<desired, baseline, runtime, job, exec, web, recovery, journal, faults>>

NewJob == [status |-> "new", plan |-> <<>>, captured |-> [i \in Items |-> 0],
           steps |-> <<>>, cancel |-> "no", flag |-> "clear"]

(* local variables of run_appliance_apply_job: `pending' and `committed'   *)
(* are handoff_runtime_pending and handoff_application_committed.          *)
Idle == [pc |-> "idle", job |-> NoJob, at |-> 0, end |-> "none",
         pending |-> FALSE, committed |-> FALSE, answer |-> "none"]

NoJournal == [owner |-> NoJob, phase |-> "none", prior |-> 0, restored |-> FALSE,
              receipt |-> NoJob, unit |-> "none", by |-> NoJob, result |-> "none"]

Pcs == {"idle", "claim", "check", "loop", "flag", "validate", "wait", "recover",
        "commit", "ack", "settle", "failed", "paired", "unit", "applied",
        "broken", "final", "audit", "pairraise", "paircleanup", "raise", "handle"}
Answers  == {"none", "ok", "rolled back", "nothing", "unproven"}
Statuses == {"new", "pending", "running", "succeeded", "failed", "cancelled"}

StepStates == {"pending", "running", "succeeded", "failed", "skipped"}

JobRow == [status : Statuses, plan : Plans \cup {<<>>}, captured : [Items -> Versions],
           steps : Seq(StepStates),
           cancel : {"no", "requested", "confirmed", "completion-won"},
           flag : {"clear", "pending", "committed"}]
ExecRow == [pc : Pcs, job : Jobs \cup {NoJob}, at : Nat,
            end : {"none", "failed", "cancelled"}, pending : BOOLEAN,
            committed : BOOLEAN, answer : Answers]
Journal == [owner : Jobs \cup {NoJob}, phase : {"none", "open", "awaiting"},
            prior : Values, restored : BOOLEAN, receipt : Jobs \cup {NoJob},
            unit : {"none", "started", "changing"}, by : Jobs \cup {NoJob},
            result : {"none", "ok", "rolled back", "failed"}]

(* The type invariant; a task has a step for each part of its plan, and a  *)
(* journal in use names its owner.                                         *)
TypeOK ==
    /\ desired \in [Items -> Versions] /\ baseline \in [Items -> Versions]
    /\ runtime \in [Items -> Values]
    /\ job \in [Jobs -> JobRow]
    /\ \A j \in Jobs : DOMAIN job[j].steps = DOMAIN job[j].plan
    /\ exec \in [Procs -> ExecRow]
    /\ web \in {"up", "down", "starting"}
    /\ recovery \in [Jobs -> Answers \cup {"idle", "todo"}]
    /\ journal \in [Protected -> Journal]
    /\ \A k \in Protected : journal[k].phase # "none" => journal[k].owner \in Jobs
    /\ faults \in 0 .. MaxFaults

(* Every item has an unapplied change.                                     *)
Init ==
    /\ desired = [i \in Items |-> 1] /\ baseline = [i \in Items |-> 0]
    /\ runtime = baseline
    /\ job = [j \in Jobs |-> NewJob]
    /\ exec = [p \in Procs |-> Idle]
    /\ web = "up"
    /\ recovery = [j \in Jobs |-> "idle"]
    /\ journal = [k \in Protected |-> NoJournal]
    /\ faults = 0

Spend(n) == /\ faults + n <= MaxFaults
            /\ faults' = faults + n

Active(j) == job[j].status \in {"pending", "running"}

(* active_appliance_apply_job: what holds the global mutation lock.        *)
Holds(j)   == Active(j) \/ job[j].flag # "clear"
Held       == \E j \in Jobs : Holds(j)

Has(j, part) == \E n \in DOMAIN job[j].plan : job[j].plan[n] = part
(* The rows of the handoff are the management units, and Public Services   *)
(* is last in every order: a component after the handoff has a row of it,  *)
(* long completed, behind itself.                                          *)
Trails(j) == \E n \in DOMAIN job[j].plan :
                 n < Len(job[j].plan) /\ job[j].plan[n] = "handoff"
Rest(steps, from, s) == [n \in DOMAIN steps |->
                            IF n >= from /\ steps[n] = "pending" THEN s ELSE steps[n]]
(* The steps of a task that stops: the running one failed.                 *)
Stopped(steps) == [n \in DOMAIN steps |-> CASE steps[n] = "running" -> "failed"
                                            [] steps[n] = "pending" -> "skipped"
                                            [] OTHER -> steps[n]]

-----------------------------------------------------------------------------
(* The administrators and other sessions.                                  *)

Edit(i) ==
    /\ desired["handoff"] + desired["pair"] + desired["unit"] < MaxEdits + 3
    /\ desired' = [desired EXCEPT ![i] = @ + 1]
    /\ UNCHANGED <<baseline, runtime, job, exec, web, recovery, journal, faults>>

Created(j, plan) ==
    job' = [job EXCEPT ![j] = [NewJob EXCEPT
               !.status = "pending", !.plan = plan, !.captured = [i \in Items |-> IF \E n \in DOMAIN plan : plan[n] = i
                                             THEN desired[i] ELSE 0],
               !.steps = [n \in DOMAIN plan |-> "pending"]]]

(* _submit_appliance_apply, under APPLIANCE_APPLY_SUBMIT_LOCK and the      *)
(* middleware's mutation lock; the background task follows the commit.     *)
Submit(j, plan) ==
    /\ web = "up" /\ ~Held
    /\ exec["web"].pc = "idle"
    /\ job[j].status = "new" /\ \A i \in 1 .. j - 1 : job[i].status # "new"
    /\ Created(j, plan)
    /\ exec' = [exec EXCEPT !["web"] = [Idle EXCEPT !.pc = "claim", !.job = j]]
    /\ UNCHANGED <<desired, baseline, runtime, web, recovery, journal, faults>>

(* task_cancellation.request, exempt from the lock.                        *)
RequestCancel(j) ==
    /\ web = "up" /\ Active(j) /\ job[j].cancel = "no"
    /\ job' = [job EXCEPT ![j].cancel = "requested"]
    /\ UNCHANGED <<desired, baseline, runtime, exec, web, recovery, journal, faults>>

PendingStopped(j) ==
    [job[j] EXCEPT !.status = "cancelled", !.cancel = "confirmed",
                   !.steps = Rest(@, 1, "skipped")]

(* finish_pending, by the requester or by the worker's reconcile_requests. *)
FinishPending(j) ==
    /\ job[j].status = "pending" /\ job[j].cancel = "requested"
    /\ job' = [job EXCEPT ![j] = PendingStopped(j)]
    /\ UNCHANGED <<desired, baseline, runtime, exec, web, recovery, journal, faults>>

(* reconcile_requests: a request the completed task overtook.              *)
SettleRequest(j) ==
    /\ ~Active(j) /\ job[j].cancel = "requested"
    /\ job' = [job EXCEPT ![j].cancel =
                  IF job[j].status = "cancelled" THEN "confirmed" ELSE "completion-won"]
    /\ UNCHANGED <<desired, baseline, runtime, exec, web, recovery, journal, faults>>

-----------------------------------------------------------------------------
(* The helper.  `unit' is the transient unit of an apply, which survives   *)
(* its caller; that of the pair holds the NAT transaction lock.            *)

Unowned(k) == [journal[k] EXCEPT !.owner = NoJob, !.restored = FALSE]
Cleared(k) == [journal[k] EXCEPT !.owner = NoJob, !.phase = "none", !.prior = 0,
                                 !.restored = FALSE]
(* A rolled back handoff also loses the receipt of the one before it.      *)
Undone(k)  == IF k = "handoff" THEN [Cleared(k) EXCEPT !.receipt = NoJob]
                               ELSE Cleared(k)
Quiet(k, jr) == [jr EXCEPT !.unit = "none", !.by = NoJob,
                           !.result = IF journal[k].unit = "none" THEN @ ELSE "failed"]

(* What a helper call may leave behind and answer; `cost' is 1 when it     *)
(* fails, or when its answer is lost.                                      *)
Outcome(jr, live, answer, cost) ==
    [jr |-> jr, live |-> live, answer |-> answer, cost |-> cost]

ClearedFirst(k) ==
    {Outcome(Quiet(k, Undone(k)), journal[k].prior, "rolled back", 0),
     Outcome(Quiet(k, Undone(k)), Mixed, "unproven", 1)}

(* _restore_management_handoff, _publishing_restore and the removal of the *)
(* journal: done, done with a failed or lost answer, or incomplete.        *)
Restored(k) ==
    {Outcome(Quiet(k, Undone(k)), journal[k].prior, "rolled back", 0),
     Outcome(Quiet(k, Undone(k)), journal[k].prior, "unproven", 1),
     Outcome(Quiet(k, journal[k]), Mixed, "unproven", 1)}

(* management-handoff recover: the unit is stopped before the journal is   *)
(* read, and nobody is asked whose journal it is.                          *)
RecoverHandoff ==
    {Outcome(journal["handoff"], runtime["handoff"], "unproven", 1)} \cup
    IF journal["handoff"].phase = "none"
    THEN {Outcome(Quiet("handoff", journal["handoff"]), runtime["handoff"], "nothing", 0)}
    ELSE Restored("handoff")

(* _nat_transaction_lock: the unit of an apply holds it to its end.        *)
PairUnlocked == FALSE
PairBusy == journal["pair"].unit # "none"

(* nat recover-publishing j: refused while the unit holds the lock, and to *)
(* anyone but the owner.                                                   *)
RecoverPair(j) ==
    LET jr == journal["pair"]
        same(answer) == {Outcome(jr, runtime["pair"], answer, 0)}
    IN  IF PairBusy THEN same("unproven")
        ELSE IF jr.phase = "none" THEN same("nothing")
        ELSE IF jr.owner # j THEN same("unproven")
        ELSE IF jr.receipt = j THEN {Outcome(Cleared("pair"), runtime["pair"], "ok", 0)}
        ELSE Restored("pair")

Recovered(k, j) == IF k = "handoff" THEN RecoverHandoff ELSE RecoverPair(j)

(* A pair the boot has taken back is installed again by its                *)
(* acknowledgement.                                                        *)
Reinstalled(k, j) == IF journal[k].restored THEN job[j].captured[k] ELSE runtime[k]

(* acknowledge: the receipt is durable before the journal goes, so that a  *)
(* repeated acknowledgement finds one or the other.                        *)
Acknowledged(k, j) ==
    LET jr   == journal[k]
        cand == Reinstalled(k, j)
        sealed == [jr EXCEPT !.receipt = j, !.restored = FALSE]
        done   == [Cleared(k) EXCEPT !.receipt = j]
    IN  IF (k = "pair" /\ PairBusy) \/ (IF jr.phase = "none" THEN jr.receipt # j
                                                      ELSE jr.owner # j \/ jr.phase # "awaiting")
        THEN {Outcome(jr, runtime[k], "unproven", 0)}
        ELSE IF jr.phase = "none"
        THEN {Outcome(jr, runtime[k], "ok", 0), Outcome(jr, runtime[k], "unproven", 1)}
        ELSE {Outcome(done, cand, "ok", 0), Outcome(done, cand, "unproven", 1),
              Outcome(sealed, cand, "unproven", 1),
              Outcome(jr, IF jr.restored THEN Mixed ELSE runtime[k], "unproven", 1)}

Leave(k, o) ==
    /\ journal' = [journal EXCEPT ![k] = o.jr]
    /\ runtime' = [runtime EXCEPT ![k] = o.live]
    /\ Spend(o.cost)

(* _snapshot_management_handoff and the start of _publishing_apply.        *)
Refused(k) ==
    \/ journal[k].phase # "none"
    \/ k = "handoff" /\ journal["pair"].phase # "none"
    \/ k = "pair" /\ journal["pair"].receipt = journal["pair"].by

(* An apply that ends before its snapshot has changed nothing; that of the *)
(* handoff still cleans up after itself, the old receipt included.         *)
Rejected(k) == Quiet(k, IF journal[k].phase = "none" THEN Undone(k) ELSE journal[k])

UnitBegin(k) ==
    /\ journal[k].unit = "started"
    /\ IF Refused(k)
       THEN /\ journal' = [journal EXCEPT ![k] = Rejected(k)]
            /\ UNCHANGED runtime
       ELSE /\ journal' = [journal EXCEPT ![k] =
                  [journal[k] EXCEPT !.owner = journal[k].by, !.phase = "open",
                                     !.prior = runtime[k], !.unit = "changing",
                                     !.receipt = IF k = "handoff" THEN NoJob ELSE @]]
            /\ runtime' = [runtime EXCEPT ![k] = Mixed]
    /\ UNCHANGED <<desired, baseline, job, exec, web, recovery, faults>>

UnitDone(k) ==
    /\ journal[k].unit = "changing"
    /\ runtime' = [runtime EXCEPT ![k] = job[journal[k].by].captured[k]]
    /\ journal' = [journal EXCEPT ![k] =
          [@ EXCEPT !.phase = "awaiting", !.unit = "none", !.by = NoJob, !.result = "ok"]]
    /\ UNCHANGED <<desired, baseline, job, exec, web, recovery, faults>>

(* The apply fails, and has changed nothing, takes itself back, or cannot. *)
UnitFails(k) ==
    /\ \/ /\ journal[k].unit = "started"
          /\ journal' = [journal EXCEPT ![k] = Rejected(k)]
          /\ UNCHANGED runtime
       \/ /\ journal[k].unit = "changing"
          /\ \E o \in Restored(k) :
               /\ journal' = [journal EXCEPT ![k] = [o.jr EXCEPT !.result =
                      IF o.answer = "rolled back" THEN "rolled back" ELSE "failed"]]
               /\ runtime' = [runtime EXCEPT ![k] = o.live]
    /\ Spend(1)
    /\ UNCHANGED <<desired, baseline, job, exec, web, recovery>>

-----------------------------------------------------------------------------
(* run_appliance_apply_job in process p.                                   *)

E(p)     == exec[p]
J(p)     == job[E(p).job]
Part(p)  == J(p).plan[E(p).at]
At(p, pc) == E(p).pc = pc
Goto(p, pc) == exec' = [exec EXCEPT ![p].pc = pc]
Put(p, j) == job' = [job EXCEPT ![E(p).job] = j]

(* The claim loses to a cancellation that was requested first.             *)
Claim(p) ==
    /\ At(p, "claim")
    /\ IF J(p).status = "pending" /\ J(p).cancel = "no"
       THEN Put(p, [J(p) EXCEPT !.status = "running"]) /\ Goto(p, "check")
       ELSE UNCHANGED job /\ exec' = [exec EXCEPT ![p] = Idle]
    /\ UNCHANGED <<desired, baseline, runtime, web, recovery, journal, faults>>

(* Every selected component must still be what was submitted.              *)
Unchanged(p) == \A n \in DOMAIN J(p).plan :
                   desired[J(p).plan[n]] = J(p).captured[J(p).plan[n]]
Check(p) ==
    /\ At(p, "check")
    /\ exec' = [exec EXCEPT ![p].pc = IF Unchanged(p) THEN "loop" ELSE "raise",
                            ![p].at = 1]
    /\ UNCHANGED <<desired, baseline, runtime, job, web, recovery, journal, faults>>

Entry == [handoff |-> "validate", pair |-> "flag", unit |-> "unit"]

(* The head of the loop: the end, a cancellation, or the next component.   *)
Loop(p) ==
    /\ At(p, "loop")
    /\ IF E(p).at > Len(J(p).plan)
       THEN Goto(p, "final") /\ UNCHANGED job
       ELSE IF J(p).cancel = "requested"
       THEN /\ Put(p, [J(p) EXCEPT !.steps = Rest(@, E(p).at, "skipped")])
            /\ exec' = [exec EXCEPT ![p].pc = "final", ![p].end = "cancelled"]
       ELSE /\ Put(p, [J(p) EXCEPT !.steps[E(p).at] = "running"])
            /\ exec' = [exec EXCEPT ![p].pc = Entry[Part(p)],
                                    ![p].pending = @ \/ Part(p) = "handoff"]
    /\ UNCHANGED <<desired, baseline, runtime, web, recovery, journal, faults>>

(* execute_appliance_apply_unit.                                           *)
ApplyUnit(p) ==
    /\ At(p, "unit")
    /\ \/ /\ runtime' = [runtime EXCEPT ![Part(p)] = J(p).captured[Part(p)]]
          /\ Goto(p, "applied") /\ UNCHANGED faults
       \/ /\ runtime' = [runtime EXCEPT ![Part(p)] = Mixed]
          /\ Goto(p, "broken") /\ Spend(1)
    /\ UNCHANGED <<desired, baseline, job, web, recovery, journal>>

(* A request stops the task unless this was its last row; a row the        *)
(* handoff has completed counts.                                           *)
StopsAtEnd(p) == J(p).cancel = "requested"
StopsEarly(p) ==
    /\ J(p).cancel = "requested"
    /\ E(p).at < Len(J(p).plan) \/ Trails(E(p).job)

(* The baseline of an ordinary component is the desired state read again   *)
(* after the helper has run.                                               *)
UnitApplied(p) ==
    LET stop  == StopsEarly(p)
        steps == [J(p).steps EXCEPT ![E(p).at] = "succeeded"]
    IN  /\ At(p, "applied")
        /\ baseline' = [baseline EXCEPT ![Part(p)] = desired[Part(p)]]
        /\ Put(p, [J(p) EXCEPT !.steps = IF stop THEN Rest(steps, 1, "skipped") ELSE steps])
        /\ exec' = [exec EXCEPT ![p] = IF stop
                       THEN [E(p) EXCEPT !.pc = "final", !.end = "cancelled"]
                       ELSE [E(p) EXCEPT !.pc = "loop", !.at = @ + 1]]
        /\ UNCHANGED <<desired, runtime, web, recovery, journal, faults>>

(* A component that failed: the rest is skipped.                           *)
Fails(p, flag) ==
    /\ Put(p, [J(p) EXCEPT !.steps = Stopped([@ EXCEPT ![E(p).at] = "failed"]),
                           !.flag = flag])
    /\ exec' = [exec EXCEPT ![p].pc = "final", ![p].end = "failed"]

UnitBroken(p) ==
    /\ At(p, "broken")
    /\ Fails(p, J(p).flag)
    /\ UNCHANGED <<desired, baseline, runtime, web, recovery, journal, faults>>

(* The pair is marked before its helper is called.                         *)
FlagPair(p) ==
    /\ At(p, "flag")
    /\ Put(p, [J(p) EXCEPT !.flag = "pending"])
    /\ Goto(p, "validate")
    /\ UNCHANGED <<desired, baseline, runtime, web, recovery, journal, faults>>

(* Validation passes and the apply unit starts, or it fails: then nothing  *)
(* has been changed, and only the pair asks for a recovery.                *)
Validate(p) ==
    /\ At(p, "validate")
    /\ \/ /\ journal[Part(p)].unit = "none"
          /\ journal' = [journal EXCEPT ![Part(p)] =
                [@ EXCEPT !.unit = "started", !.by = E(p).job, !.result = "none"]]
          /\ Goto(p, "wait") /\ UNCHANGED faults
       \/ /\ exec' = [exec EXCEPT ![p] = IF Part(p) = "pair"
                THEN [@ EXCEPT !.pc = "recover"]
                ELSE [@ EXCEPT !.pc = "failed", !.answer = "nothing", !.pending = FALSE]]
          /\ Spend(1) /\ UNCHANGED journal
    /\ UNCHANGED <<desired, baseline, runtime, job, web, recovery>>

Proven(answer) == answer \in {"ok", "rolled back", "nothing"}

(* The answer of the apply, or the end of the wait for it.                 *)
Wait(p) ==
    LET jr == journal[Part(p)] IN
    /\ At(p, "wait")
    /\ \/ /\ jr.unit = "none"
          /\ exec' = [exec EXCEPT
                ![p].pc = IF jr.result = "ok" THEN "commit" ELSE "recover",
                ![p].answer = IF jr.result = "rolled back" THEN jr.result ELSE "none"]
          /\ UNCHANGED faults
       \/ /\ jr.unit # "none"
          /\ exec' = [exec EXCEPT ![p].pc = "recover", ![p].answer = "none"]
          /\ Spend(1)
    /\ UNCHANGED <<desired, baseline, runtime, job, web, recovery, journal>>

(* Every failed apply is followed by a recovery; a handoff that said it    *)
(* had rolled itself back is believed whatever the recovery says.          *)
Recover(p) ==
    /\ At(p, "recover")
    /\ \E o \in Recovered(Part(p), E(p).job) :
         LET answer == IF Part(p) = "handoff" /\ E(p).answer = "rolled back"
                       THEN "rolled back" ELSE o.answer
         IN  /\ Leave(Part(p), o)
             /\ exec' = [exec EXCEPT ![p].pc = "failed", ![p].answer = answer,
                                     ![p].pending = @ /\ ~Proven(answer)]
    /\ UNCHANGED <<desired, baseline, job, web, recovery>>

(* The lock is kept when neither rollback nor absence was proven.          *)
PartFailed(p) ==
    /\ At(p, "failed")
    /\ Fails(p, IF Proven(E(p).answer) THEN "clear" ELSE "pending")
    /\ UNCHANGED <<desired, baseline, runtime, web, recovery, journal, faults>>

(* The baseline of a protected part is the version that was submitted and  *)
(* staged; edits made meanwhile belong to the next apply.                  *)
Refreshed(p) == desired[Part(p)]
Promoted(p)  == J(p).captured[Part(p)]

(* The application-side boundary: baselines, results and the flag in one   *)
(* transaction.                                                            *)
Commit(p) ==
    /\ At(p, "commit")
    /\ baseline' = [baseline EXCEPT ![Part(p)] = Promoted(p)]
    /\ Put(p, [J(p) EXCEPT !.flag = "committed",
          !.steps[E(p).at] = IF Part(p) = "handoff" THEN "succeeded" ELSE @])
    /\ exec' = [exec EXCEPT ![p].pc = "ack", ![p].committed = @ \/ Part(p) = "handoff"]
    /\ UNCHANGED <<desired, runtime, web, recovery, journal, faults>>

Acknowledge(p) ==
    /\ At(p, "ack")
    /\ \E o \in Acknowledged(Part(p), E(p).job) :
         /\ Leave(Part(p), o)
         /\ exec' = [exec EXCEPT ![p].pc = "settle", ![p].answer = o.answer,
                ![p].pending = @ /\ ~(Part(p) = "handoff" /\ o.answer = "ok")]
    /\ UNCHANGED <<desired, baseline, job, web, recovery>>

(* The flag falls with the acknowledgement; without it the part has        *)
(* failed and the lock stays.                                              *)
Settle(p) ==
    /\ At(p, "settle")
    /\ IF E(p).answer = "ok"
       THEN /\ Put(p, [J(p) EXCEPT !.flag = "clear"])
            /\ exec' = [exec EXCEPT ![p].pc = IF Part(p) = "pair" THEN "paired" ELSE "loop",
                                    ![p].at = IF Part(p) = "pair" THEN @ ELSE @ + 1]
       ELSE Fails(p, J(p).flag)
    /\ UNCHANGED <<desired, baseline, runtime, web, recovery, journal, faults>>

Paired(p) ==
    /\ At(p, "paired")
    /\ Put(p, [J(p) EXCEPT !.steps[E(p).at] = "succeeded"])
    /\ exec' = [exec EXCEPT ![p].pc = "loop", ![p].at = @ + 1]
    /\ UNCHANGED <<desired, baseline, runtime, web, recovery, journal, faults>>

(* The verdict, then the audit record.                                     *)
Finish(p) ==
    /\ At(p, "final")
    /\ Put(p, [J(p) EXCEPT
          !.status = CASE E(p).end = "cancelled" -> "cancelled"
                       [] E(p).end = "failed"    -> "failed"
                       [] OTHER                  -> "succeeded",
          !.cancel = IF @ # "requested" THEN @
                     ELSE IF E(p).end = "cancelled" THEN "confirmed" ELSE "completion-won"])
    /\ Goto(p, "audit")
    /\ UNCHANGED <<desired, baseline, runtime, web, recovery, journal, faults>>

Audit(p) ==
    /\ At(p, "audit")
    /\ exec' = [exec EXCEPT ![p] = Idle]
    /\ UNCHANGED <<desired, baseline, runtime, job, web, recovery, journal, faults>>

(* An exception.  Inside the pair it is reconciled there and raised again; *)
(* the transaction it interrupts is rolled back.                           *)
Raise(p) ==
    /\ E(p).pc \in {"check", "loop", "flag", "validate", "unit", "applied", "broken",
                    "commit", "settle", "paired", "failed", "final", "audit"}
    /\ Goto(p, IF E(p).pc \in {"validate", "commit", "settle", "failed"} /\ Part(p) = "pair"
               THEN "pairraise" ELSE "raise")
    /\ Spend(1)
    /\ UNCHANGED <<desired, baseline, runtime, job, web, recovery, journal>>

PairRaise(p) ==
    /\ At(p, "pairraise")
    /\ \E o \in IF J(p).flag = "committed" THEN Acknowledged("pair", E(p).job)
                                            ELSE Recovered("pair", E(p).job) :
         /\ Leave("pair", o)
         /\ exec' = [exec EXCEPT ![p].pc = "paircleanup", ![p].answer = o.answer]
    /\ UNCHANGED <<desired, baseline, job, web, recovery>>

PairCleanup(p) ==
    /\ At(p, "paircleanup")
    /\ Put(p, [J(p) EXCEPT !.flag = IF Proven(E(p).answer) THEN "clear" ELSE @])
    /\ Goto(p, "raise")
    /\ UNCHANGED <<desired, baseline, runtime, web, recovery, journal, faults>>

(* The handler: reconcile_management_handoff_exception, then the terminal  *)
(* state.                                                                  *)
Reconcile(p) ==
    /\ At(p, "raise")
    /\ IF E(p).pending
       THEN \E o \in IF E(p).committed THEN Acknowledged("handoff", E(p).job)
                                       ELSE Recovered("handoff", E(p).job) :
              /\ Leave("handoff", o)
              /\ exec' = [exec EXCEPT ![p].pc = "handle", ![p].answer = o.answer]
       ELSE /\ exec' = [exec EXCEPT ![p].pc = "handle", ![p].answer = "none"]
            /\ UNCHANGED <<journal, runtime, faults>>
    /\ UNCHANGED <<desired, baseline, job, web, recovery>>

Handle(p) ==
    /\ At(p, "handle")
    /\ Put(p, [J(p) EXCEPT !.status = "failed", !.steps = Stopped(@),
          !.flag = IF ~E(p).pending THEN @
                   ELSE IF Proven(E(p).answer) THEN "clear"
                   ELSE IF E(p).committed THEN "committed" ELSE "pending"])
    /\ exec' = [exec EXCEPT ![p] = Idle]
    /\ UNCHANGED <<desired, baseline, runtime, web, recovery, journal, faults>>

-----------------------------------------------------------------------------
(* Faults and the start of the web process.                                *)

WebStops ==
    /\ web # "down"
    /\ web' = "down"
    /\ exec' = [exec EXCEPT !["web"] = Idle]
    /\ recovery' = [j \in Jobs |-> "idle"]
    /\ Spend(1)
    /\ UNCHANGED <<desired, baseline, runtime, job, journal>>

Reboot ==
    /\ web' = "down"
    /\ exec' = [p \in Procs |-> Idle]
    /\ recovery' = [j \in Jobs |-> "idle"]
    /\ journal' = [k \in Protected |-> Quiet(k, journal[k])]
    /\ Spend(1)
    /\ UNCHANGED <<desired, baseline, runtime, job>>

(* The tasks a restart has interrupted or left unreconciled.               *)
WasRunning(j)  == job[j].status = "running"
Interrupted(j) == Holds(j)

(* ExecStartPre: wan reconcile-nat takes an undecided pair back but keeps  *)
(* its journal, and fails while a unit holds the NAT transaction lock.     *)
(* Then the lifespan: pending tasks with a request are cancelled, and all  *)
(* others that hold the lock are to be reconciled.                         *)
WebStarts ==
    LET jr == journal["pair"] IN
    /\ web = "down" /\ jr.unit = "none"
    /\ web' = "starting"
    /\ IF jr.phase = "none"
       THEN UNCHANGED <<journal, runtime>>
       ELSE IF jr.receipt = jr.owner
       THEN journal' = [journal EXCEPT !["pair"] = Cleared("pair")] /\ UNCHANGED runtime
       ELSE /\ journal' = [journal EXCEPT !["pair"].restored = TRUE]
            /\ runtime' = [runtime EXCEPT !["pair"] = jr.prior]
    /\ LET stopped == {j \in Jobs : job[j].status = "pending" /\ job[j].cancel = "requested"}
       IN  /\ job' = [j \in Jobs |-> IF j \in stopped THEN PendingStopped(j) ELSE job[j]]
           /\ recovery' = [j \in Jobs |-> IF Interrupted(j) /\ j \notin stopped THEN "todo" ELSE "idle"]
    /\ UNCHANGED <<desired, baseline, exec, faults>>

(* recover_interrupted_appliance_apply_jobs: one helper call per task that *)
(* may have left a transaction, all before the one commit.                 *)
Calls(j) ==
    IF job[j].flag # "clear" /\ Has(j, "pair")
    THEN {<<"pair", o>> : o \in IF job[j].flag = "committed"
                                THEN Acknowledged("pair", j) ELSE RecoverPair(j)}
    ELSE IF Has(j, "handoff")
    THEN {<<"handoff", o>> : o \in IF job[j].flag = "committed"
                                   THEN Acknowledged("handoff", j) ELSE RecoverHandoff}
    ELSE {}

StartupCall(j) ==
    /\ web = "starting" /\ recovery[j] = "todo"
    /\ IF Calls(j) = {}
       THEN /\ recovery' = [recovery EXCEPT ![j] = "none"]
            /\ UNCHANGED <<journal, runtime, faults>>
       ELSE \E c \in Calls(j) :
              /\ Leave(c[1], c[2])
              /\ recovery' = [recovery EXCEPT ![j] = c[2].answer]
    /\ UNCHANGED <<desired, baseline, job, exec, web>>

(* The lock of a handoff falls on a proven commit, on a proven rollback,   *)
(* and on the absence of a transaction only if the task had not begun.     *)
FlagAfter(j) ==
    LET a == recovery[j] IN
    IF a = "none" THEN job[j].flag
    ELSE IF ~Has(j, "handoff")
    THEN IF Proven(a) THEN "clear" ELSE job[j].flag
    ELSE IF a \in {"ok", "rolled back"} \/ (a = "nothing" /\ job[j].status = "pending")
    THEN "clear"
    ELSE IF job[j].flag = "committed" THEN "committed" ELSE "pending"

StartupCommit ==
    /\ web = "starting" /\ \A j \in Jobs : recovery[j] # "todo"
    /\ job' = [j \in Jobs |-> IF recovery[j] = "idle" THEN job[j]
                  ELSE [job[j] EXCEPT !.status = "failed", !.steps = Stopped(@),
                                      !.flag = FlagAfter(j)]]
    /\ recovery' = [j \in Jobs |-> "idle"]
    /\ web' = "up"
    /\ UNCHANGED <<desired, baseline, runtime, exec, journal, faults>>

-----------------------------------------------------------------------------
ExecStep(p) ==
    \/ Claim(p) \/ Check(p) \/ Loop(p) \/ ApplyUnit(p) \/ UnitApplied(p) \/ UnitBroken(p)
    \/ FlagPair(p) \/ Validate(p) \/ Wait(p) \/ Recover(p) \/ PartFailed(p)
    \/ Commit(p) \/ Acknowledge(p) \/ Settle(p) \/ Paired(p) \/ Finish(p) \/ Audit(p)
    \/ PairRaise(p) \/ PairCleanup(p) \/ Reconcile(p) \/ Handle(p)
UnitStep(k) == UnitBegin(k) \/ UnitDone(k)
Startup     == WebStarts \/ StartupCommit \/ \E j \in Jobs : StartupCall(j)

Next ==
    \/ \E i \in Items : Edit(i)
    \/ \E j \in Jobs, plan \in Plans : Submit(j, plan)
    \/ \E j \in Jobs : RequestCancel(j) \/ FinishPending(j) \/ SettleRequest(j)
    \/ \E p \in Procs : ExecStep(p) \/ Raise(p)
    \/ \E k \in Protected : UnitStep(k) \/ UnitFails(k)
    \/ WebStops \/ Reboot \/ Startup

Spec == Init /\ [][Next]_vars

(* The background thread, the helper's units and the worker keep running,  *)
(* and systemd starts the web process again.                               *)
Fairness ==
    /\ \A p \in Procs : WF_vars(ExecStep(p))
    /\ \A k \in Protected : WF_vars(UnitStep(k))
    /\ \A j \in Jobs : WF_vars(FinishPending(j)) /\ WF_vars(SettleRequest(j))
    /\ WF_vars(Startup)

LiveSpec == Spec /\ Fairness

-----------------------------------------------------------------------------
(* Properties.                                                             *)

(* A journal the helper still keeps, and a unit still at work, belong to a *)
(* task that holds the global lock: no second apply can be admitted over   *)
(* an unfinished transaction, whatever crashed before it was finished      *)
(* (active_appliance_apply_job and the flags of the recovery paths).       *)
OpenIsOwned ==
    \A k \in Protected :
        /\ journal[k].phase # "none" => Holds(journal[k].owner)
        /\ journal[k].unit # "none" => Holds(journal[k].by)

(* The verdict of a finished task agrees with its components: success      *)
(* means every one succeeded and nothing is left to acknowledge; a         *)
(* cancellation is confirmed only when nothing failed and something was    *)
(* left out; no component of a finished task is still open.  One exception *)
(* disagrees with the loop's comment that a later request "must not turn   *)
(* their successful final result into cancellation": after a handoff, a    *)
(* request during the last component cancels a task that left out nothing. *)
VerdictHonest ==
    \A j \in Jobs : LET s == {job[j].steps[n] : n \in DOMAIN job[j].steps} IN
        /\ job[j].status = "succeeded" => s = {"succeeded"} /\ job[j].flag = "clear"
        /\ job[j].status = "cancelled" =>
              /\ s \subseteq {"succeeded", "skipped"} /\ job[j].flag = "clear"
              /\ "skipped" \in s \/ Trails(j)
        /\ job[j].status = "failed" => s \cap {"pending", "running"} = {}

(* Each protected part is atomic across the database and the host.         *)
Change(k) ==
    LET of(j) == Has(j, k)
    IN  IF \E j \in Jobs : of(j) /\ job[j].flag = "committed" THEN "committed"
        ELSE IF \E j \in Jobs : of(j) /\
                  (\/ job[j].flag = "pending"
                   \/ k = "handoff" /\ job[j].status = "running" /\
                      \E n \in DOMAIN job[j].plan :
                          job[j].plan[n] = k /\ job[j].steps[n] = "running")
        THEN "active" ELSE "none"

PC == INSTANCE ProtectedChange WITH
    Items   <- Protected,
    applied <- [k \in Protected |-> baseline[k]],
    live    <- [k \in Protected |-> runtime[k]],
    saved   <- [k \in Protected |-> IF journal[k].phase = "none" THEN runtime[k]
                                                                ELSE journal[k].prior],
    txn     <- [k \in Protected |-> Change(k)]

(* The refinement: the handoff and the pair, with their journals, flags,   *)
(* crashes and recoveries, implement the protected change.                 *)
Protects == PC!Spec

(* Every master task ends, through its thread or through the recovery that *)
(* follows a restart.                                                      *)
MasterEnds == \A j \in Jobs : Active(j) ~> ~Active(j)

(* The documentation: a failed task "whose helper acknowledgement or       *)
(* rollback is not proven retains the global Apply lock".  A task whose    *)
(* handoff was acknowledged, and which a restart then interrupted in a     *)
(* later component, does not.                                              *)
AcknowledgedReleases ==
    \A j \in Jobs : \A n \in DOMAIN job[j].plan :
        job[j].plan[n] = "handoff" /\ job[j].steps[n] = "succeeded" =>
            job[j].flag # "pending"
=============================================================================
