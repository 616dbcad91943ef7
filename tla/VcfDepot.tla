------------------------------- MODULE VcfDepot -------------------------------
(***************************************************************************)
(* The VCF offline depot: download profiles, their schedules and tasks,    *)
(* and the Software Depot ID of the VCF Download Tool (VCFDT)              *)
(*                                                                         *)
(*   atlaso/app/services/vcf_depot_downloads.py  admission                 *)
(*   atlaso/app/services/automation.py           due schedules             *)
(*   atlaso/app/ui.py                            the executors, recovery   *)
(*   atlaso/app/routers/ui/vcf_workflows.py      the requests              *)
(*   scripts/appliance/atlaso-helper             generate-software-depot-id *)
(*                                                                         *)
(* Downloads run in the worker, one at a time.  Identity tasks, and        *)
(* applies of the depot component, exclude them and each other; they run   *)
(* in the web process and call a helper, whose transient unit outlives     *)
(* whoever called it.  A transaction that takes the admission gate is one  *)
(* step: SQLite has one writer.  What a session read before the gate is    *)
(* kept in `req' and in `w', because a session never reads a row twice.    *)
(***************************************************************************)
EXTENDS Integers, FiniteSets, FiniteSetsExt

CONSTANTS
    Profiles,   \* download profiles
    Edits,      \* bound: the statuses an edit writes
    MaxJobs,    \* bound: tasks ever created; task n is the n-th
    MaxFaults   \* bound: deaths of a process, reboots, commits that fail and
                \* edits that write a status

Marks == {"planned", "ready", "synced", "blocked"}       \* profile.status

ASSUME DepotConstants ==
    MaxJobs \in Nat \ {0} /\ MaxFaults \in Nat /\ Edits \subseteq Marks

VARIABLES
    job,      \* the VCFDT rows of the jobs table
    prof,     \* the profiles
    sched,    \* the schedule of each profile
    package,  \* a tool archive is staged (tool_archive_path)
    stored,   \* the recorded Software Depot ID
    creds,    \* the identity the staged credentials were issued for
    runtime,  \* the identity of the tool on the host
    ids,      \* identities VCFDT ever generated
    unit,     \* the helper unit of each exclusive task
    req,      \* a request thread of the web process
    exec,     \* the background task of the web process
    web,      \* the web process, and what its startup read
    w,        \* the worker
    outlived, \* history: a helper outlived the process that waits for it
    faults

vars == <<job, prof, sched, package, stored, creds, runtime, ids, unit, req, exec,
          web, w, outlived, faults>>
setup   == <<package, stored, creds>>
host    == <<runtime, ids, unit>>
process == <<req, exec, web, w>>
rest    == <<outlived, faults>>

Jobs  == 1 .. MaxJobs
NoJob == 0
None  == 0                        \* no identity
Ids   == Nat \ {0}
Unverified == -1                  \* generated, but not read back
Untouched  == -2                  \* generation itself failed

NoProfile == "-"
Kinds     == {"download", "identity", "apply"}
Exclusive == {"identity", "apply"}
Active    == {"pending", "running"}
Ended     == {"succeeded", "failed", "interrupted", "raised", "cancelled", "skipped"}
\* "interrupted" is the failed status that the worker or a startup recovery
\* gives, "raised" that of the identity executor's handler of exceptions

NoTask   == [kind |-> "download", status |-> "absent", prof |-> NoProfile,
             before |-> "planned", cancel |-> FALSE]
NoUnit   == [pc |-> "none", answer |-> None]
Gone     == [there |-> FALSE, enabled |-> FALSE, mark |-> "planned", hand |-> "no"]
IdleReq  == [op |-> "none", prof |-> NoProfile, mark |-> "planned"]
IdleExec == [pc |-> "idle", job |-> NoJob, step |-> "none", late |-> "no"]
Down     == [pc |-> "down", answer |-> None]
Stopped  == [pc |-> "down", job |-> NoJob, prof |-> NoProfile, mark |-> "planned",
             there |-> FALSE, on |-> FALSE]

Alive(j) == unit[j].pc \in {"called", "made"}

Row  == [kind : Kinds, status : {"absent"} \cup Active \cup Ended,
         prof : Profiles \cup {NoProfile}, before : Marks, cancel : BOOLEAN]
Unit == [pc : {"none", "called", "made", "ended"},
         answer : Ids \cup {None, Unverified, Untouched}]
Req  == [op : {"none", "download", "schedule", "enable"},
         prof : Profiles \cup {NoProfile}, mark : Marks]
Exec == [pc : {"idle", "begin", "call", "wait", "save"}, job : Jobs \cup {NoJob},
         step : {"none", "generate", "reset"}, late : {"no", "new", "over"}]
Worker == [pc : {"down", "idle", "enqueue", "run", "vcfdt"}, job : Jobs \cup {NoJob},
           prof : Profiles \cup {NoProfile}, mark : Marks, there : BOOLEAN, on : BOOLEAN]

TablesTyped ==
    /\ job \in [Jobs -> Row]
    /\ prof \in [Profiles -> [there : BOOLEAN, enabled : BOOLEAN, mark : Marks,
                              hand : {"no", "yes"}]]
    /\ sched \in [Profiles -> {"none", "off", "on"}]
SetupTyped ==
    /\ package \in BOOLEAN
    /\ stored \in Ids \cup {None} /\ creds \in Ids \cup {None}
HostTyped ==
    /\ runtime \in Ids \cup {None} /\ ids \in Ids
    /\ unit \in [Jobs -> Unit]
ProcessTyped ==
    /\ req \in Req /\ exec \in Exec /\ w \in Worker
    /\ web \in [pc : {"down", "read", "up"}, answer : Ids \cup {None, Unverified}]
    /\ outlived \in BOOLEAN /\ faults \in 0 .. MaxFaults

(* A task that someone executes is running, and of the kind it executes.   *)
Executing ==
    /\ exec.pc # "idle" => web.pc = "up" /\ job[exec.job].kind \in Exclusive
    /\ exec.pc \in {"call", "wait", "save"} => job[exec.job].status = "running"
    /\ (w.job # NoJob) => job[w.job].kind = "download" /\ job[w.job].status = "running"

TypeOK == TablesTyped /\ SetupTyped /\ HostTyped /\ ProcessTyped /\ Executing

(* An appliance in use: the tool is installed and registered.              *)
Init ==
    /\ job = [j \in Jobs |-> NoTask]
    /\ prof = [p \in Profiles |-> [there |-> TRUE, enabled |-> TRUE, mark |-> "planned",
                               hand |-> "no"]]
    /\ sched = [p \in Profiles |-> "none"]
    /\ package = TRUE /\ stored = 1 /\ creds = 1 /\ runtime = 1 /\ ids = 1
    /\ unit = [j \in Jobs |-> NoUnit]
    /\ req = IdleReq /\ exec = IdleExec
    /\ web = [pc |-> "up", answer |-> None]
    /\ w = [Stopped EXCEPT !.pc = "idle"]
    /\ outlived = FALSE /\ faults = 0

-----------------------------------------------------------------------------
(* Admission.                                                              *)

Live(j)      == job[j].status \in Active
ActiveJobs   == {j \in Jobs : Live(j)}
DownloadOf(p) == {j \in ActiveJobs : job[j].kind = "download" /\ job[j].prof = p}
ExclusiveJobs == {j \in ActiveJobs : job[j].kind \in Exclusive}

(* The index uq_jobs_running_vcf_depot_operation.                          *)
NoneRunning == \A j \in Jobs : job[j].status # "running"

Room == job[MaxJobs].status = "absent"

(* No request and no fault is of interest once the bounded tasks ended.    *)
Open  == Room \/ ActiveJobs # {}
Up    == Open /\ web.pc = "up"
Spend == Open /\ faults < MaxFaults /\ faults' = faults + 1

NewJob == Min({j \in Jobs : job[j].status = "absent"})

Task(kind, status, p, mark) ==
    [kind |-> kind, status |-> status, prof |-> p, before |-> mark, cancel |-> FALSE]

(* A status that the system writes, and what an edit writes: nothing if it *)
(* is the same, or what its page sends, which is what the grid showed when *)
(* it was loaded.  `hand' is history: an edit made the status ready.       *)
Marked(r, mark) == [r EXCEPT !.mark = mark, !.hand = "no"]
Saved(p, on) ==
    \/ prof' = [prof EXCEPT ![p].enabled = on] /\ UNCHANGED faults
    \/ /\ Spend
       /\ \E mark \in Edits \ {prof[p].mark} :
            prof' = [prof EXCEPT ![p] =
                       [@ EXCEPT !.enabled = on, !.mark = mark,
                                 !.hand = IF mark = "ready" THEN "yes" ELSE "no"]]

(* enqueue_vcf_depot_download: the profile must still be there, have no    *)
(* active task, and no exclusive task may be active.                       *)
Admissible(p) == prof[p].there /\ DownloadOf(p) = {} /\ ExclusiveJobs = {}

(* `mark' and `on' are the status and the enablement that the session read *)
(* before the gate; a status that already read ready is not written.       *)
Enqueue(p, mark, on) ==
    /\ job' = [job EXCEPT ![NewJob] = Task("download", "pending", p, mark)]
    /\ prof' = IF on /\ mark # "ready" THEN [prof EXCEPT ![p] = Marked(@, "ready")] ELSE prof

-----------------------------------------------------------------------------
(* Requests.                                                               *)

Startable(p) == prof[p].enabled /\ creds # None /\ package

(* The first half of a request: a manual start validates the profile, a    *)
(* schedule is offered for an enabled one, an edit looks for the tool.     *)
Read(p) ==
    /\ Up /\ req.op = "none" /\ Room /\ prof[p].there
    /\ \/ Startable(p) /\ req' = [op |-> "download", prof |-> p, mark |-> prof[p].mark]
       \/ /\ prof[p].enabled /\ sched[p] # "on"
          /\ req' = [IdleReq EXCEPT !.op = "schedule", !.prof = p]
       \/ /\ package /\ ~prof[p].enabled
          /\ req' = [IdleReq EXCEPT !.op = "enable", !.prof = p]
    /\ UNCHANGED <<job, prof, sched, setup, host, exec, web, w, rest>>

StartDownload ==
    /\ req.op = "download"
    /\ IF Admissible(req.prof) /\ Room THEN Enqueue(req.prof, req.mark, TRUE)
       ELSE UNCHANGED <<job, prof>>
    /\ req' = IdleReq
    /\ UNCHANGED <<sched, setup, host, exec, web, w, rest>>

(* A schedule is created, or a disabled one is enabled.                    *)
AddSchedule ==
    /\ req.op = "schedule"
    /\ sched' = [sched EXCEPT ![req.prof] = "on"]
    /\ req' = IdleReq
    /\ UNCHANGED <<job, prof, setup, host, exec, web, w, rest>>

(* edit_vcf_depot_profile_from_ui: a disabled profile is enabled.          *)
EnableProfile ==
    /\ req.op = "enable"
    /\ IF prof[req.prof].there THEN Saved(req.prof, TRUE) ELSE UNCHANGED <<prof, faults>>
    /\ req' = IdleReq
    /\ UNCHANGED <<job, sched, setup, host, exec, web, w, outlived>>

Off(s) == IF s = "none" THEN "none" ELSE "off"

(* The same handler leaves it as it is, or disables it.                    *)
EditProfile(p) ==
    /\ Up /\ prof[p].there
    /\ \E on \in {FALSE, prof[p].enabled /\ package} :
         /\ Saved(p, on)
         /\ sched' = [sched EXCEPT ![p] = IF on THEN @ ELSE Off(@)]
    /\ UNCHANGED <<job, setup, host, process, outlived>>

(* A schedule is disabled or deleted; deletion does not race the worker's  *)
(* occurrence, whose commit would miss the row and be retried.             *)
StopSchedule(p) ==
    /\ Up /\ sched[p] # "none"
    /\ \E s \in {"off", "none"} \ {sched[p]} :
         /\ s = "none" => ~(w.pc = "enqueue" /\ w.prof = p)
         /\ sched' = [sched EXCEPT ![p] = s]
    /\ UNCHANGED <<job, prof, setup, host, process, rest>>

(* lock_vcf_depot_profile_for_deletion.                                    *)
NoRunning(p) == {j \in DownloadOf(p) : job[j].status = "running"} = {}
Unused(p)    == DownloadOf(p) = {}

DeleteProfile(p) ==
    /\ Up /\ prof[p].there /\ Unused(p) /\ sched[p] = "none"
    /\ prof' = [prof EXCEPT ![p] = Gone]
    /\ UNCHANGED <<job, sched, setup, host, process, rest>>

(* Cancellation of a pending download or apply: reserved, then finished by *)
(* the same thread or by the worker.                                       *)
RequestCancel(j) ==
    /\ Up /\ job[j].status = "pending" /\ job[j].kind # "identity" /\ ~job[j].cancel
    /\ job' = [job EXCEPT ![j].cancel = TRUE]
    /\ UNCHANGED <<prof, sched, setup, host, process, rest>>

Reserved(j) == job[j].status = "pending" /\ job[j].cancel

(* finish_pending puts the status from before the admission back, unless   *)
(* the profile moved on.                                                   *)
Restored(mark) == IF mark = "ready" THEN "planned" ELSE mark
NotRestored(S) ==
    /\ job' = [j \in Jobs |-> IF j \in S THEN [job[j] EXCEPT !.status = "cancelled"]
                              ELSE job[j]]
    /\ UNCHANGED prof

Freed(S) ==
    /\ job' = [j \in Jobs |-> IF j \in S THEN [job[j] EXCEPT !.status = "cancelled"]
                              ELSE job[j]]
    /\ prof' = [p \in Profiles |->
                  IF prof[p].mark = "ready" /\ \E j \in S : job[j].kind = "download" /\ job[j].prof = p
                  THEN Marked(prof[p], Restored(job[CHOOSE j \in S :
                              job[j].kind = "download" /\ job[j].prof = p].before))
                  ELSE prof[p]]

FinishCancel(j) ==
    /\ Up /\ Reserved(j) /\ Freed({j})
    /\ UNCHANGED <<sched, setup, host, process, rest>>

-----------------------------------------------------------------------------
(* Tool, credentials and the exclusive tasks.                              *)

UploadTool ==
    /\ Up /\ ~package
    /\ package' = TRUE
    /\ UNCHANGED <<job, prof, sched, stored, creds, host, process, rest>>

(* reset_vcf_depot_tool_staging looks for no task.                         *)
ResetTool ==
    /\ Up /\ package
    /\ package' = FALSE /\ stored' = None /\ creds' = None
    /\ prof' = [p \in Profiles |->
                  IF prof[p].there THEN [Marked(prof[p], "planned") EXCEPT !.enabled = FALSE]
                  ELSE prof[p]]
    /\ sched' = [p \in Profiles |-> IF prof[p].there THEN Off(sched[p]) ELSE sched[p]]
    /\ UNCHANGED <<job, host, process, rest>>

(* The operator registers the displayed identity and stages what it gets.  *)
(* Rows inserted after the executor looked for them outlive its commit;    *)
(* rows it has seen do not, but there is one pair for each kind of         *)
(* credential.                                                             *)
StageCredentials ==
    /\ Up /\ stored # None
    /\ creds # stored \/ (exec.pc = "save" /\ exec.late = "no")
    /\ creds' = stored
    /\ exec' = IF exec.pc # "save" THEN exec
               ELSE [exec EXCEPT !.late = IF creds = None THEN "new" ELSE "over"]
    /\ UNCHANGED <<job, prof, sched, package, stored, host, req, web, w, rest>>

QueueIdle == ActiveJobs = {}

SubmitExclusive(kind) ==
    /\ Up /\ Room /\ exec.pc = "idle" /\ QueueIdle
    /\ kind = "identity" => package
    /\ job' = [job EXCEPT ![NewJob] = Task(kind, "pending", NoProfile, "planned")]
    /\ exec' = [IdleExec EXCEPT !.pc = "begin", !.job = NewJob]
    /\ UNCHANGED <<prof, sched, setup, host, req, web, w, rest>>

Finish(j, status) == [job EXCEPT ![j].status = status]

(* The background task claims its row, or finds it cancelled.  An apply    *)
(* generates an identity only when none is recorded or a refresh was asked *)
(* for, and without a package it removes the tool.                         *)
Steps(kind) ==
    IF kind = "identity" THEN {"generate"}
    ELSE IF ~package THEN {"reset"}
    ELSE IF stored = None THEN {"generate"} ELSE {"none", "generate"}

Begin ==
    /\ exec.pc = "begin"
    /\ LET j == exec.job IN
       IF job[j].status = "pending" /\ ~job[j].cancel
       THEN /\ NoneRunning
            /\ job' = Finish(j, "running")
            /\ \E step \in Steps(job[j].kind) :
                 exec' = [IdleExec EXCEPT !.pc = "call", !.job = j, !.step = step]
       ELSE exec' = IdleExec /\ UNCHANGED job
    /\ UNCHANGED <<prof, sched, setup, host, req, web, w, rest>>

(* The steps before the identity succeed and the helper is called, or one  *)
(* of them fails: stage-tool does when a reset removed the archive.        *)
Call ==
    /\ exec.pc = "call"
    /\ \/ /\ exec.step = "generate" /\ package
          /\ unit' = [unit EXCEPT ![exec.job].pc = "called"]
          /\ exec' = [exec EXCEPT !.pc = "wait"]
          /\ UNCHANGED <<job, runtime>>
       \/ /\ exec.step # "generate"
          /\ runtime' = IF exec.step = "reset" THEN None ELSE runtime
          /\ job' = Finish(exec.job, "succeeded") /\ exec' = IdleExec
          /\ UNCHANGED unit
       \/ /\ job' = Finish(exec.job, "failed") /\ exec' = IdleExec
          /\ UNCHANGED <<unit, runtime>>
    /\ UNCHANGED <<prof, sched, setup, ids, req, web, w, rest>>

(* The answer of a helper is lost when nobody waits for it.                *)
Answered(j, a) ==
    IF exec.pc = "wait" /\ exec.job = j THEN [pc |-> "ended", answer |-> a] ELSE NoUnit

(* The helper: VCFDT replaces its identity, or fails and leaves it; the    *)
(* readback is canonical or not.                                           *)
Generate(j) ==
    /\ unit[j].pc = "called"
    /\ \/ /\ runtime' = ids + 1 /\ ids' = ids + 1
          /\ unit' = [unit EXCEPT ![j].pc = "made"]
       \/ /\ unit' = [unit EXCEPT ![j] = Answered(j, Untouched)]
          /\ UNCHANGED <<runtime, ids>>
    /\ UNCHANGED <<job, prof, sched, setup, process, rest>>

ReadBack(j) ==
    /\ unit[j].pc = "made"
    /\ \E a \in {Unverified} \cup ({runtime} \ {None}) :
         unit' = [unit EXCEPT ![j] = Answered(j, a)]
    /\ UNCHANGED <<job, prof, sched, setup, runtime, ids, process, rest>>

(* An identity that could not be read back is invalidated.  The session    *)
(* has written nothing when it looks for the credentials, so that others   *)
(* may stage some before its commit.                                       *)
Look ==
    /\ exec.pc = "wait" /\ unit[exec.job].pc = "ended"
    /\ unit[exec.job].answer = Unverified
    /\ exec' = [exec EXCEPT !.pc = "save"]
    /\ UNCHANGED <<job, prof, sched, setup, host, req, web, w, rest>>

Answer   == unit[exec.job].answer
AtCommit == /\ exec.pc \in {"wait", "save"} /\ unit[exec.job].pc = "ended"
            /\ exec.pc = "save" <=> Answer = Unverified

Outlive == IF exec.late = "new" THEN {creds}
           ELSE IF exec.late = "over" THEN {None, creds} ELSE {None}

(* persist_vcf_depot_metadata_from_apply and the verdict, one commit.  A   *)
(* new identity is flushed before the credentials are looked for, and no   *)
(* other session writes until the commit.                                  *)
Persist ==
    /\ AtCommit
    /\ stored' = IF Answer \in Ids THEN Answer ELSE IF Answer = Unverified THEN None ELSE stored
    /\ creds' \in IF Answer = Untouched THEN {creds} ELSE Outlive
    /\ \E status \in {"succeeded", "failed"} :
         /\ Answer \notin Ids => status = "failed"
         /\ Answer \in Ids /\ job[exec.job].kind = "identity" => status = "succeeded"
         /\ job' = Finish(exec.job, status)
    /\ exec' = IdleExec
    /\ unit' = [unit EXCEPT ![exec.job] = NoUnit]
    /\ UNCHANGED <<prof, sched, package, runtime, ids, req, web, w, rest>>

(* The handler of an exception after the helper has answered: the session  *)
(* is rolled back and the task ended; nobody reads the identity back.      *)
PersistRaises ==
    /\ AtCommit /\ Spend
    /\ job' = Finish(exec.job, "raised")
    /\ exec' = IdleExec
    /\ unit' = [unit EXCEPT ![exec.job] = NoUnit]
    /\ UNCHANGED <<prof, sched, setup, runtime, ids, req, web, w, outlived>>

-----------------------------------------------------------------------------
(* Startup of the web process.                                             *)

WasRunning(j) == job[j].kind \in Exclusive /\ job[j].status = "running"
AnyKind(j)    == Live(j) /\ (job[j].kind \in Exclusive \/ job[j].status = "running")
Interrupted(j) == job[j].kind \in Exclusive /\ Live(j)
Replacing     == \E j \in Jobs : job[j].kind = "identity" /\ job[j].status = "running"

(* The identity is read back only for an identity task that was running.   *)
StartupRead ==
    /\ web.pc = "down"
    /\ \E a \in IF Replacing THEN {Unverified} \cup ({runtime} \ {None}) ELSE {None} :
         web' = [pc |-> "read", answer |-> a]
    /\ UNCHANGED <<job, prof, sched, setup, host, req, exec, w, rest>>

Trusting(a)   == stored
Reconciled(a) == IF a = Unverified THEN None ELSE IF a = None THEN stored ELSE a

StartupCommit ==
    /\ web.pc = "read"
    /\ stored' = Reconciled(web.answer)
    /\ creds' = IF stored' = stored /\ web.answer # Unverified THEN creds ELSE None
    /\ job' = [j \in Jobs |-> IF Interrupted(j) THEN [job[j] EXCEPT !.status = "interrupted"]
                              ELSE job[j]]
    /\ web' = [pc |-> "up", answer |-> None]
    /\ UNCHANGED <<prof, sched, package, host, req, exec, w, rest>>

-----------------------------------------------------------------------------
(* The worker.                                                             *)

(* recover_interrupted_worker_jobs leaves the profile alone.               *)
WorkerStarts ==
    /\ w.pc = "down"
    /\ job' = [j \in Jobs |-> IF job[j].kind = "download" /\ job[j].status = "running"
                              THEN [job[j] EXCEPT !.status = "interrupted"] ELSE job[j]]
    /\ w' = [Stopped EXCEPT !.pc = "idle"]
    /\ UNCHANGED <<prof, sched, setup, host, req, exec, web, rest>>

(* The loop repeats the next three; a turn that finds nothing to do        *)
(* changes nothing, so any of them may be the next that does.              *)
Reconcile ==
    /\ w.pc = "idle"
    /\ \E j \in Jobs : Reserved(j)
    /\ Freed({j \in Jobs : Reserved(j)})
    /\ UNCHANGED <<sched, setup, host, process, rest>>

(* enqueue_due_schedules: any schedule that is on may be due.              *)
Due(p) ==
    /\ w.pc = "idle" /\ sched[p] = "on" /\ Room
    /\ w' = [w EXCEPT !.pc = "enqueue", !.prof = p, !.mark = prof[p].mark,
                      !.there = prof[p].there, !.on = prof[p].enabled]
    /\ UNCHANGED <<job, prof, sched, setup, host, req, exec, web, rest>>

(* Each occurrence leaves one row: queued, skipped, or failed because its  *)
(* profile is gone.  A one-time schedule is switched off.                  *)
EnqueueDue ==
    /\ w.pc = "enqueue"
    /\ IF ~Room THEN UNCHANGED <<job, prof, sched>>
       ELSE /\ IF w.there /\ Admissible(w.prof) THEN Enqueue(w.prof, w.mark, w.on)
               ELSE /\ job' = [job EXCEPT ![NewJob] =
                                 Task("download", IF w.there THEN "skipped" ELSE "failed",
                                      w.prof, "planned")]
                    /\ UNCHANGED prof
            /\ \E s \in {sched[w.prof], Off(sched[w.prof])} :
                 sched' = [sched EXCEPT ![w.prof] = s]
    /\ w' = [Stopped EXCEPT !.pc = "idle"]
    /\ UNCHANGED <<setup, host, req, exec, web, rest>>

(* claim_next_job: the oldest download that is queued and not reserved,    *)
(* while no VCFDT task runs.                                               *)
Claimable   == {j \in Jobs : job[j].kind = "download" /\ job[j].status = "pending"
                             /\ ~job[j].cancel}

Claim ==
    /\ w.pc = "idle" /\ NoneRunning /\ Claimable # {}
    /\ LET j == Min(Claimable) IN
         /\ job' = Finish(j, "running")
         /\ w' = [w EXCEPT !.pc = "run", !.job = j]
    /\ UNCHANGED <<prof, sched, setup, host, req, exec, web, rest>>

(* The verdict of a download and the mark of its profile.                  *)
EndDownload(status, mark) ==
    LET p == job[w.job].prof IN
    /\ job' = Finish(w.job, status)
    /\ prof' = IF prof[p].there THEN [prof EXCEPT ![p] = Marked(@, mark)] ELSE prof
    /\ w' = [Stopped EXCEPT !.pc = "idle"]

(* Everything is validated again before VCFDT is launched.                 *)
Run ==
    /\ w.pc = "run"
    /\ \/ /\ prof[job[w.job].prof].there /\ Startable(job[w.job].prof)
          /\ w' = [w EXCEPT !.pc = "vcfdt"] /\ UNCHANGED <<job, prof>>
       \/ EndDownload("failed", "blocked")
    /\ UNCHANGED <<sched, setup, host, req, exec, web, rest>>

VcfdtEnds ==
    /\ w.pc = "vcfdt"
    /\ \/ EndDownload("succeeded", "synced")
       \/ EndDownload("failed", "blocked")
    /\ UNCHANGED <<sched, setup, host, req, exec, web, rest>>

(* A commit of the executor fails, in its handler of exceptions at last:   *)
(* _fail_job of the worker ends the task and leaves the profile alone.     *)
DownloadRaises ==
    /\ w.job # NoJob /\ Spend
    /\ job' = Finish(w.job, "interrupted")
    /\ w' = [Stopped EXCEPT !.pc = "idle"]
    /\ UNCHANGED <<prof, sched, setup, host, req, exec, web, outlived>>

-----------------------------------------------------------------------------
(* Faults.  The worker's VCFDT dies with it; the helper's does not die     *)
(* with the web process.                                                   *)

WorkerStops ==
    /\ w.pc # "down" /\ Spend
    /\ w' = Stopped
    /\ UNCHANGED <<job, prof, sched, setup, host, req, exec, web, outlived>>

WebStops ==
    /\ web.pc # "down" /\ Spend
    /\ web' = Down /\ req' = IdleReq /\ exec' = IdleExec
    /\ outlived' = (outlived \/ \E j \in Jobs : Alive(j))
    /\ unit' = [j \in Jobs |-> IF Alive(j) THEN unit[j] ELSE NoUnit]
    /\ UNCHANGED <<job, prof, sched, setup, runtime, ids, w>>

Reboot ==
    /\ Spend
    /\ web' = Down /\ req' = IdleReq /\ exec' = IdleExec /\ w' = Stopped
    /\ unit' = [j \in Jobs |-> NoUnit]
    /\ UNCHANGED <<job, prof, sched, setup, runtime, ids, outlived>>

-----------------------------------------------------------------------------
Request == StartDownload \/ AddSchedule \/ EnableProfile
Execute == Begin \/ Call \/ Look \/ Persist
Helper  == \E j \in Jobs : Generate(j) \/ ReadBack(j)
Startup == StartupRead \/ StartupCommit
Work    == WorkerStarts \/ Reconcile \/ EnqueueDue \/ Claim \/ Run \/ VcfdtEnds

Next ==
    \/ \E p \in Profiles : Due(p) \/ Read(p) \/ EditProfile(p) \/ StopSchedule(p) \/ DeleteProfile(p)
    \/ Request
    \/ \E j \in Jobs : RequestCancel(j) \/ FinishCancel(j)
    \/ UploadTool \/ ResetTool \/ StageCredentials
    \/ \E kind \in Exclusive : SubmitExclusive(kind)
    \/ Execute \/ Helper \/ Startup \/ Work
    \/ PersistRaises \/ DownloadRaises \/ WorkerStops \/ WebStops \/ Reboot

Spec == Init /\ [][Next]_vars

(* The web process, with the helper it waits for, and the worker run.      *)
Fairness == WF_vars(Execute \/ Helper \/ Startup) /\ WF_vars(Work)
LiveSpec == Spec /\ Fairness

-----------------------------------------------------------------------------
(* Properties.                                                             *)

Vcfdt == {j \in Jobs : Alive(j)} \cup (IF w.pc = "vcfdt" THEN {w.job} ELSE {})

(* VCFDT never runs twice on the appliance: the worker's download and the  *)
(* helper of an identity task or an apply exclude each other, through      *)
(* deaths and restarts of either process, as long as no helper outlived    *)
(* the web process that started it.                                        *)
OneProcess == ~outlived => Cardinality(Vcfdt) <= 1

(* No task is queued or running for a profile that was deleted             *)
(* (lock_vcf_depot_profile_for_deletion against every way to enqueue).     *)
ActiveHasProfile ==
    \A j \in ActiveJobs : job[j].kind = "download" => prof[job[j].prof].there

(* A profile that reads ready has a queued or running task, whatever order *)
(* admissions, cancellations and executors write it in: a cancelled task   *)
(* gives the profile its earlier status back.  Three things break it: an   *)
(* edit that writes ready, a task the worker was running when it died, and *)
(* one whose executor could not commit; the last two leave the profile.    *)
ReadyHasTask ==
    \A p \in Profiles : prof[p].there /\ prof[p].mark = "ready" =>
        \/ DownloadOf(p) # {}
        \/ prof[p].hand = "yes"
        \/ \E j \in Jobs : job[j].prof = p /\ job[j].status = "interrupted"

Touched(j) == unit[j].pc # "none" /\ unit[j].answer # Untouched

(* When an identity task that may have replaced the identity ends, by the  *)
(* verdict of its executor or by the startup after a restart, the recorded *)
(* identity is the tool's or none, and no credentials remain that were     *)
(* issued for another one.  Against the documentation two paths break it:  *)
(* an exception after the helper's answer, which ends the task and keeps   *)
(* the old identity with its credentials, and credentials staged between   *)
(* the executor's look for them and its commit.                            *)
TaskSettles ==
    [][\A j \in Jobs :
         /\ job[j].kind = "identity" /\ job[j].status = "running"
         /\ job'[j].status \notin {"running", "raised"}
         /\ Touched(j) \/ job'[j].status = "interrupted"
         /\ ~outlived
         => /\ stored' \in {None, runtime}
            /\ creds' \in {None, stored'} \/ exec.late # "no"]_vars

(* Every depot task comes to an end, so none blocks the others for good:   *)
(* the executors, the worker and both startup recoveries leave no row      *)
(* pending or running.  A task never becomes active again and there are    *)
(* MaxJobs of them, so this is that no task stays active.                  *)
TasksEnd == []<>(ActiveJobs = {})
=============================================================================
