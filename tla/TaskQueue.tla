------------------------------ MODULE TaskQueue ------------------------------
(***************************************************************************)
(* The durable job table of the appliance, the one worker process that     *)
(* claims and runs its jobs, and the web process that accepts cancellation *)
(* requests while the worker runs:                                         *)
(*                                                                         *)
(*   atlaso/app/worker.py                     run_worker_once, recovery    *)
(*   atlaso/app/services/task_cancellation.py request, finish_pending, ... *)
(*                                                                         *)
(* A definition that only a mutation of the model uses precedes the one it *)
(* replaces.                                                               *)
(*                                                                         *)
(* One action is one committed database transaction (or one effect on a    *)
(* helper unit or on the file system).  What the code reads in one         *)
(* transaction and uses in the next is kept in `w' (the worker's program   *)
(* counter and locals) and in `web' (one record for each request thread).  *)
(*                                                                         *)
(* The kinds of job, by the contract their owner has:                      *)
(*   "check"     appliance-update, mode check: one child step per stream,  *)
(*               each run by a privileged helper unit that outlives the    *)
(*               worker                                                    *)
(*   "download"  pxe-media-sync, source download                           *)
(*   "upload"    pxe-media-sync, source upload, with an owned staged file  *)
(*   "plain"     every worker job that cannot be cancelled once it runs:   *)
(*               source_sync, managed-script, vcf-depot-download,          *)
(*               diagnostic-bundle, media deletion                         *)
(* Installations (appliance-update, mode run) are not modelled here.       *)
(***************************************************************************)
EXTENDS Integers, FiniteSets

CONSTANTS
    MaxJobs,    \* bound: jobs ever submitted; job n is the n-th created_at
    NStreams,   \* update streams selected by a check, in execution order
    Clients,    \* web request threads that may cancel
    MaxFaults   \* bound: crashes, restarts and failed external calls

ASSUME TaskQueueConstants ==
    /\ MaxJobs \in Nat \ {0}
    /\ NStreams \in Nat \ {0}
    /\ MaxFaults \in Nat

VARIABLES
    job,      \* the jobs table
    step,     \* the job_steps table: step[j][s]
    avail,    \* avail[j]: streams whose availability attempt names job j
    helper,   \* helper[j][s]: the helper unit of that child is alive
    staged,   \* staged[j]: the upload file owned by j exists
    swap,     \* swap[j]: the open media swap journal of j
    cache,    \* cache[j]: the version of j in the media cache
    w,        \* the worker process
    web,      \* the request threads of the web process
    faults

vars == <<job, step, avail, helper, staged, swap, cache, w, web, faults>>
fsys == <<staged, swap, cache>>

Jobs    == 1 .. MaxJobs
Streams == 1 .. NStreams
NoJob   == 0

Kinds == {"check", "download", "upload", "plain"}
Media == {"download", "upload"}

Active   == {"pending", "running"}
Finished == {"succeeded", "failed", "cancelled"}
Outcomes == {"none", "requested", "cleanup-required", "confirmed", "completion-won"}

(* A swap installs a version the catalog does not have yet, or repairs the *)
(* damaged copy of one whose row it already has.  The cache holds what it  *)
(* did before the job, what the job published, or an intact copy that the  *)
(* row from before the job describes.                                      *)
Swaps    == {"none", "open", "repair"}
Versions == {"old", "new", "kept"}

StepStates == {"none", "pending", "running", "succeeded", "failed", "skipped",
               "cancelled"}

WorkerPcs == {"down", "swaps", "load", "recovering",        \* startup
              "loop", "reconcile", "admit", "pick", "claim", \* run_worker_once
              "plain",                                       \* handlers
              "cancelcheck", "stepstart", "exec", "wait", "stepdone", "hold",
              "sync", "blocked", "drop", "poll", "complete", "commitfs", "undo",
              "stop", "fail", "settle"}

WebPcs == {"idle", "reserve", "finish"}

(* `escaped' is history, not a column of the table: an exception left the  *)
(* job's handler past what it should have taken back, a live helper or an  *)
(* open journal.                                                           *)
EmptyJob == [kind |-> "plain", status |-> "absent", req |-> FALSE,
             done |-> FALSE, outcome |-> "none", unresolved |-> FALSE,
             escaped |-> FALSE]

(* `held': this process still holds the media recovery lock, which only    *)
(* its own release or its death frees.                                     *)
IdleWorker == [pc |-> "down", job |-> NoJob, pos |-> 1, seen |-> FALSE,
               ready |-> TRUE, todo |-> {}, marked |-> {}, ok |-> TRUE,
               next |-> "admit", held |-> FALSE]

IdleThread == [pc |-> "idle", job |-> NoJob, status |-> "pending",
               unresolved |-> FALSE]

Statuses == {"absent"} \cup Active \cup Finished

JobRow == [kind : Kinds, status : Statuses, req : BOOLEAN, done : BOOLEAN,
           outcome : Outcomes, unresolved : BOOLEAN, escaped : BOOLEAN]
WorkerState == [pc : WorkerPcs, job : Jobs \cup {NoJob}, pos : 1 .. NStreams + 1,
                seen : BOOLEAN, ready : BOOLEAN, todo : SUBSET Jobs,
                marked : SUBSET Jobs, ok : BOOLEAN, next : {"admit", "loop"},
                held : BOOLEAN]
ThreadState == [pc : WebPcs, job : Jobs \cup {NoJob}, status : Statuses,
                unresolved : BOOLEAN]

(* The type invariant: the database rows, the host and both processes.     *)
JobsTyped   == job \in [Jobs -> JobRow]
StepsTyped  == step \in [Jobs -> [Streams -> StepStates]]
AvailTyped  == avail \in [Jobs -> SUBSET Streams]
HelperTyped == helper \in [Jobs -> [Streams -> BOOLEAN]]
StagedTyped == staged \in [Jobs -> BOOLEAN]
SwapTyped   == swap \in [Jobs -> Swaps]
CacheTyped  == cache \in [Jobs -> Versions]
WorkerTyped == w \in WorkerState
WebTyped    == web \in [Clients -> ThreadState]
FaultsTyped == faults \in 0 .. MaxFaults

TypeOK == /\ JobsTyped /\ StepsTyped /\ AvailTyped /\ HelperTyped
          /\ StagedTyped /\ SwapTyped /\ CacheTyped
          /\ WorkerTyped /\ WebTyped /\ FaultsTyped

Init ==
    /\ job = [j \in Jobs |-> EmptyJob]
    /\ step = [j \in Jobs |-> [s \in Streams |-> "none"]]
    /\ avail = [j \in Jobs |-> {}]
    /\ helper = [j \in Jobs |-> [s \in Streams |-> FALSE]]
    /\ staged = [j \in Jobs |-> FALSE]
    /\ swap = [j \in Jobs |-> "none"]
    /\ cache = [j \in Jobs |-> "old"]
    /\ w = IdleWorker
    /\ web = [c \in Clients |-> IdleThread]
    /\ faults = 0

(* The bounded environment fault every failing branch below spends.        *)
Fault == /\ faults < MaxFaults
         /\ faults' = faults + 1

Goto(pc) == w' = [w EXCEPT !.pc = pc]

-----------------------------------------------------------------------------
(* Row updates shared by the web process and the worker.                   *)

(* capability: may an operator cancel this row now?                        *)
Cancellable(r) ==
    /\ r.status \in Active
    /\ ~r.req
    /\ ~r.unresolved
    /\ r.status = "pending" \/ r.kind \in {"check"} \cup Media

(* finish_stop: the parent row and its children after a verified stop.     *)
StoppedUnnamed(r) == [r EXCEPT !.status = "cancelled", !.done = TRUE,
                               !.outcome = "cancelled", !.unresolved = FALSE]
Stopped(r) == [r EXCEPT !.status = "cancelled", !.done = TRUE,
                        !.outcome = "confirmed", !.unresolved = FALSE]
StoppedPendingSteps(f) == [s \in Streams |-> IF f[s] = "pending" THEN "skipped"
                                            ELSE f[s]]
StoppedSteps(f) == [s \in Streams |-> CASE f[s] = "pending" -> "skipped"
                                        [] f[s] = "running" -> "cancelled"
                                        [] OTHER -> f[s]]
FinishStop(j) == /\ job' = [job EXCEPT ![j] = Stopped(@)]
                 /\ step' = [step EXCEPT ![j] = StoppedSteps(@)]

(* _record_cancelled_check_availability: the children that did finish.     *)
Checked(j) == {s \in Streams : step[j][s] \in {"succeeded", "failed"}}
RecordSucceeded(j) ==
    avail' = [avail EXCEPT ![j] = @ \cup {s \in Streams : step[j][s] = "succeeded"}]
RecordChecked(j) == avail' = [avail EXCEPT ![j] = @ \cup Checked(j)]

(* _terminalize_incomplete_appliance_update_steps, and recovery's loop.    *)
FailedSteps(f) == [s \in Streams |-> CASE f[s] = "running" -> "failed"
                                       [] f[s] = "pending" -> "skipped"
                                       [] OTHER -> f[s]]

(* reconcile_requests: the disposition of a request that lost its race.    *)
Settled(r) == [r EXCEPT !.done = TRUE,
                        !.outcome = IF r.status = "cancelled" THEN "confirmed"
                                    ELSE "completion-won"]
Settle(table, S) == [j \in Jobs |-> IF j \in S THEN Settled(table[j]) ELSE table[j]]

(* finish_pending: a locked, requested, unclaimed row is cancelled with    *)
(* its staged upload removed, or kept when the removal fails.  `marked' is *)
(* what the same session commits with it.                                  *)
FinishPending(j, marked) ==
    /\ job[j].status = "pending" /\ job[j].req
    /\ \/ /\ job' = Settle([job EXCEPT ![j] = Stopped(@)], marked)
          /\ step' = [step EXCEPT ![j] = StoppedSteps(@)]
          /\ staged' = [staged EXCEPT ![j] = FALSE]
          /\ UNCHANGED faults
       \/ /\ job[j].kind = "upload" /\ staged[j] /\ Fault
          /\ job' = Settle([job EXCEPT ![j].outcome = "cleanup-required"], marked)
          /\ UNCHANGED <<step, staged>>
    /\ UNCHANGED <<avail, helper, swap, cache>>

-----------------------------------------------------------------------------
(* The web process.                                                        *)

(* A router or schedule commits a new pending row; an upload is staged     *)
(* under its identifier first, a check gets its child rows.                *)
Submit(j, k) ==
    /\ job[j].status = "absent"
    /\ \A i \in Jobs : i < j => job[i].status # "absent"
    /\ job' = [job EXCEPT ![j].kind = k, ![j].status = "pending"]
    /\ step' = [step EXCEPT ![j] = [s \in Streams |-> IF k = "check" THEN "pending"
                                                      ELSE "none"]]
    /\ staged' = [staged EXCEPT ![j] = k = "upload"]
    /\ UNCHANGED <<avail, helper, swap, cache, w, web, faults>>

(* request, up to its reservation: refresh the row; retry an accepted      *)
(* pending request, or decide the capability on what was read.             *)
RequestRead(c, j) ==
    /\ web[c].pc = "idle"
    /\ \/ /\ job[j].status = "pending" /\ job[j].req
          /\ web' = [web EXCEPT ![c] = [IdleThread EXCEPT !.pc = "finish", !.job = j]]
       \/ /\ Cancellable(job[j])
          /\ web' = [web EXCEPT ![c] = [pc |-> "reserve", job |-> j,
                                        status |-> job[j].status,
                                        unresolved |-> job[j].unresolved]]
    /\ UNCHANGED <<job, step, avail, helper, fsys, w, faults>>

(* The row the conditional UPDATE of request still finds unchanged.        *)
Unchanged(r, seen) == /\ r.status = seen.status
                      /\ r.unresolved = seen.unresolved
                      /\ ~r.req

RequestReserve(c) ==
    LET j == web[c].job IN
    /\ web[c].pc = "reserve"
    /\ \/ /\ Unchanged(job[j], web[c])
          /\ job' = [job EXCEPT ![j].req = TRUE, ![j].outcome = "requested"]
          /\ web' = [web EXCEPT ![c] = IF web[c].status = "pending"
                                       THEN [@ EXCEPT !.pc = "finish"] ELSE IdleThread]
       \/ /\ ~Unchanged(job[j], web[c])
          /\ web' = [web EXCEPT ![c] = IdleThread]
          /\ UNCHANGED job
    /\ UNCHANGED <<step, avail, helper, fsys, w, faults>>

RequestFinish(c) ==
    LET j == web[c].job IN
    /\ web[c].pc = "finish"
    /\ web' = [web EXCEPT ![c] = IdleThread]
    /\ \/ FinishPending(j, {})
       \/ /\ ~(job[j].status = "pending" /\ job[j].req)
          /\ UNCHANGED <<job, step, avail, helper, fsys, faults>>
    /\ UNCHANGED w

(* The web process dies between two transactions of a request.             *)
RequestLost(c) ==
    /\ web[c].pc # "idle"
    /\ web' = [web EXCEPT ![c] = IdleThread]
    /\ UNCHANGED <<job, step, avail, helper, fsys, w, faults>>

-----------------------------------------------------------------------------
(* The worker: run_worker_once up to the claim.                            *)

(* Both calls of reconcile_requests; `next' is where each continues.       *)
OpenFinished == {j \in Jobs : job[j].req /\ ~job[j].done /\ job[j].status \in Finished}
OpenRequests == {j \in Jobs : job[j].req /\ ~job[j].done}

ReconcileBegin ==
    /\ w.pc \in {"loop", "settle"}
    /\ w' = [IdleWorker EXCEPT !.pc = "reconcile",
                      !.next = IF w.pc = "loop" THEN "admit" ELSE "loop",
                      !.todo = OpenRequests, !.held = w.held]
    /\ UNCHANGED <<job, step, avail, helper, fsys, web, faults>>

ReconcileOne(j) ==
    /\ w.pc = "reconcile" /\ j \in w.todo
    /\ \/ /\ FinishPending(j, w.marked)
          /\ w' = [w EXCEPT !.todo = @ \ {j}, !.marked = {}]
       \* another session finished it first: rowcount 0, the session rolls back
       \/ /\ job[j].done
          /\ w' = [w EXCEPT !.todo = @ \ {j}, !.marked = {}]
          /\ UNCHANGED <<job, step, avail, helper, fsys, faults>>
       \/ /\ job[j].status \in Finished /\ ~job[j].done
          /\ w' = [w EXCEPT !.todo = @ \ {j}, !.marked = @ \cup {j}]
          /\ UNCHANGED <<job, step, avail, helper, fsys, faults>>
       \/ /\ job[j].status = "running"
          /\ w' = [w EXCEPT !.todo = @ \ {j}]
          /\ UNCHANGED <<job, step, avail, helper, fsys, faults>>
    /\ UNCHANGED web

ReconcileEnd ==
    /\ w.pc = "reconcile" /\ w.todo = {}
    /\ job' = Settle(job, w.marked)
    /\ Goto(w.next)
    /\ UNCHANGED <<step, avail, helper, fsys, web, faults>>

(* The admission query: a retained helper or an unresolved cleanup.        *)
BlockedByHelpers == \E j \in Jobs : job[j].kind = "check" /\ job[j].status = "running"
BlockedByChecks == \E j \in Jobs : /\ job[j].status \in Active
                                   /\ \/ job[j].kind = "check"
                                      \/ job[j].outcome = "cleanup-required"
Blocked == \E j \in Jobs : /\ job[j].status \in Active
                           /\ \/ job[j].kind = "check" /\ job[j].status = "running"
                              \/ job[j].outcome = "cleanup-required"

Admit ==
    /\ w.pc = "admit"
    /\ Goto(IF Blocked THEN "loop" ELSE "pick")
    /\ UNCHANGED <<job, step, avail, helper, fsys, web, faults>>

(* claim_next_job: choose the oldest unreserved pending row ...            *)
Queued == {j \in Jobs : job[j].status = "pending" /\ ~job[j].req}

Pick ==
    /\ w.pc = "pick"
    /\ \/ /\ Queued = {}
          /\ Goto("loop")
       \/ \E j \in Queued : /\ \A i \in Queued : j <= i
                            /\ w' = [w EXCEPT !.pc = "claim", !.job = j]
    /\ UNCHANGED <<job, step, avail, helper, fsys, web, faults>>

Handler(k) == CASE k = "check" -> "cancelcheck"
                [] k \in Media -> "sync"
                [] OTHER -> "plain"

(* ... and take it if the conditional UPDATE still finds it so.            *)
AnyCandidate(j) == TRUE
StillQueued(j) == j \in Queued

Claim ==
    LET j == w.job IN
    /\ w.pc = "claim"
    /\ \/ /\ StillQueued(j)
          /\ job' = [job EXCEPT ![j].status = "running"]
          /\ w' = [w EXCEPT !.pc = Handler(job[j].kind), !.pos = 1]
       \/ /\ ~StillQueued(j)
          /\ Goto("pick")
          /\ UNCHANGED job
    /\ UNCHANGED <<step, avail, helper, fsys, web, faults>>

-----------------------------------------------------------------------------
(* The handlers.                                                           *)

(* A job without a stop contract: its result is committed whatever was     *)
(* requested meanwhile.                                                    *)
RunPlain ==
    /\ w.pc = "plain"
    /\ \E result \in {"succeeded", "failed"} :
          job' = [job EXCEPT ![w.job].status = result]
    /\ Goto("settle")
    /\ UNCHANGED <<step, avail, helper, fsys, web, faults>>

(* _cancel_update_check_if_requested, when it stops the parent.            *)
StopCheck(j) ==
    /\ job[j].req
    /\ \E s \in Streams : step[j][s] \in Active
    /\ RecordChecked(j)
    /\ FinishStop(j)

(* _run_appliance_update, check mode: the poll before each stream, the     *)
(* reuse of children that finished before a restart, and the completion    *)
(* after the last one (complete_appliance_update_task).                    *)
CheckStream ==
    LET j == w.job IN
    /\ w.pc = "cancelcheck" /\ w.pos <= NStreams
    /\ \/ /\ StopCheck(j)
          /\ Goto("settle")
       \/ /\ ~(job[j].req /\ \E s \in Streams : step[j][s] \in Active)
          /\ w' = IF step[j][w.pos] \in {"succeeded", "failed", "skipped"}
                  THEN [w EXCEPT !.pos = @ + 1]
                  ELSE [w EXCEPT !.pc = "stepstart"]
          /\ UNCHANGED <<job, step, avail>>
    /\ UNCHANGED <<helper, fsys, web, faults>>

CompleteCheck ==
    LET j == w.job IN
    /\ w.pc = "cancelcheck" /\ w.pos = NStreams + 1
    /\ job' = [job EXCEPT ![j].status = IF \A s \in Streams : step[j][s] = "succeeded"
                                        THEN "succeeded" ELSE "failed",
                          ![j].unresolved = FALSE]
    /\ avail' = [avail EXCEPT ![j] = Streams]
    /\ Goto("settle")
    /\ UNCHANGED <<step, helper, fsys, web, faults>>

(* _set_appliance_update_step_running: a child starts only while no        *)
(* request is reserved.                                                    *)
MayStart(r) == r.status = "running" /\ ~r.req

StartStep ==
    LET j == w.job IN
    /\ w.pc = "stepstart"
    /\ \/ /\ MayStart(job[j])
          /\ step' = [step EXCEPT ![j][w.pos] = "running"]
          /\ Goto("exec")
          /\ UNCHANGED <<job, avail>>
       \/ /\ ~MayStart(job[j])
          /\ StopCheck(j)
          /\ Goto("settle")
    /\ UNCHANGED <<helper, fsys, web, faults>>

(* execute_appliance_update_job: the helper unit starts, or the call fails *)
(* before it does.                                                         *)
ExecHelper ==
    /\ w.pc = "exec"
    /\ \/ /\ helper' = [helper EXCEPT ![w.job][w.pos] = TRUE]
          /\ Goto("wait")
       \/ /\ w' = [w EXCEPT !.pc = "stepdone", !.ok = FALSE]
          /\ UNCHANGED helper
    /\ UNCHANGED <<job, step, avail, fsys, web, faults>>

(* The helper ends and its result is read ...                              *)
HelperReturns ==
    /\ w.pc = "wait"
    /\ helper' = [helper EXCEPT ![w.job][w.pos] = FALSE]
    /\ \E ok \in BOOLEAN : w' = [w EXCEPT !.pc = "stepdone", !.ok = ok]
    /\ UNCHANGED <<job, step, avail, fsys, web, faults>>

(* ... or its end could not be proved (return code 75); `seen' is the row  *)
(* the holding transaction has read.                                       *)
HelperUnresolved ==
    /\ w.pc = "wait" /\ Fault
    /\ w' = [w EXCEPT !.pc = "hold", !.seen = job[w.job].req]
    /\ UNCHANGED <<job, step, avail, helper, fsys, web>>

HoldCheck ==
    LET j == w.job IN
    /\ w.pc = "hold"
    /\ job' = [job EXCEPT ![j].unresolved = TRUE,
                          ![j].outcome = IF w.seen THEN "cleanup-required" ELSE @]
    /\ Goto("settle")
    /\ UNCHANGED <<step, avail, helper, fsys, web, faults>>

CompleteStep ==
    /\ w.pc = "stepdone"
    /\ step' = [step EXCEPT ![w.job][w.pos] = IF w.ok THEN "succeeded" ELSE "failed"]
    /\ w' = [w EXCEPT !.pc = "cancelcheck", !.pos = @ + 1]
    /\ UNCHANGED <<job, avail, helper, fsys, web, faults>>

(* An exception that escapes _run_appliance_update.  If it is the holding  *)
(* transaction that raises, the unresolved helper is still there.          *)
CheckRaises ==
    /\ w.pc \in {"cancelcheck", "stepstart", "stepdone", "hold"} /\ Fault
    /\ job' = [job EXCEPT ![w.job].escaped = @ \/ w.pc = "hold"]
    /\ Goto("fail")
    /\ UNCHANGED <<step, avail, helper, fsys, web>>

(* _run_pxe_media_sync: sync_network_boot_media publishes the new version  *)
(* behind an open journal, finds the cached copy verified and changes      *)
(* nothing, or raises with all of it taken back; either way the upload is  *)
(* unlinked, and a failed unlink raises as well.                           *)
SyncMedia ==
    LET j == w.job IN
    /\ w.pc = "sync"
    /\ \/ /\ ~job[j].req /\ ~w.held
          /\ \E s \in {"open", "repair"} : swap' = [swap EXCEPT ![j] = s]
          /\ cache' = [cache EXCEPT ![j] = "new"]
       \/ /\ ~job[j].req
          /\ cache' = [cache EXCEPT ![j] = "kept"]
          /\ UNCHANGED swap
       \/ UNCHANGED <<swap, cache>>
    /\ \/ /\ staged' = [staged EXCEPT ![j] = FALSE]
          /\ Goto(IF cache'[j] # "old" THEN "poll" ELSE "undo")
          /\ UNCHANGED faults
       \/ /\ staged[j] /\ Fault
          /\ Goto("undo")
          /\ UNCHANGED staged
    /\ UNCHANGED <<job, step, avail, helper, web>>

(* sync_network_boot_media raises past its journal: the journal's own      *)
(* write fails after it became visible and the lock is released; or a      *)
(* later step, a step of a handler, or the removal of the staging          *)
(* directory does, before or after the publication, and nothing releases   *)
(* the lock.  The caller has no filesystem_sync to roll back.              *)
Raised(s, c, held) == /\ c = "new" => s # "none"
                      /\ ~held => s # "none" /\ c = "old"

SyncEscapes ==
    LET j == w.job IN
    /\ w.pc = "sync" /\ ~job[j].req /\ ~w.held /\ Fault
    /\ \E s \in Swaps, c \in {"old", "new"}, held \in BOOLEAN :
          /\ Raised(s, c, held)
          /\ swap' = [swap EXCEPT ![j] = s]
          /\ cache' = [cache EXCEPT ![j] = c]
          /\ job' = [job EXCEPT ![j].escaped = (s # "none")]
          /\ w' = [w EXCEPT !.pc = "drop", !.held = held]
    /\ \E kept \in BOOLEAN : staged' = [staged EXCEPT ![j] = @ /\ kept]
    /\ UNCHANGED <<step, avail, helper, web>>

(* A synchronisation of a process that holds the lock waits for itself;    *)
(* acquire has no deadline.                                                *)
SyncBlocks ==
    /\ w.pc = "sync" /\ w.held
    /\ Goto("blocked")
    /\ UNCHANGED <<job, step, avail, helper, fsys, web, faults>>

(* The exception path without a filesystem_sync: only the upload is        *)
(* removed.                                                                *)
DropMedia ==
    LET j == w.job IN
    /\ w.pc = "drop"
    /\ \/ /\ staged' = [staged EXCEPT ![j] = FALSE]
          /\ Goto("stop")
          /\ UNCHANGED <<job, faults>>
       \/ /\ staged[j] /\ Fault
          /\ job' = [job EXCEPT ![j].outcome = IF job[j].req THEN "cleanup-required"
                                               ELSE @]
          /\ Goto("fail")
          /\ UNCHANGED staged
    /\ UNCHANGED <<step, avail, helper, swap, cache, web>>

(* The last poll of cancelled() before completion.                         *)
PollMedia ==
    /\ w.pc = "poll"
    /\ Goto(IF job[w.job].req THEN "undo" ELSE "complete")
    /\ UNCHANGED <<job, step, avail, helper, fsys, web, faults>>

(* The conditional completion, in the transaction of the media row.        *)
MayComplete(r) == r.status = "running" /\ ~r.req

CompleteMedia ==
    LET j == w.job IN
    /\ w.pc = "complete"
    /\ \/ /\ MayComplete(job[j])
          /\ job' = [job EXCEPT ![j].status = "succeeded"]
          /\ Goto("commitfs")
       \/ /\ ~MayComplete(job[j])
          /\ Goto("undo")
          /\ UNCHANGED job
    /\ UNCHANGED <<step, avail, helper, fsys, web, faults>>

(* A transaction of the handler raises: before completion into the         *)
(* exception path, in that path out of the handler.                        *)
MediaRaises ==
    /\ w.pc \in {"poll", "complete", "stop"} /\ Fault
    /\ Goto(IF w.pc = "stop" THEN "fail" ELSE "undo")
    /\ UNCHANGED <<job, step, avail, helper, fsys, web>>

(* commit_filesystem, whose failure leaves the journal for recovery.       *)
CommitMedia ==
    /\ w.pc = "commitfs"
    /\ \/ /\ swap' = [swap EXCEPT ![w.job] = "none"]
          /\ UNCHANGED faults
       \/ /\ swap[w.job] # "none" /\ Fault
          /\ UNCHANGED swap
    /\ Goto("settle")
    /\ UNCHANGED <<job, step, avail, helper, staged, cache, web>>

(* The exception path: roll the swap back (there may be none, or nothing   *)
(* to roll back) and remove the upload.                                    *)
RolledBack(j) == [cache EXCEPT ![j] = IF swap[j] = "none" THEN @ ELSE "old"]
UndoMedia ==
    LET j == w.job IN
    /\ w.pc = "undo"
    /\ \/ /\ swap' = [swap EXCEPT ![j] = "none"]
          /\ cache' = RolledBack(j)
          /\ staged' = [staged EXCEPT ![j] = FALSE]
          /\ Goto("stop")
          /\ UNCHANGED <<job, faults>>
       \/ /\ swap[j] # "none" \/ staged[j]
          /\ Fault
          /\ \/ UNCHANGED <<swap, cache>>
             \/ /\ staged[j]
                /\ swap' = [swap EXCEPT ![j] = "none"]
                /\ cache' = RolledBack(j)
          /\ job' = [job EXCEPT ![j].outcome = IF job[j].req THEN "cleanup-required"
                                               ELSE @]
          /\ Goto("fail")
          /\ UNCHANGED staged
    /\ UNCHANGED <<step, avail, helper, web>>

StopMedia ==
    /\ w.pc = "stop"
    /\ \/ /\ job[w.job].req
          /\ FinishStop(w.job)
          /\ Goto("settle")
       \/ /\ ~job[w.job].req
          /\ Goto("fail")
          /\ UNCHANGED <<job, step>>
    /\ UNCHANGED <<avail, helper, fsys, web, faults>>

(* run_worker_once's exception handler and _fail_job.                      *)
FailJob ==
    LET j == w.job IN
    /\ w.pc = "fail"
    /\ \/ /\ job[j].outcome = "cleanup-required"
          /\ Goto("loop")
          /\ UNCHANGED <<job, step>>
       \/ /\ job[j].outcome # "cleanup-required"
          /\ job' = [job EXCEPT ![j].status = "failed"]
          /\ step' = [step EXCEPT ![j] = FailedSteps(@)]
          /\ Goto("settle")
    /\ UNCHANGED <<avail, helper, fsys, web, faults>>

-----------------------------------------------------------------------------
(* Startup: recover_interrupted_worker_jobs.                               *)

Start ==
    /\ w.pc = "down"
    /\ w' = [IdleWorker EXCEPT !.pc = "swaps"]
    /\ UNCHANGED <<job, step, avail, helper, fsys, web, faults>>

(* recover_interrupted_network_boot_media_swaps: an open journal is rolled *)
(* forward when the committed media row verifies its directory and back    *)
(* when it does not.  The row of a repair was there before the job, so the *)
(* repaired copy stays even if the job never completed.  If recovery fails *)
(* the worker exits, unless a media cancellation waits for it.             *)
RollsBackAny(j) == swap[j] = "open"
RollsBack(j) == swap[j] = "open" /\ job[j].status # "succeeded"
Recovery(j) == CASE RollsBack(j) -> "old"
                 [] /\ swap[j] = "repair" /\ cache[j] = "new"
                    /\ job[j].status # "succeeded" -> "kept"
                 [] OTHER -> cache[j]

RecoverSwaps ==
    /\ w.pc = "swaps"
    /\ \/ /\ swap' = [j \in Jobs |-> "none"]
          /\ cache' = [j \in Jobs |-> Recovery(j)]
          /\ w' = [w EXCEPT !.pc = "load", !.ready = TRUE]
          /\ UNCHANGED faults
       \/ /\ \E j \in Jobs : swap[j] # "none"
          /\ Fault
          /\ w' = IF \E j \in Jobs : /\ job[j].kind \in Media /\ job[j].req
                                     /\ job[j].status = "running"
                  THEN [w EXCEPT !.pc = "load", !.ready = FALSE]
                  ELSE [w EXCEPT !.pc = "down"]
          /\ UNCHANGED <<swap, cache>>
    /\ UNCHANGED <<job, step, avail, helper, staged, web>>

(* The rows recovery works on, as it has read them: `todo' the running     *)
(* jobs, `marked' those with a request.                                    *)
RecoverLoad ==
    /\ w.pc = "load"
    /\ w' = [w EXCEPT !.pc = "recovering",
                      !.todo = {j \in Jobs : job[j].status = "running"},
                      !.marked = {j \in Jobs : job[j].status = "running" /\ job[j].req}]
    /\ UNCHANGED <<job, step, avail, helper, fsys, web, faults>>

Recovered(j) == w' = [w EXCEPT !.todo = @ \ {j}]
Retain(j) == job' = [job EXCEPT ![j].outcome = "cleanup-required"]

(* A check whose cancellation was requested: quiesce every stream's unit.  *)
RecoverCancelledCheck(j) ==
    /\ w.pc = "recovering" /\ j \in w.todo
    /\ job[j].kind = "check" /\ j \in w.marked
    /\ \/ /\ helper' = [helper EXCEPT ![j] = [s \in Streams |-> FALSE]]
          /\ RecordChecked(j)
          /\ FinishStop(j)
          /\ UNCHANGED faults
       \/ /\ Fault
          /\ Retain(j)
          /\ UNCHANGED <<step, avail, helper>>
    /\ Recovered(j)
    /\ UNCHANGED <<fsys, web>>

(* resumable_between_children: no child was running and some are left.     *)
ResumableWithPending(j) == \E s \in Streams : step[j][s] = "pending"
Resumable(j) == /\ \E s \in Streams : step[j][s] = "pending"
                /\ \A s \in Streams : step[j][s] \in {"pending", "succeeded",
                                                      "failed", "skipped"}

(* A check without a request: back to the queue, or failed once the        *)
(* interrupted child's unit is quiesced, or left running if it is not.     *)
RecoverCheck(j) ==
    /\ w.pc = "recovering" /\ j \in w.todo
    /\ job[j].kind = "check" /\ j \notin w.marked
    /\ \/ /\ Resumable(j)
          /\ job' = [job EXCEPT ![j].status = "pending"]
          /\ UNCHANGED <<step, avail, helper, faults>>
       \/ /\ ~Resumable(j)
          /\ helper' = [helper EXCEPT ![j] = [s \in Streams |->
                           helper[j][s] /\ step[j][s] # "running"]]
          /\ step' = [step EXCEPT ![j] = FailedSteps(@)]
          /\ job' = [job EXCEPT ![j].status = "failed", ![j].unresolved = FALSE]
          /\ avail' = [avail EXCEPT ![j] = Streams]
          /\ UNCHANGED faults
       \/ /\ ~Resumable(j)
          /\ Fault
          /\ UNCHANGED <<job, step, avail, helper>>
    /\ Recovered(j)
    /\ UNCHANGED <<fsys, web>>

(* A media job: after the swaps, remove its upload; a failure stops the    *)
(* startup unless a request can retain it.                                 *)
RecoverMedia(j) ==
    /\ w.pc = "recovering" /\ j \in w.todo
    /\ job[j].kind \in Media
    /\ \/ /\ j \in w.marked /\ ~w.ready
          /\ Retain(j)
          /\ Recovered(j)
          /\ UNCHANGED <<step, staged, faults>>
       \/ /\ j \in w.marked => w.ready
          /\ staged' = [staged EXCEPT ![j] = FALSE]
          /\ IF j \in w.marked
             THEN FinishStop(j)
             ELSE /\ job' = [job EXCEPT ![j].status = "failed"]
                  /\ UNCHANGED step
          /\ Recovered(j)
          /\ UNCHANGED faults
       \/ /\ j \in w.marked => w.ready
          /\ staged[j]
          /\ Fault
          /\ IF j \in w.marked
             THEN Retain(j) /\ Recovered(j)
             ELSE Goto("down") /\ UNCHANGED job
          /\ UNCHANGED <<step, staged>>
    /\ UNCHANGED <<avail, helper, swap, cache, web>>

RecoverPlain(j) ==
    /\ w.pc = "recovering" /\ j \in w.todo
    /\ job[j].kind = "plain"
    /\ job' = [job EXCEPT ![j].status = "failed"]
    /\ Recovered(j)
    /\ UNCHANGED <<step, avail, helper, fsys, web, faults>>

RecoverEnd ==
    /\ w.pc = "recovering" /\ w.todo = {}
    /\ Goto("loop")
    /\ UNCHANGED <<job, step, avail, helper, fsys, web, faults>>

-----------------------------------------------------------------------------
(* The host: the worker dies or is restarted at any point; a helper unit   *)
(* nobody waits for ends by itself.                                        *)
Crash ==
    /\ w.pc # "down" /\ Fault
    /\ Goto("down")
    /\ UNCHANGED <<job, step, avail, helper, fsys, web>>

(* The operator restarts a worker that has stopped working.                *)
RestartBlocked ==
    /\ w.pc = "blocked"
    /\ Goto("down")
    /\ UNCHANGED <<job, step, avail, helper, fsys, web, faults>>

HelperExits(j, s) ==
    /\ helper[j][s]
    /\ ~(w.pc = "wait" /\ w.job = j /\ w.pos = s)
    /\ helper' = [helper EXCEPT ![j][s] = FALSE]
    /\ UNCHANGED <<job, step, avail, fsys, w, web, faults>>

-----------------------------------------------------------------------------
Web == \/ \E j \in Jobs, k \in Kinds : Submit(j, k)
       \/ \E c \in Clients, j \in Jobs : RequestRead(c, j)
       \/ \E c \in Clients : RequestReserve(c) \/ RequestFinish(c) \/ RequestLost(c)

Recover == \/ Start \/ RecoverSwaps \/ RecoverLoad \/ RecoverEnd
           \/ \E j \in Jobs : \/ RecoverCancelledCheck(j) \/ RecoverCheck(j)
                              \/ RecoverMedia(j) \/ RecoverPlain(j)

Worker == \/ Recover
          \/ ReconcileBegin \/ ReconcileEnd \/ \E j \in Jobs : ReconcileOne(j)
          \/ Admit \/ Pick \/ Claim \/ RunPlain
          \/ CheckStream \/ CompleteCheck \/ StartStep \/ ExecHelper
          \/ HelperReturns \/ HelperUnresolved \/ HoldCheck \/ CompleteStep
          \/ CheckRaises
          \/ SyncMedia \/ SyncEscapes \/ SyncBlocks \/ DropMedia \/ MediaRaises
          \/ PollMedia \/ CompleteMedia \/ CommitMedia
          \/ UndoMedia \/ StopMedia \/ FailJob

Host == Crash \/ RestartBlocked \/ \E j \in Jobs, s \in Streams : HelperExits(j, s)

Next == Web \/ Worker \/ Host

Spec == Init /\ [][Next]_vars

(* systemd restarts the worker whenever it exits, and each helper and      *)
(* transfer has a deadline; the one wait without, for the media lock, is   *)
(* the state "blocked", which only a crash or the operator ends.           *)
FairSpec == Spec /\ WF_vars(Worker)

-----------------------------------------------------------------------------
(* Properties.                                                             *)

Running == {j \in Jobs : job[j].status = "running"}

(* The worker never executes two jobs at once, and never starts one beside *)
(* a job whose helper or files a restart has left unresolved: at most one  *)
(* row is running, across claims, crashes, recovery and cancellation.      *)
SingleRunning == \A i, j \in Jobs : i \in Running /\ j \in Running => i = j

(* A privileged helper unit that is alive always has a running job and a   *)
(* running child that account for it; no terminal or requeued job leaves   *)
(* one behind (recovery quiesces before it rewrites the row), except the   *)
(* one whose holding transaction raised, which _fail_job ends with its     *)
(* helper alive.                                                           *)
HelperOwned == \A j \in Jobs, s \in Streams :
    helper[j][s] => \/ job[j].status = "running" /\ step[j][s] = "running"
                    \/ job[j].status = "failed" /\ job[j].escaped

(* A confirmed cancellation is the truth about the host: no helper, no     *)
(* staged upload, no open swap, no version of its own in the cache and no  *)
(* child still active (task_cancellation.finish_stop: "only after the      *)
(* caller proved all owned work stopped").  The exception is a             *)
(* synchronisation that raised with its journal open: the exception path   *)
(* rolls nothing back, so until a restart recovers the journal the         *)
(* confirmed job may still have it, and its version beside it.             *)
ConfirmedIsClean == \A j \in Jobs : job[j].outcome = "confirmed" =>
    /\ job[j].status = "cancelled" /\ ~staged[j]
    /\ swap[j] # "none" => job[j].escaped
    /\ cache[j] = "new" => swap[j] # "none"
    /\ \A s \in Streams : ~helper[j][s] /\ step[j][s] \notin Active

(* Whenever no journal is open, the cache is what the job table says: a    *)
(* version the job published is there only if the job succeeded, and a     *)
(* job that succeeded left an intact version there.                        *)
MediaAgrees == \A j \in Jobs :
    job[j].kind \in Media /\ swap[j] = "none" /\ ~(w.job = j /\ w.pc \in {"sync", "undo"})
       => /\ cache[j] = "new" => job[j].status = "succeeded"
          /\ job[j].status = "succeeded" => cache[j] \in {"new", "kept"}

(* A finished job is never rewritten, whatever cancellation, recovery or   *)
(* reconciliation still hold of it ("completion won").                     *)
ResultPreserved ==
    [][\A j \in Jobs : job[j].status \in Finished => job'[j].status = job[j].status]_vars

(* A running row nobody executes: recovery could not quiesce its helper    *)
(* and keeps it, or a failed cleanup does, until the next restart.         *)
Retained(j) == /\ job[j].status = "running"
               /\ w.pc \in {"loop", "reconcile", "admit"} /\ w.job # j
Attention(j) == \/ job[j].status \in Active /\ job[j].outcome = "cleanup-required"
                \/ job[j].unresolved
                \/ Retained(j)

(* The worker waits for a lock it holds itself, left by a synchronisation  *)
(* of this process that raised: what stops it is known.                    *)
SelfBlocked == w.pc = "blocked" /\ w.held

(* Every accepted request reaches a disposition, or stays held for the     *)
(* operator: a lost web thread, a crash between the two transactions of a  *)
(* request and a race with completion do not leave it open for ever.  Only *)
(* a worker that waits for its own lock may keep it waiting.               *)
RequestSettles == \A j \in Jobs :
    job[j].req ~> (job[j].done \/ Attention(j) \/ SelfBlocked)

(* The queue drains: a pending job finishes unless some job is held, which *)
(* is what blocks admission, or the worker waits for its own lock.         *)
QueueDrains == \A j \in Jobs : job[j].status = "pending" ~>
    (job[j].status \in Finished \/ SelfBlocked \/ \E i \in Jobs : Attention(i))

(* The cancellation of a running check is confirmed only together with     *)
(* what its finished streams found, failures included, in the handler and  *)
(* in startup recovery (_record_cancelled_check_availability).             *)
CheckRecorded ==
    [][\A j \in Jobs :
         /\ job[j].kind = "check" /\ job[j].status = "running"
         /\ job[j].outcome # "confirmed" /\ job'[j].outcome = "confirmed"
         => Checked(j)' \subseteq avail'[j]]_vars

=============================================================================
