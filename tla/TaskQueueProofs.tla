-------------------------- MODULE TaskQueueProofs --------------------------
(***************************************************************************)
(* TLAPS proofs about the task queue, for every number of jobs, streams,   *)
(* request threads and faults.                                             *)
(***************************************************************************)
EXTENDS TaskQueue, TLAPS

(* What a row must say for admission to see it while nobody executes it.   *)
HeldRow(r) == r.kind = "check" \/ r.outcome = "cleanup-required"

CheckPcs   == {"cancelcheck", "stepstart", "exec", "wait", "stepdone", "hold"}
StepPcs    == {"stepstart", "exec", "wait", "stepdone", "hold"}
HandlerPcs == CheckPcs \cup {"plain", "sync", "blocked", "drop", "poll", "complete",
                             "commitfs", "undo", "stop", "fail"}
IdlePcs    == {"loop", "reconcile", "admit", "settle"}

(* Who accounts for a running row, at each place the worker can be.        *)
ExecutingOwns == w.pc \in HandlerPcs => \A j \in Running : j = w.job
IdleHolds     == w.pc \in IdlePcs => \A j \in Running : HeldRow(job[j])
ClaimIsAlone  == w.pc \in {"pick", "claim", "commitfs"} => Running = {}
RecoveryOwns  == w.pc = "recovering" =>
                    \A j \in Running : j \in w.todo \/ HeldRow(job[j])

(* What the worker's locals mean where it uses them.                       *)
JobInRange    == w.pc \in HandlerPcs \cup {"claim"} => w.job \in Jobs
ThreadInRange == \A c \in Clients : web[c].pc # "idle" => web[c].job \in Jobs
CheckIsCheck  == w.pc \in CheckPcs => job[w.job].kind = "check"
PosInRange    == w.pc \in StepPcs => w.pos \in Streams
MarkedDone    == w.pc = "reconcile" => \A j \in w.marked : job[j].status \in Finished
MarkedAsked   == w.pc = "recovering" => \A j \in w.marked : job[j].req
SeenAsked     == w.pc = "hold" /\ w.seen => job[w.job].req
CleanupAsked  == \A j \in Jobs : job[j].outcome = "cleanup-required" => job[j].req

Locals    == /\ JobInRange /\ ThreadInRange /\ CheckIsCheck /\ PosInRange
             /\ MarkedDone /\ MarkedAsked /\ SeenAsked
Ownership == SingleRunning /\ ExecutingOwns /\ IdleHolds /\ ClaimIsAlone /\ RecoveryOwns

(* The inductive invariant.                                                *)
IInv == TypeOK /\ Locals /\ CleanupAsked /\ Ownership

-----------------------------------------------------------------------------
(* Rows keep their type.                                                   *)

(* A cancelled or settled row is still a row of the jobs table.            *)
LEMMA RowTypes ==
    ASSUME NEW r \in JobRow
    PROVE  Stopped(r) \in JobRow /\ Settled(r) \in JobRow
  BY DEF Stopped, Settled, JobRow, Statuses, Active, Finished, Outcomes

(* Settling any set of requests keeps the jobs table well typed.           *)
LEMMA SettleType ==
    ASSUME NEW t \in [Jobs -> JobRow], NEW S
    PROVE  Settle(t, S) \in [Jobs -> JobRow]
  BY RowTypes DEF Settle

(* Stopping or failing the children of a parent keeps them well typed.     *)
LEMMA StepTypes ==
    ASSUME NEW f \in [Streams -> StepStates]
    PROVE  /\ StoppedSteps(f) \in [Streams -> StepStates]
           /\ FailedSteps(f) \in [Streams -> StepStates]
  BY DEF StoppedSteps, FailedSteps, StepStates

(* The worker and the request threads start in well-typed states.          *)
LEMMA IdleTypes == IdleWorker \in WorkerState /\ IdleThread \in ThreadState
  BY TaskQueueConstants
  DEF IdleWorker, WorkerState, WorkerPcs, NoJob, IdleThread, ThreadState, WebPcs,
      Statuses, Active

(* Moving the program counter keeps the worker well typed ...              *)
LEMMA GotoType ==
    ASSUME WorkerTyped, NEW p \in WorkerPcs, Goto(p)
    PROVE  WorkerTyped'
  BY DEF WorkerTyped, WorkerState, Goto

(* ... and so does reading the cancellation flag with it ...               *)
LEMMA FlagType ==
    ASSUME WorkerTyped, NEW p \in WorkerPcs, NEW b \in BOOLEAN
    PROVE  [w EXCEPT !.pc = p, !.seen = b] \in WorkerState
  BY DEF WorkerTyped, WorkerState

(* ... or moving to another stream.                                        *)
LEMMA PosType ==
    ASSUME WorkerTyped, NEW p \in WorkerPcs, NEW n \in 1 .. NStreams + 1
    PROVE  [w EXCEPT !.pc = p, !.pos = n] \in WorkerState
  BY DEF WorkerTyped, WorkerState

(* Spending a fault stays within the bound.                                *)
LEMMA FaultType ==
    ASSUME FaultsTyped, Fault
    PROVE  FaultsTyped'
  BY TaskQueueConstants DEF FaultsTyped, Fault

(* finish_stop keeps the parent row and its children well typed.           *)
LEMMA FinishStopTypes ==
    ASSUME JobsTyped, StepsTyped, NEW j \in Jobs, FinishStop(j)
    PROVE  JobsTyped' /\ StepsTyped'
  BY RowTypes, StepTypes DEF FinishStop, JobsTyped, StepsTyped

(* finish_pending keeps the database and the host well typed.              *)
LEMMA FinishPendingTypes ==
    ASSUME TypeOK, NEW j \in Jobs, NEW S, FinishPending(j, S)
    PROVE  /\ JobsTyped' /\ StepsTyped' /\ AvailTyped' /\ HelperTyped'
           /\ StagedTyped' /\ SwapTyped' /\ CacheTyped' /\ FaultsTyped'
  <1> USE DEF TypeOK
  <1>1. JobsTyped'
    <2>1. [job EXCEPT ![j] = Stopped(@)] \in [Jobs -> JobRow]
      BY RowTypes DEF JobsTyped
    <2>2. [job EXCEPT ![j].outcome = "cleanup-required"] \in [Jobs -> JobRow]
      BY DEF JobsTyped, JobRow, Outcomes
    <2>3. /\ Settle([job EXCEPT ![j] = Stopped(@)], S) \in [Jobs -> JobRow]
          /\ Settle([job EXCEPT ![j].outcome = "cleanup-required"], S) \in [Jobs -> JobRow]
      BY <2>1, <2>2, SettleType
    <2>4. QED
      BY <2>3 DEF FinishPending, JobsTyped
  <1>2. StepsTyped'
    BY StepTypes DEF StepsTyped, FinishPending
  <1>3. StagedTyped' /\ FaultsTyped'
    BY FaultType DEF StagedTyped, FinishPending, FaultsTyped
  <1>4. AvailTyped' /\ HelperTyped' /\ SwapTyped' /\ CacheTyped'
    BY DEF AvailTyped, HelperTyped, SwapTyped, CacheTyped, FinishPending
  <1>5. QED
    BY <1>1, <1>2, <1>3, <1>4

-----------------------------------------------------------------------------
(* Type correctness.                                                       *)

(* Every step keeps the type invariant, given what the locals mean.        *)
LEMMA TypeStep == TypeOK /\ Locals /\ [Next]_vars => TypeOK'
  <1> SUFFICES ASSUME TypeOK, Locals, [Next]_vars PROVE TypeOK'
    OBVIOUS
  <1> USE DEF TypeOK
  <1>1. CASE \E j \in Jobs, k \in Kinds : Submit(j, k)
    <2>1. JobsTyped'
      BY <1>1, RowTypes
      DEF Submit, JobsTyped, JobRow, Kinds, Outcomes, Statuses, Active, Finished
    <2>2. StepsTyped'
      BY <1>1, StepTypes DEF Submit, StepsTyped, StepStates
    <2>3. StagedTyped'
      BY <1>1 DEF Submit, StagedTyped
    <2>4. /\ AvailTyped' /\ HelperTyped' /\ SwapTyped' /\ CacheTyped' /\ WorkerTyped'
          /\ WebTyped' /\ FaultsTyped'
      BY <1>1
      DEF Submit, fsys, AvailTyped, HelperTyped, SwapTyped, CacheTyped, WorkerTyped,
          WebTyped, FaultsTyped
    <2>5. QED
      BY <2>1, <2>2, <2>3, <2>4
  <1>2. CASE \E c \in Clients, j \in Jobs : RequestRead(c, j)
    <2>1. PICK c \in Clients, j \in Jobs : RequestRead(c, j)
      BY <1>2
    <2>2. WebTyped'
      <3>1. [IdleThread EXCEPT !.pc = "finish", !.job = j] \in ThreadState
        BY DEF IdleThread, ThreadState, WebPcs, Statuses, Active
      <3>2. [pc |-> "reserve", job |-> j, status |-> job[j].status,
             unresolved |-> job[j].unresolved] \in ThreadState
        BY DEF JobsTyped, JobRow, ThreadState, WebPcs
      <3>3. QED
        BY <2>1, <3>1, <3>2 DEF RequestRead, WebTyped
    <2>3. /\ JobsTyped' /\ StepsTyped' /\ AvailTyped' /\ HelperTyped' /\ StagedTyped'
          /\ SwapTyped' /\ CacheTyped' /\ WorkerTyped' /\ FaultsTyped'
      BY <2>1 DEF RequestRead, fsys, JobsTyped, StepsTyped, AvailTyped, HelperTyped,
                  StagedTyped, SwapTyped, CacheTyped, WorkerTyped, FaultsTyped
    <2>4. QED
      BY <2>2, <2>3
  <1>3. CASE \E c \in Clients : RequestReserve(c)
    <2>1. PICK c \in Clients : RequestReserve(c)
      BY <1>3
    <2>2. web[c].job \in Jobs
      BY <2>1 DEF RequestReserve, Locals, ThreadInRange
    <2>3. JobsTyped'
      <3>1. [job EXCEPT ![web[c].job].req = TRUE, ![web[c].job].outcome = "requested"]
               \in [Jobs -> JobRow]
        BY ZenonT(60), <2>2 DEF JobsTyped, JobRow, Outcomes
      <3>2. QED
        BY <2>1, <3>1 DEF RequestReserve, JobsTyped
    <2>4. WebTyped'
      <3>1. [web[c] EXCEPT !.pc = "finish"] \in ThreadState
        BY DEF WebTyped, ThreadState, WebPcs
      <3>2. QED
        BY <2>1, <3>1, IdleTypes DEF RequestReserve, WebTyped
    <2>5. /\ StepsTyped' /\ AvailTyped' /\ HelperTyped' /\ StagedTyped' /\ SwapTyped'
          /\ CacheTyped' /\ WorkerTyped' /\ FaultsTyped'
      BY <2>1
      DEF RequestReserve, fsys, StepsTyped, AvailTyped, HelperTyped, StagedTyped,
                  SwapTyped, CacheTyped, WorkerTyped, FaultsTyped
    <2>6. QED
      BY <2>3, <2>4, <2>5
  <1>4. CASE \E c \in Clients : RequestFinish(c)
    <2>1. PICK c \in Clients : RequestFinish(c)
      BY <1>4
    <2>2. web[c].job \in Jobs
      BY <2>1 DEF RequestFinish, Locals, ThreadInRange
    <2>3. WorkerTyped' /\ WebTyped'
      BY <2>1, IdleTypes DEF RequestFinish, WorkerTyped, WebTyped
    <2>4. /\ JobsTyped' /\ StepsTyped' /\ AvailTyped' /\ HelperTyped' /\ StagedTyped'
          /\ SwapTyped' /\ CacheTyped' /\ FaultsTyped'
      <3>1. CASE FinishPending(web[c].job, {})
        BY <2>2, <3>1, FinishPendingTypes
      <3>2. CASE UNCHANGED <<job, step, avail, helper, fsys, faults>>
        BY <3>2 DEF fsys, JobsTyped, StepsTyped, AvailTyped, HelperTyped, StagedTyped,
                    SwapTyped, CacheTyped, FaultsTyped
      <3>3. QED
        BY <2>1, <3>1, <3>2 DEF RequestFinish
    <2>5. QED
      BY <2>3, <2>4
  <1>5. CASE \E c \in Clients : RequestLost(c)
    <2>1. WebTyped'
      BY <1>5, IdleTypes
      DEF RequestLost, IdleThread, WebTyped, ThreadState, WebPcs, Statuses, Active,
          Finished
    <2>2. /\ JobsTyped' /\ StepsTyped' /\ AvailTyped' /\ HelperTyped' /\ StagedTyped'
          /\ SwapTyped' /\ CacheTyped' /\ WorkerTyped' /\ FaultsTyped'
      BY <1>5
      DEF RequestLost, fsys, JobsTyped, StepsTyped, AvailTyped, HelperTyped,
          StagedTyped, SwapTyped, CacheTyped, WorkerTyped, FaultsTyped
    <2>3. QED
      BY <2>1, <2>2
  <1>6. CASE Start
    <2>1. WorkerTyped'
      BY <1>6, IdleTypes
      DEF Start, IdleWorker, WorkerTyped, WorkerState, WorkerPcs, NoJob, Streams
    <2>2. /\ JobsTyped' /\ StepsTyped' /\ AvailTyped' /\ HelperTyped' /\ StagedTyped'
          /\ SwapTyped' /\ CacheTyped' /\ WebTyped' /\ FaultsTyped'
      BY <1>6
      DEF Start, fsys, JobsTyped, StepsTyped, AvailTyped, HelperTyped, StagedTyped,
          SwapTyped, CacheTyped, WebTyped, FaultsTyped
    <2>3. QED
      BY <2>1, <2>2
  <1>7. CASE RecoverSwaps
    <2>1. SwapTyped'
      BY <1>7 DEF RecoverSwaps, Fault, SwapTyped, Swaps
    <2>2. CacheTyped'
      BY <1>7 DEF RecoverSwaps, Fault, CacheTyped, Versions, Recovery
    <2>3. WorkerTyped'
      <3>1. /\ [w EXCEPT !.pc = "load", !.ready = TRUE] \in WorkerState
            /\ [w EXCEPT !.pc = "load", !.ready = FALSE] \in WorkerState
            /\ [w EXCEPT !.pc = "down"] \in WorkerState
        BY DEF WorkerTyped, WorkerState, WorkerPcs
      <3>2. QED
        BY <1>7, <3>1 DEF RecoverSwaps, WorkerTyped
    <2>4. FaultsTyped'
      BY <1>7, FaultType DEF RecoverSwaps, FaultsTyped
    <2>5. /\ JobsTyped' /\ StepsTyped' /\ AvailTyped' /\ HelperTyped' /\ StagedTyped'
          /\ WebTyped'
      BY <1>7
      DEF RecoverSwaps, fsys, JobsTyped, StepsTyped, AvailTyped, HelperTyped,
          StagedTyped, WebTyped
    <2>6. QED
      BY <2>1, <2>2, <2>3, <2>4, <2>5
  <1>8. CASE RecoverLoad
    <2>1. WorkerTyped'
      BY <1>8, TaskQueueConstants
      DEF RecoverLoad, WorkerTyped, WorkerState, WorkerPcs, NoJob, Streams
    <2>2. /\ JobsTyped' /\ StepsTyped' /\ AvailTyped' /\ HelperTyped' /\ StagedTyped'
          /\ SwapTyped' /\ CacheTyped' /\ WebTyped' /\ FaultsTyped'
      BY <1>8
      DEF RecoverLoad, fsys, JobsTyped, StepsTyped, AvailTyped, HelperTyped,
          StagedTyped, SwapTyped, CacheTyped, WebTyped, FaultsTyped
    <2>3. QED
      BY <2>1, <2>2
  <1>9. CASE RecoverEnd
    <2>1. WorkerTyped'
      BY <1>9, TaskQueueConstants
      DEF RecoverEnd, Goto, WorkerTyped, WorkerState, WorkerPcs, NoJob, Streams
    <2>2. /\ JobsTyped' /\ StepsTyped' /\ AvailTyped' /\ HelperTyped' /\ StagedTyped'
          /\ SwapTyped' /\ CacheTyped' /\ WebTyped' /\ FaultsTyped'
      BY <1>9
      DEF RecoverEnd, fsys, JobsTyped, StepsTyped, AvailTyped, HelperTyped,
          StagedTyped, SwapTyped, CacheTyped, WebTyped, FaultsTyped
    <2>3. QED
      BY <2>1, <2>2
  <1>10. CASE \E j \in Jobs : RecoverCancelledCheck(j)
    <2>1. JobsTyped'
      BY <1>10, RowTypes
      DEF RecoverCancelledCheck, FinishStop, Retain, Fault, JobsTyped, JobRow, Kinds,
          Outcomes, Statuses, Active, Finished
    <2>2. StepsTyped'
      BY <1>10, StepTypes
      DEF RecoverCancelledCheck, FinishStop, Retain, Fault, StepsTyped, StepStates
    <2>3. AvailTyped'
      BY <1>10
      DEF RecoverCancelledCheck, RecordChecked, Retain, Fault, Checked, AvailTyped
    <2>4. HelperTyped'
      BY <1>10 DEF RecoverCancelledCheck, Retain, Fault, HelperTyped
    <2>5. WorkerTyped'
      BY <1>10, TaskQueueConstants
      DEF RecoverCancelledCheck, Recovered, Retain, Fault, WorkerTyped, WorkerState,
          WorkerPcs, NoJob, Streams
    <2>6. FaultsTyped'
      BY <1>10, FaultType DEF RecoverCancelledCheck, Retain, FaultsTyped
    <2>7. StagedTyped' /\ SwapTyped' /\ CacheTyped' /\ WebTyped'
      BY <1>10
      DEF RecoverCancelledCheck, fsys, StagedTyped, SwapTyped, CacheTyped, WebTyped
    <2>8. QED
      BY <2>1, <2>2, <2>3, <2>4, <2>5, <2>6, <2>7
  <1>11. CASE \E j \in Jobs : RecoverCheck(j)
    <2>1. JobsTyped'
      BY <1>11, RowTypes
      DEF RecoverCheck, Fault, JobsTyped, JobRow, Kinds, Outcomes, Statuses, Active,
          Finished
    <2>2. StepsTyped'
      BY <1>11, StepTypes DEF RecoverCheck, Fault, StepsTyped, StepStates
    <2>3. AvailTyped'
      BY <1>11 DEF RecoverCheck, Fault, AvailTyped
    <2>4. HelperTyped'
      <3>1. PICK j \in Jobs : RecoverCheck(j)
        BY <1>11
      <3>2. CASE UNCHANGED helper
        BY <3>2 DEF HelperTyped
      <3>3. CASE helper' = [helper EXCEPT ![j] = [s \in Streams |->
                                helper[j][s] /\ step[j][s] # "running"]]
        <4>1. [s \in Streams |-> helper[j][s] /\ step[j][s] # "running"]
                 \in [Streams -> BOOLEAN]
          BY Zenon
        <4>2. QED
          BY <3>3, <4>1 DEF HelperTyped
      <3>4. QED
        BY <3>1, <3>2, <3>3 DEF RecoverCheck
    <2>5. WorkerTyped'
      BY <1>11, TaskQueueConstants
      DEF RecoverCheck, Recovered, Fault, WorkerTyped, WorkerState, WorkerPcs, NoJob,
          Streams
    <2>6. FaultsTyped'
      BY <1>11, FaultType DEF RecoverCheck, FaultsTyped
    <2>7. StagedTyped' /\ SwapTyped' /\ CacheTyped' /\ WebTyped'
      BY <1>11 DEF RecoverCheck, fsys, StagedTyped, SwapTyped, CacheTyped, WebTyped
    <2>8. QED
      BY <2>1, <2>2, <2>3, <2>4, <2>5, <2>6, <2>7
  <1>12. CASE \E j \in Jobs : RecoverMedia(j)
    <2>1. JobsTyped'
      BY <1>12, RowTypes
      DEF RecoverMedia, FinishStop, Retain, Fault, JobsTyped, JobRow, Kinds,
          Outcomes, Statuses, Active, Finished
    <2>2. StepsTyped'
      BY <1>12, StepTypes
      DEF RecoverMedia, FinishStop, Retain, Fault, StepsTyped, StepStates
    <2>3. StagedTyped'
      BY <1>12 DEF RecoverMedia, Retain, Fault, StagedTyped
    <2>4. WorkerTyped'
      BY <1>12, TaskQueueConstants
      DEF RecoverMedia, Recovered, Retain, Fault, Goto, WorkerTyped, WorkerState,
          WorkerPcs, NoJob, Streams
    <2>5. FaultsTyped'
      BY <1>12, FaultType DEF RecoverMedia, Retain, FaultsTyped
    <2>6. AvailTyped' /\ HelperTyped' /\ SwapTyped' /\ CacheTyped' /\ WebTyped'
      BY <1>12
      DEF RecoverMedia, fsys, AvailTyped, HelperTyped, SwapTyped, CacheTyped,
          WebTyped
    <2>7. QED
      BY <2>1, <2>2, <2>3, <2>4, <2>5, <2>6
  <1>13. CASE \E j \in Jobs : RecoverPlain(j)
    <2>1. JobsTyped'
      BY <1>13, RowTypes
      DEF RecoverPlain, JobsTyped, JobRow, Kinds, Outcomes, Statuses, Active,
          Finished
    <2>2. WorkerTyped'
      BY <1>13, TaskQueueConstants
      DEF RecoverPlain, Recovered, WorkerTyped, WorkerState, WorkerPcs, NoJob,
          Streams
    <2>3. /\ StepsTyped' /\ AvailTyped' /\ HelperTyped' /\ StagedTyped' /\ SwapTyped'
          /\ CacheTyped' /\ WebTyped' /\ FaultsTyped'
      BY <1>13
      DEF RecoverPlain, fsys, StepsTyped, AvailTyped, HelperTyped, StagedTyped,
          SwapTyped, CacheTyped, WebTyped, FaultsTyped
    <2>4. QED
      BY <2>1, <2>2, <2>3
  <1>14. CASE ReconcileBegin
    <2>1. WorkerTyped'
      BY ZenonT(60), <1>14, IdleTypes
      DEF ReconcileBegin, IdleWorker, OpenRequests, WorkerTyped, WorkerState,
          WorkerPcs, NoJob, Streams
    <2>2. /\ JobsTyped' /\ StepsTyped' /\ AvailTyped' /\ HelperTyped' /\ StagedTyped'
          /\ SwapTyped' /\ CacheTyped' /\ WebTyped' /\ FaultsTyped'
      BY <1>14
      DEF ReconcileBegin, fsys, JobsTyped, StepsTyped, AvailTyped, HelperTyped,
          StagedTyped, SwapTyped, CacheTyped, WebTyped, FaultsTyped
    <2>3. QED
      BY <2>1, <2>2
  <1>15. CASE ReconcileEnd
    <2>1. JobsTyped'
      BY <1>15, SettleType DEF ReconcileEnd, JobsTyped
    <2>2. WorkerTyped'
      BY <1>15, TaskQueueConstants
      DEF ReconcileEnd, Goto, WorkerTyped, WorkerState, WorkerPcs, NoJob, Streams
    <2>3. /\ StepsTyped' /\ AvailTyped' /\ HelperTyped' /\ StagedTyped' /\ SwapTyped'
          /\ CacheTyped' /\ WebTyped' /\ FaultsTyped'
      BY <1>15
      DEF ReconcileEnd, fsys, StepsTyped, AvailTyped, HelperTyped, StagedTyped,
          SwapTyped, CacheTyped, WebTyped, FaultsTyped
    <2>4. QED
      BY <2>1, <2>2, <2>3
  <1>16. CASE \E j \in Jobs : ReconcileOne(j)
    <2>1. PICK j \in Jobs : ReconcileOne(j)
      BY <1>16
    <2>2. WebTyped'
      BY <2>1 DEF ReconcileOne, WebTyped
    <2>3. WorkerTyped'
      <3>1. w.todo \in SUBSET Jobs /\ w.marked \in SUBSET Jobs
        BY DEF WorkerTyped, WorkerState
      <3>2. /\ [w EXCEPT !.todo = @ \ {j}, !.marked = {}] \in WorkerState
            /\ [w EXCEPT !.todo = @ \ {j}, !.marked = @ \cup {j}] \in WorkerState
            /\ [w EXCEPT !.todo = @ \ {j}] \in WorkerState
        BY <3>1 DEF WorkerTyped, WorkerState
      <3>3. \/ w' = [w EXCEPT !.todo = @ \ {j}, !.marked = {}]
            \/ w' = [w EXCEPT !.todo = @ \ {j}, !.marked = @ \cup {j}]
            \/ w' = [w EXCEPT !.todo = @ \ {j}]
        BY <2>1 DEF ReconcileOne
      <3>4. QED
        BY <3>2, <3>3 DEF WorkerTyped
    <2>4. /\ JobsTyped' /\ StepsTyped' /\ AvailTyped' /\ HelperTyped' /\ StagedTyped'
          /\ SwapTyped' /\ CacheTyped' /\ FaultsTyped'
      <3>1. CASE FinishPending(j, w.marked)
        BY <3>1, FinishPendingTypes
      <3>2. CASE UNCHANGED <<job, step, avail, helper, fsys, faults>>
        BY <3>2 DEF fsys, JobsTyped, StepsTyped, AvailTyped, HelperTyped, StagedTyped,
                    SwapTyped, CacheTyped, FaultsTyped
      <3>3. QED
        BY <2>1, <3>1, <3>2 DEF ReconcileOne
    <2>5. QED
      BY <2>2, <2>3, <2>4
  <1>17. CASE Admit
    <2>1. WorkerTyped'
      BY <1>17, TaskQueueConstants
      DEF Admit, Goto, WorkerTyped, WorkerState, WorkerPcs, NoJob, Streams
    <2>2. /\ JobsTyped' /\ StepsTyped' /\ AvailTyped' /\ HelperTyped' /\ StagedTyped'
          /\ SwapTyped' /\ CacheTyped' /\ WebTyped' /\ FaultsTyped'
      BY <1>17
      DEF Admit, fsys, JobsTyped, StepsTyped, AvailTyped, HelperTyped, StagedTyped,
          SwapTyped, CacheTyped, WebTyped, FaultsTyped
    <2>3. QED
      BY <2>1, <2>2
  <1>18. CASE Pick
    <2>1. WorkerTyped'
      BY ZenonT(60), <1>18, TaskQueueConstants
      DEF Pick, Goto, Queued, WorkerTyped, WorkerState, WorkerPcs, NoJob, Streams
    <2>2. /\ JobsTyped' /\ StepsTyped' /\ AvailTyped' /\ HelperTyped' /\ StagedTyped'
          /\ SwapTyped' /\ CacheTyped' /\ WebTyped' /\ FaultsTyped'
      BY <1>18
      DEF Pick, fsys, JobsTyped, StepsTyped, AvailTyped, HelperTyped, StagedTyped,
          SwapTyped, CacheTyped, WebTyped, FaultsTyped
    <2>3. QED
      BY <2>1, <2>2
  <1>19. CASE Claim
    <2>1. w.job \in Jobs
      BY <1>19 DEF Claim, Locals, JobInRange, PosInRange, HandlerPcs, CheckPcs, StepPcs
    <2>2. JobsTyped'
      BY <1>19, <2>1, RowTypes
      DEF Claim, StillQueued, Queued, Handler, JobsTyped, JobRow, Kinds, Outcomes,
          Statuses, Active, Finished
    <2>3. WorkerTyped'
      <3>1. Handler(job[w.job].kind) \in WorkerPcs
        BY DEF Handler, WorkerPcs
      <3>2. 1 \in 1 .. NStreams + 1
        BY TaskQueueConstants
      <3>3. CASE w' = [w EXCEPT !.pc = Handler(job[w.job].kind), !.pos = 1]
        BY <3>1, <3>2, <3>3, PosType DEF WorkerTyped
      <3>4. CASE Goto("pick")
        BY <3>4, GotoType DEF WorkerPcs
      <3>5. QED
        BY <1>19, <3>3, <3>4 DEF Claim
    <2>4. /\ StepsTyped' /\ AvailTyped' /\ HelperTyped' /\ StagedTyped' /\ SwapTyped'
          /\ CacheTyped' /\ WebTyped' /\ FaultsTyped'
      BY <1>19
      DEF Claim, fsys, StepsTyped, AvailTyped, HelperTyped, StagedTyped, SwapTyped,
          CacheTyped, WebTyped, FaultsTyped
    <2>5. QED
      BY <2>1, <2>2, <2>3, <2>4
  <1>20. CASE RunPlain
    <2>1. w.job \in Jobs
      BY <1>20
      DEF RunPlain, Locals, JobInRange, PosInRange, HandlerPcs, CheckPcs, StepPcs
    <2>2. JobsTyped'
      BY <1>20, <2>1, RowTypes
      DEF RunPlain, JobsTyped, JobRow, Kinds, Outcomes, Statuses, Active, Finished
    <2>3. WorkerTyped'
      BY <1>20, <2>1, TaskQueueConstants
      DEF RunPlain, Goto, WorkerTyped, WorkerState, WorkerPcs, NoJob, Streams
    <2>4. /\ StepsTyped' /\ AvailTyped' /\ HelperTyped' /\ StagedTyped' /\ SwapTyped'
          /\ CacheTyped' /\ WebTyped' /\ FaultsTyped'
      BY <1>20
      DEF RunPlain, fsys, StepsTyped, AvailTyped, HelperTyped, StagedTyped,
          SwapTyped, CacheTyped, WebTyped, FaultsTyped
    <2>5. QED
      BY <2>1, <2>2, <2>3, <2>4
  <1>21. CASE CheckStream
    <2>1. w.job \in Jobs
      BY <1>21
      DEF CheckStream, Locals, JobInRange, PosInRange, HandlerPcs, CheckPcs, StepPcs
    <2>2. JobsTyped'
      BY <1>21, <2>1, RowTypes
      DEF CheckStream, StopCheck, FinishStop, JobsTyped, JobRow, Kinds, Outcomes,
          Statuses, Active, Finished
    <2>3. StepsTyped'
      BY <1>21, <2>1, StepTypes
      DEF CheckStream, StopCheck, FinishStop, StepsTyped, StepStates
    <2>4. AvailTyped'
      BY <1>21, <2>1 DEF CheckStream, StopCheck, RecordChecked, Checked, AvailTyped
    <2>5. WorkerTyped'
      BY <1>21, <2>1, TaskQueueConstants
      DEF CheckStream, Goto, StopCheck, WorkerTyped, WorkerState, WorkerPcs, NoJob,
          Streams
    <2>6. /\ HelperTyped' /\ StagedTyped' /\ SwapTyped' /\ CacheTyped' /\ WebTyped'
          /\ FaultsTyped'
      BY <1>21
      DEF CheckStream, fsys, HelperTyped, StagedTyped, SwapTyped, CacheTyped,
          WebTyped, FaultsTyped
    <2>7. QED
      BY <2>1, <2>2, <2>3, <2>4, <2>5, <2>6
  <1>22. CASE CompleteCheck
    <2>1. w.job \in Jobs
      BY <1>22
      DEF CompleteCheck, Locals, JobInRange, PosInRange, HandlerPcs, CheckPcs,
          StepPcs
    <2>2. JobsTyped'
      BY <1>22, <2>1, RowTypes
      DEF CompleteCheck, JobsTyped, JobRow, Kinds, Outcomes, Statuses, Active,
          Finished
    <2>3. AvailTyped'
      BY <1>22, <2>1 DEF CompleteCheck, AvailTyped
    <2>4. WorkerTyped'
      BY <1>22, <2>1, TaskQueueConstants
      DEF CompleteCheck, Goto, WorkerTyped, WorkerState, WorkerPcs, NoJob, Streams
    <2>5. /\ StepsTyped' /\ HelperTyped' /\ StagedTyped' /\ SwapTyped' /\ CacheTyped'
          /\ WebTyped' /\ FaultsTyped'
      BY <1>22
      DEF CompleteCheck, fsys, StepsTyped, HelperTyped, StagedTyped, SwapTyped,
          CacheTyped, WebTyped, FaultsTyped
    <2>6. QED
      BY <2>1, <2>2, <2>3, <2>4, <2>5
  <1>23. CASE StartStep
    <2>1. w.job \in Jobs /\ w.pos \in Streams
      BY <1>23
      DEF StartStep, Locals, JobInRange, PosInRange, HandlerPcs, CheckPcs, StepPcs
    <2>2. JobsTyped'
      BY <1>23, <2>1, RowTypes
      DEF StartStep, StopCheck, FinishStop, JobsTyped, JobRow, Kinds, Outcomes,
          Statuses, Active, Finished
    <2>3. StepsTyped'
      BY <1>23, <2>1, StepTypes
      DEF StartStep, StopCheck, FinishStop, StepsTyped, StepStates
    <2>4. AvailTyped'
      BY <1>23, <2>1 DEF StartStep, StopCheck, RecordChecked, Checked, AvailTyped
    <2>5. WorkerTyped'
      BY <1>23, <2>1, TaskQueueConstants
      DEF StartStep, Goto, StopCheck, WorkerTyped, WorkerState, WorkerPcs, NoJob,
          Streams
    <2>6. /\ HelperTyped' /\ StagedTyped' /\ SwapTyped' /\ CacheTyped' /\ WebTyped'
          /\ FaultsTyped'
      BY <1>23
      DEF StartStep, fsys, HelperTyped, StagedTyped, SwapTyped, CacheTyped, WebTyped,
          FaultsTyped
    <2>7. QED
      BY <2>1, <2>2, <2>3, <2>4, <2>5, <2>6
  <1>24. CASE ExecHelper
    <2>1. w.job \in Jobs /\ w.pos \in Streams
      BY <1>24
      DEF ExecHelper, Locals, JobInRange, PosInRange, HandlerPcs, CheckPcs, StepPcs
    <2>2. HelperTyped'
      <3>1. [helper EXCEPT ![w.job][w.pos] = TRUE] \in [Jobs -> [Streams -> BOOLEAN]]
        BY <2>1 DEF HelperTyped
      <3>2. QED
        BY <1>24, <3>1 DEF ExecHelper, HelperTyped
    <2>3. WorkerTyped'
      <3>1. [w EXCEPT !.pc = "stepdone", !.ok = FALSE] \in WorkerState
        BY DEF WorkerTyped, WorkerState, WorkerPcs
      <3>2. [w EXCEPT !.pc = "wait"] \in WorkerState
        BY DEF WorkerTyped, WorkerState, WorkerPcs
      <3>3. QED
        BY <1>24, <3>1, <3>2 DEF ExecHelper, Goto, WorkerTyped
    <2>4. /\ JobsTyped' /\ StepsTyped' /\ AvailTyped' /\ StagedTyped' /\ SwapTyped'
          /\ CacheTyped' /\ WebTyped' /\ FaultsTyped'
      BY <1>24
      DEF ExecHelper, fsys, JobsTyped, StepsTyped, AvailTyped, StagedTyped,
          SwapTyped, CacheTyped, WebTyped, FaultsTyped
    <2>5. QED
      BY <2>1, <2>2, <2>3, <2>4
  <1>25. CASE HelperReturns
    <2>1. w.job \in Jobs /\ w.pos \in Streams
      BY <1>25
      DEF HelperReturns, Locals, JobInRange, PosInRange, HandlerPcs, CheckPcs,
          StepPcs
    <2>2. HelperTyped'
      BY <1>25, <2>1 DEF HelperReturns, HelperTyped
    <2>3. WorkerTyped'
      BY ZenonT(60), <1>25, <2>1, TaskQueueConstants
      DEF HelperReturns, WorkerTyped, WorkerState, WorkerPcs, NoJob, Streams
    <2>4. /\ JobsTyped' /\ StepsTyped' /\ AvailTyped' /\ StagedTyped' /\ SwapTyped'
          /\ CacheTyped' /\ WebTyped' /\ FaultsTyped'
      BY <1>25
      DEF HelperReturns, fsys, JobsTyped, StepsTyped, AvailTyped, StagedTyped,
          SwapTyped, CacheTyped, WebTyped, FaultsTyped
    <2>5. QED
      BY <2>1, <2>2, <2>3, <2>4
  <1>26. CASE HelperUnresolved
    <2>1. w.job \in Jobs /\ w.pos \in Streams
      BY <1>26
      DEF HelperUnresolved, Locals, JobInRange, PosInRange, HandlerPcs, CheckPcs,
          StepPcs
    <2>2. WorkerTyped'
      <3>1. job[w.job].req \in BOOLEAN
        BY <2>1 DEF JobsTyped, JobRow
      <3>2. [w EXCEPT !.pc = "hold", !.seen = job[w.job].req] \in WorkerState
        BY <3>1, FlagType DEF WorkerPcs
      <3>3. QED
        BY <1>26, <3>2 DEF HelperUnresolved, WorkerTyped
    <2>3. FaultsTyped'
      BY <1>26, <2>1, FaultType DEF HelperUnresolved, FaultsTyped
    <2>4. /\ JobsTyped' /\ StepsTyped' /\ AvailTyped' /\ HelperTyped' /\ StagedTyped'
          /\ SwapTyped' /\ CacheTyped' /\ WebTyped'
      BY <1>26
      DEF HelperUnresolved, fsys, JobsTyped, StepsTyped, AvailTyped, HelperTyped,
          StagedTyped, SwapTyped, CacheTyped, WebTyped
    <2>5. QED
      BY <2>1, <2>2, <2>3, <2>4
  <1>27. CASE HoldCheck
    <2>1. w.job \in Jobs /\ w.pos \in Streams
      BY <1>27
      DEF HoldCheck, Locals, JobInRange, PosInRange, HandlerPcs, CheckPcs, StepPcs
    <2>2. JobsTyped'
      <3>1. [job EXCEPT ![w.job].unresolved = TRUE] \in [Jobs -> JobRow]
        BY <2>1 DEF JobsTyped, JobRow
      <3>2. [job EXCEPT ![w.job].unresolved = TRUE, ![w.job].outcome = "cleanup-required"]
               \in [Jobs -> JobRow]
        BY ZenonT(60), <2>1 DEF JobsTyped, JobRow, Outcomes
      <3>3. [job EXCEPT ![w.job].unresolved = TRUE, ![w.job].outcome = @] \in [Jobs -> JobRow]
        BY <2>1 DEF JobsTyped, JobRow
      <3>4. QED
        BY <1>27, <3>2, <3>3 DEF HoldCheck, JobsTyped
    <2>3. WorkerTyped'
      BY <1>27, <2>1, TaskQueueConstants
      DEF HoldCheck, Goto, WorkerTyped, WorkerState, WorkerPcs, NoJob, Streams
    <2>4. /\ StepsTyped' /\ AvailTyped' /\ HelperTyped' /\ StagedTyped' /\ SwapTyped'
          /\ CacheTyped' /\ WebTyped' /\ FaultsTyped'
      BY <1>27
      DEF HoldCheck, fsys, StepsTyped, AvailTyped, HelperTyped, StagedTyped,
          SwapTyped, CacheTyped, WebTyped, FaultsTyped
    <2>5. QED
      BY <2>1, <2>2, <2>3, <2>4
  <1>28. CASE CompleteStep
    <2>1. w.job \in Jobs /\ w.pos \in Streams
      BY <1>28
      DEF CompleteStep, Locals, JobInRange, PosInRange, HandlerPcs, CheckPcs, StepPcs
    <2>2. StepsTyped'
      BY <1>28, <2>1, StepTypes DEF CompleteStep, StepsTyped, StepStates
    <2>3. WorkerTyped'
      <3>1. w.pos + 1 \in 1 .. NStreams + 1
        BY <2>1, TaskQueueConstants DEF Streams
      <3>2. [w EXCEPT !.pc = "cancelcheck", !.pos = w.pos + 1] \in WorkerState
        BY <3>1, PosType DEF WorkerPcs
      <3>3. QED
        BY <1>28, <3>2 DEF CompleteStep, WorkerTyped
    <2>4. /\ JobsTyped' /\ AvailTyped' /\ HelperTyped' /\ StagedTyped' /\ SwapTyped'
          /\ CacheTyped' /\ WebTyped' /\ FaultsTyped'
      BY <1>28
      DEF CompleteStep, fsys, JobsTyped, AvailTyped, HelperTyped, StagedTyped,
          SwapTyped, CacheTyped, WebTyped, FaultsTyped
    <2>5. QED
      BY <2>1, <2>2, <2>3, <2>4
  <1>29. CASE CheckRaises
    <2>1. WorkerTyped'
      BY <1>29, TaskQueueConstants
      DEF CheckRaises, Goto, Fault, WorkerTyped, WorkerState, WorkerPcs, NoJob,
          Streams
    <2>2. FaultsTyped'
      BY <1>29, FaultType DEF CheckRaises, FaultsTyped
    <2>3. w.job \in Jobs
      BY <1>29 DEF CheckRaises, Locals, JobInRange, HandlerPcs, CheckPcs
    <2>4. JobsTyped'
      BY ZenonT(60), <1>29, <2>3 DEF CheckRaises, JobsTyped, JobRow
    <2>5. /\ StepsTyped' /\ AvailTyped' /\ HelperTyped' /\ StagedTyped'
          /\ SwapTyped' /\ CacheTyped' /\ WebTyped'
      BY <1>29
      DEF CheckRaises, fsys, StepsTyped, AvailTyped, HelperTyped,
          StagedTyped, SwapTyped, CacheTyped, WebTyped
    <2>6. QED
      BY <2>1, <2>2, <2>4, <2>5
  <1>30. CASE SyncMedia
    <2>1. w.job \in Jobs
      BY <1>30
      DEF SyncMedia, Locals, JobInRange, PosInRange, HandlerPcs, CheckPcs, StepPcs
    <2>2. StagedTyped'
      BY <1>30, <2>1 DEF SyncMedia, Fault, StagedTyped
    <2>3. SwapTyped'
      BY <1>30, <2>1 DEF SyncMedia, Fault, SwapTyped, Swaps
    <2>4. CacheTyped'
      BY <1>30, <2>1 DEF SyncMedia, Fault, CacheTyped, Versions
    <2>5. WorkerTyped'
      BY <1>30, <2>1, TaskQueueConstants
      DEF SyncMedia, Goto, Fault, WorkerTyped, WorkerState, WorkerPcs, NoJob, Streams
    <2>6. FaultsTyped'
      BY <1>30, <2>1, FaultType DEF SyncMedia, FaultsTyped
    <2>7. JobsTyped' /\ StepsTyped' /\ AvailTyped' /\ HelperTyped' /\ WebTyped'
      BY <1>30
      DEF SyncMedia, fsys, JobsTyped, StepsTyped, AvailTyped, HelperTyped, WebTyped
    <2>8. QED
      BY <2>1, <2>2, <2>3, <2>4, <2>5, <2>6, <2>7
  <1>31. CASE PollMedia
    <2>1. WorkerTyped'
      BY <1>31, TaskQueueConstants
      DEF PollMedia, Goto, WorkerTyped, WorkerState, WorkerPcs, NoJob, Streams
    <2>2. /\ JobsTyped' /\ StepsTyped' /\ AvailTyped' /\ HelperTyped' /\ StagedTyped'
          /\ SwapTyped' /\ CacheTyped' /\ WebTyped' /\ FaultsTyped'
      BY <1>31
      DEF PollMedia, fsys, JobsTyped, StepsTyped, AvailTyped, HelperTyped,
          StagedTyped, SwapTyped, CacheTyped, WebTyped, FaultsTyped
    <2>3. QED
      BY <2>1, <2>2
  <1>32. CASE CompleteMedia
    <2>1. w.job \in Jobs
      BY <1>32
      DEF CompleteMedia, Locals, JobInRange, PosInRange, HandlerPcs, CheckPcs,
          StepPcs
    <2>2. JobsTyped'
      BY <1>32, <2>1, RowTypes
      DEF CompleteMedia, JobsTyped, JobRow, Kinds, Outcomes, Statuses, Active,
          Finished
    <2>3. WorkerTyped'
      BY <1>32, <2>1, TaskQueueConstants
      DEF CompleteMedia, Goto, WorkerTyped, WorkerState, WorkerPcs, NoJob, Streams
    <2>4. /\ StepsTyped' /\ AvailTyped' /\ HelperTyped' /\ StagedTyped' /\ SwapTyped'
          /\ CacheTyped' /\ WebTyped' /\ FaultsTyped'
      BY <1>32
      DEF CompleteMedia, fsys, StepsTyped, AvailTyped, HelperTyped, StagedTyped,
          SwapTyped, CacheTyped, WebTyped, FaultsTyped
    <2>5. QED
      BY <2>1, <2>2, <2>3, <2>4
  <1>33. CASE CommitMedia
    <2>1. w.job \in Jobs
      BY <1>33
      DEF CommitMedia, Locals, JobInRange, PosInRange, HandlerPcs, CheckPcs, StepPcs
    <2>2. SwapTyped'
      BY <1>33, <2>1 DEF CommitMedia, Fault, SwapTyped, Swaps
    <2>3. WorkerTyped'
      BY <1>33, <2>1, TaskQueueConstants
      DEF CommitMedia, Goto, Fault, WorkerTyped, WorkerState, WorkerPcs, NoJob,
          Streams
    <2>4. FaultsTyped'
      BY <1>33, <2>1, FaultType DEF CommitMedia, FaultsTyped
    <2>5. /\ JobsTyped' /\ StepsTyped' /\ AvailTyped' /\ HelperTyped' /\ StagedTyped'
          /\ CacheTyped' /\ WebTyped'
      BY <1>33
      DEF CommitMedia, fsys, JobsTyped, StepsTyped, AvailTyped, HelperTyped,
          StagedTyped, CacheTyped, WebTyped
    <2>6. QED
      BY <2>1, <2>2, <2>3, <2>4, <2>5
  <1>34. CASE UndoMedia
    <2>1. w.job \in Jobs
      BY <1>34
      DEF UndoMedia, Locals, JobInRange, PosInRange, HandlerPcs, CheckPcs, StepPcs
    <2>2. JobsTyped'
      BY <1>34, <2>1, RowTypes
      DEF UndoMedia, Fault, JobsTyped, JobRow, Kinds, Outcomes, Statuses, Active,
          Finished
    <2>3. StagedTyped'
      BY <1>34, <2>1 DEF UndoMedia, Fault, StagedTyped
    <2>4. SwapTyped'
      BY <1>34, <2>1 DEF UndoMedia, Fault, SwapTyped, Swaps
    <2>5. CacheTyped'
      BY <1>34, <2>1 DEF UndoMedia, Fault, CacheTyped, Versions, RolledBack
    <2>6. WorkerTyped'
      BY <1>34, <2>1, TaskQueueConstants
      DEF UndoMedia, Goto, Fault, WorkerTyped, WorkerState, WorkerPcs, NoJob, Streams
    <2>7. FaultsTyped'
      BY <1>34, <2>1, FaultType DEF UndoMedia, FaultsTyped
    <2>8. StepsTyped' /\ AvailTyped' /\ HelperTyped' /\ WebTyped'
      BY <1>34 DEF UndoMedia, fsys, StepsTyped, AvailTyped, HelperTyped, WebTyped
    <2>9. QED
      BY <2>1, <2>2, <2>3, <2>4, <2>5, <2>6, <2>7, <2>8
  <1>35. CASE StopMedia
    <2>1. w.job \in Jobs
      BY <1>35
      DEF StopMedia, Locals, JobInRange, PosInRange, HandlerPcs, CheckPcs, StepPcs
    <2>2. JobsTyped'
      BY <1>35, <2>1, RowTypes
      DEF StopMedia, FinishStop, JobsTyped, JobRow, Kinds, Outcomes, Statuses,
          Active, Finished
    <2>3. StepsTyped'
      BY <1>35, <2>1, StepTypes DEF StopMedia, FinishStop, StepsTyped, StepStates
    <2>4. WorkerTyped'
      BY <1>35, <2>1, TaskQueueConstants
      DEF StopMedia, Goto, WorkerTyped, WorkerState, WorkerPcs, NoJob, Streams
    <2>5. /\ AvailTyped' /\ HelperTyped' /\ StagedTyped' /\ SwapTyped' /\ CacheTyped'
          /\ WebTyped' /\ FaultsTyped'
      BY <1>35
      DEF StopMedia, fsys, AvailTyped, HelperTyped, StagedTyped, SwapTyped,
          CacheTyped, WebTyped, FaultsTyped
    <2>6. QED
      BY <2>1, <2>2, <2>3, <2>4, <2>5
  <1>36. CASE FailJob
    <2>1. w.job \in Jobs
      BY <1>36
      DEF FailJob, Locals, JobInRange, PosInRange, HandlerPcs, CheckPcs, StepPcs
    <2>2. JobsTyped'
      BY <1>36, <2>1, RowTypes
      DEF FailJob, JobsTyped, JobRow, Kinds, Outcomes, Statuses, Active, Finished
    <2>3. StepsTyped'
      BY <1>36, <2>1, StepTypes DEF FailJob, StepsTyped, StepStates
    <2>4. WorkerTyped'
      BY <1>36, <2>1, TaskQueueConstants
      DEF FailJob, Goto, WorkerTyped, WorkerState, WorkerPcs, NoJob, Streams
    <2>5. /\ AvailTyped' /\ HelperTyped' /\ StagedTyped' /\ SwapTyped' /\ CacheTyped'
          /\ WebTyped' /\ FaultsTyped'
      BY <1>36
      DEF FailJob, fsys, AvailTyped, HelperTyped, StagedTyped, SwapTyped, CacheTyped,
          WebTyped, FaultsTyped
    <2>6. QED
      BY <2>1, <2>2, <2>3, <2>4, <2>5
  <1>37. CASE Crash
    <2>1. WorkerTyped'
      BY <1>37, TaskQueueConstants
      DEF Crash, Goto, Fault, WorkerTyped, WorkerState, WorkerPcs, NoJob, Streams
    <2>2. FaultsTyped'
      BY <1>37, FaultType DEF Crash, FaultsTyped
    <2>3. /\ JobsTyped' /\ StepsTyped' /\ AvailTyped' /\ HelperTyped' /\ StagedTyped'
          /\ SwapTyped' /\ CacheTyped' /\ WebTyped'
      BY <1>37
      DEF Crash, fsys, JobsTyped, StepsTyped, AvailTyped, HelperTyped, StagedTyped,
          SwapTyped, CacheTyped, WebTyped
    <2>4. QED
      BY <2>1, <2>2, <2>3
  <1>38. CASE \E j \in Jobs, s \in Streams : HelperExits(j, s)
    <2>1. HelperTyped'
      BY <1>38 DEF HelperExits, HelperTyped
    <2>2. /\ JobsTyped' /\ StepsTyped' /\ AvailTyped' /\ StagedTyped' /\ SwapTyped'
          /\ CacheTyped' /\ WorkerTyped' /\ WebTyped' /\ FaultsTyped'
      BY <1>38
      DEF HelperExits, fsys, JobsTyped, StepsTyped, AvailTyped, StagedTyped,
          SwapTyped, CacheTyped, WorkerTyped, WebTyped, FaultsTyped
    <2>3. QED
      BY <2>1, <2>2
  <1>39. CASE SyncEscapes
    <2>1. w.job \in Jobs
      BY <1>39 DEF SyncEscapes, Locals, JobInRange, HandlerPcs, CheckPcs
    <2>2. PICK s \in Swaps, c \in {"old", "new"}, held \in BOOLEAN :
             /\ swap' = [swap EXCEPT ![w.job] = s]
             /\ cache' = [cache EXCEPT ![w.job] = c]
             /\ job' = [job EXCEPT ![w.job].escaped = (s # "none")]
             /\ w' = [w EXCEPT !.pc = "drop", !.held = held]
      BY <1>39 DEF SyncEscapes
    <2>3. SwapTyped' /\ CacheTyped'
      BY <2>1, <2>2 DEF SwapTyped, CacheTyped, Versions
    <2>4. JobsTyped'
      BY <2>1, <2>2 DEF JobsTyped, JobRow
    <2>5. WorkerTyped'
      BY <2>2 DEF WorkerTyped, WorkerState, WorkerPcs
    <2>6. StagedTyped'
      BY <1>39, <2>1 DEF SyncEscapes, StagedTyped
    <2>7. FaultsTyped'
      BY <1>39, FaultType DEF SyncEscapes
    <2>8. StepsTyped' /\ AvailTyped' /\ HelperTyped' /\ WebTyped'
      BY <1>39 DEF SyncEscapes, StepsTyped, AvailTyped, HelperTyped, WebTyped
    <2>9. QED
      BY <2>3, <2>4, <2>5, <2>6, <2>7, <2>8
  <1>40. CASE SyncBlocks \/ RestartBlocked
    <2>1. WorkerTyped'
      BY <1>40, GotoType DEF SyncBlocks, RestartBlocked, WorkerPcs
    <2>2. /\ JobsTyped' /\ StepsTyped' /\ AvailTyped' /\ HelperTyped' /\ StagedTyped'
          /\ SwapTyped' /\ CacheTyped' /\ WebTyped' /\ FaultsTyped'
      BY <1>40
      DEF SyncBlocks, RestartBlocked, fsys, JobsTyped, StepsTyped, AvailTyped,
          HelperTyped, StagedTyped, SwapTyped, CacheTyped, WebTyped, FaultsTyped
    <2>3. QED
      BY <2>1, <2>2
  <1>41. CASE DropMedia
    <2>1. w.job \in Jobs
      BY <1>41 DEF DropMedia, Locals, JobInRange, HandlerPcs, CheckPcs
    <2>2. JobsTyped'
      BY <1>41, <2>1 DEF DropMedia, JobsTyped, JobRow, Outcomes
    <2>3. StagedTyped'
      BY <1>41, <2>1 DEF DropMedia, StagedTyped
    <2>4. WorkerTyped'
      BY <1>41, GotoType DEF DropMedia, WorkerPcs
    <2>5. FaultsTyped'
      BY <1>41, FaultType DEF DropMedia, FaultsTyped
    <2>6. /\ StepsTyped' /\ AvailTyped' /\ HelperTyped' /\ SwapTyped' /\ CacheTyped'
          /\ WebTyped'
      BY <1>41
      DEF DropMedia, StepsTyped, AvailTyped, HelperTyped, SwapTyped, CacheTyped, WebTyped
    <2>7. QED
      BY <2>2, <2>3, <2>4, <2>5, <2>6
  <1>42. CASE MediaRaises
    <2>1. WorkerTyped'
      BY <1>42 DEF MediaRaises, Goto, WorkerTyped, WorkerState, WorkerPcs
    <2>2. FaultsTyped'
      BY <1>42, FaultType DEF MediaRaises
    <2>3. /\ JobsTyped' /\ StepsTyped' /\ AvailTyped' /\ HelperTyped' /\ StagedTyped'
          /\ SwapTyped' /\ CacheTyped' /\ WebTyped'
      BY <1>42
      DEF MediaRaises, fsys, JobsTyped, StepsTyped, AvailTyped, HelperTyped,
          StagedTyped, SwapTyped, CacheTyped, WebTyped
    <2>4. QED
      BY <2>1, <2>2, <2>3
  <1>43. CASE UNCHANGED vars
    BY <1>43
    DEF vars, JobsTyped, StepsTyped, AvailTyped, HelperTyped, StagedTyped, SwapTyped,
        CacheTyped, WorkerTyped, WebTyped, FaultsTyped
  <1>44. QED
    BY <1>1, <1>2, <1>3, <1>4, <1>5, <1>6, <1>7, <1>8, <1>9, <1>10, <1>11, <1>12,
       <1>13, <1>14, <1>15, <1>16, <1>17, <1>18, <1>19, <1>20, <1>21, <1>22, <1>23,
       <1>24, <1>25, <1>26, <1>27, <1>28, <1>29, <1>30, <1>31, <1>32, <1>33, <1>34,
       <1>35, <1>36, <1>37, <1>38, <1>39, <1>40, <1>41, <1>42, <1>43
    DEF Next, Web, Worker, Recover, Host

-----------------------------------------------------------------------------
(* How the shared row updates act on the rows that ownership looks at.     *)

(* No row starts or stops running; running rows keep their outcome.        *)
RowsKept == \A i \in Jobs :
    /\ job'[i].kind = job[i].kind /\ job'[i].req = job[i].req
    /\ job'[i].status = "running" <=> job[i].status = "running"
    /\ job[i].status \in Finished => job'[i].status \in Finished
    /\ job[i].status = "running" => job'[i].outcome = job[i].outcome
    /\ job'[i].outcome = "cleanup-required"
          => job[i].outcome = "cleanup-required" \/ job[i].req

(* Row j leaves the running state, or stays in it as a held row.           *)
RowEnds(j) ==
    /\ \A i \in Jobs : i # j => job'[i] = job[i]
    /\ job'[j].kind = job[j].kind /\ job'[j].req = job[j].req
    /\ job'[j].status = "running" => job[j].status = "running" /\ HeldRow(job'[j])
    /\ job'[j].outcome = "cleanup-required"
          => job[j].outcome = "cleanup-required" \/ job[j].req

(* Settling finished rows, after an update of pending rows that starts     *)
(* none, starts and ends no running row.                                   *)
LEMMA SettleRows ==
    ASSUME JobsTyped, NEW t \in [Jobs -> JobRow], NEW S, job' = Settle(t, S),
           \A i \in Jobs : i \in S => job[i].status \in Finished,
           \A i \in Jobs : t[i] = job[i] \/ job[i].status = "pending",
           \A i \in Jobs : /\ t[i].kind = job[i].kind /\ t[i].req = job[i].req
                           /\ t[i].status # "running" \/ job[i].status = "running"
                           /\ t[i].outcome = "cleanup-required"
                                 => job[i].outcome = "cleanup-required" \/ job[i].req
    PROVE  RowsKept
  <1> SUFFICES ASSUME NEW i \in Jobs
               PROVE  /\ job'[i].kind = job[i].kind /\ job'[i].req = job[i].req
                      /\ job'[i].status = "running" <=> job[i].status = "running"
                      /\ job[i].status \in Finished => job'[i].status \in Finished
                      /\ job[i].status = "running" => job'[i].outcome = job[i].outcome
                      /\ job'[i].outcome = "cleanup-required"
                            => job[i].outcome = "cleanup-required" \/ job[i].req
    BY DEF RowsKept
  <1>1. CASE i \in S
    <2>1. t[i] = job[i] /\ job[i].status \in Finished
      BY <1>1 DEF Finished
    <2>2. job'[i] = Settled(job[i])
      BY <1>1, <2>1 DEF Settle
    <2>3. /\ job'[i].kind = job[i].kind /\ job'[i].req = job[i].req
          /\ job'[i].status = job[i].status /\ job'[i].outcome # "cleanup-required"
      BY <2>2 DEF Settled, JobsTyped, JobRow
    <2>4. QED
      BY <2>1, <2>3 DEF Finished
  <1>2. CASE i \notin S
    <2>1. job'[i] = t[i]
      BY <1>2 DEF Settle
    <2>2. QED
      BY <2>1 DEF Finished
  <1>3. QED
    BY <1>1, <1>2

(* finish_pending starts and ends no running row.                          *)
LEMMA FinishPendingRows ==
    ASSUME JobsTyped, NEW j \in Jobs, NEW S, FinishPending(j, S),
           \A i \in Jobs : i \in S => job[i].status \in Finished
    PROVE  RowsKept
  <1>1. job[j].status = "pending" /\ job[j].req
    BY DEF FinishPending
  <1>2. CASE job' = Settle([job EXCEPT ![j] = Stopped(@)], S)
    <2>1. [job EXCEPT ![j] = Stopped(@)] \in [Jobs -> JobRow]
      BY RowTypes DEF JobsTyped
    <2>2. /\ Stopped(job[j]).kind = job[j].kind /\ Stopped(job[j]).req = job[j].req
          /\ Stopped(job[j]).status = "cancelled"
          /\ Stopped(job[j]).outcome = "confirmed"
      BY DEF Stopped, JobsTyped, JobRow
    <2>3. QED
      BY <1>1, <1>2, <2>1, <2>2, SettleRows DEF JobsTyped
  <1>3. CASE job' = Settle([job EXCEPT ![j].outcome = "cleanup-required"], S)
    <2>1. [job EXCEPT ![j].outcome = "cleanup-required"] \in [Jobs -> JobRow]
      BY DEF JobsTyped, JobRow, Outcomes
    <2> DEFINE t == [job EXCEPT ![j].outcome = "cleanup-required"]
    <2>2. /\ \A i \in Jobs : i # j => t[i] = job[i]
          /\ t[j].kind = job[j].kind /\ t[j].req = job[j].req
          /\ t[j].status = job[j].status
      BY DEF JobsTyped, JobRow
    <2>3. t \in [Jobs -> JobRow] /\ job' = Settle(t, S)
      BY <1>3, <2>1
    <2> HIDE DEF t
    <2>4. QED
      BY ZenonT(60), <1>1, <2>2, <2>3, SettleRows
  <1>4. QED
    BY <1>2, <1>3 DEF FinishPending

(* A confirmed stop ends its row ...                                       *)
LEMMA StopEndsRow ==
    ASSUME JobsTyped, NEW j \in Jobs, FinishStop(j)
    PROVE  RowEnds(j)
  BY DEF FinishStop, Stopped, RowEnds, JobsTyped, JobRow

(* ... as does retaining it for the operator, as admission then sees ...  *)
LEMMA RetainEndsRow ==
    ASSUME JobsTyped, NEW j \in Jobs, Retain(j), job[j].req
    PROVE  RowEnds(j)
  BY DEF Retain, RowEnds, HeldRow, JobsTyped, JobRow

(* ... and failing it.                                                     *)
LEMMA FailEndsRow ==
    ASSUME JobsTyped, NEW j \in Jobs, job' = [job EXCEPT ![j].status = "failed"]
    PROVE  RowEnds(j)
  BY DEF RowEnds, JobsTyped, JobRow

(* Consequences for the invariant.                                         *)
Rest == Locals /\ CleanupAsked /\ Ownership

(* A step of the web process that keeps the running rows keeps the         *)
(* worker's part of the invariant.                                         *)
LEMMA KeptSameWorker ==
    ASSUME IInv, RowsKept, w' = w, ThreadInRange'
    PROVE  Rest'
  <1> USE DEF IInv, Locals, RowsKept, JobInRange, HandlerPcs
  <1>1. CheckIsCheck' /\ SeenAsked'
    BY DEF CheckIsCheck, SeenAsked, CheckPcs
  <1>2. MarkedDone' /\ MarkedAsked'
    BY DEF MarkedDone, MarkedAsked, TypeOK, WorkerTyped, WorkerState
  <1>3. CleanupAsked'
    BY DEF CleanupAsked
  <1>4. Running' = Running
    BY DEF Running
  <1>5. Ownership'
    BY <1>4 DEF Ownership, SingleRunning, ExecutingOwns, IdleHolds, ClaimIsAlone,
                RecoveryOwns, HeldRow, Running
  <1>6. JobInRange' /\ PosInRange'
    BY DEF PosInRange
  <1>7. QED
    BY <1>1, <1>2, <1>3, <1>5, <1>6 DEF Rest

(* So does a step between two places where the worker executes nothing.    *)
LEMMA KeptIdle ==
    ASSUME IInv, RowsKept, w.pc \in IdlePcs, w'.pc \in IdlePcs, web' = web,
           w'.pc = "reconcile" => \A j \in w'.marked : job'[j].status \in Finished
    PROVE  Rest'
  <1>1. Locals'
    BY DEF IInv, Locals, JobInRange, ThreadInRange, CheckIsCheck, PosInRange,
           MarkedDone, MarkedAsked, SeenAsked, IdlePcs, HandlerPcs, CheckPcs, StepPcs
  <1>2. CleanupAsked'
    BY DEF IInv, CleanupAsked, RowsKept
  <1>3. Running' = Running
    BY DEF Running, RowsKept
  <1>4. Ownership'
    BY <1>3 DEF IInv, Ownership, SingleRunning, ExecutingOwns, IdleHolds, ClaimIsAlone,
                RecoveryOwns, HeldRow, Running, RowsKept, IdlePcs, HandlerPcs, CheckPcs
  <1>5. QED
    BY <1>1, <1>2, <1>4 DEF Rest

(* A handler may return to the loop once its row has ended.                *)
LEMMA EndsIdle ==
    ASSUME IInv, w.pc \in HandlerPcs, RowEnds(w.job), w'.pc \in {"settle", "loop"},
           web' = web
    PROVE  Rest'
  <1>1. w.job \in Jobs
    BY DEF IInv, Locals, JobInRange
  <1>2. Locals'
    BY DEF IInv, Locals, JobInRange, ThreadInRange, CheckIsCheck, PosInRange,
           MarkedDone, MarkedAsked, SeenAsked, HandlerPcs, CheckPcs, StepPcs
  <1>3. CleanupAsked'
    BY <1>1 DEF IInv, CleanupAsked, RowEnds
  <1>4. Running' \subseteq Running /\ \A j \in Running' : HeldRow(job'[j])
    BY <1>1 DEF IInv, Ownership, ExecutingOwns, Running, RowEnds
  <1>5. Ownership'
    BY <1>4 DEF IInv, Ownership, SingleRunning, ExecutingOwns, IdleHolds, ClaimIsAlone,
                RecoveryOwns, HandlerPcs, CheckPcs, IdlePcs, Running
  <1>6. QED
    BY <1>2, <1>3, <1>5 DEF Rest

(* Recovery may go on to the next row once this one has ended.             *)
LEMMA EndsRecovery ==
    ASSUME IInv, w.pc = "recovering", NEW j \in Jobs, RowEnds(j), web' = web,
           Recovered(j)
    PROVE  Rest'
  <1>1. /\ w'.pc = "recovering" /\ w'.marked = w.marked /\ w'.todo = w.todo \ {j}
        /\ w.marked \in SUBSET Jobs
    BY DEF Recovered, IInv, TypeOK, WorkerTyped, WorkerState
  <1>2. Locals'
    BY <1>1 DEF IInv, Locals, JobInRange, ThreadInRange, CheckIsCheck, PosInRange,
                MarkedDone, MarkedAsked, SeenAsked, HandlerPcs, CheckPcs, StepPcs, RowEnds
  <1>3. CleanupAsked'
    BY DEF IInv, CleanupAsked, RowEnds
  <1>4. Running' \subseteq Running
    BY DEF Running, RowEnds
  <1>5. RecoveryOwns'
    BY <1>1, <1>4 DEF IInv, Ownership, RecoveryOwns, Running, RowEnds
  <1>6. SingleRunning' /\ ExecutingOwns' /\ IdleHolds' /\ ClaimIsAlone'
    BY <1>1, <1>4 DEF IInv, Ownership, SingleRunning, ExecutingOwns, IdleHolds,
                      ClaimIsAlone, HandlerPcs, CheckPcs, IdlePcs
  <1>7. QED
    BY <1>2, <1>3, <1>5, <1>6 DEF Rest, Ownership

-----------------------------------------------------------------------------
(* The worker's locals and the ownership of running rows.                  *)

(* Every step keeps the meaning of the locals and the ownership of rows.   *)
LEMMA InvStep == IInv /\ [Next]_vars => Rest'
  <1> SUFFICES ASSUME IInv, [Next]_vars PROVE (Locals /\ CleanupAsked /\ Ownership)'
    BY DEF Rest
  <1> USE TaskQueueConstants
      DEF IInv, TypeOK, JobsTyped, JobRow, WorkerTyped, WorkerState, WebTyped,
          ThreadState, Locals, JobInRange, ThreadInRange, CheckIsCheck, PosInRange,
          MarkedDone, MarkedAsked, SeenAsked, CleanupAsked, Ownership, SingleRunning,
          ExecutingOwns, IdleHolds, ClaimIsAlone, RecoveryOwns, HeldRow, Running,
          Streams, HandlerPcs, CheckPcs, StepPcs, IdlePcs, Active, Finished, Kinds, Media,
          fsys
  <1>1. CASE \E j \in Jobs, k \in Kinds : Submit(j, k)
    BY <1>1 DEF Submit
  <1>2. CASE \E c \in Clients, j \in Jobs : RequestRead(c, j)
    <2>1. PICK c \in Clients, j \in Jobs : RequestRead(c, j)
      BY <1>2
    <2>2. ThreadInRange'
      <3>1. [IdleThread EXCEPT !.pc = "finish", !.job = j].job = j
        BY DEF IdleThread
      <3>2. PICK r : r.job = j /\ web' = [web EXCEPT ![c] = r]
        BY <2>1, <3>1 DEF RequestRead
      <3>3. QED
        BY <3>2
    <2>3. RowsKept /\ w' = w
      BY <2>1 DEF RequestRead, RowsKept
    <2>4. QED
      BY <2>2, <2>3, KeptSameWorker DEF Rest
  <1>3. CASE \E c \in Clients : RequestReserve(c)
    <2>1. PICK c \in Clients : RequestReserve(c)
      BY <1>3
    <2>2. web[c].job \in Jobs /\ w' = w
      BY <2>1 DEF RequestReserve
    <2>3. ThreadInRange'
      BY <2>1, SMTT(60) DEF RequestReserve, IdleThread
    <2>4. CASE job' = job
      <3>1. RowsKept
        BY <2>4 DEF RowsKept
      <3>2. QED
        BY <2>2, <2>3, <3>1, KeptSameWorker DEF Rest
    <2>5. CASE Unchanged(job[web[c].job], web[c])
      <3> DEFINE j == web[c].job
      <3>1. ~job[j].req /\ job[j].outcome # "cleanup-required"
        BY <2>2, <2>5 DEF Unchanged
      <3>2. /\ \A i \in Jobs : i # j => job'[i] = job[i]
            /\ job'[j].kind = job[j].kind /\ job'[j].req
            /\ job'[j].status = job[j].status /\ job'[j].outcome = "requested"
        BY <2>1, <2>2, <2>5 DEF RequestReserve
      <3>3. Running' = Running
        BY <3>2
      <3>4. Locals' /\ CleanupAsked'
        BY <2>2, <2>3, <3>2
      <3>5. Ownership'
        BY <2>2, <3>1, <3>2, <3>3
      <3>6. QED
        BY <3>4, <3>5
    <2>6. QED
      BY <2>1, <2>4, <2>5 DEF RequestReserve
  <1>4. CASE \E c \in Clients : RequestFinish(c)
    <2>1. PICK c \in Clients : RequestFinish(c)
      BY <1>4
    <2>2. web[c].job \in Jobs
      BY <2>1 DEF RequestFinish
    <2>3. ThreadInRange' /\ w' = w
      BY <2>1 DEF RequestFinish, IdleThread
    <2>4. RowsKept
      <3>1. CASE FinishPending(web[c].job, {})
        BY <2>2, <3>1, FinishPendingRows
      <3>2. CASE UNCHANGED job
        BY <3>2 DEF RowsKept
      <3>3. QED
        BY <2>1, <3>1, <3>2 DEF RequestFinish
    <2>5. QED
      BY <2>3, <2>4, KeptSameWorker DEF Rest
  <1>5. CASE \E c \in Clients : RequestLost(c)
    BY <1>5 DEF RequestLost, IdleThread
  <1>6. CASE Start
    BY <1>6 DEF Start, IdleWorker
  <1>7. CASE RecoverSwaps
    <2>1. w'.pc \in {"load", "down"} /\ UNCHANGED <<job, web>>
      <3>1. /\ [w EXCEPT !.pc = "load", !.ready = TRUE].pc = "load"
            /\ [w EXCEPT !.pc = "load", !.ready = FALSE].pc = "load"
            /\ [w EXCEPT !.pc = "down"].pc = "down"
        OBVIOUS
      <3>2. QED
        BY <1>7, <3>1 DEF RecoverSwaps
    <2>2. QED
      BY <2>1
  <1>8. CASE RecoverLoad
    BY <1>8 DEF RecoverLoad
  <1>9. CASE RecoverEnd
    BY <1>9 DEF RecoverEnd, Goto
  <1>10. CASE \E j \in Jobs : RecoverCancelledCheck(j)
    <2>1. PICK j \in Jobs : RecoverCancelledCheck(j)
      BY <1>10
    <2>2. job[j].req
      BY <2>1 DEF RecoverCancelledCheck
    <2>3. RowEnds(j)
      BY <2>1, <2>2, StopEndsRow, RetainEndsRow DEF RecoverCancelledCheck
    <2>4. QED
      BY <2>1, <2>3, EndsRecovery DEF RecoverCancelledCheck, Rest
  <1>11. CASE \E j \in Jobs : RecoverCheck(j)
    <2>1. Locals'
      BY <1>11 DEF RecoverCheck, Recovered, Fault
    <2>2. CleanupAsked'
      BY <1>11 DEF RecoverCheck, Recovered, Fault
    <2>3. Ownership'
      BY <1>11 DEF RecoverCheck, Recovered, Fault
    <2>4. QED
      BY <2>1, <2>2, <2>3
  <1>12. CASE \E j \in Jobs : RecoverMedia(j)
    <2>1. PICK j \in Jobs : RecoverMedia(j)
      BY <1>12
    <2>2. j \in w.marked => job[j].req
      BY <2>1 DEF RecoverMedia
    <2>3. CASE Goto("down") /\ UNCHANGED job
      <3>1. w'.pc = "down" /\ UNCHANGED <<job, web>>
        BY <2>1, <2>3 DEF RecoverMedia, Goto
      <3>2. QED
        BY <3>1
    <2>4. CASE Recovered(j)
      <3>1. RowEnds(j)
        BY <2>1, <2>2, <2>4, StopEndsRow, RetainEndsRow, FailEndsRow
        DEF RecoverMedia, Recovered, Goto
      <3>2. QED
        BY <2>1, <2>4, <3>1, EndsRecovery DEF RecoverMedia, Rest
    <2>5. QED
      BY <2>1, <2>3, <2>4 DEF RecoverMedia
  <1>13. CASE \E j \in Jobs : RecoverPlain(j)
    BY <1>13 DEF RecoverPlain, Recovered
  <1>14. CASE ReconcileBegin
    BY <1>14 DEF ReconcileBegin, IdleWorker, OpenRequests
  <1>15. CASE ReconcileEnd
    <2>1. RowsKept
      BY <1>15, SettleRows DEF ReconcileEnd
    <2>2. w'.pc \in {"admit", "loop"} /\ web' = web /\ w.pc = "reconcile"
      BY <1>15 DEF ReconcileEnd, Goto
    <2>3. QED
      BY <2>1, <2>2, KeptIdle DEF Rest
  <1>16. CASE \E j \in Jobs : ReconcileOne(j)
    <2>1. PICK j \in Jobs : ReconcileOne(j)
      BY <1>16
    <2>2. RowsKept
      <3>1. CASE FinishPending(j, w.marked)
        BY <2>1, <3>1, FinishPendingRows DEF ReconcileOne
      <3>2. CASE UNCHANGED job
        BY <3>2 DEF RowsKept
      <3>3. QED
        BY <2>1, <3>1, <3>2 DEF ReconcileOne
    <2>3. /\ w.pc = "reconcile" /\ w'.pc = "reconcile" /\ web' = web
          /\ \A i \in w'.marked : i \in w.marked \/ (i = j /\ job[j].status \in Finished)
      <3>1. \/ w' = [w EXCEPT !.todo = @ \ {j}, !.marked = {}]
            \/ /\ w' = [w EXCEPT !.todo = @ \ {j}, !.marked = @ \cup {j}]
               /\ job[j].status \in Finished
            \/ w' = [w EXCEPT !.todo = @ \ {j}]
        BY <2>1 DEF ReconcileOne
      <3>2. w'.pc = w.pc
        BY <3>1
      <3>3. \/ w'.marked \subseteq w.marked
            \/ w'.marked = w.marked \cup {j} /\ job[j].status \in Finished
        BY <3>1
      <3>4. QED
        BY <2>1, <3>2, <3>3 DEF ReconcileOne
    <2>4. \A i \in w'.marked : job'[i].status \in Finished
      BY <2>2, <2>3 DEF RowsKept
    <2>5. QED
      BY <2>2, <2>3, <2>4, KeptIdle DEF Rest
  <1>17. CASE Admit
    BY <1>17 DEF Admit, Goto, Blocked
  <1>18. CASE Pick
    <2>1. Running = {} /\ UNCHANGED <<job, web>>
      BY <1>18 DEF Pick
    <2>2. w'.pc = "loop" \/ (w'.pc = "claim" /\ w'.job \in Jobs)
      BY <1>18 DEF Pick, Goto, Queued
    <2>3. QED
      BY <2>1, <2>2
  <1>19. CASE Claim
    <2>1. w.job \in Jobs /\ Running = {} /\ web' = web
      BY <1>19 DEF Claim
    <2>2. CASE StillQueued(w.job)
      <3>1. /\ w'.pc = Handler(job[w.job].kind) /\ w'.job = w.job
            /\ job' = [job EXCEPT ![w.job].status = "running"]
        BY <1>19, <2>2 DEF Claim
      <3>2. /\ w'.pc \in {"cancelcheck", "sync", "plain"}
            /\ w'.pc = "cancelcheck" => job[w.job].kind = "check"
        BY <2>1, <3>1 DEF Handler
      <3>3. /\ \A i \in Jobs : i # w.job => job'[i] = job[i]
            /\ job'[w.job].kind = job[w.job].kind /\ job'[w.job].req = job[w.job].req
            /\ job'[w.job].outcome = job[w.job].outcome
        BY <2>1, <3>1
      <3>4. Locals' /\ CleanupAsked'
        BY <2>1, <3>1, <3>2, <3>3
      <3>5. \A i \in Running' : i = w.job
        BY <2>1, <3>3
      <3>6. QED
        BY <3>1, <3>2, <3>4, <3>5
    <2>3. CASE ~StillQueued(w.job)
      <3>1. w'.pc = "pick" /\ job' = job
        BY <1>19, <2>3 DEF Claim, Goto
      <3>2. QED
        BY <2>1, <3>1
    <2>4. QED
      BY <2>2, <2>3
  <1>20. CASE RunPlain
    BY <1>20 DEF RunPlain, Goto
  <1>21. CASE CheckStream
    <2>1. w.job \in Jobs /\ web' = web /\ w.pc = "cancelcheck"
      BY <1>21 DEF CheckStream
    <2>2. CASE StopCheck(w.job) /\ Goto("settle")
      <3>1. RowEnds(w.job) /\ w'.pc = "settle"
        BY <2>1, <2>2, StopEndsRow DEF StopCheck, Goto
      <3>2. QED
        BY <2>1, <3>1, EndsIdle DEF Rest
    <2>3. CASE job' = job
      BY <1>21, <2>1, <2>3 DEF CheckStream, Goto
    <2>4. QED
      BY <1>21, <2>2, <2>3 DEF CheckStream
  <1>22. CASE CompleteCheck
    BY <1>22 DEF CompleteCheck, Goto
  <1>23. CASE StartStep
    <2>1. w.job \in Jobs /\ web' = web /\ w.pc = "stepstart"
      BY <1>23 DEF StartStep
    <2>2. CASE StopCheck(w.job) /\ Goto("settle")
      <3>1. RowEnds(w.job) /\ w'.pc = "settle"
        BY <2>1, <2>2, StopEndsRow DEF StopCheck, Goto
      <3>2. QED
        BY <2>1, <3>1, EndsIdle DEF Rest
    <2>3. CASE Goto("exec") /\ job' = job
      BY <2>1, <2>3 DEF Goto
    <2>4. QED
      BY <1>23, <2>2, <2>3 DEF StartStep
  <1>24. CASE ExecHelper
    <2>1. UNCHANGED <<job, web>> /\ w.pc = "exec"
      BY <1>24 DEF ExecHelper
    <2>2. w'.pc \in {"wait", "stepdone"} /\ w'.job = w.job /\ w'.pos = w.pos
      <3>1. w' = [w EXCEPT !.pc = "wait"] \/ w' = [w EXCEPT !.pc = "stepdone", !.ok = FALSE]
        BY <1>24 DEF ExecHelper, Goto
      <3>2. QED
        BY <3>1
    <2>3. QED
      BY <2>1, <2>2
  <1>25. CASE HelperReturns
    BY <1>25 DEF HelperReturns
  <1>26. CASE HelperUnresolved
    BY <1>26 DEF HelperUnresolved, Fault
  <1>27. CASE HoldCheck
    BY <1>27 DEF HoldCheck, Goto
  <1>28. CASE CompleteStep
    BY <1>28 DEF CompleteStep
  <1>29. CASE CheckRaises
    BY <1>29 DEF CheckRaises, Goto, Fault
  <1>30. CASE SyncMedia
    <2>1. w.pc = "sync" /\ UNCHANGED <<job, web>>
      BY <1>30 DEF SyncMedia
    <2>2. w'.pc \in {"poll", "undo"} /\ w'.job = w.job
      BY <1>30 DEF SyncMedia, Goto
    <2>3. QED
      BY <2>1, <2>2
  <1>31. CASE PollMedia
    BY <1>31 DEF PollMedia, Goto
  <1>32. CASE CompleteMedia
    <2>1. w.pc = "complete" /\ w.job \in Jobs /\ web' = web
      BY <1>32 DEF CompleteMedia
    <2>2. CASE job' = job /\ Goto("undo")
      BY <2>1, <2>2 DEF Goto
    <2>3. CASE job' = [job EXCEPT ![w.job].status = "succeeded"] /\ Goto("commitfs")
      <3>1. Running' = {} /\ w'.pc = "commitfs" /\ w'.job = w.job
        BY <2>1, <2>3 DEF Goto
      <3>2. Locals' /\ CleanupAsked'
        BY <2>1, <2>3, <3>1
      <3>3. Ownership'
        BY <3>1
      <3>4. QED
        BY <3>2, <3>3
    <2>4. QED
      BY <1>32, <2>2, <2>3 DEF CompleteMedia
  <1>33. CASE CommitMedia
    BY <1>33 DEF CommitMedia, Goto, Fault
  <1>34. CASE UndoMedia
    <2>1. Locals'
      BY <1>34 DEF UndoMedia, Goto, Fault
    <2>2. CleanupAsked'
      BY <1>34 DEF UndoMedia, Goto, Fault
    <2>3. Ownership'
      BY <1>34 DEF UndoMedia, Goto, Fault
    <2>4. QED
      BY <2>1, <2>2, <2>3
  <1>35. CASE StopMedia
    <2>1. w.job \in Jobs /\ web' = web /\ w.pc = "stop"
      BY <1>35 DEF StopMedia
    <2>2. CASE FinishStop(w.job) /\ Goto("settle")
      <3>1. RowEnds(w.job) /\ w'.pc = "settle"
        BY <2>1, <2>2, StopEndsRow DEF Goto
      <3>2. QED
        BY <2>1, <3>1, EndsIdle DEF Rest
    <2>3. CASE Goto("fail") /\ job' = job
      BY <2>1, <2>3 DEF Goto
    <2>4. QED
      BY <1>35, <2>2, <2>3 DEF StopMedia
  <1>36. CASE FailJob
    <2>1. w.job \in Jobs /\ web' = web /\ w.pc \in HandlerPcs
      BY <1>36 DEF FailJob
    <2>2. w'.pc \in {"settle", "loop"}
      BY <1>36 DEF FailJob, Goto
    <2>3. CASE /\ job[w.job].outcome = "cleanup-required"
               /\ job' = job
      BY <2>1, <2>2, <2>3, EndsIdle DEF RowEnds, Rest
    <2>4. CASE job' = [job EXCEPT ![w.job].status = "failed"]
      <3>1. RowEnds(w.job)
        BY <2>1, <2>4 DEF RowEnds, JobsTyped, JobRow
      <3>2. QED
        BY <2>1, <2>2, <3>1, EndsIdle DEF Rest
    <2>5. QED
      BY <1>36, <2>3, <2>4 DEF FailJob
  <1>37. CASE Crash
    BY <1>37 DEF Crash, Goto, Fault
  <1>38. CASE \E j \in Jobs, s \in Streams : HelperExits(j, s)
    BY <1>38 DEF HelperExits
  <1>39. CASE SyncEscapes
    <2>1. w.pc = "sync" /\ web' = web /\ w.job \in Jobs
      BY <1>39 DEF SyncEscapes
    <2>2. w'.pc = "drop" /\ w'.job = w.job
      BY <1>39 DEF SyncEscapes
    <2>3. \A i \in Jobs : /\ job'[i].kind = job[i].kind /\ job'[i].req = job[i].req
                          /\ job'[i].status = job[i].status
                          /\ job'[i].outcome = job[i].outcome
      BY <1>39, <2>1 DEF SyncEscapes
    <2>4. QED
      BY <2>1, <2>2, <2>3
  <1>40. CASE SyncBlocks \/ RestartBlocked
    BY <1>40 DEF SyncBlocks, RestartBlocked, Goto
  <1>41. CASE DropMedia
    <2>1. Locals'
      BY <1>41 DEF DropMedia, Goto, Fault
    <2>2. CleanupAsked'
      BY <1>41 DEF DropMedia, Goto, Fault
    <2>3. Ownership'
      BY <1>41 DEF DropMedia, Goto, Fault
    <2>4. QED
      BY <2>1, <2>2, <2>3
  <1>42. CASE MediaRaises
    BY <1>42 DEF MediaRaises, Goto, Fault
  <1>43. CASE UNCHANGED vars
    BY <1>43 DEF vars
  <1>44. QED
    BY <1>1, <1>2, <1>3, <1>4, <1>5, <1>6, <1>7, <1>8, <1>9, <1>10, <1>11, <1>12,
       <1>13, <1>14, <1>15, <1>16, <1>17, <1>18, <1>19, <1>20, <1>21, <1>22, <1>23,
       <1>24, <1>25, <1>26, <1>27, <1>28, <1>29, <1>30, <1>31, <1>32, <1>33, <1>34,
       <1>35, <1>36, <1>37, <1>38, <1>39, <1>40, <1>41, <1>42, <1>43
    DEF Next, Web, Worker, Recover, Host

-----------------------------------------------------------------------------
(* The initial state: no rows, the worker down.                            *)
LEMMA InitInv == Init => IInv
  <1> SUFFICES ASSUME Init PROVE IInv
    OBVIOUS
  <1>1. TypeOK
    <2>1. EmptyJob \in JobRow
      BY DEF EmptyJob, JobRow, Kinds, Statuses, Outcomes
    <2>2. JobsTyped /\ StepsTyped
      BY <2>1 DEF Init, JobsTyped, StepsTyped, StepStates
    <2>3. AvailTyped /\ CacheTyped /\ FaultsTyped
      BY TaskQueueConstants DEF Init, AvailTyped, CacheTyped, Versions, FaultsTyped
    <2>4. HelperTyped /\ StagedTyped /\ SwapTyped
      BY DEF Init, HelperTyped, StagedTyped, SwapTyped, Swaps
    <2>5. WorkerTyped /\ WebTyped
      BY IdleTypes DEF Init, WorkerTyped, WebTyped
    <2>6. QED
      BY <2>2, <2>3, <2>4, <2>5 DEF TypeOK
  <1>2. /\ w.pc = "down" /\ \A c \in Clients : web[c].pc = "idle"
        /\ \A j \in Jobs : job[j].status = "absent" /\ job[j].outcome = "none"
    BY DEF Init, IdleWorker, IdleThread, EmptyJob
  <1>3. Locals /\ CleanupAsked
    BY <1>2 DEF Locals, JobInRange, ThreadInRange, CheckIsCheck, PosInRange, MarkedDone,
                MarkedAsked, SeenAsked, CleanupAsked, HandlerPcs, CheckPcs, StepPcs
  <1>4. Ownership
    BY <1>2 DEF Ownership, SingleRunning, ExecutingOwns, IdleHolds, ClaimIsAlone,
                RecoveryOwns, Running, HandlerPcs, CheckPcs, IdlePcs
  <1>5. QED
    BY <1>1, <1>3, <1>4 DEF IInv

(* The worker, the web threads and the host keep the inductive invariant:  *)
(* for every number of jobs, streams, threads and faults.                  *)
THEOREM Invariance == Spec => []IInv
  <1>1. IInv /\ [Next]_vars => IInv'
    BY TypeStep, InvStep DEF IInv, Rest
  <1>2. QED
    BY <1>1, InitInv, PTL DEF Spec

(* Every reachable state of the job table, the host and both processes is  *)
(* well typed.                                                             *)
THEOREM TypeCorrect == Spec => []TypeOK
  <1>1. IInv => TypeOK
    BY DEF IInv
  <1>2. QED
    BY <1>1, Invariance, PTL

(* At most one job runs, whatever crashes, requests and recoveries happen: *)
(* worker.py's claim, admission query and recovery give mutual exclusion   *)
(* without a lock.                                                         *)
THEOREM MutualExclusion == Spec => []SingleRunning
  <1>1. IInv => SingleRunning
    BY DEF IInv, Ownership
  <1>2. QED
    BY <1>1, Invariance, PTL

=============================================================================
