------------------------ MODULE TaskQueueHostProofs ------------------------
(***************************************************************************)
(* TLAPS proofs about what the host holds for a job: its helper units, its *)
(* staged upload, its media swap and its version in the cache.  They build *)
(* on the ownership of running rows proved in TaskQueueProofs.             *)
(***************************************************************************)
EXTENDS TaskQueueProofs

(* A row and what the host holds for it.                                   *)
StepsOfCheck(j) == job[j].kind # "check" => \A s \in Streams : step[j][s] = "none"
HelperOfRow(j)  == \A s \in Streams :
                      helper[j][s] => \/ job[j].status = "running" /\ step[j][s] = "running"
                                      \/ job[j].status = "failed" /\ job[j].escaped
UploadOwned(j)  == staged[j] => job[j].kind = "upload"
NotPublished(j) == job[j].status \in {"absent", "pending"} \/ job[j].kind \notin Media
                      => swap[j] = "none" /\ cache[j] = "old"
NewJournaled(j) == cache[j] = "new" => swap[j] # "none" \/ job[j].status = "succeeded"
SucceededKept(j) == job[j].kind \in Media /\ job[j].status = "succeeded" => cache[j] # "old"
CancelledClean(j) == job[j].status = "cancelled" =>
                      /\ ~staged[j] /\ (swap[j] # "none" => job[j].escaped)
                      /\ \A s \in Streams : step[j][s] \notin Active
ConfirmedCancelled(j) == job[j].outcome = "confirmed" => job[j].status = "cancelled"

RowOK(j) == /\ StepsOfCheck(j) /\ HelperOfRow(j) /\ UploadOwned(j) /\ NotPublished(j)
            /\ NewJournaled(j) /\ SucceededKept(j) /\ CancelledClean(j)
            /\ ConfirmedCancelled(j)

(* The worker and the row it executes or recovers.                         *)
MediaPcs == {"sync", "blocked", "drop", "poll", "complete", "commitfs", "undo", "stop"}
HandlerRuns == /\ w.pc \in HandlerPcs \ {"commitfs"} => job[w.job].status = "running"
               /\ w.pc = "commitfs" => job[w.job].status = "succeeded"
HandlerKind == /\ w.pc \in MediaPcs => job[w.job].kind \in Media
               /\ w.pc = "plain" => job[w.job].kind = "plain"
TodoRuns    == w.pc = "recovering" => \A j \in w.todo : job[j].status = "running"
ChildRuns   == w.pc \in {"exec", "wait", "stepdone", "hold"} => step[w.job][w.pos] = "running"
HelperAwaited == w.pc \in HandlerPcs =>
                   \A s \in Streams : helper[w.job][s] =>
                      \/ w.pc \in {"wait", "hold"} /\ s = w.pos
                      \/ w.pc = "fail" /\ job[w.job].escaped
Publishing == /\ w.pc = "sync" => swap[w.job] = "none" /\ cache[w.job] = "old"
              /\ w.pc \in {"poll", "complete"} => cache[w.job] # "old"
              /\ w.pc = "stop" => ~staged[w.job]
              /\ w.pc \in {"drop", "stop"} /\ swap[w.job] # "none" => job[w.job].escaped
Swept      == w.pc \in {"load", "recovering"} /\ w.ready => \A j \in Jobs : swap[j] = "none"

WorkerOK == /\ HandlerRuns /\ HandlerKind /\ TodoRuns /\ ChildRuns /\ HelperAwaited
            /\ Publishing /\ Swept

(* The inductive invariant of the host.                                    *)
Rows == \A j \in Jobs : RowOK(j)
HInv == IInv /\ Rows /\ WorkerOK

(* A step that changes nothing of a row that the invariant tells apart.    *)
RowSame(j) ==
    /\ job'[j].kind = job[j].kind /\ job'[j].status = job[j].status
    /\ job'[j].outcome = "confirmed" => job[j].outcome = "confirmed" \/ job[j].status = "cancelled"
    /\ job[j].escaped => job'[j].escaped
    /\ step'[j] = step[j] /\ helper'[j] = helper[j] /\ staged'[j] = staged[j]
    /\ swap'[j] = swap[j] /\ cache'[j] = cache[j]

(* A step that cancels a row whose work has stopped.                       *)
RowStops(j) ==
    /\ job'[j].kind = job[j].kind /\ job'[j].status = "cancelled"
    /\ step'[j] = StoppedSteps(step[j]) /\ \A s \in Streams : ~helper'[j][s]
    /\ ~staged'[j] /\ swap'[j] = swap[j] /\ cache'[j] = cache[j]
    /\ swap[j] # "none" => job'[j].escaped
    /\ cache[j] = "new" => swap[j] # "none"

-----------------------------------------------------------------------------
(* Rows.                                                                   *)

(* The children of a stopped parent: none is active, and what the finished *)
(* ones found is not rewritten.                                            *)
LEMMA StoppedChildren ==
    ASSUME NEW f \in [Streams -> StepStates], NEW s \in Streams
    PROVE  /\ StoppedSteps(f)[s] \notin Active
           /\ f[s] = "none" => StoppedSteps(f)[s] = "none"
           /\ StoppedSteps(f)[s] \in {"succeeded", "failed"} <=> f[s] \in {"succeeded", "failed"}
  BY DEF StoppedSteps, StepStates, Active

(* A row nothing happens to keeps its part of the invariant ...            *)
LEMMA SameRow ==
    ASSUME NEW j \in Jobs, RowOK(j), RowSame(j)
    PROVE  RowOK(j)'
  BY DEF RowSame, RowOK, StepsOfCheck, HelperOfRow, UploadOwned, NotPublished,
         NewJournaled, SucceededKept, CancelledClean, ConfirmedCancelled

(* ... and so does one that is cancelled after its work stopped.           *)
LEMMA StoppedRow ==
    ASSUME StepsTyped, NEW j \in Jobs, RowOK(j), RowStops(j)
    PROVE  RowOK(j)'
  <1>1. \A s \in Streams : /\ step'[j][s] \notin Active
                           /\ step[j][s] = "none" => step'[j][s] = "none"
    BY StoppedChildren DEF RowStops, StepsTyped
  <1>2. QED
    BY <1>1
    DEF RowStops, RowOK, StepsOfCheck, HelperOfRow, UploadOwned, NotPublished,
        NewJournaled, SucceededKept, CancelledClean, ConfirmedCancelled

(* A step that concerns one row keeps the others.                          *)
LEMMA OneRow ==
    ASSUME Rows, NEW j \in Jobs, \A i \in Jobs \ {j} : RowSame(i), RowOK(j)'
    PROVE  Rows'
  BY SameRow DEF Rows

(* A step that leaves all rows and the host alone keeps them.              *)
LEMMA NoRow ==
    ASSUME Rows, \A i \in Jobs : RowSame(i)
    PROVE  Rows'
  BY SameRow DEF Rows

(* Neither the tables nor the host change.                                 *)
LEMMA NothingMoves ==
    ASSUME UNCHANGED <<job, step, helper, fsys>>
    PROVE  \A i \in Jobs : RowSame(i)
  BY DEF RowSame, fsys

(* finish_stop, of a parent whose helpers and files are gone.              *)
LEMMA FinishStopRow ==
    ASSUME JobsTyped, StepsTyped, NEW j \in Jobs, FinishStop(j)
    PROVE  /\ job'[j].kind = job[j].kind /\ job'[j].status = "cancelled"
           /\ job'[j].escaped = job[j].escaped
           /\ step'[j] = StoppedSteps(step[j])
           /\ \A i \in Jobs \ {j} : job'[i] = job[i] /\ step'[i] = step[i]
  BY DEF FinishStop, Stopped, JobsTyped, JobRow, StepsTyped

(* reconcile_requests writes dispositions that agree with the results.     *)
LEMMA SettledRow ==
    ASSUME NEW t \in [Jobs -> JobRow], NEW S, NEW i \in Jobs
    PROVE  /\ Settle(t, S)[i].kind = t[i].kind /\ Settle(t, S)[i].status = t[i].status
           /\ Settle(t, S)[i].escaped = t[i].escaped
           /\ Settle(t, S)[i].outcome = "confirmed" =>
                 t[i].outcome = "confirmed" \/ t[i].status = "cancelled"
  <1>1. Settle(t, S)[i] = IF i \in S THEN Settled(t[i]) ELSE t[i]
    BY DEF Settle
  <1>2. t[i] \in JobRow
    OBVIOUS
  <1>3. /\ Settled(t[i]).kind = t[i].kind /\ Settled(t[i]).status = t[i].status
        /\ Settled(t[i]).escaped = t[i].escaped
        /\ Settled(t[i]).outcome = "confirmed" => t[i].status = "cancelled"
    BY <1>2 DEF Settled, JobRow
  <1>4. QED
    BY <1>1, <1>3

(* finish_pending cancels a clean row or keeps it; other rows only get     *)
(* their disposition.                                                      *)
LEMMA FinishPendingRow ==
    ASSUME IInv, Rows, NEW j \in Jobs, NEW S, FinishPending(j, S)
    PROVE  /\ job[j].status = "pending" /\ UNCHANGED swap
           /\ RowStops(j) \/ RowSame(j)
           /\ \A i \in Jobs \ {j} : RowSame(i)
  <1> USE DEF IInv, TypeOK
  <1>1. /\ job[j].status = "pending" /\ UNCHANGED <<helper, swap, cache>>
        /\ \A s \in Streams : ~helper[j][s]
        /\ swap[j] = "none" /\ cache[j] = "old"
    BY DEF FinishPending, Rows, RowOK, HelperOfRow, NotPublished
  <1>2. CASE /\ job' = Settle([job EXCEPT ![j] = Stopped(@)], S)
             /\ step' = [step EXCEPT ![j] = StoppedSteps(@)]
             /\ staged' = [staged EXCEPT ![j] = FALSE]
    <2> DEFINE t == [job EXCEPT ![j] = Stopped(@)]
    <2>1. t \in [Jobs -> JobRow] /\ \A i \in Jobs \ {j} : t[i] = job[i]
      BY RowTypes DEF JobsTyped
    <2>2. t[j].kind = job[j].kind /\ t[j].status = "cancelled"
      BY DEF Stopped, JobsTyped, JobRow
    <2>3. job' = Settle(t, S)
      BY <1>2
    <2> HIDE DEF t
    <2>4. \A i \in Jobs : /\ job'[i].kind = t[i].kind /\ job'[i].status = t[i].status
                          /\ job'[i].escaped = t[i].escaped
                          /\ job'[i].outcome = "confirmed" =>
                                t[i].outcome = "confirmed" \/ t[i].status = "cancelled"
      BY <2>1, <2>3, SettledRow
    <2>5. RowStops(j)
      BY <1>1, <1>2, <2>2, <2>4 DEF RowStops, StepsTyped, StagedTyped
    <2>6. \A i \in Jobs \ {j} : RowSame(i)
      BY ZenonT(60), <1>1, <1>2, <2>1, <2>4 DEF RowSame, StepsTyped, StagedTyped
    <2>7. QED
      BY <1>1, <2>5, <2>6
  <1>3. CASE /\ job' = Settle([job EXCEPT ![j].outcome = "cleanup-required"], S)
             /\ UNCHANGED <<step, staged>>
    <2> DEFINE t == [job EXCEPT ![j].outcome = "cleanup-required"]
    <2>1. t \in [Jobs -> JobRow] /\ \A i \in Jobs \ {j} : t[i] = job[i]
      BY DEF JobsTyped, JobRow, Outcomes
    <2>2. /\ t[j].kind = job[j].kind /\ t[j].status = job[j].status
          /\ t[j].escaped = job[j].escaped /\ t[j].outcome # "confirmed"
      BY DEF JobsTyped, JobRow
    <2>3. job' = Settle(t, S)
      BY <1>3
    <2> HIDE DEF t
    <2>4. \A i \in Jobs : /\ job'[i].kind = t[i].kind /\ job'[i].status = t[i].status
                          /\ job'[i].escaped = t[i].escaped
                          /\ job'[i].outcome = "confirmed" =>
                                t[i].outcome = "confirmed" \/ t[i].status = "cancelled"
      BY <2>1, <2>3, SettledRow
    <2>5. \A i \in Jobs : RowSame(i)
      BY ZenonT(60), <1>1, <1>3, <2>1, <2>2, <2>4 DEF RowSame
    <2>6. QED
      BY <1>1, <2>5
  <1>4. QED
    BY <1>2, <1>3 DEF FinishPending

(* A job table in which one row is updated.                                *)
LEMMA StatusRow ==
    ASSUME JobsTyped, NEW j \in Jobs, NEW v, job' = [job EXCEPT ![j].status = v]
    PROVE  /\ job'[j].kind = job[j].kind /\ job'[j].status = v
           /\ job'[j].outcome = job[j].outcome /\ job'[j].escaped = job[j].escaped
           /\ \A i \in Jobs \ {j} : job'[i] = job[i]
  BY DEF JobsTyped, JobRow

-----------------------------------------------------------------------------
(* The worker.                                                             *)

(* A step of another process that leaves running and succeeded rows alone. *)
LEMMA WorkerKept ==
    ASSUME HInv, w' = w, UNCHANGED swap,
           \A j \in Jobs : job[j].status \in {"running", "succeeded"} => RowSame(j)
    PROVE  WorkerOK'
  <1>1. w.pc \in HandlerPcs => w.job \in Jobs /\ RowSame(w.job)
    BY DEF HInv, IInv, Locals, JobInRange, WorkerOK, HandlerRuns
  <1>2. w.todo \in SUBSET Jobs
    BY DEF HInv, IInv, TypeOK, WorkerTyped, WorkerState
  <1>3. QED
    BY <1>1, <1>2
    DEF HInv, WorkerOK, HandlerRuns, HandlerKind, TodoRuns, ChildRuns, HelperAwaited,
        Publishing, Swept, RowSame, HandlerPcs, CheckPcs, MediaPcs

(* Between handlers and outside recovery the worker promises nothing.      *)
LEMMA WorkerIdle ==
    ASSUME w'.pc \notin HandlerPcs \cup {"load", "recovering"}
    PROVE  WorkerOK'
  BY DEF WorkerOK, HandlerRuns, HandlerKind, TodoRuns, ChildRuns, HelperAwaited,
         Publishing, Swept, HandlerPcs, CheckPcs, MediaPcs

(* Recovery goes on with the next row.                                     *)
LEMMA WorkerRecovers ==
    ASSUME HInv, w.pc = "recovering", NEW j \in Jobs, Recovered(j), UNCHANGED swap,
           \A i \in Jobs \ {j} : job'[i].status = job[i].status
    PROVE  WorkerOK'
  <1>1. /\ w'.pc = "recovering" /\ w'.todo = w.todo \ {j} /\ w'.ready = w.ready
        /\ w.todo \in SUBSET Jobs
    BY DEF Recovered, HInv, IInv, TypeOK, WorkerTyped, WorkerState
  <1>2. TodoRuns' /\ Swept'
    BY <1>1 DEF HInv, WorkerOK, TodoRuns, Swept
  <1>3. QED
    BY <1>1, <1>2 DEF WorkerOK, HandlerRuns, HandlerKind, ChildRuns, HelperAwaited,
                      Publishing, HandlerPcs, CheckPcs, MediaPcs

(* _cancel_update_check_if_requested stops a parent that no helper works   *)
(* for.                                                                    *)
LEMMA StopCheckRow ==
    ASSUME HInv, w.pc \in {"cancelcheck", "stepstart"}, StopCheck(w.job),
           UNCHANGED <<helper, fsys>>
    PROVE  Rows'
  <1> DEFINE j == w.job
  <1> USE DEF HInv, IInv, TypeOK
  <1>1. j \in Jobs /\ job[j].kind = "check"
    BY DEF Locals, JobInRange, CheckIsCheck, HandlerPcs, CheckPcs
  <1>2. /\ job'[j].kind = job[j].kind /\ job'[j].status = "cancelled"
        /\ step'[j] = StoppedSteps(step[j])
        /\ \A i \in Jobs \ {j} : job'[i] = job[i] /\ step'[i] = step[i]
    BY <1>1, FinishStopRow DEF StopCheck
  <1>3. \A s \in Streams : ~helper[j][s]
    BY DEF WorkerOK, HelperAwaited, HandlerPcs, CheckPcs
  <1>4. ~staged[j] /\ swap[j] = "none" /\ cache[j] = "old"
    BY <1>1 DEF Rows, RowOK, UploadOwned, NotPublished, Media
  <1>5. RowStops(j) /\ \A i \in Jobs \ {j} : RowSame(i)
    BY <1>2, <1>3, <1>4 DEF RowStops, RowSame, fsys
  <1>6. QED
    BY <1>1, <1>5, StoppedRow, OneRow DEF Rows

-----------------------------------------------------------------------------
(* Every step keeps the host invariant.                                    *)
LEMMA HostStep == HInv /\ [Next]_vars => Rows' /\ WorkerOK'
  <1> SUFFICES ASSUME HInv, [Next]_vars PROVE Rows' /\ WorkerOK'
    OBVIOUS
  <1> USE DEF HInv, IInv, TypeOK
  <1>1. CASE \E j \in Jobs, k \in Kinds : Submit(j, k)
    <2>1. PICK j \in Jobs, k \in Kinds : Submit(j, k)
      BY <1>1
    <2>2. /\ job[j].status = "absent" /\ UNCHANGED <<helper, swap, cache, w>>
          /\ job'[j].kind = k /\ job'[j].status = "pending" /\ job'[j].outcome = job[j].outcome
          /\ \A i \in Jobs \ {j} : job'[i] = job[i]
      BY <2>1 DEF Submit, JobsTyped, JobRow
    <2>3. /\ step'[j] = [s \in Streams |-> IF k = "check" THEN "pending" ELSE "none"]
          /\ staged'[j] = (k = "upload")
          /\ \A i \in Jobs \ {j} : step'[i] = step[i] /\ staged'[i] = staged[i]
      BY <2>1 DEF Submit, StepsTyped, StagedTyped
    <2>4. \A i \in Jobs \ {j} : RowSame(i)
      BY <2>2, <2>3 DEF RowSame
    <2>5. RowOK(j)'
      <3>1. UploadOwned(j)'
        BY <2>2, <2>3, Zenon DEF UploadOwned
      <3>2. QED
        BY <2>2, <2>3, <3>1
        DEF Rows, RowOK, StepsOfCheck, HelperOfRow, NotPublished, NewJournaled,
            SucceededKept, CancelledClean, ConfirmedCancelled
    <2>6. QED
      BY <2>2, <2>4, <2>5, OneRow, WorkerKept
  <1>2. CASE \E c \in Clients, j \in Jobs : RequestRead(c, j)
    <2>1. (\A i \in Jobs : RowSame(i)) /\ UNCHANGED <<w, swap>>
      BY <1>2, NothingMoves DEF RequestRead, fsys
    <2>2. QED
      BY <2>1, NoRow, WorkerKept
  <1>3. CASE \E c \in Clients : RequestReserve(c)
    <2>1. PICK c \in Clients : RequestReserve(c)
      BY <1>3
    <2>2. UNCHANGED <<step, helper, staged, swap, cache, w>>
      BY <2>1 DEF RequestReserve, fsys
    <2>3. \A i \in Jobs : RowSame(i)
      <3>1. CASE UNCHANGED job
        BY <2>2, <3>1 DEF RowSame
      <3>2. CASE job' = [job EXCEPT ![web[c].job].req = TRUE, ![web[c].job].outcome = "requested"]
        BY <2>2, <3>2 DEF RowSame, JobsTyped, JobRow
      <3>3. QED
        BY <2>1, <3>1, <3>2 DEF RequestReserve
    <2>4. QED
      BY <2>2, <2>3, NoRow, WorkerKept
  <1>4. CASE \E c \in Clients : RequestFinish(c)
    <2>1. PICK c \in Clients : RequestFinish(c)
      BY <1>4
    <2>2. web[c].job \in Jobs /\ w' = w
      BY <2>1 DEF RequestFinish, Locals, ThreadInRange
    <2>3. CASE FinishPending(web[c].job, {})
      <3> PICK j \in Jobs : j = web[c].job
        BY <2>2
      <3>1. /\ job[j].status = "pending" /\ UNCHANGED swap
            /\ RowStops(j) \/ RowSame(j)
            /\ \A i \in Jobs \ {j} : RowSame(i)
        BY <2>2, <2>3, FinishPendingRow
      <3>2. RowOK(j)'
        BY <2>2, <3>1, SameRow, StoppedRow DEF Rows
      <3>3. QED
        BY <2>2, <3>1, <3>2, OneRow, WorkerKept
    <2>4. CASE UNCHANGED <<job, step, avail, helper, fsys, faults>>
      BY <2>2, <2>4, NothingMoves, NoRow, WorkerKept DEF fsys
    <2>5. QED
      BY <2>1, <2>3, <2>4 DEF RequestFinish
  <1>5. CASE \E c \in Clients : RequestLost(c)
    <2>1. (\A i \in Jobs : RowSame(i)) /\ UNCHANGED <<w, swap>>
      BY <1>5, NothingMoves DEF RequestLost, fsys
    <2>2. QED
      BY <2>1, NoRow, WorkerKept
  <1>6. CASE Start
    <2>1. (\A i \in Jobs : RowSame(i)) /\ w'.pc \notin HandlerPcs \cup {"load", "recovering"}
      BY <1>6, NothingMoves DEF Start, Goto, HandlerPcs, CheckPcs, IdleWorker
    <2>2. QED
      BY <2>1, NoRow, WorkerIdle
  <1>7. CASE RecoverSwaps
    <2>1. UNCHANGED <<job, step, helper, staged>>
      BY <1>7 DEF RecoverSwaps
    <2>2. CASE /\ swap' = [j \in Jobs |-> "none"] /\ cache' = [j \in Jobs |-> Recovery(j)]
               /\ w' = [w EXCEPT !.pc = "load", !.ready = TRUE]
      <3>1. ASSUME NEW j \in Jobs PROVE RowOK(j)'
        <4>1. swap'[j] = "none" /\ cache'[j] = Recovery(j)
          BY <2>2
        <4>2. QED
          BY <2>1, <4>1
          DEF Recovery, RollsBack, SwapTyped, Swaps, Rows, RowOK, StepsOfCheck,
              HelperOfRow, UploadOwned, NotPublished, NewJournaled, SucceededKept,
              CancelledClean, ConfirmedCancelled
      <3>2. WorkerOK'
        BY <2>2
        DEF WorkerTyped, WorkerState, WorkerOK, HandlerRuns, HandlerKind, TodoRuns,
            ChildRuns, HelperAwaited, Publishing, Swept, HandlerPcs, CheckPcs, MediaPcs
      <3>3. QED
        BY <3>1, <3>2 DEF Rows
    <2>3. CASE /\ UNCHANGED <<swap, cache>>
               /\ \/ w' = [w EXCEPT !.pc = "load", !.ready = FALSE]
                  \/ w' = [w EXCEPT !.pc = "down"]
      <3>1. Rows'
        BY <2>1, <2>3, NothingMoves, NoRow DEF fsys
      <3>2. WorkerOK'
        BY ZenonT(60), <2>3
        DEF WorkerTyped, WorkerState, WorkerOK, HandlerRuns, HandlerKind, TodoRuns,
            ChildRuns, HelperAwaited, Publishing, Swept, HandlerPcs, CheckPcs, MediaPcs
      <3>3. QED
        BY <3>1, <3>2
    <2>4. QED
      BY <1>7, <2>2, <2>3 DEF RecoverSwaps
  <1>8. CASE RecoverLoad
    <2>1. (\A i \in Jobs : RowSame(i)) /\ UNCHANGED <<job, swap>> /\ w.pc = "load"
      BY <1>8, NothingMoves DEF RecoverLoad, fsys
    <2>2. /\ w'.pc = "recovering" /\ w'.ready = w.ready
          /\ w'.todo = {j \in Jobs : job[j].status = "running"}
      BY <1>8 DEF RecoverLoad, WorkerTyped, WorkerState
    <2>3. WorkerOK'
      BY <2>1, <2>2
      DEF WorkerOK, HandlerRuns, HandlerKind, TodoRuns, ChildRuns, HelperAwaited,
          Publishing, Swept, HandlerPcs, CheckPcs, MediaPcs
    <2>4. QED
      BY <2>1, <2>3, NoRow
  <1>9. CASE RecoverEnd
    <2>1. (\A i \in Jobs : RowSame(i)) /\ w'.pc \notin HandlerPcs \cup {"load", "recovering"}
      BY <1>9, NothingMoves DEF RecoverEnd, Goto, HandlerPcs, CheckPcs
    <2>2. QED
      BY <2>1, NoRow, WorkerIdle
  <1>10. CASE \E j \in Jobs : RecoverCancelledCheck(j)
    <2>1. PICK j \in Jobs : RecoverCancelledCheck(j)
      BY <1>10
    <2>2. /\ w.pc = "recovering" /\ j \in w.todo /\ job[j].kind = "check" /\ Recovered(j)
          /\ UNCHANGED <<staged, swap, cache>> /\ job[j].status = "running"
      BY <2>1 DEF RecoverCancelledCheck, fsys, WorkerOK, TodoRuns
    <2>3. CASE /\ helper' = [helper EXCEPT ![j] = [s \in Streams |-> FALSE]]
               /\ FinishStop(j)
      <3>1. RowStops(j) /\ \A i \in Jobs \ {j} : RowSame(i)
        <4>1. /\ job'[j].kind = job[j].kind /\ job'[j].status = "cancelled"
              /\ step'[j] = StoppedSteps(step[j])
              /\ \A i \in Jobs \ {j} : job'[i] = job[i] /\ step'[i] = step[i]
          BY <2>3, FinishStopRow
        <4>2. /\ \A s \in Streams : ~helper'[j][s]
              /\ \A i \in Jobs \ {j} : helper'[i] = helper[i]
          BY <2>3 DEF HelperTyped
        <4>3. ~staged[j] /\ swap[j] = "none" /\ cache[j] = "old"
          BY <2>2 DEF Rows, RowOK, UploadOwned, NotPublished, Media
        <4>4. QED
          BY <2>2, <4>1, <4>2, <4>3 DEF RowStops, RowSame
      <3>2. Rows'
        BY <3>1, StoppedRow, OneRow DEF Rows
      <3>3. QED
        BY <2>2, <3>1, <3>2, WorkerRecovers DEF RowSame
    <2>4. CASE Retain(j) /\ UNCHANGED <<step, helper>>
      <3>1. \A i \in Jobs : RowSame(i)
        BY <2>2, <2>4 DEF Retain, RowSame, JobsTyped, JobRow
      <3>2. QED
        BY <2>2, <3>1, NoRow, WorkerRecovers DEF RowSame
    <2>5. QED
      BY <2>1, <2>3, <2>4 DEF RecoverCancelledCheck
  <1>11. CASE \E j \in Jobs : RecoverCheck(j)
    <2>1. PICK j \in Jobs : RecoverCheck(j)
      BY <1>11
    <2>2. /\ w.pc = "recovering" /\ j \in w.todo /\ job[j].kind = "check" /\ Recovered(j)
          /\ UNCHANGED <<staged, swap, cache>> /\ job[j].status = "running"
      BY <2>1 DEF RecoverCheck, fsys, WorkerOK, TodoRuns
    <2>3. CASE /\ Resumable(j) /\ job' = [job EXCEPT ![j].status = "pending"]
               /\ UNCHANGED <<step, helper>>
      <3>1. /\ job'[j].kind = "check" /\ job'[j].status = "pending"
            /\ job'[j].outcome = job[j].outcome
            /\ \A i \in Jobs \ {j} : job'[i] = job[i]
        BY <2>2, <2>3, StatusRow
      <3>2. \A i \in Jobs \ {j} : RowSame(i)
        BY <2>2, <2>3, <3>1 DEF RowSame
      <3>3. \A s \in Streams : ~helper[j][s]
        BY <2>2, <2>3 DEF Resumable, Rows, RowOK, HelperOfRow
      <3>4. RowOK(j)'
        BY <2>2, <2>3, <3>1, <3>3
        DEF Media, Rows, RowOK, StepsOfCheck, HelperOfRow, UploadOwned, NotPublished,
            NewJournaled, SucceededKept, CancelledClean, ConfirmedCancelled
      <3>5. QED
        BY <2>2, <3>1, <3>2, <3>4, OneRow, WorkerRecovers
    <2>4. CASE /\ helper' = [helper EXCEPT ![j] = [s \in Streams |->
                               helper[j][s] /\ step[j][s] # "running"]]
               /\ step' = [step EXCEPT ![j] = FailedSteps(@)]
               /\ job' = [job EXCEPT ![j].status = "failed", ![j].unresolved = FALSE]
      <3>1. /\ job'[j].kind = "check" /\ job'[j].status = "failed"
            /\ job'[j].outcome = job[j].outcome
            /\ \A i \in Jobs \ {j} : job'[i] = job[i]
        BY <2>2, <2>4 DEF JobsTyped, JobRow
      <3>2. /\ \A s \in Streams : ~helper'[j][s]
            /\ \A i \in Jobs \ {j} : helper'[i] = helper[i] /\ step'[i] = step[i]
        BY <2>2, <2>4 DEF HelperTyped, StepsTyped, Rows, RowOK, HelperOfRow
      <3>3. \A i \in Jobs \ {j} : RowSame(i)
        BY <2>2, <3>1, <3>2 DEF RowSame
      <3>4. RowOK(j)'
        BY <2>2, <3>1, <3>2
        DEF Media, Rows, RowOK, StepsOfCheck, HelperOfRow, UploadOwned, NotPublished,
            NewJournaled, SucceededKept, CancelledClean, ConfirmedCancelled
      <3>5. QED
        BY <2>2, <3>1, <3>3, <3>4, OneRow, WorkerRecovers
    <2>5. CASE UNCHANGED <<job, step, helper>>
      BY <2>2, <2>5, NothingMoves, NoRow, WorkerRecovers DEF fsys
    <2>6. QED
      BY <2>1, <2>3, <2>4, <2>5 DEF RecoverCheck
  <1>12. CASE \E j \in Jobs : RecoverMedia(j)
    <2>1. PICK j \in Jobs : RecoverMedia(j)
      BY <1>12
    <2>2. /\ w.pc = "recovering" /\ j \in w.todo /\ job[j].kind \in Media
          /\ UNCHANGED <<helper, swap, cache>> /\ job[j].status = "running"
          /\ \A s \in Streams : ~helper[j][s] /\ step[j][s] = "none"
      BY <2>1
      DEF RecoverMedia, Media, WorkerOK, TodoRuns, Rows, RowOK, StepsOfCheck,
          HelperOfRow
    <2>3. CASE Retain(j) /\ Recovered(j) /\ UNCHANGED <<step, staged>>
      <3>1. \A i \in Jobs : RowSame(i)
        BY <2>2, <2>3 DEF Retain, RowSame, JobsTyped, JobRow
      <3>2. QED
        BY <2>2, <2>3, <3>1, NoRow, WorkerRecovers DEF RowSame
    <2>4. CASE /\ w.ready /\ staged' = [staged EXCEPT ![j] = FALSE]
               /\ FinishStop(j) /\ Recovered(j)
      <3>1. RowStops(j) /\ \A i \in Jobs \ {j} : RowSame(i)
        <4>1. /\ job'[j].kind = job[j].kind /\ job'[j].status = "cancelled"
              /\ step'[j] = StoppedSteps(step[j])
              /\ \A i \in Jobs \ {j} : job'[i] = job[i] /\ step'[i] = step[i]
          BY <2>4, FinishStopRow
        <4>2. ~staged'[j] /\ \A i \in Jobs \ {j} : staged'[i] = staged[i]
          BY <2>4 DEF StagedTyped
        <4>3. swap[j] = "none" /\ cache[j] # "new"
          BY <2>2, <2>4 DEF WorkerOK, Swept, Rows, RowOK, NewJournaled
        <4>4. QED
          BY <2>2, <4>1, <4>2, <4>3 DEF RowStops, RowSame
      <3>2. Rows'
        BY <3>1, StoppedRow, OneRow DEF Rows
      <3>3. QED
        BY <2>2, <2>4, <3>1, <3>2, WorkerRecovers DEF RowSame
    <2>5. CASE /\ staged' = [staged EXCEPT ![j] = FALSE] /\ UNCHANGED step
               /\ job' = [job EXCEPT ![j].status = "failed"] /\ Recovered(j)
      <3>1. /\ job'[j].kind = job[j].kind /\ job'[j].status = "failed"
            /\ job'[j].outcome = job[j].outcome
            /\ \A i \in Jobs \ {j} : job'[i] = job[i]
        BY <2>5, StatusRow
      <3>2. ~staged'[j] /\ \A i \in Jobs \ {j} : staged'[i] = staged[i]
        BY <2>5 DEF StagedTyped
      <3>3. \A i \in Jobs \ {j} : RowSame(i)
        BY <2>2, <2>5, <3>1, <3>2 DEF RowSame
      <3>4. RowOK(j)'
        BY <2>2, <2>5, <3>1, <3>2
        DEF Rows, RowOK, StepsOfCheck, HelperOfRow, UploadOwned, NotPublished,
            NewJournaled, SucceededKept, CancelledClean, ConfirmedCancelled
      <3>5. QED
        BY <2>2, <2>5, <3>1, <3>3, <3>4, OneRow, WorkerRecovers
    <2>6. CASE Goto("down") /\ UNCHANGED <<job, step, staged>>
      <3>1. w'.pc = "down"
        BY <2>6 DEF Goto, WorkerTyped, WorkerState
      <3>2. QED
        BY <2>2, <2>6, <3>1, NothingMoves, NoRow, WorkerIdle
        DEF fsys, HandlerPcs, CheckPcs
    <2>7. QED
      BY <2>1, <2>3, <2>4, <2>5, <2>6 DEF RecoverMedia
  <1>13. CASE \E j \in Jobs : RecoverPlain(j)
    <2>1. PICK j \in Jobs : RecoverPlain(j)
      BY <1>13
    <2>2. /\ w.pc = "recovering" /\ j \in w.todo /\ job[j].kind = "plain" /\ Recovered(j)
          /\ UNCHANGED <<step, helper, staged, swap, cache>> /\ job[j].status = "running"
          /\ \A s \in Streams : ~helper[j][s]
      BY <2>1
      DEF RecoverPlain, fsys, WorkerOK, TodoRuns, Rows, RowOK, StepsOfCheck, HelperOfRow
    <2>3. /\ job'[j].kind = "plain" /\ job'[j].status = "failed"
          /\ job'[j].outcome = job[j].outcome
          /\ \A i \in Jobs \ {j} : job'[i] = job[i]
      BY <2>1, <2>2, StatusRow DEF RecoverPlain
    <2>4. \A i \in Jobs \ {j} : RowSame(i)
      BY <2>2, <2>3 DEF RowSame
    <2>5. RowOK(j)'
      BY <2>2, <2>3
      DEF Media, Rows, RowOK, StepsOfCheck, HelperOfRow, UploadOwned, NotPublished,
          NewJournaled, SucceededKept, CancelledClean, ConfirmedCancelled
    <2>6. QED
      BY <2>2, <2>3, <2>4, <2>5, OneRow, WorkerRecovers
  <1>14. CASE ReconcileBegin
    <2>1. (\A i \in Jobs : RowSame(i)) /\ w'.pc \notin HandlerPcs \cup {"load", "recovering"}
      BY <1>14, NothingMoves DEF ReconcileBegin, Goto, HandlerPcs, CheckPcs, IdleWorker
    <2>2. QED
      BY <2>1, NoRow, WorkerIdle
  <1>15. CASE \E j \in Jobs : ReconcileOne(j)
    <2>1. PICK j \in Jobs : ReconcileOne(j)
      BY <1>15
    <2>2. WorkerOK'
      <3>1. w.pc = "reconcile" /\ w'.pc = w.pc
        BY <2>1 DEF ReconcileOne, WorkerTyped, WorkerState
      <3>2. QED
        BY <3>1, WorkerIdle DEF HandlerPcs, CheckPcs
    <2>3. CASE FinishPending(j, w.marked)
      <3>1. (RowStops(j) \/ RowSame(j)) /\ \A i \in Jobs \ {j} : RowSame(i)
        BY <2>3, FinishPendingRow
      <3>2. QED
        BY <2>2, <3>1, SameRow, StoppedRow, OneRow DEF Rows
    <2>4. CASE UNCHANGED <<job, step, avail, helper, fsys, faults>>
      BY <2>2, <2>4, NothingMoves, NoRow
    <2>5. QED
      BY <2>1, <2>3, <2>4 DEF ReconcileOne
  <1>16. CASE ReconcileEnd
    <2>1. /\ UNCHANGED <<step, helper, staged, swap, cache>> /\ job' = Settle(job, w.marked)
          /\ w'.pc \in {"admit", "loop"}
      BY <1>16 DEF ReconcileEnd, fsys, Goto, WorkerTyped, WorkerState
    <2>2. \A i \in Jobs : RowSame(i)
      BY <2>1, SettledRow DEF RowSame, JobsTyped
    <2>3. QED
      BY <2>1, <2>2, NoRow, WorkerIdle DEF HandlerPcs, CheckPcs
  <1>17. CASE Admit \/ Pick
    <2>1. (\A i \in Jobs : RowSame(i)) /\ w'.pc \in {"loop", "pick", "claim"}
      BY <1>17, NothingMoves DEF Admit, Pick, Goto, WorkerTyped, WorkerState
    <2>2. QED
      BY <2>1, NoRow, WorkerIdle DEF HandlerPcs, CheckPcs
  <1>18. CASE Claim
    <2> PICK j \in Jobs : j = w.job
      BY <1>18 DEF Claim, Locals, JobInRange
    <2>1. j \in Jobs /\ UNCHANGED <<step, helper, staged, swap, cache>>
      BY <1>18 DEF Claim, fsys, Locals, JobInRange
    <2>2. CASE /\ StillQueued(j) /\ job' = [job EXCEPT ![j].status = "running"]
               /\ w' = [w EXCEPT !.pc = Handler(job[j].kind), !.pos = 1]
      <3>1. /\ job[j].status = "pending" /\ job'[j].kind = job[j].kind
            /\ job'[j].status = "running" /\ job'[j].outcome = job[j].outcome
            /\ \A i \in Jobs \ {j} : job'[i] = job[i]
        BY <2>1, <2>2, StatusRow DEF StillQueued, Queued
      <3>2. w'.pc = Handler(job[j].kind) /\ w'.job = j
        BY <2>2 DEF WorkerTyped, WorkerState
      <3>3. \A i \in Jobs \ {j} : RowSame(i)
        BY <2>1, <3>1 DEF RowSame
      <3>4. RowOK(j)'
        BY <2>1, <3>1
        DEF Rows, RowOK, StepsOfCheck, HelperOfRow, UploadOwned, NotPublished,
            NewJournaled, SucceededKept, CancelledClean, ConfirmedCancelled
      <3>5. Rows'
        BY <2>1, <3>3, <3>4, OneRow
      <3>6. /\ swap[j] = "none" /\ cache[j] = "old" /\ \A s \in Streams : ~helper[j][s]
        BY <2>1, <3>1 DEF Rows, RowOK, NotPublished, HelperOfRow
      <3>7. job[j].kind \in Kinds
        BY <2>1 DEF JobsTyped, JobRow
      <3>8. WorkerOK'
        BY <2>1, <3>1, <3>2, <3>6, <3>7
        DEF Handler, Kinds, Media, WorkerOK, HandlerRuns, HandlerKind, TodoRuns,
            ChildRuns, HelperAwaited, Publishing, Swept, HandlerPcs, CheckPcs, MediaPcs
      <3>9. QED
        BY <3>5, <3>8
    <2>3. CASE Goto("pick") /\ UNCHANGED job
      <3>1. w'.pc = "pick"
        BY <2>3 DEF Goto, WorkerTyped, WorkerState
      <3>2. QED
        BY <2>1, <2>3, <3>1, NothingMoves, NoRow, WorkerIdle
        DEF fsys, HandlerPcs, CheckPcs
    <2>4. QED
      BY <1>18, <2>2, <2>3 DEF Claim
  <1>19. CASE RunPlain
    <2> PICK j \in Jobs : j = w.job
      BY <1>19 DEF RunPlain, Locals, JobInRange, HandlerPcs, CheckPcs
    <2>1. j \in Jobs /\ job[j].status = "running" /\ job[j] \in JobRow
      BY <1>19 DEF RunPlain, WorkerOK, HandlerRuns, HandlerPcs, CheckPcs, JobsTyped
    <2>2. PICK v \in {"succeeded", "failed"} : job' = [job EXCEPT ![j].status = v]
      BY <1>19 DEF RunPlain
    <2>3. /\ UNCHANGED <<step, helper, staged, swap, cache>> /\ w'.pc = "settle"
          /\ job[j].kind = "plain"
      BY <1>19 DEF RunPlain, fsys, Goto, WorkerTyped, WorkerState, WorkerOK, HandlerKind
    <2>4. /\ job'[j].kind = "plain" /\ job'[j].status = v /\ job'[j].outcome = job[j].outcome
          /\ \A i \in Jobs \ {j} : job'[i] = job[i]
      BY <2>1, <2>2, <2>3, StatusRow
    <2>5. \A s \in Streams : ~helper[j][s]
      BY <2>1, <2>3 DEF Rows, RowOK, StepsOfCheck, HelperOfRow
    <2>6. \A i \in Jobs \ {j} : RowSame(i)
      BY <2>3, <2>4 DEF RowSame
    <2>7. RowOK(j)'
      BY <2>1, <2>3, <2>4, <2>5
      DEF Media, Rows, RowOK, StepsOfCheck, HelperOfRow, UploadOwned, NotPublished,
          NewJournaled, SucceededKept, CancelledClean, ConfirmedCancelled
    <2>8. QED
      BY <2>1, <2>3, <2>6, <2>7, OneRow, WorkerIdle DEF HandlerPcs, CheckPcs
  <1>20. CASE CheckStream
    <2> PICK j \in Jobs : j = w.job
      BY <1>20 DEF CheckStream, Locals, JobInRange, HandlerPcs, CheckPcs
    <2>1. j \in Jobs /\ job[j].status = "running" /\ job[j] \in JobRow
      BY <1>20 DEF CheckStream, WorkerOK, HandlerRuns, HandlerPcs, CheckPcs, JobsTyped
    <2>2. CASE StopCheck(j) /\ Goto("settle")
      <3>1. Rows'
        BY <1>20, <2>2, StopCheckRow DEF CheckStream
      <3>2. w'.pc = "settle"
        BY <2>2 DEF Goto, WorkerTyped, WorkerState
      <3>3. QED
        BY <3>1, <3>2, WorkerIdle DEF HandlerPcs, CheckPcs
    <2>3. CASE /\ w' = IF step[j][w.pos] \in {"succeeded", "failed", "skipped"}
                       THEN [w EXCEPT !.pos = @ + 1] ELSE [w EXCEPT !.pc = "stepstart"]
               /\ UNCHANGED <<job, step, avail>>
      <3>1. /\ w.pc = "cancelcheck" /\ w'.pc \in {"cancelcheck", "stepstart"} /\ w'.job = j
            /\ UNCHANGED <<helper, fsys>>
        BY <1>20, <2>3 DEF CheckStream, WorkerTyped, WorkerState
      <3>2. WorkerOK'
        BY <2>1, <2>3, <3>1
        DEF WorkerOK, HandlerRuns, HandlerKind, TodoRuns, ChildRuns, HelperAwaited,
            Publishing, Swept, HandlerPcs, CheckPcs, MediaPcs
      <3>3. QED
        BY <2>3, <3>1, <3>2, NothingMoves, NoRow
    <2>4. QED
      BY <1>20, <2>2, <2>3 DEF CheckStream
  <1>21. CASE CompleteCheck
    <2> PICK j \in Jobs : j = w.job
      BY <1>21 DEF CompleteCheck, Locals, JobInRange, HandlerPcs, CheckPcs
    <2>1. j \in Jobs /\ job[j].status = "running" /\ job[j] \in JobRow
      BY <1>21 DEF CompleteCheck, WorkerOK, HandlerRuns, HandlerPcs, CheckPcs, JobsTyped
    <2>2. PICK v \in {"succeeded", "failed"} :
            job' = [job EXCEPT ![j].status = v, ![j].unresolved = FALSE]
      BY <1>21 DEF CompleteCheck
    <2>3. /\ UNCHANGED <<step, helper, staged, swap, cache>> /\ w'.pc = "settle"
          /\ job[j].kind = "check" /\ \A s \in Streams : ~helper[j][s]
      BY <1>21
      DEF CompleteCheck, fsys, Goto, WorkerTyped, WorkerState, Locals, CheckIsCheck,
                 WorkerOK, HelperAwaited, HandlerPcs, CheckPcs
    <2>4. /\ job'[j].kind = "check" /\ job'[j].status = v /\ job'[j].outcome = job[j].outcome
          /\ \A i \in Jobs \ {j} : job'[i] = job[i]
      BY <2>1, <2>2, <2>3 DEF JobsTyped, JobRow
    <2>5. \A i \in Jobs \ {j} : RowSame(i)
      BY <2>3, <2>4 DEF RowSame
    <2>6. RowOK(j)'
      BY <2>1, <2>3, <2>4
      DEF Media, Rows, RowOK, StepsOfCheck, HelperOfRow, UploadOwned, NotPublished,
          NewJournaled, SucceededKept, CancelledClean, ConfirmedCancelled
    <2>7. QED
      BY <2>1, <2>3, <2>5, <2>6, OneRow, WorkerIdle DEF HandlerPcs, CheckPcs
  <1>22. CASE StartStep
    <2> PICK j \in Jobs : j = w.job
      BY <1>22 DEF StartStep, Locals, JobInRange, HandlerPcs, CheckPcs
    <2>1. j \in Jobs /\ job[j].status = "running" /\ job[j] \in JobRow
      BY <1>22 DEF StartStep, WorkerOK, HandlerRuns, HandlerPcs, CheckPcs, JobsTyped
    <2>2. w.pc = "stepstart" /\ UNCHANGED <<helper, fsys>>
      BY <1>22 DEF StartStep
    <2>3. CASE /\ step' = [step EXCEPT ![j][w.pos] = "running"] /\ Goto("exec")
               /\ UNCHANGED job
      <3>1. w'.pc = "exec" /\ w'.job = j /\ w'.pos = w.pos
        BY <2>3 DEF Goto, WorkerTyped, WorkerState
      <3>2. w.pos \in Streams /\ job[j].kind = "check"
        BY <2>2 DEF Locals, PosInRange, CheckIsCheck, StepPcs, CheckPcs
      <3>3. /\ step'[j][w.pos] = "running"
            /\ \A i \in Jobs \ {j} : step'[i] = step[i]
        BY <2>1, <2>3, <3>2 DEF StepsTyped
      <3>4. \A s \in Streams : ~helper[j][s]
        BY <2>2 DEF WorkerOK, HelperAwaited, HandlerPcs, CheckPcs
      <3>5. \A i \in Jobs \ {j} : RowSame(i)
        BY <2>2, <2>3, <3>3 DEF RowSame, fsys
      <3>6. RowOK(j)'
        BY <2>1, <2>2, <2>3, <3>2, <3>4
        DEF fsys, Rows, RowOK, StepsOfCheck, HelperOfRow, UploadOwned, NotPublished,
            NewJournaled, SucceededKept, CancelledClean, ConfirmedCancelled
      <3>7. WorkerOK'
        BY <2>1, <2>2, <2>3, <3>1, <3>3, <3>4
        DEF WorkerOK, HandlerRuns, HandlerKind, TodoRuns, ChildRuns, HelperAwaited,
            Publishing, Swept, HandlerPcs, CheckPcs, MediaPcs
      <3>8. QED
        BY <2>1, <3>5, <3>6, <3>7, OneRow
    <2>4. CASE StopCheck(j) /\ Goto("settle")
      <3>1. Rows'
        BY <2>2, <2>4, StopCheckRow
      <3>2. w'.pc = "settle"
        BY <2>4 DEF Goto, WorkerTyped, WorkerState
      <3>3. QED
        BY <3>1, <3>2, WorkerIdle DEF HandlerPcs, CheckPcs
    <2>5. QED
      BY <1>22, <2>3, <2>4 DEF StartStep
  <1>23. CASE ExecHelper
    <2> PICK j \in Jobs : j = w.job
      BY <1>23 DEF ExecHelper, Locals, JobInRange, HandlerPcs, CheckPcs
    <2>1. j \in Jobs /\ job[j].status = "running" /\ job[j] \in JobRow
      BY <1>23 DEF ExecHelper, WorkerOK, HandlerRuns, HandlerPcs, CheckPcs, JobsTyped
    <2>2. /\ w.pos \in Streams /\ job[j].kind = "check" /\ step[j][w.pos] = "running"
          /\ UNCHANGED <<job, step, fsys>> /\ w.pc = "exec"
      BY <1>23
      DEF ExecHelper, Locals, PosInRange, CheckIsCheck, StepPcs, CheckPcs, WorkerOK,
          ChildRuns
    <2>3. CASE helper' = [helper EXCEPT ![j][w.pos] = TRUE] /\ Goto("wait")
      <3>1. w'.pc = "wait" /\ w'.job = j /\ w'.pos = w.pos
        BY <2>3 DEF Goto, WorkerTyped, WorkerState
      <3>2. /\ \A s \in Streams : helper'[j][s] => s = w.pos
            /\ \A i \in Jobs \ {j} : helper'[i] = helper[i]
        BY <2>1, <2>2, <2>3
        DEF HelperTyped, WorkerOK, HelperAwaited, HandlerPcs, CheckPcs
      <3>3. \A i \in Jobs \ {j} : RowSame(i)
        BY <2>2, <3>2 DEF RowSame, fsys
      <3>4. RowOK(j)'
        BY <2>1, <2>2, <3>2
        DEF fsys, Rows, RowOK, StepsOfCheck, HelperOfRow, UploadOwned, NotPublished,
            NewJournaled, SucceededKept, CancelledClean, ConfirmedCancelled
      <3>5. WorkerOK'
        BY <2>1, <2>2, <3>1, <3>2
        DEF WorkerOK, HandlerRuns, HandlerKind, TodoRuns, ChildRuns, HelperAwaited,
            Publishing, Swept, HandlerPcs, CheckPcs, MediaPcs
      <3>6. QED
        BY <2>1, <3>3, <3>4, <3>5, OneRow
    <2>4. CASE w' = [w EXCEPT !.pc = "stepdone", !.ok = FALSE] /\ UNCHANGED helper
      <3>1. w'.pc = "stepdone" /\ w'.job = j /\ w'.pos = w.pos
        BY <2>4 DEF WorkerTyped, WorkerState
      <3>2. WorkerOK'
        BY <2>1, <2>2, <2>4, <3>1
        DEF WorkerOK, HandlerRuns, HandlerKind, TodoRuns, ChildRuns, HelperAwaited,
            Publishing, Swept, HandlerPcs, CheckPcs, MediaPcs
      <3>3. QED
        BY <2>2, <2>4, <3>2, NothingMoves, NoRow
    <2>5. QED
      BY <1>23, <2>3, <2>4 DEF ExecHelper
  <1>24. CASE HelperReturns
    <2> PICK j \in Jobs : j = w.job
      BY <1>24 DEF HelperReturns, Locals, JobInRange, HandlerPcs, CheckPcs
    <2>1. j \in Jobs /\ job[j].status = "running" /\ job[j] \in JobRow
      BY <1>24 DEF HelperReturns, WorkerOK, HandlerRuns, HandlerPcs, CheckPcs, JobsTyped
    <2>2. /\ w.pos \in Streams /\ job[j].kind = "check" /\ step[j][w.pos] = "running"
          /\ UNCHANGED <<job, step, fsys>> /\ w.pc = "wait"
      BY <1>24
      DEF HelperReturns, Locals, PosInRange, CheckIsCheck, StepPcs, CheckPcs, WorkerOK,
          ChildRuns
    <2>3. /\ \A s \in Streams : ~helper'[j][s]
          /\ \A i \in Jobs \ {j} : helper'[i] = helper[i]
      BY <1>24, <2>1, <2>2
      DEF HelperReturns, HelperTyped, WorkerOK, HelperAwaited, HandlerPcs,
                              CheckPcs
    <2>4. w'.pc = "stepdone" /\ w'.job = j /\ w'.pos = w.pos
      BY <1>24 DEF HelperReturns, WorkerTyped, WorkerState
    <2>5. \A i \in Jobs \ {j} : RowSame(i)
      BY <2>2, <2>3 DEF RowSame, fsys
    <2>6. RowOK(j)'
      BY <2>1, <2>2, <2>3
      DEF fsys, Rows, RowOK, StepsOfCheck, HelperOfRow, UploadOwned, NotPublished,
          NewJournaled, SucceededKept, CancelledClean, ConfirmedCancelled
    <2>7. WorkerOK'
      BY <2>1, <2>2, <2>3, <2>4
      DEF WorkerOK, HandlerRuns, HandlerKind, TodoRuns, ChildRuns, HelperAwaited,
          Publishing, Swept, HandlerPcs, CheckPcs, MediaPcs
    <2>8. QED
      BY <2>1, <2>5, <2>6, <2>7, OneRow
  <1>25. CASE HelperUnresolved
    <2> PICK j \in Jobs : j = w.job
      BY <1>25 DEF HelperUnresolved, Locals, JobInRange, HandlerPcs, CheckPcs
    <2>1. j \in Jobs /\ job[j].status = "running" /\ job[j] \in JobRow
      BY <1>25
      DEF HelperUnresolved, WorkerOK, HandlerRuns, HandlerPcs, CheckPcs, JobsTyped
    <2>2. /\ w.pos \in Streams /\ job[j].kind = "check" /\ step[j][w.pos] = "running"
          /\ UNCHANGED <<job, step, fsys>> /\ w.pc = "wait"
      BY <1>25
      DEF HelperUnresolved, Locals, PosInRange, CheckIsCheck, StepPcs, CheckPcs,
          WorkerOK, ChildRuns
    <2>3. w'.pc = "hold" /\ w'.job = j /\ w'.pos = w.pos /\ UNCHANGED helper
      BY <1>25 DEF HelperUnresolved, WorkerTyped, WorkerState
    <2>4. WorkerOK'
      BY <2>1, <2>2, <2>3
      DEF WorkerOK, HandlerRuns, HandlerKind, TodoRuns, ChildRuns, HelperAwaited,
          Publishing, Swept, HandlerPcs, CheckPcs, MediaPcs
    <2>5. QED
      BY <2>2, <2>3, <2>4, NothingMoves, NoRow
  <1>26. CASE HoldCheck
    <2> PICK j \in Jobs : j = w.job
      BY <1>26 DEF HoldCheck, Locals, JobInRange, HandlerPcs, CheckPcs
    <2>1. j \in Jobs /\ job[j].status = "running" /\ job[j] \in JobRow
      BY <1>26 DEF HoldCheck, WorkerOK, HandlerRuns, HandlerPcs, CheckPcs, JobsTyped
    <2>2. UNCHANGED <<step, helper, fsys>> /\ w'.pc = "settle"
      BY <1>26 DEF HoldCheck, Goto, WorkerTyped, WorkerState
    <2>3. /\ job'[j].kind = job[j].kind /\ job'[j].status = job[j].status
          /\ job'[j].outcome = job[j].outcome \/ job'[j].outcome = "cleanup-required"
          /\ job'[j].escaped = job[j].escaped
          /\ \A i \in Jobs \ {j} : job'[i] = job[i]
      BY <1>26, <2>1 DEF HoldCheck, JobsTyped, JobRow
    <2>4. \A i \in Jobs : RowSame(i)
      BY <2>1, <2>2, <2>3 DEF RowSame, fsys
    <2>5. QED
      BY <2>2, <2>4, NoRow, WorkerIdle DEF HandlerPcs, CheckPcs
  <1>27. CASE CompleteStep
    <2> PICK j \in Jobs : j = w.job
      BY <1>27 DEF CompleteStep, Locals, JobInRange, HandlerPcs, CheckPcs
    <2>1. j \in Jobs /\ job[j].status = "running" /\ job[j] \in JobRow
      BY <1>27 DEF CompleteStep, WorkerOK, HandlerRuns, HandlerPcs, CheckPcs, JobsTyped
    <2>2. /\ w.pos \in Streams /\ job[j].kind = "check" /\ UNCHANGED <<job, helper, fsys>>
          /\ \A s \in Streams : ~helper[j][s]
      BY <1>27
      DEF CompleteStep, Locals, PosInRange, CheckIsCheck, StepPcs, CheckPcs, WorkerOK,
                 HelperAwaited, HandlerPcs
    <2>3. w'.pc = "cancelcheck" /\ w'.job = j
      BY <1>27 DEF CompleteStep, WorkerTyped, WorkerState
    <2>4. \A i \in Jobs \ {j} : step'[i] = step[i]
      BY <1>27 DEF CompleteStep, StepsTyped
    <2>5. \A i \in Jobs \ {j} : RowSame(i)
      BY <2>2, <2>4 DEF RowSame, fsys
    <2>6. RowOK(j)'
      BY <2>1, <2>2
      DEF fsys, Rows, RowOK, StepsOfCheck, HelperOfRow, UploadOwned, NotPublished,
          NewJournaled, SucceededKept, CancelledClean, ConfirmedCancelled
    <2>7. WorkerOK'
      BY <2>1, <2>2, <2>3
      DEF WorkerOK, HandlerRuns, HandlerKind, TodoRuns, ChildRuns, HelperAwaited,
          Publishing, Swept, HandlerPcs, CheckPcs, MediaPcs
    <2>8. QED
      BY <2>1, <2>5, <2>6, <2>7, OneRow
  <1>28. CASE CheckRaises
    <2> PICK j \in Jobs : j = w.job
      BY <1>28 DEF CheckRaises, Locals, JobInRange, HandlerPcs, CheckPcs
    <2>1. j \in Jobs /\ job[j].status = "running" /\ job[j] \in JobRow
      BY <1>28 DEF CheckRaises, WorkerOK, HandlerRuns, HandlerPcs, CheckPcs, JobsTyped
    <2>2. w'.pc = "fail" /\ w'.job = j /\ UNCHANGED <<step, helper, fsys>>
      BY <1>28 DEF CheckRaises, Goto, WorkerTyped, WorkerState
    <2>3. /\ job'[j].kind = job[j].kind /\ job'[j].status = job[j].status
          /\ job'[j].outcome = job[j].outcome
          /\ job[j].escaped \/ w.pc = "hold" => job'[j].escaped
          /\ \A i \in Jobs \ {j} : job'[i] = job[i]
      BY <1>28, <2>1 DEF CheckRaises, JobsTyped, JobRow
    <2>4. (\E s \in Streams : helper[j][s]) => w.pc = "hold"
      BY <1>28 DEF CheckRaises, WorkerOK, HelperAwaited, HandlerPcs, CheckPcs
    <2>5. WorkerOK'
      BY <2>1, <2>2, <2>3, <2>4
      DEF WorkerOK, HandlerRuns, HandlerKind, TodoRuns, ChildRuns, HelperAwaited,
          Publishing, Swept, HandlerPcs, CheckPcs, MediaPcs
    <2>6. \A i \in Jobs : RowSame(i)
      BY <2>2, <2>3 DEF RowSame, fsys
    <2>7. QED
      BY <2>5, <2>6, NoRow
  <1>29. CASE SyncMedia
    <2> PICK j \in Jobs : j = w.job
      BY <1>29 DEF SyncMedia, Locals, JobInRange, HandlerPcs, CheckPcs
    <2>1. j \in Jobs /\ job[j].status = "running" /\ job[j] \in JobRow
      BY <1>29 DEF SyncMedia, WorkerOK, HandlerRuns, HandlerPcs, CheckPcs, JobsTyped
    <2>2. /\ job[j].kind \in Media /\ job[j].kind # "check"
          /\ \A s \in Streams : ~helper[j][s] /\ step[j][s] = "none"
      BY <1>29, <2>1
      DEF SyncMedia, Media, MediaPcs, WorkerOK, HandlerKind, Rows, RowOK, StepsOfCheck,
                       HelperOfRow
    <2>3. /\ UNCHANGED <<job, step, helper>> /\ swap[j] = "none" /\ cache[j] = "old"
      BY <1>29 DEF SyncMedia, WorkerOK, Publishing
    <2>4. /\ \/ swap'[j] # "none" /\ cache'[j] = "new"
             \/ swap'[j] = "none" /\ cache'[j] \in {"kept", "old"}
          /\ \A i \in Jobs \ {j} : swap'[i] = swap[i] /\ cache'[i] = cache[i]
      BY <1>29, <2>1, <2>3 DEF SyncMedia, SwapTyped, CacheTyped
    <2>5. /\ staged'[j] => staged[j]
          /\ \A i \in Jobs \ {j} : staged'[i] = staged[i]
      BY <1>29, <2>1 DEF SyncMedia, StagedTyped
    <2>6. /\ w'.job = j /\ w'.pc \in {"poll", "undo"}
          /\ w'.pc = "poll" => cache'[j] # "old"
      BY <1>29 DEF SyncMedia, Goto, WorkerTyped, WorkerState
    <2>7. \A i \in Jobs \ {j} : RowSame(i)
      BY <2>3, <2>4, <2>5 DEF RowSame
    <2>8. RowOK(j)'
      BY <2>1, <2>2, <2>3, <2>4, <2>5
      DEF Rows, RowOK, StepsOfCheck, HelperOfRow, UploadOwned, NotPublished,
          NewJournaled, SucceededKept, CancelledClean, ConfirmedCancelled
    <2>9. WorkerOK'
      BY <2>1, <2>2, <2>3, <2>6
      DEF WorkerOK, HandlerRuns, HandlerKind, TodoRuns, ChildRuns, HelperAwaited,
          Publishing, Swept, HandlerPcs, CheckPcs, MediaPcs
    <2>10. QED
      BY <2>1, <2>7, <2>8, <2>9, OneRow
  <1>30. CASE PollMedia
    <2> PICK j \in Jobs : j = w.job
      BY <1>30 DEF PollMedia, Locals, JobInRange, HandlerPcs, CheckPcs
    <2>1. j \in Jobs /\ job[j].status = "running" /\ job[j] \in JobRow
      BY <1>30 DEF PollMedia, WorkerOK, HandlerRuns, HandlerPcs, CheckPcs, JobsTyped
    <2>2. /\ job[j].kind \in Media /\ job[j].kind # "check"
          /\ \A s \in Streams : ~helper[j][s] /\ step[j][s] = "none"
      BY <1>30, <2>1
      DEF PollMedia, Media, MediaPcs, WorkerOK, HandlerKind, Rows, RowOK, StepsOfCheck,
                       HelperOfRow
    <2>3. /\ UNCHANGED <<job, step, helper, fsys>> /\ w.pc = "poll"
          /\ w'.job = j /\ w'.pc \in {"undo", "complete"}
      BY <1>30 DEF PollMedia, Goto, WorkerTyped, WorkerState
    <2>4. WorkerOK'
      BY <2>1, <2>2, <2>3
      DEF fsys, WorkerOK, HandlerRuns, HandlerKind, TodoRuns, ChildRuns, HelperAwaited,
          Publishing, Swept, HandlerPcs, CheckPcs, MediaPcs
    <2>5. QED
      BY <2>3, <2>4, NothingMoves, NoRow
  <1>31. CASE CompleteMedia
    <2> PICK j \in Jobs : j = w.job
      BY <1>31 DEF CompleteMedia, Locals, JobInRange, HandlerPcs, CheckPcs
    <2>1. j \in Jobs /\ job[j].status = "running" /\ job[j] \in JobRow
      BY <1>31 DEF CompleteMedia, WorkerOK, HandlerRuns, HandlerPcs, CheckPcs, JobsTyped
    <2>2. /\ job[j].kind \in Media /\ job[j].kind # "check"
          /\ \A s \in Streams : ~helper[j][s] /\ step[j][s] = "none"
      BY <1>31, <2>1
      DEF CompleteMedia, Media, MediaPcs, WorkerOK, HandlerKind, Rows, RowOK,
          StepsOfCheck,
                       HelperOfRow
    <2>3. /\ UNCHANGED <<step, helper, staged, swap, cache>> /\ cache[j] # "old"
      BY <1>31 DEF CompleteMedia, fsys, WorkerOK, Publishing
    <2>4. CASE job' = [job EXCEPT ![j].status = "succeeded"] /\ Goto("commitfs")
      <3>1. /\ job'[j].kind = job[j].kind /\ job'[j].status = "succeeded"
            /\ job'[j].outcome = job[j].outcome
            /\ \A i \in Jobs \ {j} : job'[i] = job[i]
        BY <2>1, <2>4, StatusRow
      <3>2. w'.pc = "commitfs" /\ w'.job = j
        BY <2>4 DEF Goto, WorkerTyped, WorkerState
      <3>3. \A i \in Jobs \ {j} : RowSame(i)
        BY <2>3, <3>1 DEF RowSame
      <3>4. RowOK(j)'
        BY <2>1, <2>2, <2>3, <3>1
        DEF Rows, RowOK, StepsOfCheck, HelperOfRow, UploadOwned, NotPublished,
            NewJournaled, SucceededKept, CancelledClean, ConfirmedCancelled
      <3>5. WorkerOK'
        BY <2>1, <2>2, <2>3, <3>1, <3>2
        DEF WorkerOK, HandlerRuns, HandlerKind, TodoRuns, ChildRuns, HelperAwaited,
            Publishing, Swept, HandlerPcs, CheckPcs, MediaPcs
      <3>6. QED
        BY <2>1, <3>3, <3>4, <3>5, OneRow
    <2>5. CASE Goto("undo") /\ UNCHANGED job
      <3>1. w'.pc = "undo" /\ w'.job = j
        BY <2>5 DEF Goto, WorkerTyped, WorkerState
      <3>2. WorkerOK'
        BY <2>1, <2>2, <2>3, <2>5, <3>1
        DEF WorkerOK, HandlerRuns, HandlerKind, TodoRuns, ChildRuns, HelperAwaited,
            Publishing, Swept, HandlerPcs, CheckPcs, MediaPcs
      <3>3. QED
        BY <2>3, <2>5, <3>2, NothingMoves, NoRow DEF fsys
    <2>6. QED
      BY <1>31, <2>4, <2>5 DEF CompleteMedia
  <1>32. CASE CommitMedia
    <2> PICK j \in Jobs : j = w.job
      BY <1>32 DEF CommitMedia, Locals, JobInRange, HandlerPcs
    <2>1. /\ j \in Jobs /\ job[j].status = "succeeded" /\ job[j].kind \in Media
          /\ UNCHANGED <<job, step, helper, staged, cache>>
      BY <1>32 DEF CommitMedia, Locals, JobInRange, WorkerOK, HandlerRuns, HandlerKind,
                 HandlerPcs, MediaPcs
    <2>2. /\ swap'[j] \in {"none", swap[j]} /\ \A i \in Jobs \ {j} : swap'[i] = swap[i]
      BY <1>32, <2>1 DEF CommitMedia, SwapTyped
    <2>3. w'.pc = "settle"
      BY <1>32 DEF CommitMedia, Goto, WorkerTyped, WorkerState
    <2>4. \A i \in Jobs \ {j} : RowSame(i)
      BY <2>1, <2>2 DEF RowSame
    <2>5. RowOK(j)'
      BY <2>1, <2>2
      DEF Rows, RowOK, StepsOfCheck, HelperOfRow, UploadOwned, NotPublished,
          NewJournaled, SucceededKept, CancelledClean, ConfirmedCancelled
    <2>6. QED
      BY <2>1, <2>3, <2>4, <2>5, OneRow, WorkerIdle DEF HandlerPcs, CheckPcs
  <1>33. CASE UndoMedia
    <2> PICK j \in Jobs : j = w.job
      BY <1>33 DEF UndoMedia, Locals, JobInRange, HandlerPcs, CheckPcs
    <2>1. j \in Jobs /\ job[j].status = "running" /\ job[j] \in JobRow
      BY <1>33 DEF UndoMedia, WorkerOK, HandlerRuns, HandlerPcs, CheckPcs, JobsTyped
    <2>2. /\ job[j].kind \in Media /\ job[j].kind # "check"
          /\ \A s \in Streams : ~helper[j][s] /\ step[j][s] = "none"
      BY <1>33, <2>1
      DEF UndoMedia, Media, MediaPcs, WorkerOK, HandlerKind, Rows, RowOK, StepsOfCheck,
                       HelperOfRow
    <2>3. UNCHANGED <<step, helper>>
      BY <1>33 DEF UndoMedia
    <2>4. /\ \/ swap'[j] = "none" /\ cache'[j] \in {"old", cache[j]}
             \/ swap'[j] = swap[j] /\ cache'[j] = cache[j]
          /\ swap'[j] = "none" => cache'[j] # "new"
          /\ \A i \in Jobs \ {j} : swap'[i] = swap[i] /\ cache'[i] = cache[i]
      <3>1. cache[j] = "new" => swap[j] # "none"
        BY <2>1 DEF Rows, RowOK, NewJournaled
      <3>2. CASE swap' = [swap EXCEPT ![j] = "none"] /\ cache' = RolledBack(j)
        BY <2>1, <3>1, <3>2 DEF RolledBack, SwapTyped, CacheTyped
      <3>3. CASE UNCHANGED <<swap, cache>>
        BY <3>1, <3>3
      <3>4. QED
        BY <1>33, <3>2, <3>3 DEF UndoMedia
    <2>5. /\ staged'[j] => staged[j]
          /\ \A i \in Jobs \ {j} : staged'[i] = staged[i]
      BY <1>33, <2>1 DEF UndoMedia, StagedTyped
    <2>6. /\ job'[j].kind = job[j].kind /\ job'[j].status = job[j].status
          /\ job'[j].outcome = job[j].outcome \/ job'[j].outcome = "cleanup-required"
          /\ job'[j].escaped = job[j].escaped
          /\ \A i \in Jobs \ {j} : job'[i] = job[i]
      BY <1>33, <2>1 DEF UndoMedia, JobsTyped, JobRow
    <2>7. /\ w'.job = j /\ w'.pc \in {"stop", "fail"}
          /\ w'.pc = "stop" => ~staged'[j] /\ swap'[j] = "none"
      BY <1>33, <2>1
      DEF UndoMedia, Goto, WorkerTyped, WorkerState, StagedTyped, SwapTyped
    <2>8. \A i \in Jobs \ {j} : RowSame(i)
      BY <2>3, <2>4, <2>5, <2>6 DEF RowSame
    <2>9. RowOK(j)'
      BY <2>1, <2>2, <2>3, <2>4, <2>5, <2>6
      DEF Rows, RowOK, StepsOfCheck, HelperOfRow, UploadOwned, NotPublished,
          NewJournaled, SucceededKept, CancelledClean, ConfirmedCancelled
    <2>10. WorkerOK'
      BY <2>1, <2>2, <2>3, <2>6, <2>7
      DEF WorkerOK, HandlerRuns, HandlerKind, TodoRuns, ChildRuns, HelperAwaited,
          Publishing, Swept, HandlerPcs, CheckPcs, MediaPcs
    <2>11. QED
      BY <2>1, <2>8, <2>9, <2>10, OneRow
  <1>34. CASE StopMedia
    <2> PICK j \in Jobs : j = w.job
      BY <1>34 DEF StopMedia, Locals, JobInRange, HandlerPcs, CheckPcs
    <2>1. j \in Jobs /\ job[j].status = "running" /\ job[j] \in JobRow
      BY <1>34 DEF StopMedia, WorkerOK, HandlerRuns, HandlerPcs, CheckPcs, JobsTyped
    <2>2. /\ job[j].kind \in Media /\ job[j].kind # "check"
          /\ \A s \in Streams : ~helper[j][s] /\ step[j][s] = "none"
      BY <1>34, <2>1
      DEF StopMedia, Media, MediaPcs, WorkerOK, HandlerKind, Rows, RowOK, StepsOfCheck,
                       HelperOfRow
    <2>3. /\ UNCHANGED <<helper, fsys>> /\ ~staged[j]
          /\ swap[j] # "none" => job[j].escaped
          /\ cache[j] = "new" => swap[j] # "none"
      BY <1>34, <2>1 DEF StopMedia, WorkerOK, Publishing, Rows, RowOK, NewJournaled
    <2>4. CASE FinishStop(j) /\ Goto("settle")
      <3>1. /\ job'[j].kind = job[j].kind /\ job'[j].status = "cancelled"
            /\ job'[j].escaped = job[j].escaped /\ step'[j] = StoppedSteps(step[j])
            /\ \A i \in Jobs \ {j} : job'[i] = job[i] /\ step'[i] = step[i]
        BY <2>1, <2>4, FinishStopRow
      <3>2. RowStops(j) /\ \A i \in Jobs \ {j} : RowSame(i)
        BY <2>2, <2>3, <3>1 DEF RowStops, RowSame, fsys
      <3>3. w'.pc = "settle"
        BY <2>4 DEF Goto, WorkerTyped, WorkerState
      <3>4. QED
        BY <2>1, <3>2, <3>3, StoppedRow, OneRow, WorkerIdle
        DEF Rows, HandlerPcs, CheckPcs
    <2>5. CASE Goto("fail") /\ UNCHANGED <<job, step>>
      <3>1. w'.pc = "fail" /\ w'.job = j
        BY <2>5 DEF Goto, WorkerTyped, WorkerState
      <3>2. WorkerOK'
        BY <2>1, <2>2, <2>3, <2>5, <3>1
        DEF fsys, WorkerOK, HandlerRuns, HandlerKind, TodoRuns, ChildRuns,
            HelperAwaited, Publishing, Swept, HandlerPcs, CheckPcs, MediaPcs
      <3>3. QED
        BY <2>3, <2>5, <3>2, NothingMoves, NoRow
    <2>6. QED
      BY <1>34, <2>4, <2>5 DEF StopMedia
  <1>35. CASE FailJob
    <2> PICK j \in Jobs : j = w.job
      BY <1>35 DEF FailJob, Locals, JobInRange, HandlerPcs, CheckPcs
    <2>1. j \in Jobs /\ job[j].status = "running" /\ job[j] \in JobRow
      BY <1>35 DEF FailJob, WorkerOK, HandlerRuns, HandlerPcs, CheckPcs, JobsTyped
    <2>2. /\ UNCHANGED <<helper, fsys>>
          /\ \A s \in Streams : helper[j][s] => job[j].escaped
          /\ w'.pc \in {"loop", "settle"}
      BY <1>35
      DEF FailJob, Goto, WorkerTyped, WorkerState, WorkerOK, HelperAwaited, HandlerPcs,
                 CheckPcs
    <2>3. WorkerOK'
      BY <2>2, WorkerIdle DEF HandlerPcs, CheckPcs
    <2>4. CASE /\ job' = [job EXCEPT ![j].status = "failed"]
               /\ step' = [step EXCEPT ![j] = FailedSteps(@)]
      <3>1. /\ job'[j].kind = job[j].kind /\ job'[j].status = "failed"
            /\ job'[j].outcome = job[j].outcome /\ job'[j].escaped = job[j].escaped
            /\ \A i \in Jobs \ {j} : job'[i] = job[i]
        BY <2>1, <2>4, StatusRow
      <3>2. /\ \A s \in Streams : step[j][s] = "none" => step'[j][s] = "none"
            /\ \A i \in Jobs \ {j} : step'[i] = step[i]
        BY <2>1, <2>4 DEF FailedSteps, StepsTyped
      <3>3. \A i \in Jobs \ {j} : RowSame(i)
        BY <2>2, <3>1, <3>2 DEF RowSame, fsys
      <3>4. RowOK(j)'
        BY <2>1, <2>2, <3>1, <3>2
        DEF fsys, Rows, RowOK, StepsOfCheck, HelperOfRow, UploadOwned, NotPublished,
            NewJournaled, SucceededKept, CancelledClean, ConfirmedCancelled
      <3>5. QED
        BY <2>1, <2>3, <3>3, <3>4, OneRow
    <2>5. CASE UNCHANGED <<job, step>>
      BY <2>2, <2>3, <2>5, NothingMoves, NoRow
    <2>6. QED
      BY <1>35, <2>4, <2>5 DEF FailJob
  <1>36. CASE Crash
    <2>1. UNCHANGED <<job, step, helper, fsys>> /\ w'.pc = "down"
      BY <1>36 DEF Crash, Goto, WorkerTyped, WorkerState
    <2>2. QED
      BY <2>1, NothingMoves, NoRow, WorkerIdle DEF HandlerPcs, CheckPcs
  <1>37. CASE \E j \in Jobs, s \in Streams : HelperExits(j, s)
    <2>1. PICK j \in Jobs, s \in Streams : HelperExits(j, s)
      BY <1>37
    <2>2. UNCHANGED <<job, step, fsys, w>>
      BY <2>1 DEF HelperExits
    <2>3. /\ \A r \in Streams : helper'[j][r] => helper[j][r]
          /\ \A i \in Jobs \ {j} : helper'[i] = helper[i]
      BY <2>1 DEF HelperExits, HelperTyped
    <2>4. \A i \in Jobs \ {j} : RowSame(i)
      BY <2>2, <2>3 DEF RowSame, fsys
    <2>5. RowOK(j)'
      BY <2>2, <2>3
      DEF fsys, Rows, RowOK, StepsOfCheck, HelperOfRow, UploadOwned, NotPublished,
          NewJournaled, SucceededKept, CancelledClean, ConfirmedCancelled
    <2>6. w.pc \in HandlerPcs => w.job \in Jobs
      BY DEF Locals, JobInRange
    <2>7. WorkerOK'
      BY <2>2, <2>3, <2>6
      DEF fsys, WorkerOK, HandlerRuns, HandlerKind, TodoRuns, ChildRuns, HelperAwaited,
          Publishing, Swept, HandlerPcs, CheckPcs
    <2>8. QED
      BY <2>4, <2>5, <2>7, OneRow
  <1>38. CASE SyncEscapes
    <2> PICK j \in Jobs : j = w.job
      BY <1>38 DEF SyncEscapes, Locals, JobInRange, HandlerPcs, CheckPcs
    <2>1. j \in Jobs /\ job[j].status = "running" /\ job[j] \in JobRow
      BY <1>38 DEF SyncEscapes, WorkerOK, HandlerRuns, HandlerPcs, CheckPcs, JobsTyped
    <2>2. /\ job[j].kind \in Media /\ job[j].kind # "check"
          /\ \A s \in Streams : ~helper[j][s] /\ step[j][s] = "none"
      BY <1>38, <2>1
      DEF SyncEscapes, Media, MediaPcs, WorkerOK, HandlerKind, Rows, RowOK, StepsOfCheck,
          HelperOfRow
    <2>3. /\ UNCHANGED <<step, helper>> /\ swap[j] = "none" /\ cache[j] = "old"
      BY <1>38 DEF SyncEscapes, WorkerOK, Publishing
    <2>4. PICK s \in Swaps, c \in {"old", "new"}, held \in BOOLEAN :
             /\ c = "new" => s # "none"
             /\ swap' = [swap EXCEPT ![j] = s]
             /\ cache' = [cache EXCEPT ![j] = c]
             /\ job' = [job EXCEPT ![j].escaped = (s # "none")]
             /\ w' = [w EXCEPT !.pc = "drop", !.held = held]
      BY <1>38 DEF SyncEscapes, Raised
    <2>5. /\ job'[j].kind = job[j].kind /\ job'[j].status = job[j].status
          /\ job'[j].outcome = job[j].outcome
          /\ swap'[j] # "none" => job'[j].escaped
          /\ \A i \in Jobs \ {j} : job'[i] = job[i]
      BY <2>1, <2>4 DEF JobsTyped, JobRow, SwapTyped
    <2>6. /\ cache'[j] = "new" => swap'[j] # "none"
          /\ \A i \in Jobs \ {j} : swap'[i] = swap[i] /\ cache'[i] = cache[i]
      BY <2>1, <2>4 DEF SwapTyped, CacheTyped
    <2>7. /\ staged'[j] => staged[j]
          /\ \A i \in Jobs \ {j} : staged'[i] = staged[i]
      BY <1>38, <2>1 DEF SyncEscapes, StagedTyped
    <2>8. w'.pc = "drop" /\ w'.job = j
      BY <2>4 DEF WorkerTyped, WorkerState
    <2>9. \A i \in Jobs \ {j} : RowSame(i)
      BY <2>3, <2>5, <2>6, <2>7 DEF RowSame
    <2>10. RowOK(j)'
      BY <2>1, <2>2, <2>3, <2>5, <2>6, <2>7
      DEF Rows, RowOK, StepsOfCheck, HelperOfRow, UploadOwned, NotPublished,
          NewJournaled, SucceededKept, CancelledClean, ConfirmedCancelled
    <2>11. WorkerOK'
      BY <2>1, <2>2, <2>3, <2>5, <2>8
      DEF WorkerOK, HandlerRuns, HandlerKind, TodoRuns, ChildRuns, HelperAwaited,
          Publishing, Swept, HandlerPcs, CheckPcs, MediaPcs
    <2>12. QED
      BY <2>9, <2>10, <2>11, OneRow
  <1>39. CASE SyncBlocks
    <2> PICK j \in Jobs : j = w.job
      BY <1>39 DEF SyncBlocks, Locals, JobInRange, HandlerPcs, CheckPcs
    <2>1. j \in Jobs /\ job[j].status = "running" /\ job[j] \in JobRow
      BY <1>39 DEF SyncBlocks, WorkerOK, HandlerRuns, HandlerPcs, CheckPcs, JobsTyped
    <2>2. /\ job[j].kind \in Media /\ job[j].kind # "check"
          /\ \A s \in Streams : ~helper[j][s] /\ step[j][s] = "none"
      BY <1>39, <2>1
      DEF SyncBlocks, Media, MediaPcs, WorkerOK, HandlerKind, Rows, RowOK, StepsOfCheck,
          HelperOfRow
    <2>3. UNCHANGED <<job, step, helper, fsys>> /\ w'.job = j /\ w'.pc = "blocked"
      BY <1>39 DEF SyncBlocks, Goto, WorkerTyped, WorkerState
    <2>4. WorkerOK'
      BY <2>1, <2>2, <2>3
      DEF WorkerOK, HandlerRuns, HandlerKind, TodoRuns, ChildRuns, HelperAwaited,
          Publishing, Swept, HandlerPcs, CheckPcs, MediaPcs
    <2>5. QED
      BY <2>3, <2>4, NothingMoves, NoRow
  <1>40. CASE RestartBlocked
    <2>1. UNCHANGED <<job, step, helper, fsys>> /\ w'.pc = "down"
      BY <1>40 DEF RestartBlocked, Goto, WorkerTyped, WorkerState
    <2>2. QED
      BY <2>1, NothingMoves, NoRow, WorkerIdle DEF HandlerPcs, CheckPcs
  <1>41. CASE DropMedia
    <2> PICK j \in Jobs : j = w.job
      BY <1>41 DEF DropMedia, Locals, JobInRange, HandlerPcs, CheckPcs
    <2>1. j \in Jobs /\ job[j].status = "running" /\ job[j] \in JobRow
      BY <1>41 DEF DropMedia, WorkerOK, HandlerRuns, HandlerPcs, CheckPcs, JobsTyped
    <2>2. /\ job[j].kind \in Media /\ job[j].kind # "check"
          /\ \A s \in Streams : ~helper[j][s] /\ step[j][s] = "none"
      BY <1>41, <2>1
      DEF DropMedia, Media, MediaPcs, WorkerOK, HandlerKind, Rows, RowOK, StepsOfCheck,
          HelperOfRow
    <2>3. /\ UNCHANGED <<step, helper, swap, cache>>
          /\ swap[j] # "none" => job[j].escaped
      BY <1>41 DEF DropMedia, WorkerOK, Publishing
    <2>4. /\ staged'[j] => staged[j]
          /\ \A i \in Jobs \ {j} : staged'[i] = staged[i]
      BY <1>41, <2>1 DEF DropMedia, StagedTyped
    <2>5. /\ job'[j].kind = job[j].kind /\ job'[j].status = job[j].status
          /\ job'[j].outcome = job[j].outcome \/ job'[j].outcome = "cleanup-required"
          /\ job'[j].escaped = job[j].escaped
          /\ \A i \in Jobs \ {j} : job'[i] = job[i]
      BY <1>41, <2>1 DEF DropMedia, JobsTyped, JobRow
    <2>6. /\ w'.job = j /\ w'.pc \in {"stop", "fail"}
          /\ w'.pc = "stop" => ~staged'[j]
      BY <1>41, <2>1 DEF DropMedia, Goto, WorkerTyped, WorkerState, StagedTyped
    <2>7. \A i \in Jobs \ {j} : RowSame(i)
      BY <2>3, <2>4, <2>5 DEF RowSame
    <2>8. RowOK(j)'
      BY <2>1, <2>2, <2>3, <2>4, <2>5
      DEF Rows, RowOK, StepsOfCheck, HelperOfRow, UploadOwned, NotPublished,
          NewJournaled, SucceededKept, CancelledClean, ConfirmedCancelled
    <2>9. WorkerOK'
      BY <2>1, <2>2, <2>3, <2>5, <2>6
      DEF WorkerOK, HandlerRuns, HandlerKind, TodoRuns, ChildRuns, HelperAwaited,
          Publishing, Swept, HandlerPcs, CheckPcs, MediaPcs
    <2>10. QED
      BY <2>7, <2>8, <2>9, OneRow
  <1>42. CASE MediaRaises
    <2> PICK j \in Jobs : j = w.job
      BY <1>42 DEF MediaRaises, Locals, JobInRange, HandlerPcs, CheckPcs
    <2>1. j \in Jobs /\ job[j].status = "running" /\ job[j] \in JobRow
      BY <1>42 DEF MediaRaises, WorkerOK, HandlerRuns, HandlerPcs, CheckPcs, JobsTyped
    <2>2. /\ job[j].kind \in Media /\ job[j].kind # "check"
          /\ \A s \in Streams : ~helper[j][s] /\ step[j][s] = "none"
      BY <1>42, <2>1
      DEF MediaRaises, Media, MediaPcs, WorkerOK, HandlerKind, Rows, RowOK, StepsOfCheck,
          HelperOfRow
    <2>3. /\ UNCHANGED <<job, step, helper, fsys>>
          /\ w'.job = j /\ w'.pc \in {"undo", "fail"}
      BY <1>42 DEF MediaRaises, Goto, WorkerTyped, WorkerState
    <2>4. WorkerOK'
      BY <2>1, <2>2, <2>3
      DEF fsys, WorkerOK, HandlerRuns, HandlerKind, TodoRuns, ChildRuns, HelperAwaited,
          Publishing, Swept, HandlerPcs, CheckPcs, MediaPcs
    <2>5. QED
      BY <2>3, <2>4, NothingMoves, NoRow
  <1>43. CASE UNCHANGED vars
    BY <1>43, NothingMoves, NoRow, WorkerKept DEF vars, fsys
  <1>44. QED
    BY <1>1, <1>2, <1>3, <1>4, <1>5, <1>6, <1>7, <1>8, <1>9, <1>10, <1>11, <1>12, <1>13,
       <1>14, <1>15, <1>16, <1>17, <1>18, <1>19, <1>20, <1>21, <1>22, <1>23, <1>24,
       <1>25, <1>26, <1>27, <1>28, <1>29, <1>30, <1>31, <1>32, <1>33, <1>34, <1>35,
       <1>36, <1>37, <1>38, <1>39, <1>40, <1>41, <1>42, <1>43
    DEF Next, Web, Worker, Recover, Host

(* The initial state: no rows, an empty host, the worker down.             *)
LEMMA HostInit == Init => HInv
  <1> SUFFICES ASSUME Init PROVE HInv
    OBVIOUS
  <1>1. IInv
    BY InitInv
  <1>2. Rows
    BY DEF Init, EmptyJob, Rows, RowOK, StepsOfCheck, HelperOfRow, UploadOwned,
           NotPublished, NewJournaled, SucceededKept, CancelledClean, ConfirmedCancelled
  <1>3. WorkerOK
    BY DEF Init, IdleWorker, WorkerOK, HandlerRuns, HandlerKind, TodoRuns, ChildRuns,
           HelperAwaited, Publishing, Swept, HandlerPcs, CheckPcs, MediaPcs
  <1>4. QED
    BY <1>1, <1>2, <1>3 DEF HInv

(* The worker, its handlers, recovery and the web threads keep what the    *)
(* host holds in agreement with the job table (worker.py).                 *)
THEOREM HostInvariance == Spec => []HInv
  <1>1. HInv /\ [Next]_vars => HInv'
    BY TypeStep, InvStep, HostStep DEF HInv, IInv, Rest
  <1>2. QED
    BY <1>1, HostInit, PTL DEF Spec

(* A live helper unit always has a running job and a running child that    *)
(* account for it: recovery quiesces before it rewrites the rows.          *)
THEOREM HelpersAreOwned == Spec => []HelperOwned
  <1>1. HInv => HelperOwned
    BY DEF HInv, Rows, RowOK, HelperOfRow, HelperOwned
  <1>2. QED
    BY <1>1, HostInvariance, PTL

(* finish_stop is only reached once all owned work has stopped: after a    *)
(* confirmed cancellation neither a helper, an upload, a swap, a published *)
(* version nor an active child is left.                                    *)
THEOREM ConfirmationsAreTrue == Spec => []ConfirmedIsClean
  <1>1. HInv => ConfirmedIsClean
    BY DEF HInv, Rows, RowOK, StepsOfCheck, HelperOfRow, UploadOwned, NotPublished,
           NewJournaled, SucceededKept, CancelledClean, ConfirmedCancelled,
           ConfirmedIsClean
  <1>2. QED
    BY <1>1, HostInvariance, PTL

(* _run_pxe_media_sync and the recovery of its swaps leave the cache as    *)
(* the job table says, whenever no journal is open.                        *)
THEOREM CacheAgrees == Spec => []MediaAgrees
  <1>1. HInv => MediaAgrees
    <2> SUFFICES ASSUME HInv, NEW j \in Jobs, job[j].kind \in Media, swap[j] = "none"
                 PROVE  /\ cache[j] = "new" => job[j].status = "succeeded"
                        /\ job[j].status = "succeeded" => cache[j] \in {"new", "kept"}
      BY DEF MediaAgrees
    <2>1. cache[j] \in Versions
      BY DEF HInv, IInv, TypeOK, CacheTyped
    <2>2. QED
      BY <2>1 DEF HInv, Rows, RowOK, NewJournaled, SucceededKept, Versions
  <1>2. QED
    BY <1>1, HostInvariance, PTL

-----------------------------------------------------------------------------
(* What a step may never do to a row.                                      *)

(* What ResultPreserved says of one step ...                               *)
ResultKept == \A j \in Jobs : job[j].status \in Finished => job'[j].status = job[j].status

(* ... and CheckRecorded.                                                  *)
Recorded ==
    \A j \in Jobs :
      /\ job[j].kind = "check" /\ job[j].status = "running"
      /\ job[j].outcome # "confirmed" /\ job'[j].outcome = "confirmed"
      => Checked(j)' \subseteq avail'[j]

(* A row whose result and disposition a step leaves alone, up to the       *)
(* confirmation of one that is already cancelled.                          *)
Quiet(j) ==
    /\ job'[j].status = job[j].status
    /\ job'[j].outcome = "confirmed" => job[j].outcome = "confirmed" \/ job[j].status = "cancelled"

(* Rewriting a running row that is not a cancelled check is harmless.      *)
LEMMA OneRowMoves ==
    ASSUME NEW j \in Jobs, job[j].status \notin Finished,
           job[j].kind # "check" \/ job'[j].outcome # "confirmed" \/ job[j].status # "running"
             \/ job[j].outcome = "confirmed",
           \A i \in Jobs \ {j} : Quiet(i)
    PROVE  ResultKept /\ Recorded
  BY DEF ResultKept, Recorded, Quiet, Finished

(* finish_stop together with the findings of the finished children.        *)
LEMMA StopRecords ==
    ASSUME JobsTyped, StepsTyped, AvailTyped, NEW j \in Jobs, job[j].status = "running",
           FinishStop(j), RecordChecked(j)
    PROVE  ResultKept /\ Recorded
  <1>1. /\ step'[j] = StoppedSteps(step[j])
        /\ \A i \in Jobs \ {j} : job'[i] = job[i]
    BY FinishStopRow
  <1>2. Checked(j) \subseteq avail'[j]
    BY DEF RecordChecked, AvailTyped
  <1>3. Checked(j)' \subseteq Checked(j)
    BY <1>1, StoppedChildren DEF Checked, StepsTyped
  <1>4. \A i \in Jobs \ {j} : Quiet(i)
    BY <1>1 DEF Quiet
  <1>5. QED
    BY <1>2, <1>3, <1>4 DEF ResultKept, Recorded, Quiet, Finished

(* No step rewrites a result or loses the findings of a check it confirms. *)
LEMMA ResultStep == HInv /\ [Next]_vars => ResultKept /\ Recorded
  <1> SUFFICES ASSUME HInv, [Next]_vars PROVE ResultKept /\ Recorded
    OBVIOUS
  <1> USE DEF HInv, IInv, TypeOK
  <1>1. ASSUME \A i \in Jobs : Quiet(i) PROVE ResultKept /\ Recorded
    BY <1>1 DEF ResultKept, Recorded, Quiet, Finished
  <1>2. CASE UNCHANGED job
    BY <1>1, <1>2 DEF Quiet
  <1>3. ASSUME NEW j \in Jobs, NEW S, FinishPending(j, S) PROVE ResultKept /\ Recorded
    <2>1. job[j].status = "pending" /\ \A i \in Jobs \ {j} : RowSame(i)
      BY <1>3, FinishPendingRow
    <2>2. QED
      BY <2>1, OneRowMoves DEF RowSame, Quiet, Finished
  <1>4. ASSUME NEW j \in Jobs, NEW v, job' = [job EXCEPT ![j].status = v],
               job[j].status \notin Finished
        PROVE  ResultKept /\ Recorded
    BY <1>4, StatusRow, OneRowMoves DEF Quiet
  <1>5. CASE \E j \in Jobs, k \in Kinds : Submit(j, k)
    BY <1>5, OneRowMoves DEF Submit, JobsTyped, JobRow, Quiet, Finished
  <1>6. CASE \E c \in Clients : RequestReserve(c) \/ RequestFinish(c)
    <2>1. PICK c \in Clients : RequestReserve(c) \/ RequestFinish(c)
      BY <1>6
    <2>2. CASE RequestReserve(c)
      <3>1. CASE job' = [job EXCEPT ![web[c].job].req = TRUE, ![web[c].job].outcome = "requested"]
        BY <1>1, <3>1 DEF Quiet, JobsTyped, JobRow
      <3>2. QED
        BY <1>2, <2>2, <3>1 DEF RequestReserve
    <2>3. CASE RequestFinish(c)
      BY <1>2, <1>3, <2>3 DEF RequestFinish, Locals, ThreadInRange
    <2>4. QED
      BY <2>1, <2>2, <2>3
  <1>7. CASE \E j \in Jobs : ReconcileOne(j)
    BY <1>2, <1>3, <1>7 DEF ReconcileOne
  <1>8. CASE ReconcileEnd
    BY <1>1, <1>8, SettledRow DEF ReconcileEnd, Quiet, JobsTyped
  <1>9. CASE \E j \in Jobs : \/ RecoverCancelledCheck(j) \/ RecoverCheck(j)
                             \/ RecoverMedia(j) \/ RecoverPlain(j)
    <2>1. PICK j \in Jobs : \/ RecoverCancelledCheck(j) \/ RecoverCheck(j)
                            \/ RecoverMedia(j) \/ RecoverPlain(j)
      BY <1>9
    <2>2. job[j].status = "running" /\ job[j].status \notin Finished
      BY <2>1
      DEF RecoverCancelledCheck, RecoverCheck, RecoverMedia, RecoverPlain, WorkerOK,
                  TodoRuns, Finished
    <2>3. ASSUME Retain(j) PROVE ResultKept /\ Recorded
      BY <1>1, <2>3 DEF Retain, Quiet, JobsTyped, JobRow
    <2>4. CASE RecoverCancelledCheck(j)
      BY <2>2, <2>3, <2>4, StopRecords DEF RecoverCancelledCheck
    <2>5. CASE RecoverCheck(j)
      <3>1. CASE job' = [job EXCEPT ![j].status = "failed", ![j].unresolved = FALSE]
        <4>1. job'[j].outcome = job[j].outcome /\ \A i \in Jobs \ {j} : job'[i] = job[i]
          BY <3>1 DEF JobsTyped, JobRow
        <4>2. QED
          BY <2>2, <4>1, OneRowMoves DEF Quiet
      <3>2. QED
        BY <1>2, <1>4, <2>2, <2>5, <3>1 DEF RecoverCheck
    <2>6. CASE RecoverMedia(j)
      <3>1. CASE FinishStop(j)
        BY <2>2, <2>6, <3>1, FinishStopRow, OneRowMoves DEF RecoverMedia, Media, Quiet
      <3>2. QED
        BY <1>2, <1>4, <2>2, <2>3, <2>6, <3>1 DEF RecoverMedia
    <2>7. CASE RecoverPlain(j)
      BY <1>4, <2>2, <2>7 DEF RecoverPlain
    <2>8. QED
      BY <2>1, <2>4, <2>5, <2>6, <2>7
  <1>10. CASE Claim
    BY <1>2, <1>4, <1>10 DEF Claim, StillQueued, Queued, Finished
  <1>11. CASE \/ RunPlain \/ CheckStream \/ CompleteCheck \/ StartStep \/ HoldCheck
              \/ CheckRaises \/ SyncEscapes \/ DropMedia \/ CompleteMedia \/ UndoMedia \/ StopMedia \/ FailJob
    <2> PICK j \in Jobs : j = w.job
      BY <1>11
      DEF RunPlain, CheckStream, CompleteCheck, StartStep, HoldCheck, CompleteMedia,
          CheckRaises, SyncEscapes, DropMedia, UndoMedia, StopMedia, FailJob, Locals, JobInRange, HandlerPcs, CheckPcs
    <2>1. job[j].status = "running" /\ job[j].status \notin Finished
      BY <1>11
      DEF RunPlain, CheckStream, CompleteCheck, StartStep, HoldCheck, CompleteMedia,
          CheckRaises, SyncEscapes, DropMedia, UndoMedia, StopMedia, FailJob, WorkerOK,
          HandlerRuns, HandlerPcs, CheckPcs, Finished
    <2>2. CASE RunPlain \/ CompleteMedia \/ FailJob
      BY <1>2, <1>4, <2>1, <2>2 DEF RunPlain, CompleteMedia, FailJob
    <2>3. CASE CheckStream \/ StartStep
      BY <1>2, <2>1, <2>3, StopRecords DEF CheckStream, StartStep, StopCheck
    <2>4. CASE CompleteCheck
      <3>1. job'[j].outcome = job[j].outcome /\ \A i \in Jobs \ {j} : job'[i] = job[i]
        BY <2>4 DEF CompleteCheck, JobsTyped, JobRow
      <3>2. QED
        BY <2>1, <3>1, OneRowMoves DEF Quiet
    <2>5. CASE HoldCheck \/ CheckRaises \/ SyncEscapes \/ DropMedia \/ UndoMedia
      <3>1. \A i \in Jobs : Quiet(i)
        <4>1. CASE HoldCheck \/ DropMedia \/ UndoMedia
          BY <4>1 DEF HoldCheck, DropMedia, UndoMedia, Quiet, JobsTyped, JobRow
        <4>2. CASE CheckRaises
          BY <4>2 DEF CheckRaises, Quiet, JobsTyped, JobRow
        <4>3. CASE SyncEscapes
          <5>1. PICK b : job' = [job EXCEPT ![j].escaped = b]
            BY <4>3 DEF SyncEscapes
          <5>2. QED
            BY <5>1 DEF Quiet, JobsTyped, JobRow
        <4>4. QED
          BY <2>5, <4>1, <4>2, <4>3
      <3>2. QED
        BY <1>1, <3>1
    <2>6. CASE StopMedia
      <3>1. CASE FinishStop(j)
        BY <2>1, <2>6, <3>1, FinishStopRow, OneRowMoves
        DEF StopMedia, WorkerOK, HandlerKind, MediaPcs, Media, Quiet
      <3>2. QED
        BY <1>2, <2>6, <3>1 DEF StopMedia
    <2>7. QED
      BY <1>11, <2>2, <2>3, <2>4, <2>5, <2>6
  <1>12. QED
    <2>1. CASE \E c \in Clients, j \in Jobs : RequestRead(c, j)
      BY <1>2, <2>1 DEF RequestRead
    <2>2. CASE \E c \in Clients : RequestLost(c)
      BY <1>2, <2>2 DEF RequestLost
    <2>3. CASE Start \/ RecoverSwaps \/ RecoverLoad \/ RecoverEnd
      BY <1>2, <2>3 DEF Start, RecoverSwaps, RecoverLoad, RecoverEnd
    <2>4. CASE ReconcileBegin \/ Admit \/ Pick
      BY <1>2, <2>4 DEF ReconcileBegin, Admit, Pick
    <2>5. CASE \/ ExecHelper \/ HelperReturns \/ HelperUnresolved \/ CompleteStep
      BY <1>2, <2>5
      DEF ExecHelper, HelperReturns, HelperUnresolved, CompleteStep
    <2>6. CASE SyncMedia \/ SyncBlocks \/ MediaRaises \/ PollMedia \/ CommitMedia
      BY <1>2, <2>6 DEF SyncMedia, SyncBlocks, MediaRaises, PollMedia, CommitMedia
    <2>7. CASE Host \/ UNCHANGED vars
      BY <1>2, <2>7 DEF Host, Crash, RestartBlocked, HelperExits, vars
    <2>8. QED
      BY <1>5, <1>6, <1>7, <1>8, <1>9, <1>10, <1>11, <2>1, <2>2, <2>3, <2>4, <2>5, <2>6,
         <2>7
      DEF Next, Web, Worker, Recover

(* Completion won: once a row is finished no cancellation, recovery or     *)
(* reconciliation gives it another result.                                 *)
THEOREM ResultsAreFinal == Spec => ResultPreserved
  <1>1. HInv /\ [Next]_vars => [ResultKept]_vars
    BY ResultStep
  <1>2. QED
    BY <1>1, HostInvariance, PTL DEF Spec, ResultPreserved, ResultKept

(* _record_cancelled_check_availability runs in the same transaction as    *)
(* the confirmation, in the handler and in startup recovery.               *)
THEOREM FindingsAreRecorded == Spec => CheckRecorded
  <1>1. HInv /\ [Next]_vars => [Recorded]_vars
    BY ResultStep
  <1>2. QED
    BY <1>1, HostInvariance, PTL DEF Spec, CheckRecorded, Recorded

=============================================================================
