------------------------ MODULE ApplianceUpdateProofs ------------------------
(***************************************************************************)
(* Proofs about ApplianceUpdate, for every set of execution orders and any *)
(* number of faults: the state is well typed, installers run only behind   *)
(* the update-only surface, the ordinary UIs return only over a quiet      *)
(* appliance that has kept its restart duty, delayed restarts never        *)
(* overlap and no child is replayed.                                       *)
(*                                                                         *)
(* None of these is inductive.  The invariant below adds what the rows,    *)
(* the helper, the worker's place and the restart units say of each other. *)
(***************************************************************************)
EXTENDS ApplianceUpdate, TLAPS

-----------------------------------------------------------------------------
(* The rows.  Status and mark of a child agree, and the children were      *)
(* taken in the stored order.                                              *)
Contract == IF job.legacy THEN Historical(order) ELSE Current(order)

ChildRows == \A s \in Streams :
    /\ (step[s].status = "none") <=> (s \notin Selected)
    /\ step[s].applied => step[s].status \in {"running", "succeeded", "failed"}

InOrder == \A i, k \in DOMAIN order : i < k =>
    /\ step[order[k]].status # "pending" => step[order[i]].status \in Over
    /\ ~job.legacy /\ step[order[k]].applied => step[order[i]].status = "succeeded"

Evidence == finalizer # "none" => step["release"].applied

(* A resumed or cancelled task has no child at work.                       *)
Waiting == job.status \in {"pending", "cancelled"} =>
    \A s \in Streams : step[s].status # "running"

Rows == Contract /\ ChildRows /\ InOrder /\ Evidence /\ Waiting

-----------------------------------------------------------------------------
(* The worker's place and the child it has taken.                          *)
Begun    == {"announce", "check", "apply", "applying", "record"}
Taken    == Begun \cup {"report"}
Working  == Taken \cup {"begin", "stream", "raised"}
Settling == {"dispatch", "schedule", "surface", "finish", "finishing", "retry"}
Between  == {"begin", "stream", "report"}

Places ==
    /\ w.pc \in Working => job.status = "running"
    /\ w.pc \in Settling => job.status \in Terminal
    /\ w.pc \in {"dispatch", "schedule", "retry"} => job.restart
    /\ w.pc # "down" => epoch > 0

TakenChild ==
    /\ w.pc \in Taken => w.pos <= Len(order)
    /\ w.pc \in Begun => /\ step[Stream].status = "running"
                         /\ \A s \in Streams : step[s].status = "running" => s = Stream
    /\ w.pc \in {"announce", "check"} =>
         ~step[Stream].applied /\ (w.failed => job.legacy)
    /\ w.pc \in {"apply", "applying"} => step[Stream].applied
    /\ w.pc = "apply" /\ Stream = "release" => finalizer = "none"
    /\ w.pc = "record" /\ Stream = "release" => finalizer # "pending"
    /\ w.pc = "report" => /\ step[Stream].status \in Over
                          /\ step[Stream].status = "succeeded" \/ w.failed
    /\ w.pc \in Between => \A s \in Streams : step[s].status # "running"

(* The children before it have ended, and any failure is remembered.       *)
Passed == w.pc \in Taken \cup {"stream"} =>
    \A i \in DOMAIN order : i < w.pos =>
        /\ step[order[i]].status \in Over
        /\ step[order[i]].status = "succeeded" \/ w.failed

(* The helper belongs to the one child that runs, whoever waits for it.    *)
HelperAtWork ==
    /\ helper # "none" =>
         /\ job.status = "running"
         /\ step[helper].status = "running" /\ step[helper].applied
         /\ w.pc \in {"down", "gate", "recover", "loop", "applying"}
    /\ w.pc = "applying" => helper = Stream
    /\ helper = "release" => finalizer \in {"none", "pending"}

HoldProved == w.pc \in {"check", "apply", "applying"} =>
    surf.marker = "job" /\ surf.active

Progress == Places /\ TakenChild /\ Passed /\ HelperAtWork /\ HoldProved

-----------------------------------------------------------------------------
(* Restarts.  Before the end nothing was scheduled; afterwards the grace   *)
(* period covers the one restart that may be under way, unless a refuted   *)
(* release made the worker complete the task again.                        *)
Units == host.armed + host.proving

Unscheduled == job.status \notin Terminal =>
    /\ Units = 0 /\ host.receipt = 0 /\ wait = "none"
    /\ ~job.restart /\ ~job.raised

Scheduled == finalizer # "refuted" =>
    /\ Units <= 1
    /\ wait # "grace" \/ host.receipt # 0 \/ ~job.restart => Units = 0
    /\ w.pc \in {"dispatch", "schedule", "retry"} =>
         Units = 0 /\ wait = "grace" /\ surf.state # "restored"
    /\ w.pc \in {"finish", "finishing"} \/ surf.state = "restored" => Units = 0

AllOver == \A s \in Selected : step[s].status \in Over

(* The surface that is given back, and the one about to be.                *)
Returned ==
    /\ surf.state = "restored" =>
         /\ job.status \in Terminal /\ surf.marker = "none"
         /\ AllOver /\ finalizer # "pending"
    /\ w.pc = "finishing" =>
         /\ surf.state = "pending" /\ surf.marker = "none"
         /\ AllOver /\ finalizer # "pending"

(* The duty to restart.  Packages are changed only by a marked Photon      *)
(* child, and what proves a restart has cleaned the host.  Only an ended   *)
(* child's mark was overwritten, and never under an open release.          *)
Overwritten ==
    /\ step["photon"].lost => step["photon"].status = "failed" /\ step["photon"].reported
    /\ step["release"].lost => step["release"].status \in Over /\ finalizer # "pending"
Forgotten == /\ step["photon"].status = "failed" /\ step["photon"].reported
             /\ job.raised \/ step["photon"].lost

Duty ==
    /\ host.dirty => /\ step["photon"].applied /\ ~Covered
                     /\ host.proving = 0 /\ host.receipt = 0
    /\ host.dirty /\ job.status \in {"pending", "cancelled"} =>
         step["photon"].status = "succeeded"
    /\ job.status \in {"pending", "running"} /\ step["photon"].status = "failed" =>
         step["photon"].reported
    /\ Overwritten
    /\ job.raised => job.status = "failed" /\ w.pc \notin {"dispatch", "schedule", "surface"}
    /\ host.dirty /\ job.status \in Terminal => job.restart \/ Forgotten
    /\ host.dirty /\ (surf.state = "restored" \/ w.pc \in {"finish", "finishing"}) => Forgotten

Restarts == Unscheduled /\ Scheduled /\ Returned /\ Duty

IInv == TypeOK /\ Rows /\ Progress /\ ApplyUnderHold /\ Restarts

-----------------------------------------------------------------------------
(* Lemmas on the stored order.                                             *)

(* An order is a short sequence without repetitions (execution_order).     *)
LEMMA OrderFacts ==
  ASSUME TypeOK
  PROVE  /\ Len(order) \in 1 .. 3 /\ DOMAIN order = 1 .. Len(order)
         /\ \A i \in DOMAIN order : order[i] \in Streams
         /\ \A i, k \in DOMAIN order : order[i] = order[k] => i = k
  <1>1. PICK n \in 1 .. 3 : order \in [1 .. n -> Streams]
    BY ApplianceUpdateConstants DEF TypeOK
  <1>2. Len(order) = n /\ DOMAIN order = 1 .. n
    BY <1>1
  <1>3. Current(order) \/ Historical(order)
    BY ApplianceUpdateConstants DEF TypeOK
  <1>4. ASSUME NEW i \in DOMAIN order, NEW k \in DOMAIN order, order[i] = order[k]
        PROVE  i = k
    <2>1. i \in 1 .. n /\ k \in 1 .. n
      BY <1>2
    <2>2. i < k \/ k < i \/ i = k
      BY <2>1
    <2>3. Rank[order[i]] \in Int
      BY <1>1, <2>1 DEF Rank, Streams
    <2>4. QED
      BY <1>3, <1>4, <2>2, <2>3 DEF Current, Historical
  <1>5. QED
    BY <1>1, <1>2, <1>4

(* The release is last in the current order, Photon in the historical one. *)
LEMMA LastStream ==
  ASSUME TypeOK, Contract
  PROVE  \A i, k \in DOMAIN order : i < k =>
            order[i] # IF job.legacy THEN "photon" ELSE "release"
  <1>1. ASSUME NEW i \in DOMAIN order, NEW k \in DOMAIN order, i < k
        PROVE  order[i] # IF job.legacy THEN "photon" ELSE "release"
    <2>1. order[i] \in Streams /\ order[k] \in Streams
      BY OrderFacts
    <2>2. /\ job.legacy => Rank[order[i]] > Rank[order[k]]
          /\ ~job.legacy => Rank[order[i]] < Rank[order[k]]
      BY <1>1 DEF Contract, Current, Historical
    <2>3. \A s \in Streams : Rank[s] \in 1 .. 3
      BY DEF Rank, Streams
    <2>4. Rank["photon"] = 1 /\ Rank["release"] = 3
      BY DEF Rank
    <2>5. QED
      BY <2>1, <2>2, <2>3, <2>4
  <1>2. QED
    BY <1>1

(* The position of a selected stream in the stored order.                  *)
LEMMA PositionOf ==
  ASSUME TypeOK, NEW s \in Selected
  PROVE  Position(s) \in DOMAIN order /\ order[Position(s)] = s
  BY DEF Selected, Position

-----------------------------------------------------------------------------
(* The types of what several actions share.                                *)

(* What a failed or cancelled hierarchy becomes, and what evidence says.   *)
LEMMA ChildTypes ==
  ASSUME TypeOK, NEW f \in [Streams -> StepRow]
  PROVE  EndedSteps(f) \in [Streams -> StepRow] /\ WithEvidence(f) \in [Streams -> StepRow]
  <1>1. ASSUME NEW s \in Streams
        PROVE  /\ [f[s] EXCEPT !.status = "failed"] \in StepRow
               /\ [f[s] EXCEPT !.status = "skipped"] \in StepRow
               /\ [f[s] EXCEPT !.status = "succeeded"] \in StepRow
    <2>1. f[s] \in StepRow
      OBVIOUS
    <2>2. QED
      BY <2>1 DEF StepRow, Over
  <1>2. EndedSteps(f) \in [Streams -> StepRow]
    BY <1>1 DEF EndedSteps
  <1>3. WithEvidence(f) \in [Streams -> StepRow]
    BY <1>1 DEF WithEvidence, Streams
  <1>4. QED
    BY <1>2, <1>3

(* _fail_job keeps the rows well typed.                                    *)
LEMMA FailTypes ==
  ASSUME TypeOK, NEW r \in BOOLEAN, FailJob(r)
  PROVE  job' \in JobRow /\ step' \in [Streams -> StepRow]
  <1>1. \A b \in BOOLEAN : [job EXCEPT !.status = "failed", !.fin = epoch, !.raised = r,
                                      !.restart = b] \in JobRow
    BY DEF TypeOK, JobRow, Terminal
  <1>2. (job.restart \/ RestartOwed(step)) \in BOOLEAN
    BY Zenon
  <1>3. job' \in JobRow
    BY <1>1, <1>2, Zenon DEF FailJob
  <1>4. QED
    BY <1>3, ChildTypes DEF TypeOK, FailJob

(* _publish_appliance_update_status keeps the surface well typed.          *)
LEMMA PublishTypes ==
  ASSUME TypeOK, NEW ok \in BOOLEAN, Publish(ok)
  PROVE  surf' \in Surface /\ faults' \in 0 .. MaxFaults
  <1>1. Noted \in Surface
    BY DEF TypeOK, Surface, Noted
  <1>2. surf' \in Surface
    BY <1>1 DEF Publish, Surface
  <1>3. faults' \in 0 .. MaxFaults
    BY ApplianceUpdateConstants DEF Publish, Fault, TypeOK
  <1>4. QED
    BY <1>2, <1>3

(* complete_appliance_update_task keeps the row and the locals well typed. *)
LEMMA CompleteTypes ==
  ASSUME TypeOK, NEW f, NEW success \in BOOLEAN, NEW restart \in BOOLEAN,
         Complete(f, success, restart)
  PROVE  job' \in JobRow /\ wait' \in {"none", "grace", "minute"} /\ w' \in WorkerState
  <1>1. job' \in JobRow
    BY DEF TypeOK, Complete, JobRow, Terminal
  <1>2. w' \in WorkerState
    BY DEF TypeOK, Complete, WorkerState, WorkerPcs
  <1>3. QED
    BY <1>1, <1>2 DEF TypeOK, Complete

(* Updates of the worker's locals.                                         *)
LEMMA LocalTypes ==
  ASSUME TypeOK, NEW pc \in WorkerPcs, NEW n \in 1 .. 4, NEW a \in BOOLEAN, NEW b \in BOOLEAN
  PROVE  /\ [w EXCEPT !.pc = pc, !.ok = a] \in WorkerState
         /\ [w EXCEPT !.pc = pc, !.failed = a] \in WorkerState
         /\ [w EXCEPT !.pos = n, !.failed = a] \in WorkerState
         /\ [w EXCEPT !.pc = pc, !.pos = n, !.failed = a, !.unproved = b] \in WorkerState
  BY DEF TypeOK, WorkerState

(* Updates of the restart units and the receipt.                           *)
LEMMA HostTypes ==
  ASSUME TypeOK, NEW m \in Nat, NEW n \in Nat, NEW b \in BOOLEAN
  PROVE  /\ [host EXCEPT !.armed = n, !.receipt = m] \in HostState
         /\ [host EXCEPT !.proving = n, !.receipt = m] \in HostState
         /\ [host EXCEPT !.armed = m, !.proving = n, !.dirty = b] \in HostState
         /\ [host EXCEPT !.receipt = m] \in HostState
  BY DEF TypeOK, HostState

-----------------------------------------------------------------------------
(* The type invariant, one case per action and one step per variable.      *)
LEMMA TypeStep ==
  ASSUME TypeOK, TakenChild, [Next]_vars
  PROVE  TypeOK'
  <1>1. CASE Start
    <2>1. w' \in WorkerState
      <3>1. Idle \in WorkerState
        BY DEF Idle, WorkerState, WorkerPcs
      <3>2. QED
        BY <3>1, <1>1 DEF Start, WorkerState, WorkerPcs
    <2>2. epoch' \in Nat
      BY <1>1 DEF Start, Idle, TypeOK
    <2>3. QED
      BY <1>1, <2>1, <2>2, Zenon DEF TypeOK, Start
  <1>2. CASE PassGate
    <2>1. w' \in WorkerState
      BY <1>2 DEF PassGate, Goto, TypeOK, WorkerState, WorkerPcs
    <2>2. QED
      BY <1>2, <2>1, Zenon DEF TypeOK, PassGate
  <1>3. CASE RecoverNothing
    <2>1. w' \in WorkerState
      BY <1>3 DEF RecoverNothing, Goto, Interrupted, TypeOK, WorkerState, WorkerPcs
    <2>2. QED
      BY <1>3, <2>1, Zenon DEF TypeOK, RecoverNothing
  <1>4. CASE ResumeJob
    <2>1. job' \in JobRow
      BY <1>4
      DEF ResumeJob, Goto, Interrupted, Resumable, Definitive, WithEvidence, TypeOK,
          JobRow, Terminal
    <2>2. step' \in [Streams -> StepRow]
      BY <1>4, ChildTypes DEF ResumeJob, TypeOK
    <2>3. w' \in WorkerState
      BY <1>4
      DEF ResumeJob, Goto, Interrupted, Resumable, Definitive, WithEvidence, TypeOK,
          WorkerState, WorkerPcs
    <2>4. QED
      BY <1>4, <2>1, <2>2, <2>3, Zenon DEF TypeOK, ResumeJob
  <1>5. CASE QuiesceHelper
    <2>1. step' \in [Streams -> StepRow]
      BY <1>5, ChildTypes DEF QuiesceHelper, TypeOK
    <2>2. w' \in WorkerState
      BY <1>5
      DEF QuiesceHelper, Goto, Fault, Interrupted, Resumable, Definitive, WithEvidence,
          Quiesced, TypeOK, WorkerState, WorkerPcs
    <2>3. helper' \in Streams \cup {"none"}
      BY <1>5
      DEF QuiesceHelper, Goto, Fault, Interrupted, Resumable, Definitive, WithEvidence,
          Quiesced, TypeOK, Streams
    <2>4. faults' \in 0 .. MaxFaults
      BY <1>5, ApplianceUpdateConstants
      DEF QuiesceHelper, Goto, Fault, Interrupted, Resumable, Definitive, WithEvidence,
          Quiesced, TypeOK
    <2>5. QED
      BY <1>5, <2>1, <2>2, <2>3, <2>4, Zenon DEF TypeOK, QuiesceHelper
  <1>6. CASE CompleteRecovered
    <2>1. job' \in JobRow
      BY <1>6, CompleteTypes, Zenon DEF CompleteRecovered
    <2>2. step' \in [Streams -> StepRow]
      BY <1>6, ChildTypes DEF CompleteRecovered, TypeOK
    <2>3. w' \in WorkerState
      BY <1>6, CompleteTypes, Zenon DEF CompleteRecovered
    <2>4. wait' \in {"none", "grace", "minute"}
      BY <1>6, CompleteTypes, Zenon DEF CompleteRecovered
    <2>5. QED
      BY <1>6, <2>1, <2>2, <2>3, <2>4, Zenon DEF TypeOK, CompleteRecovered
  <1>7. CASE FailCancelled
    <2>1. job' \in JobRow
      BY <1>7, FailTypes, Zenon DEF FailCancelled
    <2>2. step' \in [Streams -> StepRow]
      BY <1>7, FailTypes, Zenon DEF FailCancelled
    <2>3. QED
      BY <1>7, <2>1, <2>2, Zenon DEF TypeOK, FailCancelled
  <1>8. CASE RestoreUI
    <2>1. w' \in WorkerState
      BY <1>8
      DEF RestoreUI, Held, RestartProved, ReceiptMatches, TypeOK, WorkerState, WorkerPcs
    <2>2. QED
      BY <1>8, <2>1, Zenon DEF TypeOK, RestoreUI
  <1>9. CASE RetryRestart
    <2>1. job' \in JobRow
      BY <1>9
      DEF RetryRestart, Goto, RetryDue, Held, ReceiptMatches, TypeOK, JobRow, Terminal
    <2>2. w' \in WorkerState
      BY <1>9
      DEF RetryRestart, Goto, RetryDue, Held, ReceiptMatches, TypeOK, WorkerState,
          WorkerPcs
    <2>3. wait' \in {"none", "grace", "minute"}
      BY <1>9 DEF RetryRestart, Goto, RetryDue, Held, ReceiptMatches, TypeOK
    <2>4. QED
      BY <1>9, <2>1, <2>2, <2>3, Zenon DEF TypeOK, RetryRestart
  <1>10. CASE RetrySchedule
    <2>1. w' \in WorkerState
      BY <1>10 DEF RetrySchedule, Goto, Fault, TypeOK, WorkerState, WorkerPcs
    <2>2. host' \in HostState
      <3>1. 0 \in Nat /\ host.armed + 1 \in Nat
        BY <1>10 DEF TypeOK, HostState
      <3>2. QED
        BY <3>1, <1>10, HostTypes, Zenon DEF RetrySchedule
    <2>3. wait' \in {"none", "grace", "minute"}
      BY <1>10 DEF RetrySchedule, Goto, Fault, TypeOK
    <2>4. faults' \in 0 .. MaxFaults
      BY <1>10, ApplianceUpdateConstants DEF RetrySchedule, Goto, Fault, TypeOK
    <2>5. QED
      BY <1>10, <2>1, <2>2, <2>3, <2>4, Zenon DEF TypeOK, RetrySchedule
  <1>11. CASE Claim
    <2>1. job' \in JobRow
      BY <1>11 DEF Claim, Goto, Admits, TypeOK, JobRow, Terminal
    <2>2. w' \in WorkerState
      BY <1>11 DEF Claim, Goto, Admits, TypeOK, WorkerState, WorkerPcs
    <2>3. QED
      BY <1>11, <2>1, <2>2, Zenon DEF TypeOK, Claim
  <1>12. CASE Begin
    <2>1. surf' \in Surface
      BY <1>12, PublishTypes, Zenon DEF Begin
    <2>2. w' \in WorkerState
      <3>1. "stream" \in WorkerPcs /\ 1 \in 1 .. 4
        BY DEF WorkerPcs
      <3>2. PICK ok \in BOOLEAN :
               w' = [w EXCEPT !.pc = "stream", !.pos = 1, !.failed = ~ok, !.unproved = ~ok]
        BY <1>12, Zenon DEF Begin
      <3>3. (~ok) \in BOOLEAN
        BY Zenon
      <3>4. QED
        BY <3>1, <3>2, <3>3, LocalTypes, Zenon
    <2>3. faults' \in 0 .. MaxFaults
      BY <1>12, PublishTypes, Zenon DEF Begin
    <2>4. QED
      BY <1>12, <2>1, <2>2, <2>3, Zenon DEF TypeOK, Begin
  <1>13. CASE TakeStream
    <2>1. step' \in [Streams -> StepRow]
      BY ZenonT(60), <1>13 DEF TakeStream, Goto, Legacy, TypeOK, StepRow, Over
    <2>2. w' \in WorkerState
      <3>1. CASE w' = [w EXCEPT !.pos = @ + 1, !.failed = @ \/ step[Stream].status # "succeeded"]
        <4>1. w.pos \in 1 .. 4 /\ w.pos <= Len(order)
          BY <1>13 DEF TypeOK, WorkerState, TakeStream
        <4>2. w.pos + 1 \in 1 .. 4 /\ "report" \in WorkerPcs
          BY <4>1, OrderFacts DEF WorkerPcs
        <4>3. (w.failed \/ step[Stream].status # "succeeded") \in BOOLEAN
          BY Zenon
        <4>4. QED
          BY <3>1, <4>2, <4>3, LocalTypes, Zenon
      <3>2. CASE w' = [w EXCEPT !.pc = "report"] \/ Goto("announce")
        BY <3>2 DEF Goto, TypeOK, WorkerState, WorkerPcs
      <3>3. QED
        BY <3>1, <3>2, <1>13 DEF TakeStream
    <2>3. QED
      BY <1>13, <2>1, <2>2, Zenon DEF TypeOK, TakeStream
  <1>14. CASE Announce
    <2>1. surf' \in Surface
      BY <1>14, PublishTypes, Zenon DEF Announce
    <2>2. w' \in WorkerState
      BY ZenonT(60), <1>14
      DEF Announce, Publish, Noted, Fault, Announced, TypeOK, WorkerState, WorkerPcs
    <2>3. faults' \in 0 .. MaxFaults
      BY <1>14, PublishTypes, Zenon DEF Announce
    <2>4. QED
      BY <1>14, <2>1, <2>2, <2>3, Zenon DEF TypeOK, Announce
  <1>15. CASE CheckPhase
    <2>1. step' \in [Streams -> StepRow]
      BY ZenonT(60), <1>15 DEF CheckPhase, Goto, Fault, TypeOK, StepRow, Over
    <2>2. w' \in WorkerState
      BY <1>15 DEF CheckPhase, Goto, Fault, TypeOK, WorkerState, WorkerPcs
    <2>3. faults' \in 0 .. MaxFaults
      BY <1>15, ApplianceUpdateConstants DEF CheckPhase, Goto, Fault, TypeOK
    <2>4. QED
      BY <1>15, <2>1, <2>2, <2>3, Zenon DEF TypeOK, CheckPhase
  <1>16. CASE ApplyPhase
    <2>1. w' \in WorkerState
      BY <1>16 DEF ApplyPhase, Goto, TypeOK, WorkerState, WorkerPcs
    <2>2. helper' \in Streams \cup {"none"}
      <3>1. w.pos \in 1 .. 4 /\ w.pos <= Len(order)
        BY <1>16 DEF TypeOK, WorkerState, ApplyPhase, TakenChild, Taken, Begun
      <3>2. Stream \in Streams
        BY <3>1, OrderFacts DEF Stream
      <3>3. QED
        BY <3>2, <1>16 DEF ApplyPhase
    <2>3. host' \in HostState
      BY <1>16 DEF ApplyPhase, Goto, TypeOK, HostState
    <2>4. QED
      BY <1>16, <2>1, <2>2, <2>3, Zenon DEF TypeOK, ApplyPhase
  <1>17. CASE ApplyReturns
    <2>1. w' \in WorkerState
      BY <1>17 DEF ApplyReturns, TypeOK, WorkerState, WorkerPcs
    <2>2. helper' \in Streams \cup {"none"}
      BY <1>17 DEF ApplyReturns, TypeOK, Streams
    <2>3. QED
      BY <1>17, <2>1, <2>2, Zenon DEF TypeOK, ApplyReturns
  <1>18. CASE RecordStep
    <2>1. step' \in [Streams -> StepRow]
      BY <1>18 DEF RecordStep, TypeOK, StepRow, Over
    <2>2. w' \in WorkerState
      <3>1. "report" \in WorkerPcs
        BY DEF WorkerPcs
      <3>2. (w.failed \/ ~w.ok) \in BOOLEAN
        BY Zenon
      <3>3. 1 \in 1 .. 4
        OBVIOUS
      <3>4. QED
        BY <3>1, <3>2, <3>3, <1>18, LocalTypes, Zenon DEF RecordStep
    <2>3. QED
      BY <1>18, <2>1, <2>2, Zenon DEF TypeOK, RecordStep
  <1>18a. CASE ApplyRaises
    <2>1. step' \in [Streams -> StepRow]
      BY <1>18a DEF ApplyRaises, TypeOK, StepRow, Over
    <2>2. w' \in WorkerState
      BY <1>18a DEF ApplyRaises, TypeOK, WorkerState, WorkerPcs
    <2>3. faults' \in 0 .. MaxFaults
      BY <1>18a, ApplianceUpdateConstants DEF ApplyRaises, Fault, TypeOK
    <2>4. QED
      BY <1>18a, <2>1, <2>2, <2>3, Zenon DEF TypeOK, ApplyRaises
  <1>19. CASE ReportStep
    <2>1. surf' \in Surface
      BY <1>19, PublishTypes, Zenon DEF ReportStep
    <2>2. w' \in WorkerState
      <3>1. w.pos + 1 \in 1 .. 4
        <4>1. w.pos \in 1 .. 4 /\ w.pos <= Len(order)
          BY <1>19 DEF TypeOK, WorkerState, ReportStep, TakenChild, Taken
        <4>2. QED
          BY <4>1, OrderFacts
      <3>2. "stream" \in WorkerPcs
        BY DEF WorkerPcs
      <3>3. PICK ok \in BOOLEAN :
               w' = [w EXCEPT !.pc = "stream", !.pos = w.pos + 1, !.failed = w.failed \/ ~ok,
                              !.unproved = w.unproved \/ ~ok]
        BY <1>19, Zenon DEF ReportStep
      <3>4. (w.failed \/ ~ok) \in BOOLEAN /\ (w.unproved \/ ~ok) \in BOOLEAN
        BY Zenon
      <3>5. QED
        BY <3>1, <3>2, <3>3, <3>4, LocalTypes, Zenon
    <2>3. faults' \in 0 .. MaxFaults
      BY <1>19, PublishTypes, Zenon DEF ReportStep
    <2>4. QED
      BY <1>19, <2>1, <2>2, <2>3, Zenon DEF TypeOK, ReportStep
  <1>20. CASE CompleteRun
    <2>1. job' \in JobRow
      <3>1. AllSucceeded(step) \in BOOLEAN /\ NeedsRestart(step) \in BOOLEAN
        BY Zenon DEF AllSucceeded, NeedsRestart
      <3>2. QED
        BY <3>1, <1>20, CompleteTypes, Zenon DEF CompleteRun
    <2>2. w' \in WorkerState
      <3>1. AllSucceeded(step) \in BOOLEAN /\ NeedsRestart(step) \in BOOLEAN
        BY Zenon DEF AllSucceeded, NeedsRestart
      <3>2. QED
        BY <3>1, <1>20, CompleteTypes, Zenon DEF CompleteRun
    <2>3. wait' \in {"none", "grace", "minute"}
      <3>1. AllSucceeded(step) \in BOOLEAN /\ NeedsRestart(step) \in BOOLEAN
        BY Zenon DEF AllSucceeded, NeedsRestart
      <3>2. QED
        BY <3>1, <1>20, CompleteTypes, Zenon DEF CompleteRun
    <2>4. QED
      BY <1>20, <2>1, <2>2, <2>3, Zenon DEF TypeOK, CompleteRun
  <1>21. CASE Raise
    <2>1. w' \in WorkerState
      BY <1>21 DEF Raise, Goto, Fault, TypeOK, WorkerState, WorkerPcs
    <2>2. faults' \in 0 .. MaxFaults
      BY <1>21, ApplianceUpdateConstants DEF Raise, Goto, Fault, TypeOK
    <2>3. QED
      BY <1>21, <2>1, <2>2, Zenon DEF TypeOK, Raise
  <1>22. CASE HandleRaise
    <2>1. job' \in JobRow
      BY <1>22, FailTypes, Zenon DEF HandleRaise
    <2>2. step' \in [Streams -> StepRow]
      BY <1>22, FailTypes, Zenon DEF HandleRaise
    <2>3. w' \in WorkerState
      BY <1>22
      DEF HandleRaise, Goto, FailJob, EndedSteps, RestartOwed, TypeOK, WorkerState,
          WorkerPcs
    <2>4. QED
      BY <1>22, <2>1, <2>2, <2>3, Zenon DEF TypeOK, HandleRaise
  <1>23. CASE DispatchRestart
    <2>1. w' \in WorkerState
      BY <1>23 DEF DispatchRestart, Goto, TypeOK, WorkerState, WorkerPcs
    <2>2. wait' \in {"none", "grace", "minute"}
      BY <1>23 DEF DispatchRestart, Goto, TypeOK
    <2>3. QED
      BY <1>23, <2>1, <2>2, Zenon DEF TypeOK, DispatchRestart
  <1>24. CASE ScheduleRestart
    <2>1. job' \in JobRow
      BY <1>24 DEF ScheduleRestart, Goto, Fault, TypeOK, JobRow, Terminal
    <2>2. w' \in WorkerState
      BY <1>24 DEF ScheduleRestart, Goto, Fault, TypeOK, WorkerState, WorkerPcs
    <2>3. host' \in HostState
      <3>1. 0 \in Nat /\ host.armed + 1 \in Nat
        BY <1>24 DEF TypeOK, HostState
      <3>2. QED
        BY <3>1, <1>24, HostTypes, Zenon DEF ScheduleRestart
    <2>4. wait' \in {"none", "grace", "minute"}
      BY <1>24 DEF ScheduleRestart, Goto, Fault, TypeOK
    <2>5. faults' \in 0 .. MaxFaults
      BY <1>24, ApplianceUpdateConstants DEF ScheduleRestart, Goto, Fault, TypeOK
    <2>6. QED
      BY <1>24, <2>1, <2>2, <2>3, <2>4, <2>5, Zenon DEF TypeOK, ScheduleRestart
  <1>25. CASE SettleSurface
    <2>1. job' \in JobRow
      BY <1>25, FailTypes, Zenon DEF SettleSurface, TypeOK
    <2>2. step' \in [Streams -> StepRow]
      BY <1>25, FailTypes, Zenon DEF SettleSurface, TypeOK
    <2>3. w' \in WorkerState
      BY <1>25
      DEF SettleSurface, Goto, FailJob, EndedSteps, RestartOwed, TypeOK, WorkerState,
          WorkerPcs
    <2>4. QED
      BY <1>25, <2>1, <2>2, <2>3, Zenon DEF TypeOK, SettleSurface
  <1>26. CASE FinishBegin
    <2>1. surf' \in Surface
      BY <1>26 DEF FinishBegin, Goto, MayFinish, ReleaseSettled, TypeOK, Surface
    <2>2. w' \in WorkerState
      BY <1>26
      DEF FinishBegin, Goto, MayFinish, ReleaseSettled, TypeOK, WorkerState, WorkerPcs
    <2>3. QED
      BY <1>26, <2>1, <2>2, Zenon DEF TypeOK, FinishBegin
  <1>27. CASE FinishEnd
    <2>1. surf' \in Surface
      BY <1>27 DEF FinishEnd, Goto, TypeOK, Surface
    <2>2. w' \in WorkerState
      BY <1>27 DEF FinishEnd, Goto, TypeOK, WorkerState, WorkerPcs
    <2>3. QED
      BY <1>27, <2>1, <2>2, Zenon DEF TypeOK, FinishEnd
  <1>28. CASE FinishFails
    <2>1. job' \in JobRow
      BY <1>28, FailTypes, Zenon DEF FinishFails, TypeOK
    <2>2. step' \in [Streams -> StepRow]
      BY <1>28, FailTypes, Zenon DEF FinishFails, TypeOK
    <2>3. surf' \in Surface
      BY <1>28
      DEF FinishFails, Goto, Fault, FailJob, EndedSteps, RestartOwed, MayFinish, TypeOK,
          Surface
    <2>4. w' \in WorkerState
      BY <1>28
      DEF FinishFails, Goto, Fault, FailJob, EndedSteps, RestartOwed, MayFinish, TypeOK,
          WorkerState, WorkerPcs
    <2>5. faults' \in 0 .. MaxFaults
      BY <1>28, ApplianceUpdateConstants
      DEF FinishFails, Goto, Fault, FailJob, EndedSteps, RestartOwed, MayFinish, TypeOK
    <2>6. QED
      BY <1>28, <2>1, <2>2, <2>3, <2>4, <2>5, Zenon DEF TypeOK, FinishFails
  <1>29. CASE ReleaseEndsEarly
    <2>1. w' \in WorkerState
      BY <1>29 DEF ReleaseEndsEarly, TypeOK, WorkerState, WorkerPcs
    <2>2. helper' \in Streams \cup {"none"}
      BY <1>29 DEF ReleaseEndsEarly, TypeOK, Streams
    <2>3. finalizer' \in Finalizers
      BY <1>29 DEF ReleaseEndsEarly, TypeOK, Finalizers
    <2>4. QED
      BY <1>29, <2>1, <2>2, <2>3, Zenon DEF TypeOK, ReleaseEndsEarly
  <1>30. CASE ReleaseBegins
    <2>1. finalizer' \in Finalizers
      BY <1>30 DEF ReleaseBegins, TypeOK, Finalizers
    <2>2. QED
      BY <1>30, <2>1, Zenon DEF TypeOK, ReleaseBegins
  <1>31. CASE ReleaseRestartsWorker
    <2>1. w' \in WorkerState
      BY <1>31 DEF ReleaseRestartsWorker, Idle, TypeOK, WorkerState, WorkerPcs
    <2>2. QED
      BY <1>31, <2>1, Zenon DEF TypeOK, ReleaseRestartsWorker
  <1>32. CASE ReleaseCommits
    <2>1. helper' \in Streams \cup {"none"}
      BY <1>32 DEF ReleaseCommits, TypeOK, Streams
    <2>2. finalizer' \in Finalizers
      BY <1>32 DEF ReleaseCommits, TypeOK, Finalizers
    <2>3. host' \in HostState
      BY <1>32 DEF ReleaseCommits, TypeOK, HostState
    <2>4. QED
      BY <1>32, <2>1, <2>2, <2>3, Zenon DEF TypeOK, ReleaseCommits
  <1>33. CASE ReleaseRollsBack
    <2>1. w' \in WorkerState
      BY <1>33 DEF ReleaseRollsBack, TypeOK, WorkerState, WorkerPcs
    <2>2. helper' \in Streams \cup {"none"}
      BY <1>33 DEF ReleaseRollsBack, TypeOK, Streams
    <2>3. finalizer' \in Finalizers
      BY <1>33 DEF ReleaseRollsBack, TypeOK, Finalizers
    <2>4. QED
      BY <1>33, <2>1, <2>2, <2>3, Zenon DEF TypeOK, ReleaseRollsBack
  <1>34. CASE RestartFires
    <2>1. w' \in WorkerState
      BY <1>34 DEF RestartFires, Idle, TypeOK, WorkerState, WorkerPcs
    <2>2. host' \in HostState
      <3>1. 0 \in Nat /\ host.armed - 1 \in Nat /\ host.proving + 1 \in Nat
        BY <1>34 DEF TypeOK, HostState, RestartFires
      <3>2. QED
        BY <3>1, <1>34, HostTypes, Zenon DEF RestartFires
    <2>3. QED
      BY <1>34, <2>1, <2>2, Zenon DEF TypeOK, RestartFires
  <1>35. CASE RestartProves
    <2>1. host' \in HostState
      <3>1. 0 \in Nat /\ host.proving - 1 \in Nat /\ epoch \in Nat
        BY <1>35 DEF TypeOK, HostState, RestartProves
      <3>2. QED
        BY <3>1, <1>35, HostTypes, Zenon DEF RestartProves
    <2>2. QED
      BY <1>35, <2>1, Zenon DEF TypeOK, RestartProves
  <1>36. CASE RestartUnproved
    <2>1. host' \in HostState
      BY <1>36 DEF RestartUnproved, Fault, TypeOK, HostState
    <2>2. faults' \in 0 .. MaxFaults
      BY <1>36, ApplianceUpdateConstants DEF RestartUnproved, Fault, TypeOK
    <2>3. QED
      BY <1>36, <2>1, <2>2, Zenon DEF TypeOK, RestartUnproved
  <1>37. CASE WaitElapses
    <2>1. wait' \in {"none", "grace", "minute"}
      BY <1>37 DEF WaitElapses, TypeOK
    <2>2. QED
      BY <1>37, <2>1, Zenon DEF TypeOK, WaitElapses
  <1>38. CASE CancelPending
    <2>1. job' \in JobRow
      BY <1>38 DEF CancelPending, EndedSteps, TypeOK, JobRow, Terminal
    <2>2. step' \in [Streams -> StepRow]
      BY <1>38, ChildTypes DEF CancelPending, TypeOK
    <2>3. QED
      BY <1>38, <2>1, <2>2, Zenon DEF TypeOK, CancelPending
  <1>39. CASE EvidenceBreaks
    <2>1. finalizer' \in Finalizers
      BY <1>39 DEF EvidenceBreaks, Fault, TypeOK, Finalizers
    <2>2. faults' \in 0 .. MaxFaults
      BY <1>39, ApplianceUpdateConstants DEF EvidenceBreaks, Fault, TypeOK
    <2>3. QED
      BY <1>39, <2>1, <2>2, Zenon DEF TypeOK, EvidenceBreaks
  <1>40. CASE HelperExits
    <2>1. helper' \in Streams \cup {"none"}
      BY <1>40 DEF HelperExits, TypeOK, Streams
    <2>2. QED
      BY <1>40, <2>1, Zenon DEF TypeOK, HelperExits
  <1>41. CASE Crash
    <2>1. w' \in WorkerState
      BY <1>41 DEF Crash, Idle, Fault, TypeOK, WorkerState, WorkerPcs
    <2>2. faults' \in 0 .. MaxFaults
      BY <1>41, ApplianceUpdateConstants DEF Crash, Idle, Fault, TypeOK
    <2>3. QED
      BY <1>41, <2>1, <2>2, Zenon DEF TypeOK, Crash
  <1>42. CASE Reboot
    <2>1. surf' \in Surface
      BY <1>42 DEF Reboot, Idle, Fault, GuardedMarker, TypeOK, Surface
    <2>2. w' \in WorkerState
      BY <1>42 DEF Reboot, Idle, Fault, GuardedMarker, TypeOK, WorkerState, WorkerPcs
    <2>3. helper' \in Streams \cup {"none"}
      BY <1>42 DEF Reboot, Idle, Fault, GuardedMarker, TypeOK, Streams
    <2>4. host' \in HostState
      BY <1>42 DEF Reboot, Idle, Fault, GuardedMarker, TypeOK, HostState
    <2>5. faults' \in 0 .. MaxFaults
      BY <1>42, ApplianceUpdateConstants DEF Reboot, Idle, Fault, GuardedMarker, TypeOK
    <2>6. QED
      BY <1>42, <2>1, <2>2, <2>3, <2>4, <2>5, Zenon DEF TypeOK, Reboot
  <1>43. CASE UNCHANGED vars
    BY <1>43, Zenon DEF TypeOK, vars
  <1>44. QED
    BY <1>1, <1>2, <1>3, <1>4, <1>5, <1>6, <1>7, <1>8, <1>9, <1>10, <1>11, <1>12, <1>13,
       <1>14, <1>15, <1>16, <1>17, <1>18, <1>18a, <1>19, <1>20, <1>21, <1>22, <1>23, <1>24,
       <1>25, <1>26, <1>27, <1>28, <1>29, <1>30, <1>31, <1>32, <1>33, <1>34, <1>35,
       <1>36, <1>37, <1>38, <1>39, <1>40, <1>41, <1>42, <1>43
    DEF Next, Worker, Release, Restart

-----------------------------------------------------------------------------
(* The rows.                                                               *)

(* Rows do not depend on the rest of the state.                            *)
LEMMA RowsFrame ==
  ASSUME Rows, UNCHANGED <<order, step, finalizer>>, job'.legacy = job.legacy,
         job'.status \in {"pending", "cancelled"} => job.status \in {"pending", "cancelled"}
  PROVE  Rows'
  <1>1. Selected' = Selected
    BY DEF Selected
  <1>2. Contract'
    BY DEF Rows, Contract, Current, Historical
  <1>3. ChildRows' /\ InOrder' /\ Evidence' /\ Waiting'
    BY <1>1 DEF Rows, ChildRows, InOrder, Evidence, Waiting
  <1>4. QED
    BY <1>2, <1>3 DEF Rows

(* Children only move on: what a step must respect to keep the rows.       *)
LEMMA RowsMove ==
  ASSUME TypeOK, TypeOK', Rows, order' = order, job'.legacy = job.legacy,
         \A s \in Streams :
            /\ (step'[s].status = "none") <=> (step[s].status = "none")
            /\ step'[s].applied => step'[s].status \in {"running", "succeeded", "failed"}
            /\ step[s].status \in Over => step'[s].status \in Over,
         \A i, k \in DOMAIN order : i < k =>
            /\ step[order[k]].status = "pending" /\ step'[order[k]].status # "pending" =>
                 step'[order[i]].status \in Over
            /\ ~job.legacy /\ step'[order[k]].applied => step'[order[i]].status = "succeeded",
         finalizer' # "none" => step'["release"].applied,
         job'.status \in {"pending", "cancelled"} =>
            \A s \in Streams : step'[s].status # "running"
  PROVE  Rows'
  <1>1. Selected' = Selected
    BY DEF Selected
  <1>2. Contract'
    BY DEF Rows, Contract, Current, Historical
  <1>3. ChildRows'
    BY <1>1 DEF Rows, ChildRows
  <1>4. \A i \in DOMAIN order : order[i] \in Streams
    BY OrderFacts
  <1>5. InOrder'
    BY <1>4 DEF Rows, InOrder
  <1>6. QED
    BY <1>2, <1>3, <1>5 DEF Rows, Evidence, Waiting

(* The child at the worker's position.                                     *)
LEMMA StreamFacts ==
  ASSUME TypeOK, w.pos <= Len(order)
  PROVE  /\ Stream \in Streams /\ Stream \in Selected /\ w.pos \in DOMAIN order
         /\ step[Stream] \in StepRow
         /\ \A i \in DOMAIN order : order[i] = Stream => i = w.pos
  <1>1. w.pos \in DOMAIN order
    BY OrderFacts DEF TypeOK, WorkerState
  <1>2. Stream \in Streams
    BY <1>1, OrderFacts DEF Stream
  <1>3. QED
    BY <1>1, <1>2, OrderFacts DEF Stream, Selected, TypeOK

(* The evidence speaks of a release that had begun, and of nothing else.   *)
LEMMA EvidenceFacts ==
  ASSUME TypeOK, Rows, NEW f, f = WithEvidence(step)
  PROVE  /\ f \in [Streams -> StepRow]
         /\ \A s \in Streams :
              /\ f[s].applied = step[s].applied /\ f[s].reported = step[s].reported
              /\ f[s].lost = step[s].lost
              /\ s # "release" \/ ~Definitive => f[s].status = step[s].status
              /\ f[s].status = "none" <=> step[s].status = "none"
              /\ f[s].status = "pending" <=> step[s].status = "pending"
              /\ step[s].status \in Over => f[s].status \in Over
              /\ f[s].applied => f[s].status \in {"running", "succeeded", "failed"}
         /\ Definitive => /\ "release" \in Selected /\ step["release"].applied
                          /\ f["release"].status = IF finalizer \in {"restarted", "nochange"}
                                                   THEN "succeeded" ELSE "failed"
         /\ \A i, k \in DOMAIN order : i < k /\ ~job.legacy =>
              f[order[i]].status = step[order[i]].status
  <1>1. f \in [Streams -> StepRow]
    BY ChildTypes DEF TypeOK
  <1>2. "release" \in Streams
    BY DEF Streams
  <1>3. Definitive => /\ step["release"].applied
                      /\ step["release"].status \in {"running", "succeeded", "failed"}
                      /\ "release" \in Selected
    BY <1>2 DEF Rows, Evidence, ChildRows, Definitive
  <1>4. Definitive => /\ f["release"].status = IF finalizer \in {"restarted", "nochange"}
                                               THEN "succeeded" ELSE "failed"
                     /\ f["release"].applied = step["release"].applied
                     /\ f["release"].reported = step["release"].reported
                     /\ f["release"].lost = step["release"].lost
    BY <1>2, <1>3 DEF WithEvidence, TypeOK, StepRow
  <1>5. \A s \in Streams : s # "release" \/ ~Definitive => f[s] = step[s]
    BY <1>2 DEF WithEvidence, TypeOK
  <1>6. \A s \in Streams :
              /\ f[s].applied = step[s].applied /\ f[s].reported = step[s].reported
              /\ f[s].lost = step[s].lost
              /\ s # "release" \/ ~Definitive => f[s].status = step[s].status
    BY <1>4, <1>5
  <1>7. \A s \in Streams :
              /\ f[s].status = "none" <=> step[s].status = "none"
              /\ f[s].status = "pending" <=> step[s].status = "pending"
              /\ step[s].status \in Over => f[s].status \in Over
              /\ f[s].applied => f[s].status \in {"running", "succeeded", "failed"}
    BY <1>3, <1>4, <1>6 DEF Rows, ChildRows, Over
  <1>8. \A i, k \in DOMAIN order : i < k /\ ~job.legacy =>
              f[order[i]].status = step[order[i]].status
    BY <1>6, OrderFacts, LastStream DEF Rows
  <1>9. QED
    BY <1>1, <1>3, <1>4, <1>6, <1>7, <1>8

(* What ending the children does to one of them.                           *)
LEMMA EndedChild ==
  ASSUME NEW f \in [Streams -> StepRow], NEW s \in Streams
  PROVE  /\ EndedSteps(f)[s].applied = f[s].applied
         /\ EndedSteps(f)[s].reported = f[s].reported
         /\ EndedSteps(f)[s].lost = f[s].lost
         /\ f[s].status \in Over => EndedSteps(f)[s].status = f[s].status
  <1>1. f[s] \in StepRow
    OBVIOUS
  <1>2. QED
    BY <1>1 DEF EndedSteps, StepRow, Over

(* _fail_job and finish_pending end every child that has not ended.        *)
LEMMA RowsEnded ==
  ASSUME TypeOK, TypeOK', Rows, order' = order, job'.legacy = job.legacy,
         finalizer' = finalizer, NEW f, f = step \/ f = WithEvidence(step),
         step' = EndedSteps(f)
  PROVE  /\ Rows'
         /\ \A s \in Streams : /\ step'[s].status \notin {"pending", "running"}
                               /\ step'[s].applied = step[s].applied
                               /\ step'[s].reported = step[s].reported
                               /\ step'[s].lost = step[s].lost
                               /\ f[s].status = "succeeded" => step'[s].status = "succeeded"
                               /\ f[s].status = "running" => step'[s].status = "failed"
                               /\ f[s].status \in Over => step'[s].status = f[s].status
         /\ \A s \in Selected : step'[s].status \in Over
  <1>1. /\ f \in [Streams -> StepRow]
        /\ \A s \in Streams :
              /\ f[s].applied = step[s].applied /\ f[s].reported = step[s].reported
              /\ f[s].lost = step[s].lost
              /\ f[s].status = "none" <=> step[s].status = "none"
              /\ step[s].status \in Over => f[s].status \in Over
              /\ f[s].applied => f[s].status \in {"running", "succeeded", "failed"}
        /\ \A i, k \in DOMAIN order : i < k /\ ~job.legacy =>
              f[order[i]].status = step[order[i]].status
    BY EvidenceFacts DEF TypeOK, Rows, ChildRows
  <1>2. ASSUME NEW s \in Streams
        PROVE  /\ step'[s].status = CASE f[s].status = "running" -> "failed"
                                       [] f[s].status = "pending" -> "skipped"
                                       [] OTHER -> f[s].status
               /\ step'[s].applied = f[s].applied /\ step'[s].reported = f[s].reported
               /\ step'[s].lost = f[s].lost
    <2>1. f[s] \in StepRow
      BY <1>1
    <2>2. QED
      BY <2>1 DEF EndedSteps, StepRow
  <1>3. \A s \in Streams : f[s].status \in {"none", "pending", "running"} \cup Over
    BY <1>1 DEF StepRow
  <1>4. \A s \in Streams :
            /\ (step'[s].status = "none") <=> (step[s].status = "none")
            /\ step'[s].applied => step'[s].status \in {"running", "succeeded", "failed"}
            /\ step[s].status \in Over => step'[s].status \in Over
            /\ step'[s].status \notin {"pending", "running"}
            /\ f[s].status = "succeeded" => step'[s].status = "succeeded"
            /\ f[s].status = "running" => step'[s].status = "failed"
            /\ f[s].status \in Over => step'[s].status = f[s].status
            /\ s \in Selected => step'[s].status \in Over
    BY <1>1, <1>2, <1>3 DEF Rows, ChildRows, Over
  <1>5. \A i \in DOMAIN order : order[i] \in Streams /\ order[i] \in Selected
    BY OrderFacts DEF Selected
  <1>6. \A i, k \in DOMAIN order : i < k =>
            /\ step'[order[i]].status \in Over
            /\ ~job.legacy /\ step'[order[k]].applied => step'[order[i]].status = "succeeded"
    BY <1>1, <1>2, <1>4, <1>5 DEF Rows, InOrder
  <1>7. finalizer' # "none" => step'["release"].applied
    BY <1>1, <1>2 DEF Rows, Evidence, Streams
  <1>8. Rows'
    BY <1>4, <1>6, <1>7, RowsMove
  <1>9. Selected \subseteq Streams
    BY <1>5 DEF Selected
  <1>10. QED
    BY <1>1, <1>2, <1>4, <1>8, <1>9

(* _fail_job keeps the rows.                                               *)
LEMMA RowsFail ==
  ASSUME TypeOK, TypeOK', Rows, order' = order, finalizer' = finalizer, NEW r, FailJob(r)
  PROVE  Rows'
  <1>1. job'.legacy = job.legacy
    BY DEF TypeOK, JobRow, FailJob
  <1>2. QED
    BY <1>1, RowsEnded DEF FailJob

(* The evidence of an ended release keeps the rows.                        *)
LEMMA RowsEvidence ==
  ASSUME TypeOK, TypeOK', Rows, order' = order, job'.legacy = job.legacy,
         finalizer' = finalizer, step' = WithEvidence(step),
         job'.status \in {"pending", "cancelled"} =>
            \A s \in Streams : step'[s].status # "running"
  PROVE  Rows'
  <1>1. \A s \in Streams :
              /\ step'[s].applied = step[s].applied
              /\ step'[s].status = "none" <=> step[s].status = "none"
              /\ step'[s].status = "pending" <=> step[s].status = "pending"
              /\ step[s].status \in Over => step'[s].status \in Over
              /\ step'[s].applied => step'[s].status \in {"running", "succeeded", "failed"}
    BY EvidenceFacts
  <1>2. \A i, k \in DOMAIN order : i < k /\ ~job.legacy =>
              step'[order[i]].status = step[order[i]].status
    BY EvidenceFacts
  <1>3. \A i \in DOMAIN order : order[i] \in Streams
    BY OrderFacts
  <1>4. \A i, k \in DOMAIN order : i < k =>
            /\ step[order[k]].status = "pending" => step'[order[k]].status = "pending"
            /\ ~job.legacy /\ step'[order[k]].applied => step'[order[i]].status = "succeeded"
    BY <1>1, <1>2, <1>3 DEF Rows, InOrder
  <1>5. finalizer' # "none" => step'["release"].applied
    BY <1>1 DEF Rows, Evidence, Streams
  <1>6. QED
    BY <1>1, <1>4, <1>5, RowsMove

(* The rows, one case per action.                                          *)
LEMMA RowsStep ==
  ASSUME TypeOK, TypeOK', Rows, Progress, [Next]_vars
  PROVE  Rows'
  <1> USE DEF Progress
  <1>1. CASE Start
    BY <1>1, RowsFrame DEF Start
  <1>2. CASE PassGate
    BY <1>2, RowsFrame DEF PassGate
  <1>3. CASE RecoverNothing
    BY <1>3, RowsFrame DEF RecoverNothing
  <1>4. CASE ResumeJob
    <2>1. job'.legacy = job.legacy /\ job'.status = "pending"
      BY <1>4 DEF ResumeJob, TypeOK, JobRow
    <2>2. step' = WithEvidence(step) /\ order' = order /\ finalizer' = finalizer
      BY <1>4 DEF ResumeJob
    <2>3. \A s \in Streams : step'[s].status # "running"
      BY <1>4, <2>2, EvidenceFacts, OrderFacts
      DEF ResumeJob, Resumable, Rows, ChildRows, Selected
    <2>4. QED
      BY <2>1, <2>2, <2>3, RowsEvidence
  <1>5. CASE QuiesceHelper
    <2>1. CASE UNCHANGED step
      BY <1>5, <2>1, RowsFrame DEF QuiesceHelper
    <2>2. CASE step' = WithEvidence(step)
      <3>1. job' = job /\ order' = order /\ finalizer' = finalizer
        BY <1>5 DEF QuiesceHelper
      <3>2. job.status \in {"pending", "cancelled"} => FALSE
        BY <1>5 DEF QuiesceHelper, Interrupted
      <3>3. QED
        BY <2>2, <3>1, <3>2, RowsEvidence
    <2>3. QED
      BY <1>5, <2>1, <2>2 DEF QuiesceHelper
  <1>6. CASE CompleteRecovered
    <2>1. job'.legacy = job.legacy
      BY <1>6 DEF CompleteRecovered, Complete, TypeOK, JobRow
    <2>2. QED
      BY <1>6, <2>1, RowsEnded DEF CompleteRecovered
  <1>7. CASE FailCancelled
    BY <1>7, RowsFail DEF FailCancelled
  <1>8. CASE RestoreUI
    BY <1>8, RowsFrame DEF RestoreUI
  <1>9. CASE RetryRestart
    <2>1. job'.legacy = job.legacy /\ job'.status \notin {"pending", "cancelled"}
      BY <1>9
      DEF RetryRestart, Goto, RetryDue, Held, ReceiptMatches, TypeOK, JobRow, Terminal,
          Places, Settling
    <2>2. QED
      BY <1>9, <2>1, RowsFrame DEF RetryRestart
  <1>10. CASE RetrySchedule
    BY <1>10, RowsFrame DEF RetrySchedule
  <1>11. CASE Claim
    <2>1. job'.legacy = job.legacy /\ job'.status \notin {"pending", "cancelled"}
      BY <1>11 DEF Claim, Goto, Admits, TypeOK, JobRow, Terminal, Places, Settling
    <2>2. QED
      BY <1>11, <2>1, RowsFrame DEF Claim
  <1>12. CASE Begin
    BY <1>12, RowsFrame DEF Begin
  <1>13. CASE TakeStream
    <2>1. job' = job /\ order' = order /\ finalizer' = finalizer /\ job.status = "running"
      BY <1>13 DEF TakeStream, Places, Working, Taken, Begun
    <2>2. w.pos <= Len(order)
      BY <1>13 DEF TakeStream, TakenChild, Taken, Begun
    <2>3. /\ Stream \in Streams /\ Stream \in Selected /\ w.pos \in DOMAIN order
          /\ step[Stream] \in StepRow /\ Stream = order[w.pos]
          /\ \A i \in DOMAIN order : order[i] \in Streams /\ (order[i] = Stream => i = w.pos)
          /\ \A i \in DOMAIN order : i \in Int
      BY <2>2, StreamFacts, OrderFacts DEF Stream
    <2>4. CASE UNCHANGED step
      BY <2>1, <2>4, RowsFrame
    <2>5. CASE step[Stream].status \notin Over /\ ~UNCHANGED step
      <3>1. step[Stream].status = "pending" /\ ~step[Stream].applied
        BY <1>13, <2>3, <2>5
        DEF TakeStream, TakenChild, Between, Rows, ChildRows, StepRow
      <3>2. /\ step'[Stream].status \in {"running", "skipped"} /\ ~step'[Stream].applied
            /\ \A s \in Streams : s # Stream => step'[s] = step[s]
        <4>1. \/ step' = [step EXCEPT ![Stream] = [@ EXCEPT !.status = "skipped", !.reported = TRUE]]
              \/ step' = [step EXCEPT ![Stream].status = "running"]
          BY <1>13, <2>5 DEF TakeStream
        <4>2. \A s \in Streams : s # Stream => step'[s] = step[s]
          BY <4>1 DEF TypeOK
        <4>3. \/ step'[Stream] = [step[Stream] EXCEPT !.status = "skipped", !.reported = TRUE]
              \/ step'[Stream] = [step[Stream] EXCEPT !.status = "running"]
          BY <4>1, <2>3 DEF TypeOK
        <4>4. QED
          BY <4>2, <4>3, <2>3, <3>1 DEF StepRow
      <3>3. \A i \in DOMAIN order : i < w.pos => step[order[i]].status \in Over
        BY <1>13 DEF TakeStream, Passed
      <3>4. \A s \in Streams :
               /\ (step'[s].status = "none") <=> (step[s].status = "none")
               /\ step'[s].applied => step'[s].status \in {"running", "succeeded", "failed"}
               /\ step[s].status \in Over => step'[s].status \in Over
        BY <2>5, <3>1, <3>2 DEF Rows, ChildRows
      <3>5. ASSUME NEW i \in DOMAIN order, NEW k \in DOMAIN order, i < k
            PROVE  /\ step[order[k]].status = "pending" /\ step'[order[k]].status # "pending" =>
                        step'[order[i]].status \in Over
                   /\ ~job.legacy /\ step'[order[k]].applied =>
                        step'[order[i]].status = "succeeded"
        BY <2>3, <3>1, <3>2, <3>3, <3>5 DEF Rows, InOrder
      <3>6. finalizer' # "none" => step'["release"].applied
        BY <2>1, <3>1, <3>2 DEF Rows, Evidence, Streams
      <3>7. QED
        BY <2>1, <3>4, <3>5, <3>6, RowsMove
    <2>6. QED
      BY <1>13, <2>4, <2>5 DEF TakeStream
  <1>14. CASE Announce
    BY <1>14, RowsFrame DEF Announce
  <1>15. CASE CheckPhase
    <2>1. job' = job /\ order' = order /\ finalizer' = finalizer /\ job.status = "running"
      BY <1>15 DEF CheckPhase, Places, Working, Taken, Begun
    <2>2. w.pos <= Len(order)
      BY <1>15 DEF CheckPhase, TakenChild, Taken, Begun
    <2>3. /\ Stream \in Streams /\ Stream \in Selected /\ w.pos \in DOMAIN order
          /\ step[Stream] \in StepRow /\ Stream = order[w.pos]
          /\ \A i \in DOMAIN order : order[i] \in Streams /\ (order[i] = Stream => i = w.pos)
          /\ \A i \in DOMAIN order : i \in Int
      BY <2>2, StreamFacts, OrderFacts DEF Stream
    <2>4. CASE UNCHANGED step
      BY <2>1, <2>4, RowsFrame
    <2>5. CASE step' = [step EXCEPT ![Stream].applied = TRUE]
      <3>1. step[Stream].status = "running" /\ (w.failed => job.legacy)
        BY <1>15 DEF CheckPhase, TakenChild, Begun
      <3>2. /\ step'[Stream].status = "running"
            /\ \A s \in Streams : s # Stream => step'[s] = step[s]
        BY <2>3, <2>5, <3>1 DEF TypeOK, StepRow
      <3>3. \A i \in DOMAIN order : i < w.pos =>
               step[order[i]].status = "succeeded" \/ w.failed
        BY <1>15 DEF CheckPhase, Passed, Taken, Begun
      <3>4. \A s \in Streams :
               /\ step'[s].status = step[s].status
               /\ step'[s].applied => step'[s].status \in {"running", "succeeded", "failed"}
        BY <3>1, <3>2 DEF Rows, ChildRows
      <3>5. ASSUME NEW i \in DOMAIN order, NEW k \in DOMAIN order, i < k
            PROVE  ~job.legacy /\ step'[order[k]].applied => step'[order[i]].status = "succeeded"
        BY <2>3, <3>1, <3>2, <3>3, <3>4, <3>5 DEF Rows, InOrder
      <3>6. finalizer' # "none" => step'["release"].applied
        BY <2>1, <2>3, <2>5, <3>2 DEF Rows, Evidence, Streams, TypeOK, StepRow
      <3>7. QED
        BY <2>1, <2>3, <3>4, <3>5, <3>6, RowsMove
    <2>6. QED
      BY <1>15, <2>4, <2>5 DEF CheckPhase
  <1>16. CASE ApplyPhase
    BY <1>16, RowsFrame DEF ApplyPhase
  <1>17. CASE ApplyReturns
    BY <1>17, RowsFrame DEF ApplyReturns
  <1>18. CASE RecordStep
    <2>1. job' = job /\ order' = order /\ finalizer' = finalizer /\ job.status = "running"
      BY <1>18 DEF RecordStep, Places, Working, Taken, Begun
    <2>2. w.pos <= Len(order)
      BY <1>18 DEF RecordStep, TakenChild, Taken, Begun
    <2>3. /\ Stream \in Streams /\ Stream \in Selected /\ w.pos \in DOMAIN order
          /\ step[Stream] \in StepRow /\ Stream = order[w.pos]
          /\ \A i \in DOMAIN order : order[i] \in Streams /\ (order[i] = Stream => i = w.pos)
          /\ \A i \in DOMAIN order : i \in Int
      BY <2>2, StreamFacts, OrderFacts DEF Stream
    <2>4. step[Stream].status = "running"
      BY <1>18 DEF RecordStep, TakenChild, Begun
    <2>5. /\ step'[Stream].status \in {"succeeded", "failed"}
          /\ step'[Stream].applied = step[Stream].applied
          /\ \A s \in Streams : s # Stream => step'[s] = step[s]
      BY <1>18, <2>3 DEF RecordStep, TypeOK, StepRow
    <2>6. \A s \in Streams :
             /\ (step'[s].status = "none") <=> (step[s].status = "none")
             /\ step'[s].applied => step'[s].status \in {"running", "succeeded", "failed"}
             /\ step[s].status \in Over => step'[s].status \in Over
      BY <2>4, <2>5 DEF Rows, ChildRows, Over
    <2>7. ASSUME NEW i \in DOMAIN order, NEW k \in DOMAIN order, i < k
          PROVE  /\ step[order[k]].status = "pending" => step'[order[k]].status = "pending"
                 /\ ~job.legacy /\ step'[order[k]].applied => step'[order[i]].status = "succeeded"
      <3>1. order[i] # Stream \/ ~step[order[k]].applied
        BY <2>3, <2>4, <2>7 DEF Rows, InOrder, ChildRows, Over
      <3>2. step'[order[k]].applied = step[order[k]].applied
        BY <2>3, <2>5
      <3>3. QED
        BY <2>3, <2>4, <2>5, <2>7, <3>1, <3>2 DEF Rows, InOrder
    <2>8. finalizer' # "none" => step'["release"].applied
      BY <2>1, <2>3, <2>5 DEF Rows, Evidence, Streams
    <2>9. QED
      BY <2>1, <2>6, <2>7, <2>8, RowsMove
  <1>18a. CASE ApplyRaises
    <2>1. job' = job /\ order' = order /\ finalizer' = finalizer /\ job.status = "running"
      BY <1>18a DEF ApplyRaises, Places, Working, Taken, Begun
    <2>2. w.pos <= Len(order)
      BY <1>18a DEF ApplyRaises, TakenChild, Taken, Begun
    <2>3. /\ Stream \in Streams /\ Stream \in Selected /\ w.pos \in DOMAIN order
          /\ step[Stream] \in StepRow /\ Stream = order[w.pos]
          /\ \A i \in DOMAIN order : order[i] \in Streams /\ (order[i] = Stream => i = w.pos)
          /\ \A i \in DOMAIN order : i \in Int
      BY <2>2, StreamFacts, OrderFacts DEF Stream
    <2>4. step[Stream].status = "running"
      BY <1>18a DEF ApplyRaises, TakenChild, Begun
    <2>5. /\ step'[Stream].status \in {"succeeded", "failed"}
          /\ step'[Stream].applied = step[Stream].applied
          /\ \A s \in Streams : s # Stream => step'[s] = step[s]
      BY <1>18a, <2>3 DEF ApplyRaises, TypeOK, StepRow
    <2>6. \A s \in Streams :
             /\ (step'[s].status = "none") <=> (step[s].status = "none")
             /\ step'[s].applied => step'[s].status \in {"running", "succeeded", "failed"}
             /\ step[s].status \in Over => step'[s].status \in Over
      BY <2>4, <2>5 DEF Rows, ChildRows, Over
    <2>7. ASSUME NEW i \in DOMAIN order, NEW k \in DOMAIN order, i < k
          PROVE  /\ step[order[k]].status = "pending" => step'[order[k]].status = "pending"
                 /\ ~job.legacy /\ step'[order[k]].applied => step'[order[i]].status = "succeeded"
      <3>1. order[i] # Stream \/ ~step[order[k]].applied
        BY <2>3, <2>4, <2>7 DEF Rows, InOrder, ChildRows, Over
      <3>2. step'[order[k]].applied = step[order[k]].applied
        BY <2>3, <2>5
      <3>3. QED
        BY <2>3, <2>4, <2>5, <2>7, <3>1, <3>2 DEF Rows, InOrder
    <2>8. finalizer' # "none" => step'["release"].applied
      BY <2>1, <2>3, <2>5 DEF Rows, Evidence, Streams
    <2>9. QED
      BY <2>1, <2>6, <2>7, <2>8, RowsMove
  <1>19. CASE ReportStep
    BY <1>19, RowsFrame DEF ReportStep
  <1>20. CASE CompleteRun
    <2>1. job'.legacy = job.legacy /\ job'.status \notin {"pending", "cancelled"}
      BY <1>20 DEF CompleteRun, Complete, TypeOK, JobRow, Terminal, Places, Settling
    <2>2. QED
      BY <1>20, <2>1, RowsFrame DEF CompleteRun
  <1>21. CASE Raise
    BY <1>21, RowsFrame DEF Raise
  <1>22. CASE HandleRaise
    BY <1>22, RowsFail DEF HandleRaise
  <1>23. CASE DispatchRestart
    BY <1>23, RowsFrame DEF DispatchRestart
  <1>24. CASE ScheduleRestart
    <2>1. job'.legacy = job.legacy /\ job'.status \notin {"pending", "cancelled"}
      BY <1>24
      DEF ScheduleRestart, Goto, Fault, TypeOK, JobRow, Terminal, Places, Settling
    <2>2. QED
      BY <1>24, <2>1, RowsFrame DEF ScheduleRestart
  <1>25. CASE SettleSurface
    BY <1>25, RowsFail, RowsFrame DEF SettleSurface
  <1>26. CASE FinishBegin
    BY <1>26, RowsFrame DEF FinishBegin
  <1>27. CASE FinishEnd
    BY <1>27, RowsFrame DEF FinishEnd
  <1>28. CASE FinishFails
    BY <1>28, RowsFail, RowsFrame DEF FinishFails
  <1>29. CASE ReleaseEndsEarly
    <2>1. step["release"].applied
      BY <1>29 DEF ReleaseEndsEarly, Rows, Evidence, HelperAtWork, TypeOK, Streams
    <2>2. QED
      BY <1>29, <2>1, OrderFacts, RowsMove
      DEF ReleaseEndsEarly, Rows, ChildRows, InOrder, Waiting
  <1>30. CASE ReleaseBegins
    <2>1. step["release"].applied
      BY <1>30 DEF ReleaseBegins, Rows, Evidence, HelperAtWork, TypeOK, Streams
    <2>2. QED
      BY <1>30, <2>1, OrderFacts, RowsMove
      DEF ReleaseBegins, Rows, ChildRows, InOrder, Waiting
  <1>31. CASE ReleaseRestartsWorker
    BY <1>31, RowsFrame DEF ReleaseRestartsWorker
  <1>32. CASE ReleaseCommits
    <2>1. step["release"].applied
      BY <1>32 DEF ReleaseCommits, Rows, Evidence, HelperAtWork, TypeOK, Streams
    <2>2. QED
      BY <1>32, <2>1, OrderFacts, RowsMove
      DEF ReleaseCommits, Rows, ChildRows, InOrder, Waiting
  <1>33. CASE ReleaseRollsBack
    <2>1. step["release"].applied
      BY <1>33 DEF ReleaseRollsBack, Rows, Evidence, HelperAtWork, TypeOK, Streams
    <2>2. QED
      BY <1>33, <2>1, OrderFacts, RowsMove
      DEF ReleaseRollsBack, Rows, ChildRows, InOrder, Waiting
  <1>34. CASE RestartFires
    BY <1>34, RowsFrame DEF RestartFires
  <1>35. CASE RestartProves
    BY <1>35, RowsFrame DEF RestartProves
  <1>36. CASE RestartUnproved
    BY <1>36, RowsFrame DEF RestartUnproved
  <1>37. CASE WaitElapses
    BY <1>37, RowsFrame DEF WaitElapses
  <1>38. CASE CancelPending
    <2>1. job'.legacy = job.legacy
      BY <1>38 DEF CancelPending, TypeOK, JobRow
    <2>2. QED
      BY <1>38, <2>1, RowsEnded DEF CancelPending
  <1>39. CASE EvidenceBreaks
    <2>1. step["release"].applied
      BY <1>39 DEF EvidenceBreaks, Rows, Evidence, HelperAtWork, TypeOK, Streams
    <2>2. QED
      BY <1>39, <2>1, OrderFacts, RowsMove
      DEF EvidenceBreaks, Rows, ChildRows, InOrder, Waiting
  <1>40. CASE HelperExits
    BY <1>40, RowsFrame DEF HelperExits
  <1>41. CASE Crash
    BY <1>41, RowsFrame DEF Crash
  <1>42. CASE Reboot
    BY <1>42, RowsFrame DEF Reboot
  <1>43. CASE UNCHANGED vars
    BY <1>43, RowsFrame DEF vars
  <1>44. QED
    BY <1>1, <1>2, <1>3, <1>4, <1>5, <1>6, <1>7, <1>8, <1>9, <1>10, <1>11, <1>12, <1>13,
       <1>14, <1>15, <1>16, <1>17, <1>18, <1>18a, <1>19, <1>20, <1>21, <1>22, <1>23, <1>24,
       <1>25, <1>26, <1>27, <1>28, <1>29, <1>30, <1>31, <1>32, <1>33, <1>34, <1>35,
       <1>36, <1>37, <1>38, <1>39, <1>40, <1>41, <1>42, <1>43
    DEF Next, Worker, Release, Restart

-----------------------------------------------------------------------------
(* The worker's place.                                                     *)

(* A worker that has taken no child has nothing to keep.                   *)
LEMMA AtRest ==
  ASSUME w'.pc \in {"down", "gate", "recover", "loop"}, w'.pc # "down" => epoch' > 0
  PROVE  Places' /\ TakenChild' /\ Passed' /\ HoldProved'
  BY DEF Places, TakenChild, Passed, HoldProved, Taken, Begun, Between, Working,
         Settling

(* What the host does beside the worker leaves its place alone.            *)
LEMMA Beside ==
  ASSUME Progress, UNCHANGED <<order, job, step, w, finalizer, epoch, surf>>
  PROVE  Places' /\ TakenChild' /\ Passed' /\ HoldProved'
  BY DEF Progress, Places, TakenChild, Passed, HoldProved, Taken, Begun, Between,
         Working, Settling, Stream, Terminal

(* Nothing is at work once the children whose units could live are quiet.  *)
LEMMA QuietHelper ==
  ASSUME TypeOK, Rows, HelperAtWork, Quiesced(WithEvidence(step))
  PROVE  helper = "none"
  <1>1. SUFFICES ASSUME helper # "none" PROVE FALSE
    OBVIOUS
  <1>2. helper \in Streams /\ step[helper].status = "running"
    BY <1>1 DEF TypeOK, HelperAtWork
  <1>3. helper \in Selected
    BY <1>2 DEF Rows, ChildRows
  <1>4. helper # "release" \/ ~Definitive
    BY <1>1 DEF HelperAtWork, Definitive
  <1>5. WithEvidence(step)[helper].status = "running"
    BY <1>2, <1>4, EvidenceFacts
  <1>6. QED
    BY <1>3, <1>5 DEF Quiesced

(* complete_appliance_update_task, its first commit.                       *)
LEMMA CompleteFacts ==
  ASSUME TypeOK, NEW f, NEW success \in BOOLEAN, NEW restart \in BOOLEAN,
         Complete(f, success, restart)
  PROVE  /\ job'.status \in Terminal /\ job'.restart = restart /\ job'.raised = job.raised
         /\ w'.pc = IF restart THEN "dispatch" ELSE "surface"
         /\ wait' = IF restart THEN "grace" ELSE wait
  BY DEF TypeOK, Complete, JobRow, WorkerState, Terminal

(* The worker's place and the hold, one case per action.                   *)
LEMMA ProgressStep ==
  ASSUME TypeOK, TypeOK', Rows, Rows', Progress, ApplyUnderHold, Restarts, [Next]_vars
  PROVE  Progress' /\ ApplyUnderHold'
  <1> USE DEF Progress
  <1>1. CASE Start
    <2>1. w'.pc \in {"down", "gate", "recover", "loop"} /\ (w'.pc # "down" => epoch' > 0)
      BY <1>1 DEF Start, Idle, TypeOK, WorkerState, Places
    <2>2. Places' /\ TakenChild' /\ Passed' /\ HoldProved'
      BY <2>1, AtRest
    <2>3. HelperAtWork'
      BY <1>1
      DEF Start, Idle, TypeOK, WorkerState, JobRow, Surface, Streams, HelperAtWork,
          Stream, Terminal
    <2>4. ApplyUnderHold'
      BY <1>1
      DEF Start, Idle, TypeOK, WorkerState, JobRow, Surface, Streams, ApplyUnderHold,
          HelperAtWork
    <2>5. QED
      BY <2>1, <2>2, <2>3, <2>4 DEF Progress
  <1>2. CASE PassGate
    <2>1. w'.pc \in {"down", "gate", "recover", "loop"} /\ (w'.pc # "down" => epoch' > 0)
      BY <1>2 DEF PassGate, Goto, TypeOK, WorkerState, Places
    <2>2. Places' /\ TakenChild' /\ Passed' /\ HoldProved'
      BY <2>1, AtRest
    <2>3. HelperAtWork'
      BY <1>2
      DEF PassGate, Goto, TypeOK, WorkerState, JobRow, Surface, Streams, HelperAtWork,
          Stream, Terminal
    <2>4. ApplyUnderHold'
      BY <1>2
      DEF PassGate, Goto, TypeOK, WorkerState, JobRow, Surface, Streams, ApplyUnderHold,
          HelperAtWork
    <2>5. QED
      BY <2>1, <2>2, <2>3, <2>4 DEF Progress
  <1>3. CASE RecoverNothing
    <2>1. w'.pc \in {"down", "gate", "recover", "loop"} /\ (w'.pc # "down" => epoch' > 0)
      BY <1>3 DEF RecoverNothing, Goto, Interrupted, TypeOK, WorkerState, Places
    <2>2. Places' /\ TakenChild' /\ Passed' /\ HoldProved'
      BY <2>1, AtRest
    <2>3. HelperAtWork'
      BY <1>3
      DEF RecoverNothing, Goto, Interrupted, TypeOK, WorkerState, JobRow, Surface,
          Streams, HelperAtWork, Stream, Terminal
    <2>4. ApplyUnderHold'
      BY <1>3
      DEF RecoverNothing, Goto, Interrupted, TypeOK, WorkerState, JobRow, Surface,
          Streams, ApplyUnderHold, HelperAtWork
    <2>5. QED
      BY <2>1, <2>2, <2>3, <2>4 DEF Progress
  <1>4. CASE ResumeJob
    <2>1. w'.pc \in {"down", "gate", "recover", "loop"} /\ (w'.pc # "down" => epoch' > 0)
      BY <1>4
      DEF ResumeJob, Goto, Interrupted, Resumable, Definitive, WithEvidence, TypeOK,
          WorkerState, Places
    <2>2. Places' /\ TakenChild' /\ Passed' /\ HoldProved'
      BY <2>1, AtRest
    <2>3. HelperAtWork'
      <3>1. SUFFICES ASSUME helper # "none" PROVE FALSE
        BY <1>4 DEF ResumeJob, Goto, HelperAtWork, TypeOK, WorkerState
      <3>2. helper \in Streams /\ step[helper].status = "running"
        BY <3>1 DEF TypeOK, HelperAtWork
      <3>3. helper \in Selected /\ (helper # "release" \/ ~Definitive)
        BY <3>1, <3>2 DEF Rows, ChildRows, HelperAtWork, Definitive
      <3>4. QED
        BY <1>4, <3>2, <3>3 DEF ResumeJob, Resumable
    <2>4. ApplyUnderHold'
      BY <1>4 DEF ResumeJob, ApplyUnderHold
    <2>5. QED
      BY <2>1, <2>2, <2>3, <2>4 DEF Progress
  <1>5. CASE QuiesceHelper
    <2>1. w'.pc \in {"down", "gate", "recover", "loop"} /\ (w'.pc # "down" => epoch' > 0)
      BY <1>5
      DEF QuiesceHelper, Goto, Fault, Interrupted, Resumable, Definitive, WithEvidence,
          Quiesced, TypeOK, WorkerState, Places
    <2>2. Places' /\ TakenChild' /\ Passed' /\ HoldProved'
      BY <2>1, AtRest
    <2>3. HelperAtWork'
      BY <1>5
      DEF QuiesceHelper, Goto, Fault, Interrupted, Resumable, Definitive, WithEvidence,
          Quiesced, TypeOK, WorkerState, JobRow, Surface, Streams, HelperAtWork, Stream,
          Terminal
    <2>4. ApplyUnderHold'
      BY <1>5
      DEF QuiesceHelper, Goto, Fault, Interrupted, Resumable, Definitive, WithEvidence,
          Quiesced, TypeOK, WorkerState, JobRow, Surface, Streams, ApplyUnderHold,
          HelperAtWork
    <2>5. QED
      BY <2>1, <2>2, <2>3, <2>4 DEF Progress
  <1>6. CASE CompleteRecovered
    <2>1. Places'
      <3>1. PICK success \in BOOLEAN, restart \in BOOLEAN :
               Complete(EndedSteps(WithEvidence(step)), success, restart)
        BY <1>6, Zenon DEF CompleteRecovered
      <3>2. /\ job'.status \in Terminal /\ (w'.pc = "dispatch" => job'.restart)
            /\ w'.pc \in {"dispatch", "surface"}
        BY <3>1, CompleteFacts
      <3>3. epoch' = epoch /\ w.pc # "down"
        BY <1>6 DEF CompleteRecovered
      <3>4. QED
        BY <3>2, <3>3 DEF Places, Working, Taken, Begun, Settling, Terminal
    <2>2. TakenChild'
      BY ZenonT(60), <1>6
      DEF CompleteRecovered, Interrupted, Definitive, WithEvidence, Quiesced, Complete,
          EndedSteps, TypeOK, WorkerState, JobRow, TakenChild, Taken, Begun, Between,
          Stream
    <2>3. Passed'
      BY ZenonT(60), <1>6
      DEF CompleteRecovered, Interrupted, Definitive, WithEvidence, Quiesced, Complete,
          EndedSteps, TypeOK, WorkerState, JobRow, Passed, Taken, Begun
    <2>4. HoldProved'
      BY <1>6
      DEF CompleteRecovered, Interrupted, Definitive, WithEvidence, Quiesced, Complete,
          EndedSteps, TypeOK, WorkerState, JobRow, HoldProved
    <2>5. HelperAtWork'
      <3>1. helper = "none" /\ w'.pc \in {"dispatch", "surface"} /\ helper' = helper
        BY <1>6, QuietHelper DEF CompleteRecovered, Complete, TypeOK, WorkerState
      <3>2. QED
        BY <3>1 DEF HelperAtWork
    <2>6. ApplyUnderHold'
      BY <1>6 DEF CompleteRecovered, ApplyUnderHold
    <2>7. QED
      BY <2>1, <2>2, <2>3, <2>4, <2>5, <2>6 DEF Progress
  <1>7. CASE FailCancelled
    <2>1. w'.pc \in {"down", "gate", "recover", "loop"} /\ (w'.pc # "down" => epoch' > 0)
      BY <1>7
      DEF FailCancelled, FailJob, EndedSteps, RestartOwed, Held, TypeOK, WorkerState,
          Places
    <2>2. Places' /\ TakenChild' /\ Passed' /\ HoldProved'
      BY <2>1, AtRest
    <2>3. HelperAtWork'
      BY <1>7
      DEF FailCancelled, FailJob, EndedSteps, RestartOwed, Held, TypeOK, WorkerState,
          JobRow, Surface, Streams, HelperAtWork, Stream, Terminal
    <2>4. ApplyUnderHold'
      BY <1>7
      DEF FailCancelled, FailJob, EndedSteps, RestartOwed, Held, TypeOK, WorkerState,
          JobRow, Surface, Streams, ApplyUnderHold, HelperAtWork
    <2>5. QED
      BY <2>1, <2>2, <2>3, <2>4 DEF Progress
  <1>8. CASE RestoreUI
    <2>1. Places'
      BY <1>8
      DEF RestoreUI, Held, RestartProved, ReceiptMatches, TypeOK, WorkerState, JobRow,
          Places, Working, Taken, Begun, Settling, Terminal
    <2>2. TakenChild'
      BY <1>8
      DEF RestoreUI, Held, RestartProved, ReceiptMatches, TypeOK, WorkerState, JobRow,
          TakenChild, Taken, Begun, Between, Stream
    <2>3. Passed'
      BY <1>8
      DEF RestoreUI, Held, RestartProved, ReceiptMatches, TypeOK, WorkerState, JobRow,
          Passed, Taken, Begun
    <2>4. HoldProved'
      BY <1>8
      DEF RestoreUI, Held, RestartProved, ReceiptMatches, TypeOK, WorkerState, JobRow,
          HoldProved
    <2>5. HelperAtWork'
      BY <1>8
      DEF RestoreUI, Held, RestartProved, ReceiptMatches, TypeOK, WorkerState, JobRow,
          Surface, Streams, HelperAtWork, Stream, Terminal
    <2>6. ApplyUnderHold'
      BY <1>8
      DEF RestoreUI, Held, RestartProved, ReceiptMatches, TypeOK, WorkerState, JobRow,
          Surface, Streams, ApplyUnderHold, HelperAtWork
    <2>7. QED
      BY <2>1, <2>2, <2>3, <2>4, <2>5, <2>6 DEF Progress
  <1>9. CASE RetryRestart
    <2>1. Places'
      BY <1>9
      DEF RetryRestart, Goto, RetryDue, Held, ReceiptMatches, TypeOK, WorkerState,
          JobRow, Places, Working, Taken, Begun, Settling, Terminal
    <2>2. TakenChild'
      BY <1>9
      DEF RetryRestart, Goto, RetryDue, Held, ReceiptMatches, TypeOK, WorkerState,
          JobRow, TakenChild, Taken, Begun, Between, Stream
    <2>3. Passed'
      BY <1>9
      DEF RetryRestart, Goto, RetryDue, Held, ReceiptMatches, TypeOK, WorkerState,
          JobRow, Passed, Taken, Begun
    <2>4. HoldProved'
      BY <1>9
      DEF RetryRestart, Goto, RetryDue, Held, ReceiptMatches, TypeOK, WorkerState,
          JobRow, HoldProved
    <2>5. HelperAtWork'
      BY <1>9
      DEF RetryRestart, Goto, RetryDue, Held, ReceiptMatches, TypeOK, WorkerState,
          JobRow, Surface, Streams, HelperAtWork, Stream, Terminal
    <2>6. ApplyUnderHold'
      BY <1>9
      DEF RetryRestart, Goto, RetryDue, Held, ReceiptMatches, TypeOK, WorkerState,
          JobRow, Surface, Streams, ApplyUnderHold, HelperAtWork
    <2>7. QED
      BY <2>1, <2>2, <2>3, <2>4, <2>5, <2>6 DEF Progress
  <1>10. CASE RetrySchedule
    <2>1. w'.pc \in {"down", "gate", "recover", "loop"} /\ (w'.pc # "down" => epoch' > 0)
      BY <1>10 DEF RetrySchedule, Goto, Fault, TypeOK, WorkerState, Places
    <2>2. Places' /\ TakenChild' /\ Passed' /\ HoldProved'
      BY <2>1, AtRest
    <2>3. HelperAtWork'
      BY <1>10
      DEF RetrySchedule, Goto, Fault, TypeOK, WorkerState, JobRow, Surface, Streams,
          HelperAtWork, Stream, Terminal
    <2>4. ApplyUnderHold'
      BY <1>10
      DEF RetrySchedule, Goto, Fault, TypeOK, WorkerState, JobRow, Surface, Streams,
          ApplyUnderHold, HelperAtWork
    <2>5. QED
      BY <2>1, <2>2, <2>3, <2>4 DEF Progress
  <1>11. CASE Claim
    <2>1. Places'
      BY <1>11
      DEF Claim, Goto, Admits, TypeOK, WorkerState, JobRow, Places, Working, Taken,
          Begun, Settling, Terminal
    <2>2. TakenChild'
      BY <1>11
      DEF Claim, Goto, TypeOK, WorkerState, TakenChild, Taken, Begun, Between, Rows,
          Waiting
    <2>3. Passed'
      BY <1>11
      DEF Claim, Goto, Admits, TypeOK, WorkerState, JobRow, Passed, Taken, Begun
    <2>4. HoldProved'
      BY <1>11 DEF Claim, Goto, Admits, TypeOK, WorkerState, JobRow, HoldProved
    <2>5. HelperAtWork'
      BY <1>11
      DEF Claim, Goto, Admits, TypeOK, WorkerState, JobRow, Surface, Streams,
          HelperAtWork, Stream, Terminal
    <2>6. ApplyUnderHold'
      BY <1>11
      DEF Claim, Goto, Admits, TypeOK, WorkerState, JobRow, Surface, Streams,
          ApplyUnderHold, HelperAtWork
    <2>7. QED
      BY <2>1, <2>2, <2>3, <2>4, <2>5, <2>6 DEF Progress
  <1>12. CASE Begin
    <2>1. Places'
      BY <1>12
      DEF Begin, Publish, Noted, Fault, TypeOK, WorkerState, JobRow, Places, Working,
          Taken, Begun, Settling, Terminal
    <2>2. TakenChild'
      BY <1>12
      DEF Begin, Publish, Noted, Fault, TypeOK, WorkerState, JobRow, TakenChild, Taken,
          Begun, Between, Stream
    <2>3. Passed'
      BY <1>12, OrderFacts DEF Begin, TypeOK, WorkerState, Passed
    <2>4. HoldProved'
      BY <1>12 DEF Begin, Publish, Noted, Fault, TypeOK, WorkerState, JobRow, HoldProved
    <2>5. HelperAtWork'
      BY <1>12
      DEF Begin, Publish, Noted, Fault, TypeOK, WorkerState, JobRow, Surface, Streams,
          HelperAtWork, Stream, Terminal
    <2>6. ApplyUnderHold'
      BY <1>12
      DEF Begin, Publish, Noted, Fault, TypeOK, WorkerState, JobRow, Surface, Streams,
          ApplyUnderHold, HelperAtWork
    <2>7. QED
      BY <2>1, <2>2, <2>3, <2>4, <2>5, <2>6 DEF Progress
  <1>13. CASE TakeStream
    <2>1. Places'
      BY <1>13
      DEF TakeStream, Goto, Legacy, TypeOK, WorkerState, JobRow, Places, Working, Taken,
          Begun, Settling, Terminal
    <2>2. TakenChild'
      <3>1. w.pos <= Len(order)
        BY <1>13 DEF TakeStream, TakenChild, Taken, Begun
      <3>2. /\ Stream \in Streams /\ w.pos \in DOMAIN order /\ Stream = order[w.pos]
            /\ step[Stream] \in StepRow
            /\ \A i \in DOMAIN order : order[i] \in Streams /\ i \in Int /\ (order[i] = Stream => i = w.pos)
        BY <3>1, StreamFacts, OrderFacts DEF Stream
      <3>3. CASE w' = [w EXCEPT !.pos = @ + 1, !.failed = @ \/ step[Stream].status # "succeeded"]
                  /\ UNCHANGED step
        <4>1. w'.pc = "stream"
          BY <1>13, <3>3 DEF TakeStream, TypeOK, WorkerState
        <4>2. QED
          BY <1>13, <3>3, <4>1 DEF TakeStream, TakenChild, Taken, Begun, Between
      <3>4. CASE /\ w' = [w EXCEPT !.pc = "report"] /\ w.failed
                 /\ step' = [step EXCEPT ![Stream] = [@ EXCEPT !.status = "skipped",
                                                              !.reported = TRUE]]
        <4>1. w'.pc = "report" /\ w'.pos = w.pos /\ w'.failed = w.failed /\ Stream' = Stream /\ order' = order
          BY <1>13, <3>4 DEF TakeStream, TypeOK, WorkerState, Stream
        <4>2. step'[Stream].status = "skipped" /\ \A s \in Streams : s # Stream => step'[s] = step[s]
          BY <3>2, <3>4 DEF TypeOK, StepRow
        <4>3. QED
          BY <1>13, <3>1, <3>4, <4>1, <4>2
          DEF TakeStream, TakenChild, Taken, Begun, Between, Over
      <3>5. CASE /\ Goto("announce") /\ step' = [step EXCEPT ![Stream].status = "running"]
                 /\ step[Stream].status \notin Over /\ (w.failed => Legacy)
        <4>1. w'.pc = "announce" /\ w'.pos = w.pos /\ w'.failed = w.failed
              /\ Stream' = Stream /\ order' = order /\ job' = job
          BY <1>13, <3>5 DEF TakeStream, Goto, TypeOK, WorkerState, Stream
        <4>2. /\ step'[Stream].status = "running" /\ step'[Stream].applied = step[Stream].applied
              /\ \A s \in Streams : s # Stream => step'[s] = step[s]
          BY <3>2, <3>5 DEF TypeOK, StepRow
        <4>3. \A s \in Streams : step[s].status # "running"
          BY <1>13 DEF TakeStream, TakenChild, Between
        <4>4. ~step[Stream].applied
          BY <3>2, <3>5, <4>3 DEF Rows, ChildRows, Over
        <4>5. QED
          BY <3>1, <3>5, <4>1, <4>2, <4>3, <4>4
          DEF TakenChild, Taken, Begun, Between, Legacy
      <3>6. QED
        BY <1>13, <3>3, <3>4, <3>5 DEF TakeStream
    <2>3. Passed'
      <3>1. w.pos <= Len(order)
        BY <1>13 DEF TakeStream, TakenChild, Taken, Begun
      <3>2. /\ Stream \in Streams /\ w.pos \in DOMAIN order /\ Stream = order[w.pos]
            /\ step[Stream] \in StepRow
            /\ \A i \in DOMAIN order : order[i] \in Streams /\ i \in Int /\ (order[i] = Stream => i = w.pos)
        BY <3>1, StreamFacts, OrderFacts DEF Stream
      <3>3. \A i \in DOMAIN order : i < w.pos =>
               /\ step[order[i]].status \in Over
               /\ step[order[i]].status = "succeeded" \/ w.failed
        BY <1>13 DEF TakeStream, Passed
      <3>4. order' = order /\ \A s \in Streams : s # Stream => step'[s] = step[s]
        BY <1>13 DEF TakeStream, TypeOK
      <3>5. CASE step[Stream].status \in Over
        <4>1. w'.pos = w.pos + 1 /\ (w'.failed <=> w.failed \/ step[Stream].status # "succeeded")
              /\ step' = step
          BY <1>13, <3>5 DEF TakeStream, TypeOK, WorkerState
        <4>2. w.pos \in Int
          BY <3>2
        <4>3. QED
          BY <3>2, <3>3, <3>4, <3>5, <4>1, <4>2 DEF Passed
      <3>6. CASE step[Stream].status \notin Over
        <4>1. w'.pos = w.pos /\ w'.failed = w.failed
          BY <1>13, <3>6 DEF TakeStream, Goto, TypeOK, WorkerState
        <4>2. QED
          BY <3>2, <3>3, <3>4, <4>1 DEF Passed
      <3>7. QED
        BY <3>5, <3>6
    <2>4. HoldProved'
      BY <1>13 DEF TakeStream, Goto, Legacy, TypeOK, WorkerState, JobRow, HoldProved
    <2>5. HelperAtWork'
      BY <1>13
      DEF TakeStream, Goto, Legacy, TypeOK, WorkerState, JobRow, Surface, Streams,
          HelperAtWork, Stream, Terminal
    <2>6. ApplyUnderHold'
      BY <1>13
      DEF TakeStream, Goto, Legacy, TypeOK, WorkerState, JobRow, Surface, Streams,
          ApplyUnderHold, HelperAtWork
    <2>7. QED
      BY <2>1, <2>2, <2>3, <2>4, <2>5, <2>6 DEF Progress
  <1>14. CASE Announce
    <2>1. Places'
      BY <1>14
      DEF Announce, Publish, Noted, Fault, Announced, TypeOK, WorkerState, JobRow,
          Places, Working, Taken, Begun, Settling, Terminal
    <2>2. TakenChild'
      <3>1. Stream = "release" => finalizer = "none"
        BY <1>14 DEF Announce, TakenChild, Rows, Evidence
      <3>2. QED
        BY <1>14, <3>1
        DEF Announce, Publish, Noted, Fault, Announced, TypeOK, WorkerState, JobRow,
            TakenChild, Taken, Begun, Between, Stream
    <2>3. Passed'
      BY <1>14
      DEF Announce, Publish, Noted, Fault, Announced, TypeOK, WorkerState, JobRow,
          Passed, Taken, Begun
    <2>4. HoldProved'
      <3>1. PICK ok \in BOOLEAN : Publish(ok) /\ w' = Announced(ok)
        BY <1>14 DEF Announce
      <3>2. CASE ok
        <4>1. surf' = [Noted EXCEPT !.marker = "job", !.active = TRUE] /\ Noted \in Surface
          BY <3>1, <3>2 DEF Publish, Noted, TypeOK, Surface
        <4>2. QED
          BY <4>1 DEF HoldProved, Surface
      <3>3. CASE ~ok
        BY <3>1, <3>3 DEF Announced, HoldProved, TypeOK, WorkerState
      <3>4. QED
        BY <3>2, <3>3
    <2>5. HelperAtWork'
      BY <1>14
      DEF Announce, Publish, Noted, Fault, Announced, TypeOK, WorkerState, JobRow,
          Surface, Streams, HelperAtWork, Stream, Terminal
    <2>6. ApplyUnderHold'
      BY <1>14
      DEF Announce, Publish, Noted, Fault, Announced, TypeOK, WorkerState, JobRow,
          Surface, Streams, ApplyUnderHold, HelperAtWork
    <2>7. QED
      BY <2>1, <2>2, <2>3, <2>4, <2>5, <2>6 DEF Progress
  <1>15. CASE CheckPhase
    <2>1. Places'
      BY <1>15
      DEF CheckPhase, Goto, Fault, TypeOK, WorkerState, JobRow, Places, Working, Taken,
          Begun, Settling, Terminal
    <2>2. TakenChild'
      <3>1. w.pos <= Len(order)
        BY <1>15 DEF CheckPhase, TakenChild, Taken, Begun
      <3>2. /\ Stream \in Streams /\ w.pos \in DOMAIN order /\ Stream = order[w.pos]
            /\ step[Stream] \in StepRow
            /\ \A i \in DOMAIN order : order[i] \in Streams /\ i \in Int /\ (order[i] = Stream => i = w.pos)
        BY <3>1, StreamFacts, OrderFacts DEF Stream
      <3>3. /\ step[Stream].status = "running" /\ ~step[Stream].applied
            /\ \A s \in Streams : step[s].status = "running" => s = Stream
        BY <1>15 DEF CheckPhase, TakenChild, Begun
      <3>4. w'.pos = w.pos /\ Stream' = Stream /\ order' = order /\ finalizer' = finalizer
        BY <1>15 DEF CheckPhase, Goto, TypeOK, WorkerState, Stream
      <3>5. CASE step' = [step EXCEPT ![Stream].applied = TRUE] /\ Goto("apply")
        <4>1. w'.pc = "apply"
          BY <3>5 DEF Goto, TypeOK, WorkerState
        <4>2. step'[Stream].applied
          BY <3>2, <3>5 DEF TypeOK, StepRow
        <4>3. step'[Stream].status = "running" /\ \A s \in Streams : step'[s].status = step[s].status
          BY <3>2, <3>3, <3>5 DEF TypeOK, StepRow
        <4>4. Stream = "release" => finalizer = "none"
          BY <3>3 DEF Rows, Evidence
        <4>5. QED
          BY <3>1, <3>3, <3>4, <4>1, <4>2, <4>3, <4>4
          DEF TakenChild, Taken, Begun, Between
      <3>6. CASE step' = step /\ w'.pc \in {"record", "loop"}
        <4>1. Stream = "release" => finalizer = "none"
          BY <3>3 DEF Rows, Evidence
        <4>2. QED
          BY <3>1, <3>3, <3>4, <3>6, <4>1 DEF TakenChild, Taken, Begun, Between
      <3>7. QED
        BY <1>15, <3>5, <3>6 DEF CheckPhase, Goto, TypeOK, WorkerState
    <2>3. Passed'
      <3>1. w.pos <= Len(order)
        BY <1>15 DEF CheckPhase, TakenChild, Taken, Begun
      <3>2. /\ Stream \in Streams /\ w.pos \in DOMAIN order /\ Stream = order[w.pos]
            /\ step[Stream] \in StepRow
            /\ \A i \in DOMAIN order : order[i] \in Streams /\ i \in Int /\ (order[i] = Stream => i = w.pos)
        BY <3>1, StreamFacts, OrderFacts DEF Stream
      <3>3. \A s \in Streams : step'[s].status = step[s].status
        BY <1>15, <3>2 DEF CheckPhase, TypeOK, StepRow
      <3>4. w'.pos = w.pos /\ w'.failed = w.failed /\ order' = order
        BY <1>15 DEF CheckPhase, Goto, TypeOK, WorkerState
      <3>5. QED
        BY <1>15, <3>2, <3>3, <3>4 DEF CheckPhase, Passed, Taken, Begun
    <2>4. HoldProved'
      BY <1>15 DEF CheckPhase, Goto, Fault, TypeOK, WorkerState, JobRow, HoldProved
    <2>5. HelperAtWork'
      BY <1>15
      DEF CheckPhase, Goto, Fault, TypeOK, WorkerState, JobRow, Surface, Streams,
          HelperAtWork, Stream, Terminal
    <2>6. ApplyUnderHold'
      BY <1>15
      DEF CheckPhase, Goto, Fault, TypeOK, WorkerState, JobRow, Surface, Streams,
          ApplyUnderHold, HelperAtWork
    <2>7. QED
      BY <2>1, <2>2, <2>3, <2>4, <2>5, <2>6 DEF Progress
  <1>16. CASE ApplyPhase
    <2>1. Places'
      BY <1>16
      DEF ApplyPhase, Goto, TypeOK, WorkerState, JobRow, Places, Working, Taken, Begun,
          Settling, Terminal
    <2>2. TakenChild'
      BY <1>16
      DEF ApplyPhase, Goto, TypeOK, WorkerState, JobRow, TakenChild, Taken, Begun,
          Between, Stream
    <2>3. Passed'
      BY <1>16 DEF ApplyPhase, Goto, TypeOK, WorkerState, JobRow, Passed, Taken, Begun
    <2>4. HoldProved'
      BY <1>16 DEF ApplyPhase, Goto, TypeOK, WorkerState, JobRow, HoldProved
    <2>5. HelperAtWork'
      <3>1. w.pos <= Len(order)
        BY <1>16 DEF ApplyPhase, TakenChild, Taken, Begun
      <3>2. /\ Stream \in Streams /\ w.pos \in DOMAIN order /\ Stream = order[w.pos]
            /\ step[Stream] \in StepRow
            /\ \A i \in DOMAIN order : order[i] \in Streams /\ i \in Int /\ (order[i] = Stream => i = w.pos)
        BY <3>1, StreamFacts, OrderFacts DEF Stream
      <3>3. w'.pc = "applying" /\ w'.pos = w.pos /\ helper' = Stream /\ Stream' = Stream
        BY <1>16 DEF ApplyPhase, Goto, TypeOK, WorkerState, Stream
      <3>4. job.status = "running" /\ step[Stream].status = "running" /\ step[Stream].applied
            /\ (Stream = "release" => finalizer = "none")
        BY <1>16 DEF ApplyPhase, Places, Working, Taken, TakenChild, Begun
      <3>5. QED
        BY <1>16, <3>3, <3>4 DEF ApplyPhase, HelperAtWork
    <2>6. ApplyUnderHold'
      BY <1>16 DEF ApplyPhase, HoldProved, ApplyUnderHold
    <2>7. QED
      BY <2>1, <2>2, <2>3, <2>4, <2>5, <2>6 DEF Progress
  <1>17. CASE ApplyReturns
    <2>1. Places'
      BY <1>17
      DEF ApplyReturns, TypeOK, WorkerState, JobRow, Places, Working, Taken, Begun,
          Settling, Terminal
    <2>2. TakenChild'
      <3>1. Stream # "release"
        BY <1>17 DEF ApplyReturns, HelperAtWork
      <3>2. QED
        BY <1>17, <3>1
        DEF ApplyReturns, TypeOK, WorkerState, JobRow, TakenChild, Taken, Begun,
            Between, Stream
    <2>3. Passed'
      BY <1>17 DEF ApplyReturns, TypeOK, WorkerState, JobRow, Passed, Taken, Begun
    <2>4. HoldProved'
      BY <1>17 DEF ApplyReturns, TypeOK, WorkerState, JobRow, HoldProved
    <2>5. HelperAtWork'
      BY <1>17
      DEF ApplyReturns, TypeOK, WorkerState, JobRow, Surface, Streams, HelperAtWork,
          Stream, Terminal
    <2>6. ApplyUnderHold'
      BY <1>17
      DEF ApplyReturns, TypeOK, WorkerState, JobRow, Surface, Streams, ApplyUnderHold,
          HelperAtWork
    <2>7. QED
      BY <2>1, <2>2, <2>3, <2>4, <2>5, <2>6 DEF Progress
  <1>18. CASE RecordStep
    <2>1. Places'
      BY <1>18
      DEF RecordStep, TypeOK, WorkerState, JobRow, Places, Working, Taken, Begun,
          Settling, Terminal
    <2>2. TakenChild'
      <3>1. w.pos <= Len(order)
        BY <1>18 DEF RecordStep, TakenChild, Taken, Begun
      <3>2. /\ Stream \in Streams /\ w.pos \in DOMAIN order /\ Stream = order[w.pos]
            /\ step[Stream] \in StepRow
            /\ \A i \in DOMAIN order : order[i] \in Streams /\ i \in Int /\ (order[i] = Stream => i = w.pos)
        BY <3>1, StreamFacts, OrderFacts DEF Stream
      <3>3. /\ w'.pc = "report" /\ w'.pos = w.pos /\ Stream' = Stream /\ order' = order
            /\ (w'.failed <=> w.failed \/ ~w.ok)
        BY <1>18 DEF RecordStep, TypeOK, WorkerState, Stream
      <3>4. /\ step'[Stream].status = IF w.ok THEN "succeeded" ELSE "failed"
            /\ \A s \in Streams : s # Stream => step'[s] = step[s]
        BY <1>18, <3>2 DEF RecordStep, TypeOK, StepRow
      <3>5. \A s \in Streams : step[s].status = "running" => s = Stream
        BY <1>18 DEF RecordStep, TakenChild, Begun
      <3>6. QED
        BY <3>1, <3>3, <3>4, <3>5 DEF TakenChild, Taken, Begun, Between, Over
    <2>3. Passed'
      <3>1. w.pos <= Len(order)
        BY <1>18 DEF RecordStep, TakenChild, Taken, Begun
      <3>2. /\ Stream \in Streams /\ w.pos \in DOMAIN order /\ Stream = order[w.pos]
            /\ step[Stream] \in StepRow
            /\ \A i \in DOMAIN order : order[i] \in Streams /\ i \in Int /\ (order[i] = Stream => i = w.pos)
        BY <3>1, StreamFacts, OrderFacts DEF Stream
      <3>3. w'.pos = w.pos /\ order' = order /\ (w.failed => w'.failed)
        BY <1>18 DEF RecordStep, TypeOK, WorkerState
      <3>4. \A s \in Streams : s # Stream => step'[s] = step[s]
        BY <1>18 DEF RecordStep, TypeOK
      <3>5. QED
        BY <1>18, <3>2, <3>3, <3>4 DEF RecordStep, Passed, Taken, Begun
    <2>4. HoldProved'
      BY <1>18 DEF RecordStep, TypeOK, WorkerState, JobRow, HoldProved
    <2>5. HelperAtWork'
      BY <1>18
      DEF RecordStep, TypeOK, WorkerState, JobRow, Surface, Streams, HelperAtWork,
          Stream, Terminal
    <2>6. ApplyUnderHold'
      BY <1>18
      DEF RecordStep, TypeOK, WorkerState, JobRow, Surface, Streams, ApplyUnderHold,
          HelperAtWork
    <2>7. QED
      BY <2>1, <2>2, <2>3, <2>4, <2>5, <2>6 DEF Progress
  <1>18a. CASE ApplyRaises
    <2>1. Places'
      BY <1>18a
      DEF ApplyRaises, TypeOK, WorkerState, JobRow, Places, Working, Taken, Begun,
          Settling, Terminal
    <2>2. TakenChild'
      <3>1. w.pos <= Len(order)
        BY <1>18a DEF ApplyRaises, TakenChild, Taken, Begun
      <3>2. /\ Stream \in Streams /\ w.pos \in DOMAIN order /\ Stream = order[w.pos]
            /\ step[Stream] \in StepRow
            /\ \A i \in DOMAIN order : order[i] \in Streams /\ i \in Int /\ (order[i] = Stream => i = w.pos)
        BY <3>1, StreamFacts, OrderFacts DEF Stream
      <3>3. /\ w'.pc = "report" /\ w'.pos = w.pos /\ Stream' = Stream /\ order' = order
            /\ w'.failed
        BY <1>18a DEF ApplyRaises, TypeOK, WorkerState, Stream
      <3>4. /\ step'[Stream].status = "failed"
            /\ \A s \in Streams : s # Stream => step'[s] = step[s]
        BY <1>18a, <3>2 DEF ApplyRaises, TypeOK, StepRow
      <3>5. \A s \in Streams : step[s].status = "running" => s = Stream
        BY <1>18a DEF ApplyRaises, TakenChild, Begun
      <3>6. QED
        BY <3>1, <3>3, <3>4, <3>5 DEF TakenChild, Taken, Begun, Between, Over
    <2>3. Passed'
      <3>1. w.pos <= Len(order)
        BY <1>18a DEF ApplyRaises, TakenChild, Taken, Begun
      <3>2. /\ Stream \in Streams /\ w.pos \in DOMAIN order /\ Stream = order[w.pos]
            /\ step[Stream] \in StepRow
            /\ \A i \in DOMAIN order : order[i] \in Streams /\ i \in Int /\ (order[i] = Stream => i = w.pos)
        BY <3>1, StreamFacts, OrderFacts DEF Stream
      <3>3. w'.pos = w.pos /\ order' = order /\ (w.failed => w'.failed)
        BY <1>18a DEF ApplyRaises, TypeOK, WorkerState
      <3>4. \A s \in Streams : s # Stream => step'[s] = step[s]
        BY <1>18a DEF ApplyRaises, TypeOK
      <3>5. QED
        BY <1>18a, <3>2, <3>3, <3>4 DEF ApplyRaises, Passed, Taken, Begun
    <2>4. HoldProved'
      BY <1>18a DEF ApplyRaises, TypeOK, WorkerState, JobRow, HoldProved
    <2>5. HelperAtWork'
      BY <1>18a
      DEF ApplyRaises, TypeOK, WorkerState, JobRow, Surface, Streams, HelperAtWork,
          Stream, Terminal
    <2>6. ApplyUnderHold'
      BY <1>18a
      DEF ApplyRaises, TypeOK, WorkerState, JobRow, Surface, Streams, ApplyUnderHold,
          HelperAtWork
    <2>7. QED
      BY <2>1, <2>2, <2>3, <2>4, <2>5, <2>6 DEF Progress
  <1>19. CASE ReportStep
    <2>1. Places'
      BY <1>19
      DEF ReportStep, Publish, Noted, Fault, TypeOK, WorkerState, JobRow, Places,
          Working, Taken, Begun, Settling, Terminal
    <2>2. TakenChild'
      BY <1>19
      DEF ReportStep, Publish, Noted, Fault, TypeOK, WorkerState, JobRow, TakenChild,
          Taken, Begun, Between, Stream
    <2>3. Passed'
      <3>1. w.pos <= Len(order)
        BY <1>19 DEF ReportStep, TakenChild, Taken, Begun
      <3>2. /\ Stream \in Streams /\ w.pos \in DOMAIN order /\ Stream = order[w.pos]
            /\ step[Stream] \in StepRow
            /\ \A i \in DOMAIN order : order[i] \in Streams /\ i \in Int /\ (order[i] = Stream => i = w.pos)
        BY <3>1, StreamFacts, OrderFacts DEF Stream
      <3>3. w'.pos = w.pos + 1 /\ order' = order /\ step' = step /\ (w.failed => w'.failed)
        BY <1>19 DEF ReportStep, TypeOK, WorkerState
      <3>4. w.pos \in Int /\ step[Stream].status \in Over /\ (step[Stream].status = "succeeded" \/ w.failed)
        BY <1>19, <3>2 DEF ReportStep, TakenChild
      <3>5. QED
        BY <1>19, <3>2, <3>3, <3>4 DEF ReportStep, Passed, Taken, Begun
    <2>4. HoldProved'
      BY <1>19
      DEF ReportStep, Publish, Noted, Fault, TypeOK, WorkerState, JobRow, HoldProved
    <2>5. HelperAtWork'
      BY <1>19
      DEF ReportStep, Publish, Noted, Fault, TypeOK, WorkerState, JobRow, Surface,
          Streams, HelperAtWork, Stream, Terminal
    <2>6. ApplyUnderHold'
      BY <1>19
      DEF ReportStep, Publish, Noted, Fault, TypeOK, WorkerState, JobRow, Surface,
          Streams, ApplyUnderHold, HelperAtWork
    <2>7. QED
      BY <2>1, <2>2, <2>3, <2>4, <2>5, <2>6 DEF Progress
  <1>20. CASE CompleteRun
    <2>1. Places'
      BY <1>20
      DEF CompleteRun, Complete, TypeOK, WorkerState, JobRow, Places, Working, Taken,
          Begun, Settling, Terminal
    <2>2. TakenChild'
      BY <1>20
      DEF CompleteRun, Complete, TypeOK, WorkerState, JobRow, TakenChild, Taken, Begun,
          Between, Stream
    <2>3. Passed'
      BY <1>20
      DEF CompleteRun, Complete, TypeOK, WorkerState, JobRow, Passed, Taken, Begun
    <2>4. HoldProved'
      BY <1>20 DEF CompleteRun, Complete, TypeOK, WorkerState, JobRow, HoldProved
    <2>5. HelperAtWork'
      BY <1>20
      DEF CompleteRun, Complete, TypeOK, WorkerState, JobRow, Surface, Streams,
          HelperAtWork, Stream, Terminal
    <2>6. ApplyUnderHold'
      BY <1>20
      DEF CompleteRun, Complete, TypeOK, WorkerState, JobRow, Surface, Streams,
          ApplyUnderHold, HelperAtWork
    <2>7. QED
      BY <2>1, <2>2, <2>3, <2>4, <2>5, <2>6 DEF Progress
  <1>21. CASE Raise
    <2>1. Places'
      BY <1>21
      DEF Raise, Goto, Fault, TypeOK, WorkerState, JobRow, Places, Working, Taken,
          Begun, Settling, Terminal
    <2>2. TakenChild'
      BY <1>21
      DEF Raise, Goto, Fault, TypeOK, WorkerState, JobRow, TakenChild, Taken, Begun,
          Between, Stream
    <2>3. Passed'
      BY <1>21 DEF Raise, Goto, Fault, TypeOK, WorkerState, JobRow, Passed, Taken, Begun
    <2>4. HoldProved'
      BY <1>21 DEF Raise, Goto, Fault, TypeOK, WorkerState, JobRow, HoldProved
    <2>5. HelperAtWork'
      BY <1>21
      DEF Raise, Goto, Fault, TypeOK, WorkerState, JobRow, Surface, Streams,
          HelperAtWork, Stream, Terminal
    <2>6. ApplyUnderHold'
      BY <1>21
      DEF Raise, Goto, Fault, TypeOK, WorkerState, JobRow, Surface, Streams,
          ApplyUnderHold, HelperAtWork
    <2>7. QED
      BY <2>1, <2>2, <2>3, <2>4, <2>5, <2>6 DEF Progress
  <1>22. CASE HandleRaise
    <2>1. w'.pc \in {"down", "gate", "recover", "loop"} /\ (w'.pc # "down" => epoch' > 0)
      BY <1>22
      DEF HandleRaise, Goto, FailJob, EndedSteps, RestartOwed, TypeOK, WorkerState,
          Places
    <2>2. Places' /\ TakenChild' /\ Passed' /\ HoldProved'
      BY <2>1, AtRest
    <2>3. HelperAtWork'
      BY <1>22
      DEF HandleRaise, Goto, FailJob, EndedSteps, RestartOwed, TypeOK, WorkerState,
          JobRow, Surface, Streams, HelperAtWork, Stream, Terminal
    <2>4. ApplyUnderHold'
      BY <1>22
      DEF HandleRaise, Goto, FailJob, EndedSteps, RestartOwed, TypeOK, WorkerState,
          JobRow, Surface, Streams, ApplyUnderHold, HelperAtWork
    <2>5. QED
      BY <2>1, <2>2, <2>3, <2>4 DEF Progress
  <1>23. CASE DispatchRestart
    <2>1. Places'
      BY <1>23
      DEF DispatchRestart, Goto, TypeOK, WorkerState, JobRow, Places, Working, Taken,
          Begun, Settling, Terminal
    <2>2. TakenChild'
      BY <1>23
      DEF DispatchRestart, Goto, TypeOK, WorkerState, JobRow, TakenChild, Taken, Begun,
          Between, Stream
    <2>3. Passed'
      BY <1>23
      DEF DispatchRestart, Goto, TypeOK, WorkerState, JobRow, Passed, Taken, Begun
    <2>4. HoldProved'
      BY <1>23 DEF DispatchRestart, Goto, TypeOK, WorkerState, JobRow, HoldProved
    <2>5. HelperAtWork'
      BY <1>23
      DEF DispatchRestart, Goto, TypeOK, WorkerState, JobRow, Surface, Streams,
          HelperAtWork, Stream, Terminal
    <2>6. ApplyUnderHold'
      BY <1>23
      DEF DispatchRestart, Goto, TypeOK, WorkerState, JobRow, Surface, Streams,
          ApplyUnderHold, HelperAtWork
    <2>7. QED
      BY <2>1, <2>2, <2>3, <2>4, <2>5, <2>6 DEF Progress
  <1>24. CASE ScheduleRestart
    <2>1. Places'
      BY <1>24
      DEF ScheduleRestart, Goto, Fault, TypeOK, WorkerState, JobRow, Places, Working,
          Taken, Begun, Settling, Terminal
    <2>2. TakenChild'
      BY <1>24
      DEF ScheduleRestart, Goto, Fault, TypeOK, WorkerState, JobRow, TakenChild, Taken,
          Begun, Between, Stream
    <2>3. Passed'
      BY <1>24
      DEF ScheduleRestart, Goto, Fault, TypeOK, WorkerState, JobRow, Passed, Taken,
          Begun
    <2>4. HoldProved'
      BY <1>24 DEF ScheduleRestart, Goto, Fault, TypeOK, WorkerState, JobRow, HoldProved
    <2>5. HelperAtWork'
      BY <1>24
      DEF ScheduleRestart, Goto, Fault, TypeOK, WorkerState, JobRow, Surface, Streams,
          HelperAtWork, Stream, Terminal
    <2>6. ApplyUnderHold'
      BY <1>24
      DEF ScheduleRestart, Goto, Fault, TypeOK, WorkerState, JobRow, Surface, Streams,
          ApplyUnderHold, HelperAtWork
    <2>7. QED
      BY <2>1, <2>2, <2>3, <2>4, <2>5, <2>6 DEF Progress
  <1>25. CASE SettleSurface
    <2>1. Places'
      BY ZenonT(60), <1>25
      DEF SettleSurface, Goto, FailJob, EndedSteps, RestartOwed, TypeOK, WorkerState,
          JobRow, Places, Working, Taken, Begun, Settling, Terminal
    <2>2. TakenChild'
      BY <1>25
      DEF SettleSurface, Goto, FailJob, EndedSteps, RestartOwed, TypeOK, WorkerState,
          JobRow, TakenChild, Taken, Begun, Between, Stream
    <2>3. Passed'
      BY <1>25
      DEF SettleSurface, Goto, FailJob, EndedSteps, RestartOwed, TypeOK, WorkerState,
          JobRow, Passed, Taken, Begun
    <2>4. HoldProved'
      BY <1>25
      DEF SettleSurface, Goto, FailJob, EndedSteps, RestartOwed, TypeOK, WorkerState,
          JobRow, HoldProved
    <2>5. HelperAtWork'
      BY <1>25
      DEF SettleSurface, Goto, FailJob, EndedSteps, RestartOwed, TypeOK, WorkerState,
          JobRow, Surface, Streams, HelperAtWork, Stream, Terminal
    <2>6. ApplyUnderHold'
      BY <1>25
      DEF SettleSurface, Goto, FailJob, EndedSteps, RestartOwed, TypeOK, WorkerState,
          JobRow, Surface, Streams, ApplyUnderHold, HelperAtWork
    <2>7. QED
      BY <2>1, <2>2, <2>3, <2>4, <2>5, <2>6 DEF Progress
  <1>26. CASE FinishBegin
    <2>1. Places'
      BY <1>26
      DEF FinishBegin, Goto, MayFinish, ReleaseSettled, TypeOK, WorkerState, JobRow,
          Places, Working, Taken, Begun, Settling, Terminal
    <2>2. TakenChild'
      BY <1>26
      DEF FinishBegin, Goto, MayFinish, ReleaseSettled, TypeOK, WorkerState, JobRow,
          TakenChild, Taken, Begun, Between, Stream
    <2>3. Passed'
      BY <1>26
      DEF FinishBegin, Goto, MayFinish, ReleaseSettled, TypeOK, WorkerState, JobRow,
          Passed, Taken, Begun
    <2>4. HoldProved'
      BY <1>26
      DEF FinishBegin, Goto, MayFinish, ReleaseSettled, TypeOK, WorkerState, JobRow,
          HoldProved
    <2>5. HelperAtWork'
      BY <1>26
      DEF FinishBegin, Goto, MayFinish, ReleaseSettled, TypeOK, WorkerState, JobRow,
          Surface, Streams, HelperAtWork, Stream, Terminal
    <2>6. ApplyUnderHold'
      BY <1>26
      DEF FinishBegin, Goto, MayFinish, ReleaseSettled, TypeOK, WorkerState, JobRow,
          Surface, Streams, ApplyUnderHold, HelperAtWork
    <2>7. QED
      BY <2>1, <2>2, <2>3, <2>4, <2>5, <2>6 DEF Progress
  <1>27. CASE FinishEnd
    <2>1. w'.pc \in {"down", "gate", "recover", "loop"} /\ (w'.pc # "down" => epoch' > 0)
      BY <1>27 DEF FinishEnd, Goto, TypeOK, WorkerState, Places
    <2>2. Places' /\ TakenChild' /\ Passed' /\ HoldProved'
      BY <2>1, AtRest
    <2>3. HelperAtWork'
      BY <1>27
      DEF FinishEnd, Goto, TypeOK, WorkerState, JobRow, Surface, Streams, HelperAtWork,
          Stream, Terminal
    <2>4. ApplyUnderHold'
      BY <1>27
      DEF FinishEnd, Goto, TypeOK, WorkerState, JobRow, Surface, Streams,
          ApplyUnderHold, HelperAtWork
    <2>5. QED
      BY <2>1, <2>2, <2>3, <2>4 DEF Progress
  <1>28. CASE FinishFails
    <2>1. w'.pc \in {"down", "gate", "recover", "loop"} /\ (w'.pc # "down" => epoch' > 0)
      BY <1>28
      DEF FinishFails, Goto, Fault, FailJob, EndedSteps, RestartOwed, MayFinish, TypeOK,
          WorkerState, Places
    <2>2. Places' /\ TakenChild' /\ Passed' /\ HoldProved'
      BY <2>1, AtRest
    <2>3. HelperAtWork'
      BY <1>28
      DEF FinishFails, Goto, Fault, FailJob, EndedSteps, RestartOwed, MayFinish, TypeOK,
          WorkerState, JobRow, Surface, Streams, HelperAtWork, Stream, Terminal
    <2>4. ApplyUnderHold'
      BY <1>28
      DEF FinishFails, Goto, Fault, FailJob, EndedSteps, RestartOwed, MayFinish, TypeOK,
          WorkerState, JobRow, Surface, Streams, ApplyUnderHold, HelperAtWork
    <2>5. QED
      BY <2>1, <2>2, <2>3, <2>4 DEF Progress
  <1>29. CASE ReleaseEndsEarly
    <2>1. Places'
      BY ZenonT(60), <1>29
      DEF ReleaseEndsEarly, TypeOK, WorkerState, JobRow, Places, Working, Taken, Begun,
          Settling, Terminal
    <2>2. TakenChild'
      <3>1. /\ w.pc = "applying" /\ w'.pc = "record" /\ w'.pos = w.pos
            /\ order' = order /\ job' = job /\ step' = step /\ finalizer' # "pending"
        BY <1>29 DEF ReleaseEndsEarly, TypeOK, WorkerState
      <3>2. Stream' = Stream
        BY <3>1 DEF Stream
      <3>3. QED
        BY <3>1, <3>2 DEF TakenChild, Taken, Begun, Between
    <2>3. Passed'
      BY <1>29 DEF ReleaseEndsEarly, TypeOK, WorkerState, JobRow, Passed, Taken, Begun
    <2>4. HoldProved'
      BY <1>29 DEF ReleaseEndsEarly, TypeOK, WorkerState, JobRow, HoldProved
    <2>5. HelperAtWork'
      BY ZenonT(60), <1>29
      DEF ReleaseEndsEarly, TypeOK, WorkerState, JobRow, Surface, Streams, HelperAtWork,
          Stream, Terminal
    <2>6. ApplyUnderHold'
      BY <1>29
      DEF ReleaseEndsEarly, TypeOK, WorkerState, JobRow, Surface, Streams,
          ApplyUnderHold, HelperAtWork
    <2>7. QED
      BY <2>1, <2>2, <2>3, <2>4, <2>5, <2>6 DEF Progress
  <1>30. CASE ReleaseBegins
    <2>1. Places'
      BY <1>30
      DEF ReleaseBegins, TypeOK, WorkerState, JobRow, Places, Working, Taken, Begun,
          Settling, Terminal
    <2>2. TakenChild'
      BY <1>30
      DEF ReleaseBegins, HelperAtWork, TakenChild, Taken, Begun, Between, Stream
    <2>3. Passed'
      BY <1>30 DEF ReleaseBegins, TypeOK, WorkerState, JobRow, Passed, Taken, Begun
    <2>4. HoldProved'
      BY <1>30 DEF ReleaseBegins, TypeOK, WorkerState, JobRow, HoldProved
    <2>5. HelperAtWork'
      BY <1>30
      DEF ReleaseBegins, TypeOK, WorkerState, JobRow, Surface, Streams, HelperAtWork,
          Stream, Terminal
    <2>6. ApplyUnderHold'
      BY <1>30
      DEF ReleaseBegins, TypeOK, WorkerState, JobRow, Surface, Streams, ApplyUnderHold,
          HelperAtWork
    <2>7. QED
      BY <2>1, <2>2, <2>3, <2>4, <2>5, <2>6 DEF Progress
  <1>31. CASE ReleaseRestartsWorker
    <2>1. w'.pc \in {"down", "gate", "recover", "loop"} /\ (w'.pc # "down" => epoch' > 0)
      BY <1>31 DEF ReleaseRestartsWorker, Idle, TypeOK, WorkerState, Places
    <2>2. Places' /\ TakenChild' /\ Passed' /\ HoldProved'
      BY <2>1, AtRest
    <2>3. HelperAtWork'
      BY <1>31
      DEF ReleaseRestartsWorker, Idle, TypeOK, WorkerState, JobRow, Surface, Streams,
          HelperAtWork, Stream, Terminal
    <2>4. ApplyUnderHold'
      BY <1>31
      DEF ReleaseRestartsWorker, Idle, TypeOK, WorkerState, JobRow, Surface, Streams,
          ApplyUnderHold, HelperAtWork
    <2>5. QED
      BY <2>1, <2>2, <2>3, <2>4 DEF Progress
  <1>32. CASE ReleaseCommits
    <2>1. Places'
      BY <1>32
      DEF ReleaseCommits, TypeOK, WorkerState, JobRow, Places, Working, Taken, Begun,
          Settling, Terminal
    <2>2. TakenChild'
      BY <1>32
      DEF ReleaseCommits, TypeOK, WorkerState, JobRow, TakenChild, Taken, Begun,
          Between, Stream
    <2>3. Passed'
      BY <1>32 DEF ReleaseCommits, TypeOK, WorkerState, JobRow, Passed, Taken, Begun
    <2>4. HoldProved'
      BY <1>32 DEF ReleaseCommits, TypeOK, WorkerState, JobRow, HoldProved
    <2>5. HelperAtWork'
      BY <1>32
      DEF ReleaseCommits, TypeOK, WorkerState, JobRow, Surface, Streams, HelperAtWork,
          Stream, Terminal
    <2>6. ApplyUnderHold'
      BY <1>32
      DEF ReleaseCommits, TypeOK, WorkerState, JobRow, Surface, Streams, ApplyUnderHold,
          HelperAtWork
    <2>7. QED
      BY <2>1, <2>2, <2>3, <2>4, <2>5, <2>6 DEF Progress
  <1>33. CASE ReleaseRollsBack
    <2>1. Places'
      BY <1>33
      DEF ReleaseRollsBack, TypeOK, WorkerState, JobRow, Places, Working, Taken, Begun,
          Settling, Terminal
    <2>2. TakenChild'
      BY <1>33
      DEF ReleaseRollsBack, TypeOK, WorkerState, JobRow, TakenChild, Taken, Begun,
          Between, Stream
    <2>3. Passed'
      BY <1>33 DEF ReleaseRollsBack, TypeOK, WorkerState, JobRow, Passed, Taken, Begun
    <2>4. HoldProved'
      BY <1>33 DEF ReleaseRollsBack, TypeOK, WorkerState, JobRow, HoldProved
    <2>5. HelperAtWork'
      BY <1>33
      DEF ReleaseRollsBack, TypeOK, WorkerState, JobRow, Surface, Streams, HelperAtWork,
          Stream, Terminal
    <2>6. ApplyUnderHold'
      BY <1>33
      DEF ReleaseRollsBack, TypeOK, WorkerState, JobRow, Surface, Streams,
          ApplyUnderHold, HelperAtWork
    <2>7. QED
      BY <2>1, <2>2, <2>3, <2>4, <2>5, <2>6 DEF Progress
  <1>34. CASE RestartFires
    <2>1. w'.pc \in {"down", "gate", "recover", "loop"} /\ (w'.pc # "down" => epoch' > 0)
      BY <1>34 DEF RestartFires, Idle, TypeOK, WorkerState, Places
    <2>2. Places' /\ TakenChild' /\ Passed' /\ HoldProved'
      BY <2>1, AtRest
    <2>3. HelperAtWork'
      BY <1>34
      DEF RestartFires, Idle, TypeOK, WorkerState, JobRow, Surface, Streams,
          HelperAtWork, Stream, Terminal
    <2>4. ApplyUnderHold'
      BY <1>34
      DEF RestartFires, Idle, TypeOK, WorkerState, JobRow, Surface, Streams,
          ApplyUnderHold, HelperAtWork
    <2>5. QED
      BY <2>1, <2>2, <2>3, <2>4 DEF Progress
  <1>35. CASE RestartProves
    <2>1. Places' /\ TakenChild' /\ Passed' /\ HoldProved'
      BY <1>35, Beside DEF RestartProves, Progress
    <2>2. HelperAtWork'
      BY <1>35
      DEF RestartProves, TypeOK, WorkerState, JobRow, Surface, Streams, HelperAtWork,
          Stream, Terminal
    <2>3. ApplyUnderHold'
      BY <1>35
      DEF RestartProves, TypeOK, WorkerState, JobRow, Surface, Streams, ApplyUnderHold,
          HelperAtWork
    <2>4. QED
      BY <2>1, <2>2, <2>3 DEF Progress
  <1>36. CASE RestartUnproved
    <2>1. Places' /\ TakenChild' /\ Passed' /\ HoldProved'
      BY <1>36, Beside DEF RestartUnproved, Progress
    <2>2. HelperAtWork'
      BY <1>36
      DEF RestartUnproved, Fault, TypeOK, WorkerState, JobRow, Surface, Streams,
          HelperAtWork, Stream, Terminal
    <2>3. ApplyUnderHold'
      BY <1>36
      DEF RestartUnproved, Fault, TypeOK, WorkerState, JobRow, Surface, Streams,
          ApplyUnderHold, HelperAtWork
    <2>4. QED
      BY <2>1, <2>2, <2>3 DEF Progress
  <1>37. CASE WaitElapses
    <2>1. Places' /\ TakenChild' /\ Passed' /\ HoldProved'
      BY <1>37, Beside DEF WaitElapses, Progress
    <2>2. HelperAtWork'
      BY <1>37
      DEF WaitElapses, TypeOK, WorkerState, JobRow, Surface, Streams, HelperAtWork,
          Stream, Terminal
    <2>3. ApplyUnderHold'
      BY <1>37
      DEF WaitElapses, TypeOK, WorkerState, JobRow, Surface, Streams, ApplyUnderHold,
          HelperAtWork
    <2>4. QED
      BY <2>1, <2>2, <2>3 DEF Progress
  <1>38. CASE CancelPending
    <2>1. w'.pc \in {"down", "gate", "recover", "loop"} /\ (w'.pc # "down" => epoch' > 0)
      BY <1>38
      DEF CancelPending, EndedSteps, TypeOK, WorkerState, Places, WorkerPcs, Working,
          Taken, Begun, Settling, Terminal
    <2>2. Places' /\ TakenChild' /\ Passed' /\ HoldProved'
      BY <2>1, AtRest
    <2>3. HelperAtWork'
      BY <1>38
      DEF CancelPending, EndedSteps, TypeOK, WorkerState, JobRow, Surface, Streams,
          HelperAtWork, Stream, Terminal
    <2>4. ApplyUnderHold'
      BY <1>38
      DEF CancelPending, EndedSteps, TypeOK, WorkerState, JobRow, Surface, Streams,
          ApplyUnderHold, HelperAtWork
    <2>5. QED
      BY <2>1, <2>2, <2>3, <2>4 DEF Progress
  <1>39. CASE EvidenceBreaks
    <2>1. Places'
      BY <1>39
      DEF EvidenceBreaks, Fault, TypeOK, WorkerState, JobRow, Places, Working, Taken,
          Begun, Settling, Terminal
    <2>2. TakenChild'
      BY <1>39
      DEF EvidenceBreaks, Fault, TypeOK, WorkerState, JobRow, TakenChild, Taken, Begun,
          Between, Stream
    <2>3. Passed'
      BY <1>39
      DEF EvidenceBreaks, Fault, TypeOK, WorkerState, JobRow, Passed, Taken, Begun
    <2>4. HoldProved'
      BY <1>39 DEF EvidenceBreaks, Fault, TypeOK, WorkerState, JobRow, HoldProved
    <2>5. HelperAtWork'
      BY <1>39
      DEF EvidenceBreaks, Fault, TypeOK, WorkerState, JobRow, Surface, Streams,
          HelperAtWork, Stream, Terminal
    <2>6. ApplyUnderHold'
      BY <1>39
      DEF EvidenceBreaks, Fault, TypeOK, WorkerState, JobRow, Surface, Streams,
          ApplyUnderHold, HelperAtWork
    <2>7. QED
      BY <2>1, <2>2, <2>3, <2>4, <2>5, <2>6 DEF Progress
  <1>40. CASE HelperExits
    <2>1. Places' /\ TakenChild' /\ Passed' /\ HoldProved'
      BY <1>40, Beside DEF HelperExits, Progress
    <2>2. HelperAtWork'
      BY <1>40
      DEF HelperExits, TypeOK, WorkerState, JobRow, Surface, Streams, HelperAtWork,
          Stream, Terminal
    <2>3. ApplyUnderHold'
      BY <1>40
      DEF HelperExits, TypeOK, WorkerState, JobRow, Surface, Streams, ApplyUnderHold,
          HelperAtWork
    <2>4. QED
      BY <2>1, <2>2, <2>3 DEF Progress
  <1>41. CASE Crash
    <2>1. w'.pc \in {"down", "gate", "recover", "loop"} /\ (w'.pc # "down" => epoch' > 0)
      BY <1>41 DEF Crash, Idle, Fault, TypeOK, WorkerState, Places
    <2>2. Places' /\ TakenChild' /\ Passed' /\ HoldProved'
      BY <2>1, AtRest
    <2>3. HelperAtWork'
      BY <1>41
      DEF Crash, Idle, Fault, TypeOK, WorkerState, JobRow, Surface, Streams,
          HelperAtWork, Stream, Terminal
    <2>4. ApplyUnderHold'
      BY <1>41
      DEF Crash, Idle, Fault, TypeOK, WorkerState, JobRow, Surface, Streams,
          ApplyUnderHold, HelperAtWork
    <2>5. QED
      BY <2>1, <2>2, <2>3, <2>4 DEF Progress
  <1>42. CASE Reboot
    <2>1. w'.pc \in {"down", "gate", "recover", "loop"} /\ (w'.pc # "down" => epoch' > 0)
      BY <1>42 DEF Reboot, Idle, Fault, GuardedMarker, TypeOK, WorkerState, Places
    <2>2. Places' /\ TakenChild' /\ Passed' /\ HoldProved'
      BY <2>1, AtRest
    <2>3. HelperAtWork'
      BY <1>42
      DEF Reboot, Idle, Fault, GuardedMarker, TypeOK, WorkerState, JobRow, Surface,
          Streams, HelperAtWork, Stream, Terminal
    <2>4. ApplyUnderHold'
      BY <1>42
      DEF Reboot, Idle, Fault, GuardedMarker, TypeOK, WorkerState, JobRow, Surface,
          Streams, ApplyUnderHold, HelperAtWork
    <2>5. QED
      BY <2>1, <2>2, <2>3, <2>4 DEF Progress
  <1>43. CASE UNCHANGED vars
    <2>1. Places' /\ TakenChild' /\ Passed' /\ HoldProved'
      BY <1>43, Beside DEF vars, Progress
    <2>2. HelperAtWork'
      BY <1>43
      DEF vars, TypeOK, WorkerState, JobRow, Surface, Streams, HelperAtWork, Stream,
          Terminal
    <2>3. ApplyUnderHold'
      BY <1>43
      DEF vars, TypeOK, WorkerState, JobRow, Surface, Streams, ApplyUnderHold,
          HelperAtWork
    <2>4. QED
      BY <2>1, <2>2, <2>3 DEF Progress
  <1>44. QED
    BY <1>1, <1>2, <1>3, <1>4, <1>5, <1>6, <1>7, <1>8, <1>9, <1>10, <1>11, <1>12, <1>13,
       <1>14, <1>15, <1>16, <1>17, <1>18, <1>18a, <1>19, <1>20, <1>21, <1>22, <1>23, <1>24,
       <1>25, <1>26, <1>27, <1>28, <1>29, <1>30, <1>31, <1>32, <1>33, <1>34, <1>35,
       <1>36, <1>37, <1>38, <1>39, <1>40, <1>41, <1>42, <1>43
    DEF Next, Worker, Release, Restart

-----------------------------------------------------------------------------
(* Restarts and the return of the ordinary UIs.                            *)

(* Whether the release covered the restart depends on its evidence alone.  *)
LEMMA CoveredFrame ==
  ASSUME order' = order, ReleaseRestarted' => ReleaseRestarted
  PROVE  (Covered' => Covered) /\ Selected' = Selected
  <1>1. Selected' = Selected
    BY DEF Selected
  <1>2. \A s : Position(s)' = Position(s)
    BY DEF Position
  <1>3. QED
    BY <1>1, <1>2 DEF Covered

(* While the task runs nothing was scheduled and nothing given back.       *)
LEMMA WhileRunning ==
  ASSUME TypeOK, TypeOK', Restarts, job.status = "running", job' = job,
         w'.pc \in Working \cup {"loop"}, surf' = surf \/ surf'.state # "restored",
         UNCHANGED <<order, host, wait>>,
         step["photon"].applied => step'["photon"].applied,
         step'["photon"].status = "failed" => step'["photon"].reported,
         Overwritten',
         ReleaseRestarted' => ReleaseRestarted
  PROVE  Restarts'
  <1>1. surf'.state # "restored" /\ job.status \notin Terminal
    BY DEF Restarts, Returned, Terminal
  <1>2. w'.pc \notin {"dispatch", "schedule", "surface", "finish", "finishing", "retry"}
    BY DEF Working, Taken, Begun
  <1>3. Units' = 0 /\ host'.receipt = 0 /\ wait' = "none" /\ ~job'.restart /\ ~job'.raised
    BY <1>1 DEF Restarts, Unscheduled, Units
  <1>4. Unscheduled' /\ Scheduled'
    BY <1>1, <1>2, <1>3 DEF Unscheduled, Scheduled
  <1>5. Returned'
    BY <1>1, <1>2 DEF Returned
  <1>6. Covered' => Covered
    BY CoveredFrame
  <1>7. Duty'
    BY <1>1, <1>2, <1>3, <1>6 DEF Restarts, Duty, Terminal
  <1>8. QED
    BY <1>4, <1>5, <1>7 DEF Restarts

(* A publication touches the marker, the proof and nothing the task owes.  *)
LEMMA PublishFacts ==
  ASSUME TypeOK, NEW ok, Publish(ok)
  PROVE  surf'.state \in {surf.state, "held"}
  <1>1. Noted \in Surface /\ Noted.state \in {surf.state, "held"}
    BY DEF TypeOK, Surface, Noted
  <1>2. QED
    BY <1>1 DEF Publish, Surface

(* _fail_job: the restart is owed when Photon had changed or was changing. *)
LEMMA FailFacts ==
  ASSUME TypeOK, TypeOK', Rows, order' = order, finalizer' = finalizer,
         NEW r \in BOOLEAN, FailJob(r)
  PROVE  /\ job'.status = "failed" /\ job'.raised = r
         /\ job'.restart <=> job.restart \/ RestartOwed(step)
         /\ step'["photon"].applied = step["photon"].applied
         /\ step'["photon"].reported = step["photon"].reported
         /\ step'["photon"].lost = step["photon"].lost
         /\ step'["release"].lost = step["release"].lost
         /\ step["release"].status \in Over => step'["release"].status \in Over
         /\ step["photon"].status \in Over => step'["photon"].status = step["photon"].status
         /\ AllOver' /\ (Covered' => Covered)
  <1>1. /\ job'.status = "failed" /\ job'.raised = r
        /\ job'.restart <=> job.restart \/ RestartOwed(step)
    BY DEF TypeOK, JobRow, FailJob
  <1>2. job'.legacy = job.legacy
    BY DEF TypeOK, JobRow, FailJob
  <1>3. "photon" \in Streams /\ "release" \in Streams
    BY DEF Streams
  <1>4. Selected' = Selected /\ (Covered' => Covered)
    BY CoveredFrame DEF ReleaseRestarted
  <1>5. AllOver'
    BY <1>2, <1>4, RowsEnded DEF FailJob, AllOver
  <1>6. /\ step'["photon"].applied = step["photon"].applied
        /\ step'["photon"].reported = step["photon"].reported
        /\ step'["photon"].lost = step["photon"].lost
        /\ step'["release"].lost = step["release"].lost
        /\ step["release"].status \in Over => step'["release"].status \in Over
        /\ step["photon"].status \in Over => step'["photon"].status = step["photon"].status
    <2>1. \A s \in Streams : /\ step'[s].applied = step[s].applied
                             /\ step'[s].reported = step[s].reported
                             /\ step'[s].lost = step[s].lost
                             /\ step[s].status \in Over => step'[s].status = step[s].status
      BY EndedChild DEF FailJob, TypeOK
    <2>2. QED
      BY <1>3, <2>1
  <1>7. QED
    BY <1>1, <1>4, <1>5, <1>6

(* Changed packages make every completion owe the restart.                 *)
LEMMA DirtyNeedsRestart ==
  ASSUME Duty, host.dirty, NEW f, ApplyStarted(f["photon"])
  PROVE  NeedsRestart(f)
  BY DEF Duty, NeedsRestart, PhotonChanged

(* The restart units, the surface and the duty, one case per action.       *)
LEMMA RestartsStep ==
  ASSUME TypeOK, TypeOK', Rows, Rows', Progress, Restarts, [Next]_vars
  PROVE  Restarts'
  <1> USE DEF Progress, Restarts
  <1>1. CASE Start
    <2>1. Unscheduled'
      BY <1>1
      DEF Start, Idle, TypeOK, WorkerState, JobRow, Surface, HostState, Unscheduled,
          Units, Terminal, Places, Settling
    <2>2. Scheduled'
      BY <1>1
      DEF Start, Idle, TypeOK, WorkerState, JobRow, Surface, HostState, Scheduled,
          Unscheduled, Units, Returned, Places, Settling, Terminal
    <2>3. Returned'
      <3>1. Selected' = Selected /\ Covered' = Covered
        BY <1>1 DEF Start, Selected, Covered, ReleaseRestarted, Position
      <3>2. QED
        BY <1>1, <3>1
        DEF Start, Idle, TypeOK, WorkerState, JobRow, Surface, HostState, Returned,
            AllOver, Places, Working, Taken, Begun, Settling, Terminal
    <2>4. Duty'
      <3>1. Selected' = Selected /\ Covered' = Covered
        BY <1>1 DEF Start, Selected, Covered, ReleaseRestarted, Position
      <3>2. QED
        BY <1>1, <3>1
        DEF Start, Idle, TypeOK, WorkerState, JobRow, Surface, HostState, Duty,
            Forgotten, Overwritten, Terminal, Places, Settling, Unscheduled
    <2>5. QED
      BY <2>1, <2>2, <2>3, <2>4 DEF Restarts
  <1>2. CASE PassGate
    <2>1. Unscheduled'
      BY <1>2
      DEF PassGate, Goto, TypeOK, WorkerState, JobRow, Surface, HostState, Unscheduled,
          Units, Terminal, Places, Settling
    <2>2. Scheduled'
      BY <1>2
      DEF PassGate, Goto, TypeOK, WorkerState, JobRow, Surface, HostState, Scheduled,
          Unscheduled, Units, Returned, Places, Settling, Terminal
    <2>3. Returned'
      <3>1. Selected' = Selected /\ Covered' = Covered
        BY <1>2 DEF PassGate, Selected, Covered, ReleaseRestarted, Position
      <3>2. QED
        BY <1>2, <3>1
        DEF PassGate, Goto, TypeOK, WorkerState, JobRow, Surface, HostState, Returned,
            AllOver, Places, Working, Taken, Begun, Settling, Terminal
    <2>4. Duty'
      <3>1. Selected' = Selected /\ Covered' = Covered
        BY <1>2 DEF PassGate, Selected, Covered, ReleaseRestarted, Position
      <3>2. QED
        BY <1>2, <3>1
        DEF PassGate, Goto, TypeOK, WorkerState, JobRow, Surface, HostState, Duty,
            Forgotten, Overwritten, Terminal, Places, Settling, Unscheduled
    <2>5. QED
      BY <2>1, <2>2, <2>3, <2>4 DEF Restarts
  <1>3. CASE RecoverNothing
    <2>1. Unscheduled'
      BY <1>3
      DEF RecoverNothing, Goto, Interrupted, TypeOK, WorkerState, JobRow, Surface,
          HostState, Unscheduled, Units, Terminal, Places, Settling
    <2>2. Scheduled'
      BY <1>3
      DEF RecoverNothing, Goto, Interrupted, TypeOK, WorkerState, JobRow, Surface,
          HostState, Scheduled, Unscheduled, Units, Returned, Places, Settling, Terminal
    <2>3. Returned'
      <3>1. Selected' = Selected /\ Covered' = Covered
        BY <1>3 DEF RecoverNothing, Selected, Covered, ReleaseRestarted, Position
      <3>2. QED
        BY <1>3, <3>1
        DEF RecoverNothing, Goto, Interrupted, TypeOK, WorkerState, JobRow, Surface,
            HostState, Returned, AllOver, Places, Working, Taken, Begun, Settling,
            Terminal
    <2>4. Duty'
      <3>1. Selected' = Selected /\ Covered' = Covered
        BY <1>3 DEF RecoverNothing, Selected, Covered, ReleaseRestarted, Position
      <3>2. QED
        BY <1>3, <3>1
        DEF RecoverNothing, Goto, Interrupted, TypeOK, WorkerState, JobRow, Surface,
            HostState, Duty, Forgotten, Overwritten, Terminal, Places, Settling, Unscheduled
    <2>5. QED
      BY <2>1, <2>2, <2>3, <2>4 DEF Restarts
  <1>4. CASE ResumeJob
    <2>1. Unscheduled'
      BY <1>4
      DEF ResumeJob, Goto, Interrupted, Resumable, Definitive, WithEvidence, TypeOK,
          WorkerState, JobRow, Surface, HostState, Unscheduled, Units, Terminal, Places,
          Settling
    <2>2. Scheduled'
      BY <1>4
      DEF ResumeJob, Goto, Interrupted, Resumable, Definitive, WithEvidence, TypeOK,
          WorkerState, JobRow, Surface, HostState, Scheduled, Unscheduled, Units,
          Returned, Places, Settling, Terminal
    <2>3. Returned'
      BY <1>4
      DEF ResumeJob, Goto, Interrupted, Resumable, Definitive, WithEvidence, TypeOK,
          WorkerState, JobRow, Surface, HostState, Returned, AllOver, Places, Working,
          Taken, Begun, Settling, Terminal
    <2>4. Duty'
      <3>1. /\ job.status = "running" /\ job'.status = "pending" /\ job'.raised = job.raised
            /\ host' = host /\ surf' = surf /\ w'.pc = "loop" /\ order' = order /\ finalizer' = finalizer
        BY <1>4
        DEF ResumeJob, Interrupted, Resumable, Definitive, Goto, TypeOK, JobRow,
            WorkerState
      <3>2. "photon" \in Streams /\ step' = WithEvidence(step)
        BY <1>4 DEF Streams, ResumeJob
      <3>3. /\ step'["photon"].applied = step["photon"].applied
            /\ step'["photon"].reported = step["photon"].reported
            /\ step'["photon"].status = step["photon"].status
            /\ step'["photon"].lost = step["photon"].lost
            /\ step'["release"].lost = step["release"].lost
            /\ step["release"].status \in Over => step'["release"].status \in Over
        BY <3>2, EvidenceFacts DEF Streams
      <3>4. Covered' => Covered
        BY <3>1, CoveredFrame DEF ReleaseRestarted
      <3>5. ASSUME step["photon"].applied PROVE step["photon"].status = "succeeded"
        <4>1. "photon" \in Selected /\ step["photon"].status \in {"running", "succeeded", "failed"}
          BY <3>2, <3>5 DEF Rows, ChildRows
        <4>2. CASE ~Definitive
          BY <1>4, <4>1, <4>2 DEF ResumeJob, Resumable
        <4>3. CASE Definitive
          <5>1. PICK s \in Selected \ {"release"} : step[s].status = "pending"
            BY <1>4, <4>3 DEF ResumeJob, Resumable
          <5>2. PICK i \in DOMAIN order, k \in DOMAIN order, m \in DOMAIN order :
                   order[i] = "photon" /\ order[k] = s /\ order[m] = "release"
            BY <4>1, <4>3, <5>1, EvidenceFacts DEF Selected
          <5>3. i \in Int /\ k \in Int /\ m \in Int /\ i # k /\ i # m
            BY <4>1, <5>1, <5>2, OrderFacts
          <5>4. CASE job.legacy
            <6>1. k < i
              BY <5>2, <5>3, <5>4, LastStream DEF Rows
            <6>2. QED
              BY <4>1, <5>1, <5>2, <6>1 DEF Rows, InOrder, Over
          <5>5. CASE ~job.legacy
            <6>1. i < m
              BY <5>2, <5>3, <5>5, LastStream DEF Rows
            <6>2. step["release"].applied
              BY <4>3, EvidenceFacts
            <6>3. QED
              BY <5>2, <5>5, <6>1, <6>2 DEF Rows, InOrder
          <5>6. QED
            BY <5>4, <5>5
        <4>4. QED
          BY <4>2, <4>3
      <3>6. QED
        BY <3>1, <3>3, <3>4, <3>5
        DEF Duty, Forgotten, Overwritten, Terminal, Unscheduled, Returned
    <2>5. QED
      BY <2>1, <2>2, <2>3, <2>4 DEF Restarts
  <1>5. CASE QuiesceHelper
    <2>1. Unscheduled'
      BY <1>5
      DEF QuiesceHelper, Goto, Fault, Interrupted, Resumable, Definitive, WithEvidence,
          Quiesced, TypeOK, WorkerState, JobRow, Surface, HostState, Unscheduled, Units,
          Terminal, Places, Settling
    <2>2. Scheduled'
      BY <1>5
      DEF QuiesceHelper, Goto, Fault, Interrupted, Resumable, Definitive, WithEvidence,
          Quiesced, TypeOK, WorkerState, JobRow, Surface, HostState, Scheduled,
          Unscheduled, Units, Returned, Places, Settling, Terminal
    <2>3. Returned'
      <3>1. step' = step \/ step' = WithEvidence(step)
        BY <1>5 DEF QuiesceHelper
      <3>2. order' = order /\ finalizer' = finalizer /\ job' = job /\ surf' = surf /\ host' = host
        BY <1>5 DEF QuiesceHelper
      <3>3. w'.pc \in {"recover", "loop"}
        BY <1>5 DEF QuiesceHelper, Goto, TypeOK, WorkerState
      <3>4. Selected' = Selected /\ (Covered' => Covered) /\ Selected \subseteq Streams
        BY <3>2, CoveredFrame, OrderFacts DEF ReleaseRestarted, Selected
      <3>5. AllOver => AllOver'
        BY <3>1, <3>4, EvidenceFacts DEF AllOver
      <3>6. QED
        BY <3>2, <3>3, <3>5 DEF Returned
    <2>4. Duty'
      <3>1. step' = step \/ step' = WithEvidence(step)
        BY <1>5 DEF QuiesceHelper
      <3>2. order' = order /\ finalizer' = finalizer /\ job' = job /\ surf' = surf /\ host' = host
        BY <1>5 DEF QuiesceHelper
      <3>3. w'.pc \in {"recover", "loop"}
        BY <1>5 DEF QuiesceHelper, Goto, TypeOK, WorkerState
      <3>4. Selected' = Selected /\ (Covered' => Covered) /\ Selected \subseteq Streams
        BY <3>2, CoveredFrame, OrderFacts DEF ReleaseRestarted, Selected
      <3>5. /\ step'["photon"].applied = step["photon"].applied
            /\ step'["photon"].reported = step["photon"].reported
            /\ step'["photon"].status = step["photon"].status
            /\ step'["photon"].lost = step["photon"].lost
            /\ step'["release"].lost = step["release"].lost
            /\ step["release"].status \in Over => step'["release"].status \in Over
        BY <3>1, EvidenceFacts DEF Streams
      <3>6. QED
        BY <3>2, <3>3, <3>4, <3>5 DEF Duty, Forgotten, Overwritten, Terminal
    <2>5. QED
      BY <2>1, <2>2, <2>3, <2>4 DEF Restarts
  <1>6. CASE CompleteRecovered
    <2>1. Unscheduled'
      BY ZenonT(60), <1>6
      DEF CompleteRecovered, Interrupted, Definitive, WithEvidence, Quiesced, Complete,
          EndedSteps, TypeOK, WorkerState, JobRow, Surface, HostState, Unscheduled,
          Units, Terminal, Places, Settling
    <2>2. Scheduled'
      BY ZenonT(60), <1>6
      DEF CompleteRecovered, Interrupted, Definitive, WithEvidence, Quiesced, Complete,
          EndedSteps, TypeOK, WorkerState, JobRow, Surface, HostState, Scheduled,
          Unscheduled, Units, Returned, Places, Settling, Terminal
    <2>3. Returned'
      <3>1. job'.legacy = job.legacy /\ job'.status \in Terminal /\ w'.pc \in {"dispatch", "surface"}
        BY <1>6 DEF CompleteRecovered, Complete, TypeOK, JobRow, WorkerState, Terminal
      <3>2. Selected' = Selected
        BY <1>6 DEF CompleteRecovered, Selected
      <3>3. AllOver'
        BY <1>6, <3>1, <3>2, RowsEnded DEF CompleteRecovered, AllOver
      <3>4. QED
        BY <1>6, <3>1, <3>3 DEF CompleteRecovered, Returned
    <2>4. Duty'
      <3>1. PICK success \in BOOLEAN, restart \in BOOLEAN :
               /\ Complete(step', success, restart)
               /\ NeedsRestart(step') => restart
        BY <1>6, Zenon DEF CompleteRecovered
      <3>2. /\ job'.status \in Terminal /\ job'.restart = restart /\ job'.raised = job.raised
            /\ w'.pc \in {"dispatch", "surface"} /\ job'.legacy = job.legacy
        BY <3>1, CompleteFacts DEF Complete, TypeOK, JobRow
      <3>3. host' = host /\ surf' = surf /\ order' = order /\ finalizer' = finalizer /\ ~job.raised
        BY <1>6 DEF CompleteRecovered, Interrupted, Duty
      <3>4. /\ step'["photon"].applied = step["photon"].applied
            /\ step'["photon"].reported = step["photon"].reported
            /\ step'["photon"].lost = step["photon"].lost
            /\ step'["release"].lost = step["release"].lost
            /\ step["photon"].status \in Over => step'["photon"].status = step["photon"].status
            /\ step["release"].status \in Over => step'["release"].status \in Over
        <4>1. step' = EndedSteps(WithEvidence(step))
          BY <1>6 DEF CompleteRecovered
        <4>2. /\ WithEvidence(step) \in [Streams -> StepRow]
              /\ "photon" \in Streams /\ "release" \in Streams
              /\ WithEvidence(step)["photon"].applied = step["photon"].applied
              /\ WithEvidence(step)["photon"].reported = step["photon"].reported
              /\ WithEvidence(step)["photon"].lost = step["photon"].lost
              /\ WithEvidence(step)["release"].lost = step["release"].lost
              /\ WithEvidence(step)["photon"].status = step["photon"].status
              /\ step["release"].status \in Over => WithEvidence(step)["release"].status \in Over
          BY EvidenceFacts DEF Streams
        <4>3. \A s \in Streams :
                /\ step'[s].applied = WithEvidence(step)[s].applied
                /\ step'[s].reported = WithEvidence(step)[s].reported
                /\ step'[s].lost = WithEvidence(step)[s].lost
                /\ WithEvidence(step)[s].status \in Over =>
                     step'[s].status = WithEvidence(step)[s].status
          BY <4>1, <4>2, EndedChild
        <4>4. QED
          BY <4>2, <4>3
      <3>5. Covered' => Covered
        BY <3>3, CoveredFrame DEF ReleaseRestarted
      <3>6. host.dirty => job'.restart \/ step'["photon"].lost
        <4>1. SUFFICES ASSUME host.dirty, ~step'["photon"].lost PROVE NeedsRestart(step')
          BY <3>1, <3>2
        <4>2. ApplyStarted(step'["photon"])
          BY <3>4, <4>1 DEF Duty, ApplyStarted
        <4>3. QED
          BY <4>1, <4>2, DirtyNeedsRestart
      <3>7. QED
        BY <3>2, <3>3, <3>4, <3>5, <3>6 DEF Duty, Forgotten, Overwritten, Terminal, Over
    <2>5. QED
      BY <2>1, <2>2, <2>3, <2>4 DEF Restarts
  <1>7. CASE FailCancelled
    <2>1. Unscheduled'
      BY <1>7
      DEF FailCancelled, FailJob, EndedSteps, RestartOwed, ApplyStarted, Held, TypeOK,
          WorkerState,
          JobRow, Surface, HostState, Unscheduled, Units, Terminal, Places, Settling
    <2>2. Scheduled'
      BY <1>7
      DEF FailCancelled, FailJob, EndedSteps, RestartOwed, ApplyStarted, Held, TypeOK,
          WorkerState,
          JobRow, Surface, HostState, Scheduled, Unscheduled, Units, Returned, Places,
          Settling, Terminal
    <2>3. Returned'
      BY <1>7
      DEF FailCancelled, FailJob, EndedSteps, RestartOwed, ApplyStarted, Held, TypeOK,
          WorkerState,
          JobRow, Surface, HostState, Returned, AllOver, Places, Working, Taken, Begun,
          Settling, Terminal
    <2>4. Duty'
      <3>1. /\ job.status = "cancelled" /\ host' = host /\ surf' = surf /\ w' = w /\ w.pc = "loop"
            /\ order' = order /\ finalizer' = finalizer /\ FailJob(FALSE) /\ FALSE \in BOOLEAN
        BY <1>7 DEF FailCancelled
      <3>2. /\ job'.status = "failed" /\ ~job'.raised /\ (RestartOwed(step) => job'.restart)
            /\ step'["photon"].applied = step["photon"].applied /\ (Covered' => Covered)
            /\ step'["photon"].reported = step["photon"].reported
            /\ step'["photon"].lost = step["photon"].lost
            /\ step'["release"].lost = step["release"].lost
            /\ step["photon"].status \in Over => step'["photon"].status = step["photon"].status
            /\ step["release"].status \in Over => step'["release"].status \in Over
        BY <3>1, FailFacts
      <3>3. QED
        BY <3>1, <3>2
        DEF Duty, Forgotten, Overwritten, Terminal, Returned, RestartOwed, ApplyStarted,
            Over
    <2>5. QED
      BY <2>1, <2>2, <2>3, <2>4 DEF Restarts
  <1>8. CASE RestoreUI
    <2>1. Unscheduled'
      BY <1>8
      DEF RestoreUI, Held, RestartProved, ReceiptMatches, TypeOK, WorkerState, JobRow,
          Surface, HostState, Unscheduled, Units, Terminal, Places, Settling
    <2>2. Scheduled'
      BY <1>8
      DEF RestoreUI, Held, RestartProved, ReceiptMatches, TypeOK, WorkerState, JobRow,
          Surface, HostState, Scheduled, Unscheduled, Units, Returned, Places, Settling,
          Terminal
    <2>3. Returned'
      <3>1. Selected' = Selected /\ Covered' = Covered
        BY <1>8 DEF RestoreUI, Selected, Covered, ReleaseRestarted, Position
      <3>2. QED
        BY <1>8, <3>1
        DEF RestoreUI, Held, RestartProved, ReceiptMatches, TypeOK, WorkerState, JobRow,
            Surface, HostState, Returned, AllOver, Places, Working, Taken, Begun,
            Settling, Terminal
    <2>4. Duty'
      <3>1. Selected' = Selected /\ Covered' = Covered
        BY <1>8 DEF RestoreUI, Selected, Covered, ReleaseRestarted, Position
      <3>2. QED
        BY <1>8, <3>1
        DEF RestoreUI, Held, RestartProved, ReceiptMatches, TypeOK, WorkerState, JobRow,
            Surface, HostState, Duty, Forgotten, Overwritten, Terminal, Places, Settling, Unscheduled
    <2>5. QED
      BY <2>1, <2>2, <2>3, <2>4 DEF Restarts
  <1>9. CASE RetryRestart
    <2>1. Unscheduled'
      BY <1>9
      DEF RetryRestart, Goto, RetryDue, Held, ReceiptMatches, TypeOK, WorkerState,
          JobRow, Surface, HostState, Unscheduled, Units, Terminal, Places, Settling
    <2>2. Scheduled'
      BY <1>9
      DEF RetryRestart, Goto, RetryDue, Held, ReceiptMatches, TypeOK, WorkerState,
          JobRow, Surface, HostState, Scheduled, Unscheduled, Units, Returned, Places,
          Settling, Terminal
    <2>3. Returned'
      <3>1. Selected' = Selected /\ Covered' = Covered
        BY <1>9 DEF RetryRestart, Selected, Covered, ReleaseRestarted, Position
      <3>2. QED
        BY <1>9, <3>1
        DEF RetryRestart, Goto, RetryDue, Held, ReceiptMatches, TypeOK, WorkerState,
            JobRow, Surface, HostState, Returned, AllOver, Places, Working, Taken,
            Begun, Settling, Terminal
    <2>4. Duty'
      <3>1. Selected' = Selected /\ Covered' = Covered
        BY <1>9 DEF RetryRestart, Selected, Covered, ReleaseRestarted, Position
      <3>2. QED
        BY <1>9, <3>1
        DEF RetryRestart, Goto, RetryDue, Held, ReceiptMatches, TypeOK, WorkerState,
            JobRow, Surface, HostState, Duty, Forgotten, Overwritten, Terminal, Places, Settling,
            Unscheduled
    <2>5. QED
      BY <2>1, <2>2, <2>3, <2>4 DEF Restarts
  <1>10. CASE RetrySchedule
    <2>1. Unscheduled'
      BY <1>10
      DEF RetrySchedule, Goto, Fault, TypeOK, WorkerState, JobRow, Surface, HostState,
          Unscheduled, Units, Terminal, Places, Settling
    <2>2. Scheduled'
      <3>1. /\ host'.proving = host.proving /\ host'.receipt = 0 /\ host'.dirty = host.dirty
            /\ \/ host'.armed = host.armed + 1 /\ wait' = wait /\ job' = job
               \/ host'.armed = host.armed /\ wait' \in {"none", "minute"}
            /\ job'.restart = job.restart /\ job'.raised = job.raised
            /\ (job' = job \/ job'.status = "failed")
        BY <1>10 DEF RetrySchedule, TypeOK, HostState, JobRow
      <3>2. /\ job.status \in Terminal /\ job.restart /\ job'.status \in Terminal
            /\ w'.pc \in {"loop", "surface"} /\ (w'.pc = "surface" => w.pc = "schedule")
            /\ surf' = surf /\ finalizer' = finalizer /\ step' = step /\ order' = order
            /\ w.pc \in {"schedule", "retry"}
        BY <1>10, <3>1
        DEF RetrySchedule, Goto, Places, Settling, Terminal, TypeOK, WorkerState
      <3>3. host.armed \in Nat /\ host.proving \in Nat
        BY DEF TypeOK, HostState
      <3>4. finalizer # "refuted" => Units = 0 /\ wait = "grace" /\ surf.state # "restored"
        BY <3>2 DEF Scheduled
      <3>5. QED
        BY <3>1, <3>2, <3>3, <3>4 DEF Scheduled, Units
    <2>3. Returned'
      <3>1. Selected' = Selected /\ Covered' = Covered
        BY <1>10 DEF RetrySchedule, Selected, Covered, ReleaseRestarted, Position
      <3>2. QED
        BY <1>10, <3>1
        DEF RetrySchedule, Goto, Fault, TypeOK, WorkerState, JobRow, Surface, HostState,
            Returned, AllOver, Places, Working, Taken, Begun, Settling, Terminal
    <2>4. Duty'
      <3>1. /\ host'.proving = host.proving /\ host'.receipt = 0 /\ host'.dirty = host.dirty
            /\ \/ host'.armed = host.armed + 1 /\ wait' = wait /\ job' = job
               \/ host'.armed = host.armed /\ wait' \in {"none", "minute"}
            /\ job'.restart = job.restart /\ job'.raised = job.raised
            /\ (job' = job \/ job'.status = "failed")
        BY <1>10 DEF RetrySchedule, TypeOK, HostState, JobRow
      <3>2. /\ job.status \in Terminal /\ job.restart /\ job'.status \in Terminal
            /\ w'.pc \in {"loop", "surface"} /\ (w'.pc = "surface" => w.pc = "schedule")
            /\ surf' = surf /\ finalizer' = finalizer /\ step' = step /\ order' = order
            /\ w.pc \in {"schedule", "retry"}
        BY <1>10, <3>1
        DEF RetrySchedule, Goto, Places, Settling, Terminal, TypeOK, WorkerState
      <3>3. Covered' => Covered
        BY <3>2, CoveredFrame DEF ReleaseRestarted
      <3>4. QED
        BY <3>1, <3>2, <3>3 DEF Duty, Forgotten, Overwritten, Terminal
    <2>5. QED
      BY <2>1, <2>2, <2>3, <2>4 DEF Restarts
  <1>11. CASE Claim
    <2>1. Unscheduled'
      BY <1>11
      DEF Claim, Goto, Admits, TypeOK, WorkerState, JobRow, Surface, HostState,
          Unscheduled, Units, Terminal, Places, Settling
    <2>2. Scheduled'
      BY <1>11
      DEF Claim, Goto, Admits, TypeOK, WorkerState, JobRow, Surface, HostState,
          Scheduled, Unscheduled, Units, Returned, Places, Settling, Terminal
    <2>3. Returned'
      <3>1. Selected' = Selected /\ Covered' = Covered
        BY <1>11 DEF Claim, Selected, Covered, ReleaseRestarted, Position
      <3>2. QED
        BY <1>11, <3>1
        DEF Claim, Goto, Admits, TypeOK, WorkerState, JobRow, Surface, HostState,
            Returned, AllOver, Places, Working, Taken, Begun, Settling, Terminal
    <2>4. Duty'
      <3>1. /\ job.status = "pending" /\ job'.status = "running" /\ job'.raised = job.raised
            /\ host' = host /\ step' = step /\ surf' = surf /\ order' = order
            /\ finalizer' = finalizer /\ w'.pc = "begin"
        BY <1>11 DEF Claim, Goto, TypeOK, JobRow, WorkerState
      <3>2. Covered' => Covered
        BY <3>1, CoveredFrame DEF ReleaseRestarted
      <3>3. QED
        BY <3>1, <3>2 DEF Duty, Forgotten, Overwritten, Terminal, Returned
    <2>5. QED
      BY <2>1, <2>2, <2>3, <2>4 DEF Restarts
  <1>12. CASE Begin
    <2>1. job.status = "running" /\ job' = job /\ UNCHANGED <<order, host, wait>>
      BY <1>12 DEF Begin, Places, Working, Taken, Begun
    <2>2. w'.pc \in Working \cup {"loop"}
      BY <1>12
      DEF Begin, Publish, Noted, Fault, TypeOK, WorkerState, Working, Taken, Begun
    <2>3. surf' = surf \/ surf'.state # "restored"
      BY <1>12, <2>1, PublishFacts DEF Begin, Restarts, Returned, Terminal
    <2>4. /\ step' = step /\ Overwritten'
          /\ step["photon"].status = "failed" => step["photon"].reported
      BY <1>12, <2>1 DEF Begin, Restarts, Duty, Overwritten
    <2>5. ReleaseRestarted' => ReleaseRestarted
      BY <1>12 DEF Begin, ReleaseRestarted
    <2>6. QED
      BY <2>1, <2>2, <2>3, <2>4, <2>5, WhileRunning
  <1>13. CASE TakeStream
    <2>1. job.status = "running" /\ job' = job /\ UNCHANGED <<order, host, wait>>
      BY <1>13 DEF TakeStream, Places, Working, Taken, Begun
    <2>2. w'.pc \in Working \cup {"loop"}
      BY <1>13 DEF TakeStream, Goto, Legacy, TypeOK, WorkerState, Working, Taken, Begun
    <2>3. surf' = surf \/ surf'.state # "restored"
      BY <1>13 DEF TakeStream
    <2>4. /\ step["photon"].applied => step'["photon"].applied
          /\ step'["photon"].status = "failed" => step'["photon"].reported
          /\ Overwritten'
      <3>1. w.pos <= Len(order)
        BY <1>13 DEF TakeStream, TakenChild, Taken, Begun
      <3>2. Stream \in Streams /\ step[Stream] \in StepRow /\ step["photon"] \in StepRow
        BY <3>1, StreamFacts DEF TypeOK, Streams
      <3>3. Overwritten /\ (step["photon"].status = "failed" => step["photon"].reported)
        BY <2>1 DEF Restarts, Duty
      <3>4. \A s \in Streams :
               \/ step'[s] = step[s]
               \/ /\ step[s].status \notin Over
                  /\ \/ step'[s] = [step[s] EXCEPT !.status = "skipped", !.reported = TRUE]
                     \/ step'[s] = [step[s] EXCEPT !.status = "running"]
        BY <1>13, <3>2 DEF TakeStream, TypeOK
      <3>5. \A s \in Streams : step[s] \in StepRow
        BY DEF TypeOK
      <3>6. \A s \in Streams :
               \/ step'[s] = step[s]
               \/ /\ step[s].status \notin Over /\ step'[s].status \in {"skipped", "running"}
                  /\ step'[s].applied = step[s].applied /\ step'[s].lost = step[s].lost
        <4>1. SUFFICES ASSUME NEW s \in Streams, step'[s] # step[s]
                       PROVE  /\ step[s].status \notin Over
                              /\ step'[s].status \in {"skipped", "running"}
                              /\ step'[s].applied = step[s].applied
                              /\ step'[s].lost = step[s].lost
          OBVIOUS
        <4>2. step[s] \in StepRow
          BY <3>5
        <4>3. QED
          BY <3>4, <4>1, <4>2 DEF StepRow
      <3>7. finalizer' = finalizer /\ "photon" \in Streams /\ "release" \in Streams
        BY <1>13 DEF TakeStream, Streams
      <3>8. QED
        BY <3>3, <3>6, <3>7 DEF Overwritten, Over
    <2>5. ReleaseRestarted' => ReleaseRestarted
      BY <1>13 DEF TakeStream, ReleaseRestarted
    <2>6. QED
      BY <2>1, <2>2, <2>3, <2>4, <2>5, WhileRunning
  <1>14. CASE Announce
    <2>1. job.status = "running" /\ job' = job /\ UNCHANGED <<order, host, wait>>
      BY <1>14 DEF Announce, Places, Working, Taken, Begun
    <2>2. w'.pc \in Working \cup {"loop"}
      BY <1>14
      DEF Announce, Publish, Noted, Fault, Announced, TypeOK, WorkerState, Working,
          Taken, Begun
    <2>3. surf' = surf \/ surf'.state # "restored"
      BY <1>14, <2>1, PublishFacts DEF Announce, Restarts, Returned, Terminal
    <2>4. /\ step' = step /\ Overwritten'
          /\ step["photon"].status = "failed" => step["photon"].reported
      BY <1>14, <2>1 DEF Announce, Restarts, Duty, Overwritten
    <2>5. ReleaseRestarted' => ReleaseRestarted
      BY <1>14 DEF Announce, ReleaseRestarted
    <2>6. QED
      BY <2>1, <2>2, <2>3, <2>4, <2>5, WhileRunning
  <1>15. CASE CheckPhase
    <2>1. job.status = "running" /\ job' = job /\ UNCHANGED <<order, host, wait>>
      BY <1>15 DEF CheckPhase, Places, Working, Taken, Begun
    <2>2. w'.pc \in Working \cup {"loop"}
      BY <1>15 DEF CheckPhase, Goto, Fault, TypeOK, WorkerState, Working, Taken, Begun
    <2>3. surf' = surf \/ surf'.state # "restored"
      BY <1>15 DEF CheckPhase
    <2>4. /\ step["photon"].applied => step'["photon"].applied
          /\ step'["photon"].status = "failed" => step'["photon"].reported
          /\ Overwritten'
      <3>1. w.pos <= Len(order)
        BY <1>15 DEF CheckPhase, TakenChild, Taken, Begun
      <3>2. Stream \in Streams /\ step[Stream] \in StepRow /\ step["photon"] \in StepRow
        BY <3>1, StreamFacts DEF TypeOK, Streams
      <3>3. Overwritten /\ (step["photon"].status = "failed" => step["photon"].reported)
        BY <2>1 DEF Restarts, Duty
      <3>4. step[Stream].status \notin Over /\ finalizer' = finalizer
        BY <1>15 DEF CheckPhase, TakenChild, Begun, Over
      <3>5. \/ step' = step
            \/ /\ step'[Stream].status = step[Stream].status
               /\ step'[Stream].lost = step[Stream].lost /\ step'[Stream].applied
               /\ \A s \in Streams : s # Stream => step'[s] = step[s]
        BY <1>15, <3>2 DEF CheckPhase, TypeOK, StepRow
      <3>6. "photon" \in Streams /\ "release" \in Streams
        BY DEF Streams
      <3>7. QED
        BY <3>3, <3>4, <3>5, <3>6 DEF Overwritten, Over
    <2>5. ReleaseRestarted' => ReleaseRestarted
      BY <1>15 DEF CheckPhase, ReleaseRestarted
    <2>6. QED
      BY <2>1, <2>2, <2>3, <2>4, <2>5, WhileRunning
  <1>16. CASE ApplyPhase
    <2>1. Unscheduled'
      BY <1>16
      DEF ApplyPhase, Goto, TypeOK, WorkerState, JobRow, Surface, HostState,
          Unscheduled, Units, Terminal, Places, Settling
    <2>2. Scheduled'
      BY <1>16
      DEF ApplyPhase, Goto, TypeOK, WorkerState, JobRow, Surface, HostState, Scheduled,
          Unscheduled, Units, Returned, Places, Settling, Terminal
    <2>3. Returned'
      <3>1. Selected' = Selected /\ Covered' = Covered
        BY <1>16 DEF ApplyPhase, Selected, Covered, ReleaseRestarted, Position
      <3>2. QED
        BY <1>16, <3>1
        DEF ApplyPhase, Goto, TypeOK, WorkerState, JobRow, Surface, HostState, Returned,
            AllOver, Places, Working, Taken, Begun, Settling, Terminal
    <2>4. Duty'
      <3>1. /\ job.status = "running" /\ job' = job /\ step' = step /\ surf' = surf
            /\ order' = order /\ finalizer' = finalizer /\ w'.pc = "applying"
            /\ w.pos <= Len(order) /\ step[Stream].status = "running" /\ step[Stream].applied
        BY <1>16
        DEF ApplyPhase, Goto, Places, Working, Taken, Begun, TakenChild, TypeOK,
            WorkerState
      <3>2. /\ host'.proving = host.proving /\ host'.receipt = host.receipt
            /\ host'.dirty <=> host.dirty \/ Stream = "photon"
        BY <1>16 DEF ApplyPhase, TypeOK, HostState
      <3>3. host.proving = 0 /\ host.receipt = 0 /\ surf.state # "restored"
        BY <3>1 DEF Unscheduled, Returned, Units, Terminal, TypeOK, HostState
      <3>4. Covered' => Covered
        BY <3>1, CoveredFrame DEF ReleaseRestarted
      <3>5. ASSUME Stream = "photon" PROVE ~Covered
        <4>1. SUFFICES ASSUME Covered PROVE FALSE
          OBVIOUS
        <4>2. /\ "release" \in Selected /\ "photon" \in Selected /\ step["release"].applied
              /\ Position("release") > Position("photon")
          BY <4>1 DEF Covered, ReleaseRestarted, Rows, Evidence
        <4>3. step["release"].status # "pending"
          BY <4>2 DEF Rows, ChildRows, Streams
        <4>4. /\ Position("release") \in DOMAIN order /\ order[Position("release")] = "release"
              /\ Position("photon") \in DOMAIN order /\ order[Position("photon")] = "photon"
              /\ Position("release") \in Int /\ Position("photon") \in Int
          BY <4>2, PositionOf, OrderFacts
        <4>5. step["photon"].status \in Over
          BY <4>2, <4>3, <4>4 DEF Rows, InOrder
        <4>6. QED
          BY <3>1, <3>5, <4>5 DEF Over
      <3>6. QED
        BY <3>1, <3>2, <3>3, <3>4, <3>5 DEF Duty, Forgotten, Overwritten, Terminal
    <2>5. QED
      BY <2>1, <2>2, <2>3, <2>4 DEF Restarts
  <1>17. CASE ApplyReturns
    <2>1. job.status = "running" /\ job' = job /\ UNCHANGED <<order, host, wait>>
      BY <1>17 DEF ApplyReturns, Places, Working, Taken, Begun
    <2>2. w'.pc \in Working \cup {"loop"}
      BY <1>17 DEF ApplyReturns, TypeOK, WorkerState, Working, Taken, Begun
    <2>3. surf' = surf \/ surf'.state # "restored"
      BY <1>17 DEF ApplyReturns
    <2>4. /\ step' = step /\ Overwritten'
          /\ step["photon"].status = "failed" => step["photon"].reported
      BY <1>17, <2>1 DEF ApplyReturns, Restarts, Duty, Overwritten
    <2>5. ReleaseRestarted' => ReleaseRestarted
      BY <1>17 DEF ApplyReturns, ReleaseRestarted
    <2>6. QED
      BY <2>1, <2>2, <2>3, <2>4, <2>5, WhileRunning
  <1>18. CASE RecordStep
    <2>1. job.status = "running" /\ job' = job /\ UNCHANGED <<order, host, wait>>
      BY <1>18 DEF RecordStep, Places, Working, Taken, Begun
    <2>2. w'.pc \in Working \cup {"loop"}
      BY <1>18 DEF RecordStep, TypeOK, WorkerState, Working, Taken, Begun
    <2>3. surf' = surf \/ surf'.state # "restored"
      BY <1>18 DEF RecordStep
    <2>4. /\ step["photon"].applied => step'["photon"].applied
          /\ step'["photon"].status = "failed" => step'["photon"].reported
          /\ Overwritten'
      <3>1. w.pos <= Len(order)
        BY <1>18 DEF RecordStep, TakenChild, Taken, Begun
      <3>2. Stream \in Streams /\ step[Stream] \in StepRow /\ step["photon"] \in StepRow
        BY <3>1, StreamFacts DEF TypeOK, Streams
      <3>3. Overwritten /\ (step["photon"].status = "failed" => step["photon"].reported)
        BY <2>1 DEF Restarts, Duty
      <3>4. step[Stream].status \notin Over /\ finalizer' = finalizer
        BY <1>18 DEF RecordStep, TakenChild, Begun, Over
      <3>5. /\ step'[Stream].reported /\ step'[Stream].lost = step[Stream].lost
            /\ step'[Stream].applied = step[Stream].applied
            /\ \A s \in Streams : s # Stream => step'[s] = step[s]
        BY <1>18, <3>2 DEF RecordStep, TypeOK, StepRow
      <3>6. "photon" \in Streams /\ "release" \in Streams
        BY DEF Streams
      <3>7. QED
        BY <3>3, <3>4, <3>5, <3>6 DEF Overwritten, Over
    <2>5. ReleaseRestarted' => ReleaseRestarted
      BY <1>18 DEF RecordStep, ReleaseRestarted
    <2>6. QED
      BY <2>1, <2>2, <2>3, <2>4, <2>5, WhileRunning
  <1>18a. CASE ApplyRaises
    <2>1. job.status = "running" /\ job' = job /\ UNCHANGED <<order, host, wait>>
      BY <1>18a DEF ApplyRaises, Places, Working, Taken, Begun
    <2>2. w'.pc \in Working \cup {"loop"}
      BY <1>18a DEF ApplyRaises, TypeOK, WorkerState, Working, Taken, Begun
    <2>3. surf' = surf \/ surf'.state # "restored"
      BY <1>18a DEF ApplyRaises
    <2>4. /\ step["photon"].applied => step'["photon"].applied
          /\ step'["photon"].status = "failed" => step'["photon"].reported
          /\ Overwritten'
      <3>1. w.pos <= Len(order)
        BY <1>18a DEF ApplyRaises, TakenChild, Taken, Begun
      <3>2. Stream \in Streams /\ step[Stream] \in StepRow /\ step["photon"] \in StepRow
        BY <3>1, StreamFacts DEF TypeOK, Streams
      <3>3. Overwritten /\ (step["photon"].status = "failed" => step["photon"].reported)
        BY <2>1 DEF Restarts, Duty
      <3>4. step[Stream].status \notin Over /\ finalizer' = finalizer
        BY <1>18a DEF ApplyRaises, TakenChild, Begun, Over
      <3>5. Stream = "release" => finalizer # "pending"
        BY <1>18a DEF ApplyRaises, TakenChild
      <3>6. /\ step'[Stream].status = "failed" /\ step'[Stream].reported
            /\ step'[Stream].applied = step[Stream].applied
            /\ \A s \in Streams : s # Stream => step'[s] = step[s]
        BY <1>18a, <3>2 DEF ApplyRaises, TypeOK, StepRow
      <3>7. "photon" \in Streams /\ "release" \in Streams
        BY DEF Streams
      <3>8. QED
        BY <3>3, <3>4, <3>5, <3>6, <3>7 DEF Overwritten, Over
    <2>5. ReleaseRestarted' => ReleaseRestarted
      BY <1>18a DEF ApplyRaises, ReleaseRestarted
    <2>6. QED
      BY <2>1, <2>2, <2>3, <2>4, <2>5, WhileRunning
  <1>19. CASE ReportStep
    <2>1. job.status = "running" /\ job' = job /\ UNCHANGED <<order, host, wait>>
      BY <1>19 DEF ReportStep, Places, Working, Taken, Begun
    <2>2. w'.pc \in Working \cup {"loop"}
      BY <1>19
      DEF ReportStep, Publish, Noted, Fault, TypeOK, WorkerState, Working, Taken, Begun
    <2>3. surf' = surf \/ surf'.state # "restored"
      BY <1>19, <2>1, PublishFacts DEF ReportStep, Restarts, Returned, Terminal
    <2>4. /\ step' = step /\ Overwritten'
          /\ step["photon"].status = "failed" => step["photon"].reported
      BY <1>19, <2>1 DEF ReportStep, Restarts, Duty, Overwritten
    <2>5. ReleaseRestarted' => ReleaseRestarted
      BY <1>19 DEF ReportStep, ReleaseRestarted
    <2>6. QED
      BY <2>1, <2>2, <2>3, <2>4, <2>5, WhileRunning
  <1>20. CASE CompleteRun
    <2>1. Unscheduled'
      BY <1>20
      DEF CompleteRun, Complete, TypeOK, WorkerState, JobRow, Surface, HostState,
          Unscheduled, Units, Terminal, Places, Settling
    <2>2. Scheduled'
      <3>1. AllSucceeded(step) \in BOOLEAN /\ NeedsRestart(step) \in BOOLEAN
        BY Zenon DEF AllSucceeded, NeedsRestart
      <3>2. /\ w'.pc = IF NeedsRestart(step) THEN "dispatch" ELSE "surface"
            /\ wait' = IF NeedsRestart(step) THEN "grace" ELSE wait
        BY <1>20, <3>1, CompleteFacts DEF CompleteRun
      <3>3. job.status = "running" /\ host' = host /\ surf' = surf
        BY <1>20 DEF CompleteRun, Places, Working
      <3>4. Units' = 0 /\ host'.receipt = 0 /\ surf'.state # "restored"
        BY <3>3 DEF Unscheduled, Units, Returned, Terminal
      <3>5. QED
        BY <3>2, <3>4 DEF Scheduled
    <2>3. Returned'
      <3>1. Selected' = Selected /\ Covered' = Covered
        BY <1>20 DEF CompleteRun, Selected, Covered, ReleaseRestarted, Position
      <3>2. QED
        BY <1>20, <3>1
        DEF CompleteRun, Complete, TypeOK, WorkerState, JobRow, Surface, HostState,
            Returned, AllOver, Places, Working, Taken, Begun, Settling, Terminal
    <2>4. Duty'
      <3>1. AllSucceeded(step) \in BOOLEAN /\ NeedsRestart(step) \in BOOLEAN
        BY Zenon DEF AllSucceeded, NeedsRestart
      <3>2. /\ job'.status \in Terminal /\ job'.restart = NeedsRestart(step)
            /\ job'.raised = job.raised /\ w'.pc \in {"dispatch", "surface"}
        BY <1>20, <3>1, CompleteFacts DEF CompleteRun
      <3>3. /\ job.status = "running" /\ host' = host /\ surf' = surf /\ step' = step
            /\ order' = order /\ finalizer' = finalizer
        BY <1>20 DEF CompleteRun, Places, Working
      <3>4. Covered' => Covered
        BY <3>3, CoveredFrame DEF ReleaseRestarted
      <3>5. host.dirty => NeedsRestart(step) \/ step["photon"].lost
        BY DirtyNeedsRestart DEF Duty, ApplyStarted
      <3>6. QED
        BY <3>2, <3>3, <3>4, <3>5
        DEF Duty, Forgotten, Overwritten, Terminal, Unscheduled, Returned
    <2>5. QED
      BY <2>1, <2>2, <2>3, <2>4 DEF Restarts
  <1>21. CASE Raise
    <2>1. Unscheduled'
      BY <1>21
      DEF Raise, Goto, Fault, TypeOK, WorkerState, JobRow, Surface, HostState,
          Unscheduled, Units, Terminal, Places, Settling
    <2>2. Scheduled'
      BY <1>21
      DEF Raise, Goto, Fault, TypeOK, WorkerState, JobRow, Surface, HostState,
          Scheduled, Unscheduled, Units, Returned, Places, Settling, Terminal
    <2>3. Returned'
      <3>1. Selected' = Selected /\ Covered' = Covered
        BY <1>21 DEF Raise, Selected, Covered, ReleaseRestarted, Position
      <3>2. QED
        BY <1>21, <3>1
        DEF Raise, Goto, Fault, TypeOK, WorkerState, JobRow, Surface, HostState,
            Returned, AllOver, Places, Working, Taken, Begun, Settling, Terminal
    <2>4. Duty'
      <3>1. Selected' = Selected /\ Covered' = Covered
        BY <1>21 DEF Raise, Selected, Covered, ReleaseRestarted, Position
      <3>2. QED
        BY <1>21, <3>1
        DEF Raise, Goto, Fault, TypeOK, WorkerState, JobRow, Surface, HostState, Duty,
            Forgotten, Overwritten, Terminal, Places, Settling, Unscheduled
    <2>5. QED
      BY <2>1, <2>2, <2>3, <2>4 DEF Restarts
  <1>22. CASE HandleRaise
    <2>1. Unscheduled'
      BY <1>22
      DEF HandleRaise, Goto, FailJob, EndedSteps, RestartOwed, ApplyStarted, TypeOK,
          WorkerState,
          JobRow, Surface, HostState, Unscheduled, Units, Terminal, Places, Settling
    <2>2. Scheduled'
      BY <1>22
      DEF HandleRaise, Goto, FailJob, EndedSteps, RestartOwed, ApplyStarted, TypeOK,
          WorkerState,
          JobRow, Surface, HostState, Scheduled, Unscheduled, Units, Returned, Places,
          Settling, Terminal
    <2>3. Returned'
      BY <1>22
      DEF HandleRaise, Goto, FailJob, EndedSteps, RestartOwed, ApplyStarted, TypeOK,
          WorkerState,
          JobRow, Surface, HostState, Returned, AllOver, Places, Working, Taken, Begun,
          Settling, Terminal
    <2>4. Duty'
      <3>1. /\ job.status = "running" /\ host' = host /\ surf' = surf /\ w'.pc = "loop"
            /\ order' = order /\ finalizer' = finalizer /\ FailJob(TRUE) /\ TRUE \in BOOLEAN
        BY <1>22 DEF HandleRaise, Goto, Places, Working, TypeOK, WorkerState
      <3>2. /\ job'.status = "failed" /\ job'.raised /\ (RestartOwed(step) => job'.restart)
            /\ step'["photon"].applied = step["photon"].applied /\ (Covered' => Covered)
            /\ step'["photon"].reported = step["photon"].reported
            /\ step'["photon"].lost = step["photon"].lost
            /\ step'["release"].lost = step["release"].lost
            /\ step["photon"].status \in Over => step'["photon"].status = step["photon"].status
            /\ step["release"].status \in Over => step'["release"].status \in Over
        BY <3>1, FailFacts
      <3>3. step["photon"].applied => step["photon"].status \in {"running", "succeeded", "failed"}
        BY DEF Rows, ChildRows, Streams
      <3>4. QED
        BY <3>1, <3>2, <3>3
        DEF Duty, Forgotten, Overwritten, Terminal, Returned, RestartOwed, ApplyStarted,
            Over
    <2>5. QED
      BY <2>1, <2>2, <2>3, <2>4 DEF Restarts
  <1>23. CASE DispatchRestart
    <2>1. Unscheduled'
      BY <1>23
      DEF DispatchRestart, Goto, TypeOK, WorkerState, JobRow, Surface, HostState,
          Unscheduled, Units, Terminal, Places, Settling
    <2>2. Scheduled'
      BY <1>23
      DEF DispatchRestart, Goto, TypeOK, WorkerState, JobRow, Surface, HostState,
          Scheduled, Unscheduled, Units, Returned, Places, Settling, Terminal
    <2>3. Returned'
      <3>1. Selected' = Selected /\ Covered' = Covered
        BY <1>23 DEF DispatchRestart, Selected, Covered, ReleaseRestarted, Position
      <3>2. QED
        BY <1>23, <3>1
        DEF DispatchRestart, Goto, TypeOK, WorkerState, JobRow, Surface, HostState,
            Returned, AllOver, Places, Working, Taken, Begun, Settling, Terminal
    <2>4. Duty'
      <3>1. Selected' = Selected /\ Covered' = Covered
        BY <1>23 DEF DispatchRestart, Selected, Covered, ReleaseRestarted, Position
      <3>2. QED
        BY <1>23, <3>1
        DEF DispatchRestart, Goto, TypeOK, WorkerState, JobRow, Surface, HostState,
            Duty, Forgotten, Overwritten, Terminal, Places, Settling, Unscheduled
    <2>5. QED
      BY <2>1, <2>2, <2>3, <2>4 DEF Restarts
  <1>24. CASE ScheduleRestart
    <2>1. Unscheduled'
      BY <1>24
      DEF ScheduleRestart, Goto, Fault, TypeOK, WorkerState, JobRow, Surface, HostState,
          Unscheduled, Units, Terminal, Places, Settling
    <2>2. Scheduled'
      <3>1. /\ host'.proving = host.proving /\ host'.receipt = 0 /\ host'.dirty = host.dirty
            /\ \/ host'.armed = host.armed + 1 /\ wait' = wait /\ job' = job
               \/ host'.armed = host.armed /\ wait' \in {"none", "minute"}
            /\ job'.restart = job.restart /\ job'.raised = job.raised
            /\ (job' = job \/ job'.status = "failed")
        BY <1>24 DEF ScheduleRestart, TypeOK, HostState, JobRow
      <3>2. /\ job.status \in Terminal /\ job.restart /\ job'.status \in Terminal
            /\ w'.pc \in {"loop", "surface"} /\ (w'.pc = "surface" => w.pc = "schedule")
            /\ surf' = surf /\ finalizer' = finalizer /\ step' = step /\ order' = order
            /\ w.pc \in {"schedule", "retry"}
        BY <1>24, <3>1
        DEF ScheduleRestart, Goto, Places, Settling, Terminal, TypeOK, WorkerState
      <3>3. host.armed \in Nat /\ host.proving \in Nat
        BY DEF TypeOK, HostState
      <3>4. finalizer # "refuted" => Units = 0 /\ wait = "grace" /\ surf.state # "restored"
        BY <3>2 DEF Scheduled
      <3>5. QED
        BY <3>1, <3>2, <3>3, <3>4 DEF Scheduled, Units
    <2>3. Returned'
      <3>1. Selected' = Selected /\ Covered' = Covered
        BY <1>24 DEF ScheduleRestart, Selected, Covered, ReleaseRestarted, Position
      <3>2. QED
        BY <1>24, <3>1
        DEF ScheduleRestart, Goto, Fault, TypeOK, WorkerState, JobRow, Surface,
            HostState, Returned, AllOver, Places, Working, Taken, Begun, Settling,
            Terminal
    <2>4. Duty'
      <3>1. /\ host'.proving = host.proving /\ host'.receipt = 0 /\ host'.dirty = host.dirty
            /\ \/ host'.armed = host.armed + 1 /\ wait' = wait /\ job' = job
               \/ host'.armed = host.armed /\ wait' \in {"none", "minute"}
            /\ job'.restart = job.restart /\ job'.raised = job.raised
            /\ (job' = job \/ job'.status = "failed")
        BY <1>24 DEF ScheduleRestart, TypeOK, HostState, JobRow
      <3>2. /\ job.status \in Terminal /\ job.restart /\ job'.status \in Terminal
            /\ w'.pc \in {"loop", "surface"} /\ (w'.pc = "surface" => w.pc = "schedule")
            /\ surf' = surf /\ finalizer' = finalizer /\ step' = step /\ order' = order
            /\ w.pc \in {"schedule", "retry"}
        BY <1>24, <3>1
        DEF ScheduleRestart, Goto, Places, Settling, Terminal, TypeOK, WorkerState
      <3>3. Covered' => Covered
        BY <3>2, CoveredFrame DEF ReleaseRestarted
      <3>4. QED
        BY <3>1, <3>2, <3>3 DEF Duty, Forgotten, Overwritten, Terminal
    <2>5. QED
      BY <2>1, <2>2, <2>3, <2>4 DEF Restarts
  <1>25. CASE SettleSurface
    <2>1. Unscheduled'
      <3>1. job.status \in Terminal
        BY <1>25 DEF SettleSurface, Places, Settling
      <3>2. job'.status \in Terminal
        BY <1>25, <3>1 DEF SettleSurface, FailJob, TypeOK, JobRow, Terminal
      <3>3. QED
        BY <3>2 DEF Unscheduled
    <2>2. Scheduled'
      BY ZenonT(60), <1>25
      DEF SettleSurface, Goto, FailJob, EndedSteps, RestartOwed, ApplyStarted, TypeOK,
          WorkerState,
          JobRow, Surface, HostState, Scheduled, Unscheduled, Units, Returned, Places,
          Settling, Terminal
    <2>3. Returned'
      <3>1. /\ w.pc = "surface" /\ job.status \in Terminal /\ host' = host /\ surf' = surf
            /\ w'.pc = (IF job.restart THEN "loop" ELSE "finish")
            /\ order' = order /\ finalizer' = finalizer
        BY <1>25 DEF SettleSurface, Goto, Places, Settling, TypeOK, WorkerState
      <3>2. CASE FailJob(FALSE)
        <4>1. /\ job'.status = "failed" /\ ~job'.raised /\ (job.restart => job'.restart)
              /\ step'["photon"].applied = step["photon"].applied
              /\ step'["photon"].reported = step["photon"].reported
              /\ step'["photon"].lost = step["photon"].lost
              /\ step'["release"].lost = step["release"].lost
              /\ step["photon"].status \in Over => step'["photon"].status = step["photon"].status
              /\ step["release"].status \in Over => step'["release"].status \in Over
              /\ AllOver' /\ (Covered' => Covered)
          BY <3>1, <3>2, FailFacts
        <4>2. QED
          BY <3>1, <4>1 DEF Returned, Forgotten, Overwritten, Terminal
      <3>3. CASE job' = job /\ step' = step
        <4>1. Selected' = Selected /\ (Covered' => Covered)
          BY <3>1, CoveredFrame DEF ReleaseRestarted
        <4>2. QED
          BY <3>1, <3>3, <4>1 DEF Returned, AllOver, Forgotten, Overwritten, Terminal
      <3>4. QED
        BY <1>25, <3>2, <3>3 DEF SettleSurface
    <2>4. Duty'
      <3>1. /\ w.pc = "surface" /\ job.status \in Terminal /\ host' = host /\ surf' = surf
            /\ w'.pc = (IF job.restart THEN "loop" ELSE "finish")
            /\ order' = order /\ finalizer' = finalizer
        BY <1>25 DEF SettleSurface, Goto, Places, Settling, TypeOK, WorkerState
      <3>2. CASE FailJob(FALSE)
        <4>1. /\ job'.status = "failed" /\ ~job'.raised /\ (job.restart => job'.restart)
              /\ step'["photon"].applied = step["photon"].applied
              /\ step'["photon"].reported = step["photon"].reported
              /\ step'["photon"].lost = step["photon"].lost
              /\ step'["release"].lost = step["release"].lost
              /\ step["photon"].status \in Over => step'["photon"].status = step["photon"].status
              /\ step["release"].status \in Over => step'["release"].status \in Over
              /\ AllOver' /\ (Covered' => Covered)
          BY <3>1, <3>2, FailFacts
        <4>2. QED
          BY <3>1, <4>1 DEF Duty, Forgotten, Overwritten, Terminal, Over
      <3>3. CASE job' = job /\ step' = step
        <4>1. Selected' = Selected /\ (Covered' => Covered)
          BY <3>1, CoveredFrame DEF ReleaseRestarted
        <4>2. QED
          BY <3>1, <3>3, <4>1 DEF Duty, AllOver, Forgotten, Overwritten, Terminal
      <3>4. QED
        BY <1>25, <3>2, <3>3 DEF SettleSurface
    <2>5. QED
      BY <2>1, <2>2, <2>3, <2>4 DEF Restarts
  <1>26. CASE FinishBegin
    <2>1. Unscheduled'
      BY <1>26
      DEF FinishBegin, Goto, MayFinish, ReleaseSettled, TypeOK, WorkerState, JobRow,
          Surface, HostState, Unscheduled, Units, Terminal, Places, Settling
    <2>2. Scheduled'
      BY <1>26
      DEF FinishBegin, Goto, MayFinish, ReleaseSettled, TypeOK, WorkerState, JobRow,
          Surface, HostState, Scheduled, Unscheduled, Units, Returned, Places, Settling,
          Terminal
    <2>3. Returned'
      <3>1. Selected' = Selected /\ AllOver /\ job.status \in Terminal /\ step' = step
            /\ job' = job /\ finalizer' = finalizer
        BY <1>26 DEF FinishBegin, MayFinish, Selected, AllOver
      <3>2. finalizer # "pending"
        BY <1>26
        DEF FinishBegin, MayFinish, ReleaseSettled, ApplyStarted, Rows, Evidence, Duty,
            Overwritten
      <3>3. AllOver'
        BY <3>1 DEF AllOver
      <3>4. /\ surf'.state \in {"restored", "pending"} /\ surf'.marker = "none"
            /\ w'.pc \in {"loop", "finishing"} /\ (w'.pc = "finishing" => surf'.state = "pending")
        BY <1>26 DEF FinishBegin, Goto, TypeOK, WorkerState, Surface
      <3>5. QED
        BY <3>1, <3>2, <3>3, <3>4 DEF Returned
    <2>4. Duty'
      <3>1. Selected' = Selected /\ Covered' = Covered
        BY <1>26 DEF FinishBegin, Selected, Covered, ReleaseRestarted, Position
      <3>2. QED
        BY <1>26, <3>1
        DEF FinishBegin, Goto, MayFinish, ReleaseSettled, TypeOK, WorkerState, JobRow,
            Surface, HostState, Duty, Forgotten, Overwritten, Terminal, Places, Settling, Unscheduled
    <2>5. QED
      BY <2>1, <2>2, <2>3, <2>4 DEF Restarts
  <1>27. CASE FinishEnd
    <2>1. Unscheduled'
      BY <1>27
      DEF FinishEnd, Goto, TypeOK, WorkerState, JobRow, Surface, HostState, Unscheduled,
          Units, Terminal, Places, Settling
    <2>2. Scheduled'
      BY <1>27
      DEF FinishEnd, Goto, TypeOK, WorkerState, JobRow, Surface, HostState, Scheduled,
          Unscheduled, Units, Returned, Places, Settling, Terminal
    <2>3. Returned'
      <3>1. Selected' = Selected /\ Covered' = Covered
        BY <1>27 DEF FinishEnd, Selected, Covered, ReleaseRestarted, Position
      <3>2. QED
        BY <1>27, <3>1
        DEF FinishEnd, Goto, TypeOK, WorkerState, JobRow, Surface, HostState, Returned,
            AllOver, Places, Working, Taken, Begun, Settling, Terminal
    <2>4. Duty'
      <3>1. Selected' = Selected /\ Covered' = Covered
        BY <1>27 DEF FinishEnd, Selected, Covered, ReleaseRestarted, Position
      <3>2. QED
        BY <1>27, <3>1
        DEF FinishEnd, Goto, TypeOK, WorkerState, JobRow, Surface, HostState, Duty,
            Forgotten, Overwritten, Terminal, Places, Settling, Unscheduled
    <2>5. QED
      BY <2>1, <2>2, <2>3, <2>4 DEF Restarts
  <1>28. CASE FinishFails
    <2>1. Unscheduled'
      BY ZenonT(60), <1>28
      DEF FinishFails, Goto, Fault, FailJob, EndedSteps, RestartOwed, ApplyStarted,
          MayFinish, TypeOK,
          WorkerState, JobRow, Surface, HostState, Unscheduled, Units, Terminal, Places,
          Settling
    <2>2. Scheduled'
      BY <1>28
      DEF FinishFails, Goto, Fault, FailJob, EndedSteps, RestartOwed, ApplyStarted,
          MayFinish, TypeOK,
          WorkerState, JobRow, Surface, HostState, Scheduled, Unscheduled, Units,
          Returned, Places, Settling, Terminal
    <2>3. Returned'
      <3>1. /\ w.pc \in {"finish", "finishing"} /\ job.status \in Terminal /\ host' = host
            /\ w'.pc = "loop" /\ order' = order /\ finalizer' = finalizer
            /\ surf' = surf \/ surf'.state = "pending"
        BY <1>28
        DEF FinishFails, Goto, Places, Settling, TypeOK, WorkerState, Surface, Returned
      <3>2. CASE FailJob(FALSE) /\ job.status = "succeeded"
        <4>1. /\ job'.status = "failed" /\ ~job'.raised /\ (job.restart => job'.restart)
              /\ step'["photon"].applied = step["photon"].applied
              /\ step'["photon"].reported = step["photon"].reported
              /\ step'["photon"].lost = step["photon"].lost
              /\ step'["release"].lost = step["release"].lost
              /\ step["photon"].status \in Over => step'["photon"].status = step["photon"].status
              /\ step["release"].status \in Over => step'["release"].status \in Over
              /\ AllOver' /\ (Covered' => Covered)
          BY <3>1, <3>2, FailFacts
        <4>2. QED
          BY <3>1, <3>2, <4>1 DEF Returned, Forgotten, Overwritten, Terminal
      <3>3. CASE job' = job /\ step' = step
        <4>1. Selected' = Selected /\ (Covered' => Covered)
          BY <3>1, CoveredFrame DEF ReleaseRestarted
        <4>2. QED
          BY <3>1, <3>3, <4>1 DEF Returned, AllOver, Forgotten, Overwritten, Terminal
      <3>4. QED
        BY <1>28, <3>2, <3>3 DEF FinishFails
    <2>4. Duty'
      <3>1. /\ w.pc \in {"finish", "finishing"} /\ job.status \in Terminal /\ host' = host
            /\ w'.pc = "loop" /\ order' = order /\ finalizer' = finalizer
            /\ surf' = surf \/ surf'.state = "pending"
        BY <1>28
        DEF FinishFails, Goto, Places, Settling, TypeOK, WorkerState, Surface, Returned
      <3>2. CASE FailJob(FALSE) /\ job.status = "succeeded"
        <4>1. /\ job'.status = "failed" /\ ~job'.raised /\ (job.restart => job'.restart)
              /\ step'["photon"].applied = step["photon"].applied
              /\ step'["photon"].reported = step["photon"].reported
              /\ step'["photon"].lost = step["photon"].lost
              /\ step'["release"].lost = step["release"].lost
              /\ step["photon"].status \in Over => step'["photon"].status = step["photon"].status
              /\ step["release"].status \in Over => step'["release"].status \in Over
              /\ AllOver' /\ (Covered' => Covered)
          BY <3>1, <3>2, FailFacts
        <4>2. QED
          BY <3>1, <3>2, <4>1 DEF Duty, Forgotten, Overwritten, Terminal, Over
      <3>3. CASE job' = job /\ step' = step
        <4>1. Selected' = Selected /\ (Covered' => Covered)
          BY <3>1, CoveredFrame DEF ReleaseRestarted
        <4>2. QED
          BY <3>1, <3>3, <4>1 DEF Duty, AllOver, Forgotten, Overwritten, Terminal
      <3>4. QED
        BY <1>28, <3>2, <3>3 DEF FinishFails
    <2>5. QED
      BY <2>1, <2>2, <2>3, <2>4 DEF Restarts
  <1>29. CASE ReleaseEndsEarly
    <2>1. job.status = "running" /\ job' = job /\ UNCHANGED <<order, host, wait>>
      BY <1>29 DEF ReleaseEndsEarly, Places, Working, Taken, Begun
    <2>2. w'.pc \in Working \cup {"loop"}
      BY ZenonT(60), <1>29
      DEF ReleaseEndsEarly, TypeOK, WorkerState, Working, Taken, Begun
    <2>3. surf' = surf \/ surf'.state # "restored"
      BY <1>29 DEF ReleaseEndsEarly
    <2>4. /\ step' = step /\ Overwritten'
          /\ step["photon"].status = "failed" => step["photon"].reported
      BY <1>29, <2>1 DEF ReleaseEndsEarly, Restarts, Duty, Overwritten
    <2>5. ReleaseRestarted' => ReleaseRestarted
      BY <1>29 DEF ReleaseEndsEarly, ReleaseRestarted
    <2>6. QED
      BY <2>1, <2>2, <2>3, <2>4, <2>5, WhileRunning
  <1>30. CASE ReleaseBegins
    <2>1. Unscheduled'
      BY <1>30
      DEF ReleaseBegins, TypeOK, WorkerState, JobRow, Surface, HostState, Unscheduled,
          Units, Terminal, Places, Settling
    <2>2. Scheduled'
      BY <1>30
      DEF ReleaseBegins, TypeOK, WorkerState, JobRow, Surface, HostState, Scheduled,
          Unscheduled, Units, Returned, Places, Settling, Terminal
    <2>3. Returned'
      <3>1. /\ job' = job /\ step' = step /\ surf' = surf /\ host' = host /\ order' = order
            /\ w'.pc = w.pc \/ w'.pc = "record"
        BY <1>30 DEF ReleaseBegins, TypeOK, WorkerState
      <3>2. ReleaseRestarted' => ReleaseRestarted
        BY <1>30 DEF ReleaseBegins, ReleaseRestarted, Fault
      <3>3. Covered' => Covered /\ Selected' = Selected
        BY <3>1, <3>2, CoveredFrame
      <3>4. Selected' = Selected
        BY <3>1, <3>2, CoveredFrame
      <3>5. QED
        BY <1>30, <3>1, <3>4
        DEF ReleaseBegins, Returned, AllOver, HelperAtWork, Terminal, Places, Settling
    <2>4. Duty'
      <3>1. /\ job' = job /\ step' = step /\ surf' = surf /\ host' = host /\ order' = order
            /\ w'.pc = w.pc \/ w'.pc = "record"
        BY <1>30 DEF ReleaseBegins, TypeOK, WorkerState
      <3>2. ReleaseRestarted' => ReleaseRestarted
        BY <1>30 DEF ReleaseBegins, ReleaseRestarted, Fault
      <3>3. Covered' => Covered /\ Selected' = Selected
        BY <3>1, <3>2, CoveredFrame
      <3>4. Overwritten'
        BY <1>30, <3>1 DEF ReleaseBegins, Duty, Overwritten, HelperAtWork, Over
      <3>5. QED
        BY <3>1, <3>3, <3>4 DEF Duty, Forgotten, Terminal
    <2>5. QED
      BY <2>1, <2>2, <2>3, <2>4 DEF Restarts
  <1>31. CASE ReleaseRestartsWorker
    <2>1. Unscheduled'
      BY <1>31
      DEF ReleaseRestartsWorker, Idle, TypeOK, WorkerState, JobRow, Surface, HostState,
          Unscheduled, Units, Terminal, Places, Settling
    <2>2. Scheduled'
      BY <1>31
      DEF ReleaseRestartsWorker, Idle, TypeOK, WorkerState, JobRow, Surface, HostState,
          Scheduled, Unscheduled, Units, Returned, Places, Settling, Terminal
    <2>3. Returned'
      <3>1. Selected' = Selected /\ Covered' = Covered
        BY <1>31
        DEF ReleaseRestartsWorker, Selected, Covered, ReleaseRestarted, Position
      <3>2. QED
        BY <1>31, <3>1
        DEF ReleaseRestartsWorker, Idle, TypeOK, WorkerState, JobRow, Surface,
            HostState, Returned, AllOver, Places, Working, Taken, Begun, Settling,
            Terminal
    <2>4. Duty'
      <3>1. Selected' = Selected /\ Covered' = Covered
        BY <1>31
        DEF ReleaseRestartsWorker, Selected, Covered, ReleaseRestarted, Position
      <3>2. QED
        BY <1>31, <3>1
        DEF ReleaseRestartsWorker, Idle, TypeOK, WorkerState, JobRow, Surface,
            HostState, Duty, Forgotten, Overwritten, Terminal, Places, Settling, Unscheduled
    <2>5. QED
      BY <2>1, <2>2, <2>3, <2>4 DEF Restarts
  <1>32. CASE ReleaseCommits
    <2>1. Unscheduled'
      BY <1>32
      DEF ReleaseCommits, TypeOK, WorkerState, JobRow, Surface, HostState, Unscheduled,
          Units, Terminal, Places, Settling
    <2>2. Scheduled'
      BY <1>32
      DEF ReleaseCommits, TypeOK, WorkerState, JobRow, Surface, HostState, Scheduled,
          Unscheduled, Units, Returned, Places, Settling, Terminal
    <2>3. Returned'
      BY <1>32
      DEF ReleaseCommits, TypeOK, WorkerState, JobRow, Surface, HostState, Returned,
          AllOver, Places, Working, Taken, Begun, Settling, Terminal
    <2>4. Duty'
      BY <1>32
      DEF ReleaseCommits, TypeOK, WorkerState, JobRow, Surface, HostState, Duty,
          Forgotten, Overwritten, Terminal, Places, Settling, Unscheduled
    <2>5. QED
      BY <2>1, <2>2, <2>3, <2>4 DEF Restarts
  <1>33. CASE ReleaseRollsBack
    <2>1. Unscheduled'
      BY <1>33
      DEF ReleaseRollsBack, TypeOK, WorkerState, JobRow, Surface, HostState,
          Unscheduled, Units, Terminal, Places, Settling
    <2>2. Scheduled'
      BY <1>33
      DEF ReleaseRollsBack, TypeOK, WorkerState, JobRow, Surface, HostState, Scheduled,
          Unscheduled, Units, Returned, Places, Settling, Terminal
    <2>3. Returned'
      <3>1. /\ job' = job /\ step' = step /\ surf' = surf /\ host' = host /\ order' = order
            /\ w'.pc = w.pc \/ w'.pc = "record"
        BY <1>33 DEF ReleaseRollsBack, TypeOK, WorkerState
      <3>2. ReleaseRestarted' => ReleaseRestarted
        BY <1>33 DEF ReleaseRollsBack, ReleaseRestarted, Fault
      <3>3. Covered' => Covered /\ Selected' = Selected
        BY <3>1, <3>2, CoveredFrame
      <3>4. Selected' = Selected
        BY <3>1, <3>2, CoveredFrame
      <3>5. QED
        BY <1>33, <3>1, <3>4
        DEF ReleaseRollsBack, Returned, AllOver, HelperAtWork, Terminal, Places,
            Settling
    <2>4. Duty'
      <3>1. /\ job' = job /\ step' = step /\ surf' = surf /\ host' = host /\ order' = order
            /\ w'.pc = w.pc \/ w'.pc = "record"
        BY <1>33 DEF ReleaseRollsBack, TypeOK, WorkerState
      <3>2. ReleaseRestarted' => ReleaseRestarted
        BY <1>33 DEF ReleaseRollsBack, ReleaseRestarted, Fault
      <3>3. Covered' => Covered /\ Selected' = Selected
        BY <3>1, <3>2, CoveredFrame
      <3>4. Overwritten'
        BY <1>33, <3>1 DEF ReleaseRollsBack, Duty, Overwritten
      <3>5. QED
        BY <3>1, <3>3, <3>4 DEF Duty, Forgotten, Terminal
    <2>5. QED
      BY <2>1, <2>2, <2>3, <2>4 DEF Restarts
  <1>34. CASE RestartFires
    <2>1. Unscheduled'
      BY <1>34
      DEF RestartFires, Idle, TypeOK, WorkerState, JobRow, Surface, HostState,
          Unscheduled, Units, Terminal, Places, Settling
    <2>2. Scheduled'
      BY <1>34
      DEF RestartFires, Idle, TypeOK, WorkerState, JobRow, Surface, HostState,
          Scheduled, Unscheduled, Units, Returned, Places, Settling, Terminal
    <2>3. Returned'
      <3>1. Selected' = Selected /\ Covered' = Covered
        BY <1>34 DEF RestartFires, Selected, Covered, ReleaseRestarted, Position
      <3>2. QED
        BY <1>34, <3>1
        DEF RestartFires, Idle, TypeOK, WorkerState, JobRow, Surface, HostState,
            Returned, AllOver, Places, Working, Taken, Begun, Settling, Terminal
    <2>4. Duty'
      <3>1. Selected' = Selected /\ Covered' = Covered
        BY <1>34 DEF RestartFires, Selected, Covered, ReleaseRestarted, Position
      <3>2. QED
        BY <1>34, <3>1
        DEF RestartFires, Idle, TypeOK, WorkerState, JobRow, Surface, HostState, Duty,
            Forgotten, Overwritten, Terminal, Places, Settling, Unscheduled
    <2>5. QED
      BY <2>1, <2>2, <2>3, <2>4 DEF Restarts
  <1>35. CASE RestartProves
    <2>1. Unscheduled'
      BY <1>35
      DEF RestartProves, TypeOK, WorkerState, JobRow, Surface, HostState, Unscheduled,
          Units, Terminal, Places, Settling
    <2>2. Scheduled'
      BY <1>35
      DEF RestartProves, TypeOK, WorkerState, JobRow, Surface, HostState, Scheduled,
          Unscheduled, Units, Returned, Places, Settling, Terminal
    <2>3. Returned'
      <3>1. Selected' = Selected /\ Covered' = Covered
        BY <1>35 DEF RestartProves, Selected, Covered, ReleaseRestarted, Position
      <3>2. QED
        BY <1>35, <3>1
        DEF RestartProves, TypeOK, WorkerState, JobRow, Surface, HostState, Returned,
            AllOver, Places, Working, Taken, Begun, Settling, Terminal
    <2>4. Duty'
      <3>1. Selected' = Selected /\ Covered' = Covered
        BY <1>35 DEF RestartProves, Selected, Covered, ReleaseRestarted, Position
      <3>2. QED
        BY <1>35, <3>1
        DEF RestartProves, TypeOK, WorkerState, JobRow, Surface, HostState, Duty,
            Forgotten, Overwritten, Terminal, Places, Settling, Unscheduled
    <2>5. QED
      BY <2>1, <2>2, <2>3, <2>4 DEF Restarts
  <1>36. CASE RestartUnproved
    <2>1. Unscheduled'
      BY <1>36
      DEF RestartUnproved, Fault, TypeOK, WorkerState, JobRow, Surface, HostState,
          Unscheduled, Units, Terminal, Places, Settling
    <2>2. Scheduled'
      BY <1>36
      DEF RestartUnproved, Fault, TypeOK, WorkerState, JobRow, Surface, HostState,
          Scheduled, Unscheduled, Units, Returned, Places, Settling, Terminal
    <2>3. Returned'
      <3>1. Selected' = Selected /\ Covered' = Covered
        BY <1>36 DEF RestartUnproved, Selected, Covered, ReleaseRestarted, Position
      <3>2. QED
        BY <1>36, <3>1
        DEF RestartUnproved, Fault, TypeOK, WorkerState, JobRow, Surface, HostState,
            Returned, AllOver, Places, Working, Taken, Begun, Settling, Terminal
    <2>4. Duty'
      <3>1. Selected' = Selected /\ Covered' = Covered
        BY <1>36 DEF RestartUnproved, Selected, Covered, ReleaseRestarted, Position
      <3>2. QED
        BY <1>36, <3>1
        DEF RestartUnproved, Fault, TypeOK, WorkerState, JobRow, Surface, HostState,
            Duty, Forgotten, Overwritten, Terminal, Places, Settling, Unscheduled
    <2>5. QED
      BY <2>1, <2>2, <2>3, <2>4 DEF Restarts
  <1>37. CASE WaitElapses
    <2>1. Unscheduled'
      BY <1>37
      DEF WaitElapses, TypeOK, WorkerState, JobRow, Surface, HostState, Unscheduled,
          Units, Terminal, Places, Settling
    <2>2. Scheduled'
      BY <1>37
      DEF WaitElapses, TypeOK, WorkerState, JobRow, Surface, HostState, Scheduled,
          Unscheduled, Units, Returned, Places, Settling, Terminal
    <2>3. Returned'
      <3>1. Selected' = Selected /\ Covered' = Covered
        BY <1>37 DEF WaitElapses, Selected, Covered, ReleaseRestarted, Position
      <3>2. QED
        BY <1>37, <3>1
        DEF WaitElapses, TypeOK, WorkerState, JobRow, Surface, HostState, Returned,
            AllOver, Places, Working, Taken, Begun, Settling, Terminal
    <2>4. Duty'
      <3>1. Selected' = Selected /\ Covered' = Covered
        BY <1>37 DEF WaitElapses, Selected, Covered, ReleaseRestarted, Position
      <3>2. QED
        BY <1>37, <3>1
        DEF WaitElapses, TypeOK, WorkerState, JobRow, Surface, HostState, Duty,
            Forgotten, Overwritten, Terminal, Places, Settling, Unscheduled
    <2>5. QED
      BY <2>1, <2>2, <2>3, <2>4 DEF Restarts
  <1>38. CASE CancelPending
    <2>1. Unscheduled'
      BY <1>38
      DEF CancelPending, EndedSteps, TypeOK, WorkerState, JobRow, Surface, HostState,
          Unscheduled, Units, Terminal, Places, Settling
    <2>2. Scheduled'
      BY <1>38
      DEF CancelPending, EndedSteps, TypeOK, WorkerState, JobRow, Surface, HostState,
          Scheduled, Unscheduled, Units, Returned, Places, Settling, Terminal
    <2>3. Returned'
      BY <1>38
      DEF CancelPending, EndedSteps, TypeOK, WorkerState, JobRow, Surface, HostState,
          Returned, AllOver, Places, Working, Taken, Begun, Settling, Terminal
    <2>4. Duty'
      <3>1. /\ job.status = "pending" /\ job'.status = "cancelled" /\ job'.raised = job.raised
            /\ job'.legacy = job.legacy /\ host' = host /\ surf' = surf /\ order' = order
            /\ finalizer' = finalizer /\ w' = w /\ step' = EndedSteps(step)
        BY <1>38 DEF CancelPending, TypeOK, JobRow
      <3>2. Covered' => Covered
        BY <3>1, CoveredFrame DEF ReleaseRestarted
      <3>3. /\ step'["photon"].applied = step["photon"].applied
            /\ step'["photon"].reported = step["photon"].reported
            /\ step'["photon"].lost = step["photon"].lost
            /\ step'["release"].lost = step["release"].lost
            /\ step["photon"].status \in Over => step'["photon"].status = step["photon"].status
            /\ step["release"].status \in Over => step'["release"].status \in Over
        <4>1. \A s \in Streams : /\ step'[s].applied = step[s].applied
                                 /\ step'[s].reported = step[s].reported
                                 /\ step'[s].lost = step[s].lost
                                 /\ step[s].status \in Over => step'[s].status = step[s].status
          BY <3>1, EndedChild DEF TypeOK
        <4>2. QED
          BY <4>1 DEF Streams
      <3>4. QED
        BY <3>1, <3>2, <3>3
        DEF Duty, Forgotten, Overwritten, Terminal, Returned, Unscheduled, Places,
            Settling, Over
    <2>5. QED
      BY <2>1, <2>2, <2>3, <2>4 DEF Restarts
  <1>39. CASE EvidenceBreaks
    <2>1. Unscheduled'
      BY <1>39
      DEF EvidenceBreaks, Fault, TypeOK, WorkerState, JobRow, Surface, HostState,
          Unscheduled, Units, Terminal, Places, Settling
    <2>2. Scheduled'
      BY <1>39
      DEF EvidenceBreaks, Fault, TypeOK, WorkerState, JobRow, Surface, HostState,
          Scheduled, Unscheduled, Units, Returned, Places, Settling, Terminal
    <2>3. Returned'
      <3>1. /\ job' = job /\ step' = step /\ surf' = surf /\ host' = host /\ order' = order
            /\ w'.pc = w.pc \/ w'.pc = "record"
        BY <1>39 DEF EvidenceBreaks, TypeOK, WorkerState
      <3>2. ReleaseRestarted' => ReleaseRestarted
        BY <1>39 DEF EvidenceBreaks, ReleaseRestarted, Fault
      <3>3. Covered' => Covered /\ Selected' = Selected
        BY <3>1, <3>2, CoveredFrame
      <3>4. Selected' = Selected
        BY <3>1, <3>2, CoveredFrame
      <3>5. QED
        BY <1>39, <3>1, <3>4
        DEF EvidenceBreaks, Returned, AllOver, HelperAtWork, Terminal, Places, Settling
    <2>4. Duty'
      <3>1. /\ job' = job /\ step' = step /\ surf' = surf /\ host' = host /\ order' = order
            /\ w'.pc = w.pc \/ w'.pc = "record"
        BY <1>39 DEF EvidenceBreaks, TypeOK, WorkerState
      <3>2. ReleaseRestarted' => ReleaseRestarted
        BY <1>39 DEF EvidenceBreaks, ReleaseRestarted, Fault
      <3>3. Covered' => Covered /\ Selected' = Selected
        BY <3>1, <3>2, CoveredFrame
      <3>4. Overwritten'
        BY <1>39, <3>1 DEF EvidenceBreaks, Duty, Overwritten
      <3>5. QED
        BY <3>1, <3>3, <3>4 DEF Duty, Forgotten, Terminal
    <2>5. QED
      BY <2>1, <2>2, <2>3, <2>4 DEF Restarts
  <1>40. CASE HelperExits
    <2>1. Unscheduled'
      BY <1>40
      DEF HelperExits, TypeOK, WorkerState, JobRow, Surface, HostState, Unscheduled,
          Units, Terminal, Places, Settling
    <2>2. Scheduled'
      BY <1>40
      DEF HelperExits, TypeOK, WorkerState, JobRow, Surface, HostState, Scheduled,
          Unscheduled, Units, Returned, Places, Settling, Terminal
    <2>3. Returned'
      <3>1. Selected' = Selected /\ Covered' = Covered
        BY <1>40 DEF HelperExits, Selected, Covered, ReleaseRestarted, Position
      <3>2. QED
        BY <1>40, <3>1
        DEF HelperExits, TypeOK, WorkerState, JobRow, Surface, HostState, Returned,
            AllOver, Places, Working, Taken, Begun, Settling, Terminal
    <2>4. Duty'
      <3>1. Selected' = Selected /\ Covered' = Covered
        BY <1>40 DEF HelperExits, Selected, Covered, ReleaseRestarted, Position
      <3>2. QED
        BY <1>40, <3>1
        DEF HelperExits, TypeOK, WorkerState, JobRow, Surface, HostState, Duty,
            Forgotten, Overwritten, Terminal, Places, Settling, Unscheduled
    <2>5. QED
      BY <2>1, <2>2, <2>3, <2>4 DEF Restarts
  <1>41. CASE Crash
    <2>1. Unscheduled'
      BY <1>41
      DEF Crash, Idle, Fault, TypeOK, WorkerState, JobRow, Surface, HostState,
          Unscheduled, Units, Terminal, Places, Settling
    <2>2. Scheduled'
      BY <1>41
      DEF Crash, Idle, Fault, TypeOK, WorkerState, JobRow, Surface, HostState,
          Scheduled, Unscheduled, Units, Returned, Places, Settling, Terminal
    <2>3. Returned'
      <3>1. Selected' = Selected /\ Covered' = Covered
        BY <1>41 DEF Crash, Selected, Covered, ReleaseRestarted, Position
      <3>2. QED
        BY <1>41, <3>1
        DEF Crash, Idle, Fault, TypeOK, WorkerState, JobRow, Surface, HostState,
            Returned, AllOver, Places, Working, Taken, Begun, Settling, Terminal
    <2>4. Duty'
      <3>1. Selected' = Selected /\ Covered' = Covered
        BY <1>41 DEF Crash, Selected, Covered, ReleaseRestarted, Position
      <3>2. QED
        BY <1>41, <3>1
        DEF Crash, Idle, Fault, TypeOK, WorkerState, JobRow, Surface, HostState, Duty,
            Forgotten, Overwritten, Terminal, Places, Settling, Unscheduled
    <2>5. QED
      BY <2>1, <2>2, <2>3, <2>4 DEF Restarts
  <1>42. CASE Reboot
    <2>1. Unscheduled'
      BY <1>42
      DEF Reboot, Idle, Fault, GuardedMarker, TypeOK, WorkerState, JobRow, Surface,
          HostState, Unscheduled, Units, Terminal, Places, Settling
    <2>2. Scheduled'
      BY <1>42
      DEF Reboot, Idle, Fault, GuardedMarker, TypeOK, WorkerState, JobRow, Surface,
          HostState, Scheduled, Unscheduled, Units, Returned, Places, Settling, Terminal
    <2>3. Returned'
      <3>1. Selected' = Selected /\ Covered' = Covered
        BY <1>42 DEF Reboot, Selected, Covered, ReleaseRestarted, Position
      <3>2. QED
        BY <1>42, <3>1
        DEF Reboot, Idle, Fault, GuardedMarker, TypeOK, WorkerState, JobRow, Surface,
            HostState, Returned, AllOver, Places, Working, Taken, Begun, Settling,
            Terminal
    <2>4. Duty'
      <3>1. Selected' = Selected /\ Covered' = Covered
        BY <1>42 DEF Reboot, Selected, Covered, ReleaseRestarted, Position
      <3>2. QED
        BY <1>42, <3>1
        DEF Reboot, Idle, Fault, GuardedMarker, TypeOK, WorkerState, JobRow, Surface,
            HostState, Duty, Forgotten, Overwritten, Terminal, Places, Settling, Unscheduled
    <2>5. QED
      BY <2>1, <2>2, <2>3, <2>4 DEF Restarts
  <1>43. CASE UNCHANGED vars
    <2>1. Unscheduled'
      BY <1>43
      DEF vars, TypeOK, WorkerState, JobRow, Surface, HostState, Unscheduled, Units,
          Terminal, Places, Settling
    <2>2. Scheduled'
      BY <1>43
      DEF vars, TypeOK, WorkerState, JobRow, Surface, HostState, Scheduled, Unscheduled,
          Units, Returned, Places, Settling, Terminal
    <2>3. Returned'
      <3>1. Selected' = Selected /\ Covered' = Covered
        BY <1>43 DEF vars, Selected, Covered, ReleaseRestarted, Position
      <3>2. QED
        BY <1>43, <3>1
        DEF vars, TypeOK, WorkerState, JobRow, Surface, HostState, Returned, AllOver,
            Places, Working, Taken, Begun, Settling, Terminal
    <2>4. Duty'
      <3>1. Selected' = Selected /\ Covered' = Covered
        BY <1>43 DEF vars, Selected, Covered, ReleaseRestarted, Position
      <3>2. QED
        BY <1>43, <3>1
        DEF vars, TypeOK, WorkerState, JobRow, Surface, HostState, Duty, Forgotten,
            Overwritten,
            Terminal, Places, Settling, Unscheduled
    <2>5. QED
      BY <2>1, <2>2, <2>3, <2>4 DEF Restarts
  <1>44. QED
    BY <1>1, <1>2, <1>3, <1>4, <1>5, <1>6, <1>7, <1>8, <1>9, <1>10, <1>11, <1>12, <1>13,
       <1>14, <1>15, <1>16, <1>17, <1>18, <1>18a, <1>19, <1>20, <1>21, <1>22, <1>23, <1>24,
       <1>25, <1>26, <1>27, <1>28, <1>29, <1>30, <1>31, <1>32, <1>33, <1>34, <1>35,
       <1>36, <1>37, <1>38, <1>39, <1>40, <1>41, <1>42, <1>43
    DEF Next, Worker, Release, Restart
-----------------------------------------------------------------------------
(* The theorems.                                                           *)

(* A submitted installation that no worker has touched.                    *)
LEMMA InitInv ==
  ASSUME Init
  PROVE  IInv
  <1>1. TypeOK
    <2>1. job \in JobRow
      BY DEF Init, JobRow
    <2>2. step \in [Streams -> StepRow]
      BY DEF Init, StepRow
    <2>3. w \in WorkerState
      BY DEF Init, Idle, WorkerState, WorkerPcs
    <2>4. surf \in Surface /\ host \in HostState /\ finalizer \in Finalizers
      BY DEF Init, Surface, HostState, Finalizers
    <2>5. QED
      BY <2>1, <2>2, <2>3, <2>4, ApplianceUpdateConstants DEF Init, TypeOK
  <1>2. \A s \in Streams :
            /\ step[s].status = (IF s \in Selected THEN "pending" ELSE "none")
            /\ step[s].applied = FALSE /\ step[s].lost = FALSE
    <2>1. step = [s \in Streams |->
                    [status |-> IF s \in Selected THEN "pending" ELSE "none",
                     applied |-> FALSE, reported |-> FALSE, lost |-> FALSE]]
      BY DEF Init
    <2>2. QED
      BY <2>1
  <1>3. \A i \in DOMAIN order : order[i] \in Streams /\ order[i] \in Selected
    BY <1>1, OrderFacts DEF Selected
  <1>4. Rows
    <2>1. Contract
      BY DEF Init, Contract
    <2>2. ChildRows
      BY <1>2 DEF ChildRows
    <2>3. InOrder
      BY <1>2, <1>3 DEF InOrder
    <2>4. Evidence /\ Waiting
      BY <1>2 DEF Init, Evidence, Waiting
    <2>5. QED
      BY <2>1, <2>2, <2>3, <2>4 DEF Rows
  <1>5. Progress /\ ApplyUnderHold
    BY DEF Init, Idle, Progress, Places, TakenChild, Passed, HelperAtWork, HoldProved,
           ApplyUnderHold, Working, Taken, Begun, Between, Settling
  <1>6. Restarts
    <2>1. /\ job.status = "pending" /\ job.restart = FALSE /\ job.raised = FALSE
          /\ surf.marker = "none" /\ surf.state = "absent" /\ w.pc = "down"
          /\ host.dirty = FALSE /\ host.armed = 0 /\ host.proving = 0 /\ host.receipt = 0
          /\ job.attempts = 0 /\ job.confirmed = FALSE /\ finalizer = "none" /\ wait = "none"
      BY DEF Init, Idle
    <2>2. Unscheduled
      BY <2>1 DEF Unscheduled, Units
    <2>3. Scheduled
      BY <2>1 DEF Scheduled, Units
    <2>4. Returned
      BY <2>1 DEF Returned
    <2>5. /\ step["photon"].status # "failed" /\ step["photon"].lost = FALSE
          /\ step["release"].lost = FALSE
      BY <1>2 DEF Streams
    <2>6. Duty
      BY <2>1, <2>5 DEF Duty, Overwritten
    <2>7. QED
      BY <2>2, <2>3, <2>4, <2>6 DEF Restarts
  <1>7. QED
    BY <1>1, <1>4, <1>5, <1>6 DEF IInv

(* Every step keeps the invariant, its parts in the order they depend.     *)
LEMMA InvStep ==
  ASSUME IInv, [Next]_vars
  PROVE  IInv'
  <1>1. TypeOK'
    BY TypeStep DEF IInv, Progress
  <1>2. Rows'
    BY <1>1, RowsStep DEF IInv
  <1>3. Progress' /\ ApplyUnderHold'
    BY <1>1, <1>2, ProgressStep DEF IInv
  <1>4. Restarts'
    BY <1>1, <1>2, RestartsStep DEF IInv
  <1>5. QED
    BY <1>1, <1>2, <1>3, <1>4 DEF IInv

(* The inductive invariant holds through every stream, completion, retry,  *)
(* recovery, crash and reboot of an installation (worker.py).              *)
THEOREM Invariance == Spec => []IInv
  BY InitInv, InvStep, PTL DEF Spec

(* Every variable keeps its type; in particular the position never leaves  *)
(* the stored order and no fourth restart is attempted                     *)
(* (_retry_appliance_update_restart).                                      *)
THEOREM TypeCorrect == Spec => []TypeOK
  <1>1. IInv => TypeOK
    BY DEF IInv
  <1>2. QED
    BY <1>1, Invariance, PTL

(* No installer is alive without the proved update-only surface            *)
(* (_publish_appliance_update_status before every apply).                  *)
THEOREM AppliesUnderHold == Spec => []ApplyUnderHold
  <1>1. IInv => ApplyUnderHold
    BY DEF IInv
  <1>2. QED
    BY <1>1, Invariance, PTL

(* The ordinary UIs return only over a quiet appliance: status-finish and  *)
(* every crash around it (_finish_appliance_update_status).                *)
THEOREM QuietWhenRestored == Spec => []RestoredIsQuiet
  <1>1. IInv => RestoredIsQuiet
    BY DEF IInv, RestoredIsQuiet, Progress, HelperAtWork, Restarts, Returned, Scheduled,
           Units, AllOver, Terminal
  <1>2. QED
    BY <1>1, Invariance, PTL

(* Changed packages are followed by the restart before the UIs return,     *)
(* except when an exception was recorded: by the handler of                *)
(* run_worker_once after a failed child, or as that child's own result     *)
(* (appliance_update_exception_result).                                    *)
THEOREM RestartDutyIsKept == Spec => []RestartDutyKept
  <1>1. IInv => RestartDutyKept
    BY DEF IInv, RestartDutyKept, Restarts, Duty, Forgotten, Overwritten
  <1>2. QED
    BY <1>1, Invariance, PTL

(* At most one delayed restart is under way: the grace period and the      *)
(* recorded dispatch outlast every earlier one                             *)
(* (_retry_appliance_update_restart, complete_appliance_update_task).      *)
THEOREM SingleRestart == Spec => []NoDuplicateRestart
  <1>1. IInv => NoDuplicateRestart
    BY DEF IInv, NoDuplicateRestart, Restarts, Scheduled, Units
  <1>2. QED
    BY <1>1, Invariance, PTL

(* A child is started at most once, whatever died after its first start    *)
(* (_set_appliance_update_step_running, recover_interrupted_worker_jobs).  *)
THEOREM ChildrenAreNotReplayed == Spec => NeverReplayed
  <1>1. ASSUME IInv, [Next]_vars
        PROVE  [w.pc = "stream" /\ w'.pc = "announce" =>
                  step[Stream].status = "pending" /\ ~step[Stream].applied]_vars
    <2>1. SUFFICES ASSUME w.pc = "stream", w'.pc = "announce"
                   PROVE  step[Stream].status = "pending" /\ ~step[Stream].applied
      OBVIOUS
    <2>2. w \in WorkerState /\ TypeOK
      BY <1>1 DEF IInv, TypeOK
    <2>3. TakeStream /\ step[Stream].status \notin Over
      <3>1. ~(Start \/ PassGate \/ RecoverNothing \/ ResumeJob \/ QuiesceHelper \/ CompleteRecovered \/ FailCancelled \/ RestoreUI)
        BY <2>1, <2>2
        DEF WorkerState, Goto, Idle, Announced, Complete, Start, PassGate,
            RecoverNothing, ResumeJob, QuiesceHelper, CompleteRecovered, FailCancelled,
            RestoreUI
      <3>2. ~(RetryRestart \/ RetrySchedule \/ Claim \/ Begin \/ Announce \/ CheckPhase \/ ApplyPhase \/ ApplyReturns)
        BY <2>1, <2>2
        DEF WorkerState, Goto, Idle, Announced, Complete, RetryRestart, RetrySchedule,
            Claim, Begin, Announce, CheckPhase, ApplyPhase, ApplyReturns
      <3>3. ~(RecordStep \/ ApplyRaises \/ ReportStep \/ CompleteRun \/ Raise \/ HandleRaise \/ DispatchRestart \/ ScheduleRestart \/ SettleSurface)
        BY <2>1, <2>2
        DEF WorkerState, Goto, Idle, Announced, Complete, RecordStep, ApplyRaises,
            ReportStep, CompleteRun, Raise, HandleRaise, DispatchRestart, ScheduleRestart,
            SettleSurface
      <3>4. ~(FinishBegin \/ FinishEnd \/ FinishFails \/ ReleaseEndsEarly \/ ReleaseBegins \/ ReleaseRestartsWorker \/ ReleaseCommits \/ ReleaseRollsBack)
        BY <2>1, <2>2
        DEF WorkerState, Goto, Idle, Announced, Complete, FinishBegin, FinishEnd,
            FinishFails, ReleaseEndsEarly, ReleaseBegins, ReleaseRestartsWorker,
            ReleaseCommits, ReleaseRollsBack
      <3>5. ~(RestartFires \/ RestartProves \/ RestartUnproved \/ WaitElapses \/ CancelPending \/ EvidenceBreaks \/ HelperExits \/ Crash)
        BY <2>1, <2>2
        DEF WorkerState, Goto, Idle, Announced, Complete, RestartFires, RestartProves,
            RestartUnproved, WaitElapses, CancelPending, EvidenceBreaks, HelperExits,
            Crash
      <3>6. ~(Reboot)
        BY <2>1, <2>2 DEF WorkerState, Goto, Idle, Announced, Complete, Reboot
      <3>7. TakeStream
        BY <1>1, <2>1, <3>1, <3>2, <3>3, <3>4, <3>5, <3>6
        DEF Next, Worker, Release, Restart, vars
      <3>8. QED
        BY <2>1, <2>2, <3>7 DEF TakeStream, WorkerState
    <2>4. Stream \in Streams /\ Stream \in Selected /\ step[Stream] \in StepRow
      BY <2>2, <2>3, StreamFacts DEF TakeStream
    <2>5. step[Stream].status # "running"
      BY <1>1, <2>1, <2>4 DEF IInv, Progress, TakenChild, Between
    <2>6. QED
      BY <1>1, <2>3, <2>4, <2>5 DEF IInv, Rows, ChildRows, StepRow
  <1>2. QED
    BY <1>1, Invariance, PTL DEF Spec, NeverReplayed
=============================================================================
