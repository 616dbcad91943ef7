---------------------------- MODULE VcfDepotProofs ----------------------------
(***************************************************************************)
(* TLAPS proofs about the VCF offline depot, for every set of profiles and *)
(* every number of tasks and faults.                                       *)
(***************************************************************************)
EXTENDS VcfDepot, FiniteSetTheorems, WellFoundedInduction, TLAPS

(* Requests, executors and queued downloads name what they are about.      *)
Named ==
    /\ req.op # "none" => req.prof \in Profiles
    /\ w.pc = "enqueue" => w.prof \in Profiles
    /\ exec.pc # "idle" => exec.job \in Jobs /\ job[exec.job].status # "absent"
    /\ w.pc \in {"run", "vcfdt"} <=> w.job # NoJob
    /\ exec.pc # "save" => exec.late = "no"
QueueNamed == \A j \in ActiveJobs : job[j].kind = "download" => job[j].prof \in Profiles

(* The index uq_jobs_running_vcf_depot_operation.                          *)
OneRunning == \A i, j \in Jobs : job[i].status = "running" /\ job[j].status = "running" => i = j

(* A helper unit belongs to a task that has begun; as long as none has     *)
(* outlived its web process, it belongs to the task that waits for it.     *)
UnitsBegun ==
    /\ \A j \in Jobs : unit[j].pc # "none" => job[j].status \notin {"absent", "pending"}
    /\ exec.pc = "call" => unit[exec.job].pc = "none"
UnitsAwaited ==
    /\ \A j \in Jobs : Alive(j) /\ ~outlived => exec.pc = "wait" /\ exec.job = j
    /\ \A j \in Jobs : unit[j].pc = "ended" =>
           exec.pc \in {"wait", "save"} /\ exec.job = j /\ unit[j].answer # None

(* What a helper or a startup has read is the identity of the tool.        *)
AnswersTrue ==
    ~outlived =>
      /\ \A j \in Jobs : unit[j].pc = "ended" /\ unit[j].answer \in Ids => unit[j].answer = runtime
      /\ web.pc = "read" /\ Replacing => web.answer \in {Unverified} \cup ({runtime} \ {None})

(* Staged credentials were issued for the recorded identity; when none is  *)
(* recorded, some staged in the window of the executor may remain.         *)
CredsMatch == stored # None => creds \in {None, stored}

(* The inductive invariant.                                                *)
Units == UnitsBegun /\ UnitsAwaited /\ AnswersTrue
Queue == QueueNamed /\ ActiveHasProfile /\ ReadyHasTask
Depot == Named /\ OneRunning /\ Units /\ CredsMatch /\ Queue
IInv  == TypeOK /\ Depot

-----------------------------------------------------------------------------
(* The operators of the model.                                             *)

(* The least of a set of numbers is one of them.                           *)
LEMMA MinMember ==
    ASSUME NEW S \in SUBSET Nat, S # {}
    PROVE  Min(S) \in S /\ \A y \in S : Min(S) <= y
  <1>1. PICK x \in S : \A y \in S : <<y, x>> \notin OpToRel(<, Nat)
    BY NatLessThanWellFounded, WFMin, Zenon
  <1>2. \A y \in S : x <= y
    <2>1. ASSUME NEW y \in S, y < x PROVE FALSE
      <3>1. y \in Nat /\ x \in Nat
        OBVIOUS
      <3>2. <<y, x>> \in {ss \in Nat \X Nat : ss[1] < ss[2]}
        BY <2>1, <3>1
      <3>3. QED
        BY <1>1, <3>2, Zenon DEF OpToRel
    <2>2. QED
      BY <2>1
  <1>3. QED
    BY <1>2, Zenon DEF Min

(* A new task takes a number that no task has had.                         *)
LEMMA NewJobAbsent ==
    ASSUME Room
    PROVE  NewJob \in Jobs /\ job[NewJob].status = "absent"
  <1> DEFINE S == {j \in Jobs : job[j].status = "absent"}
  <1>1. S \in SUBSET Nat /\ S # {}
    BY DepotConstants DEF Room, Jobs
  <1>2. Min(S) \in S
    BY <1>1, MinMember, Zenon
  <1>3. QED
    BY <1>2 DEF NewJob

(* The worker claims a download that waits and is not reserved.            *)
LEMMA ClaimsOne == Claimable # {} => Min(Claimable) \in Claimable
  <1>1. Claimable \in SUBSET Nat
    BY DepotConstants DEF Claimable, Jobs
  <1>2. QED
    BY <1>1, MinMember, Zenon

(* A fault is counted within the bound.                                    *)
LEMMA FaultTypes == ProcessTyped /\ Spend => faults' \in 0 .. MaxFaults
  BY DepotConstants DEF ProcessTyped, Spend

(* A queued, skipped or failed row is well typed.                          *)
LEMMA TaskTypes ==
    ASSUME NEW kind \in Kinds, NEW status \in Active \cup Ended,
           NEW p \in Profiles \cup {NoProfile}, NEW mark \in Marks
    PROVE  Task(kind, status, p, mark) \in Row
  BY DEF Task, Row

(* The rows of a profile, and the rows of a task, after an update.         *)
ProfileRow == [there : BOOLEAN, enabled : BOOLEAN, mark : Marks, hand : {"no", "yes"}]

LEMMA ProfileTypes ==
    ASSUME TablesTyped
    PROVE  /\ prof \in [Profiles -> ProfileRow]
           /\ \A r \in ProfileRow, v \in Marks : /\ Marked(r, v) \in ProfileRow
                                                 /\ Marked(r, v).there = r.there
                                                 /\ Marked(r, v).mark = v
           /\ Gone \in ProfileRow /\ ~Gone.there
  BY DEF TablesTyped, ProfileRow, Marked, Gone, Marks

(* What an edit leaves behind: a profile that turns ready says so.         *)
LEMMA SavedEffect ==
    ASSUME TablesTyped, ProcessTyped, NEW p \in Profiles, NEW on \in BOOLEAN, Saved(p, on)
    PROVE  /\ prof' \in [Profiles -> ProfileRow] /\ faults' \in 0 .. MaxFaults
           /\ \A q \in Profiles : /\ prof'[q].there = prof[q].there
                                  /\ prof'[q].mark = "ready" =>
                                       \/ prof'[q].hand = "yes"
                                       \/ prof[q].mark = "ready" /\ prof[q].hand # "yes"
  <1>1. CASE prof' = [prof EXCEPT ![p].enabled = on] /\ UNCHANGED faults
    BY <1>1 DEF TablesTyped, ProcessTyped, ProfileRow
  <1>2. ASSUME NEW mark \in Marks, Spend,
               prof' = [prof EXCEPT ![p] = [@ EXCEPT !.enabled = on, !.mark = mark,
                                                     !.hand = IF mark = "ready" THEN "yes" ELSE "no"]]
        PROVE  /\ prof' \in [Profiles -> ProfileRow] /\ faults' \in 0 .. MaxFaults
               /\ \A q \in Profiles : /\ prof'[q].there = prof[q].there
                                      /\ prof'[q].mark = "ready" =>
                                           \/ prof'[q].hand = "yes"
                                           \/ prof[q].mark = "ready" /\ prof[q].hand # "yes"
    <2>1. faults' \in 0 .. MaxFaults
      BY <1>2, FaultTypes
    <2> DEFINE row == [prof[p] EXCEPT !.enabled = on, !.mark = mark,
                                     !.hand = IF mark = "ready" THEN "yes" ELSE "no"]
    <2>2. /\ row \in ProfileRow /\ row.there = prof[p].there
          /\ row.mark = "ready" => row.hand = "yes"
      BY DEF TablesTyped, ProfileRow
    <2>3. prof' = [prof EXCEPT ![p] = row]
      BY <1>2, Zenon
    <2> HIDE DEF row
    <2>4. QED
      BY <2>1, <2>2, <2>3, ProfileTypes
  <1>3. QED
    BY <1>1, <1>2, DepotConstants, Zenon DEF Saved

(* A reserved row is well typed.                                           *)
LEMMA ReservedTypes == \A r \in Row : [r EXCEPT !.cancel = TRUE] \in Row
  BY DEF Row

(* So is the row of a task that was interrupted.                           *)
LEMMA InterruptedTypes == \A r \in Row : [r EXCEPT !.status = "interrupted"] \in Row
  BY DEF Row, Ended

(* A task that is claimed or ends keeps everything but its status.         *)
LEMMA FinishEffect ==
    ASSUME TablesTyped, NEW j \in Jobs, NEW status \in Active \cup Ended,
           job' = Finish(j, status)
    PROVE  /\ job' \in [Jobs -> Row]
           /\ job'[j].status = status
           /\ \A i \in Jobs : job'[i].kind = job[i].kind /\ job'[i].prof = job[i].prof
           /\ \A i \in Jobs \ {j} : job'[i] = job[i]
  BY DEF TablesTyped, Finish, Row

(* Processes that are idle or stopped are well typed.                      *)
LEMMA IdleTypes ==
    /\ IdleReq \in Req /\ IdleExec \in Exec /\ NoUnit \in Unit
    /\ Stopped \in Worker /\ [Stopped EXCEPT !.pc = "idle"] \in Worker
  BY DEF IdleReq, Req, IdleExec, Exec, NoUnit, Unit, Stopped, Worker, Marks, NoJob, None

(* What enqueue_vcf_depot_download leaves behind.                          *)
LEMMA EnqueueEffect ==
    ASSUME TablesTyped, Room, NEW p \in Profiles, NEW mark \in Marks, NEW on \in BOOLEAN,
           Enqueue(p, mark, on)
    PROVE  /\ job' \in [Jobs -> Row] /\ prof' \in [Profiles -> ProfileRow]
           /\ NewJob \in Jobs /\ job[NewJob].status = "absent"
           /\ job'[NewJob] = Task("download", "pending", p, mark)
           /\ \A j \in Jobs \ {NewJob} : job'[j] = job[j]
           /\ \A q \in Profiles : prof'[q].there = prof[q].there
           /\ \A q \in Profiles \ {p} : prof'[q] = prof[q]
  <1>1. Task("download", "pending", p, mark) \in Row
    BY TaskTypes DEF Kinds, Active
  <1>2. NewJob \in Jobs /\ job[NewJob].status = "absent"
    BY NewJobAbsent
  <1>3. /\ job' \in [Jobs -> Row]
        /\ job'[NewJob] = Task("download", "pending", p, mark)
        /\ \A j \in Jobs \ {NewJob} : job'[j] = job[j]
    BY <1>1, <1>2 DEF Enqueue, TablesTyped
  <1>4. /\ prof' \in [Profiles -> ProfileRow]
        /\ \A q \in Profiles : prof'[q].there = prof[q].there
        /\ \A q \in Profiles \ {p} : prof'[q] = prof[q]
    BY ProfileTypes DEF Enqueue, Marks
  <1>5. QED
    BY <1>2, <1>3, <1>4

(* What finish_pending leaves behind: a profile that read ready for a      *)
(* cancelled download does not any more.                                   *)
LEMMA FreedEffect ==
    ASSUME TablesTyped, NEW S \in SUBSET Jobs, Freed(S)
    PROVE  /\ job' \in [Jobs -> Row]
           /\ prof' \in [Profiles -> ProfileRow]
           /\ \A j \in S : job'[j] = [job[j] EXCEPT !.status = "cancelled"]
           /\ \A j \in Jobs \ S : job'[j] = job[j]
           /\ \A p \in Profiles :
                /\ prof'[p].there = prof[p].there
                /\ prof'[p].mark = "ready" =>
                     /\ prof'[p] = prof[p]
                     /\ \A j \in S : ~(job[j].kind = "download" /\ job[j].prof = p)
  <1>1. /\ job' \in [Jobs -> Row]
        /\ \A j \in S : job'[j] = [job[j] EXCEPT !.status = "cancelled"]
        /\ \A j \in Jobs \ S : job'[j] = job[j]
    BY ZenonT(60) DEF Freed, TablesTyped, Row, Ended
  <1>2. ASSUME NEW p \in Profiles
        PROVE  /\ prof'[p] \in ProfileRow
               /\ prof'[p].there = prof[p].there
               /\ prof'[p].mark = "ready" =>
                     /\ prof'[p] = prof[p]
                     /\ \A j \in S : ~(job[j].kind = "download" /\ job[j].prof = p)
    <2> DEFINE has == \E j \in S : job[j].kind = "download" /\ job[j].prof = p
               c == CHOOSE j \in S : job[j].kind = "download" /\ job[j].prof = p
    <2>1. prof'[p] = IF prof[p].mark = "ready" /\ has
                     THEN Marked(prof[p], Restored(job[c].before)) ELSE prof[p]
      BY DEF Freed
    <2>2. has => c \in S
      BY Zenon
    <2>3. has => Restored(job[c].before) \in Marks \ {"ready"}
      BY <2>2 DEF TablesTyped, Row, Restored, Marks
    <2> HIDE DEF c
    <2>4. QED
      BY <2>1, <2>3, ProfileTypes
  <1>3. prof' = [p \in Profiles |-> prof'[p]]
    BY DEF Freed
  <1>4. QED
    BY <1>1, <1>2, <1>3

-----------------------------------------------------------------------------
(* What the steps have in common.                                          *)

(* A step that adds no task and deletes no profile: no profile turns ready *)
(* but by an edit, and a profile that stays ready keeps its tasks or sees  *)
(* them interrupted.                                                       *)
LEMMA QueueKept ==
    ASSUME IInv,
           \A j \in Jobs :
             /\ job'[j].kind = job[j].kind /\ job'[j].prof = job[j].prof
             /\ job'[j].status \in Active => job[j].status \in Active
             /\ job[j].status = "interrupted" => job'[j].status = "interrupted",
           \A p \in Profiles :
             /\ prof'[p].there = prof[p].there
             /\ prof'[p].there /\ prof'[p].mark = "ready" =>
                  \/ prof'[p].hand = "yes"
                  \/ /\ prof[p].mark = "ready" /\ prof[p].hand # "yes"
                     /\ \A j \in DownloadOf(p) : job'[j].status \in Active \cup {"interrupted"}
    PROVE  Queue'
  <1> USE DEF IInv, Depot, Queue, ActiveJobs, Live
  <1>1. QueueNamed' /\ ActiveHasProfile'
    BY DEF QueueNamed, ActiveHasProfile
  <1>2. ReadyHasTask'
    <2> SUFFICES ASSUME NEW p \in Profiles, prof'[p].there, prof'[p].mark = "ready",
                        prof'[p].hand # "yes"
                 PROVE  \/ \E j \in Jobs : /\ job'[j].status \in Active
                                           /\ job'[j].kind = "download" /\ job'[j].prof = p
                        \/ \E j \in Jobs : job'[j].prof = p /\ job'[j].status = "interrupted"
      BY DEF ReadyHasTask, DownloadOf
    <2>1. \/ DownloadOf(p) # {}
          \/ \E j \in Jobs : job[j].prof = p /\ job[j].status = "interrupted"
      BY DEF ReadyHasTask
    <2>2. QED
      BY <2>1 DEF DownloadOf
  <1>3. QED
    BY <1>1, <1>2

(* A download is queued for a profile that is there; its profile may turn  *)
(* ready.                                                                  *)
LEMMA QueueGrows ==
    ASSUME IInv, NEW n \in Jobs, job[n].status = "absent",
           \A j \in Jobs \ {n} : job'[j] = job[j],
           job'[n].status \in Active => job'[n].kind # "download" \/
               (job'[n].prof \in Profiles /\ prof[job'[n].prof].there),
           \A p \in Profiles :
             /\ prof'[p].there = prof[p].there
             /\ prof'[p] = prof[p] \/
                  (job'[n].kind = "download" /\ job'[n].status \in Active /\ job'[n].prof = p)
    PROVE  Queue'
  <1> USE DEF IInv, Depot, Queue, ActiveJobs, Live, Active
  <1>1. QueueNamed' /\ ActiveHasProfile'
    BY DEF QueueNamed, ActiveHasProfile
  <1>2. ReadyHasTask'
    BY DEF ReadyHasTask, DownloadOf
  <1>3. QED
    BY <1>1, <1>2

(* A step of the tables alone: no task that has begun goes back, and no    *)
(* identity task begins.                                                   *)
LEMMA UnitsKept ==
    ASSUME IInv, UNCHANGED <<unit, exec, web, outlived, runtime>>,
           \A j \in Jobs :
             /\ job[j].status \notin {"absent", "pending"} =>
                    job'[j].status \notin {"absent", "pending"}
             /\ job'[j].kind = "identity" /\ job'[j].status = "running" =>
                    job[j].kind = "identity" /\ job[j].status = "running"
    PROVE  Units'
  BY DEF IInv, Depot, Units, UnitsBegun, UnitsAwaited, AnswersTrue, Alive, Replacing

(* A step that leaves every running task as it is keeps the executors.     *)
LEMMA ExecutorsKept ==
    ASSUME IInv, UNCHANGED <<exec, web, w>>, req' = req \/ req' = IdleReq,
           \A j \in Jobs :
             /\ job[j].status # "absent" =>
                    job'[j].kind = job[j].kind /\ job'[j].status # "absent"
             /\ job'[j].status = "running" <=> job[j].status = "running"
    PROVE  Executing' /\ Named' /\ OneRunning'
  BY DEF IInv, TypeOK, ProcessTyped, Exec, Worker, Depot, Executing, Named, OneRunning,
         IdleReq

-----------------------------------------------------------------------------
(* Every step keeps the invariant.                                         *)
LEMMA InvStep == IInv /\ [Next]_vars => IInv'
  <1> SUFFICES ASSUME IInv, [Next]_vars PROVE IInv'
    OBVIOUS
  <1> USE DepotConstants
      DEF IInv, TypeOK, Depot, setup, host, process, rest, Jobs, NoJob, None, Ids,
          Unverified, Untouched, Kinds, Exclusive, Active, Ended, Marks
  <1>1. CASE \E p \in Profiles : Due(p)
    <2> PICK p \in Profiles : Due(p)
      BY <1>1
    <2>1. w' \in Worker
      BY DEF Due, TablesTyped, ProcessTyped, Worker
    <2>2. TablesTyped' /\ SetupTyped' /\ HostTyped' /\ ProcessTyped' /\ CredsMatch'
      BY <2>1 DEF Due, TablesTyped, SetupTyped, HostTyped, ProcessTyped, CredsMatch
    <2>3. Units'
      BY UnitsKept DEF Due
    <2>4. Executing' /\ Named' /\ OneRunning'
      BY DEF Due, Executing, Named, OneRunning, ProcessTyped, Worker
    <2>5. Queue'
      BY QueueKept DEF Due, DownloadOf, ActiveJobs, Live
    <2>6. QED
      BY <2>2, <2>3, <2>4, <2>5
  <1>2. CASE \E p \in Profiles : Read(p)
    <2> PICK p \in Profiles : Read(p)
      BY <1>2
    <2>1. req' \in Req /\ req'.prof \in Profiles
      <3>1. CASE req' = [op |-> "download", prof |-> p, mark |-> prof[p].mark]
        BY <3>1 DEF TablesTyped, Req
      <3>2. CASE req' = [IdleReq EXCEPT !.op = "schedule", !.prof = p]
        BY <3>2 DEF IdleReq, Req
      <3>3. CASE req' = [IdleReq EXCEPT !.op = "enable", !.prof = p]
        BY <3>3 DEF IdleReq, Req
      <3>4. QED
        BY <3>1, <3>2, <3>3 DEF Read
    <2>2. UNCHANGED <<job, prof, sched, setup, host, exec, web, w, rest>>
      BY DEF Read
    <2>3. TablesTyped' /\ SetupTyped' /\ HostTyped' /\ ProcessTyped' /\ CredsMatch'
      BY <2>1, <2>2 DEF TablesTyped, SetupTyped, HostTyped, ProcessTyped, CredsMatch
    <2>4. Units'
      BY <2>2, UnitsKept
    <2>5. Executing' /\ Named' /\ OneRunning'
      BY <2>1, <2>2 DEF Executing, Named, OneRunning
    <2>6. Queue'
      BY <2>2, QueueKept DEF DownloadOf, ActiveJobs, Live
    <2>7. QED
      BY <2>3, <2>4, <2>5, <2>6
  <1>3. CASE \E p \in Profiles : EditProfile(p)
    <2> PICK p \in Profiles : EditProfile(p)
      BY <1>3
    <2>1. PICK on \in BOOLEAN : /\ Saved(p, on)
                               /\ sched' = [sched EXCEPT ![p] = IF on THEN @ ELSE Off(@)]
      BY Zenon DEF EditProfile
    <2>2. UNCHANGED <<job, setup, host, process, outlived>>
      BY DEF EditProfile
    <2>3. /\ prof' \in [Profiles -> ProfileRow] /\ faults' \in 0 .. MaxFaults
          /\ \A q \in Profiles : /\ prof'[q].there = prof[q].there
                                 /\ prof'[q].mark = "ready" =>
                                      \/ prof'[q].hand = "yes"
                                      \/ prof[q].mark = "ready" /\ prof[q].hand # "yes"
      BY <2>1, SavedEffect
    <2>4. TablesTyped' /\ SetupTyped' /\ HostTyped' /\ ProcessTyped' /\ CredsMatch'
      <3>1. sched' \in [Profiles -> {"none", "off", "on"}]
        BY <2>1 DEF Off, TablesTyped
      <3>2. QED
        BY <2>2, <2>3, <3>1
        DEF ProfileRow, TablesTyped, SetupTyped, HostTyped, ProcessTyped, CredsMatch
    <2>5. Units' /\ Executing' /\ Named' /\ OneRunning'
      BY <2>2, UnitsKept, ExecutorsKept
    <2>6. Queue'
      <3>1. \A q \in Profiles : \A j \in DownloadOf(q) : job'[j].status \in Active \cup {"interrupted"}
        BY <2>2 DEF DownloadOf, ActiveJobs, Live
      <3>2. \A j \in Jobs :
              /\ job'[j].kind = job[j].kind /\ job'[j].prof = job[j].prof
              /\ job'[j].status \in Active => job[j].status \in Active
              /\ job[j].status = "interrupted" => job'[j].status = "interrupted"
        BY <2>2
      <3>3. \A q \in Profiles :
              /\ prof'[q].there = prof[q].there
              /\ prof'[q].there /\ prof'[q].mark = "ready" =>
                  \/ prof'[q].hand = "yes"
                  \/ /\ prof[q].mark = "ready" /\ prof[q].hand # "yes"
                     /\ \A j \in DownloadOf(q) : job'[j].status \in Active \cup {"interrupted"}
        BY <2>3, <3>1, Zenon
      <3>4. QED
        BY <3>2, <3>3, QueueKept, Zenon
    <2>7. QED
      BY <2>4, <2>5, <2>6
  <1>4. CASE \E p \in Profiles : StopSchedule(p)
    <2> PICK p \in Profiles : StopSchedule(p)
      BY <1>4
    <2>1. TablesTyped' /\ SetupTyped' /\ HostTyped' /\ ProcessTyped' /\ CredsMatch'
      BY DEF StopSchedule, TablesTyped, SetupTyped, HostTyped, ProcessTyped, CredsMatch
    <2>2. Units'
      BY UnitsKept DEF StopSchedule
    <2>3. Executing' /\ Named' /\ OneRunning'
      BY ExecutorsKept DEF StopSchedule
    <2>4. Queue'
      BY QueueKept DEF StopSchedule, DownloadOf, ActiveJobs, Live
    <2>5. QED
      BY <2>1, <2>2, <2>3, <2>4
  <1>5. CASE \E p \in Profiles : DeleteProfile(p)
    <2> PICK p \in Profiles : DeleteProfile(p)
      BY <1>5
    <2>1. TablesTyped' /\ SetupTyped' /\ HostTyped' /\ ProcessTyped' /\ CredsMatch'
      BY ProfileTypes
      DEF DeleteProfile, ProfileRow, TablesTyped, SetupTyped, HostTyped, ProcessTyped,
          CredsMatch
    <2>2. Units'
      BY UnitsKept DEF DeleteProfile
    <2>3. Executing' /\ Named' /\ OneRunning'
      BY ExecutorsKept DEF DeleteProfile
    <2>4. /\ \A j \in ActiveJobs : job[j].kind = "download" => job[j].prof # p
          /\ \A q \in Profiles \ {p} : prof'[q] = prof[q]
          /\ ~prof'[p].there
      BY DEF DeleteProfile, Gone, Unused, DownloadOf, TablesTyped
    <2>5. Queue'
      BY <2>4
      DEF DeleteProfile, Queue, QueueNamed, ActiveHasProfile, ReadyHasTask, DownloadOf,
                  ActiveJobs, Live
    <2>6. QED
      BY <2>1, <2>2, <2>3, <2>5
  <1>6. CASE StartDownload
    <2>1. UNCHANGED <<sched, setup, host, exec, web, w, rest>> /\ req' = IdleReq
      BY <1>6 DEF StartDownload
    <2>2. req.prof \in Profiles /\ req.mark \in Marks
      BY <1>6 DEF StartDownload, Named, ProcessTyped, Req
    <2>3. CASE UNCHANGED <<job, prof>>
      <3>1. TablesTyped' /\ SetupTyped' /\ HostTyped' /\ ProcessTyped' /\ CredsMatch'
        BY <2>1, <2>3, IdleTypes
        DEF TablesTyped, SetupTyped, HostTyped, ProcessTyped, CredsMatch
      <3>2. Units' /\ Executing' /\ Named' /\ OneRunning'
        BY <2>1, <2>3, UnitsKept, ExecutorsKept
      <3>3. Queue'
        BY <2>3, QueueKept DEF DownloadOf, ActiveJobs, Live
      <3>4. QED
        BY <3>1, <3>2, <3>3
    <2>4. CASE Admissible(req.prof) /\ Room /\ Enqueue(req.prof, req.mark, TRUE)
      <3>1. /\ TablesTyped'
            /\ NewJob \in Jobs /\ job[NewJob].status = "absent"
            /\ job'[NewJob] = Task("download", "pending", req.prof, req.mark)
            /\ \A j \in Jobs \ {NewJob} : job'[j] = job[j]
            /\ \A q \in Profiles : prof'[q].there = prof[q].there
            /\ \A q \in Profiles \ {req.prof} : prof'[q] = prof[q]
        BY ZenonT(60), <2>1, <2>2, <2>4, EnqueueEffect DEF TablesTyped, ProfileRow
      <3>2. SetupTyped' /\ HostTyped' /\ ProcessTyped' /\ CredsMatch'
        BY <2>1, IdleTypes
        DEF TablesTyped, SetupTyped, HostTyped, ProcessTyped, CredsMatch
      <3>3. Units'
        BY <2>1, <3>1, UnitsKept DEF Task
      <3>4. Executing' /\ Named' /\ OneRunning'
        BY <2>1, <3>1, ExecutorsKept DEF Task
      <3>5. Queue'
        BY <2>2, <2>4, <3>1, QueueGrows DEF Task, Admissible
      <3>6. QED
        BY <3>1, <3>2, <3>3, <3>4, <3>5
    <2>5. QED
      BY <1>6, <2>3, <2>4 DEF StartDownload
  <1>7. CASE AddSchedule
    <2>1. TablesTyped' /\ SetupTyped' /\ HostTyped' /\ ProcessTyped' /\ CredsMatch'
      BY <1>7, IdleTypes
      DEF AddSchedule, TablesTyped, SetupTyped, HostTyped, ProcessTyped, CredsMatch
    <2>2. Units'
      BY <1>7, UnitsKept DEF AddSchedule
    <2>3. Executing' /\ Named' /\ OneRunning'
      BY <1>7, ExecutorsKept DEF AddSchedule
    <2>4. Queue'
      BY <1>7, QueueKept DEF AddSchedule, DownloadOf, ActiveJobs, Live
    <2>5. QED
      BY <2>1, <2>2, <2>3, <2>4
  <1>8. CASE EnableProfile
    <2>1. UNCHANGED <<job, sched, setup, host, exec, web, w, outlived>> /\ req' = IdleReq
      BY <1>8 DEF EnableProfile
    <2>2. /\ prof' \in [Profiles -> ProfileRow] /\ faults' \in 0 .. MaxFaults
          /\ \A q \in Profiles : /\ prof'[q].there = prof[q].there
                                 /\ prof'[q].mark = "ready" =>
                                      \/ prof'[q].hand = "yes"
                                      \/ prof[q].mark = "ready" /\ prof[q].hand # "yes"
      <3>1. CASE UNCHANGED <<prof, faults>>
        BY <3>1, ProfileTypes DEF ProcessTyped
      <3>2. CASE Saved(req.prof, TRUE)
        BY <1>8, <3>2, SavedEffect DEF EnableProfile, Named
      <3>3. QED
        BY <1>8, <3>1, <3>2 DEF EnableProfile
    <2>3. TablesTyped' /\ SetupTyped' /\ HostTyped' /\ ProcessTyped' /\ CredsMatch'
      BY <2>1, <2>2, IdleTypes
      DEF ProfileRow, TablesTyped, SetupTyped, HostTyped, ProcessTyped, CredsMatch
    <2>4. Units' /\ Executing' /\ Named' /\ OneRunning'
      BY <2>1, UnitsKept, ExecutorsKept
    <2>5. Queue'
      <3>1. \A q \in Profiles : \A j \in DownloadOf(q) : job'[j].status \in Active \cup {"interrupted"}
        BY <2>1 DEF DownloadOf, ActiveJobs, Live
      <3>2. \A j \in Jobs :
              /\ job'[j].kind = job[j].kind /\ job'[j].prof = job[j].prof
              /\ job'[j].status \in Active => job[j].status \in Active
              /\ job[j].status = "interrupted" => job'[j].status = "interrupted"
        BY <2>1
      <3>3. \A q \in Profiles :
              /\ prof'[q].there = prof[q].there
              /\ prof'[q].there /\ prof'[q].mark = "ready" =>
                  \/ prof'[q].hand = "yes"
                  \/ /\ prof[q].mark = "ready" /\ prof[q].hand # "yes"
                     /\ \A j \in DownloadOf(q) : job'[j].status \in Active \cup {"interrupted"}
        BY <2>2, <3>1, Zenon
      <3>4. QED
        BY <3>2, <3>3, QueueKept, Zenon
    <2>6. QED
      BY <2>3, <2>4, <2>5
  <1>9. CASE \E j \in Jobs : RequestCancel(j)
    <2> PICK j \in Jobs : RequestCancel(j)
      BY <1>9
    <2>1. TablesTyped' /\ SetupTyped' /\ HostTyped' /\ ProcessTyped' /\ CredsMatch'
      <3>1. job' \in [Jobs -> Row]
        BY ReservedTypes DEF RequestCancel, TablesTyped
      <3>2. QED
        BY <3>1
        DEF RequestCancel, TablesTyped, SetupTyped, HostTyped, ProcessTyped, CredsMatch
    <2>2. Units'
      BY UnitsKept DEF RequestCancel, TablesTyped, Row
    <2>3. Executing' /\ Named' /\ OneRunning'
      BY ExecutorsKept DEF RequestCancel, TablesTyped, Row
    <2>4. Queue'
      BY QueueKept DEF RequestCancel, TablesTyped, Row, DownloadOf, ActiveJobs, Live
    <2>5. QED
      BY <2>1, <2>2, <2>3, <2>4
  <1>10. CASE \E j \in Jobs : FinishCancel(j)
    <2> PICK k \in Jobs : FinishCancel(k)
      BY <1>10
    <2> DEFINE S == {k}
    <2>1. /\ S \in SUBSET Jobs /\ Freed(S) /\ \A j \in S : job[j].status = "pending"
          /\ UNCHANGED <<sched, setup, host, process, rest>>
      BY Zenon DEF FinishCancel, Reserved
    <2> HIDE DEF S
    <2>2. /\ job' \in [Jobs -> Row]
          /\ prof' \in [Profiles -> ProfileRow]
          /\ \A j \in S : job'[j] = [job[j] EXCEPT !.status = "cancelled"]
          /\ \A j \in Jobs \ S : job'[j] = job[j]
          /\ \A p \in Profiles :
                /\ prof'[p].there = prof[p].there
                /\ prof'[p].mark = "ready" =>
                     /\ prof'[p] = prof[p]
                     /\ \A j \in S : ~(job[j].kind = "download" /\ job[j].prof = p)
      BY <2>1, FreedEffect DEF ProfileRow
    <2>3. \A j \in Jobs : /\ job'[j].kind = job[j].kind /\ job'[j].prof = job[j].prof
                          /\ j \in S => job[j].status = "pending" /\ job'[j].status = "cancelled"
                          /\ j \notin S => job'[j].status = job[j].status
      <3> SUFFICES ASSUME NEW j \in Jobs
                   PROVE  /\ job'[j].kind = job[j].kind /\ job'[j].prof = job[j].prof
                          /\ j \in S => job'[j].status = "cancelled"
                          /\ j \notin S => job'[j].status = job[j].status
        BY <2>1
      <3>1. job[j] \in Row
        BY DEF TablesTyped
      <3>2. CASE j \in S
        <4>1. job'[j] = [job[j] EXCEPT !.status = "cancelled"]
          BY <2>2, <3>2, Zenon
        <4>2. QED
          BY <3>1, <3>2, <4>1 DEF Row
      <3>3. CASE j \notin S
        BY <2>2, <3>3
      <3>4. QED
        BY <3>2, <3>3
    <2>4. TablesTyped' /\ SetupTyped' /\ HostTyped' /\ ProcessTyped' /\ CredsMatch'
      BY <2>1, <2>2
      DEF ProfileRow, TablesTyped, SetupTyped, HostTyped, ProcessTyped, CredsMatch
    <2>5. Units'
      BY <2>1, <2>3, UnitsKept
    <2>6. Executing' /\ Named' /\ OneRunning'
      BY <2>1, <2>3, ExecutorsKept
    <2>7. Queue'
      BY <2>1, <2>2, <2>3, QueueKept DEF DownloadOf, ActiveJobs, Live
    <2>8. QED
      BY <2>4, <2>5, <2>6, <2>7
  <1>11. CASE UploadTool
    <2>1. TablesTyped' /\ SetupTyped' /\ HostTyped' /\ ProcessTyped' /\ CredsMatch'
      BY <1>11
      DEF UploadTool, TablesTyped, SetupTyped, HostTyped, ProcessTyped, CredsMatch
    <2>2. Units'
      BY <1>11, UnitsKept DEF UploadTool
    <2>3. Executing' /\ Named' /\ OneRunning'
      BY <1>11, ExecutorsKept DEF UploadTool
    <2>4. Queue'
      BY <1>11, QueueKept DEF UploadTool, DownloadOf, ActiveJobs, Live
    <2>5. QED
      BY <2>1, <2>2, <2>3, <2>4
  <1>12. CASE ResetTool
    <2>1. /\ UNCHANGED <<job, host, process, rest>>
          /\ package' = FALSE /\ stored' = None /\ creds' = None
      BY <1>12 DEF ResetTool
    <2>2. sched' \in [Profiles -> {"none", "off", "on"}]
      BY <1>12 DEF ResetTool, Off, TablesTyped
    <2>3. /\ prof' \in [Profiles -> ProfileRow]
          /\ \A p \in Profiles : /\ prof'[p].there = prof[p].there
                                 /\ prof[p].there => prof'[p].mark = "planned"
      BY <1>12 DEF ResetTool, Marked, TablesTyped, ProfileRow
    <2>4. TablesTyped' /\ HostTyped' /\ ProcessTyped' /\ CredsMatch'
      BY <2>1, <2>2, <2>3
      DEF ProfileRow, TablesTyped, HostTyped, ProcessTyped, CredsMatch
    <2>5. SetupTyped'
      BY <2>1 DEF SetupTyped
    <2>6. Units'
      BY <2>1, UnitsKept
    <2>7. Executing' /\ Named' /\ OneRunning'
      BY <2>1, ExecutorsKept
    <2>8. Queue'
      <3>1. \A p \in Profiles : prof'[p].there => prof'[p].mark # "ready"
        BY <2>3
      <3>2. QED
        BY <2>1, <2>3, <3>1, QueueKept
    <2>9. QED
      BY <2>4, <2>5, <2>6, <2>7, <2>8
  <1>13. CASE StageCredentials
    <2>1. UNCHANGED <<job, prof, sched, package, stored, host, req, web, w, rest>> /\ creds' = stored
      BY <1>13 DEF StageCredentials
    <2>2. /\ exec' \in Exec /\ exec'.pc = exec.pc /\ exec'.job = exec.job
          /\ exec.pc # "save" => exec' = exec
      BY <1>13 DEF StageCredentials, ProcessTyped, Exec
    <2>3. TablesTyped' /\ SetupTyped' /\ HostTyped' /\ ProcessTyped' /\ CredsMatch'
      BY <2>1, <2>2 DEF TablesTyped, SetupTyped, HostTyped, ProcessTyped, CredsMatch
    <2>4. Units'
      BY <2>1, <2>2 DEF Units, UnitsBegun, UnitsAwaited, AnswersTrue, Alive, Replacing
    <2>5. Executing' /\ Named' /\ OneRunning'
      BY <2>1, <2>2 DEF Executing, Named, OneRunning
    <2>6. Queue'
      BY <2>1, QueueKept DEF DownloadOf, ActiveJobs, Live
    <2>7. QED
      BY <2>3, <2>4, <2>5, <2>6
  <1>14. CASE \E kind \in Exclusive : SubmitExclusive(kind)
    <2> PICK kind \in Exclusive : SubmitExclusive(kind)
      BY <1>14
    <2>1. NewJob \in Jobs /\ job[NewJob].status = "absent"
      BY NewJobAbsent DEF SubmitExclusive
    <2>2. Task(kind, "pending", NoProfile, "planned") \in Row
      BY TaskTypes
    <2>3. /\ job' \in [Jobs -> Row]
          /\ job'[NewJob] = Task(kind, "pending", NoProfile, "planned")
          /\ \A j \in Jobs \ {NewJob} : job'[j] = job[j]
      BY <2>1, <2>2 DEF SubmitExclusive, TablesTyped
    <2>4. /\ exec' = [pc |-> "begin", job |-> NewJob, step |-> "none", late |-> "no"]
          /\ exec.pc = "idle" /\ web.pc = "up" /\ UNCHANGED <<prof, sched, setup, host, req, web, w, rest>>
      BY DEF SubmitExclusive, Up, IdleExec
    <2>5. TablesTyped' /\ SetupTyped' /\ HostTyped' /\ ProcessTyped' /\ CredsMatch'
      BY <2>1, <2>3, <2>4
      DEF Exec, TablesTyped, SetupTyped, HostTyped, ProcessTyped, CredsMatch
    <2>6. Units'
      BY <2>1, <2>3, <2>4
      DEF Task, Units, UnitsBegun, UnitsAwaited, AnswersTrue, Alive, Replacing
    <2>7. Executing' /\ Named' /\ OneRunning'
      BY SMTT(30), <2>1, <2>3, <2>4 DEF Task, Executing, Named, OneRunning, ProcessTyped, Worker
    <2>8. Queue'
      BY <2>1, <2>3, <2>4, QueueGrows DEF Task
    <2>9. QED
      BY <2>5, <2>6, <2>7, <2>8
  <1>15. CASE Begin
    <2> DEFINE j == exec.job
    <2>1. j \in Jobs /\ job[j].kind \in Exclusive
      BY <1>15 DEF Begin, Named, Executing
    <2>2. UNCHANGED <<prof, sched, setup, host, req, web, w, rest>> /\ exec.pc = "begin"
      BY <1>15 DEF Begin
    <2>3. CASE exec' = IdleExec /\ UNCHANGED job
      <3>1. TablesTyped' /\ SetupTyped' /\ HostTyped' /\ ProcessTyped' /\ CredsMatch'
        BY <2>2, <2>3, IdleTypes
        DEF TablesTyped, SetupTyped, HostTyped, ProcessTyped, CredsMatch
      <3>2. Units' /\ Executing' /\ Named' /\ OneRunning'
        BY <2>2, <2>3
        DEF Units, UnitsBegun, UnitsAwaited, AnswersTrue, Alive, Replacing,
                          Executing, Named, OneRunning, IdleExec
      <3>3. Queue'
        BY <2>2, <2>3, QueueKept DEF DownloadOf, ActiveJobs, Live
      <3>4. QED
        BY <3>1, <3>2, <3>3
    <2>4. CASE job[j].status = "pending" /\ ~job[j].cancel
      <3>1. NoneRunning /\ job' = Finish(j, "running")
        BY <1>15, <2>4 DEF Begin
      <3>2. PICK step \in {"none", "generate", "reset"} :
                exec' = [pc |-> "call", job |-> j, step |-> step, late |-> "no"]
        BY <1>15, <2>4 DEF Begin, Steps, IdleExec
      <3>3. /\ job' \in [Jobs -> Row] /\ job'[j].status = "running"
            /\ \A i \in Jobs : job'[i].kind = job[i].kind /\ job'[i].prof = job[i].prof
            /\ \A i \in Jobs \ {j} : job'[i] = job[i]
        BY <2>1, <3>1, FinishEffect
      <3>4. TablesTyped' /\ SetupTyped' /\ HostTyped' /\ ProcessTyped' /\ CredsMatch'
        BY <2>1, <2>2, <3>2, <3>3
        DEF Exec, TablesTyped, SetupTyped, HostTyped, ProcessTyped, CredsMatch
      <3>5. Units'
        BY <2>1, <2>2, <2>4, <3>2, <3>3
        DEF Units, UnitsBegun, UnitsAwaited, AnswersTrue, Alive, Replacing, Executing
      <3>6. Executing' /\ Named' /\ OneRunning'
        <4>1. \A i \in Jobs : job[i].status # "running"
          BY <3>1 DEF NoneRunning
        <4>2. OneRunning'
          BY <3>3, <4>1 DEF OneRunning
        <4>3. Named'
          BY <2>1, <2>2, <3>2, <3>3 DEF Named
        <4>4. w.job = NoJob
          BY <4>1 DEF Executing, ProcessTyped, Worker
        <4>5. Executing'
          BY <2>1, <2>2, <3>2, <3>3, <4>4 DEF Executing
        <4>6. QED
          BY <4>2, <4>3, <4>5
      <3>7. Queue'
        BY <2>1, <2>2, <2>4, <3>3, QueueKept DEF DownloadOf, ActiveJobs, Live
      <3>8. QED
        BY <3>4, <3>5, <3>6, <3>7
    <2>5. QED
      BY <1>15, <2>3, <2>4 DEF Begin
  <1>16. CASE Call
    <2> DEFINE j == exec.job
    <2>1. /\ j \in Jobs /\ job[j].kind \in Exclusive /\ job[j].status = "running"
          /\ unit[j].pc = "none" /\ exec.pc = "call" /\ web.pc = "up"
      BY <1>16 DEF Call, Named, Executing, Units, UnitsBegun
    <2>2. UNCHANGED <<prof, sched, setup, ids, req, web, w, rest>>
      BY <1>16 DEF Call
    <2>3. CASE /\ unit' = [unit EXCEPT ![j].pc = "called"]
               /\ exec' = [exec EXCEPT !.pc = "wait"] /\ UNCHANGED <<job, runtime>>
      <3>1. unit' \in [Jobs -> Unit] /\ exec' \in Exec
        BY <2>3 DEF HostTyped, Unit, ProcessTyped, Exec
      <3>2. TablesTyped' /\ SetupTyped' /\ HostTyped' /\ ProcessTyped' /\ CredsMatch'
        BY <2>2, <2>3, <3>1
        DEF TablesTyped, SetupTyped, HostTyped, ProcessTyped, CredsMatch
      <3>3. /\ unit'[j].pc = "called" /\ \A i \in Jobs \ {j} : unit'[i] = unit[i]
            /\ exec'.pc = "wait" /\ exec'.job = j /\ exec'.late = exec.late
        BY <2>1, <2>3 DEF HostTyped, Unit, ProcessTyped, Exec
      <3>4. Units'
        BY <2>1, <2>2, <2>3, <3>3
        DEF Units, UnitsBegun, UnitsAwaited, AnswersTrue, Alive, Replacing
      <3>5. Executing' /\ Named' /\ OneRunning'
        BY <2>1, <2>2, <2>3, <3>3 DEF Executing, Named, OneRunning
      <3>6. Queue'
        BY <2>2, <2>3, QueueKept DEF DownloadOf, ActiveJobs, Live
      <3>7. QED
        BY <3>2, <3>4, <3>5, <3>6
    <2>4. CASE /\ \E status \in {"succeeded", "failed"} : job' = Finish(j, status)
               /\ exec' = IdleExec /\ UNCHANGED unit /\ runtime' \in {None, runtime}
      <3>1. /\ job' \in [Jobs -> Row] /\ job'[j].status \in {"succeeded", "failed"}
            /\ \A i \in Jobs : job'[i].kind = job[i].kind /\ job'[i].prof = job[i].prof
            /\ \A i \in Jobs \ {j} : job'[i] = job[i]
        BY <2>1, <2>4, FinishEffect
      <3>2. TablesTyped' /\ SetupTyped' /\ HostTyped' /\ ProcessTyped' /\ CredsMatch'
        BY <2>2, <2>4, <3>1, IdleTypes
        DEF TablesTyped, SetupTyped, HostTyped, ProcessTyped, CredsMatch
      <3>3. Units'
        BY <2>1, <2>2, <2>4, <3>1
        DEF Units, UnitsBegun, UnitsAwaited, AnswersTrue, Alive, Replacing, IdleExec
      <3>4. Executing' /\ Named' /\ OneRunning'
        BY <2>1, <2>2, <2>4, <3>1
        DEF Executing, Named, OneRunning, IdleExec, ProcessTyped, Worker
      <3>5. Queue'
        BY <2>1, <2>2, <3>1, QueueKept DEF DownloadOf, ActiveJobs, Live
      <3>6. QED
        BY <3>2, <3>3, <3>4, <3>5
    <2>5. QED
      BY <1>16, <2>3, <2>4 DEF Call
  <1>17. CASE Persist \/ PersistRaises
    <2> DEFINE j == exec.job
    <2>1. /\ j \in Jobs /\ job[j].kind \in Exclusive /\ job[j].status = "running"
          /\ unit[j].pc = "ended" /\ exec.pc \in {"wait", "save"} /\ web.pc = "up"
      BY <1>17 DEF Persist, PersistRaises, AtCommit, Named, Executing
    <2>2. /\ UNCHANGED <<prof, sched, package, runtime, ids, req, web, w, outlived>>
          /\ exec' = IdleExec /\ unit' = [unit EXCEPT ![j] = NoUnit]
          /\ \E status \in {"succeeded", "failed", "raised"} : job' = Finish(j, status)
      BY <1>17 DEF Persist, PersistRaises
    <2>3. SetupTyped' /\ CredsMatch'
      <3>1. CASE Persist
        <4>1. /\ stored' = IF unit[j].answer \in Ids THEN unit[j].answer
                           ELSE IF unit[j].answer = Unverified THEN None ELSE stored
              /\ creds' \in IF unit[j].answer = Untouched THEN {creds} ELSE Outlive
              /\ exec.pc = "save" <=> unit[j].answer = Unverified
          BY <3>1 DEF Persist, AtCommit, Answer
        <4>2. Outlive \subseteq {None, creds} /\ (exec.pc = "wait" => Outlive = {None})
          BY DEF Outlive, Named
        <4>3. QED
          BY <2>1, <2>2, <4>1, <4>2 DEF SetupTyped, CredsMatch, HostTyped, Unit
      <3>2. CASE PersistRaises
        BY <3>2 DEF PersistRaises, SetupTyped, CredsMatch
      <3>3. QED
        BY <1>17, <3>1, <3>2
    <2>4. /\ job' \in [Jobs -> Row] /\ job'[j].status \in {"succeeded", "failed", "raised"}
          /\ \A i \in Jobs : job'[i].kind = job[i].kind /\ job'[i].prof = job[i].prof
          /\ \A i \in Jobs \ {j} : job'[i] = job[i]
      BY <2>1, <2>2, FinishEffect
    <2>5. TablesTyped' /\ HostTyped' /\ ProcessTyped'
      <3>1. faults' \in 0 .. MaxFaults
        BY <1>17, FaultTypes DEF Persist, PersistRaises, ProcessTyped
      <3>2. QED
        BY <2>2, <2>4, <3>1, IdleTypes DEF TablesTyped, HostTyped, ProcessTyped
    <2>6. unit'[j] = NoUnit /\ \A i \in Jobs \ {j} : unit'[i] = unit[i]
      BY <2>1, <2>2 DEF HostTyped
    <2>7. Units'
      <3>1. UnitsBegun'
        BY <2>1, <2>2, <2>4, <2>6 DEF Units, UnitsBegun, IdleExec, NoUnit
      <3>2. UnitsAwaited'
        BY <2>1, <2>2, <2>4, <2>6 DEF Units, UnitsAwaited, Alive, IdleExec, NoUnit
      <3>3. AnswersTrue'
        BY <2>1, <2>2, <2>4, <2>6
        DEF Units, AnswersTrue, UnitsAwaited, Alive, Replacing, Executing, IdleExec,
            NoUnit
      <3>4. QED
        BY <3>1, <3>2, <3>3 DEF Units
    <2>8. Executing' /\ Named' /\ OneRunning'
      BY <2>1, <2>2, <2>4
      DEF Executing, Named, OneRunning, IdleExec, ProcessTyped, Worker
    <2>9. Queue'
      BY <2>1, <2>2, <2>4, QueueKept DEF DownloadOf, ActiveJobs, Live
    <2>10. QED
      BY <2>3, <2>5, <2>7, <2>8, <2>9
  <1>18. CASE \E j \in Jobs : Generate(j)
    <2> PICK j \in Jobs : Generate(j)
      BY <1>18
    <2>1. UNCHANGED <<job, prof, sched, setup, process, rest>> /\ unit[j].pc = "called"
      BY DEF Generate
    <2>2. /\ unit' \in [Jobs -> Unit] /\ \A i \in Jobs \ {j} : unit'[i] = unit[i]
          /\ runtime' \in Ids \cup {None} /\ ids' \in Ids
          /\ \/ unit'[j].pc = "made"
             \/ unit'[j] = NoUnit /\ runtime' = runtime
             \/ /\ unit'[j] = [pc |-> "ended", answer |-> Untouched] /\ runtime' = runtime
                /\ exec.pc = "wait" /\ exec.job = j
      <3>1. CASE /\ runtime' = ids + 1 /\ ids' = ids + 1
                 /\ unit' = [unit EXCEPT ![j].pc = "made"]
        BY SMTT(30), <3>1 DEF HostTyped, Unit
      <3>2. CASE unit' = [unit EXCEPT ![j] = Answered(j, Untouched)] /\ UNCHANGED <<runtime, ids>>
        BY <3>2, IdleTypes DEF HostTyped, Unit, Answered
      <3>3. QED
        BY <3>1, <3>2 DEF Generate
    <2>3. TablesTyped' /\ SetupTyped' /\ HostTyped' /\ ProcessTyped' /\ CredsMatch'
      BY <2>1, <2>2 DEF TablesTyped, SetupTyped, HostTyped, ProcessTyped, CredsMatch
    <2>4. Units'
      <3>1. UnitsBegun'
        BY <2>1, <2>2 DEF Units, UnitsBegun, NoUnit, Named
      <3>2. UnitsAwaited'
        BY <2>1, <2>2 DEF Units, UnitsAwaited, Alive, NoUnit
      <3>3. AnswersTrue'
        BY <2>1, <2>2
        DEF Units, AnswersTrue, UnitsAwaited, Alive, Replacing, Executing, NoUnit
      <3>4. QED
        BY <3>1, <3>2, <3>3 DEF Units
    <2>5. Executing' /\ Named' /\ OneRunning'
      BY <2>1, ExecutorsKept
    <2>6. Queue'
      BY <2>1, QueueKept DEF DownloadOf, ActiveJobs, Live
    <2>7. QED
      BY <2>3, <2>4, <2>5, <2>6
  <1>19. CASE \E j \in Jobs : ReadBack(j)
    <2> PICK j \in Jobs : ReadBack(j)
      BY <1>19
    <2>1. UNCHANGED <<job, prof, sched, setup, runtime, ids, process, rest>> /\ unit[j].pc = "made"
      BY DEF ReadBack
    <2>2. /\ unit' \in [Jobs -> Unit] /\ \A i \in Jobs \ {j} : unit'[i] = unit[i]
          /\ \/ unit'[j] = NoUnit
             \/ /\ unit'[j].pc = "ended" /\ unit'[j].answer \in {Unverified, runtime} \ {None}
                /\ exec.pc = "wait" /\ exec.job = j
      <3>1. PICK a \in {Unverified} \cup ({runtime} \ {None}) :
                unit' = [unit EXCEPT ![j] = Answered(j, a)]
        BY DEF ReadBack
      <3>2. QED
        BY <3>1, IdleTypes DEF HostTyped, Unit, Answered
    <2>3. TablesTyped' /\ SetupTyped' /\ HostTyped' /\ ProcessTyped' /\ CredsMatch'
      BY <2>1, <2>2 DEF TablesTyped, SetupTyped, HostTyped, ProcessTyped, CredsMatch
    <2>4. Units'
      <3>1. UnitsBegun'
        BY <2>1, <2>2 DEF Units, UnitsBegun, NoUnit, Named
      <3>2. UnitsAwaited'
        BY <2>1, <2>2 DEF Units, UnitsAwaited, Alive, NoUnit
      <3>3. AnswersTrue'
        BY <2>1, <2>2
        DEF Units, AnswersTrue, UnitsAwaited, Alive, Replacing, Executing, NoUnit
      <3>4. QED
        BY <3>1, <3>2, <3>3 DEF Units
    <2>5. Executing' /\ Named' /\ OneRunning'
      BY <2>1, ExecutorsKept
    <2>6. Queue'
      BY <2>1, QueueKept DEF DownloadOf, ActiveJobs, Live
    <2>7. QED
      BY <2>3, <2>4, <2>5, <2>6
  <1>20. CASE StartupRead
    <2>1. TablesTyped' /\ SetupTyped' /\ HostTyped' /\ ProcessTyped' /\ CredsMatch'
      BY <1>20
      DEF StartupRead, TablesTyped, SetupTyped, HostTyped, ProcessTyped, CredsMatch
    <2>2. Units'
      BY <1>20
      DEF StartupRead, Units, UnitsBegun, UnitsAwaited, AnswersTrue, Alive, Replacing
    <2>3. Executing' /\ Named' /\ OneRunning'
      BY <1>20 DEF StartupRead, Executing, Named, OneRunning
    <2>4. Queue'
      BY <1>20, QueueKept DEF StartupRead, DownloadOf, ActiveJobs, Live
    <2>5. QED
      BY <2>1, <2>2, <2>3, <2>4
  <1>21. CASE StartupCommit
    <2>1. /\ web' = [pc |-> "up", answer |-> None] /\ web.pc = "read"
          /\ UNCHANGED <<prof, sched, package, host, req, exec, w, rest>>
      BY <1>21 DEF StartupCommit
    <2>2. /\ job' \in [Jobs -> Row]
          /\ \A j \in Jobs : job'[j] = job[j] \/
               (/\ job[j].kind \in Exclusive /\ job[j].status \in Active
                /\ job'[j] = [job[j] EXCEPT !.status = "interrupted"])
      <3>1. \A j \in Jobs : job[j] \in Row
        BY DEF TablesTyped
      <3>2. QED
        BY <1>21, <3>1, InterruptedTypes, Zenon DEF StartupCommit, Interrupted, Live
    <2>3. \A j \in Jobs : /\ job'[j].kind = job[j].kind /\ job'[j].prof = job[j].prof
                          /\ \/ job'[j].status = job[j].status
                             \/ /\ job'[j].status = "interrupted" /\ job[j].kind \in Exclusive
                                /\ job[j].status \in Active
      <3> SUFFICES ASSUME NEW j \in Jobs
                   PROVE  /\ job'[j].kind = job[j].kind /\ job'[j].prof = job[j].prof
                          /\ \/ job'[j].status = job[j].status
                             \/ /\ job'[j].status = "interrupted" /\ job[j].kind \in Exclusive
                                /\ job[j].status \in Active
        OBVIOUS
      <3>1. job[j] \in Row
        BY DEF TablesTyped
      <3>2. CASE job'[j] = job[j]
        BY <3>2
      <3>3. CASE job'[j] # job[j]
        <4>1. /\ job'[j] = [job[j] EXCEPT !.status = "interrupted"]
              /\ job[j].kind \in Exclusive /\ job[j].status \in Active
          BY <2>2, <3>3, Zenon
        <4>2. QED
          BY <3>1, <4>1 DEF Row
      <3>4. QED
        BY <3>2, <3>3
    <2>4. SetupTyped' /\ CredsMatch'
      BY <1>21 DEF StartupCommit, Reconciled, SetupTyped, CredsMatch, ProcessTyped
    <2>5. TablesTyped' /\ HostTyped' /\ ProcessTyped'
      BY <2>1, <2>2 DEF TablesTyped, HostTyped, ProcessTyped
    <2>6. Units'
      <3>1. UnitsBegun'
        BY <2>1, <2>3 DEF Units, UnitsBegun
      <3>2. UnitsAwaited'
        BY <2>1, <2>3 DEF Units, UnitsAwaited, Alive
      <3>3. AnswersTrue'
        BY <2>1, <2>3 DEF Units, AnswersTrue, UnitsAwaited, Alive, Replacing, Executing
      <3>4. QED
        BY <3>1, <3>2, <3>3 DEF Units
    <2>7. Executing' /\ Named' /\ OneRunning'
      BY <2>1, <2>3 DEF Executing, Named, OneRunning, ProcessTyped, Worker
    <2>8. Queue'
      BY <2>1, <2>3, QueueKept DEF DownloadOf, ActiveJobs, Live
    <2>9. QED
      BY <2>4, <2>5, <2>6, <2>7, <2>8
  <1>22. CASE WorkerStarts
    <2>1. /\ w.pc = "down" /\ w' = [Stopped EXCEPT !.pc = "idle"]
          /\ UNCHANGED <<prof, sched, setup, host, req, exec, web, rest>>
      BY <1>22 DEF WorkerStarts
    <2>2. /\ job' \in [Jobs -> Row]
          /\ \A j \in Jobs : job'[j] = job[j] \/
               (/\ job[j].kind = "download" /\ job[j].status = "running"
                /\ job'[j] = [job[j] EXCEPT !.status = "interrupted"])
      <3>1. \A j \in Jobs : job[j] \in Row
        BY DEF TablesTyped
      <3>2. QED
        BY <1>22, <3>1, InterruptedTypes, Zenon DEF WorkerStarts
    <2>3. \A j \in Jobs : /\ job'[j].kind = job[j].kind /\ job'[j].prof = job[j].prof
                          /\ \/ job'[j].status = job[j].status
                             \/ /\ job'[j].status = "interrupted" /\ job[j].kind = "download"
                                /\ job[j].status = "running"
      <3> SUFFICES ASSUME NEW j \in Jobs
                   PROVE  /\ job'[j].kind = job[j].kind /\ job'[j].prof = job[j].prof
                          /\ \/ job'[j].status = job[j].status
                             \/ /\ job'[j].status = "interrupted" /\ job[j].kind = "download"
                                /\ job[j].status = "running"
        OBVIOUS
      <3>1. job[j] \in Row
        BY DEF TablesTyped
      <3>2. CASE job'[j] = job[j]
        BY <3>2
      <3>3. CASE job'[j] # job[j]
        <4>1. /\ job'[j] = [job[j] EXCEPT !.status = "interrupted"]
              /\ job[j].kind = "download" /\ job[j].status = "running"
          BY <2>2, <3>3, Zenon
        <4>2. QED
          BY <3>1, <4>1 DEF Row
      <3>4. QED
        BY <3>2, <3>3
    <2>4. TablesTyped' /\ SetupTyped' /\ HostTyped' /\ ProcessTyped' /\ CredsMatch'
      BY <2>1, <2>2, IdleTypes
      DEF TablesTyped, SetupTyped, HostTyped, ProcessTyped, CredsMatch
    <2>5. Units'
      BY <2>1, <2>3, UnitsKept
    <2>6. Executing' /\ Named' /\ OneRunning'
      BY <2>1, <2>3 DEF Executing, Named, OneRunning, Stopped
    <2>7. Queue'
      BY <2>1, <2>3, QueueKept DEF DownloadOf, ActiveJobs, Live
    <2>8. QED
      BY <2>4, <2>5, <2>6, <2>7
  <1>23. CASE Reconcile
    <2> DEFINE S == {j \in Jobs : Reserved(j)}
    <2>1. /\ S \in SUBSET Jobs /\ Freed(S) /\ \A j \in S : job[j].status = "pending"
          /\ UNCHANGED <<sched, setup, host, process, rest>>
      BY <1>23, Zenon DEF Reconcile, Reserved
    <2> HIDE DEF S
    <2>2. /\ job' \in [Jobs -> Row]
          /\ prof' \in [Profiles -> ProfileRow]
          /\ \A j \in S : job'[j] = [job[j] EXCEPT !.status = "cancelled"]
          /\ \A j \in Jobs \ S : job'[j] = job[j]
          /\ \A p \in Profiles :
                /\ prof'[p].there = prof[p].there
                /\ prof'[p].mark = "ready" =>
                     /\ prof'[p] = prof[p]
                     /\ \A j \in S : ~(job[j].kind = "download" /\ job[j].prof = p)
      BY <2>1, FreedEffect DEF ProfileRow
    <2>3. \A j \in Jobs : /\ job'[j].kind = job[j].kind /\ job'[j].prof = job[j].prof
                          /\ j \in S => job[j].status = "pending" /\ job'[j].status = "cancelled"
                          /\ j \notin S => job'[j].status = job[j].status
      <3> SUFFICES ASSUME NEW j \in Jobs
                   PROVE  /\ job'[j].kind = job[j].kind /\ job'[j].prof = job[j].prof
                          /\ j \in S => job'[j].status = "cancelled"
                          /\ j \notin S => job'[j].status = job[j].status
        BY <2>1
      <3>1. job[j] \in Row
        BY DEF TablesTyped
      <3>2. CASE j \in S
        <4>1. job'[j] = [job[j] EXCEPT !.status = "cancelled"]
          BY <2>2, <3>2, Zenon
        <4>2. QED
          BY <3>1, <3>2, <4>1 DEF Row
      <3>3. CASE j \notin S
        BY <2>2, <3>3
      <3>4. QED
        BY <3>2, <3>3
    <2>4. TablesTyped' /\ SetupTyped' /\ HostTyped' /\ ProcessTyped' /\ CredsMatch'
      BY <2>1, <2>2
      DEF ProfileRow, TablesTyped, SetupTyped, HostTyped, ProcessTyped, CredsMatch
    <2>5. Units'
      BY <2>1, <2>3, UnitsKept
    <2>6. Executing' /\ Named' /\ OneRunning'
      BY <2>1, <2>3, ExecutorsKept
    <2>7. Queue'
      BY <2>1, <2>2, <2>3, QueueKept DEF DownloadOf, ActiveJobs, Live
    <2>8. QED
      BY <2>4, <2>5, <2>6, <2>7
  <1>24. CASE EnqueueDue
    <2>1. /\ w.pc = "enqueue" /\ w' = [Stopped EXCEPT !.pc = "idle"]
          /\ UNCHANGED <<setup, host, req, exec, web, rest>>
      BY <1>24 DEF EnqueueDue
    <2>2. w.prof \in Profiles /\ w.mark \in Marks /\ w.on \in BOOLEAN /\ w.job = NoJob
      BY <2>1 DEF Named, ProcessTyped, Worker
    <2>3. SetupTyped' /\ HostTyped' /\ ProcessTyped' /\ CredsMatch'
      BY <2>1, IdleTypes DEF SetupTyped, HostTyped, ProcessTyped, CredsMatch
    <2>4. sched' \in [Profiles -> {"none", "off", "on"}]
      BY <1>24, <2>2 DEF EnqueueDue, Off, TablesTyped
    <2>5. CASE UNCHANGED <<job, prof>>
      <3>1. TablesTyped'
        BY <2>4, <2>5 DEF TablesTyped
      <3>2. Units'
        BY <2>1, <2>5, UnitsKept
      <3>3. Executing' /\ Named' /\ OneRunning'
        BY <2>1, <2>5 DEF Executing, Named, OneRunning, Stopped
      <3>4. Queue'
        BY <2>5, QueueKept DEF DownloadOf, ActiveJobs, Live
      <3>5. QED
        BY <2>3, <3>1, <3>2, <3>3, <3>4
    <2>6. CASE /\ Room
               /\ \/ w.there /\ Admissible(w.prof) /\ Enqueue(w.prof, w.mark, w.on)
                  \/ /\ job' = [job EXCEPT ![NewJob] =
                             Task("download", IF w.there THEN "skipped" ELSE "failed", w.prof, "planned")]
                     /\ UNCHANGED prof
      <3> DEFINE n == NewJob
      <3>1. n \in Jobs /\ job[n].status = "absent"
        BY <2>6, NewJobAbsent
      <3> HIDE DEF n
      <3>2. /\ TablesTyped' /\ \A j \in Jobs \ {n} : job'[j] = job[j]
            /\ job'[n].kind = "download" /\ job'[n].status \in {"pending", "skipped", "failed"}
            /\ job'[n].prof = w.prof
            /\ job'[n].status = "pending" => prof[w.prof].there
            /\ \A p \in Profiles :
                 /\ prof'[p].there = prof[p].there
                 /\ prof'[p] = prof[p] \/ (job'[n].status = "pending" /\ p = w.prof)
        <4>1. CASE Admissible(w.prof) /\ Enqueue(w.prof, w.mark, w.on)
          <5>1. /\ job'[n] = Task("download", "pending", w.prof, w.mark)
                /\ \A j \in Jobs \ {n} : job'[j] = job[j]
                /\ \A q \in Profiles : prof'[q].there = prof[q].there
                /\ \A q \in Profiles \ {w.prof} : prof'[q] = prof[q]
                /\ job' \in [Jobs -> Row] /\ prof' \in [Profiles -> ProfileRow]
            BY ZenonT(60), <2>2, <2>6, <4>1, EnqueueEffect DEF n
          <5>2. QED
            BY <2>4, <4>1, <5>1 DEF Task, Admissible, TablesTyped, ProfileRow
        <4>2. CASE /\ job' = [job EXCEPT ![NewJob] =
                         Task("download", IF w.there THEN "skipped" ELSE "failed", w.prof, "planned")]
                   /\ UNCHANGED prof
          <5>1. Task("download", IF w.there THEN "skipped" ELSE "failed", w.prof, "planned") \in Row
            BY <2>2, TaskTypes
          <5>2. job' \in [Jobs -> Row]
            BY <4>2, <5>1 DEF TablesTyped
          <5>3. QED
            BY <2>4, <3>1, <4>2, <5>2 DEF Task, TablesTyped, n
        <4>3. QED
          BY <2>6, <4>1, <4>2
      <3>3. Units'
        BY <2>1, <3>1, <3>2, UnitsKept
      <3>4. Executing' /\ Named' /\ OneRunning'
        BY <2>1, <3>1, <3>2 DEF Executing, Named, OneRunning, Stopped
      <3>5. Queue'
        BY <2>2, <3>1, <3>2, QueueGrows
      <3>6. QED
        BY <2>3, <3>2, <3>3, <3>4, <3>5
    <2>7. QED
      BY <1>24, <2>5, <2>6 DEF EnqueueDue
  <1>25. CASE Claim
    <2> DEFINE j == Min(Claimable)
    <2>1. j \in Jobs /\ job[j].kind = "download" /\ job[j].status = "pending"
      <3>1. j \in Claimable
        BY <1>25, ClaimsOne, Zenon DEF Claim
      <3> HIDE DEF j
      <3>2. QED
        BY <3>1 DEF Claimable
    <2>2. /\ w.pc = "idle" /\ NoneRunning /\ job' = Finish(j, "running")
          /\ w' = [w EXCEPT !.pc = "run", !.job = j]
          /\ UNCHANGED <<prof, sched, setup, host, req, exec, web, rest>>
      BY <1>25 DEF Claim
    <2> HIDE DEF j
    <2>3. /\ job' \in [Jobs -> Row] /\ job'[j].status = "running"
          /\ \A i \in Jobs : job'[i].kind = job[i].kind /\ job'[i].prof = job[i].prof
          /\ \A i \in Jobs \ {j} : job'[i] = job[i]
      BY <2>1, <2>2, FinishEffect
    <2>4. w' \in Worker /\ w'.pc = "run" /\ w'.job = j
      BY <2>1, <2>2 DEF ProcessTyped, Worker
    <2>5. TablesTyped' /\ SetupTyped' /\ HostTyped' /\ ProcessTyped' /\ CredsMatch'
      BY <2>2, <2>3, <2>4
      DEF TablesTyped, SetupTyped, HostTyped, ProcessTyped, CredsMatch
    <2>6. Units'
      BY <2>1, <2>2, <2>3, UnitsKept
    <2>7. Executing' /\ Named' /\ OneRunning'
      BY <2>1, <2>2, <2>3, <2>4 DEF NoneRunning, Executing, Named, OneRunning
    <2>8. Queue'
      BY <2>1, <2>2, <2>3, QueueKept DEF DownloadOf, ActiveJobs, Live
    <2>9. QED
      BY <2>5, <2>6, <2>7, <2>8
  <1>26. CASE Run \/ VcfdtEnds
    <2> DEFINE j == w.job
               p == job[j].prof
    <2>1. /\ j \in Jobs /\ job[j].kind = "download" /\ job[j].status = "running"
          /\ p \in Profiles /\ UNCHANGED <<sched, setup, host, req, exec, web, rest>>
      BY <1>26
      DEF Run, VcfdtEnds, Named, ProcessTyped, Worker, Executing, Queue, QueueNamed,
                  ActiveJobs, Live
    <2>2. CASE w.pc = "run" /\ w' = [w EXCEPT !.pc = "vcfdt"] /\ UNCHANGED <<job, prof>>
      <3>1. w' \in Worker /\ w'.pc = "vcfdt" /\ w'.job = j
        BY <2>2 DEF ProcessTyped, Worker
      <3>2. TablesTyped' /\ SetupTyped' /\ HostTyped' /\ ProcessTyped' /\ CredsMatch'
        BY <2>1, <2>2, <3>1
        DEF TablesTyped, SetupTyped, HostTyped, ProcessTyped, CredsMatch
      <3>3. Units'
        BY <2>1, <2>2, UnitsKept
      <3>4. Executing' /\ Named' /\ OneRunning'
        BY <2>1, <2>2, <3>1 DEF Executing, Named, OneRunning
      <3>5. Queue'
        BY <2>2, QueueKept DEF DownloadOf, ActiveJobs, Live
      <3>6. QED
        BY <3>2, <3>3, <3>4, <3>5
    <2>3. ASSUME NEW status \in {"succeeded", "failed"}, NEW mark \in {"synced", "blocked"},
                 EndDownload(status, mark)
          PROVE  IInv'
      <3>1. /\ job' \in [Jobs -> Row] /\ job'[j].status = status
            /\ \A i \in Jobs : job'[i].kind = job[i].kind /\ job'[i].prof = job[i].prof
            /\ \A i \in Jobs \ {j} : job'[i] = job[i]
        BY <2>1, <2>3, FinishEffect DEF EndDownload
      <3>2. prof' \in [Profiles -> ProfileRow]
        BY <2>3, ProfileTypes DEF EndDownload
      <3>3. \A q \in Profiles :
              /\ prof'[q].there = prof[q].there
              /\ q # p => prof'[q] = prof[q]
              /\ q = p /\ prof[q].there => prof'[q].mark # "ready"
        BY <2>1, <2>3, ProfileTypes DEF EndDownload
      <3>4. w' = [Stopped EXCEPT !.pc = "idle"]
        BY <2>3 DEF EndDownload
      <3>5. TablesTyped' /\ SetupTyped' /\ HostTyped' /\ ProcessTyped' /\ CredsMatch'
        BY <2>1, <3>1, <3>2, <3>4, IdleTypes
        DEF ProfileRow, TablesTyped, SetupTyped, HostTyped, ProcessTyped, CredsMatch
      <3>6. Units'
        BY <2>1, <3>1, UnitsKept
      <3>7. Executing' /\ Named' /\ OneRunning'
        BY <2>1, <3>1, <3>4 DEF Executing, Named, OneRunning, Stopped
      <3>8. Queue'
        BY <2>1, <3>1, <3>3, QueueKept DEF DownloadOf, ActiveJobs, Live
      <3>9. QED
        BY <3>5, <3>6, <3>7, <3>8
    <2>4. QED
      BY <1>26, <2>2, <2>3 DEF Run, VcfdtEnds
  <1>27. CASE WorkerStops
    <2>1. TablesTyped' /\ SetupTyped' /\ HostTyped' /\ ProcessTyped' /\ CredsMatch'
      BY <1>27, IdleTypes, FaultTypes
      DEF WorkerStops, TablesTyped, SetupTyped, HostTyped, ProcessTyped, CredsMatch
    <2>2. Units'
      BY <1>27, UnitsKept DEF WorkerStops
    <2>3. Executing' /\ Named' /\ OneRunning'
      BY <1>27 DEF WorkerStops, Executing, Named, OneRunning, Stopped
    <2>4. Queue'
      BY <1>27, QueueKept DEF WorkerStops, DownloadOf, ActiveJobs, Live
    <2>5. QED
      BY <2>1, <2>2, <2>3, <2>4
  <1>28. CASE WebStops \/ Reboot
    <2>1. /\ web' = Down /\ req' = IdleReq /\ exec' = IdleExec /\ w' \in {w, Stopped}
          /\ UNCHANGED <<job, prof, sched, setup, runtime, ids>>
      BY <1>28 DEF WebStops, Reboot
    <2>2. faults' \in 0 .. MaxFaults
      BY <1>28, FaultTypes DEF WebStops, Reboot
    <2>3. outlived' \in BOOLEAN
      BY <1>28, Zenon DEF WebStops, Reboot, ProcessTyped
    <2>4. /\ unit' \in [Jobs -> Unit]
          /\ \A j \in Jobs : unit'[j] = NoUnit \/ (unit'[j] = unit[j] /\ Alive(j) /\ outlived')
      <3>1. CASE WebStops
        BY <3>1, IdleTypes DEF WebStops, HostTyped
      <3>2. CASE Reboot
        BY <3>2, IdleTypes DEF Reboot
      <3>3. QED
        BY <1>28, <3>1, <3>2
    <2>5. TablesTyped' /\ SetupTyped' /\ HostTyped' /\ ProcessTyped' /\ CredsMatch'
      BY <2>1, <2>2, <2>3, <2>4, IdleTypes
      DEF Down, TablesTyped, SetupTyped, HostTyped, ProcessTyped, CredsMatch
    <2>6. Units'
      BY <2>1, <2>4
      DEF Units, UnitsBegun, UnitsAwaited, AnswersTrue, Alive, Replacing, NoUnit,
                        Down, IdleExec
    <2>7. Executing' /\ Named' /\ OneRunning'
      BY <2>1 DEF Executing, Named, OneRunning, Stopped, IdleReq, IdleExec
    <2>8. Queue'
      BY <2>1, QueueKept DEF DownloadOf, ActiveJobs, Live
    <2>9. QED
      BY <2>5, <2>6, <2>7, <2>8
  <1>29. CASE Look
    <2>1. /\ UNCHANGED <<job, prof, sched, setup, host, req, web, w, rest>>
          /\ exec.pc = "wait" /\ unit[exec.job].pc = "ended"
          /\ exec' \in Exec /\ exec'.pc = "save" /\ exec'.job = exec.job
      BY <1>29 DEF Look, ProcessTyped, Exec
    <2>2. TablesTyped' /\ SetupTyped' /\ HostTyped' /\ ProcessTyped' /\ CredsMatch'
      BY <2>1 DEF TablesTyped, SetupTyped, HostTyped, ProcessTyped, CredsMatch
    <2>3. Units'
      BY <2>1
      DEF Units, UnitsBegun, UnitsAwaited, AnswersTrue, Alive, Replacing, Named
    <2>4. Executing' /\ Named' /\ OneRunning'
      BY <2>1 DEF Executing, Named, OneRunning
    <2>5. Queue'
      BY <2>1, QueueKept DEF DownloadOf, ActiveJobs, Live
    <2>6. QED
      BY <2>2, <2>3, <2>4, <2>5
  <1>30. CASE DownloadRaises
    <2> DEFINE j == w.job
    <2>1. /\ j \in Jobs /\ job[j].kind = "download" /\ job[j].status = "running"
          /\ UNCHANGED <<prof, sched, setup, host, req, exec, web, outlived>>
          /\ job' = Finish(j, "interrupted") /\ w' = [Stopped EXCEPT !.pc = "idle"]
      BY <1>30 DEF DownloadRaises, ProcessTyped, Worker, Executing
    <2>2. faults' \in 0 .. MaxFaults
      BY <1>30, FaultTypes DEF DownloadRaises
    <2>3. /\ job' \in [Jobs -> Row] /\ job'[j].status = "interrupted"
          /\ \A i \in Jobs : job'[i].kind = job[i].kind /\ job'[i].prof = job[i].prof
          /\ \A i \in Jobs \ {j} : job'[i] = job[i]
      BY <2>1, FinishEffect
    <2>4. TablesTyped' /\ SetupTyped' /\ HostTyped' /\ ProcessTyped' /\ CredsMatch'
      BY <2>1, <2>2, <2>3, IdleTypes
      DEF TablesTyped, SetupTyped, HostTyped, ProcessTyped, CredsMatch
    <2>5. Units'
      BY <2>1, <2>3, UnitsKept
    <2>6. Executing' /\ Named' /\ OneRunning'
      BY <2>1, <2>3 DEF Executing, Named, OneRunning, Stopped
    <2>7. Queue'
      BY <2>1, <2>3, QueueKept DEF DownloadOf, ActiveJobs, Live
    <2>8. QED
      BY <2>4, <2>5, <2>6, <2>7
  <1>31. CASE UNCHANGED vars
    <2>1. TablesTyped' /\ SetupTyped' /\ HostTyped' /\ ProcessTyped' /\ CredsMatch'
      BY <1>31 DEF vars, TablesTyped, SetupTyped, HostTyped, ProcessTyped, CredsMatch
    <2>2. Units' /\ Executing' /\ Named' /\ OneRunning'
      BY <1>31, UnitsKept, ExecutorsKept DEF vars
    <2>3. Queue'
      BY <1>31, QueueKept DEF vars, DownloadOf, ActiveJobs, Live
    <2>4. QED
      BY <2>1, <2>2, <2>3
  <1>32. QED
    BY <1>1, <1>2, <1>3, <1>4, <1>5, <1>6, <1>7, <1>8, <1>9, <1>10, <1>11,
       <1>12, <1>13, <1>14, <1>15, <1>16, <1>17, <1>18, <1>19, <1>20, <1>21,
       <1>22, <1>23, <1>24, <1>25, <1>26, <1>27, <1>28, <1>29, <1>30, <1>31
    DEF Next, Request, Execute, Helper, Startup, Work

(* The appliance in use satisfies the invariant.                           *)
LEMMA InitInv == Init => IInv
  <1> SUFFICES ASSUME Init PROVE IInv
    OBVIOUS
  <1>1. req \in Req /\ exec \in Exec /\ w \in Worker
    BY IdleTypes DEF Init
  <1> USE DepotConstants
      DEF Init, Jobs, NoJob, None, Ids, Unverified, Untouched, Kinds, Exclusive, Active,
          Ended,
          Marks, NoTask, NoUnit, IdleReq, IdleExec, Stopped
  <1>2. TablesTyped
    BY DEF TablesTyped, Row
  <1>3. SetupTyped /\ HostTyped
    BY DEF SetupTyped, HostTyped, Unit
  <1>4. ProcessTyped
    <2>1. web \in [pc : {"down", "read", "up"}, answer : Ids \cup {None, Unverified}]
      OBVIOUS
    <2>2. outlived \in BOOLEAN
      BY Zenon
    <2>3. faults \in 0 .. MaxFaults
      OBVIOUS
    <2>4. QED
      BY <1>1, <2>1, <2>2, <2>3, Zenon DEF ProcessTyped
  <1>5. Executing /\ Named /\ OneRunning /\ CredsMatch
    BY DEF Executing, Named, OneRunning, CredsMatch
  <1>6. Units
    BY DEF Units, UnitsBegun, UnitsAwaited, AnswersTrue, Alive
  <1>7. Queue
    BY DEF Queue, QueueNamed, ActiveHasProfile, ReadyHasTask, ActiveJobs, Live
  <1>8. QED
    BY <1>2, <1>3, <1>4, <1>5, <1>6, <1>7 DEF IInv, TypeOK, Depot

(* The inductive invariant holds through every admission, claim, death and *)
(* restart of the depot's executors (routers/ui/vcf_workflows.py, ui.py).  *)
THEOREM Invariance == Spec => []IInv
  BY InitInv, InvStep, PTL DEF Spec

(* Every variable keeps its type, and what an executor or the worker holds *)
(* is a running task of its kind (run_vcf_depot_software_id_job,           *)
(* run_vcf_depot_download_job, execute_appliance_apply_unit).              *)
THEOREM TypeCorrect == Spec => []TypeOK
  <1>1. IInv => TypeOK
    BY DEF IInv
  <1>2. QED
    BY <1>1, Invariance, PTL

(* lock_vcf_depot_profile_for_deletion and the admissions exclude each     *)
(* other: no queued or running download names a deleted profile.           *)
THEOREM QueuedProfileExists == Spec => []ActiveHasProfile
  <1>1. IInv => ActiveHasProfile
    BY DEF IInv, Depot, Queue
  <1>2. QED
    BY <1>1, Invariance, PTL

(* finish_pending gives a profile its status back whichever thread ends    *)
(* the cancellation, so none is left ready without a task but the one      *)
(* whose download a dying worker left.                                     *)
THEOREM ReadyMeansQueued == Spec => []ReadyHasTask
  <1>1. IInv => ReadyHasTask
    BY DEF IInv, Depot, Queue
  <1>2. QED
    BY <1>1, Invariance, PTL

(* The processes of VCFDT all belong to the one running task.              *)
LEMMA OneTask == IInv /\ ~outlived => \A i, j \in Vcfdt : i = j
  <1> SUFFICES ASSUME IInv, ~outlived, NEW i \in Vcfdt, NEW j \in Vcfdt
               PROVE  i = j
    OBVIOUS
  <1>1. ASSUME NEW k \in Vcfdt
        PROVE  k \in Jobs /\ job[k].status = "running"
    <2>1. CASE k \in Jobs /\ Alive(k)
      BY <2>1 DEF IInv, TypeOK, Executing, Depot, Units, UnitsAwaited
    <2>2. CASE w.pc = "vcfdt" /\ k = w.job
      BY <2>2 DEF IInv, TypeOK, ProcessTyped, Worker, Executing, Depot, Named
    <2>3. QED
      BY <2>1, <2>2 DEF Vcfdt
  <1>2. QED
    BY <1>1 DEF IInv, Depot, OneRunning

(* uq_jobs_running_vcf_depot_operation, the claim and the background task  *)
(* keep VCFDT single: as long as no helper outlived the web process, at    *)
(* most one process of it runs.                                            *)
THEOREM SingleVcfdt == Spec => []OneProcess
  <1>1. ASSUME IInv, ~outlived PROVE Cardinality(Vcfdt) <= 1
    <2>1. CASE Vcfdt = {}
      BY <2>1, FS_EmptySet
    <2>2. CASE Vcfdt # {}
      <3>1. PICK x : x \in Vcfdt
        BY <2>2
      <3>2. Vcfdt = {x}
        BY <1>1, <3>1, OneTask
      <3>3. Cardinality({x}) = 1
        BY FS_Singleton
      <3>4. QED
        BY <3>2, <3>3
    <2>3. QED
      BY <2>1, <2>2
  <1>2. IInv => OneProcess
    BY <1>1 DEF OneProcess
  <1>3. QED
    BY <1>2, Invariance, PTL

-----------------------------------------------------------------------------
(* The end of an identity task.                                            *)

(* What TaskSettles says of one step.                                      *)
Settled ==
    \A j \in Jobs :
      /\ job[j].kind = "identity" /\ job[j].status = "running"
      /\ job'[j].status \notin {"running", "raised"}
      /\ Touched(j) \/ job'[j].status = "interrupted"
      /\ ~outlived
      => /\ stored' \in {None, runtime}
         /\ creds' \in {None, stored'} \/ exec.late # "no"

(* Any step but three leaves a running identity task running, or ends it   *)
(* by the handler of exceptions.                                           *)
LEMMA OthersKeep ==
    ASSUME IInv, [Next]_vars, ~Call, ~Persist, ~StartupCommit
    PROVE  \A j \in Jobs : job[j].kind = "identity" /\ job[j].status = "running"
                           => job'[j].status \in {"running", "raised"}
  <1> DEFINE Keeps == \A j \in Jobs : job[j].kind = "identity" /\ job[j].status = "running"
                                      => job'[j].status \in {"running", "raised"}
  <1> USE DEF IInv, TypeOK
  <1>1. CASE UNCHANGED job
    BY <1>1
  <1>2. CASE StartDownload
    <2>1. CASE Room /\ Enqueue(req.prof, req.mark, TRUE)
      BY <2>1, NewJobAbsent DEF Enqueue, TablesTyped
    <2>2. QED
      BY <1>1, <1>2, <2>1 DEF StartDownload
  <1>3. CASE \E j \in Jobs : RequestCancel(j)
    BY <1>3 DEF RequestCancel, TablesTyped
  <1>4. CASE \E j \in Jobs : FinishCancel(j)
    BY <1>4 DEF FinishCancel, Reserved, Freed
  <1>5. CASE \E kind \in Exclusive : SubmitExclusive(kind)
    BY <1>5, NewJobAbsent DEF SubmitExclusive, TablesTyped
  <1>6. CASE Begin
    BY <1>1, <1>6 DEF Begin, Finish, NoneRunning, Jobs, TablesTyped, Row
  <1>7. CASE WorkerStarts
    BY <1>7 DEF WorkerStarts
  <1>8. CASE Reconcile
    BY <1>8 DEF Reconcile, Reserved, Freed
  <1>9. CASE EnqueueDue
    <2>1. CASE Room /\ Enqueue(w.prof, w.mark, w.on)
      BY <2>1, NewJobAbsent DEF Enqueue, TablesTyped
    <2>2. CASE Room /\ job' = [job EXCEPT ![NewJob] =
                    Task("download", IF w.there THEN "skipped" ELSE "failed", w.prof, "planned")]
      BY <2>2, NewJobAbsent DEF TablesTyped
    <2>3. QED
      BY <1>1, <1>9, <2>1, <2>2 DEF EnqueueDue
  <1>10. CASE Claim
    BY <1>10 DEF Claim, NoneRunning
  <1>11. CASE Run \/ VcfdtEnds
    <2>1. w.job \in Jobs /\ job[w.job].kind = "download"
      BY <1>11 DEF Run, VcfdtEnds, Depot, Named, ProcessTyped, Worker, Executing
    <2>2. ASSUME NEW status, NEW mark, EndDownload(status, mark) PROVE Keeps
      BY <2>1, <2>2 DEF EndDownload, Finish, TablesTyped
    <2>3. QED
      BY <1>1, <1>11, <2>2 DEF Run, VcfdtEnds
  <1>12. CASE PersistRaises
    <2>1. exec.job \in Jobs
      BY <1>12 DEF PersistRaises, AtCommit, Depot, Named
    <2>2. QED
      BY <1>12, <2>1 DEF PersistRaises, Finish, TablesTyped, Row
  <1>13. CASE DownloadRaises
    <2>1. w.job \in Jobs /\ job[w.job].kind = "download"
      BY <1>13 DEF DownloadRaises, ProcessTyped, Worker, Executing
    <2>2. QED
      BY <1>13, <2>1 DEF DownloadRaises, Finish, TablesTyped
  <1>14. QED
    <2>1. CASE \E p \in Profiles : \/ Due(p) \/ Read(p) \/ EditProfile(p)
                                   \/ StopSchedule(p) \/ DeleteProfile(p)
      BY <1>1, <2>1 DEF Due, Read, EditProfile, StopSchedule, DeleteProfile
    <2>2. CASE \/ AddSchedule \/ EnableProfile \/ UploadTool \/ ResetTool \/ StageCredentials
               \/ StartupRead \/ Look \/ WorkerStops \/ WebStops \/ Reboot \/ UNCHANGED vars
      BY <1>1, <2>2
      DEF AddSchedule, EnableProfile, UploadTool, ResetTool, StageCredentials,
                        StartupRead, Look, WorkerStops, WebStops, Reboot, vars
    <2>3. CASE Helper
      BY <1>1, <2>3 DEF Helper, Generate, ReadBack
    <2>4. QED
      BY <1>2, <1>3, <1>4, <1>5, <1>6, <1>7, <1>8, <1>9, <1>10, <1>11, <1>12,
         <1>13, <2>1, <2>2, <2>3
      DEF Next, Request, Execute, Startup, Work

(* A step that ends an identity task settles the identity: the executor    *)
(* records what the helper answered, and startup what it read back.        *)
LEMMA SettleStep == IInv /\ [Next]_vars => Settled
  <1> SUFFICES ASSUME IInv, [Next]_vars, NEW j \in Jobs,
                      job[j].kind = "identity", job[j].status = "running",
                      job'[j].status \notin {"running", "raised"},
                      Touched(j) \/ job'[j].status = "interrupted", ~outlived
               PROVE  /\ stored' \in {None, runtime}
                      /\ creds' \in {None, stored'} \/ exec.late # "no"
    BY DEF Settled
  <1> USE DEF IInv, TypeOK, Depot
  <1>1. CASE Call
    <2>1. exec.job \in Jobs /\ unit[exec.job].pc = "none"
      BY <1>1 DEF Call, Named, Units, UnitsBegun
    <2>2. ASSUME NEW status \in {"succeeded", "failed"}, job' = Finish(exec.job, status)
          PROVE  FALSE
      BY <2>1, <2>2 DEF Finish, TablesTyped, Row, Touched
    <2>3. QED
      BY <1>1, <2>2 DEF Call
  <1>2. CASE Persist
    <2> DEFINE a == unit[exec.job].answer
    <2>1. exec.job \in Jobs /\ unit[exec.job].pc = "ended"
      BY <1>2 DEF Persist, AtCommit, Named
    <2>2. PICK status \in {"succeeded", "failed"} : job' = Finish(exec.job, status)
      BY <1>2 DEF Persist
    <2>3. exec.job = j /\ job'[j].status # "interrupted"
      BY <2>1, <2>2 DEF Finish, TablesTyped, Row
    <2>4. a # None /\ a # Untouched /\ (a \in Ids => a = runtime)
      BY <2>1, <2>3 DEF Touched, Units, UnitsAwaited, AnswersTrue
    <2>5. a \in Ids \cup {Unverified}
      BY <2>1, <2>4 DEF HostTyped, Unit
    <2>6. /\ stored' = IF a \in Ids THEN a ELSE IF a = Unverified THEN None ELSE stored
          /\ creds' \in IF a = Untouched THEN {creds} ELSE Outlive
      BY <1>2 DEF Persist, Answer
    <2>7. exec.late = "no" => Outlive = {None}
      BY DEF Outlive
    <2>8. QED
      BY <2>4, <2>5, <2>6, <2>7
  <1>3. CASE StartupCommit
    <2>1. web.answer \in {Unverified} \cup ({runtime} \ {None})
      BY <1>3 DEF StartupCommit, Units, AnswersTrue, Replacing
    <2>2. stored' \in {None, runtime}
      BY <1>3, <2>1 DEF StartupCommit, Reconciled
    <2>3. creds' \in {None, stored'}
      BY <1>3, <2>1 DEF StartupCommit, Reconciled, CredsMatch, None, Unverified
    <2>4. QED
      BY <2>2, <2>3
  <1>4. QED
    BY <1>1, <1>2, <1>3, OthersKeep

(* persist_vcf_depot_metadata_from_apply and the startup reconciliation:   *)
(* an identity task that may have replaced the identity of the tool ends   *)
(* with that identity recorded, or none, and with no older credentials,    *)
(* unless an exception ends it or some were staged in the window.          *)
THEOREM IdentitySettles == Spec => TaskSettles
  <1>1. IInv /\ [Next]_vars => [Settled]_vars
    BY SettleStep
  <1>2. QED
    BY <1>1, Invariance, PTL DEF Spec, TaskSettles, Settled
=============================================================================
