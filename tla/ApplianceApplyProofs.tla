------------------------ MODULE ApplianceApplyProofs ------------------------
(***************************************************************************)
(* Proofs about ApplianceApply, for any number of master tasks, edits and  *)
(* faults and every set of plans the submission can make: the state is     *)
(* well typed, an unfinished transaction always belongs to a task that     *)
(* holds the global lock, verdicts are honest, and the protected parts     *)
(* implement ProtectedChange.                                              *)
(*                                                                         *)
(* The invariant says what the rows, the locals of the one thread at work, *)
(* the helper's journals and the answers a startup has collected know of   *)
(* each other.                                                             *)
(***************************************************************************)
EXTENDS ApplianceApply, SequenceTheorems, TLAPS

X    == exec["web"]
Mine == X.job
Row  == job[Mine]
Now  == Row.plan[X.at]

-----------------------------------------------------------------------------
(* The rows.                                                               *)

(* What has been saved stays within the bound on edits.                    *)
Edited == /\ \A i \in Items : desired[i] >= 1
          /\ desired["handoff"] + desired["pair"] + desired["unit"] <= MaxEdits + 3

(* The lock has one holder, and it is what the thread works on.            *)
OneHolder == \A i, j \in Jobs : Holds(i) /\ Holds(j) => i = j
Alone     == X.pc # "idle" => \A j \in Jobs : Holds(j) => j = Mine

Planned(j) == job[j].status # "new" => job[j].plan \in Plans

Untouched(j) == job[j].status \in {"new", "pending"} =>
    /\ job[j].flag = "clear"
    /\ \A n \in DOMAIN job[j].steps : job[j].steps[n] = "pending"

(* A flag belongs to a task with a protected part that was begun or given  *)
(* up; after the commit the handoff is no longer running.                  *)
Flagged(j) == job[j].flag # "clear" =>
    /\ job[j].status \in {"running", "failed"}
    /\ \E k \in Protected : Has(j, k)
    /\ \A n \in DOMAIN job[j].plan : job[j].plan[n] \in Protected =>
          /\ job[j].steps[n] # "pending"
          /\ job[j].flag = "committed" /\ job[j].plan[n] = "handoff" =>
                job[j].steps[n] # "running"

(* VerdictHonest, step by step.                                            *)
AllSucceeded(j) == /\ job[j].flag = "clear"
                   /\ \A n \in DOMAIN job[j].steps : job[j].steps[n] = "succeeded"
LeftOut(j) == /\ job[j].flag = "clear"
              /\ Trails(j) \/ \E n \in DOMAIN job[j].steps : job[j].steps[n] = "skipped"
              /\ \A n \in DOMAIN job[j].steps : job[j].steps[n] \in {"succeeded", "skipped"}
NoneOpen(j) == \A n \in DOMAIN job[j].steps : job[j].steps[n] \notin {"pending", "running"}

Verdict(j) == /\ job[j].status = "succeeded" => AllSucceeded(j)
              /\ job[j].status = "cancelled" => LeftOut(j)
              /\ job[j].status = "failed" => NoneOpen(j)

RowOK(j) == Planned(j) /\ Untouched(j) /\ Flagged(j) /\ Verdict(j)

Rows == Edited /\ OneHolder /\ Alone /\ \A j \in Jobs : RowOK(j)

-----------------------------------------------------------------------------
(* The thread.                                                             *)

InPart == {"flag", "validate", "wait", "recover", "commit", "ack", "settle", "failed",
           "paired", "unit", "applied", "broken"}
OnPair == {"flag", "paired", "pairraise", "paircleanup"}
OnUnit == {"unit", "applied", "broken"}
Either == {"validate", "wait", "recover", "commit", "ack", "settle", "failed"}

Threads ==
    /\ \A p \in Procs \ {"web"} : exec[p] = Idle
    /\ X.pc = "idle" => X = Idle
    /\ X.pc # "idle" => web = "up" /\ Mine \in Jobs /\ Row.status # "new"

(* Where the row stands at each place of the thread.                       *)
Place ==
    /\ X.pc = "claim" => Row.status \in {"pending", "cancelled"}
    /\ X.pc \in InPart \cup {"check", "loop", "final", "pairraise", "paircleanup"} =>
          Row.status = "running"
    /\ X.pc \in {"raise", "handle"} => Row.status # "pending"
    /\ X.pc = "audit" => Row.status \in {"succeeded", "failed", "cancelled"}
    /\ X.pc \in InPart \cup {"pairraise", "paircleanup"} => X.at \in DOMAIN Row.plan
    /\ X.pc \in OnPair => Now = "pair"
    /\ X.pc \in OnUnit => Now = "unit"
    /\ X.pc \in Either => Now \in Protected

Steps ==
    /\ X.pc = "check" => \A n \in DOMAIN Row.steps : Row.steps[n] = "pending"
    /\ X.pc = "loop" => X.at \in 1 .. Len(Row.plan) + 1
    /\ X.pc \in InPart \cup {"claim", "check", "loop"} => X.end = "none"
    /\ X.pc \in InPart \cup {"loop"} =>
          \A n \in DOMAIN Row.steps : /\ n < X.at => Row.steps[n] = "succeeded"
                                      /\ n > X.at => Row.steps[n] = "pending"
    /\ X.pc = "loop" /\ X.at \in DOMAIN Row.steps => Row.steps[X.at] = "pending"
    /\ X.pc \in InPart => Row.steps[X.at] =
          IF X.pc \in {"ack", "settle"} /\ Now = "handoff" THEN "succeeded" ELSE "running"
    /\ X.pc = "final" => CASE X.end = "none"      -> AllSucceeded(Mine)
                           [] X.end = "cancelled" -> LeftOut(Mine)
                           [] OTHER               -> NoneOpen(Mine)

(* The flag and the thread's own record of the handoff.                    *)
Flags ==
    /\ X.pc \in {"check", "loop", "flag", "paired"} \cup OnUnit => Row.flag = "clear"
    /\ X.pc \in {"validate", "wait", "recover", "commit", "failed"} =>
          Row.flag = IF Now = "pair" THEN "pending" ELSE "clear"
    /\ X.pc \in {"ack", "settle"} => Row.flag = "committed"
    /\ X.pc \in {"pairraise", "paircleanup"} => Row.flag # "clear"

Beyond(j) == \A n \in DOMAIN job[j].plan :
                job[j].plan[n] = "handoff" => job[j].steps[n] # "pending"

Handoff ==
    /\ X.pending => /\ Has(Mine, "handoff") /\ Holds(Mine)
                    /\ X.committed <=> Row.flag = "committed"
    /\ X.pc \in {"claim", "check", "loop"} \cup OnPair \cup OnUnit => ~X.pending
    /\ X.pc \in Either \ {"settle", "failed"} /\ Now = "handoff" => X.pending
    /\ X.pc = "settle" /\ Now = "handoff" => X.pending \/ X.answer = "ok"
    /\ X.pc = "settle" /\ X.pending => X.answer # "ok"
    /\ X.pc = "failed" /\ Now = "handoff" => X.pending \/ Proven(X.answer)
    /\ X.pc = "failed" /\ X.pending => ~Proven(X.answer)
    /\ X.pc \in {"claim", "check"} => ~X.committed
    /\ X.committed => Beyond(Mine)
    /\ X.pc \in {"final", "audit"} /\ X.pending => Row.flag # "clear"

Thread == Threads /\ Place /\ Steps /\ Flags /\ Handoff

-----------------------------------------------------------------------------
(* The helper.                                                             *)

Busy(k) == journal[k].phase # "none" \/ journal[k].unit # "none"

Journals == \A k \in Protected :
    /\ journal[k].unit # "none" => journal[k].by \in Jobs
    /\ journal[k].unit = "started" => journal[k].phase = "none"
    /\ journal[k].unit = "changing" =>
          journal[k].phase = "open" /\ journal[k].owner = journal[k].by
    /\ journal[k].restored => /\ k = "pair" /\ journal[k].phase # "none"
                              /\ journal[k].unit = "none"
                              /\ journal[k].receipt # journal[k].owner

(* Who accounts for a journal or a unit: a flag, or the handoff a task is  *)
(* in.                                                                     *)
InHandoff(j) == /\ job[j].status = "running"
                /\ \E n \in DOMAIN job[j].plan :
                      job[j].plan[n] = "handoff" /\ job[j].steps[n] = "running"
Accounts(j, k) == Has(j, k) /\ (job[j].flag # "clear" \/ (k = "handoff" /\ InHandoff(j)))

Accounted == \A k \in Protected :
    /\ journal[k].phase # "none" => Accounts(journal[k].owner, k)
    /\ journal[k].unit # "none" => Accounts(journal[k].by, k)

(* A committed change is applied, or the helper still holds what it needs  *)
(* to apply it.                                                            *)
Committed == \A j \in Jobs, k \in Protected : job[j].flag = "committed" /\ Has(j, k) =>
    /\ baseline[k] = job[j].captured[k] /\ journal[k].unit = "none"
    /\ journal[k].phase = "none" => journal[k].receipt = j /\ runtime[k] = job[j].captured[k]
    /\ journal[k].phase # "none" =>
          /\ journal[k].phase = "awaiting" /\ journal[k].owner = j
          /\ journal[k].restored \/ runtime[k] = job[j].captured[k]

(* A receipt of the pair is one of a task that has committed it.           *)
Receipts == LET j == journal["pair"].receipt IN j \in Jobs =>
    /\ Has(j, "pair") /\ job[j].flag # "pending"
    /\ \A n \in DOMAIN job[j].plan : job[j].plan[n] = "pair" => job[j].steps[n] # "pending"
    /\ ~(X.pc = "flag" /\ Mine = j)

(* What the thread knows of the part it is in.                             *)
Ready(k) == /\ journal[k].phase = "awaiting" /\ journal[k].owner = Mine
            /\ journal[k].unit = "none" /\ ~journal[k].restored
            /\ runtime[k] = Row.captured[k]

Known ==
    /\ X.pc = "validate" => ~Busy(Now)
    /\ X.pc = "wait" => /\ journal[Now].unit # "none" => journal[Now].result = "none"
                        /\ journal[Now].result = "ok" => Ready(Now)
                        /\ journal[Now].result = "rolled back" => ~Busy(Now)
    /\ X.pc = "commit" => Ready(Now)
    /\ X.pc = "recover" /\ X.answer = "rolled back" => ~Busy(Now)
    /\ X.pc = "failed" /\ Proven(X.answer) => ~Busy(Now)
    /\ X.pc = "settle" /\ X.answer = "ok" => journal[Now].phase = "none"
    /\ X.pc = "paircleanup" /\ Proven(X.answer) => ~Busy("pair")
    /\ X.pc \in {"raise", "handle"} /\ ~X.pending /\ Row.flag = "clear" => ~Busy("handoff")
    /\ X.pc = "handle" /\ X.pending /\ Proven(X.answer) => ~Busy("handoff")

Helper == Journals /\ Accounted /\ Committed /\ Receipts /\ Known

-----------------------------------------------------------------------------
(* The startup of the web process.                                         *)

Startups ==
    /\ web = "starting" =>
          \A j \in Jobs : ~(job[j].status = "pending" /\ job[j].cancel = "requested")
    /\ \A j \in Jobs : recovery[j] # "idle" =>
          /\ web = "starting" /\ Holds(j)
          /\ recovery[j] = "none" => ~Has(j, "handoff") /\ (Has(j, "pair") => job[j].flag = "clear")
          /\ \A k \in Protected : Has(j, k) /\ Proven(recovery[j]) => ~Busy(k)

IInv == TypeOK /\ Rows /\ Thread /\ Helper /\ Startups

-----------------------------------------------------------------------------
(* The refinement, one protected part at a time: what ProtectedChange      *)
(* allows a step to do.                                                    *)
Saved(k) == IF journal[k].phase = "none" THEN runtime[k] ELSE journal[k].prior

Same(k) == /\ Change(k)' = Change(k)
           /\ Change(k) # "none" => baseline'[k] = baseline[k]
           /\ Change(k) = "active" => Saved(k)' = Saved(k)
Opens(k) == /\ Change(k) = "none" /\ Change(k)' = "active"
            /\ Saved(k)' = runtime[k]
Decides(k) == /\ Change(k) = "active" /\ Change(k)' = "committed"
              /\ baseline'[k] = runtime[k]
Closes(k) == /\ Change(k) # "none" /\ Change(k)' = "none"
             /\ runtime[k] = IF Change(k) = "active" THEN Saved(k) ELSE baseline[k]

Refines(k) ==
    \/ Same(k)
    \/ Decides(k) /\ runtime'[k] = runtime[k]
    \/ (Opens(k) \/ Closes(k)) /\ runtime'[k] = runtime[k] /\ baseline'[k] = baseline[k]

-----------------------------------------------------------------------------
(* A step of the thread that works on task j.                              *)
Turns(j) ==
    /\ Mine = j /\ X.pc # "idle"
    /\ \A i \in Jobs : i # j => job'[i] = job[i]
    /\ \A i \in Jobs : job'[i].plan = job[i].plan /\ job'[i].captured = job[i].captured
    /\ job'[j].status # "new"
    /\ \A p \in Procs \ {"web"} : exec'[p] = exec[p]
    /\ X' = Idle \/ (X'.pc # "idle" /\ X'.job = j)
    /\ UNCHANGED <<desired, web, recovery>>

(* What such a step may do to its row as the helper sees it.               *)
Keeps(j) ==
    /\ Holds(j)' => Holds(j)
    /\ job'[j].flag = "committed" => job[j].flag = "committed"
    /\ job[j].flag = "committed" =>
          job'[j].flag = "committed" \/ (job'[j].flag = "clear" /\ ~InHandoff(j)')
    /\ \A k \in Protected : Busy(k) /\ Accounts(j, k) => Accounts(j, k)'
    /\ journal["pair"].receipt = j =>
          /\ job'[j].flag # "pending" /\ X'.pc # "flag"
          /\ \A n \in DOMAIN job[j].plan :
                job[j].plan[n] = "pair" => job'[j].steps[n] # "pending"

-----------------------------------------------------------------------------
(* Plans and steps.                                                        *)

(* A plan is a non-empty sequence of parts with one protected part at most *)
(* (_submit_appliance_apply).                                              *)
LEMMA PlanFacts ==
  ASSUME TypeOK, NEW j \in Jobs
  PROVE  /\ DOMAIN job[j].plan = 1 .. Len(job[j].plan) /\ Len(job[j].plan) \in Nat
         /\ DOMAIN job[j].steps = DOMAIN job[j].plan
         /\ \A n \in DOMAIN job[j].plan : job[j].plan[n] \in Items
         /\ \A n \in DOMAIN job[j].steps : job[j].steps[n] \in StepStates
         /\ job[j].plan \in Plans => 1 \in DOMAIN job[j].plan
         /\ \A m, n \in DOMAIN job[j].plan :
               job[j].plan[m] \in Protected /\ job[j].plan[n] \in Protected => m = n
  <1>1. job[j].plan \in Plans \cup {<<>>} /\ job[j].steps \in Seq(StepStates)
    BY DEF TypeOK, JobRow
  <1>2. job[j].plan \in Seq(Items)
    BY <1>1, ApplyConstants, EmptySeq
  <1>3. DOMAIN job[j].plan = 1 .. Len(job[j].plan) /\ Len(job[j].plan) \in Nat
    BY <1>2, LenProperties
  <1>4. \A n \in DOMAIN job[j].plan : job[j].plan[n] \in Items
    BY <1>2, <1>3, ElementOfSeq
  <1>5. \A n \in DOMAIN job[j].steps : job[j].steps[n] \in StepStates
    BY <1>1, LenProperties, ElementOfSeq
  <1>6. job[j].plan \in Plans => 1 \in DOMAIN job[j].plan
    <2>1. job[j].plan \in Plans => Len(job[j].plan) \in Nat \ {0}
      BY <1>2, ApplyConstants, EmptySeq
    <2>2. QED
      BY <1>3, <2>1
  <1>7. \A m, n \in DOMAIN job[j].plan :
            job[j].plan[m] \in Protected /\ job[j].plan[n] \in Protected => m = n
    <2>1. CASE job[j].plan \in Plans
      BY <2>1, ApplyConstants
    <2>2. CASE job[j].plan = <<>>
      BY <1>3, <2>2
    <2>3. QED
      BY <1>1, <2>1, <2>2
  <1>8. DOMAIN job[j].steps = DOMAIN job[j].plan
    BY DEF TypeOK
  <1>9. QED
    BY <1>3, <1>4, <1>5, <1>6, <1>7, <1>8

(* A task has the handoff or the pair, never both.                         *)
LEMMA OnePart ==
  ASSUME TypeOK, NEW j \in Jobs, NEW k \in Protected, NEW l \in Protected,
         Has(j, k), Has(j, l)
  PROVE  k = l
  BY PlanFacts DEF Has

(* A sequence of steps stays one.                                          *)
LEMMA StepSeq ==
  ASSUME NEW s \in Seq(StepStates), NEW f \in [DOMAIN s -> StepStates]
  PROVE  f \in Seq(StepStates)
  <1>1. DOMAIN s = 1 .. Len(s) /\ Len(s) \in Nat
    BY LenProperties
  <1>2. QED
    BY <1>1, SeqDef

(* Rest and Stopped keep the number of steps.                              *)
LEMMA StepUpdates ==
  ASSUME NEW s \in Seq(StepStates), NEW n, NEW v \in StepStates
  PROVE  /\ Rest(s, n, v) \in Seq(StepStates) /\ DOMAIN Rest(s, n, v) = DOMAIN s
         /\ Stopped(s) \in Seq(StepStates) /\ DOMAIN Stopped(s) = DOMAIN s
         /\ [s EXCEPT ![n] = v] \in Seq(StepStates) /\ DOMAIN [s EXCEPT ![n] = v] = DOMAIN s
  <1>1. s \in [DOMAIN s -> StepStates]
    BY LenProperties
  <1>2. Rest(s, n, v) \in [DOMAIN s -> StepStates]
    BY <1>1 DEF Rest
  <1>3. Stopped(s) \in [DOMAIN s -> StepStates]
    BY <1>1 DEF Stopped, StepStates
  <1>4. [s EXCEPT ![n] = v] \in [DOMAIN s -> StepStates]
    BY <1>1
  <1>5. QED
    BY <1>2, <1>3, <1>4, StepSeq

(* The steps after Stopped.                                                *)
LEMMA StoppedSteps ==
  ASSUME NEW s \in Seq(StepStates), NEW n \in DOMAIN s
  PROVE  /\ Stopped(s)[n] \notin {"pending", "running"}
         /\ s[n] \notin {"pending", "running"} => Stopped(s)[n] = s[n]
  BY DEF Stopped

-----------------------------------------------------------------------------
(* The thread at work is that of the web process.                          *)
LEMMA OnlyWeb ==
  ASSUME Threads, NEW p \in Procs, exec[p].pc # "idle"
  PROVE  p = "web"
  BY DEF Threads, Idle

(* A step of the thread rewrites its own row and no other.                 *)
LEMMA PutRow ==
  ASSUME TypeOK, Mine \in Jobs, NEW r \in JobRow, job' = [job EXCEPT ![Mine] = r],
         r.plan = Row.plan, DOMAIN r.steps = DOMAIN Row.steps
  PROVE  /\ job' \in [Jobs -> JobRow] /\ job'[Mine] = r
         /\ \A j \in Jobs : j # Mine => job'[j] = job[j]
         /\ \A j \in Jobs : DOMAIN job'[j].steps = DOMAIN job'[j].plan
         /\ \A j \in Jobs : job'[j].plan = job[j].plan
         /\ \A j \in Jobs, k \in Protected : Has(j, k)' <=> Has(j, k)
  <1>1. /\ job' \in [Jobs -> JobRow] /\ job'[Mine] = r
        /\ \A j \in Jobs : j # Mine => job'[j] = job[j]
    BY DEF TypeOK
  <1>2. \A j \in Jobs : job'[j].plan = job[j].plan
    BY <1>1 DEF Row
  <1>3. \A j \in Jobs : DOMAIN job'[j].steps = DOMAIN job'[j].plan
    BY <1>1 DEF Row, TypeOK
  <1>4. QED
    BY <1>1, <1>2, <1>3 DEF Has

-----------------------------------------------------------------------------
(* Who holds the lock decides the state of a change.                       *)

(* Only a holder accounts for a journal or a unit.                         *)
LEMMA AccountsHolds ==
  ASSUME NEW j \in Jobs, NEW k \in Protected, Accounts(j, k)
  PROVE  Holds(j)
  BY DEF Accounts, Holds, Active, InHandoff

Reading(j, k) == IF Has(j, k) /\ job[j].flag = "committed" THEN "committed"
                 ELSE IF Accounts(j, k) THEN "active" ELSE "none"
ReadOff == job \in [Jobs -> JobRow] => \A j \in Jobs, k \in Protected :
               (\A i \in Jobs : Holds(i) => i = j) => Change(k) = Reading(j, k)

(* The change of a part, read off the one task that may hold the lock.     *)
LEMMA ChangeMine == ReadOff
  <1> SUFFICES ASSUME job \in [Jobs -> JobRow], NEW j \in Jobs, NEW k \in Protected,
                      \A i \in Jobs : Holds(i) => i = j
               PROVE  Change(k) = Reading(j, k)
    BY DEF ReadOff
  <1> DEFINE Mid(i) == \/ job[i].flag = "pending"
                       \/ k = "handoff" /\ job[i].status = "running" /\
                          \E n \in DOMAIN job[i].plan :
                             job[i].plan[n] = k /\ job[i].steps[n] = "running"
  <1>1. \A i \in Jobs : Has(i, k) /\ job[i].flag = "committed" => i = j
    BY DEF Holds
  <1>2. \A i \in Jobs : Has(i, k) /\ Mid(i) => i = j
    BY DEF Holds, Active
  <1>3. job[j].flag \in {"clear", "pending", "committed"}
    BY DEF JobRow
  <1>4. Change(k) = IF \E i \in Jobs : Has(i, k) /\ job[i].flag = "committed" THEN "committed"
                    ELSE IF \E i \in Jobs : Has(i, k) /\ Mid(i) THEN "active" ELSE "none"
    BY DEF Change
  <1>5. Change(k) = IF Has(j, k) /\ job[j].flag = "committed" THEN "committed"
                    ELSE IF Has(j, k) /\ Mid(j) THEN "active" ELSE "none"
    <2> HIDE DEF Mid
    <2> QED BY <1>1, <1>2, <1>4
  <1>6. job[j].flag # "committed" => (Mid(j) <=> job[j].flag # "clear" \/ (k = "handoff" /\ InHandoff(j)))
    BY <1>3 DEF InHandoff
  <1>7. QED
    <2> HIDE DEF Mid
    <2> QED BY <1>5, <1>6 DEF Reading, Accounts

(* The same in the next state.                                             *)
LEMMA ChangeMineNext == ReadOff'
  BY ChangeMine, PTL

(* A journal in use belongs to the one holder.                             *)
LEMMA BusyMine ==
  ASSUME TypeOK, Journals, Accounted, NEW j \in Jobs, \A i \in Jobs : Holds(i) => i = j,
         NEW k \in Protected
  PROVE  /\ journal[k].phase # "none" => journal[k].owner = j /\ Accounts(j, k)
         /\ journal[k].unit # "none" => journal[k].by = j /\ Accounts(j, k)
         /\ Busy(k) => Accounts(j, k)
  <1>1. journal[k].phase # "none" => journal[k].owner = j /\ Accounts(j, k)
    BY AccountsHolds DEF Accounted, TypeOK
  <1>2. journal[k].unit # "none" => journal[k].by = j /\ Accounts(j, k)
    BY AccountsHolds DEF Accounted, Journals
  <1>3. QED
    BY <1>1, <1>2 DEF Busy

-----------------------------------------------------------------------------
(* A step of the thread that leaves the helper alone.                      *)

Still == /\ journal' = journal
         /\ \A k \in Protected : runtime'[k] = runtime[k] /\ baseline'[k] = baseline[k]
Good == IInv' /\ \A k \in Protected : Refines(k)

(* The invariant but for the committed rows.                               *)
LEMMA TurnStep ==
  ASSUME IInv, NEW j \in Jobs, Turns(j), journal' = journal,
         Holds(j)' => Holds(j),
         \A k \in Protected : Busy(k) /\ Accounts(j, k) => Accounts(j, k)',
         journal["pair"].receipt = j =>
            /\ job'[j].flag # "pending" /\ X'.pc # "flag"
            /\ \A n \in DOMAIN job[j].plan :
                  job[j].plan[n] = "pair" => job'[j].steps[n] # "pending",
         TypeOK', Untouched(j)', Flagged(j)', Verdict(j)', Committed',
         Place', Steps', Flags', Handoff', Known'
  PROVE  IInv'
  <1>1. TypeOK /\ Rows /\ Thread /\ Helper /\ Startups
    BY DEF IInv
  <1>2. /\ job \in [Jobs -> JobRow] /\ job' \in [Jobs -> JobRow]
        /\ \A i \in Jobs, k \in Protected : Has(i, k)' <=> Has(i, k)
    BY <1>1 DEF TypeOK, Has, Turns
  <1>3. \A i \in Jobs : Holds(i) => i = j
    BY <1>1 DEF Rows, Alone, Turns
  <1>4. \A i \in Jobs : Holds(i)' => i = j
    BY <1>3 DEF Holds, Active, Turns
  <1>5. Rows'
    <2>1. Edited'
      BY <1>1 DEF Rows, Edited, Turns
    <2>2. OneHolder' /\ Alone'
      BY <1>4 DEF OneHolder, Alone, Turns, Mine, Idle
    <2>3. \A i \in Jobs : i # j => RowOK(i)'
      BY <1>1
      DEF Rows, RowOK, Planned, Untouched, Flagged, Verdict, AllSucceeded, LeftOut, Trails,
                  NoneOpen, Has, Turns
    <2>4. Planned(j)'
      <3>1. job[j].status # "new"
        BY <1>1 DEF Thread, Threads, Turns, Row
      <3>2. QED
        BY <1>1, <3>1 DEF Rows, RowOK, Planned, Turns
    <2>5. QED
      BY <2>1, <2>2, <2>3, <2>4 DEF Rows, RowOK
  <1>6. Threads'
    <2>1. \A p \in Procs \ {"web"} : exec'[p] = Idle
      BY <1>1 DEF Thread, Threads, Turns
    <2>2. X'.pc = "idle" => X' = Idle
      BY DEF Turns
    <2>3. X'.pc # "idle" => X'.job = j
      BY DEF Turns, Idle
    <2>4. web' = "up" /\ job'[j].status # "new"
      BY <1>1 DEF Thread, Threads, Turns
    <2>5. QED
      BY <2>1, <2>2, <2>3, <2>4 DEF Threads, Mine, Row
  <1>7. Journals'
    BY <1>1 DEF Helper, Journals
  <1>8. Accounted'
    BY <1>1, <1>3, BusyMine DEF Helper, Accounted, Busy
  <1>9. Receipts'
    <2>1. CASE journal["pair"].receipt = j
      BY <1>1, <1>2, <2>1 DEF Helper, Receipts, Turns, Protected
    <2>2. CASE journal["pair"].receipt # j
      BY <1>1, <1>2, <2>2 DEF Helper, Receipts, Turns, Mine, Idle, Protected
    <2>3. QED
      BY <2>1, <2>2
  <1>10. Startups'
    <2>1. web = "up" /\ web' = "up" /\ recovery' = recovery
      BY <1>1 DEF Thread, Threads, Turns
    <2>2. \A i \in Jobs : recovery'[i] = "idle"
      BY <1>1, <2>1 DEF Startups
    <2>3. QED
      BY <2>1, <2>2 DEF Startups
  <1>11. QED
    BY <1>1, <1>5, <1>6, <1>7, <1>8, <1>9, <1>10 DEF IInv, Thread, Helper, Rows

(* A change of one row at most.                                            *)
Alters(j) ==
    /\ \A i \in Jobs : i # j => job'[i] = job[i]
    /\ \A i \in Jobs : job'[i].plan = job[i].plan /\ job'[i].captured = job[i].captured
    /\ \A i \in Jobs : Holds(i) => i = j

(* A change of one row that keeps what the journals rest on refines.       *)
LEMMA AlterRefines ==
  ASSUME IInv, NEW j \in Jobs, Alters(j), Keeps(j), Still, TypeOK'
  PROVE  Committed' /\ \A k \in Protected : Refines(k)
  <1>1. TypeOK /\ Rows /\ Thread /\ Helper /\ Startups
    BY DEF IInv
  <1>2. /\ job \in [Jobs -> JobRow] /\ job' \in [Jobs -> JobRow]
        /\ \A i \in Jobs, k \in Protected : Has(i, k)' <=> Has(i, k)
    BY <1>1 DEF TypeOK, Has, Alters
  <1>3. \A i \in Jobs : Holds(i) => i = j
    BY DEF Alters
  <1>4. \A i \in Jobs : Holds(i)' => i = j
    BY <1>3 DEF Holds, Active, Alters, Keeps
  <1>5. Committed'
    <2> SUFFICES ASSUME NEW i \in Jobs, NEW k \in Protected, job'[i].flag = "committed", Has(i, k)'
                 PROVE  /\ baseline'[k] = job'[i].captured[k] /\ journal'[k].unit = "none"
                        /\ journal'[k].phase = "none" =>
                             journal'[k].receipt = i /\ runtime'[k] = job'[i].captured[k]
                        /\ journal'[k].phase # "none" =>
                             /\ journal'[k].phase = "awaiting" /\ journal'[k].owner = i
                             /\ journal'[k].restored \/ runtime'[k] = job'[i].captured[k]
      BY DEF Committed
    <2>1. i = j
      BY <1>4 DEF Holds
    <2>2. job[i].flag = "committed" /\ Has(i, k)
      BY <1>2, <2>1 DEF Keeps
    <2>3. QED
      BY <1>1, <2>2 DEF Helper, Committed, Still, Alters
  <1>6. ASSUME NEW k \in Protected PROVE Refines(k)
    <2>1. Change(k) = Reading(j, k) /\ Change(k)' = Reading(j, k)'
      BY <1>2, <1>3, <1>4, ChangeMine, ChangeMineNext DEF ReadOff
    <2>2. /\ Busy(k) => Accounts(j, k)
          /\ Busy(k) /\ Accounts(j, k) => Accounts(j, k)'
      BY <1>1, <1>3, BusyMine DEF Helper, Keeps
    <2>3. ~Busy(k) => Saved(k) = runtime[k] /\ Saved(k)' = runtime[k]
      BY DEF Saved, Busy, Still
    <2>4. Saved(k)' = Saved(k) /\ runtime'[k] = runtime[k] /\ baseline'[k] = baseline[k]
      BY DEF Saved, Still
    <2>5. CASE Has(j, k) /\ job[j].flag = "committed"
      <3>1. CASE job'[j].flag = "committed"
        BY <1>2, <2>1, <2>4, <2>5, <3>1 DEF Refines, Same, Reading
      <3>2. CASE job'[j].flag # "committed"
        <4>1. ~Accounts(j, k)'
          BY <2>5, <3>2 DEF Keeps, Accounts
        <4>2. ~Busy(k)
          BY <2>2, <4>1
        <4>3. runtime[k] = baseline[k]
          BY <1>1, <2>5, <4>2 DEF Helper, Committed, Busy
        <4>4. Change(k) = "committed" /\ Change(k)' = "none"
          BY <2>1, <2>5, <3>2, <4>1 DEF Reading
        <4>5. QED
          BY <2>4, <4>3, <4>4 DEF Refines, Closes
      <3>3. QED
        BY <3>1, <3>2
    <2>6. CASE ~(Has(j, k) /\ job[j].flag = "committed")
      <3>1. ~(Has(j, k)' /\ job'[j].flag = "committed")
        BY <1>2, <2>6 DEF Keeps
      <3>2. /\ Change(k) = IF Accounts(j, k) THEN "active" ELSE "none"
            /\ Change(k)' = IF Accounts(j, k)' THEN "active" ELSE "none"
        BY <2>1, <2>6, <3>1 DEF Reading
      <3>3. QED
        BY <2>2, <2>3, <2>4, <3>2 DEF Refines, Same, Opens, Closes
    <2>7. QED
      BY <2>5, <2>6
  <1>7. QED
    BY <1>5, <1>6

(* A step of the thread is good when its row and what it knows are.        *)
LEMMA RowStep ==
  ASSUME IInv, NEW j \in Jobs, Turns(j), Keeps(j), Still,
         TypeOK', Untouched(j)', Flagged(j)', Verdict(j)',
         Place', Steps', Flags', Handoff', Known'
  PROVE  Good
  <1>1. Alters(j)
    BY DEF IInv, Rows, Alone, Turns, Alters
  <1>2. Committed' /\ \A k \in Protected : Refines(k)
    BY <1>1, AlterRefines
  <1>3. IInv'
    BY <1>2, TurnStep DEF Keeps, Still
  <1>4. QED
    BY <1>2, <1>3 DEF Good

(* A change of one row beside the thread.                                  *)
LEMMA AlterStep ==
  ASSUME IInv, NEW j \in Jobs, Alters(j), Keeps(j), Still, UNCHANGED desired,
         X'.pc # "idle" => Mine' = j,
         TypeOK', Untouched(j)', Flagged(j)', Verdict(j)', Planned(j)', Thread', Known', Startups'
  PROVE  Good
  <1>1. Committed' /\ \A k \in Protected : Refines(k)
    BY AlterRefines
  <1>2. /\ job \in [Jobs -> JobRow] /\ job' \in [Jobs -> JobRow]
        /\ \A i \in Jobs, k \in Protected : Has(i, k)' <=> Has(i, k)
    BY DEF IInv, TypeOK, Has, Alters
  <1>3. \A i \in Jobs : Holds(i)' => i = j
    BY DEF Holds, Active, Alters, Keeps
  <1>4. Rows'
    <2>1. Edited' /\ OneHolder' /\ Alone'
      BY <1>3 DEF IInv, Rows, Edited, OneHolder, Alone
    <2>2. \A i \in Jobs : i # j => RowOK(i)'
      BY DEF IInv, Rows, RowOK, Planned, Untouched, Flagged, Verdict, AllSucceeded,
             LeftOut, Trails,
             NoneOpen, Has, Alters
    <2>3. QED
      BY <2>1, <2>2 DEF Rows, RowOK
  <1>5. Journals'
    BY DEF IInv, Helper, Journals, Still
  <1>6. Accounted'
    <2>1. \A i \in Jobs : Holds(i) => i = j
      BY DEF Alters
    <2>2. \A k \in Protected : Busy(k) /\ Accounts(j, k) => Accounts(j, k)'
      BY DEF Keeps
    <2>3. QED
      BY <2>1, <2>2, BusyMine DEF IInv, Helper, Accounted, Busy, Still
  <1>7. Receipts'
    <2>1. CASE journal["pair"].receipt = j
      BY <1>2, <2>1 DEF IInv, Helper, Receipts, Alters, Keeps, Still, Protected
    <2>2. CASE journal["pair"].receipt # j
      BY <1>2, <2>2 DEF IInv, Helper, Receipts, Alters, Still, Protected
    <2>3. QED
      BY <2>1, <2>2
  <1>8. IInv'
    BY <1>1, <1>4, <1>5, <1>6, <1>7 DEF IInv, Helper
  <1>9. QED
    BY <1>1, <1>8 DEF Good

-----------------------------------------------------------------------------
(* The steps of the thread on its row.                                     *)
LEMMA ThreadFacts ==
  ASSUME IInv, NEW p \in Procs, E(p).pc # "idle"
  PROVE  /\ p = "web" /\ E(p) = X /\ J(p) = Row /\ Part(p) = Now
         /\ X \in ExecRow /\ Mine \in Jobs /\ X.job = Mine /\ X # Idle
         /\ Row = job[Mine] /\ Row \in JobRow /\ DOMAIN Row.steps = DOMAIN Row.plan
         /\ Row.status # "new" /\ web = "up"
         /\ \A i \in Jobs : Holds(i) => i = Mine
         /\ X.committed => Beyond(Mine)
  <1>1. p = "web"
    BY OnlyWeb DEF IInv, Thread, E
  <1>2. E(p) = X /\ J(p) = Row /\ Part(p) = Now
    BY <1>1 DEF E, J, Part, X, Row, Now, Mine
  <1>3. X \in ExecRow
    BY <1>1 DEF IInv, TypeOK, X
  <1>4. Mine \in Jobs /\ Row.status # "new" /\ web = "up"
    BY <1>2 DEF IInv, Thread, Threads
  <1>5. Row \in JobRow /\ DOMAIN Row.steps = DOMAIN Row.plan
    BY <1>4 DEF IInv, TypeOK, Row
  <1>6. \A i \in Jobs : Holds(i) => i = Mine
    BY <1>2 DEF IInv, Rows, Alone
  <1>7. X.committed => Beyond(Mine)
    BY DEF IInv, Thread, Handoff
  <1>8. QED
    BY <1>1, <1>2, <1>3, <1>4, <1>5, <1>6, <1>7 DEF Row, Mine, Idle

(* The locals of no thread are well typed.                                 *)
LEMMA IdleRow == Idle \in ExecRow
  BY DEF Idle, ExecRow, Pcs, Answers, NoJob

(* The thread, at work on task j, makes r of its row and x of its locals.  *)
Sets(j, r, x) ==
    /\ j = Mine /\ X.pc # "idle"
    /\ job' = [job EXCEPT ![j] = r] /\ exec' = [exec EXCEPT !["web"] = x]
    /\ r \in JobRow /\ r.plan = job[j].plan /\ r.captured = job[j].captured
    /\ r.status # "new" /\ DOMAIN r.steps = DOMAIN job[j].steps
    /\ x \in ExecRow /\ (x = Idle \/ (x.pc # "idle" /\ x.job = j))
    /\ UNCHANGED <<desired, web, recovery, journal>> /\ faults' \in 0 .. MaxFaults
    /\ baseline' \in [Items -> Versions] /\ runtime' \in [Items -> Values]

Writes(j, r, x) ==
    /\ Sets(j, r, x)
    /\ \A k \in Protected : runtime'[k] = runtime[k] /\ baseline'[k] = baseline[k]

(* Such a step is well typed and rewrites that one row.                    *)
LEMMA SetMove ==
  ASSUME IInv, NEW j \in Jobs, NEW r, NEW x, Sets(j, r, x)
  PROVE  /\ Turns(j) /\ TypeOK' /\ job'[j] = r /\ X' = x
         /\ \A k \in Protected : (Busy(k)' <=> Busy(k)) /\ (Has(j, k)' <=> Has(j, k))
         /\ \A k \in Protected : journal'[k] = journal[k]
  <1>0. TypeOK /\ "web" \in Procs
    BY ApplyConstants DEF IInv
  <1>1. /\ job' \in [Jobs -> JobRow] /\ job'[j] = r
        /\ \A i \in Jobs : i # j => job'[i] = job[i]
    BY <1>0 DEF TypeOK, Sets
  <1>2. /\ exec' \in [Procs -> ExecRow] /\ X' = x
        /\ \A p \in Procs \ {"web"} : exec'[p] = exec[p]
    BY <1>0 DEF TypeOK, X, Sets
  <1>3. \A i \in Jobs : DOMAIN job'[i].steps = DOMAIN job'[i].plan
    BY <1>0, <1>1 DEF TypeOK, Sets
  <1>4. TypeOK'
    BY <1>0, <1>1, <1>2, <1>3 DEF TypeOK, Sets
  <1>5. Turns(j)
    BY <1>1, <1>2 DEF Turns, Sets
  <1>6. /\ \A k \in Protected : (Busy(k)' <=> Busy(k)) /\ (Has(j, k)' <=> Has(j, k))
        /\ \A k \in Protected : journal'[k] = journal[k]
    BY <1>1 DEF Has, Busy, Sets
  <1>7. QED
    BY <1>1, <1>2, <1>4, <1>5, <1>6

(* The same, where no protected part is touched.                           *)
LEMMA RowMove ==
  ASSUME IInv, NEW j \in Jobs, NEW r, NEW x, Writes(j, r, x)
  PROVE  /\ Turns(j) /\ Still /\ TypeOK' /\ job'[j] = r /\ X' = x
         /\ \A k \in Protected : (Busy(k)' <=> Busy(k)) /\ (Has(j, k)' <=> Has(j, k))
         /\ \A k \in Protected : journal'[k] = journal[k]
  <1>1. Sets(j, r, x)
    BY DEF Writes
  <1>2. Still
    BY DEF Writes, Sets, Still
  <1>3. QED
    BY <1>1, <1>2, SetMove

(* A step that leaves the row as it is.                                    *)
LEMMA SameRow ==
  ASSUME IInv, NEW j \in Jobs, Turns(j), job'[j] = job[j], X'.pc # "flag"
  PROVE  /\ Keeps(j) /\ Untouched(j)' /\ Flagged(j)' /\ Verdict(j)'
         /\ X.committed => Beyond(j)'
  <1>1. Untouched(j) /\ Flagged(j) /\ Verdict(j)
    BY DEF IInv, Rows, RowOK
  <1>2. Untouched(j)' /\ Flagged(j)' /\ Verdict(j)'
    BY <1>1 DEF Untouched, Flagged, Verdict, AllSucceeded, LeftOut, Trails, NoneOpen, Has
  <1>3. /\ Holds(j)' <=> Holds(j)
        /\ \A k \in Protected : Accounts(j, k)' <=> Accounts(j, k)
    BY DEF Holds, Active, Accounts, Has, InHandoff
  <1>4. journal["pair"].receipt = j =>
          /\ job[j].flag # "pending"
          /\ \A n \in DOMAIN job[j].plan :
                job[j].plan[n] = "pair" => job[j].steps[n] # "pending"
    BY DEF IInv, Helper, Receipts
  <1>5. Keeps(j)
    BY <1>3, <1>4 DEF Keeps
  <1>6. X.committed => Beyond(j)'
    BY DEF Beyond, IInv, Thread, Handoff, Turns
  <1>7. QED
    BY <1>2, <1>5, <1>6

(* Where the thread is not in the handoff, no handoff is running.          *)
LEMMA NotInHandoff ==
  ASSUME IInv, Mine \in Jobs,
         X.pc \in {"claim", "check", "loop", "final", "audit"} \cup OnUnit \cup InPart,
         X.pc \in InPart => Now # "handoff"
  PROVE  ~InHandoff(Mine)
  <1>1. DOMAIN Row.steps = DOMAIN Row.plan
    BY DEF IInv, TypeOK, Row
  <1>2. DOMAIN Row.plan = 1 .. Len(Row.plan) /\ Len(Row.plan) \in Nat /\ X.at \in Nat
    BY PlanFacts, ApplyConstants DEF IInv, Row, TypeOK, ExecRow, X
  <1>3. CASE X.pc \in {"claim", "audit"}
    BY <1>3 DEF IInv, Thread, Place, InHandoff, Row
  <1>4. CASE X.pc = "check"
    BY <1>1, <1>4 DEF IInv, Thread, Steps, InHandoff, Row
  <1>5. CASE X.pc = "final"
    BY <1>1, <1>5
    DEF IInv, Thread, Steps, InHandoff, Row, AllSucceeded, LeftOut, Trails, NoneOpen
  <1>6. CASE X.pc \in InPart \cup {"loop"}
    <2>1. \A n \in DOMAIN Row.plan : n # X.at => Row.steps[n] # "running"
      BY <1>1, <1>2, <1>6 DEF IInv, Thread, Steps
    <2>2. X.pc = "loop" /\ X.at \in DOMAIN Row.plan => Row.steps[X.at] # "running"
      BY <1>1 DEF IInv, Thread, Steps
    <2>3. QED
      BY <1>6, <2>1, <2>2 DEF InHandoff, Row, Now
  <1>7. QED
    BY <1>3, <1>4, <1>5, <1>6 DEF OnUnit, InPart

(* Then its journal is not in use, unless a flag accounts for it.          *)
LEMMA HandoffQuiet ==
  ASSUME IInv, Mine \in Jobs, X.pc # "idle", ~InHandoff(Mine), Row.flag = "clear"
  PROVE  ~Busy("handoff")
  <1>1. \A i \in Jobs : Holds(i) => i = Mine
    BY DEF IInv, Rows, Alone
  <1>2. ~Accounts(Mine, "handoff")
    BY DEF Accounts, Row
  <1>3. PICK j \in Jobs : j = Mine
    OBVIOUS
  <1>4. QED
    BY <1>1, <1>2, <1>3, BusyMine DEF IInv, Helper, Protected

(* Faults stay within their bound.                                         *)
LEMMA SpendType ==
  ASSUME IInv, faults' = faults \/ Spend(0) \/ Spend(1)
  PROVE  faults' \in 0 .. MaxFaults
  BY ApplyConstants DEF IInv, TypeOK, Spend

(* An idle thread knows nothing.                                           *)
LEMMA IdleKnows ==
  ASSUME X' = Idle
  PROVE  Place' /\ Steps' /\ Flags' /\ Handoff' /\ Known'
  <1>1. X'.pc = "idle" /\ ~X'.pending /\ ~X'.committed
    BY DEF Idle
  <1>2. Place' /\ Steps' /\ Flags'
    BY <1>1 DEF Place, Steps, Flags, InPart, OnPair, OnUnit, Either
  <1>3. Handoff' /\ Known'
    BY <1>1 DEF Handoff, Known, OnPair, OnUnit, Either
  <1>4. QED
    BY <1>2, <1>3

(* The claim, or the cancellation that was first.                          *)
LEMMA ClaimStep ==
  ASSUME IInv, NEW p \in Procs, Claim(p)
  PROVE  Good
  <1>1. E(p).pc # "idle"
    BY DEF Claim, At
  <1>2. PICK j \in Jobs : j = Mine
    BY <1>1, ThreadFacts
  <1>3. /\ p = "web" /\ E(p) = X /\ J(p) = job[j] /\ X \in ExecRow /\ X.job = j
        /\ Row = job[j] /\ job[j] \in JobRow /\ job[j].status # "new" /\ X.pc = "claim"
        /\ DOMAIN job[j].steps = DOMAIN job[j].plan
    BY <1>1, <1>2, ThreadFacts DEF Claim, At
  <1>4. /\ job[j].status \in {"pending", "cancelled"} /\ X.end = "none"
        /\ ~X.pending /\ ~X.committed
    BY <1>3 DEF IInv, Thread, Place, Steps, Handoff
  <1>5. Untouched(j) /\ Flagged(j) /\ Verdict(j)
    BY DEF IInv, Rows, RowOK
  <1> DEFINE claims == job[j].status = "pending" /\ job[j].cancel = "no"
             r == IF claims THEN [job[j] EXCEPT !.status = "running"] ELSE job[j]
             x == IF claims THEN [X EXCEPT !.pc = "check"] ELSE Idle
  <1>6. Writes(j, r, x)
    <2>1. job' = [job EXCEPT ![j] = r] /\ exec' = [exec EXCEPT !["web"] = x]
      BY <1>3 DEF Claim, Put, Goto, E, X, IInv, TypeOK
    <2>2. r \in JobRow /\ x \in ExecRow
      <3>1. [job[j] EXCEPT !.status = "running"] \in JobRow
        BY <1>3 DEF JobRow, Statuses
      <3>2. [X EXCEPT !.pc = "check"] \in ExecRow
        BY <1>3 DEF ExecRow, Pcs
      <3>3. QED
        BY <1>3, <3>1, <3>2, IdleRow
    <2>3. QED
      BY <1>2, <1>3, <2>1, <2>2 DEF Writes, Sets, Claim, IInv, TypeOK
  <1>7. r.plan = job[j].plan /\ r.steps = job[j].steps /\ r.flag = "clear" /\ job[j].flag = "clear"
    BY <1>3, <1>4, <1>5 DEF JobRow, Untouched, Verdict, LeftOut, Trails
  <1>8. \/ /\ r.status = "running" /\ x.pc = "check" /\ ~x.pending /\ ~x.committed
           /\ x.end = "none" /\ job[j].status = "pending" /\ x.job = j
        \/ r = job[j] /\ x = Idle
    BY <1>3, <1>4 DEF JobRow, ExecRow
  <1> HIDE DEF r, x
  <1>9. /\ Turns(j) /\ Still /\ TypeOK' /\ job'[j] = r /\ X' = x
        /\ \A k \in Protected : (Busy(k)' <=> Busy(k)) /\ (Has(j, k)' <=> Has(j, k))
    BY <1>6, RowMove
  <1>10. Keeps(j) /\ Untouched(j)' /\ Flagged(j)' /\ Verdict(j)'
    <2>1. CASE r = job[j] /\ x = Idle
      BY <1>9, <2>1, SameRow DEF Idle
    <2>2. CASE r # job[j] \/ x # Idle
      <3>1. /\ job[j].status = "pending" /\ r.status = "running" /\ x.pc = "check"
            /\ \A n \in DOMAIN job[j].plan : job[j].steps[n] = "pending"
        BY <1>3, <1>5, <1>8, <2>2 DEF Untouched
      <3>2. ~InHandoff(j) /\ ~InHandoff(j)'
        BY <1>7, <1>9, <3>1 DEF InHandoff
      <3>3. journal["pair"].receipt # j
        BY <3>1 DEF IInv, Helper, Receipts, Has
      <3>4. Keeps(j)
        BY <1>7, <1>9, <3>1, <3>2, <3>3 DEF Keeps, Holds, Active, Accounts
      <3>5. Untouched(j)' /\ Flagged(j)' /\ Verdict(j)'
        BY <1>7, <1>9, <3>1 DEF Untouched, Flagged, Verdict
      <3>6. QED
        BY <3>4, <3>5
    <2>3. QED
      BY <2>1, <2>2
  <1>11. Place'
    BY <1>8, <1>9 DEF Place, Mine, Row, Idle, InPart, OnPair, OnUnit, Either
  <1>12. Steps'
    BY <1>5, <1>7, <1>8, <1>9 DEF Steps, Mine, Row, Untouched, Idle, InPart
  <1>13. Flags'
    BY <1>7, <1>8, <1>9 DEF Flags, Mine, Row, Idle, OnUnit
  <1>14. Handoff'
    BY <1>8, <1>9 DEF Handoff, Mine, Row, Idle, OnPair, OnUnit, Either
  <1>15. Known'
    <2>1. X'.pc \in {"idle", "check"}
      BY <1>8, <1>9 DEF Idle
    <2>2. QED
      BY <2>1 DEF Known
  <1>16. QED
    BY <1>9, <1>10, <1>11, <1>12, <1>13, <1>14, <1>15, RowStep

(* The comparison with what was submitted.                                 *)
LEMMA CheckStep ==
  ASSUME IInv, NEW p \in Procs, Check(p)
  PROVE  Good
  <1>1. E(p).pc # "idle"
    BY DEF Check, At
  <1>2. PICK j \in Jobs : j = Mine
    BY <1>1, ThreadFacts
  <1>3. /\ p = "web" /\ E(p) = X /\ J(p) = job[j] /\ X \in ExecRow /\ X.job = j
        /\ Row = job[j] /\ job[j] \in JobRow /\ job[j].status # "new" /\ X.pc = "check"
        /\ DOMAIN job[j].steps = DOMAIN job[j].plan
    BY <1>1, <1>2, ThreadFacts DEF Check, At
  <1>4. /\ job[j].status = "running" /\ X.end = "none" /\ job[j].flag = "clear"
        /\ ~X.pending /\ ~X.committed
        /\ \A n \in DOMAIN job[j].steps : job[j].steps[n] = "pending"
    BY <1>3 DEF IInv, Thread, Place, Steps, Flags, Handoff
  <1>5. DOMAIN job[j].plan = 1 .. Len(job[j].plan) /\ Len(job[j].plan) \in Nat
    BY PlanFacts DEF IInv
  <1> DEFINE x == [X EXCEPT !.pc = IF Unchanged(p) THEN "loop" ELSE "raise", !.at = 1]
  <1>6. Writes(j, job[j], x)
    <2>1. job' = [job EXCEPT ![j] = job[j]] /\ exec' = [exec EXCEPT !["web"] = x]
      BY <1>3 DEF Check, E, X, IInv, TypeOK
    <2>2. x \in ExecRow
      BY <1>3 DEF ExecRow, Pcs
    <2>3. QED
      BY <1>2, <1>3, <2>1, <2>2 DEF Writes, Sets, Check, IInv, TypeOK, ExecRow
  <1>7. /\ x.pc \in {"loop", "raise"} /\ x.job = j /\ x.at = 1 /\ x.end = "none"
        /\ ~x.pending /\ ~x.committed
    BY <1>3, <1>4 DEF ExecRow
  <1> HIDE DEF x
  <1>8. /\ Turns(j) /\ Still /\ TypeOK' /\ job'[j] = job[j] /\ X' = x
        /\ \A k \in Protected : (Busy(k)' <=> Busy(k)) /\ (Has(j, k)' <=> Has(j, k))
    BY <1>6, RowMove
  <1>9. Keeps(j) /\ Untouched(j)' /\ Flagged(j)' /\ Verdict(j)'
    BY <1>7, <1>8, SameRow
  <1>10. Place'
    BY <1>4, <1>7, <1>8 DEF Place, Mine, Row, InPart, OnPair, OnUnit, Either
  <1>11. Steps'
    BY <1>3, <1>4, <1>5, <1>7, <1>8 DEF Steps, Mine, Row, InPart
  <1>12. Flags'
    BY <1>4, <1>7, <1>8 DEF Flags, Mine, Row, OnUnit
  <1>13. Handoff'
    BY <1>7, <1>8 DEF Handoff, Mine, Row, OnPair, OnUnit, Either
  <1>14. Known'
    <2>1. ~Busy("handoff")'
      BY <1>2, <1>3, <1>4, <1>8, NotInHandoff, HandoffQuiet DEF Protected, InPart
    <2>2. QED
      BY <1>7, <1>8, <2>1 DEF Known
  <1>15. QED
    BY <1>8, <1>9, <1>10, <1>11, <1>12, <1>13, <1>14, RowStep

(* An ordinary component is applied in place.                              *)
LEMMA ApplyUnitStep ==
  ASSUME IInv, NEW p \in Procs, ApplyUnit(p)
  PROVE  Good
  <1>1. E(p).pc # "idle"
    BY DEF ApplyUnit, At
  <1>2. PICK j \in Jobs : j = Mine
    BY <1>1, ThreadFacts
  <1>3. /\ p = "web" /\ E(p) = X /\ J(p) = job[j] /\ X \in ExecRow /\ X.job = j
        /\ Row = job[j] /\ job[j] \in JobRow /\ job[j].status # "new" /\ X.pc = "unit"
        /\ DOMAIN job[j].steps = DOMAIN job[j].plan /\ Part(p) = Now
        /\ Now = job[j].plan[X.at]
    BY <1>1, <1>2, ThreadFacts DEF ApplyUnit, At, Now
  <1>4. /\ job[j].status = "running" /\ X.end = "none" /\ job[j].flag = "clear" /\ ~X.pending
        /\ X.at \in DOMAIN job[j].plan /\ Now = "unit" /\ job[j].steps[X.at] = "running"
        /\ \A n \in DOMAIN job[j].steps : /\ n < X.at => job[j].steps[n] = "succeeded"
                                          /\ n > X.at => job[j].steps[n] = "pending"
    BY <1>3 DEF IInv, Thread, Place, Steps, Flags, Handoff, InPart, OnUnit
  <1>5. PICK pc \in {"applied", "broken"} :
           /\ exec' = [exec EXCEPT !["web"] = [X EXCEPT !.pc = pc]]
           /\ \E v \in Values : runtime' = [runtime EXCEPT !["unit"] = v]
           /\ faults' \in 0 .. MaxFaults
    <2>1. job[j].captured["unit"] \in Values /\ Mixed \in Values
      BY <1>3 DEF JobRow, Items, Values, Protected
    <2>2. faults \in 0 .. MaxFaults /\ MaxFaults \in Nat
      BY ApplyConstants DEF IInv, TypeOK
    <2>3. QED
      BY <1>3, <1>4, <2>1, <2>2 DEF ApplyUnit, Goto, Spend, E, X
  <1> DEFINE x == [X EXCEPT !.pc = pc]
  <1>6. Writes(j, job[j], x)
    <2>1. job' = [job EXCEPT ![j] = job[j]] /\ exec' = [exec EXCEPT !["web"] = x]
      BY <1>5 DEF ApplyUnit, IInv, TypeOK
    <2>2. x \in ExecRow /\ x.pc # "idle" /\ x.job = j
      BY <1>3 DEF ExecRow, Pcs
    <2>3. runtime' \in [Items -> Values] /\ \A k \in Protected : runtime'[k] = runtime[k]
      BY <1>5 DEF IInv, TypeOK, Items, Protected
    <2>4. QED
      BY <1>2, <1>3, <1>5, <2>1, <2>2, <2>3 DEF Writes, Sets, ApplyUnit, IInv, TypeOK
  <1>7. /\ x.pc \in {"applied", "broken"} /\ x.job = j /\ x.at = X.at /\ x.end = "none"
        /\ ~x.pending /\ x.committed = X.committed
    BY <1>3, <1>4 DEF ExecRow
  <1> HIDE DEF x
  <1>8. /\ Turns(j) /\ Still /\ TypeOK' /\ job'[j] = job[j] /\ X' = x
        /\ \A k \in Protected : (Busy(k)' <=> Busy(k)) /\ (Has(j, k)' <=> Has(j, k))
        /\ \A k \in Protected : journal'[k] = journal[k] /\ runtime'[k] = runtime[k]
    BY <1>6, RowMove DEF Still
  <1>9. /\ Keeps(j) /\ Untouched(j)' /\ Flagged(j)' /\ Verdict(j)'
        /\ X.committed => Beyond(j)'
    BY <1>7, <1>8, SameRow
  <1>10. Place'
    BY <1>3, <1>4, <1>7, <1>8 DEF Place, Mine, Row, Now, InPart, OnPair, OnUnit, Either
  <1>11. Steps'
    BY <1>3, <1>4, <1>7, <1>8 DEF Steps, Mine, Row, InPart
  <1>12. Flags'
    BY <1>4, <1>7, <1>8 DEF Flags, Mine, Row, OnUnit
  <1>13. Handoff'
    BY <1>7, <1>8, <1>9 DEF Handoff, Mine, Row, OnPair, OnUnit, Either
  <1>14. Known'
    BY <1>7, <1>8 DEF Known
  <1>15. QED
    BY <1>8, <1>9, <1>10, <1>11, <1>12, <1>13, <1>14, RowStep

(* The answer of the apply, or the end of the wait for it.                 *)
LEMMA WaitStep ==
  ASSUME IInv, NEW p \in Procs, Wait(p)
  PROVE  Good
  <1>1. E(p).pc # "idle"
    BY DEF Wait, At
  <1>2. PICK j \in Jobs : j = Mine
    BY <1>1, ThreadFacts
  <1>3. /\ p = "web" /\ E(p) = X /\ J(p) = job[j] /\ X \in ExecRow /\ X.job = j
        /\ Row = job[j] /\ job[j] \in JobRow /\ job[j].status # "new" /\ X.pc = "wait"
        /\ DOMAIN job[j].steps = DOMAIN job[j].plan /\ Part(p) = Now
        /\ Now = job[j].plan[X.at]
    BY <1>1, <1>2, ThreadFacts DEF Wait, At, Now
  <1>4. /\ job[j].status = "running" /\ X.end = "none"
        /\ job[j].flag = IF Now = "pair" THEN "pending" ELSE "clear"
        /\ X.at \in DOMAIN job[j].plan /\ Now \in Protected /\ job[j].steps[X.at] = "running"
        /\ \A n \in DOMAIN job[j].steps : /\ n < X.at => job[j].steps[n] = "succeeded"
                                          /\ n > X.at => job[j].steps[n] = "pending"
    BY <1>3 DEF IInv, Thread, Place, Steps, Flags, InPart, Either
  <1>5. /\ X.pending => /\ Has(j, "handoff") /\ Holds(j)
                        /\ X.committed <=> job[j].flag = "committed"
        /\ Now = "handoff" => X.pending
        /\ journal[Now].result = "ok" => Ready(Now)
        /\ journal[Now].result = "rolled back" => ~Busy(Now)
    BY <1>2, <1>3 DEF IInv, Thread, Handoff, Helper, Known, Either
  <1> DEFINE jr == journal[Now]
             x == IF jr.unit = "none"
                  THEN [X EXCEPT !.pc = IF jr.result = "ok" THEN "commit" ELSE "recover",
                                 !.answer = IF jr.result = "rolled back" THEN jr.result ELSE "none"]
                  ELSE [X EXCEPT !.pc = "recover", !.answer = "none"]
  <1>6. Writes(j, job[j], x)
    <2>1. job' = [job EXCEPT ![j] = job[j]] /\ exec' = [exec EXCEPT !["web"] = x]
      <3>0. job' = [job EXCEPT ![j] = job[j]]
        BY DEF Wait, IInv, TypeOK
      <3>1. CASE jr.unit = "none"
        BY ZenonT(60), <1>3, <3>0, <3>1 DEF Wait, E, X
      <3>2. CASE jr.unit # "none"
        BY <1>3, <3>0, <3>2 DEF Wait, E, X
      <3>3. QED
        BY <3>1, <3>2
    <2>2. x \in ExecRow /\ x.pc # "idle" /\ x.job = j
      BY ZenonT(60), <1>3 DEF ExecRow, Pcs, Answers
    <2>3. faults' \in 0 .. MaxFaults
      <3>1. faults \in 0 .. MaxFaults /\ MaxFaults \in Nat
        BY ApplyConstants DEF IInv, TypeOK
      <3>2. faults' = faults \/ Spend(1)
        BY DEF Wait
      <3>3. QED
        BY <3>1, <3>2 DEF Spend
    <2>4. QED
      BY <1>2, <1>3, <2>1, <2>2, <2>3 DEF Writes, Sets, Wait, IInv, TypeOK
  <1>7. /\ x.pc \in {"commit", "recover"} /\ x.job = j /\ x.at = X.at /\ x.end = "none"
        /\ x.pending = X.pending /\ x.committed = X.committed
        /\ x.pc = "commit" => Ready(Now)
        /\ x.pc = "recover" /\ x.answer = "rolled back" => ~Busy(Now)
    BY ZenonT(60), <1>3, <1>4, <1>5 DEF ExecRow
  <1> HIDE DEF x
  <1>8. /\ Turns(j) /\ Still /\ TypeOK' /\ job'[j] = job[j] /\ X' = x
        /\ \A k \in Protected : (Busy(k)' <=> Busy(k)) /\ (Has(j, k)' <=> Has(j, k))
        /\ \A k \in Protected : journal'[k] = journal[k] /\ runtime'[k] = runtime[k]
    BY <1>6, RowMove DEF Still
  <1>9. /\ Keeps(j) /\ Untouched(j)' /\ Flagged(j)' /\ Verdict(j)'
        /\ X.committed => Beyond(j)'
    BY <1>7, <1>8, SameRow
  <1>10. Mine' = j /\ Row' = job[j] /\ Now' = Now
    BY <1>3, <1>7, <1>8 DEF Mine, Row, Now
  <1>11. Place'
    BY <1>4, <1>7, <1>8, <1>10 DEF Place, InPart, OnPair, OnUnit, Either
  <1>12. Steps' /\ Flags'
    BY <1>4, <1>7, <1>8, <1>10 DEF Steps, Flags, InPart, OnUnit
  <1>13. Handoff'
    <2>1. Holds(j)' <=> Holds(j)
      BY <1>8 DEF Holds, Active
    <2>2. QED
      BY <1>5, <1>7, <1>8, <1>9, <1>10, <2>1
      DEF Handoff, OnPair, OnUnit, Either, Protected
  <1>14. Known'
    <2>1. Ready(Now)' <=> Ready(Now)
      BY <1>2, <1>3, <1>4, <1>8, <1>10 DEF Ready
    <2>2. Busy(Now)' <=> Busy(Now)
      BY <1>4, <1>8, <1>10 DEF Busy
    <2>3. QED
      BY <1>7, <1>8, <2>1, <2>2 DEF Known
  <1>15. QED
    BY <1>8, <1>9, <1>10, <1>11, <1>12, <1>13, <1>14, RowStep

(* The audit record ends the task.                                         *)
LEMMA AuditStep ==
  ASSUME IInv, NEW p \in Procs, Audit(p)
  PROVE  Good
  <1>1. E(p).pc # "idle"
    BY DEF Audit, At
  <1>2. PICK j \in Jobs : j = Mine
    BY <1>1, ThreadFacts
  <1>3. /\ p = "web" /\ E(p) = X /\ J(p) = job[j] /\ X \in ExecRow /\ X.job = j
        /\ Row = job[j] /\ job[j] \in JobRow /\ job[j].status # "new" /\ X.pc = "audit"
        /\ DOMAIN job[j].steps = DOMAIN job[j].plan /\ Part(p) = Now
        /\ Now = job[j].plan[X.at]
    BY <1>1, <1>2, ThreadFacts DEF Audit, At, Now
  <1>4. Writes(j, job[j], Idle)
    BY <1>2, <1>3, IdleRow DEF Writes, Sets, Audit, IInv, TypeOK
  <1>5. /\ Turns(j) /\ Still /\ TypeOK' /\ job'[j] = job[j] /\ X' = Idle
    BY <1>4, RowMove
  <1>6. Keeps(j) /\ Untouched(j)' /\ Flagged(j)' /\ Verdict(j)'
    BY <1>5, SameRow DEF Idle
  <1>7. Place' /\ Steps' /\ Flags' /\ Handoff' /\ Known'
    BY <1>5, IdleKnows
  <1>8. QED
    BY <1>5, <1>6, <1>7, RowStep

(* An exception between two steps.                                         *)
LEMMA RaiseStep ==
  ASSUME IInv, NEW p \in Procs, Raise(p)
  PROVE  Good
  <1>1. E(p).pc # "idle"
    BY DEF Raise
  <1>2. PICK j \in Jobs : j = Mine
    BY <1>1, ThreadFacts
  <1>3. /\ p = "web" /\ E(p) = X /\ J(p) = job[j] /\ X \in ExecRow /\ X.job = j
        /\ Row = job[j] /\ job[j] \in JobRow /\ job[j].status # "new" /\ X.pc # "idle"
        /\ DOMAIN job[j].steps = DOMAIN job[j].plan /\ Part(p) = Now
        /\ Now = job[j].plan[X.at]
    BY <1>1, <1>2, ThreadFacts DEF Raise, Now
  <1> DEFINE to == IF X.pc \in {"validate", "commit", "settle", "failed"} /\ Now = "pair"
                   THEN "pairraise" ELSE "raise"
             x == [X EXCEPT !.pc = to]
  <1>4. X.pc \in {"check", "loop", "flag", "validate", "unit", "applied", "broken",
                  "commit", "settle", "paired", "failed", "final", "audit"}
    BY <1>3 DEF Raise
  <1>5. job[j].status # "pending"
    BY <1>3, <1>4 DEF IInv, Thread, Place, InPart
  <1>6. Writes(j, job[j], x)
    <2>1. job' = [job EXCEPT ![j] = job[j]]
      BY DEF Raise, IInv, TypeOK
    <2>2. exec' = [exec EXCEPT !["web"] = x]
      BY <1>3 DEF Raise, Goto, E, X
    <2>3. x \in ExecRow /\ x.pc # "idle" /\ x.job = j
      BY <1>3 DEF ExecRow, Pcs
    <2>4. faults' \in 0 .. MaxFaults
      BY SpendType DEF Raise
    <2>5. QED
      BY <1>2, <1>3, <2>1, <2>2, <2>3, <2>4 DEF Writes, Sets, Raise, IInv, TypeOK
  <1>7. /\ x.pc = to /\ x.job = j /\ x.at = X.at /\ x.end = X.end /\ x.answer = X.answer
        /\ x.pending = X.pending /\ x.committed = X.committed
    BY <1>3 DEF ExecRow
  <1> HIDE DEF x
  <1>8. /\ Turns(j) /\ Still /\ TypeOK' /\ job'[j] = job[j] /\ X' = x
        /\ \A k \in Protected : (Busy(k)' <=> Busy(k)) /\ (Has(j, k)' <=> Has(j, k))
        /\ \A k \in Protected : journal'[k] = journal[k] /\ runtime'[k] = runtime[k]
    BY <1>6, RowMove DEF Still
  <1>9. /\ Keeps(j) /\ Untouched(j)' /\ Flagged(j)' /\ Verdict(j)'
        /\ X.committed => Beyond(j)'
    BY <1>7, <1>8, SameRow
  <1>10. Mine' = j /\ Row' = job[j] /\ Now' = Now
    BY <1>3, <1>7, <1>8 DEF Mine, Row, Now
  <1>11. to = "pairraise" =>
           /\ job[j].status = "running" /\ X.at \in DOMAIN job[j].plan /\ Now = "pair"
           /\ job[j].flag # "clear" /\ ~X.pending
    <2> SUFFICES ASSUME X.pc \in {"validate", "commit", "settle", "failed"}, Now = "pair"
                 PROVE  /\ job[j].status = "running" /\ X.at \in DOMAIN job[j].plan
                        /\ job[j].flag # "clear" /\ ~X.pending
      OBVIOUS
    <2>1. job[j].status = "running" /\ X.at \in DOMAIN job[j].plan /\ job[j].flag # "clear"
      BY <1>3 DEF IInv, Thread, Place, Flags, InPart
    <2>2. Has(j, "pair")
      BY <1>3, <2>1 DEF Has
    <2>3. ~Has(j, "handoff")
      BY <2>2, OnePart DEF IInv, Protected
    <2>4. QED
      BY <1>2, <2>1, <2>3 DEF IInv, Thread, Handoff
  <1>12. Place' /\ Steps' /\ Flags'
    BY <1>5, <1>7, <1>8, <1>10, <1>11
    DEF Place, Steps, Flags, InPart, OnPair, OnUnit, Either
  <1>13. Handoff'
    <2>1. Holds(j)' <=> Holds(j)
      BY <1>8 DEF Holds, Active
    <2>2. X.pending => /\ Has(j, "handoff") /\ Holds(j)
                       /\ X.committed <=> job[j].flag = "committed"
      BY <1>2, <1>3 DEF IInv, Thread, Handoff
    <2>3. QED
      BY <1>7, <1>8, <1>9, <1>10, <1>11, <2>1, <2>2
      DEF Handoff, OnPair, OnUnit, Either, Protected
  <1>14. Known'
    <2>1. to = "raise" /\ ~X.pending /\ job[j].flag = "clear" => ~Busy("handoff")
      <3> SUFFICES ASSUME to = "raise", ~X.pending, job[j].flag = "clear"
                   PROVE  ~Busy("handoff")
        OBVIOUS
      <3>1. CASE X.pc \in Either /\ Now = "handoff"
        <4>1. X.pc = "failed" /\ Proven(X.answer)
          BY <1>3, <1>4, <3>1 DEF IInv, Thread, Handoff, Flags, Either
        <4>2. QED
          BY <3>1, <4>1 DEF IInv, Helper, Known
      <3>2. CASE ~(X.pc \in Either /\ Now = "handoff")
        <4>1. X.pc \in InPart => Now # "handoff"
          BY <3>2 DEF IInv, Thread, Place, InPart, Either, OnPair, OnUnit
        <4>2. ~InHandoff(Mine)
          BY <1>2, <1>4, <4>1, NotInHandoff DEF InPart, OnUnit
        <4>3. QED
          BY <1>2, <1>3, <4>2, HandoffQuiet
      <3>3. QED
        BY <3>1, <3>2
    <2>2. QED
      BY <1>7, <1>8, <1>10, <2>1 DEF Known, Protected
  <1>15. QED
    BY <1>8, <1>9, <1>12, <1>13, <1>14, RowStep

(* A component fails: the thread goes to the end with the flag f.          *)
LEMMA FailStep ==
  ASSUME IInv, NEW p \in Procs, NEW f \in {"clear", "pending", "committed"}, Fails(p, f),
         X.pc \in InPart, p = "web", NEW j \in Jobs, j = Mine,
         UNCHANGED <<desired, baseline, runtime, web, recovery, journal, faults>>,
         f = "committed" <=> job[j].flag = "committed",
         f = "clear" => \A k \in Protected : Accounts(j, k) => ~Busy(k),
         f = "pending" => journal["pair"].receipt # j /\ \E k \in Protected : Has(j, k),
         X.pending => f # "clear"
  PROVE  Good
  <1>1. X.pc # "idle" /\ E(p).pc # "idle"
    BY DEF InPart, E, X
  <1>2. /\ E(p) = X /\ J(p) = job[j] /\ X \in ExecRow /\ X.job = j
        /\ Row = job[j] /\ job[j] \in JobRow /\ job[j].status # "new"
        /\ DOMAIN job[j].steps = DOMAIN job[j].plan
    BY <1>1, ThreadFacts
  <1>3. job[j].status = "running"
    BY <1>2 DEF IInv, Thread, Place, InPart
  <1> DEFINE s == Stopped([job[j].steps EXCEPT ![X.at] = "failed"])
             r == [job[j] EXCEPT !.steps = s, !.flag = f]
             x == [X EXCEPT !.pc = "final", !.end = "failed"]
  <1>4. /\ s \in Seq(StepStates) /\ DOMAIN s = DOMAIN job[j].steps
        /\ \A n \in DOMAIN s : s[n] \notin {"pending", "running"}
    <2>1. job[j].steps \in Seq(StepStates)
      BY <1>2 DEF JobRow
    <2>2. /\ [job[j].steps EXCEPT ![X.at] = "failed"] \in Seq(StepStates)
          /\ DOMAIN [job[j].steps EXCEPT ![X.at] = "failed"] = DOMAIN job[j].steps
      BY <2>1, StepUpdates DEF StepStates
    <2>3. QED
      BY <2>2, StepUpdates, StoppedSteps DEF StepStates
  <1> HIDE DEF s
  <1>5. /\ r \in JobRow /\ r.status = "running" /\ r.steps = s /\ r.flag = f
        /\ r.plan = job[j].plan /\ r.captured = job[j].captured
    BY <1>2, <1>3, <1>4 DEF JobRow
  <1>6. Writes(j, r, x)
    <2>1. job' = [job EXCEPT ![j] = r] /\ exec' = [exec EXCEPT !["web"] = x]
      BY <1>2 DEF Fails, Put, E, X, s
    <2>2. x \in ExecRow /\ x.pc # "idle" /\ x.job = j
      BY ZenonT(60), <1>2 DEF ExecRow, Pcs
    <2>3. QED
      BY <1>1, <1>2, <1>4, <1>5, <2>1, <2>2 DEF Writes, Sets, IInv, TypeOK
  <1>7. /\ x.pc = "final" /\ x.job = j /\ x.end = "failed"
        /\ x.pending = X.pending /\ x.committed = X.committed
    BY <1>2 DEF ExecRow
  <1> HIDE DEF x, r
  <1>8. /\ Turns(j) /\ Still /\ TypeOK' /\ job'[j] = r /\ X' = x
        /\ \A k \in Protected : (Busy(k)' <=> Busy(k)) /\ (Has(j, k)' <=> Has(j, k))
        /\ \A k \in Protected : journal'[k] = journal[k] /\ runtime'[k] = runtime[k]
    BY <1>6, RowMove DEF Still
  <1>9. Untouched(j)' /\ Verdict(j)'
    BY <1>5, <1>8 DEF Untouched, Verdict
  <1>10. Flagged(j)'
    <2>1. f # "clear" => \E k \in Protected : Has(j, k)
      BY DEF IInv, Rows, RowOK, Flagged
    <2>2. f # "clear" => \E k \in Protected : Has(j, k)'
      BY <1>8, <2>1
    <2>3. QED
      BY <1>2, <1>4, <1>5, <1>8, <2>2 DEF Flagged
  <1>11. Keeps(j)
    <2>1. Holds(j) /\ ~InHandoff(j)'
      BY <1>2, <1>3, <1>4, <1>5, <1>8 DEF Holds, Active, InHandoff
    <2>2. \A k \in Protected : Busy(k) /\ Accounts(j, k) => Accounts(j, k)'
      BY <1>5, <1>8 DEF Accounts
    <2>3. journal["pair"].receipt = j => f # "pending"
      OBVIOUS
    <2>4. QED
      BY <1>2, <1>4, <1>5, <1>7, <1>8, <2>1, <2>2, <2>3 DEF Keeps
  <1>12. Mine' = j /\ Row' = r
    BY <1>7, <1>8 DEF Mine, Row
  <1>13. Place'
    BY <1>5, <1>7, <1>8, <1>12 DEF Place, InPart, OnPair, OnUnit, Either
  <1>14. Steps'
    BY <1>4, <1>5, <1>7, <1>8, <1>12 DEF Steps, NoneOpen, InPart
  <1>15. Flags' /\ Known'
    BY <1>7, <1>8 DEF Flags, Known, OnUnit
  <1>16. Handoff'
    <2>1. Holds(j)'
      BY <1>5, <1>8 DEF Holds, Active
    <2>2. X.pending => Has(j, "handoff") /\ (X.committed <=> job[j].flag = "committed")
      BY <1>2 DEF IInv, Thread, Handoff
    <2>3. Beyond(j)'
      BY <1>2, <1>4, <1>5, <1>8 DEF Beyond
    <2>4. QED
      BY <1>5, <1>7, <1>8, <1>12, <2>1, <2>2, <2>3
      DEF Handoff, OnPair, OnUnit, Either, Protected
  <1>17. QED
    BY <1>8, <1>9, <1>10, <1>11, <1>13, <1>14, <1>15, <1>16, RowStep

(* An ordinary component has failed.                                       *)
LEMMA UnitBrokenStep ==
  ASSUME IInv, NEW p \in Procs, UnitBroken(p)
  PROVE  Good
  <1>1. E(p).pc # "idle"
    BY DEF UnitBroken, At
  <1>2. PICK j \in Jobs : j = Mine
    BY <1>1, ThreadFacts
  <1>3. /\ p = "web" /\ E(p) = X /\ J(p) = job[j] /\ X \in ExecRow /\ X.job = j
        /\ Row = job[j] /\ job[j] \in JobRow /\ job[j].status # "new" /\ X.pc = "broken"
        /\ DOMAIN job[j].steps = DOMAIN job[j].plan /\ Part(p) = Now
        /\ Now = job[j].plan[X.at]
    BY <1>1, <1>2, ThreadFacts DEF UnitBroken, At, Now
  <1>4. job[j].flag = "clear" /\ ~X.pending /\ Now = "unit"
    BY <1>3 DEF IInv, Thread, Flags, Handoff, Place, OnUnit
  <1>5. ~InHandoff(j)
    BY <1>2, <1>3, <1>4, NotInHandoff DEF InPart
  <1>6. \A k \in Protected : ~Accounts(j, k)
    BY <1>4, <1>5 DEF Accounts
  <1>7. QED
    BY <1>2, <1>3, <1>4, <1>6, FailStep DEF UnitBroken, InPart

(* A protected part has failed.                                            *)
LEMMA PartFailedStep ==
  ASSUME IInv, NEW p \in Procs, PartFailed(p)
  PROVE  Good
  <1>1. E(p).pc # "idle"
    BY DEF PartFailed, At
  <1>2. PICK j \in Jobs : j = Mine
    BY <1>1, ThreadFacts
  <1>3. /\ p = "web" /\ E(p) = X /\ J(p) = job[j] /\ X \in ExecRow /\ X.job = j
        /\ Row = job[j] /\ job[j] \in JobRow /\ job[j].status # "new" /\ X.pc = "failed"
        /\ DOMAIN job[j].steps = DOMAIN job[j].plan /\ Part(p) = Now
        /\ Now = job[j].plan[X.at]
    BY <1>1, <1>2, ThreadFacts DEF PartFailed, At, Now
  <1>4. /\ job[j].flag = IF Now = "pair" THEN "pending" ELSE "clear"
        /\ X.pending => ~Proven(X.answer)
        /\ Proven(X.answer) => ~Busy(Now)
        /\ Now \in Protected /\ X.at \in DOMAIN job[j].plan
    BY <1>3 DEF IInv, Thread, Flags, Handoff, Place, Helper, Known, Either, InPart
  <1>5. Has(j, Now)
    BY <1>3, <1>4 DEF Has
  <1>6. PICK k \in Protected : k = Now
    BY <1>4
  <1>7. \A l \in Protected : Has(j, l) => l = k
    BY <1>5, <1>6, OnePart DEF IInv
  <1> DEFINE f == IF Proven(X.answer) THEN "clear" ELSE "pending"
  <1>8. f = "clear" => \A l \in Protected : Accounts(j, l) => ~Busy(l)
    BY <1>4, <1>6, <1>7 DEF Accounts
  <1>9. journal["pair"].receipt # j
    <2>1. CASE Now = "pair"
      BY <1>4, <2>1 DEF IInv, Helper, Receipts
    <2>2. CASE Now # "pair"
      BY <1>6, <1>7, <2>2 DEF IInv, Helper, Receipts, Protected
    <2>3. QED
      BY <2>1, <2>2
  <1>10. Fails(p, f)
    BY <1>3 DEF PartFailed
  <1>11. QED
    BY <1>2, <1>3, <1>4, <1>5, <1>6, <1>8, <1>9, <1>10, FailStep DEF PartFailed, InPart

(* The head of the loop: what the thread knows there.                      *)
LEMMA LoopFacts ==
  ASSUME IInv, NEW j \in Jobs, j = Mine, X.pc = "loop"
  PROVE  /\ job[j].status = "running" /\ X.end = "none" /\ job[j].flag = "clear" /\ ~X.pending
         /\ DOMAIN job[j].plan = 1 .. Len(job[j].plan) /\ Len(job[j].plan) \in Nat
         /\ DOMAIN job[j].steps = DOMAIN job[j].plan /\ job[j].steps \in Seq(StepStates)
         /\ X.at \in 1 .. Len(job[j].plan) + 1
         /\ \A n \in DOMAIN job[j].steps : /\ n < X.at => job[j].steps[n] = "succeeded"
                                           /\ n > X.at => job[j].steps[n] = "pending"
         /\ X.at \in DOMAIN job[j].plan =>
               /\ job[j].steps[X.at] = "pending" /\ Now = job[j].plan[X.at] /\ Now \in Items
               /\ Now = "handoff" => ~X.committed
         /\ X.committed => Beyond(j)
         /\ ~InHandoff(j) /\ ~Busy("handoff") /\ \A k \in Protected : ~Accounts(j, k)
  <1>1. Row = job[j]
    BY DEF Row
  <1>2. /\ DOMAIN job[j].plan = 1 .. Len(job[j].plan) /\ Len(job[j].plan) \in Nat
        /\ DOMAIN job[j].steps = DOMAIN job[j].plan /\ job[j].steps \in Seq(StepStates)
        /\ \A n \in DOMAIN job[j].plan : job[j].plan[n] \in Items
    BY PlanFacts DEF IInv, TypeOK, JobRow
  <1>3. /\ job[j].status = "running" /\ X.end = "none" /\ job[j].flag = "clear" /\ ~X.pending
        /\ X.at \in 1 .. Len(job[j].plan) + 1
        /\ \A n \in DOMAIN job[j].steps : /\ n < X.at => job[j].steps[n] = "succeeded"
                                          /\ n > X.at => job[j].steps[n] = "pending"
        /\ X.at \in DOMAIN job[j].steps => job[j].steps[X.at] = "pending"
        /\ X.committed => Beyond(j)
    BY <1>1 DEF IInv, Thread, Place, Steps, Flags, Handoff, InPart
  <1>4. ~InHandoff(j)
    BY NotInHandoff DEF InPart
  <1>5. ~Busy("handoff")
    BY <1>1, <1>3, <1>4, HandoffQuiet
  <1>6. \A k \in Protected : ~Accounts(j, k)
    BY <1>3, <1>4 DEF Accounts
  <1>7. QED
    BY <1>1, <1>2, <1>3, <1>4, <1>5, <1>6 DEF Now, Beyond


(* The end of the plan.                                                    *)
LEMMA LoopEnds ==
  ASSUME IInv, NEW p \in Procs, Loop(p), X.at > Len(Row.plan)
  PROVE  Good
  <1>1. E(p).pc # "idle"
    BY DEF Loop, At
  <1>2. PICK j \in Jobs : j = Mine
    BY <1>1, ThreadFacts
  <1>3. /\ p = "web" /\ E(p) = X /\ J(p) = job[j] /\ X \in ExecRow /\ X.job = j
        /\ Row = job[j] /\ job[j] \in JobRow /\ job[j].status # "new" /\ X.pc = "loop"
        /\ DOMAIN job[j].steps = DOMAIN job[j].plan /\ Part(p) = Now
        /\ Now = job[j].plan[X.at]
    BY <1>1, <1>2, ThreadFacts DEF Loop, At, Now
  <1>4. /\ job[j].status = "running" /\ X.end = "none" /\ job[j].flag = "clear" /\ ~X.pending
        /\ \A n \in DOMAIN job[j].steps : job[j].steps[n] = "succeeded"
    BY <1>2, <1>3, LoopFacts
  <1> DEFINE x == [X EXCEPT !.pc = "final"]
  <1>5. Writes(j, job[j], x)
    <2>1. job' = [job EXCEPT ![j] = job[j]]
      BY <1>3 DEF Loop, IInv, TypeOK
    <2>2. exec' = [exec EXCEPT !["web"] = x]
      BY <1>3 DEF Loop, Goto, E, X
    <2>3. x \in ExecRow /\ x.pc # "idle" /\ x.job = j
      BY <1>3 DEF ExecRow, Pcs
    <2>4. QED
      BY <1>2, <1>3, <2>1, <2>2, <2>3 DEF Writes, Sets, Loop, IInv, TypeOK
  <1>6. x.pc = "final" /\ x.job = j /\ x.end = "none" /\ ~x.pending /\ x.committed = X.committed
    BY <1>3, <1>4 DEF ExecRow
  <1> HIDE DEF x
  <1>7. /\ Turns(j) /\ Still /\ TypeOK' /\ job'[j] = job[j] /\ X' = x
        /\ \A k \in Protected : (Busy(k)' <=> Busy(k)) /\ (Has(j, k)' <=> Has(j, k))
        /\ \A k \in Protected : journal'[k] = journal[k] /\ runtime'[k] = runtime[k]
    BY <1>5, RowMove DEF Still
  <1>8. /\ Keeps(j) /\ Untouched(j)' /\ Flagged(j)' /\ Verdict(j)'
        /\ X.committed => Beyond(j)'
    BY <1>6, <1>7, SameRow
  <1>9. Mine' = j /\ Row' = job[j]
    BY <1>6, <1>7 DEF Mine, Row
  <1>10. Place' /\ Flags' /\ Known' /\ Handoff'
    BY <1>4, <1>6, <1>7, <1>8, <1>9
    DEF Place, Flags, Known, Handoff, InPart, OnPair, OnUnit, Either
  <1>11. Steps'
    BY <1>4, <1>6, <1>7, <1>9 DEF Steps, AllSucceeded, InPart
  <1>12. QED
    BY <1>7, <1>8, <1>10, <1>11, RowStep

(* A request is honoured before the next component.                        *)
LEMMA LoopCancels ==
  ASSUME IInv, NEW p \in Procs, Loop(p), X.at <= Len(Row.plan), Row.cancel = "requested"
  PROVE  Good
  <1>1. E(p).pc # "idle"
    BY DEF Loop, At
  <1>2. PICK j \in Jobs : j = Mine
    BY <1>1, ThreadFacts
  <1>3. /\ p = "web" /\ E(p) = X /\ J(p) = job[j] /\ X \in ExecRow /\ X.job = j
        /\ Row = job[j] /\ job[j] \in JobRow /\ job[j].status # "new" /\ X.pc = "loop"
        /\ DOMAIN job[j].steps = DOMAIN job[j].plan /\ Part(p) = Now
        /\ Now = job[j].plan[X.at]
    BY <1>1, <1>2, ThreadFacts DEF Loop, At, Now
  <1>4. /\ job[j].status = "running" /\ job[j].flag = "clear" /\ ~X.pending
        /\ X.at \in DOMAIN job[j].steps /\ job[j].steps[X.at] = "pending"
        /\ DOMAIN job[j].steps = 1 .. Len(job[j].plan) /\ Len(job[j].plan) \in Nat
        /\ \A n \in DOMAIN job[j].steps : /\ n < X.at => job[j].steps[n] = "succeeded"
                                          /\ n > X.at => job[j].steps[n] = "pending"
        /\ \A k \in Protected : ~Accounts(j, k)
    BY <1>2, <1>3, LoopFacts
  <1> DEFINE s == Rest(job[j].steps, X.at, "skipped")
             r == [job[j] EXCEPT !.steps = s]
             x == [X EXCEPT !.pc = "final", !.end = "cancelled"]
  <1>5. /\ s \in Seq(StepStates) /\ DOMAIN s = DOMAIN job[j].steps
        /\ s[X.at] = "skipped" /\ \A n \in DOMAIN s : s[n] \in {"succeeded", "skipped"}
    <2>1. s \in Seq(StepStates) /\ DOMAIN s = DOMAIN job[j].steps
      BY <1>3, StepUpdates DEF JobRow, StepStates
    <2>2. \A n \in DOMAIN job[j].steps : s[n] = IF n < X.at THEN "succeeded" ELSE "skipped"
      BY <1>4 DEF Rest
    <2>3. QED
      BY <1>4, <2>1, <2>2
  <1> HIDE DEF s
  <1>6. /\ r \in JobRow /\ r.status = "running" /\ r.steps = s /\ r.flag = "clear"
        /\ r.plan = job[j].plan /\ r.captured = job[j].captured
    BY SMTT(60), <1>3, <1>4, <1>5 DEF JobRow
  <1>7. Writes(j, r, x)
    <2>1. job' = [job EXCEPT ![j] = r] /\ exec' = [exec EXCEPT !["web"] = x]
      <3>1. ~(E(p).at > Len(J(p).plan)) /\ J(p).cancel = "requested"
        BY <1>3, <1>4
      <3>2. QED
        BY <1>3, <3>1 DEF Loop, Put, E, X, s
    <2>2. x \in ExecRow /\ x.pc # "idle" /\ x.job = j
      BY <1>3 DEF ExecRow, Pcs
    <2>3. QED
      BY <1>2, <1>3, <1>5, <1>6, <2>1, <2>2 DEF Writes, Sets, Loop, IInv, TypeOK
  <1>8. x.pc = "final" /\ x.job = j /\ x.end = "cancelled" /\ ~x.pending
    BY <1>3, <1>4 DEF ExecRow
  <1> HIDE DEF x, r
  <1>9. /\ Turns(j) /\ Still /\ TypeOK' /\ job'[j] = r /\ X' = x
        /\ \A k \in Protected : (Busy(k)' <=> Busy(k)) /\ (Has(j, k)' <=> Has(j, k))
        /\ \A k \in Protected : journal'[k] = journal[k] /\ runtime'[k] = runtime[k]
    BY <1>7, RowMove DEF Still
  <1>10. Untouched(j)' /\ Flagged(j)' /\ Verdict(j)'
    BY <1>6, <1>9 DEF Untouched, Flagged, Verdict
  <1>11. Keeps(j)
    BY <1>3, <1>4, <1>5, <1>6, <1>8, <1>9 DEF Keeps, Holds, Active
  <1>12. Mine' = j /\ Row' = r
    BY <1>8, <1>9 DEF Mine, Row
  <1>13. Place' /\ Flags' /\ Known' /\ Handoff'
    <2>1. Beyond(j)'
      BY <1>3, <1>5, <1>6, <1>9 DEF Beyond
    <2>2. QED
      BY <1>6, <1>8, <1>9, <1>12, <2>1
         DEF Place, Flags, Known, Handoff, InPart, OnPair, OnUnit, Either
  <1>14. Steps'
    <2>1. LeftOut(Mine)'
      BY <1>4, <1>5, <1>6, <1>9, <1>12 DEF LeftOut, Trails
    <2>2. QED
      BY <1>8, <1>9, <2>1 DEF Steps, InPart
  <1>15. QED
    BY <1>9, <1>10, <1>11, <1>13, <1>14, RowStep

(* The next component.                                                     *)
LEMMA LoopEnters ==
  ASSUME IInv, NEW p \in Procs, Loop(p), X.at <= Len(Row.plan), Row.cancel # "requested"
  PROVE  Good
  <1>1. E(p).pc # "idle"
    BY DEF Loop, At
  <1>2. PICK j \in Jobs : j = Mine
    BY <1>1, ThreadFacts
  <1>3. /\ p = "web" /\ E(p) = X /\ J(p) = job[j] /\ X \in ExecRow /\ X.job = j
        /\ Row = job[j] /\ job[j] \in JobRow /\ job[j].status # "new" /\ X.pc = "loop"
        /\ DOMAIN job[j].steps = DOMAIN job[j].plan /\ Part(p) = Now
        /\ Now = job[j].plan[X.at]
    BY <1>1, <1>2, ThreadFacts DEF Loop, At, Now
  <1>4. /\ job[j].status = "running" /\ job[j].flag = "clear" /\ ~X.pending /\ X.end = "none"
        /\ X.at \in DOMAIN job[j].steps /\ job[j].steps[X.at] = "pending" /\ Now \in Items
        /\ \A n \in DOMAIN job[j].steps : /\ n < X.at => job[j].steps[n] = "succeeded"
                                          /\ n > X.at => job[j].steps[n] = "pending"
        /\ (Now = "handoff" => ~X.committed) /\ (X.committed => Beyond(j))
        /\ ~Busy("handoff") /\ \A k \in Protected : ~Accounts(j, k)
        /\ X.at \in Nat /\ DOMAIN job[j].steps \subseteq Nat
    BY <1>2, <1>3, LoopFacts
  <1> DEFINE s == [job[j].steps EXCEPT ![X.at] = "running"]
             r == [job[j] EXCEPT !.steps = s]
             x == [X EXCEPT !.pc = Entry[Now], !.pending = X.pending \/ Now = "handoff"]
  <1>5. /\ s \in Seq(StepStates) /\ DOMAIN s = DOMAIN job[j].steps
        /\ s[X.at] = "running" /\ \A n \in DOMAIN s : n # X.at => s[n] = job[j].steps[n]
    <2>1. s \in Seq(StepStates) /\ DOMAIN s = DOMAIN job[j].steps
      BY <1>3, StepUpdates DEF JobRow, StepStates
    <2>2. QED
      BY <1>4, <2>1
  <1>6. /\ r \in JobRow /\ r.status = "running" /\ r.steps = s /\ r.flag = "clear"
        /\ r.plan = job[j].plan /\ r.captured = job[j].captured
    <2> HIDE DEF s
    <2> QED BY SMTT(120), <1>3, <1>4, <1>5 DEF JobRow
  <1>7. Entry[Now] = CASE Now = "handoff" -> "validate" [] Now = "pair" -> "flag"
                      [] OTHER -> "unit"
    BY <1>4 DEF Entry, Items, Protected
  <1>8. Writes(j, r, x)
    <2>1. job' = [job EXCEPT ![j] = r] /\ exec' = [exec EXCEPT !["web"] = x]
      <3>1. ~(E(p).at > Len(J(p).plan)) /\ J(p).cancel # "requested"
        BY <1>2, <1>3, LoopFacts
      <3>2. QED
        BY ZenonT(60), <1>3, <3>1 DEF Loop, Put, E, X
    <2>2. x \in ExecRow /\ x.pc # "idle" /\ x.job = j
      BY ZenonT(60), <1>3, <1>7 DEF ExecRow, Pcs
    <2>3. QED
      BY <1>2, <1>3, <1>5, <1>6, <2>1, <2>2 DEF Writes, Sets, Loop, IInv, TypeOK
  <1>9. /\ x.pc = Entry[Now] /\ x.job = j /\ x.at = X.at /\ x.end = "none"
        /\ (x.pending <=> Now = "handoff") /\ x.committed = X.committed
    BY <1>3, <1>4 DEF ExecRow
  <1> HIDE DEF x, r, s
  <1>10. /\ Turns(j) /\ Still /\ TypeOK' /\ job'[j] = r /\ X' = x
         /\ \A k \in Protected : (Busy(k)' <=> Busy(k)) /\ (Has(j, k)' <=> Has(j, k))
         /\ \A k \in Protected : journal'[k] = journal[k] /\ runtime'[k] = runtime[k]
    BY <1>8, RowMove DEF Still
  <1>11. Untouched(j)' /\ Flagged(j)' /\ Verdict(j)'
    BY <1>6, <1>10 DEF Untouched, Flagged, Verdict
  <1>12. Keeps(j)
    <2>1. journal["pair"].receipt = j => Now # "pair" /\ \A n \in DOMAIN job[j].plan :
             job[j].plan[n] = "pair" => job[j].steps[n] # "pending"
      BY <1>3, <1>4 DEF IInv, Helper, Receipts
    <2>2. QED
      BY <1>3, <1>4, <1>5, <1>6, <1>7, <1>9, <1>10, <2>1 DEF Keeps, Holds, Active
  <1>13. Mine' = j /\ Row' = r /\ Now' = Now
    BY <1>3, <1>6, <1>9, <1>10 DEF Mine, Row, Now
  <1>14. Place'
    BY <1>3, <1>4, <1>6, <1>7, <1>9, <1>10, <1>13
       DEF Place, InPart, OnPair, OnUnit, Either, Items, Protected
  <1>15. Steps'
    BY <1>3, <1>4, <1>5, <1>6, <1>7, <1>9, <1>10, <1>13 DEF Steps, InPart
  <1>16. Flags'
    BY <1>6, <1>7, <1>9, <1>10, <1>13 DEF Flags, OnUnit
  <1>17. Handoff'
    <2>1. Now = "handoff" => Has(j, "handoff")
      BY ZenonT(60), <1>3, <1>4 DEF Has
    <2>2. Holds(j)'
      BY <1>6, <1>10 DEF Holds, Active
    <2>3. X.committed => Beyond(j)'
      BY <1>3, <1>4, <1>5, <1>6, <1>10 DEF Beyond
    <2>4. QED
      BY <1>4, <1>6, <1>7, <1>9, <1>10, <1>13, <2>1, <2>2, <2>3
         DEF Handoff, OnPair, OnUnit, Either, Protected
  <1>18. Known'
    BY <1>4, <1>7, <1>9, <1>10, <1>13 DEF Known, Protected
  <1>19. QED
    BY <1>10, <1>11, <1>12, <1>14, <1>15, <1>16, <1>17, <1>18, RowStep

(* The turn of the loop: the next part, a cancellation, or the end.        *)
LEMMA LoopStep ==
  ASSUME IInv, NEW p \in Procs, Loop(p)
  PROVE  Good
  <1>1. E(p).pc # "idle"
    BY DEF Loop, At
  <1>2. Mine \in Jobs /\ E(p) = X
    BY <1>1, ThreadFacts
  <1>3. PICK j \in Jobs : j = Mine
    BY <1>2
  <1>4. X.at \in Nat /\ Len(Row.plan) \in Nat
    BY <1>2, <1>3, LoopFacts DEF Row, Loop, At
  <1>5. X.at > Len(Row.plan) \/ X.at <= Len(Row.plan)
    BY <1>4
  <1>6. QED
    BY <1>5, LoopEnds, LoopCancels, LoopEnters

(* Inside a part: what the thread knows there.                             *)
LEMMA PartFacts ==
  ASSUME IInv, NEW j \in Jobs, j = Mine, X.pc \in InPart
  PROVE  /\ job[j].status = "running" /\ X.end = "none" /\ X.at \in DOMAIN job[j].plan
         /\ DOMAIN job[j].plan = 1 .. Len(job[j].plan) /\ Len(job[j].plan) \in Nat
         /\ DOMAIN job[j].steps = DOMAIN job[j].plan /\ job[j].steps \in Seq(StepStates)
         /\ X.at \in Nat
         /\ \A n \in DOMAIN job[j].steps : /\ n < X.at => job[j].steps[n] = "succeeded"
                                           /\ n > X.at => job[j].steps[n] = "pending"
         /\ job[j].steps[X.at] = IF X.pc \in {"ack", "settle"} /\ Now = "handoff"
                                 THEN "succeeded" ELSE "running"
         /\ Now = job[j].plan[X.at] /\ Now \in Items
         /\ Now \in Protected => Has(j, Now) /\ \A k \in Protected : Has(j, k) => k = Now
         /\ X.committed => Beyond(j)
         /\ X.pending => /\ Has(j, "handoff") /\ Holds(j)
                         /\ X.committed <=> job[j].flag = "committed"
  <1>1. Row = job[j] /\ Now = job[j].plan[X.at]
    BY DEF Row, Now
  <1>2. /\ DOMAIN job[j].plan = 1 .. Len(job[j].plan) /\ Len(job[j].plan) \in Nat
        /\ DOMAIN job[j].steps = DOMAIN job[j].plan /\ job[j].steps \in Seq(StepStates)
        /\ \A n \in DOMAIN job[j].plan : job[j].plan[n] \in Items
    BY PlanFacts DEF IInv, TypeOK, JobRow
  <1>3. /\ job[j].status = "running" /\ X.end = "none" /\ X.at \in DOMAIN job[j].plan
        /\ \A n \in DOMAIN job[j].steps : /\ n < X.at => job[j].steps[n] = "succeeded"
                                          /\ n > X.at => job[j].steps[n] = "pending"
        /\ job[j].steps[X.at] = IF X.pc \in {"ack", "settle"} /\ Now = "handoff"
                                THEN "succeeded" ELSE "running"
    BY <1>1 DEF IInv, Thread, Place, Steps
  <1>4. /\ X.committed => Beyond(j)
        /\ X.pending => /\ Has(j, "handoff") /\ Holds(j)
                        /\ X.committed <=> job[j].flag = "committed"
    BY <1>1 DEF IInv, Thread, Handoff
  <1>5. Now \in Protected => Has(j, Now) /\ \A k \in Protected : Has(j, k) => k = Now
    <2> SUFFICES ASSUME NEW l \in Protected, l = Now
                 PROVE  Has(j, l) /\ \A k \in Protected : Has(j, k) => k = l
      OBVIOUS
    <2>1. Has(j, l)
      BY <1>1, <1>3 DEF Has
    <2>2. QED
      BY <2>1, OnePart DEF IInv
  <1>6. QED
    BY <1>1, <1>2, <1>3, <1>4, <1>5


(* An ordinary component has been applied.                                 *)
LEMMA UnitAppliedStep ==
  ASSUME IInv, NEW p \in Procs, UnitApplied(p)
  PROVE  Good
  <1>1. E(p).pc # "idle"
    BY DEF UnitApplied, At
  <1>2. PICK j \in Jobs : j = Mine
    BY <1>1, ThreadFacts
  <1>3. /\ p = "web" /\ E(p) = X /\ J(p) = job[j] /\ X \in ExecRow /\ X.job = j
        /\ Row = job[j] /\ job[j] \in JobRow /\ job[j].status # "new" /\ X.pc = "applied"
        /\ DOMAIN job[j].steps = DOMAIN job[j].plan /\ Part(p) = Now
        /\ Now = job[j].plan[X.at]
    BY <1>1, <1>2, ThreadFacts DEF UnitApplied, At, Now
  <1>4. /\ job[j].status = "running" /\ X.end = "none" /\ X.at \in DOMAIN job[j].steps
        /\ DOMAIN job[j].steps = 1 .. Len(job[j].plan) /\ Len(job[j].plan) \in Nat /\ X.at \in Nat
        /\ \A n \in DOMAIN job[j].steps : /\ n < X.at => job[j].steps[n] = "succeeded"
                                          /\ n > X.at => job[j].steps[n] = "pending"
        /\ X.committed => Beyond(j)
    BY <1>2, <1>3, PartFacts DEF InPart
  <1>5. job[j].flag = "clear" /\ ~X.pending /\ Now = "unit" /\ ~InHandoff(j)
    <2>1. job[j].flag = "clear" /\ ~X.pending /\ Now = "unit"
      BY <1>3 DEF IInv, Thread, Flags, Handoff, Place, OnUnit
    <2>2. QED
      BY <1>2, <1>3, <2>1, NotInHandoff DEF InPart
  <1> DEFINE stop == StopsEarly(p)
             t == [job[j].steps EXCEPT ![X.at] = "succeeded"]
             s == IF stop THEN Rest(t, 1, "skipped") ELSE t
             r == [job[j] EXCEPT !.steps = s]
             x == IF stop THEN [X EXCEPT !.pc = "final", !.end = "cancelled"]
                          ELSE [X EXCEPT !.pc = "loop", !.at = X.at + 1]
  <1>6. /\ s \in Seq(StepStates) /\ DOMAIN s = DOMAIN job[j].steps
        /\ \A n \in DOMAIN s : s[n] = IF n <= X.at THEN "succeeded"
                                      ELSE IF stop THEN "skipped" ELSE "pending"
    <2>1. t \in Seq(StepStates) /\ DOMAIN t = DOMAIN job[j].steps
      BY <1>3, StepUpdates DEF JobRow, StepStates
    <2>2. s \in Seq(StepStates) /\ DOMAIN s = DOMAIN job[j].steps
      BY <2>1, StepUpdates DEF StepStates
    <2>3. \A n \in DOMAIN t : t[n] = IF n <= X.at THEN "succeeded" ELSE "pending"
      BY <1>4, <2>1
    <2>4. QED
      <3> HIDE DEF t
      <3> QED BY <1>4, <2>1, <2>2, <2>3 DEF Rest
  <1>7. stop => X.at < Len(job[j].plan) \/ Trails(j)
    BY <1>3 DEF StopsEarly
  <1>8. Writes(j, r, x)
    <2>1. job' = [job EXCEPT ![j] = r] /\ exec' = [exec EXCEPT !["web"] = x]
      <3>1. CASE stop
        BY <1>3, <3>1 DEF UnitApplied, Put, E, X
      <3>2. CASE ~stop
        <4>1. job' = [job EXCEPT ![j] = r]
          BY <1>3, <3>2 DEF UnitApplied, Put, E, X
        <4>2. exec' = [exec EXCEPT !["web"] = [X EXCEPT !.pc = "loop", !.at = X.at + 1]]
          BY <1>3, <3>2 DEF UnitApplied, E, X, ExecRow
        <4>3. QED
          BY <3>2, <4>1, <4>2
      <3>3. QED
        BY <3>1, <3>2
    <2>2. x \in ExecRow /\ x.pc # "idle" /\ x.job = j
      <3>1. CASE stop
        BY <1>3, <3>1 DEF ExecRow, Pcs
      <3>2. CASE ~stop
        <4>1. [X EXCEPT !.pc = "loop", !.at = X.at + 1] \in ExecRow
          <5>1. X.at + 1 \in Nat /\ "loop" \in Pcs
            BY <1>4 DEF Pcs
          <5>2. QED
            BY <1>3, <5>1 DEF ExecRow
        <4>2. QED
          BY <1>3, <3>2, <4>1 DEF ExecRow
      <3>3. QED
        BY <3>1, <3>2
    <2>3. r \in JobRow /\ DOMAIN r.steps = DOMAIN job[j].steps /\ r.status # "new"
      <3> HIDE DEF s
      <3> QED BY <1>3, <1>6 DEF JobRow
    <2>4. r.plan = job[j].plan /\ r.captured = job[j].captured
      <3> HIDE DEF s
      <3> QED BY <1>3 DEF JobRow
    <2>5. /\ baseline' \in [Items -> Versions]
          /\ \A k \in Protected : baseline'[k] = baseline[k]
      BY <1>3, <1>5 DEF UnitApplied, IInv, TypeOK, Items, Protected
    <2> HIDE DEF r, x
    <2>6. QED
      BY <1>2, <1>3, <2>1, <2>2, <2>3, <2>4, <2>5
      DEF Writes, Sets, UnitApplied, IInv, TypeOK
  <1> HIDE DEF s
  <1>9. /\ r.status = "running" /\ r.steps = s /\ r.flag = "clear" /\ r.plan = job[j].plan
        /\ x.job = j /\ ~x.pending /\ x.committed = X.committed
        /\ IF stop THEN x.pc = "final" /\ x.end = "cancelled"
                   ELSE x.pc = "loop" /\ x.at = X.at + 1 /\ x.end = "none"
    BY <1>3, <1>4, <1>5 DEF JobRow, ExecRow
  <1> HIDE DEF r, x, stop
  <1>10. /\ Turns(j) /\ Still /\ TypeOK' /\ job'[j] = r /\ X' = x
         /\ \A k \in Protected : (Busy(k)' <=> Busy(k)) /\ (Has(j, k)' <=> Has(j, k))
         /\ \A k \in Protected : journal'[k] = journal[k] /\ runtime'[k] = runtime[k]
    BY <1>8, RowMove DEF Still
  <1>11. Untouched(j)' /\ Flagged(j)' /\ Verdict(j)'
    BY <1>9, <1>10 DEF Untouched, Flagged, Verdict
  <1>12. Keeps(j)
    <2>1. \A k \in Protected : ~Accounts(j, k)
      BY <1>5 DEF Accounts
    <2>2. journal["pair"].receipt = j => \A n \in DOMAIN job[j].plan :
             job[j].plan[n] = "pair" => job[j].steps[n] # "pending"
      BY DEF IInv, Helper, Receipts
    <2>3. \A n \in DOMAIN job[j].plan : job[j].steps[n] # "pending" => s[n] # "pending"
      BY <1>3, <1>4, <1>6
    <2>4. QED
      BY <1>4, <1>5, <1>9, <1>10, <2>1, <2>2, <2>3 DEF Keeps, Holds, Active
  <1>13. Mine' = j /\ Row' = r
    BY <1>9, <1>10 DEF Mine, Row
  <1>14. Place' /\ Flags' /\ Known'
    BY <1>9, <1>10, <1>13 DEF Place, Flags, Known, InPart, OnPair, OnUnit, Either
  <1>15. Steps'
    <2>1. CASE stop
      <3>1. LeftOut(Mine)'
        <4>1. Trails(j)' <=> Trails(j)
          BY <1>9, <1>10 DEF Trails
        <4>2. ~Trails(j) => X.at + 1 \in DOMAIN s /\ s[X.at + 1] = "skipped"
          BY <1>4, <1>6, <1>7, <2>1
        <4>3. QED
          BY <1>6, <1>9, <1>10, <1>13, <2>1, <4>1, <4>2 DEF LeftOut
      <3>2. QED
        BY <1>9, <1>10, <2>1, <3>1 DEF Steps, InPart
    <2>2. CASE ~stop
      BY SMTT(60), <1>3, <1>4, <1>6, <1>9, <1>10, <1>13, <2>2 DEF Steps, InPart
    <2>3. QED
      BY <2>1, <2>2
  <1>16. Handoff'
    <2>1. X.committed => Beyond(j)'
      BY <1>3, <1>4, <1>6, <1>9, <1>10 DEF Beyond
    <2>2. QED
      BY <1>9, <1>10, <1>13, <2>1 DEF Handoff, OnPair, OnUnit, Either
  <1>17. QED
    BY <1>10, <1>11, <1>12, <1>14, <1>15, <1>16, RowStep

(* The pair is marked.                                                     *)
LEMMA FlagPairStep ==
  ASSUME IInv, NEW p \in Procs, FlagPair(p)
  PROVE  Good
  <1>1. E(p).pc # "idle"
    BY DEF FlagPair, At
  <1>2. PICK j \in Jobs : j = Mine
    BY <1>1, ThreadFacts
  <1>3. /\ p = "web" /\ E(p) = X /\ J(p) = job[j] /\ X \in ExecRow /\ X.job = j
        /\ Row = job[j] /\ job[j] \in JobRow /\ job[j].status # "new" /\ X.pc = "flag"
        /\ DOMAIN job[j].steps = DOMAIN job[j].plan /\ Part(p) = Now
        /\ Now = job[j].plan[X.at]
    BY <1>1, <1>2, ThreadFacts DEF FlagPair, At, Now
  <1>4. /\ job[j].status = "running" /\ X.end = "none" /\ X.at \in DOMAIN job[j].plan
        /\ \A n \in DOMAIN job[j].steps : /\ n < X.at => job[j].steps[n] = "succeeded"
                                          /\ n > X.at => job[j].steps[n] = "pending"
        /\ job[j].steps[X.at] = "running" /\ (X.committed => Beyond(j))
        /\ Now = "pair" => Has(j, "pair") /\ ~Has(j, "handoff")
    BY <1>2, <1>3, PartFacts DEF InPart, Protected
  <1>5. job[j].flag = "clear" /\ ~X.pending /\ Now = "pair" /\ ~InHandoff(j)
    <2>1. job[j].flag = "clear" /\ ~X.pending /\ Now = "pair"
      BY <1>3 DEF IInv, Thread, Flags, Handoff, Place, OnPair
    <2>2. QED
      BY <1>2, <1>3, <2>1, NotInHandoff DEF InPart
  <1>6. journal["pair"].receipt # j /\ \A k \in Protected : ~Accounts(j, k) /\ ~Busy(k)
    <2>1. journal["pair"].receipt # j
      BY <1>2, <1>3 DEF IInv, Helper, Receipts
    <2>2. \A k \in Protected : ~Accounts(j, k)
      BY <1>5 DEF Accounts
    <2>3. \A i \in Jobs : Holds(i) => i = j
      BY <1>1, <1>2, ThreadFacts
    <2>4. \A k \in Protected : ~Busy(k)
      BY <2>2, <2>3, BusyMine DEF IInv, Helper
    <2>5. QED
      BY <2>1, <2>2, <2>4
  <1> DEFINE r == [job[j] EXCEPT !.flag = "pending"]
             x == [X EXCEPT !.pc = "validate"]
  <1>7. Writes(j, r, x)
    <2>1. job' = [job EXCEPT ![j] = r] /\ exec' = [exec EXCEPT !["web"] = x]
      BY <1>3 DEF FlagPair, Put, Goto, E, X
    <2>2. x \in ExecRow /\ x.pc # "idle" /\ x.job = j
      BY <1>3 DEF ExecRow, Pcs
    <2>3. r \in JobRow
      BY <1>3 DEF JobRow
    <2>4. QED
      BY <1>2, <1>3, <2>1, <2>2, <2>3 DEF Writes, Sets, FlagPair, IInv, TypeOK
  <1>8. /\ r.status = "running" /\ r.steps = job[j].steps /\ r.flag = "pending"
        /\ r.plan = job[j].plan
        /\ x.pc = "validate" /\ x.job = j /\ x.at = X.at /\ x.end = "none"
        /\ ~x.pending /\ x.committed = X.committed
    BY <1>3, <1>4, <1>5 DEF JobRow, ExecRow
  <1> HIDE DEF r, x
  <1>9. /\ Turns(j) /\ Still /\ TypeOK' /\ job'[j] = r /\ X' = x
        /\ \A k \in Protected : (Busy(k)' <=> Busy(k)) /\ (Has(j, k)' <=> Has(j, k))
        /\ \A k \in Protected : journal'[k] = journal[k] /\ runtime'[k] = runtime[k]
    BY <1>7, RowMove DEF Still
  <1>10. Untouched(j)' /\ Verdict(j)'
    BY <1>8, <1>9 DEF Untouched, Verdict
  <1>11. Flagged(j)'
    <2>1. \A n \in DOMAIN job[j].plan : job[j].plan[n] \in Protected => n = X.at
      <3>1. job[j].plan[X.at] \in Protected
        BY <1>3, <1>5 DEF Protected
      <3>2. QED
        BY <1>4, <3>1, PlanFacts DEF IInv
    <2>2. \E k \in Protected : Has(j, k)'
      BY <1>4, <1>5, <1>9 DEF Protected
    <2>3. QED
      BY <1>4, <1>8, <1>9, <2>1, <2>2 DEF Flagged
  <1>12. Keeps(j)
    BY <1>4, <1>5, <1>6, <1>8, <1>9 DEF Keeps, Holds, Active
  <1>13. Mine' = j /\ Row' = r /\ Now' = "pair"
    BY <1>3, <1>5, <1>8, <1>9 DEF Mine, Row, Now
  <1>14. Place' /\ Flags'
    BY <1>4, <1>8, <1>9, <1>13
    DEF Place, Flags, InPart, OnPair, OnUnit, Either, Protected
  <1>15. Steps'
    BY <1>3, <1>4, <1>8, <1>9, <1>13 DEF Steps, InPart
  <1>16. Handoff'
    <2>1. X.committed => Beyond(j)'
      BY <1>3, <1>4, <1>8, <1>9 DEF Beyond
    <2>2. QED
      BY <1>8, <1>9, <1>13, <2>1 DEF Handoff, OnPair, OnUnit, Either
  <1>17. Known'
    BY <1>6, <1>8, <1>9, <1>13 DEF Known, Protected
  <1>18. QED
    BY <1>9, <1>10, <1>11, <1>12, <1>14, <1>15, <1>16, <1>17, RowStep

(* Not acknowledged: the part has failed and the lock stays.              *)
LEMMA SettleFails ==
  ASSUME IInv, NEW p \in Procs, Settle(p), X.answer # "ok"
  PROVE  Good
  <1>1. E(p).pc # "idle"
    BY DEF Settle, At
  <1>2. PICK j \in Jobs : j = Mine
    BY <1>1, ThreadFacts
  <1>3. /\ p = "web" /\ E(p) = X /\ J(p) = job[j] /\ X \in ExecRow /\ X.job = j
        /\ Row = job[j] /\ job[j] \in JobRow /\ job[j].status # "new" /\ X.pc = "settle"
        /\ DOMAIN job[j].steps = DOMAIN job[j].plan /\ Part(p) = Now
        /\ Now = job[j].plan[X.at]
    BY <1>1, <1>2, ThreadFacts DEF Settle, At, Now
  <1>4. job[j].flag = "committed"
    BY <1>3 DEF IInv, Thread, Flags
  <1>5. Fails(p, "committed")
    BY <1>3, <1>4 DEF Settle
  <1>6. QED
    BY <1>2, <1>3, <1>4, <1>5, FailStep DEF Settle, InPart

(* Acknowledged: the flag falls.                                           *)
LEMMA SettleCloses ==
  ASSUME IInv, NEW p \in Procs, Settle(p), X.answer = "ok"
  PROVE  Good
  <1>1. E(p).pc # "idle"
    BY DEF Settle, At
  <1>2. PICK j \in Jobs : j = Mine
    BY <1>1, ThreadFacts
  <1>3. /\ p = "web" /\ E(p) = X /\ J(p) = job[j] /\ X \in ExecRow /\ X.job = j
        /\ Row = job[j] /\ job[j] \in JobRow /\ job[j].status # "new" /\ X.pc = "settle"
        /\ DOMAIN job[j].steps = DOMAIN job[j].plan /\ Part(p) = Now
        /\ Now = job[j].plan[X.at]
    BY <1>1, <1>2, ThreadFacts DEF Settle, At, Now
  <1>4. /\ job[j].status = "running" /\ X.end = "none" /\ X.at \in DOMAIN job[j].plan
        /\ DOMAIN job[j].plan = 1 .. Len(job[j].plan) /\ Len(job[j].plan) \in Nat
        /\ X.at \in Nat
        /\ \A n \in DOMAIN job[j].steps : /\ n < X.at => job[j].steps[n] = "succeeded"
                                          /\ n > X.at => job[j].steps[n] = "pending"
        /\ X.committed => Beyond(j)
        /\ job[j].steps[X.at] = IF Now = "handoff" THEN "succeeded" ELSE "running"
        /\ Now \in Protected => Has(j, Now) /\ \A k \in Protected : Has(j, k) => k = Now
        /\ X.pending => Has(j, "handoff")
    BY <1>2, <1>3, PartFacts DEF InPart
  <1>5. /\ job[j].flag = "committed" /\ Now \in Protected /\ ~X.pending
        /\ journal[Now].phase = "none"
    BY <1>3 DEF IInv, Thread, Flags, Handoff, Place, Helper, Known, Either
  <1>6. /\ \A k \in Protected : Accounts(j, k) => ~Busy(k)
        /\ ~InHandoff(j)
    <2>1. PICK l \in Protected : l = Now
      BY <1>5
    <2>2. ~Busy(l)
      BY <1>4, <1>5, <2>1 DEF IInv, Helper, Committed, Busy
    <2>3. \A k \in Protected : Accounts(j, k) => ~Busy(k)
      BY <1>4, <1>5, <2>1, <2>2 DEF Accounts
    <2>4. \A n \in DOMAIN job[j].plan : job[j].steps[n] = "running" =>
             n = X.at /\ Now # "handoff"
      BY <1>3, <1>4
    <2>5. QED
      BY <1>3, <2>3, <2>4 DEF InHandoff
  <1> DEFINE r == [job[j] EXCEPT !.flag = "clear"]
             x == [X EXCEPT !.pc = IF Now = "pair" THEN "paired" ELSE "loop",
                            !.at = IF Now = "pair" THEN X.at ELSE X.at + 1]
  <1>7. Writes(j, r, x)
    <2>1. job' = [job EXCEPT ![j] = r]
      BY <1>3 DEF Settle, Put, E, X
    <2>2. exec' = [exec EXCEPT !["web"] = x]
      BY <1>3 DEF Settle, E, X, ExecRow
    <2>3. x \in ExecRow
      <3>1. x.at \in Nat /\ (IF Now = "pair" THEN X.at ELSE X.at + 1) \in Nat
        BY <1>3, <1>4 DEF ExecRow
      <3>2. QED
        BY <1>3, <3>1 DEF ExecRow, Pcs
    <2>4. x.pc # "idle" /\ x.job = j
      BY <1>3 DEF ExecRow
    <2>5. r \in JobRow
      BY <1>3 DEF JobRow
    <2>6. QED
      <3> HIDE DEF x
      <3> QED BY <1>2, <1>3, <2>1, <2>2, <2>3, <2>4, <2>5 DEF Writes, Sets, Settle, IInv, TypeOK
  <1>8. /\ r.status = "running" /\ r.steps = job[j].steps /\ r.flag = "clear"
        /\ r.plan = job[j].plan
        /\ x.pc = (IF Now = "pair" THEN "paired" ELSE "loop") /\ x.job = j
        /\ x.at = (IF Now = "pair" THEN X.at ELSE X.at + 1) /\ x.end = "none"
        /\ ~x.pending /\ x.committed = X.committed
    BY <1>3, <1>4, <1>5 DEF JobRow, ExecRow
  <1> HIDE DEF r, x
  <1>9. /\ Turns(j) /\ Still /\ TypeOK' /\ job'[j] = r /\ X' = x
        /\ \A k \in Protected : (Busy(k)' <=> Busy(k)) /\ (Has(j, k)' <=> Has(j, k))
        /\ \A k \in Protected : journal'[k] = journal[k] /\ runtime'[k] = runtime[k]
    BY <1>7, RowMove DEF Still
  <1>10. Untouched(j)' /\ Flagged(j)' /\ Verdict(j)'
    BY <1>8, <1>9 DEF Untouched, Flagged, Verdict
  <1>11. Keeps(j)
    <2>1. ~InHandoff(j)'
      BY <1>4, <1>6, <1>8, <1>9 DEF InHandoff
    <2>2. journal["pair"].receipt = j => \A n \in DOMAIN job[j].plan :
             job[j].plan[n] = "pair" => job[j].steps[n] # "pending"
      BY DEF IInv, Helper, Receipts
    <2>3. QED
      BY <1>4, <1>6, <1>8, <1>9, <2>1, <2>2 DEF Keeps, Holds, Active
  <1>12. Mine' = j /\ Row' = r /\ (Now = "pair" => Now' = "pair")
    BY <1>3, <1>8, <1>9 DEF Mine, Row, Now
  <1>13. Place' /\ Flags'
    BY <1>4, <1>5, <1>8, <1>9, <1>12
    DEF Place, Flags, InPart, OnPair, OnUnit, Either, Protected
  <1>14. Steps'
    <2>1. CASE Now = "pair"
      BY <1>3, <1>4, <1>8, <1>9, <1>12, <2>1 DEF Steps, InPart
    <2>2. CASE Now = "handoff"
      <3>1. \A n \in DOMAIN job[j].steps :
            (n < X.at + 1 => job[j].steps[n] = "succeeded") /\ (n > X.at + 1 => job[j].steps[n] = "pending")
        BY <1>3, <1>4, <2>2
      <3>2. X.at + 1 \in 1 .. Len(job[j].plan) + 1
        BY <1>4
      <3>3. X.at + 1 \in DOMAIN job[j].steps => job[j].steps[X.at + 1] = "pending"
        BY <1>3, <1>4
      <3>4. x.pc = "loop" /\ x.at = X.at + 1
        BY <1>8, <2>2
      <3>5. QED
        BY <1>8, <1>9, <1>12, <3>1, <3>2, <3>3, <3>4 DEF Steps, InPart
    <2>3. QED
      BY <1>5, <2>1, <2>2 DEF Protected
  <1>15. Handoff'
    <2>1. X.committed => Beyond(j)'
      BY <1>4, <1>8, <1>9 DEF Beyond
    <2>2. QED
      BY <1>5, <1>8, <1>9, <1>12, <2>1 DEF Handoff, OnPair, OnUnit, Either, Protected
  <1>16. Known'
    BY <1>8, <1>9 DEF Known
  <1>17. QED
    BY <1>9, <1>10, <1>11, <1>13, <1>14, <1>15, <1>16, RowStep

(* The end of a protected part, by either outcome.                         *)
LEMMA SettleStep ==
  ASSUME IInv, NEW p \in Procs, Settle(p)
  PROVE  Good
  BY SettleFails, SettleCloses

(* The pair has succeeded.                                                 *)
LEMMA PairedStep ==
  ASSUME IInv, NEW p \in Procs, Paired(p)
  PROVE  Good
  <1>1. E(p).pc # "idle"
    BY DEF Paired, At
  <1>2. PICK j \in Jobs : j = Mine
    BY <1>1, ThreadFacts
  <1>3. /\ p = "web" /\ E(p) = X /\ J(p) = job[j] /\ X \in ExecRow /\ X.job = j
        /\ Row = job[j] /\ job[j] \in JobRow /\ job[j].status # "new" /\ X.pc = "paired"
        /\ DOMAIN job[j].steps = DOMAIN job[j].plan /\ Part(p) = Now
        /\ Now = job[j].plan[X.at]
    BY <1>1, <1>2, ThreadFacts DEF Paired, At, Now
  <1>4. /\ job[j].status = "running" /\ X.end = "none" /\ X.at \in DOMAIN job[j].plan
        /\ DOMAIN job[j].plan = 1 .. Len(job[j].plan) /\ Len(job[j].plan) \in Nat
        /\ X.at \in Nat
        /\ \A n \in DOMAIN job[j].steps : /\ n < X.at => job[j].steps[n] = "succeeded"
                                          /\ n > X.at => job[j].steps[n] = "pending"
        /\ X.committed => Beyond(j)
    BY <1>2, <1>3, PartFacts DEF InPart
  <1>5. job[j].flag = "clear" /\ ~X.pending /\ Now = "pair" /\ ~InHandoff(j)
    <2>1. job[j].flag = "clear" /\ ~X.pending /\ Now = "pair"
      BY <1>3 DEF IInv, Thread, Flags, Handoff, Place, OnPair
    <2>2. QED
      BY <1>2, <1>3, <2>1, NotInHandoff DEF InPart
  <1> DEFINE s == [job[j].steps EXCEPT ![X.at] = "succeeded"]
             r == [job[j] EXCEPT !.steps = s]
             x == [X EXCEPT !.pc = "loop", !.at = X.at + 1]
  <1>6. /\ s \in Seq(StepStates) /\ DOMAIN s = DOMAIN job[j].steps
        /\ s[X.at] = "succeeded" /\ \A n \in DOMAIN s : n # X.at => s[n] = job[j].steps[n]
    <2>1. s \in Seq(StepStates) /\ DOMAIN s = DOMAIN job[j].steps
      BY <1>3, StepUpdates DEF JobRow, StepStates
    <2>2. QED
      BY <1>3, <1>4, <2>1
  <1>7. Writes(j, r, x)
    <2>1. job' = [job EXCEPT ![j] = r]
      BY <1>3 DEF Paired, Put, E, X
    <2>2. exec' = [exec EXCEPT !["web"] = x]
      BY <1>3 DEF Paired, E, X, ExecRow
    <2>3. x \in ExecRow /\ x.pc # "idle" /\ x.job = j
      <3>1. X.at + 1 \in Nat /\ "loop" \in Pcs
        BY <1>4 DEF Pcs
      <3>2. QED
        BY <1>3, <3>1 DEF ExecRow
    <2>4. r \in JobRow /\ DOMAIN r.steps = DOMAIN job[j].steps /\ r.status # "new"
      <3> HIDE DEF s
      <3> QED BY <1>3, <1>6 DEF JobRow
    <2>5. r.plan = job[j].plan /\ r.captured = job[j].captured
      <3> HIDE DEF s
      <3> QED BY <1>3 DEF JobRow
    <2>6. QED
      <3> HIDE DEF r, x
      <3> QED BY <1>2, <1>3, <2>1, <2>2, <2>3, <2>4, <2>5 DEF Writes, Sets, Paired, IInv, TypeOK
  <1> HIDE DEF s
  <1>8. /\ r.status = "running" /\ r.steps = s /\ r.flag = "clear" /\ r.plan = job[j].plan
        /\ x.pc = "loop" /\ x.job = j /\ x.at = X.at + 1 /\ x.end = "none"
        /\ ~x.pending /\ x.committed = X.committed
    BY <1>3, <1>4, <1>5 DEF JobRow, ExecRow
  <1> HIDE DEF r, x
  <1>9. /\ Turns(j) /\ Still /\ TypeOK' /\ job'[j] = r /\ X' = x
        /\ \A k \in Protected : (Busy(k)' <=> Busy(k)) /\ (Has(j, k)' <=> Has(j, k))
        /\ \A k \in Protected : journal'[k] = journal[k] /\ runtime'[k] = runtime[k]
    BY <1>7, RowMove DEF Still
  <1>10. Untouched(j)' /\ Flagged(j)' /\ Verdict(j)'
    BY <1>8, <1>9 DEF Untouched, Flagged, Verdict
  <1>11. Keeps(j)
    <2>1. \A k \in Protected : ~Accounts(j, k)
      BY <1>5 DEF Accounts
    <2>2. journal["pair"].receipt = j => \A n \in DOMAIN job[j].plan :
             job[j].plan[n] = "pair" => job[j].steps[n] # "pending"
      BY DEF IInv, Helper, Receipts
    <2>3. \A n \in DOMAIN job[j].plan : job[j].steps[n] # "pending" => s[n] # "pending"
      BY <1>3, <1>4, <1>6
    <2>4. QED
      BY <1>4, <1>5, <1>8, <1>9, <2>1, <2>2, <2>3 DEF Keeps, Holds, Active
  <1>12. Mine' = j /\ Row' = r
    BY <1>8, <1>9 DEF Mine, Row
  <1>13. Place' /\ Flags' /\ Known'
    BY <1>8, <1>9, <1>12 DEF Place, Flags, Known, InPart, OnPair, OnUnit, Either
  <1>14. Steps'
    <2>1. \A n \in DOMAIN job[j].steps :
            (n < X.at + 1 => s[n] = "succeeded") /\ (n > X.at + 1 => s[n] = "pending")
      <3> SUFFICES ASSUME NEW n \in DOMAIN job[j].steps
                   PROVE  /\ n < X.at + 1 => s[n] = "succeeded"
                          /\ n > X.at + 1 => s[n] = "pending"
        OBVIOUS
      <3>1. n \in Nat /\ n \in DOMAIN s
        BY <1>3, <1>4, <1>6
      <3>2. CASE n = X.at
        BY <1>4, <1>6, <3>2
      <3>3. CASE n # X.at
        <4>1. s[n] = job[j].steps[n]
          BY <1>6, <3>1, <3>3
        <4>2. QED
          BY <1>4, <3>1, <3>3, <4>1
      <3>4. QED
        BY <3>2, <3>3
    <2>2. X.at + 1 \in 1 .. Len(job[j].plan) + 1
      BY <1>4
    <2>3. X.at + 1 \in DOMAIN s => s[X.at + 1] = "pending"
      BY <1>3, <1>4, <1>6
    <2>4. QED
      BY <1>6, <1>8, <1>9, <1>12, <2>1, <2>2, <2>3 DEF Steps, InPart
  <1>15. Handoff'
    <2>1. X.committed => Beyond(j)'
      BY SMTT(60), <1>3, <1>4, <1>6, <1>8, <1>9 DEF Beyond
    <2>2. QED
      BY <1>8, <1>9, <1>12, <2>1 DEF Handoff, OnPair, OnUnit, Either
  <1>16. QED
    BY <1>9, <1>10, <1>11, <1>13, <1>14, <1>15, RowStep

(* The verdict.                                                            *)
LEMMA FinishStep ==
  ASSUME IInv, NEW p \in Procs, Finish(p)
  PROVE  Good
  <1>1. E(p).pc # "idle"
    BY DEF Finish, At
  <1>2. PICK j \in Jobs : j = Mine
    BY <1>1, ThreadFacts
  <1>3. /\ p = "web" /\ E(p) = X /\ J(p) = job[j] /\ X \in ExecRow /\ X.job = j
        /\ Row = job[j] /\ job[j] \in JobRow /\ job[j].status # "new" /\ X.pc = "final"
        /\ DOMAIN job[j].steps = DOMAIN job[j].plan /\ Part(p) = Now
        /\ Now = job[j].plan[X.at]
    BY <1>1, <1>2, ThreadFacts DEF Finish, At, Now
  <1>4. /\ job[j].status = "running" /\ X.end \in {"none", "failed", "cancelled"}
        /\ CASE X.end = "none"      -> AllSucceeded(j)
             [] X.end = "cancelled" -> LeftOut(j)
             [] OTHER               -> NoneOpen(j)
        /\ X.committed => Beyond(j)
        /\ X.pending => /\ Has(j, "handoff") /\ job[j].flag # "clear"
                        /\ X.committed <=> job[j].flag = "committed"
    BY <1>2, <1>3 DEF IInv, Thread, Place, Steps, Handoff, ExecRow
  <1>5. ~InHandoff(j)
    BY <1>2, <1>3, NotInHandoff DEF InPart
  <1> DEFINE st == CASE X.end = "cancelled" -> "cancelled"
                     [] X.end = "failed"    -> "failed"
                     [] OTHER               -> "succeeded"
             ca == IF job[j].cancel # "requested" THEN job[j].cancel
                   ELSE IF X.end = "cancelled" THEN "confirmed" ELSE "completion-won"
             r == [job[j] EXCEPT !.status = st, !.cancel = ca]
             x == [X EXCEPT !.pc = "audit"]
  <1>6. r \in JobRow
    BY ZenonT(60), <1>3 DEF JobRow, Statuses
  <1>7. Writes(j, r, x)
    <2>1. job' = [job EXCEPT ![j] = r]
      BY <1>3 DEF Finish, Put, E, X, JobRow
    <2>2. exec' = [exec EXCEPT !["web"] = x]
      BY <1>3 DEF Finish, Goto, E, X
    <2>3. x \in ExecRow /\ x.pc # "idle" /\ x.job = j
      BY <1>3 DEF ExecRow, Pcs
    <2>4. r.plan = job[j].plan /\ r.captured = job[j].captured /\ r.steps = job[j].steps
      BY <1>3 DEF JobRow
    <2>5. r.status # "new"
      BY <1>3 DEF JobRow
    <2>6. QED
      <3> HIDE DEF r, x
      <3> QED BY <1>2, <1>3, <1>6, <2>1, <2>2, <2>3, <2>4, <2>5 DEF Writes, Sets, Finish, IInv, TypeOK
  <1>8. /\ r.status = st /\ r.steps = job[j].steps /\ r.flag = job[j].flag
        /\ r.plan = job[j].plan
        /\ x.pc = "audit" /\ x.job = j /\ x.pending = X.pending /\ x.committed = X.committed
    BY <1>3 DEF JobRow, ExecRow
  <1> HIDE DEF r, x
  <1>9. /\ Turns(j) /\ Still /\ TypeOK' /\ job'[j] = r /\ X' = x
        /\ \A k \in Protected : (Busy(k)' <=> Busy(k)) /\ (Has(j, k)' <=> Has(j, k))
        /\ \A k \in Protected : journal'[k] = journal[k] /\ runtime'[k] = runtime[k]
    BY <1>7, RowMove DEF Still
  <1>10. Untouched(j)'
    BY <1>8, <1>9 DEF Untouched
  <1>11. Verdict(j)'
    BY <1>4, <1>8, <1>9 DEF Verdict, AllSucceeded, LeftOut, Trails, NoneOpen
  <1>12. Flagged(j)'
    <2>1. Flagged(j)
      BY DEF IInv, Rows, RowOK
    <2>2. job[j].flag # "clear" => st = "failed"
      BY <1>4 DEF AllSucceeded, LeftOut, Trails
    <2>3. QED
      BY <1>8, <1>9, <2>1, <2>2 DEF Flagged
  <1>13. Keeps(j)
    <2>1. ~InHandoff(j)'
      BY <1>5, <1>8, <1>9 DEF InHandoff
    <2>2. journal["pair"].receipt = j => job[j].flag # "pending" /\ \A n \in DOMAIN job[j].plan :
             job[j].plan[n] = "pair" => job[j].steps[n] # "pending"
      BY DEF IInv, Helper, Receipts
    <2>3. \A k \in Protected : Accounts(j, k) => Accounts(j, k)'
      BY <1>5, <1>8, <1>9 DEF Accounts
    <2>4. QED
      BY <1>4, <1>8, <1>9, <2>1, <2>2, <2>3 DEF Keeps, Holds, Active
  <1>14. Mine' = j /\ Row' = r
    BY <1>8, <1>9 DEF Mine, Row
  <1>15. Place' /\ Flags' /\ Known' /\ Steps'
    BY <1>8, <1>9, <1>14 DEF Place, Flags, Known, Steps, InPart, OnPair, OnUnit, Either
  <1>16. Handoff'
    <2>1. X.committed => Beyond(j)'
      BY <1>4, <1>8, <1>9 DEF Beyond
    <2>2. X.pending => Holds(j)'
      BY <1>4, <1>8, <1>9 DEF Holds
    <2>3. QED
      BY <1>4, <1>8, <1>9, <1>14, <2>1, <2>2
      DEF Handoff, OnPair, OnUnit, Either, Protected
  <1>17. QED
    BY <1>9, <1>10, <1>11, <1>12, <1>13, <1>15, <1>16, RowStep

(* An exception inside the pair has been reconciled.                       *)
LEMMA PairCleanupStep ==
  ASSUME IInv, NEW p \in Procs, PairCleanup(p)
  PROVE  Good
  <1>1. E(p).pc # "idle"
    BY DEF PairCleanup, At
  <1>2. PICK j \in Jobs : j = Mine
    BY <1>1, ThreadFacts
  <1>3. /\ p = "web" /\ E(p) = X /\ J(p) = job[j] /\ X \in ExecRow /\ X.job = j
        /\ Row = job[j] /\ job[j] \in JobRow /\ job[j].status # "new" /\ X.pc = "paircleanup"
        /\ DOMAIN job[j].steps = DOMAIN job[j].plan /\ Part(p) = Now
        /\ Now = job[j].plan[X.at]
    BY <1>1, <1>2, ThreadFacts DEF PairCleanup, At, Now
  <1>4. /\ job[j].status = "running" /\ X.at \in DOMAIN job[j].plan /\ Now = "pair"
        /\ job[j].flag # "clear" /\ ~X.pending
        /\ Proven(X.answer) => ~Busy("pair")
        /\ X.committed => Beyond(j)
    BY <1>2, <1>3 DEF IInv, Thread, Place, Flags, Handoff, Helper, Known, OnPair
  <1>5. Has(j, "pair") /\ ~Has(j, "handoff") /\ ~InHandoff(j)
    <2>1. Has(j, "pair")
      BY <1>3, <1>4 DEF Has
    <2>2. ~Has(j, "handoff")
      BY <2>1, OnePart DEF IInv, Protected
    <2>3. QED
      BY <2>1, <2>2 DEF InHandoff, Has
  <1> DEFINE f == IF Proven(X.answer) THEN "clear" ELSE job[j].flag
             r == [job[j] EXCEPT !.flag = f]
             x == [X EXCEPT !.pc = "raise"]
  <1>6. Writes(j, r, x)
    <2>1. job' = [job EXCEPT ![j] = r] /\ exec' = [exec EXCEPT !["web"] = x]
      BY <1>3 DEF PairCleanup, Put, Goto, E, X, JobRow
    <2>2. x \in ExecRow /\ x.pc # "idle" /\ x.job = j
      BY <1>3 DEF ExecRow, Pcs
    <2>3. r \in JobRow
      BY <1>3 DEF JobRow
    <2>4. QED
      BY <1>2, <1>3, <2>1, <2>2, <2>3 DEF Writes, Sets, PairCleanup, IInv, TypeOK
  <1>7. /\ r.status = "running" /\ r.steps = job[j].steps /\ r.flag = f
        /\ r.plan = job[j].plan
        /\ x.pc = "raise" /\ x.job = j /\ ~x.pending /\ x.committed = X.committed
    BY <1>3, <1>4 DEF JobRow, ExecRow
  <1> HIDE DEF r, x
  <1>8. /\ Turns(j) /\ Still /\ TypeOK' /\ job'[j] = r /\ X' = x
        /\ \A k \in Protected : (Busy(k)' <=> Busy(k)) /\ (Has(j, k)' <=> Has(j, k))
        /\ \A k \in Protected : journal'[k] = journal[k] /\ runtime'[k] = runtime[k]
    BY <1>6, RowMove DEF Still
  <1>9. Untouched(j)' /\ Verdict(j)'
    BY <1>7, <1>8 DEF Untouched, Verdict
  <1>10. Flagged(j)'
    <2>1. Flagged(j)
      BY DEF IInv, Rows, RowOK
    <2>2. QED
      BY <1>4, <1>7, <1>8, <2>1 DEF Flagged
  <1>11. Keeps(j)
    <2>1. ~InHandoff(j)'
      BY <1>4, <1>5, <1>7, <1>8 DEF InHandoff
    <2>2. journal["pair"].receipt = j => job[j].flag # "pending" /\ \A n \in DOMAIN job[j].plan :
             job[j].plan[n] = "pair" => job[j].steps[n] # "pending"
      BY DEF IInv, Helper, Receipts
    <2>3. \A k \in Protected : Busy(k) /\ Accounts(j, k) => Accounts(j, k)'
      BY <1>4, <1>5, <1>7, <1>8 DEF Accounts, Protected
    <2>4. QED
      BY <1>4, <1>7, <1>8, <2>1, <2>2, <2>3 DEF Keeps, Holds, Active
  <1>12. Mine' = j /\ Row' = r
    BY <1>7, <1>8 DEF Mine, Row
  <1>13. Place' /\ Flags' /\ Steps'
    BY <1>7, <1>8, <1>12 DEF Place, Flags, Steps, InPart, OnPair, OnUnit, Either
  <1>14. Handoff'
    <2>1. X.committed => Beyond(j)'
      BY <1>4, <1>7, <1>8 DEF Beyond
    <2>2. QED
      BY <1>7, <1>8, <1>12, <2>1 DEF Handoff, OnPair, OnUnit, Either
  <1>15. Known'
    <2>1. \A i \in Jobs : Holds(i) => i = j
      BY <1>1, <1>2, ThreadFacts
    <2>2. ~Busy("handoff")
      BY <1>5, <2>1, BusyMine DEF IInv, Helper, Accounts, Protected
    <2>3. QED
      BY <1>7, <1>8, <2>2 DEF Known, Protected
  <1>16. QED
    BY <1>8, <1>9, <1>10, <1>11, <1>13, <1>14, <1>15, RowStep

(* The handler of an exception gives the task up.                          *)
LEMMA HandleStep ==
  ASSUME IInv, NEW p \in Procs, Handle(p)
  PROVE  Good
  <1>1. E(p).pc # "idle"
    BY DEF Handle, At
  <1>2. PICK j \in Jobs : j = Mine
    BY <1>1, ThreadFacts
  <1>3. /\ p = "web" /\ E(p) = X /\ J(p) = job[j] /\ X \in ExecRow /\ X.job = j
        /\ Row = job[j] /\ job[j] \in JobRow /\ job[j].status # "new" /\ X.pc = "handle"
        /\ DOMAIN job[j].steps = DOMAIN job[j].plan /\ Part(p) = Now
        /\ Now = job[j].plan[X.at]
    BY <1>1, <1>2, ThreadFacts DEF Handle, At, Now
  <1>4. /\ X.pending => /\ Has(j, "handoff") /\ Holds(j)
                        /\ X.committed <=> job[j].flag = "committed"
        /\ ~X.pending /\ job[j].flag = "clear" => ~Busy("handoff")
        /\ X.pending /\ Proven(X.answer) => ~Busy("handoff")
    BY <1>2, <1>3 DEF IInv, Thread, Handoff, Helper, Known
  <1> DEFINE f == IF ~X.pending THEN job[j].flag ELSE IF Proven(X.answer) THEN "clear"
                   ELSE IF X.committed THEN "committed" ELSE "pending"
             s == Stopped(job[j].steps)
             r == [job[j] EXCEPT !.status = "failed", !.steps = s, !.flag = f]
  <1>5. f = IF ~X.pending THEN job[j].flag ELSE IF Proven(X.answer) THEN "clear"
            ELSE IF X.committed THEN "committed" ELSE "pending"
    OBVIOUS
  <1>6. /\ s \in Seq(StepStates) /\ DOMAIN s = DOMAIN job[j].steps
        /\ \A n \in DOMAIN s : s[n] \notin {"pending", "running"}
    BY <1>3, StepUpdates, StoppedSteps DEF JobRow, StepStates
  <1>7. f \in {"clear", "pending", "committed"}
    BY <1>3, <1>5 DEF JobRow
  <1>8. Writes(j, r, Idle)
    <2>1. job' = [job EXCEPT ![j] = r] /\ exec' = [exec EXCEPT !["web"] = Idle]
      <3>1. job' = [job EXCEPT ![j] = [job[j] EXCEPT !.status = "failed", !.steps = Stopped(@),
              !.flag = IF ~X.pending THEN @ ELSE IF Proven(X.answer) THEN "clear"
                       ELSE IF X.committed THEN "committed" ELSE "pending"]]
        BY <1>3 DEF Handle, Put
      <3>2. QED
        BY <1>3, <3>1 DEF Handle, JobRow
    <2> HIDE DEF f, s
    <2>2. /\ r \in JobRow /\ r.plan = job[j].plan /\ r.captured = job[j].captured
          /\ r.status # "new" /\ DOMAIN r.steps = DOMAIN job[j].steps
      BY ZenonT(60), <1>3, <1>6, <1>7 DEF JobRow, Statuses
    <2>3. QED
      BY <1>2, <1>3, <2>1, <2>2, IdleRow DEF Writes, Sets, Handle, IInv, TypeOK
  <1> HIDE DEF f, s
  <1>9. r.status = "failed" /\ r.steps = s /\ r.flag = f /\ r.plan = job[j].plan
    BY <1>3 DEF JobRow
  <1> HIDE DEF r
  <1>10. /\ Turns(j) /\ Still /\ TypeOK' /\ job'[j] = r /\ X' = Idle
         /\ \A k \in Protected : (Busy(k)' <=> Busy(k)) /\ (Has(j, k)' <=> Has(j, k))
         /\ \A k \in Protected : journal'[k] = journal[k] /\ runtime'[k] = runtime[k]
    BY <1>8, RowMove DEF Still
  <1>11. Untouched(j)' /\ Verdict(j)'
    BY <1>6, <1>9, <1>10 DEF Untouched, Verdict, NoneOpen
  <1>12. f # "clear" => \E k \in Protected : Has(j, k)
    <2>1. Flagged(j)
      BY DEF IInv, Rows, RowOK
    <2>2. QED
      BY <1>4, <1>5, <2>1 DEF Flagged, Protected
  <1>13. Flagged(j)'
    <2>1. f # "clear" => \E k \in Protected : Has(j, k)'
      BY <1>10, <1>12
    <2>2. QED
      BY <1>3, <1>6, <1>9, <1>10, <2>1 DEF Flagged
  <1>14. Keeps(j)
    <2>1. ~InHandoff(j)'
      BY <1>9, <1>10 DEF InHandoff
    <2>2. X.pending => \A k \in Protected : Has(j, k) => k = "handoff"
      BY <1>4, OnePart DEF IInv, Protected
    <2>3. journal["pair"].receipt = j => Has(j, "pair") /\ job[j].flag # "pending"
      BY DEF IInv, Helper, Receipts
    <2>4. journal["pair"].receipt = j => f # "pending"
      BY <1>5, <2>2, <2>3 DEF Protected
    <2>5. \A k \in Protected : Busy(k) /\ Accounts(j, k) => Accounts(j, k)'
      BY <1>4, <1>5, <1>9, <1>10, <2>2 DEF Accounts
    <2>6. f = "committed" <=> job[j].flag = "committed" /\ ~(X.pending /\ Proven(X.answer))
      BY <1>4, <1>5
    <2>7. f \in {"clear", "committed"} \/ job[j].flag # "committed"
      BY <1>4, <1>5
    <2>8. f # "clear" => Holds(j)
      BY <1>4, <1>5 DEF Holds
    <2>9. QED
      BY <1>3, <1>6, <1>9, <1>10, <2>1, <2>4, <2>5, <2>6, <2>7, <2>8
         DEF Keeps, Holds, Active, Idle
  <1>15. Place' /\ Steps' /\ Flags' /\ Handoff' /\ Known'
    BY <1>10, IdleKnows
  <1>16. QED
    BY <1>10, <1>11, <1>13, <1>14, <1>15, RowStep

-----------------------------------------------------------------------------
(* The application-side boundary.                                          *)

(* The commit: what runs becomes what is recorded as applied.              *)
LEMMA CommitStep ==
  ASSUME IInv, NEW p \in Procs, Commit(p)
  PROVE  Good
  <1>1. E(p).pc # "idle"
    BY DEF Commit, At
  <1>2. PICK j \in Jobs : j = Mine
    BY <1>1, ThreadFacts
  <1>3. /\ p = "web" /\ E(p) = X /\ J(p) = job[j] /\ X \in ExecRow /\ X.job = j
        /\ Row = job[j] /\ job[j] \in JobRow /\ job[j].status # "new" /\ X.pc = "commit"
        /\ DOMAIN job[j].steps = DOMAIN job[j].plan /\ Part(p) = Now
        /\ Now = job[j].plan[X.at]
    BY <1>1, <1>2, ThreadFacts DEF Commit, At, Now
  <1>4. /\ job[j].status = "running" /\ X.end = "none" /\ X.at \in DOMAIN job[j].plan
        /\ \A n \in DOMAIN job[j].steps : /\ n < X.at => job[j].steps[n] = "succeeded"
                                          /\ n > X.at => job[j].steps[n] = "pending"
        /\ job[j].steps[X.at] = "running" /\ job[j].steps \in Seq(StepStates)
        /\ Now \in Protected => Has(j, Now) /\ \A l \in Protected : Has(j, l) => l = Now
        /\ X.pending => Has(j, "handoff")
        /\ X.committed => Beyond(j)
        /\ X.at \in Nat /\ DOMAIN job[j].steps \subseteq Nat
    BY <1>2, <1>3, PartFacts DEF InPart
  <1>5. /\ job[j].flag = IF Now = "pair" THEN "pending" ELSE "clear"
        /\ Now \in Protected /\ Ready(Now) /\ (Now = "handoff" => X.pending)
    BY <1>3 DEF IInv, Thread, Flags, Handoff, Place, Helper, Known, Either
  <1>6. PICK k \in Protected : k = Now
    BY <1>5
  <1>7. /\ Has(j, k) /\ \A l \in Protected : Has(j, l) => l = k
        /\ journal[k].phase = "awaiting" /\ journal[k].owner = j /\ journal[k].unit = "none"
        /\ runtime[k] = job[j].captured[k] /\ Accounts(j, k)
    <2>1. /\ Has(j, k) /\ \A l \in Protected : Has(j, l) => l = k
          /\ journal[k].phase = "awaiting" /\ journal[k].owner = j /\ journal[k].unit = "none"
          /\ runtime[k] = job[j].captured[k]
      BY <1>2, <1>3, <1>4, <1>5, <1>6 DEF Ready
    <2>2. k = "handoff" => InHandoff(j)
      BY ZenonT(60), <1>3, <1>4, <1>6 DEF InHandoff
    <2>3. k = "pair" => job[j].flag # "clear"
      BY <1>5, <1>6
    <2>4. QED
      BY <2>1, <2>2, <2>3 DEF Accounts, Protected
  <1> DEFINE v == IF Now = "handoff" THEN "succeeded" ELSE job[j].steps[X.at]
             s == [job[j].steps EXCEPT ![X.at] = v]
             r == [job[j] EXCEPT !.flag = "committed", !.steps = s]
             x == [X EXCEPT !.pc = "ack", !.committed = X.committed \/ Now = "handoff"]
  <1>8. /\ s \in Seq(StepStates) /\ DOMAIN s = DOMAIN job[j].steps
        /\ s[X.at] = (IF k = "handoff" THEN "succeeded" ELSE "running")
        /\ \A n \in DOMAIN s : n # X.at => s[n] = job[j].steps[n]
    <2>1. v \in StepStates
      BY <1>4 DEF StepStates
    <2>2. s \in Seq(StepStates) /\ DOMAIN s = DOMAIN job[j].steps
      BY <1>4, <2>1, StepUpdates
    <2>3. QED
      BY <1>3, <1>4, <1>6, <2>2
  <1>9. Sets(j, r, x)
    <2>1. job' = [job EXCEPT ![j] = r]
      BY <1>3 DEF Commit, Put, E, X, JobRow
    <2>2. exec' = [exec EXCEPT !["web"] = x]
      BY <1>3 DEF Commit, E, X, ExecRow
    <2>3. x \in ExecRow /\ x.pc # "idle" /\ x.job = j
      BY <1>3 DEF ExecRow, Pcs
    <2>4. baseline' \in [Items -> Versions]
      BY <1>3, <1>6 DEF Commit, Promoted, IInv, TypeOK, JobRow, Items
    <2> HIDE DEF s
    <2>5. /\ r \in JobRow /\ r.plan = job[j].plan /\ r.captured = job[j].captured
          /\ r.status # "new" /\ DOMAIN r.steps = DOMAIN job[j].steps
      BY <1>3, <1>8 DEF JobRow
    <2>6. QED
      <3> HIDE DEF r, x
      <3> QED BY <1>2, <1>3, <2>1, <2>2, <2>3, <2>4, <2>5 DEF Sets, Commit, IInv, TypeOK
  <1> HIDE DEF s
  <1>10. /\ r.status = "running" /\ r.steps = s /\ r.flag = "committed"
         /\ r.plan = job[j].plan /\ r.captured = job[j].captured
         /\ x.pc = "ack" /\ x.job = j /\ x.at = X.at /\ x.end = "none"
         /\ x.pending = X.pending /\ (x.committed <=> X.committed \/ Now = "handoff")
    BY ZenonT(60), <1>3, <1>4 DEF JobRow, ExecRow
  <1> HIDE DEF r, x
  <1>11. /\ Turns(j) /\ TypeOK' /\ job'[j] = r /\ X' = x
         /\ \A l \in Protected : (Busy(l)' <=> Busy(l)) /\ (Has(j, l)' <=> Has(j, l))
         /\ \A l \in Protected : journal'[l] = journal[l]
    BY <1>9, SetMove
  <1>12. /\ journal' = journal /\ runtime' = runtime
         /\ baseline'[k] = job[j].captured[k]
         /\ \A l \in Protected : l # k => baseline'[l] = baseline[l]
    BY <1>3, <1>6 DEF Commit, Promoted, IInv, TypeOK, Items
  <1>13. \A i \in Jobs : Holds(i) => i = j
    BY <1>1, <1>2, ThreadFacts
  <1>14. Committed'
    <2> SUFFICES ASSUME NEW i \in Jobs, NEW l \in Protected, job'[i].flag = "committed", Has(i, l)'
                 PROVE  /\ baseline'[l] = job'[i].captured[l] /\ journal'[l].unit = "none"
                        /\ journal'[l].phase = "none" =>
                             journal'[l].receipt = i /\ runtime'[l] = job'[i].captured[l]
                        /\ journal'[l].phase # "none" =>
                             /\ journal'[l].phase = "awaiting" /\ journal'[l].owner = i
                             /\ journal'[l].restored \/ runtime'[l] = job'[i].captured[l]
      BY DEF Committed
    <2>1. i = j
      BY <1>11, <1>13 DEF Holds, Turns
    <2>2. l = k
      BY <1>7, <1>11, <2>1
    <2>3. QED
      BY <1>7, <1>10, <1>11, <1>12, <2>1, <2>2
  <1>15. Untouched(j)' /\ Verdict(j)'
    BY <1>10, <1>11 DEF Untouched, Verdict
  <1>16. Flagged(j)'
    <2>1. \A n \in DOMAIN job[j].plan : job[j].plan[n] \in Protected => n = X.at
      <3>1. job[j].plan[X.at] \in Protected
        BY <1>3, <1>6
      <3>2. QED
        BY <1>4, <3>1, PlanFacts DEF IInv
    <2>2. \E l \in Protected : Has(j, l)'
      BY <1>7, <1>11
    <2>3. QED
      BY <1>3, <1>6, <1>8, <1>10, <1>11, <2>1, <2>2 DEF Flagged
  <1>17. /\ Holds(j)' => Holds(j)
         /\ \A l \in Protected : Busy(l) /\ Accounts(j, l) => Accounts(j, l)'
         /\ journal["pair"].receipt = j =>
               /\ job'[j].flag # "pending" /\ X'.pc # "flag"
               /\ \A n \in DOMAIN job[j].plan :
                     job[j].plan[n] = "pair" => job'[j].steps[n] # "pending"
    <2>1. Holds(j)
      BY <1>4 DEF Holds, Active
    <2>2. \A l \in Protected : Accounts(j, l) => Accounts(j, l)'
      BY <1>10, <1>11 DEF Accounts
    <2>3. journal["pair"].receipt = j => \A n \in DOMAIN job[j].plan :
             job[j].plan[n] = "pair" => job[j].steps[n] # "pending"
      BY DEF IInv, Helper, Receipts
    <2>4. QED
      BY <1>3, <1>8, <1>10, <1>11, <2>1, <2>2, <2>3
  <1>18. Mine' = j /\ Row' = r /\ Now' = Now
    BY <1>3, <1>10, <1>11 DEF Mine, Row, Now
  <1>19. Place' /\ Flags' /\ Known'
    BY <1>4, <1>5, <1>10, <1>11, <1>18
    DEF Place, Flags, Known, InPart, OnPair, OnUnit, Either
  <1>20. Steps'
    <2>1. \A n \in DOMAIN s : /\ n < X.at => s[n] = "succeeded"
                              /\ n > X.at => s[n] = "pending"
      BY <1>4, <1>8
    <2>2. s[X.at] = IF Now = "handoff" THEN "succeeded" ELSE "running"
      BY <1>6, <1>8
    <2>3. QED
      BY <1>10, <1>11, <1>18, <2>1, <2>2 DEF Steps, InPart
  <1>21. Handoff'
    <2>1. Beyond(j)' \/ ~x.committed
      BY <1>3, <1>4, <1>7, <1>6, <1>8, <1>10, <1>11, <1>16
      DEF Beyond, Flagged, Protected
    <2>2. X.pending => Now = "handoff"
      BY <1>4, <1>5 DEF Protected
    <2>3. Holds(j)'
      BY <1>10, <1>11 DEF Holds
    <2>4. QED
      BY <1>4, <1>5, <1>10, <1>11, <1>18, <2>1, <2>2, <2>3
      DEF Handoff, OnPair, OnUnit, Either, Protected
  <1>22. IInv'
    BY <1>11, <1>12, <1>14, <1>15, <1>16, <1>17, <1>19, <1>20, <1>21, TurnStep
  <1>23. ASSUME NEW l \in Protected PROVE Refines(l)
    <2>1. \A i \in Jobs : Holds(i)' => i = j
      BY <1>11, <1>13 DEF Holds, Active, Turns
    <2>2. Change(l) = Reading(j, l) /\ Change(l)' = Reading(j, l)'
      BY <1>11, <1>13, <2>1, ChangeMine, ChangeMineNext DEF ReadOff, IInv, TypeOK
    <2>3. CASE l = k
      <3>1. Change(l) = "active" /\ Change(l)' = "committed"
        BY <1>5, <1>7, <1>10, <1>11, <2>2, <2>3 DEF Reading
      <3>2. QED
        BY <1>7, <1>12, <2>3, <3>1 DEF Refines, Decides
    <2>4. CASE l # k
      <3>1. Change(l) = "none" /\ Change(l)' = "none"
        BY <1>7, <1>11, <2>2, <2>4 DEF Reading, Accounts
      <3>2. QED
        BY <3>1 DEF Refines, Same
    <2>5. QED
      BY <2>3, <2>4
  <1>24. QED
    BY <1>22, <1>23 DEF Good

-----------------------------------------------------------------------------
(* The helper: a step makes jr of one journal and v of what runs.          *)

Helps(k, jr, v) ==
    /\ job' = job /\ baseline' = baseline /\ desired' = desired
    /\ journal' = [journal EXCEPT ![k] = jr] /\ runtime' = [runtime EXCEPT ![k] = v]
    /\ jr \in Journal /\ v \in Values

(* The journal is kept or closed, the unit left alone or stopped.          *)
Settled(k, jr) ==
    /\ jr.unit # "none" => jr = journal[k]
    /\ jr.phase # "none" =>
          /\ jr.phase = journal[k].phase /\ jr.owner = journal[k].owner
          /\ jr.prior = journal[k].prior
          /\ jr.restored => journal[k].restored /\ jr.receipt = journal[k].receipt
    /\ jr.restored => jr.phase # "none"

(* What a change of one journal leaves as it is.                           *)
LEMMA HelpFacts ==
  ASSUME IInv, NEW k \in Protected, NEW jr, NEW v, Helps(k, jr, v)
  PROVE  /\ journal'[k] = jr /\ runtime'[k] = v
         /\ \A l \in Protected : l # k => journal'[l] = journal[l] /\ runtime'[l] = runtime[l]
         /\ journal' \in [Protected -> Journal] /\ runtime' \in [Items -> Values]
         /\ \A j \in Jobs : Holds(j)' <=> Holds(j)
         /\ \A j \in Jobs, l \in Protected : /\ Has(j, l)' <=> Has(j, l)
                                             /\ Accounts(j, l)' <=> Accounts(j, l)
         /\ \A j \in Jobs : RowOK(j)' /\ (InHandoff(j)' <=> InHandoff(j)) /\ (Beyond(j)' <=> Beyond(j))
         /\ \A l \in Protected : Change(l)' = Change(l)
  <1>1. /\ journal \in [Protected -> Journal] /\ runtime \in [Items -> Values]
        /\ \A j \in Jobs : RowOK(j)
    BY DEF IInv, TypeOK, Rows
  <1>2. /\ journal'[k] = jr /\ runtime'[k] = v
        /\ \A l \in Protected : l # k => journal'[l] = journal[l] /\ runtime'[l] = runtime[l]
        /\ journal' \in [Protected -> Journal] /\ runtime' \in [Items -> Values]
    BY <1>1 DEF Helps, Items
  <1>3. /\ \A j \in Jobs : Holds(j)' <=> Holds(j)
        /\ \A j \in Jobs, l \in Protected : /\ Has(j, l)' <=> Has(j, l)
                                            /\ Accounts(j, l)' <=> Accounts(j, l)
    BY DEF Helps, Holds, Active, Has, Accounts, InHandoff
  <1>4. \A j \in Jobs : RowOK(j)' /\ (InHandoff(j)' <=> InHandoff(j)) /\ (Beyond(j)' <=> Beyond(j))
    BY <1>1
    DEF Helps, RowOK, Planned, Untouched, Flagged, Verdict, AllSucceeded, LeftOut, Trails,
                NoneOpen, Has, InHandoff, Beyond
  <1>5. \A l \in Protected : Change(l)' = Change(l)
    BY DEF Helps, Change, Has
  <1>6. QED
    BY <1>2, <1>3, <1>4, <1>5

(* The journals stay accounted for.                                        *)
LEMMA Bookkeeping ==
  ASSUME IInv, NEW k \in Protected, NEW jr, NEW v, Helps(k, jr, v), Settled(k, jr)
  PROVE  Journals' /\ Accounted' /\ (jr.phase # "none" => jr.owner \in Jobs)
  <1>1. Journals /\ Accounted /\ TypeOK
    BY DEF IInv, Helper
  <1>2. jr \in Journal
    BY DEF Helps
  <1>3. jr.phase # "none" => jr.owner \in Jobs
    BY <1>1 DEF Settled, TypeOK
  <1>4. ASSUME NEW l \in Protected
        PROVE  /\ journal'[l].unit # "none" => journal'[l].by \in Jobs
               /\ journal'[l].unit = "started" => journal'[l].phase = "none"
               /\ journal'[l].unit = "changing" =>
                     journal'[l].phase = "open" /\ journal'[l].owner = journal'[l].by
               /\ journal'[l].restored => /\ l = "pair" /\ journal'[l].phase # "none"
                                          /\ journal'[l].unit = "none"
                                          /\ journal'[l].receipt # journal'[l].owner
    <2>1. CASE l # k
      BY <1>1, <2>1, HelpFacts DEF Journals
    <2>2. CASE l = k
      <3>1. journal'[l] = jr
        BY <2>2, HelpFacts
      <3>2. CASE jr.unit # "none"
        BY <1>1, <2>2, <3>1, <3>2 DEF Journals, Settled
      <3>3. CASE jr.unit = "none"
        BY <1>1, <2>2, <3>1, <3>3 DEF Journals, Settled
      <3>4. QED
        BY <3>2, <3>3
    <2>3. QED
      BY <2>1, <2>2
  <1>5. Journals'
    BY <1>4 DEF Journals
  <1>6. ASSUME NEW l \in Protected
        PROVE  /\ journal'[l].phase # "none" => Accounts(journal[l].owner, l)'
               /\ journal'[l].unit # "none" => Accounts(journal[l].by, l)'
    <2>1. CASE l # k
      BY <1>1, <2>1, HelpFacts DEF Accounted, TypeOK, Journals
    <2>2. CASE l = k
      <3>1. journal'[l] = jr
        BY <2>2, HelpFacts
      <3>2. jr.phase # "none" => Accounts(jr.owner, k)'
        BY <1>1, <1>3, HelpFacts DEF Accounted, Settled
      <3>3. jr.unit # "none" => Accounts(jr.by, k)'
        BY <1>1, HelpFacts DEF Accounted, Settled, Journals
      <3>4. QED
        BY <2>2, <3>1, <3>2, <3>3
    <2>3. QED
      BY <2>1, <2>2
  <1>7. Accounted'
    BY <1>6 DEF Accounted
  <1>8. QED
    BY <1>3, <1>5, <1>7

(* What the helper makes of a journal.                                     *)
LEMMA JournalUpdates ==
  ASSUME IInv, NEW k \in Protected
  PROVE  /\ journal[k] \in Journal /\ runtime[k] \in Values /\ Mixed \in Values
         /\ journal[k].prior \in Values
         /\ journal[k].restored => journal[k].phase # "none"
         /\ Cleared(k) \in Journal /\ Cleared(k).phase = "none" /\ Cleared(k).restored = FALSE
         /\ Cleared(k).unit = journal[k].unit /\ Cleared(k).receipt = journal[k].receipt
         /\ Undone(k) \in Journal /\ Undone(k).phase = "none" /\ Undone(k).restored = FALSE
         /\ Undone(k).unit = journal[k].unit /\ Undone(k).receipt \in {journal[k].receipt, NoJob}
         /\ \A q \in Journal :
               /\ Quiet(k, q) \in Journal /\ Quiet(k, q).unit = "none"
               /\ Quiet(k, q).phase = q.phase /\ Quiet(k, q).owner = q.owner
               /\ Quiet(k, q).prior = q.prior /\ Quiet(k, q).restored = q.restored
               /\ Quiet(k, q).receipt = q.receipt
               /\ journal[k].unit # "none" => Quiet(k, q).result = "failed"
  <1>1. /\ journal[k] \in Journal /\ runtime[k] \in Values
        /\ journal[k].restored => journal[k].phase # "none"
    BY DEF IInv, TypeOK, Helper, Journals, Items
  <1>2. Mixed \in Values /\ journal[k].prior \in Values /\ 0 \in Values
    <2>1. Mixed \in Values /\ 0 \in Values
      BY ApplyConstants DEF Values, Versions
    <2>2. journal[k].prior \in Values
      BY <1>1 DEF Journal
    <2>3. QED
      BY <2>1, <2>2
  <1>3. /\ Cleared(k) \in Journal /\ Cleared(k).phase = "none" /\ Cleared(k).restored = FALSE
        /\ Cleared(k).unit = journal[k].unit /\ Cleared(k).receipt = journal[k].receipt
    BY <1>1, <1>2 DEF Journal, NoJob, Cleared
  <1>4. /\ Undone(k) \in Journal /\ Undone(k).phase = "none" /\ Undone(k).restored = FALSE
        /\ Undone(k).unit = journal[k].unit /\ Undone(k).receipt \in {journal[k].receipt, NoJob}
    BY <1>3 DEF Undone, Journal, NoJob
  <1>5. ASSUME NEW q \in Journal
        PROVE  /\ Quiet(k, q) \in Journal /\ Quiet(k, q).unit = "none"
               /\ Quiet(k, q).phase = q.phase /\ Quiet(k, q).owner = q.owner
               /\ Quiet(k, q).prior = q.prior /\ Quiet(k, q).restored = q.restored
               /\ Quiet(k, q).receipt = q.receipt
               /\ journal[k].unit # "none" => Quiet(k, q).result = "failed"
    BY DEF Quiet, Journal, NoJob
  <1>6. QED
    BY <1>1, <1>2, <1>3, <1>4, <1>5

(* What taking a change back leaves behind.                                *)
LEMMA RestoredFacts ==
  ASSUME IInv, NEW k \in Protected, NEW o \in Restored(k), journal[k].phase # "none"
  PROVE  /\ o.jr \in Journal /\ o.live \in Values /\ o.answer \in Answers \ {"none"}
         /\ o.cost \in {0, 1} /\ Settled(k, o.jr)
         /\ o.jr.receipt \in {journal[k].receipt, NoJob} /\ o.jr.unit = "none"
         /\ Proven(o.answer) => o.jr.phase = "none"
         /\ o.jr.phase = "none" => o.live = journal[k].prior
  <1> DEFINE jr == journal[k]
             un == Undone(k)
  <1>1. /\ jr \in Journal /\ Mixed \in Values /\ jr.prior \in Values
        /\ Quiet(k, jr) \in Journal /\ Quiet(k, jr).unit = "none"
        /\ Quiet(k, jr).phase = jr.phase /\ Quiet(k, jr).owner = jr.owner
        /\ Quiet(k, jr).prior = jr.prior /\ Quiet(k, jr).restored = jr.restored
        /\ Quiet(k, jr).receipt = jr.receipt
    BY JournalUpdates
  <1>2. /\ Quiet(k, un) \in Journal /\ Quiet(k, un).unit = "none"
        /\ Quiet(k, un).phase = "none" /\ Quiet(k, un).restored = FALSE
        /\ Quiet(k, un).receipt \in {jr.receipt, NoJob}
    <2>1. /\ un \in Journal /\ un.phase = "none" /\ un.restored = FALSE
          /\ un.receipt \in {jr.receipt, NoJob}
      BY JournalUpdates
    <2> HIDE DEF un
    <2>2. QED
      BY <2>1, JournalUpdates
  <1> HIDE DEF un
  <1>3. CASE o = Outcome(Quiet(k, un), jr.prior, "rolled back", 0)
    <2>1. o.jr = Quiet(k, un) /\ o.live = jr.prior /\ o.answer = "rolled back" /\ o.cost = 0
      BY <1>3 DEF Outcome
    <2>2. QED
      BY <1>1, <1>2, <2>1 DEF Settled, Answers
  <1>4. CASE o = Outcome(Quiet(k, un), jr.prior, "unproven", 1)
    <2>1. o.jr = Quiet(k, un) /\ o.live = jr.prior /\ o.answer = "unproven" /\ o.cost = 1
      BY <1>4 DEF Outcome
    <2>2. QED
      BY <1>1, <1>2, <2>1 DEF Settled, Answers
  <1>5. CASE o = Outcome(Quiet(k, jr), Mixed, "unproven", 1)
    <2>1. o.jr = Quiet(k, jr) /\ o.live = Mixed /\ o.answer = "unproven" /\ o.cost = 1
      BY <1>5 DEF Outcome
    <2>2. QED
      BY <1>1, <2>1 DEF Settled, Answers, Proven
  <1>6. QED
    BY <1>3, <1>4, <1>5 DEF Restored, un

(* What a recovery leaves behind.                                          *)
LEMMA RecoverFacts ==
  ASSUME IInv, NEW k \in Protected, NEW j \in Jobs, NEW o \in Recovered(k, j)
  PROVE  /\ o.jr \in Journal /\ o.live \in Values /\ o.answer \in Answers \ {"none"} /\ o.cost \in {0, 1}
         /\ Settled(k, o.jr) /\ o.jr.receipt \in {journal[k].receipt, NoJob}
         /\ Proven(o.answer) => o.jr.phase = "none" /\ o.jr.unit = "none"
         /\ journal[k].phase = "none" => o.jr.phase = "none" /\ o.live = runtime[k]
         /\ journal[k].unit = "none" => o.jr.unit = "none"
         /\ journal[k].phase # "none" /\ o.jr.phase = "none" =>
               o.live = journal[k].prior \/ (k = "pair" /\ journal[k].receipt = j)
  <1> DEFINE jr == journal[k]
             cl == Cleared(k)
  <1>1. /\ jr \in Journal /\ runtime[k] \in Values /\ (jr.restored => jr.phase # "none")
        /\ cl \in Journal /\ cl.phase = "none" /\ cl.restored = FALSE
        /\ cl.unit = jr.unit /\ cl.receipt = jr.receipt
        /\ Quiet(k, jr) \in Journal /\ Quiet(k, jr).unit = "none"
        /\ Quiet(k, jr).phase = jr.phase /\ Quiet(k, jr).restored = jr.restored
        /\ Quiet(k, jr).receipt = jr.receipt
    BY JournalUpdates
  <1> HIDE DEF cl
  <1>2. ASSUME NEW a \in Answers \ {"none"}, NEW c \in {0, 1}, o = Outcome(jr, runtime[k], a, c),
               Proven(a) => jr.phase = "none" /\ jr.unit = "none"
        PROVE  /\ o.jr \in Journal /\ o.live \in Values /\ o.answer \in Answers \ {"none"}
               /\ o.cost \in {0, 1} /\ Settled(k, o.jr) /\ o.jr = jr /\ o.live = runtime[k]
               /\ Proven(o.answer) => o.jr.phase = "none" /\ o.jr.unit = "none"
    <2>1. o.jr = jr /\ o.live = runtime[k] /\ o.answer = a /\ o.cost = c
      BY <1>2 DEF Outcome
    <2>2. QED
      BY <1>1, <1>2, <2>1 DEF Settled
  <1>3. CASE k = "handoff"
    <2>1. CASE o = Outcome(jr, runtime[k], "unproven", 1)
      BY <1>2, <2>1 DEF Answers, Proven
    <2>2. CASE jr.phase = "none" /\ o = Outcome(Quiet(k, jr), runtime[k], "nothing", 0)
      <3>1. o.jr = Quiet(k, jr) /\ o.live = runtime[k] /\ o.answer = "nothing" /\ o.cost = 0
        BY <2>2 DEF Outcome
      <3>2. /\ o.jr \in Journal /\ o.jr.unit = "none" /\ o.jr.phase = "none"
            /\ o.jr.restored = jr.restored /\ o.jr.receipt = jr.receipt
        BY <1>1, <2>2, <3>1
      <3>3. ~jr.restored
        BY <1>1, <2>2
      <3>4. Settled(k, o.jr)
        BY <3>2, <3>3 DEF Settled
      <3>5. QED
        BY <1>1, <2>2, <3>1, <3>2, <3>4 DEF Answers
    <2>3. CASE jr.phase # "none" /\ o \in Restored(k)
      BY <2>3, RestoredFacts
    <2>4. QED
      BY <1>3, <2>1, <2>2, <2>3 DEF Recovered, RecoverHandoff
  <1>4. CASE k = "pair"
    <2>1. CASE PairBusy
      <3>1. o = Outcome(jr, runtime[k], "unproven", 0)
        BY <1>4, <2>1 DEF Recovered, RecoverPair
      <3>2. QED
        BY <1>2, <3>1 DEF Answers, Proven
    <2>2. CASE ~PairBusy /\ jr.phase = "none"
      <3>1. o = Outcome(jr, runtime[k], "nothing", 0) /\ jr.unit = "none"
        BY <1>4, <2>2 DEF Recovered, RecoverPair, PairBusy
      <3>2. QED
        BY <1>2, <2>2, <3>1 DEF Answers
    <2>3. CASE ~PairBusy /\ jr.phase # "none" /\ jr.owner # j
      <3>1. o = Outcome(jr, runtime[k], "unproven", 0)
        BY <1>4, <2>3 DEF Recovered, RecoverPair
      <3>2. QED
        BY <1>2, <3>1 DEF Answers, Proven
    <2>4. CASE ~PairBusy /\ jr.phase # "none" /\ jr.owner = j /\ jr.receipt = j
      <3>1. o = Outcome(cl, runtime[k], "ok", 0) /\ jr.unit = "none"
        BY <1>4, <2>4 DEF Recovered, RecoverPair, PairBusy, cl
      <3>2. o.jr = cl /\ o.live = runtime[k] /\ o.answer = "ok" /\ o.cost = 0
        BY <3>1 DEF Outcome
      <3>3. QED
        BY <1>1, <1>4, <2>4, <3>1, <3>2 DEF Settled, Answers
    <2>5. CASE ~PairBusy /\ jr.phase # "none" /\ jr.owner = j /\ jr.receipt # j
      <3>1. o \in Restored(k)
        BY <1>4, <2>5 DEF Recovered, RecoverPair
      <3>2. QED
        BY <2>5, <3>1, RestoredFacts
    <2>6. QED
      BY <2>1, <2>2, <2>3, <2>4, <2>5
  <1>5. QED
    BY <1>3, <1>4 DEF Protected

(* What an acknowledgement leaves behind, after the commit.                *)
LEMMA AckFacts ==
  ASSUME IInv, NEW k \in Protected, NEW j \in Jobs, NEW o \in Acknowledged(k, j),
         job[j].flag = "committed", Has(j, k)
  PROVE  /\ o.jr \in Journal /\ o.live \in Values /\ o.answer \in Answers \ {"none"} /\ o.cost \in {0, 1}
         /\ Settled(k, o.jr) /\ o.jr.receipt \in {journal[k].receipt, j} /\ o.jr.unit = "none"
         /\ Proven(o.answer) => o.jr.phase = "none"
         /\ o.jr.phase = "none" => o.jr.receipt = j /\ o.live = job[j].captured[k]
         /\ o.jr.phase # "none" => /\ o.jr.phase = "awaiting" /\ o.jr.owner = j
                                   /\ o.jr.restored \/ o.live = job[j].captured[k]
  <1> DEFINE jr == journal[k]
             cp == job[j].captured[k]
             cl == [jr EXCEPT !.owner = NoJob, !.phase = "none", !.prior = 0, !.restored = FALSE]
             done == [cl EXCEPT !.receipt = j]
             sealed == [jr EXCEPT !.receipt = j, !.restored = FALSE]
  <1>1. /\ jr \in Journal /\ runtime[k] \in Values /\ jr.unit = "none" /\ cp \in Values
        /\ jr.restored => jr.phase # "none"
    BY DEF IInv, TypeOK, Helper, Journals, Committed, Items, JobRow, Values
  <1>2. Mixed \in Values /\ 0 \in Values
    BY ApplyConstants DEF Values, Versions
  <1>3. /\ jr.phase = "none" => jr.receipt = j /\ runtime[k] = cp
        /\ jr.phase # "none" => /\ jr.phase = "awaiting" /\ jr.owner = j
                                /\ jr.restored \/ runtime[k] = cp
    BY DEF IInv, Helper, Committed
  <1>4. /\ cl \in Journal /\ Cleared(k) = cl
        /\ done \in Journal /\ done.phase = "none" /\ done.unit = "none" /\ done.receipt = j
        /\ done.restored = FALSE
    BY <1>1, <1>2 DEF Journal, NoJob, Cleared
  <1>5. /\ sealed \in Journal /\ sealed.phase = jr.phase /\ sealed.unit = "none"
        /\ sealed.receipt = j /\ sealed.restored = FALSE /\ sealed.owner = jr.owner
        /\ sealed.prior = jr.prior
    BY <1>1 DEF Journal
  <1>6. jr.phase # "none" => Reinstalled(k, j) = cp
    BY <1>1, <1>3 DEF Reinstalled, Journal
  <1>7. o \in IF jr.phase = "none"
              THEN {Outcome(jr, runtime[k], "ok", 0), Outcome(jr, runtime[k], "unproven", 1)}
              ELSE {Outcome(done, cp, "ok", 0), Outcome(done, cp, "unproven", 1),
                    Outcome(sealed, cp, "unproven", 1),
                    Outcome(jr, IF jr.restored THEN Mixed ELSE runtime[k], "unproven", 1)}
    <2>1. ~((k = "pair" /\ PairBusy) \/ (IF jr.phase = "none" THEN jr.receipt # j
                                         ELSE jr.owner # j \/ jr.phase # "awaiting"))
      BY <1>1, <1>3 DEF PairBusy
    <2> HIDE DEF cl
    <2>2. QED
      BY <1>4, <1>6, <2>1 DEF Acknowledged
  <1> HIDE DEF done, sealed, cl
  <1>8. CASE jr.phase = "none"
    <2>1. o.jr = jr /\ o.live = runtime[k] /\ o.answer \in {"ok", "unproven"} /\ o.cost \in {0, 1}
      BY <1>7, <1>8 DEF Outcome
    <2>2. QED
      BY <1>1, <1>3, <1>8, <2>1 DEF Settled, Answers
  <1>9. CASE jr.phase # "none" /\ o \in {Outcome(done, cp, "ok", 0), Outcome(done, cp, "unproven", 1)}
    <2>1. o.jr = done /\ o.live = cp /\ o.answer \in {"ok", "unproven"} /\ o.cost \in {0, 1}
      BY <1>9 DEF Outcome
    <2>2. QED
      BY <1>1, <1>4, <2>1 DEF Settled, Answers
  <1>10. CASE jr.phase # "none" /\ o = Outcome(sealed, cp, "unproven", 1)
    <2>1. o.jr = sealed /\ o.live = cp /\ o.answer = "unproven" /\ o.cost = 1
      BY <1>10 DEF Outcome
    <2>2. QED
      BY <1>1, <1>3, <1>5, <1>10, <2>1 DEF Settled, Answers, Proven
  <1>11. CASE /\ jr.phase # "none"
              /\ o = Outcome(jr, IF jr.restored THEN Mixed ELSE runtime[k], "unproven", 1)
    <2>1. /\ o.jr = jr /\ o.live = (IF jr.restored THEN Mixed ELSE runtime[k])
          /\ o.answer = "unproven" /\ o.cost = 1
      BY <1>11 DEF Outcome
    <2>2. QED
      BY <1>1, <1>2, <1>3, <1>11, <2>1 DEF Settled, Answers, Proven
  <1>12. QED
    BY <1>7, <1>8, <1>9, <1>10, <1>11

(* The change a helper step works on stays what it is.                     *)
LEMMA HelpRefines ==
  ASSUME IInv, NEW k \in Protected, NEW jr, NEW v, Helps(k, jr, v),
         Change(k) = "active" => (IF jr.phase = "none" THEN v ELSE jr.prior) = Saved(k)
  PROVE  \A l \in Protected : Refines(l)
  <1> SUFFICES ASSUME NEW l \in Protected PROVE Same(l)
    BY DEF Refines
  <1>1. Change(l)' = Change(l) /\ baseline' = baseline
    BY HelpFacts DEF Helps
  <1>2. CASE l = k
    <2>1. Saved(l)' = IF jr.phase = "none" THEN v ELSE jr.prior
      BY <1>2, HelpFacts DEF Saved
    <2>2. QED
      BY <1>1, <1>2, <2>1 DEF Same
  <1>3. CASE l # k
    <2>1. Saved(l)' = Saved(l)
      BY <1>3, HelpFacts DEF Saved
    <2>2. QED
      BY <1>1, <2>1 DEF Same
  <1>4. QED
    BY <1>2, <1>3

(* A recovery for a task that has not committed.                           *)
LEMMA RecoverKeeps ==
  ASSUME IInv, NEW k \in Protected, NEW j \in Jobs, NEW o \in Recovered(k, j),
         Helps(k, o.jr, o.live), \A i \in Jobs : Holds(i) => i = j,
         job[j].flag # "committed", k = "pair" => job[j].flag = "pending", X'.pc # "flag"
  PROVE  /\ Journals' /\ Accounted' /\ Committed' /\ Receipts'
         /\ o.jr.phase # "none" => o.jr.owner \in Jobs
         /\ \A l \in Protected : Refines(l)
         /\ \A l \in Protected : Busy(l)' => Busy(l)
         /\ Proven(o.answer) => ~Busy(k)'
  <1>1. /\ Settled(k, o.jr) /\ o.jr.receipt \in {journal[k].receipt, NoJob}
        /\ Proven(o.answer) => o.jr.phase = "none" /\ o.jr.unit = "none"
        /\ journal[k].phase = "none" => o.jr.phase = "none" /\ o.live = runtime[k]
        /\ journal[k].unit = "none" => o.jr.unit = "none"
        /\ journal[k].phase # "none" /\ o.jr.phase = "none" =>
              o.live = journal[k].prior \/ (k = "pair" /\ journal[k].receipt = j)
    BY RecoverFacts
  <1>2. Journals' /\ Accounted' /\ (o.jr.phase # "none" => o.jr.owner \in Jobs)
    BY <1>1, Bookkeeping
  <1>3. \A i \in Jobs : job'[i].flag # "committed"
    BY DEF Helps, Holds
  <1>4. Committed'
    BY <1>3 DEF Committed
  <1>5. Receipts'
    <2>1. journal'["pair"].receipt \in {journal["pair"].receipt, NoJob}
      BY <1>1, HelpFacts DEF Protected
    <2>2. NoJob \notin Jobs
      BY DEF NoJob, Jobs
    <2>3. journal'["pair"].receipt \in Jobs => journal'["pair"].receipt = journal["pair"].receipt
      BY <2>1, <2>2
    <2>4. QED
      BY <2>3 DEF IInv, Helper, Receipts, Helps, Has
  <1>6. (IF o.jr.phase = "none" THEN o.live ELSE o.jr.prior) = Saved(k)
    <2>1. ~(k = "pair" /\ journal[k].receipt = j)
      BY DEF IInv, Helper, Receipts
    <2>2. QED
      BY <1>1, <2>1 DEF Saved, Settled
  <1>7. \A l \in Protected : Refines(l)
    BY <1>6, HelpRefines
  <1>8. /\ \A l \in Protected : Busy(l)' => Busy(l)
        /\ Proven(o.answer) => ~Busy(k)'
    BY <1>1, HelpFacts DEF Busy
  <1>9. QED
    BY <1>2, <1>4, <1>5, <1>7, <1>8

(* An acknowledgement for a task that has.                                 *)
LEMMA AckKeeps ==
  ASSUME IInv, NEW k \in Protected, NEW j \in Jobs, NEW o \in Acknowledged(k, j),
         Helps(k, o.jr, o.live), \A i \in Jobs : Holds(i) => i = j,
         job[j].flag = "committed", Has(j, k), X'.pc # "flag"
  PROVE  /\ Journals' /\ Accounted' /\ Committed' /\ Receipts'
         /\ o.jr.phase # "none" => o.jr.owner \in Jobs
         /\ \A l \in Protected : Refines(l)
         /\ \A l \in Protected : Busy(l)' => Busy(l)
         /\ Proven(o.answer) => ~Busy(k)'
  <1>1. /\ Settled(k, o.jr) /\ o.jr.receipt \in {journal[k].receipt, j} /\ o.jr.unit = "none"
        /\ Proven(o.answer) => o.jr.phase = "none"
        /\ o.jr.phase = "none" => o.jr.receipt = j /\ o.live = job[j].captured[k]
        /\ o.jr.phase # "none" => /\ o.jr.phase = "awaiting" /\ o.jr.owner = j
                                  /\ o.jr.restored \/ o.live = job[j].captured[k]
    BY AckFacts
  <1>2. Journals' /\ Accounted' /\ (o.jr.phase # "none" => o.jr.owner \in Jobs)
    BY <1>1, Bookkeeping
  <1>3. \A l \in Protected : Has(j, l) => l = k
    BY OnePart DEF IInv
  <1>4. Committed'
    <2> SUFFICES ASSUME NEW i \in Jobs, NEW l \in Protected, job'[i].flag = "committed", Has(i, l)'
                 PROVE  /\ baseline'[l] = job'[i].captured[l] /\ journal'[l].unit = "none"
                        /\ journal'[l].phase = "none" =>
                             journal'[l].receipt = i /\ runtime'[l] = job'[i].captured[l]
                        /\ journal'[l].phase # "none" =>
                             /\ journal'[l].phase = "awaiting" /\ journal'[l].owner = i
                             /\ journal'[l].restored \/ runtime'[l] = job'[i].captured[l]
      BY DEF Committed
    <2>1. i = j
      BY DEF Helps, Holds
    <2>2. l = k
      BY <1>3, <2>1, HelpFacts
    <2>3. baseline[k] = job[j].captured[k]
      BY DEF IInv, Helper, Committed
    <2>4. job'[i].captured[l] = job[j].captured[k] /\ baseline'[l] = baseline[k]
      BY <2>1, <2>2 DEF Helps
    <2>5. journal'[l] = o.jr /\ runtime'[l] = o.live
      BY <2>2, HelpFacts
    <2>6. QED
      BY <1>1, <2>1, <2>3, <2>4, <2>5
  <1>5. Receipts'
    <2>1. journal'["pair"].receipt = journal["pair"].receipt \/
          (k = "pair" /\ journal'["pair"].receipt = j)
      BY <1>1, HelpFacts DEF Protected
    <2>2. CASE journal'["pair"].receipt = journal["pair"].receipt
      BY <2>2 DEF IInv, Helper, Receipts, Helps, Has
    <2>3. CASE k = "pair" /\ journal'["pair"].receipt = j
      <3>1. Flagged(j)
        BY DEF IInv, Rows, RowOK
      <3>2. \A n \in DOMAIN job[j].plan : job[j].plan[n] = "pair" => job[j].steps[n] # "pending"
        BY <3>1 DEF Flagged, Protected
      <3>3. QED
        BY <2>3, <3>2 DEF Receipts, Helps, Has
    <2>4. QED
      BY <2>1, <2>2, <2>3
  <1>6. Change(k) # "active"
    <2>1. Change(k) = Reading(j, k)
      BY ChangeMine DEF ReadOff, IInv, TypeOK
    <2>2. QED
      BY <2>1 DEF Reading
  <1>7. \A l \in Protected : Refines(l)
    BY <1>6, HelpRefines
  <1>8. /\ \A l \in Protected : Busy(l)' => Busy(l)
        /\ Proven(o.answer) => ~Busy(k)'
    BY <1>1, HelpFacts DEF Busy, Settled
  <1>9. QED
    BY <1>2, <1>4, <1>5, <1>7, <1>8

(* A helper call of the thread, which goes on with x.                      *)
LEMMA ThreadHelps ==
  ASSUME IInv, NEW k \in Protected, NEW jr, NEW v, Helps(k, jr, v),
         NEW x \in ExecRow, exec' = [exec EXCEPT !["web"] = x], X.pc # "idle",
         x.pc # "idle", x.job = Mine, web' = web, recovery' = recovery,
         faults' \in 0 .. MaxFaults, jr.phase # "none" => jr.owner \in Jobs,
         Journals', Accounted', Committed', Receipts',
         Place', Steps', Flags', Handoff', Known'
  PROVE  IInv'
  <1>1. /\ exec' \in [Procs -> ExecRow] /\ X' = x
        /\ \A p \in Procs \ {"web"} : exec'[p] = exec[p]
    BY ApplyConstants DEF IInv, TypeOK, X
  <1>2. TypeOK'
    <2>1. /\ journal' \in [Protected -> Journal] /\ runtime' \in [Items -> Values]
          /\ \A l \in Protected : journal'[l].phase # "none" => journal'[l].owner \in Jobs
      BY HelpFacts DEF IInv, TypeOK
    <2>2. QED
      BY <1>1, <2>1 DEF IInv, TypeOK, Helps
  <1>3. Rows'
    <2>1. Edited' /\ OneHolder'
      BY HelpFacts DEF IInv, Rows, Edited, OneHolder, Helps
    <2>2. Alone'
      BY <1>1, HelpFacts DEF IInv, Rows, Alone, Mine
    <2>3. QED
      BY <2>1, <2>2, HelpFacts DEF Rows
  <1>4. Threads'
    BY <1>1 DEF IInv, Thread, Threads, Helps, Mine, Row
  <1>5. Startups'
    <2>1. web' = "up"
      BY DEF IInv, Thread, Threads
    <2>2. \A i \in Jobs : recovery'[i] = "idle"
      BY <2>1 DEF IInv, Startups
    <2>3. QED
      BY <2>1, <2>2 DEF Startups
  <1>6. QED
    BY <1>2, <1>3, <1>4, <1>5 DEF IInv, Thread, Helper

(* A failed apply is recovered.                                            *)
LEMMA RecoverStep ==
  ASSUME IInv, NEW p \in Procs, Recover(p)
  PROVE  Good
  <1>1. E(p).pc # "idle"
    BY DEF Recover, At
  <1>2. PICK j \in Jobs : j = Mine
    BY <1>1, ThreadFacts
  <1>3. /\ p = "web" /\ E(p) = X /\ J(p) = job[j] /\ X \in ExecRow /\ X.job = j
        /\ Row = job[j] /\ job[j] \in JobRow /\ job[j].status # "new" /\ X.pc = "recover"
        /\ DOMAIN job[j].steps = DOMAIN job[j].plan /\ Part(p) = Now
        /\ Now = job[j].plan[X.at]
    BY <1>1, <1>2, ThreadFacts DEF Recover, At, Now
  <1>4. /\ job[j].status = "running" /\ X.end = "none" /\ X.answer \in Answers
        /\ job[j].flag = IF Now = "pair" THEN "pending" ELSE "clear"
        /\ X.at \in DOMAIN job[j].plan /\ Now \in Protected /\ job[j].steps[X.at] = "running"
        /\ \A n \in DOMAIN job[j].steps : /\ n < X.at => job[j].steps[n] = "succeeded"
                                          /\ n > X.at => job[j].steps[n] = "pending"
    BY <1>3 DEF IInv, Thread, Place, Steps, Flags, InPart, Either, ExecRow
  <1>5. /\ X.pending => /\ Has(j, "handoff") /\ Holds(j)
                        /\ X.committed <=> job[j].flag = "committed"
        /\ Now = "handoff" => X.pending
        /\ X.answer = "rolled back" => ~Busy(Now)
        /\ X.committed => Beyond(j)
    BY <1>2, <1>3 DEF IInv, Thread, Handoff, Helper, Known, Either
  <1>6. PICK k \in Protected : k = Now
    BY <1>4
  <1> DEFINE says(o) == IF Now = "handoff" /\ X.answer = "rolled back"
                        THEN "rolled back" ELSE o.answer
             goes(o) == [X EXCEPT !.pc = "failed", !.answer = says(o),
                                  !.pending = X.pending /\ ~Proven(says(o))]
  <1>7. PICK o \in Recovered(Part(p), E(p).job) :
          /\ Leave(Part(p), o)
          /\ exec' = [exec EXCEPT ![p].pc = "failed", ![p].answer =
                        IF Part(p) = "handoff" /\ E(p).answer = "rolled back"
                        THEN "rolled back" ELSE o.answer,
                      ![p].pending = @ /\ ~Proven(
                        IF Part(p) = "handoff" /\ E(p).answer = "rolled back"
                        THEN "rolled back" ELSE o.answer)]
    BY DEF Recover
  <1>8. /\ o \in Recovered(k, j) /\ Leave(k, o)
        /\ exec' = [exec EXCEPT !["web"].pc = "failed", !["web"].answer = says(o),
                                !["web"].pending = @ /\ ~Proven(says(o))]
    BY <1>3, <1>6, <1>7
  <1>9. /\ o.jr \in Journal /\ o.live \in Values /\ o.answer \in Answers /\ o.cost \in {0, 1}
    BY <1>8, RecoverFacts
  <1> DEFINE a == says(o)
             x == goes(o)
  <1>10. /\ x \in ExecRow /\ x.pc = "failed" /\ x.job = j /\ x.at = X.at /\ x.end = "none"
         /\ x.answer = a /\ x.committed = X.committed
         /\ x.pending <=> X.pending /\ ~Proven(a)
    <2>1. a \in Answers
      BY <1>9 DEF Answers
    <2> HIDE DEF a
    <2>2. x = [X EXCEPT !.pc = "failed", !.answer = a, !.pending = X.pending /\ ~Proven(a)]
      BY DEF a
    <2>3. (X.pending /\ ~Proven(a)) \in BOOLEAN
      OBVIOUS
    <2> HIDE DEF x
    <2>4. QED
      BY ZenonT(60), <1>3, <1>4, <2>1, <2>2, <2>3 DEF ExecRow, Pcs
  <1>11. a = o.answer \/ (a = "rolled back" /\ ~Busy(k))
    BY <1>5, <1>6
  <1>12. exec' = [exec EXCEPT !["web"] = x] /\ X' = x
    <2> HIDE DEF a, says
    <2>1. exec' = [exec EXCEPT !["web"] = x]
      BY <1>8 DEF X
    <2>2. QED
      BY <2>1, ApplyConstants DEF X, IInv, TypeOK
  <1> HIDE DEF x, a
  <1>13. Helps(k, o.jr, o.live) /\ faults' \in 0 .. MaxFaults
    BY <1>8, <1>9, SpendType DEF Helps, Leave, Recover
  <1>14. \A i \in Jobs : Holds(i) => i = j
    BY <1>1, <1>2, ThreadFacts
  <1>15. /\ Journals' /\ Accounted' /\ Committed' /\ Receipts'
         /\ o.jr.phase # "none" => o.jr.owner \in Jobs
         /\ \A l \in Protected : Refines(l)
         /\ \A l \in Protected : Busy(l)' => Busy(l)
         /\ Proven(o.answer) => ~Busy(k)'
    BY <1>4, <1>6, <1>8, <1>10, <1>12, <1>13, <1>14, RecoverKeeps
  <1>16. Mine' = j /\ Row' = job[j] /\ Now' = k
    BY <1>3, <1>6, <1>10, <1>12, <1>13 DEF Mine, Row, Now, Helps
  <1>17. Place'
    BY <1>4, <1>6, <1>10, <1>12, <1>16 DEF Place, InPart, OnPair, OnUnit, Either
  <1>18. Steps' /\ Flags'
    BY <1>4, <1>6, <1>10, <1>12, <1>16 DEF Steps, Flags, InPart, OnUnit
  <1>19. Handoff'
    <2>1. (Holds(j)' <=> Holds(j)) /\ (Has(j, "handoff")' <=> Has(j, "handoff"))
          /\ (Beyond(j)' <=> Beyond(j))
      BY <1>4, <1>13, HelpFacts DEF Protected
    <2>2. QED
      BY <1>5, <1>6, <1>10, <1>12, <1>16, <2>1
      DEF Handoff, OnPair, OnUnit, Either, Protected
  <1>20. Known'
    <2>1. Proven(a) => ~Busy(k)'
      BY <1>11, <1>15
    <2>2. QED
      BY <1>10, <1>12, <1>16, <2>1 DEF Known, Busy
  <1>21. IInv'
    <2>1. web' = web /\ recovery' = recovery
      BY DEF Recover
    <2>2. QED
      BY <2>1, <1>2, <1>3, <1>10, <1>12, <1>13, <1>15, <1>17, <1>18, <1>19, <1>20,
         ThreadHelps
  <1>22. QED
    BY <1>15, <1>21 DEF Good

(* The commit is acknowledged.                                             *)
LEMMA AcknowledgeStep ==
  ASSUME IInv, NEW p \in Procs, Acknowledge(p)
  PROVE  Good
  <1>1. E(p).pc # "idle"
    BY DEF Acknowledge, At
  <1>2. PICK j \in Jobs : j = Mine
    BY <1>1, ThreadFacts
  <1>3. /\ p = "web" /\ E(p) = X /\ J(p) = job[j] /\ X \in ExecRow /\ X.job = j
        /\ Row = job[j] /\ job[j] \in JobRow /\ job[j].status # "new" /\ X.pc = "ack"
        /\ DOMAIN job[j].steps = DOMAIN job[j].plan /\ Part(p) = Now
        /\ Now = job[j].plan[X.at]
    BY <1>1, <1>2, ThreadFacts DEF Acknowledge, At, Now
  <1>4. /\ job[j].status = "running" /\ X.end = "none" /\ job[j].flag = "committed"
        /\ X.at \in DOMAIN job[j].plan /\ Now \in Protected
        /\ job[j].steps[X.at] = IF Now = "handoff" THEN "succeeded" ELSE "running"
        /\ \A n \in DOMAIN job[j].steps : /\ n < X.at => job[j].steps[n] = "succeeded"
                                          /\ n > X.at => job[j].steps[n] = "pending"
    BY <1>3 DEF IInv, Thread, Place, Steps, Flags, InPart, Either, ExecRow
  <1>5. /\ X.pending => /\ Has(j, "handoff") /\ Holds(j)
                        /\ X.committed <=> job[j].flag = "committed"
        /\ Now = "handoff" => X.pending
        /\ X.committed => Beyond(j)
        /\ Has(j, Now)
    <2>1. Has(j, Now)
      BY <1>3, <1>4 DEF Has
    <2>2. QED
      BY <1>2, <1>3, <2>1 DEF IInv, Thread, Handoff, Either
  <1>6. PICK k \in Protected : k = Now
    BY <1>4
  <1> DEFINE goes(o) == [X EXCEPT !.pc = "settle", !.answer = o.answer,
                                  !.pending = X.pending /\ ~(Now = "handoff" /\ o.answer = "ok")]
  <1>7. PICK o \in Acknowledged(Part(p), E(p).job) :
          /\ Leave(Part(p), o)
          /\ exec' = [exec EXCEPT ![p].pc = "settle", ![p].answer = o.answer,
                      ![p].pending = @ /\ ~(Part(p) = "handoff" /\ o.answer = "ok")]
    BY DEF Acknowledge
  <1>8. /\ o \in Acknowledged(k, j) /\ Leave(k, o)
        /\ exec' = [exec EXCEPT !["web"].pc = "settle", !["web"].answer = o.answer,
                    !["web"].pending = @ /\ ~(Now = "handoff" /\ o.answer = "ok")]
    BY <1>3, <1>6, <1>7
  <1>9. /\ o.jr \in Journal /\ o.live \in Values /\ o.answer \in Answers /\ o.cost \in {0, 1}
    BY <1>4, <1>6, <1>5, <1>8, AckFacts
  <1> DEFINE x == goes(o)
  <1>10. /\ x \in ExecRow /\ x.pc = "settle" /\ x.job = j /\ x.at = X.at /\ x.end = "none"
         /\ x.answer = o.answer /\ x.committed = X.committed
         /\ x.pending <=> X.pending /\ ~(Now = "handoff" /\ o.answer = "ok")
    BY ZenonT(60), <1>3, <1>4, <1>9 DEF ExecRow, Pcs
  <1>11. exec' = [exec EXCEPT !["web"] = x] /\ X' = x
    <2>1. exec' = [exec EXCEPT !["web"] = x]
      BY <1>8 DEF X
    <2>2. QED
      BY <2>1, ApplyConstants DEF X, IInv, TypeOK
  <1> HIDE DEF x
  <1>12. Helps(k, o.jr, o.live) /\ faults' \in 0 .. MaxFaults
    BY <1>8, <1>9, SpendType DEF Helps, Leave, Acknowledge
  <1>13. \A i \in Jobs : Holds(i) => i = j
    BY <1>1, <1>2, ThreadFacts
  <1>14. /\ Journals' /\ Accounted' /\ Committed' /\ Receipts'
         /\ o.jr.phase # "none" => o.jr.owner \in Jobs
         /\ \A l \in Protected : Refines(l)
         /\ Proven(o.answer) => ~Busy(k)'
    BY <1>4, <1>6, <1>5, <1>8, <1>10, <1>11, <1>12, <1>13, AckKeeps
  <1>15. Mine' = j /\ Row' = job[j] /\ Now' = k
    BY <1>3, <1>6, <1>10, <1>11, <1>12 DEF Mine, Row, Now, Helps
  <1>16. Place'
    BY <1>4, <1>6, <1>10, <1>11, <1>15 DEF Place, InPart, OnPair, OnUnit, Either
  <1>17. Steps' /\ Flags'
    BY <1>4, <1>6, <1>10, <1>11, <1>15 DEF Steps, Flags, InPart, OnUnit
  <1>18. Handoff'
    <2>1. (Holds(j)' <=> Holds(j)) /\ (Has(j, "handoff")' <=> Has(j, "handoff"))
          /\ (Beyond(j)' <=> Beyond(j))
      BY <1>4, <1>12, HelpFacts DEF Protected
    <2>2. x.pending => Now = "handoff"
      BY <1>4, <1>5, <1>10, OnePart DEF IInv, Protected
    <2>3. QED
      BY <1>5, <1>6, <1>10, <1>11, <1>15, <2>1, <2>2
      DEF Handoff, OnPair, OnUnit, Either, Protected
  <1>19. Known'
    <2>1. o.answer = "ok" => ~Busy(k)'
      BY <1>14 DEF Proven
    <2>2. QED
      BY <1>10, <1>11, <1>15, <2>1 DEF Known, Busy
  <1>20. IInv'
    <2>1. web' = web /\ recovery' = recovery
      BY DEF Acknowledge
    <2>2. QED
      BY <2>1, <1>2, <1>3, <1>10, <1>11, <1>12, <1>14, <1>16, <1>17, <1>18, <1>19,
         ThreadHelps
  <1>21. QED
    BY <1>14, <1>20 DEF Good

(* An exception inside the pair asks the helper for the decision.          *)
LEMMA PairRaiseStep ==
  ASSUME IInv, NEW p \in Procs, PairRaise(p)
  PROVE  Good
  <1>1. E(p).pc # "idle"
    BY DEF PairRaise, At
  <1>2. PICK j \in Jobs : j = Mine
    BY <1>1, ThreadFacts
  <1>3. /\ p = "web" /\ E(p) = X /\ J(p) = job[j] /\ X \in ExecRow /\ X.job = j
        /\ Row = job[j] /\ job[j] \in JobRow /\ job[j].status # "new" /\ X.pc = "pairraise"
        /\ DOMAIN job[j].steps = DOMAIN job[j].plan /\ Part(p) = Now
        /\ Now = job[j].plan[X.at]
    BY <1>1, <1>2, ThreadFacts DEF PairRaise, At, Now
  <1>4. /\ job[j].status = "running" /\ job[j].flag # "clear" /\ ~X.pending
        /\ X.at \in DOMAIN job[j].plan /\ Now = "pair"
        /\ X.committed => Beyond(j)
    BY <1>2, <1>3 DEF IInv, Thread, Place, Flags, Handoff, OnPair
  <1>5. Has(j, "pair") /\ "pair" \in Protected
    BY <1>3, <1>4 DEF Has, Protected
  <1>6. job[j].flag # "committed" => job[j].flag = "pending"
    BY <1>3, <1>4 DEF JobRow
  <1> DEFINE goes(o) == [X EXCEPT !.pc = "paircleanup", !.answer = o.answer]
  <1>7. PICK o \in IF J(p).flag = "committed" THEN Acknowledged("pair", E(p).job)
                                               ELSE Recovered("pair", E(p).job) :
          /\ Leave("pair", o)
          /\ exec' = [exec EXCEPT ![p].pc = "paircleanup", ![p].answer = o.answer]
    BY DEF PairRaise
  <1>8. /\ o \in IF job[j].flag = "committed" THEN Acknowledged("pair", j)
                                               ELSE Recovered("pair", j)
        /\ Leave("pair", o)
        /\ exec' = [exec EXCEPT !["web"].pc = "paircleanup", !["web"].answer = o.answer]
    BY <1>3, <1>7
  <1>9. /\ o.jr \in Journal /\ o.live \in Values /\ o.answer \in Answers /\ o.cost \in {0, 1}
    BY <1>5, <1>8, AckFacts, RecoverFacts
  <1> DEFINE x == goes(o)
  <1>10. /\ x \in ExecRow /\ x.pc = "paircleanup" /\ x.job = j /\ x.at = X.at
         /\ x.answer = o.answer /\ x.committed = X.committed /\ ~x.pending
    BY <1>3, <1>4, <1>9 DEF ExecRow, Pcs
  <1>11. exec' = [exec EXCEPT !["web"] = x] /\ X' = x
    <2>1. exec' = [exec EXCEPT !["web"] = x]
      BY <1>8 DEF X
    <2>2. QED
      BY <2>1, ApplyConstants DEF X, IInv, TypeOK
  <1> HIDE DEF x
  <1>12. Helps("pair", o.jr, o.live) /\ faults' \in 0 .. MaxFaults
    BY <1>8, <1>9, SpendType DEF Helps, Leave, PairRaise
  <1>13. \A i \in Jobs : Holds(i) => i = j
    BY <1>1, <1>2, ThreadFacts
  <1>14. /\ Journals' /\ Accounted' /\ Committed' /\ Receipts'
         /\ o.jr.phase # "none" => o.jr.owner \in Jobs
         /\ \A l \in Protected : Refines(l)
         /\ Proven(o.answer) => ~Busy("pair")'
    <2>1. CASE job[j].flag = "committed"
      BY <1>5, <1>8, <1>10, <1>11, <1>12, <1>13, <2>1, AckKeeps
    <2>2. CASE job[j].flag # "committed"
      BY <1>5, <1>6, <1>8, <1>10, <1>11, <1>12, <1>13, <2>2, RecoverKeeps
    <2>3. QED
      BY <2>1, <2>2
  <1>15. Mine' = j /\ Row' = job[j] /\ Now' = Now
    BY <1>3, <1>10, <1>11, <1>12 DEF Mine, Row, Now, Helps
  <1>16. Place' /\ Steps' /\ Flags'
    BY <1>4, <1>10, <1>11, <1>15 DEF Place, Steps, Flags, InPart, OnPair, OnUnit, Either
  <1>17. Handoff'
    <2>1. Beyond(j)' <=> Beyond(j)
      BY <1>5, <1>12, HelpFacts
    <2>2. QED
      BY <1>4, <1>10, <1>11, <1>15, <2>1 DEF Handoff, OnPair, OnUnit, Either
  <1>18. Known'
    BY <1>10, <1>11, <1>14 DEF Known, Busy
  <1>19. IInv'
    <2>1. web' = web /\ recovery' = recovery
      BY DEF PairRaise
    <2>2. QED
      BY <2>1, <1>2, <1>3, <1>5, <1>10, <1>11, <1>12, <1>14, <1>16, <1>17, <1>18,
         ThreadHelps
  <1>20. QED
    BY <1>14, <1>19 DEF Good

(* The handler of an exception reconciles a handoff first.                 *)
LEMMA ReconcileStep ==
  ASSUME IInv, NEW p \in Procs, Reconcile(p)
  PROVE  Good
  <1>1. E(p).pc # "idle"
    BY DEF Reconcile, At
  <1>2. PICK j \in Jobs : j = Mine
    BY <1>1, ThreadFacts
  <1>3. /\ p = "web" /\ E(p) = X /\ J(p) = job[j] /\ X \in ExecRow /\ X.job = j
        /\ Row = job[j] /\ job[j] \in JobRow /\ job[j].status # "new" /\ X.pc = "raise"
        /\ DOMAIN job[j].steps = DOMAIN job[j].plan /\ Part(p) = Now
        /\ Now = job[j].plan[X.at]
    BY <1>1, <1>2, ThreadFacts DEF Reconcile, At, Now
  <1>4. /\ X.pending => /\ Has(j, "handoff") /\ Holds(j)
                        /\ X.committed <=> job[j].flag = "committed"
        /\ X.committed => Beyond(j)
        /\ ~X.pending /\ job[j].flag = "clear" => ~Busy("handoff")
        /\ "handoff" \in Protected /\ job[j].status # "pending"
    BY <1>2, <1>3 DEF IInv, Thread, Place, Handoff, Helper, Known, Protected
  <1>5. CASE X.pending
    <2> DEFINE goes(o) == [X EXCEPT !.pc = "handle", !.answer = o.answer]
    <2>1. PICK o \in IF X.committed THEN Acknowledged("handoff", j) ELSE Recovered("handoff", j) :
             /\ Leave("handoff", o)
             /\ exec' = [exec EXCEPT !["web"].pc = "handle", !["web"].answer = o.answer]
      BY <1>3, <1>5 DEF Reconcile
    <2>2. /\ o.jr \in Journal /\ o.live \in Values /\ o.answer \in Answers /\ o.cost \in {0, 1}
      BY <1>4, <1>5, <2>1, AckFacts, RecoverFacts
    <2> DEFINE x == goes(o)
    <2>3. /\ x \in ExecRow /\ x.pc = "handle" /\ x.job = j
          /\ x.answer = o.answer /\ x.committed = X.committed /\ x.pending = X.pending
      BY <1>3, <2>2 DEF ExecRow, Pcs
    <2>4. exec' = [exec EXCEPT !["web"] = x] /\ X' = x
      <3>1. exec' = [exec EXCEPT !["web"] = x]
        BY <2>1 DEF X
      <3>2. QED
        BY <3>1, ApplyConstants DEF X, IInv, TypeOK
    <2> HIDE DEF x
    <2>5. Helps("handoff", o.jr, o.live) /\ faults' \in 0 .. MaxFaults
      BY <2>1, <2>2, SpendType DEF Helps, Leave, Reconcile
    <2>6. \A i \in Jobs : Holds(i) => i = j
      BY <1>1, <1>2, ThreadFacts
    <2>7. /\ Journals' /\ Accounted' /\ Committed' /\ Receipts'
          /\ o.jr.phase # "none" => o.jr.owner \in Jobs
          /\ \A l \in Protected : Refines(l)
          /\ Proven(o.answer) => ~Busy("handoff")'
      <3>1. CASE X.committed
        BY <1>4, <1>5, <2>1, <2>3, <2>4, <2>5, <2>6, <3>1, AckKeeps
      <3>2. CASE ~X.committed
        BY <1>4, <1>5, <2>1, <2>3, <2>4, <2>5, <2>6, <3>2, RecoverKeeps
      <3>3. QED
        BY <3>1, <3>2
    <2>8. Mine' = j /\ Row' = job[j]
      BY <1>3, <2>3, <2>4, <2>5 DEF Mine, Row, Helps
    <2>9. Place' /\ Steps' /\ Flags'
      BY <1>4, <2>3, <2>4, <2>8 DEF Place, Steps, Flags, InPart, OnPair, OnUnit, Either
    <2>10. Handoff'
      <3>1. (Holds(j)' <=> Holds(j)) /\ (Has(j, "handoff")' <=> Has(j, "handoff"))
            /\ (Beyond(j)' <=> Beyond(j))
        BY <1>4, <2>5, HelpFacts
      <3>2. QED
        BY <1>4, <1>5, <2>3, <2>4, <2>8, <3>1 DEF Handoff, OnPair, OnUnit, Either
    <2>11. Known'
      BY <1>5, <2>3, <2>4, <2>7 DEF Known, Busy
    <2>12. IInv'
      <3>1. web' = web /\ recovery' = recovery
        BY DEF Reconcile
      <3>2. QED
        BY <3>1, <1>2, <1>3, <1>4, <2>3, <2>4, <2>5, <2>7, <2>9, <2>10, <2>11,
           ThreadHelps
    <2>13. QED
      BY <2>7, <2>12 DEF Good
  <1>6. CASE ~X.pending
    <2> DEFINE x == [X EXCEPT !.pc = "handle", !.answer = "none"]
    <2>1. Writes(j, job[j], x)
      <3>1. job' = [job EXCEPT ![j] = job[j]] /\ exec' = [exec EXCEPT !["web"] = x]
        BY <1>3, <1>6 DEF Reconcile, IInv, TypeOK, E, X
      <3>2. x \in ExecRow /\ x.pc # "idle" /\ x.job = j
        BY <1>3 DEF ExecRow, Pcs, Answers
      <3>3. UNCHANGED <<journal, runtime, faults>>
        BY <1>3, <1>6 DEF Reconcile
      <3>4. QED
        BY <1>2, <1>3, <3>1, <3>2, <3>3 DEF Writes, Sets, Reconcile, IInv, TypeOK
    <2>2. /\ x.pc = "handle" /\ x.job = j /\ ~x.pending /\ x.committed = X.committed
      BY <1>3, <1>6 DEF ExecRow
    <2> HIDE DEF x
    <2>3. /\ Turns(j) /\ Still /\ TypeOK' /\ job'[j] = job[j] /\ X' = x
          /\ \A k \in Protected : (Busy(k)' <=> Busy(k))
      BY <2>1, RowMove
    <2>4. /\ Keeps(j) /\ Untouched(j)' /\ Flagged(j)' /\ Verdict(j)'
          /\ X.committed => Beyond(j)'
      BY <2>2, <2>3, SameRow
    <2>5. Mine' = j /\ Row' = job[j]
      BY <1>3, <2>2, <2>3 DEF Mine, Row
    <2>6. Place' /\ Steps' /\ Flags'
      BY <1>4, <2>2, <2>3, <2>5 DEF Place, Steps, Flags, InPart, OnPair, OnUnit, Either
    <2>7. Handoff'
      BY <2>2, <2>3, <2>4, <2>5 DEF Handoff, OnPair, OnUnit, Either
    <2>8. Known'
      BY <1>4, <1>6, <2>2, <2>3, <2>5 DEF Known
    <2>9. QED
      BY <2>3, <2>4, <2>6, <2>7, <2>8, RowStep
  <1>7. QED
    BY <1>5, <1>6

(* Validation starts the apply unit, or fails.                             *)
LEMMA ValidateStep ==
  ASSUME IInv, NEW p \in Procs, Validate(p)
  PROVE  Good
  <1>1. E(p).pc # "idle"
    BY DEF Validate, At
  <1>2. PICK j \in Jobs : j = Mine
    BY <1>1, ThreadFacts
  <1>3. /\ p = "web" /\ E(p) = X /\ J(p) = job[j] /\ X \in ExecRow /\ X.job = j
        /\ Row = job[j] /\ job[j] \in JobRow /\ job[j].status # "new" /\ X.pc = "validate"
        /\ DOMAIN job[j].steps = DOMAIN job[j].plan /\ Part(p) = Now
        /\ Now = job[j].plan[X.at]
    BY <1>1, <1>2, ThreadFacts DEF Validate, At, Now
  <1>4. /\ job[j].status = "running" /\ X.end = "none"
        /\ job[j].flag = IF Now = "pair" THEN "pending" ELSE "clear"
        /\ X.at \in DOMAIN job[j].plan /\ Now \in Protected /\ job[j].steps[X.at] = "running"
        /\ \A n \in DOMAIN job[j].steps : /\ n < X.at => job[j].steps[n] = "succeeded"
                                          /\ n > X.at => job[j].steps[n] = "pending"
    BY <1>3 DEF IInv, Thread, Place, Steps, Flags, InPart, Either
  <1>5. /\ X.pending => /\ Has(j, "handoff") /\ Holds(j)
                        /\ X.committed <=> job[j].flag = "committed"
        /\ Now = "handoff" => X.pending
        /\ X.committed => Beyond(j)
        /\ ~Busy(Now)
    BY <1>2, <1>3 DEF IInv, Thread, Handoff, Helper, Known, Either
  <1>6. PICK k \in Protected : k = Now
    BY <1>4
  <1>7. \A i \in Jobs : Holds(i) => i = j
    BY <1>1, <1>2, ThreadFacts
  <1>8. CASE /\ journal[Part(p)].unit = "none" /\ UNCHANGED faults /\ Goto(p, "wait")
             /\ journal' = [journal EXCEPT ![Part(p)] =
                   [@ EXCEPT !.unit = "started", !.by = E(p).job, !.result = "none"]]
    <2> DEFINE jr == [journal[k] EXCEPT !.unit = "started", !.by = j, !.result = "none"]
               x  == [X EXCEPT !.pc = "wait"]
    <2>1. /\ journal[k] \in Journal /\ runtime[k] \in Values /\ journal[k].phase = "none"
          /\ ~journal[k].restored
      BY <1>5, <1>6, JournalUpdates DEF Busy
    <2>2. /\ jr \in Journal /\ jr.unit = "started" /\ jr.by = j /\ jr.result = "none"
          /\ jr.phase = "none" /\ ~jr.restored /\ jr.receipt = journal[k].receipt
      BY <2>1 DEF Journal
    <2>3. /\ journal' = [journal EXCEPT ![k] = jr] /\ exec' = [exec EXCEPT !["web"] = x]
      BY <1>3, <1>6, <1>8 DEF Goto, E, X
    <2>4. /\ x \in ExecRow /\ x.pc = "wait" /\ x.job = j /\ x.at = X.at /\ x.end = "none"
          /\ x.committed = X.committed /\ x.pending = X.pending
      BY <1>3, <1>4 DEF ExecRow, Pcs
    <2> HIDE DEF jr, x
    <2>5. X' = x
      BY <2>3, ApplyConstants DEF X, IInv, TypeOK
    <2>6. Helps(k, jr, runtime[k])
      <3>1. runtime' = [runtime EXCEPT ![k] = runtime[k]]
        BY DEF Validate, IInv, TypeOK
      <3>2. QED
        BY <2>1, <2>2, <2>3, <3>1 DEF Helps, Validate
    <2>7. Accounts(j, k)
      <3>1. Has(j, k)
        BY <1>3, <1>4, <1>6 DEF Has
      <3>2. k = "handoff" => InHandoff(j)
        BY ZenonT(60), <1>3, <1>4, <1>6 DEF InHandoff
      <3>3. QED
        BY <1>4, <1>6, <3>1, <3>2 DEF Accounts, Protected
    <2>8. Journals'
      <3>1. Journals /\ journal'[k] = jr /\ \A l \in Protected : l # k => journal'[l] = journal[l]
        BY <2>6, HelpFacts DEF IInv, Helper
      <3>2. QED
        BY <2>2, <3>1 DEF Journals
    <2>9. Accounted'
      <3>1. ASSUME NEW l \in Protected
            PROVE  /\ journal'[l].phase # "none" => Accounts(journal[l].owner, l)'
                   /\ journal'[l].unit # "none" => Accounts(journal[l].by, l)'
        <4>1. CASE l = k
          <5>1. journal'[l] = jr /\ Accounts(j, k)'
            BY <2>6, <2>7, <4>1, HelpFacts
          <5>2. QED
            BY <2>2, <4>1, <5>1
        <4>2. CASE l # k
          <5>1. journal'[l] = journal[l]
            BY <2>6, <4>2, HelpFacts
          <5>2. /\ journal[l].phase # "none" => journal[l].owner \in Jobs /\ Accounts(journal[l].owner, l)
                /\ journal[l].unit # "none" => journal[l].by \in Jobs /\ Accounts(journal[l].by, l)
            BY DEF IInv, TypeOK, Helper, Journals, Accounted
          <5>3. QED
            BY <2>6, <5>1, <5>2, HelpFacts
        <4>3. QED
          BY <4>1, <4>2
      <3>2. QED
        BY <3>1 DEF Accounted
    <2>10. Committed'
      <3>1. \A i \in Jobs : job'[i].flag # "committed"
        BY <1>4, <1>7, <2>6 DEF Helps, Holds
      <3>2. QED
        BY <3>1 DEF Committed
    <2>11. Receipts'
      <3>1. journal'["pair"].receipt = journal["pair"].receipt
        BY <2>2, <2>6, HelpFacts DEF Protected
      <3>2. QED
        BY <2>4, <2>5, <2>6, <3>1 DEF IInv, Helper, Receipts, Helps, Has
    <2>12. \A l \in Protected : Refines(l)
      BY <2>1, <2>2, <2>6, HelpRefines DEF Saved
    <2>13. Mine' = j /\ Row' = job[j] /\ Now' = k
      BY <1>3, <1>6, <2>4, <2>5, <2>6 DEF Mine, Row, Now, Helps
    <2>14. Place'
      BY <1>4, <1>6, <2>4, <2>5, <2>13 DEF Place, InPart, OnPair, OnUnit, Either
    <2>15. Steps' /\ Flags'
      BY <1>4, <1>6, <2>4, <2>5, <2>13 DEF Steps, Flags, InPart, OnUnit
    <2>16. Handoff'
      <3>1. /\ Holds(j)' <=> Holds(j)
            /\ Has(j, "handoff")' <=> Has(j, "handoff")
            /\ Beyond(j)' <=> Beyond(j)
        BY <2>6, HelpFacts DEF Protected
      <3>2. QED
        BY <1>5, <1>6, <2>4, <2>5, <2>13, <3>1 DEF Handoff, OnPair, OnUnit, Either
    <2>17. Known'
      <3>1. journal'[k] = jr
        BY <2>6, HelpFacts
      <3>2. QED
        BY <2>2, <2>4, <2>5, <2>13, <3>1 DEF Known
    <2>18. IInv'
      <3>1. web' = web /\ recovery' = recovery /\ faults' \in 0 .. MaxFaults
        BY <1>8 DEF Validate, IInv, TypeOK
      <3>2. QED
        BY <1>2, <1>3, <2>2, <2>3, <2>4, <2>6, <2>8, <2>9, <2>10, <2>11, <2>14, <2>15,
           <2>16,
           <2>17, <3>1, ThreadHelps
    <2>19. QED
      BY <2>12, <2>18 DEF Good
  <1>9. CASE /\ Spend(1) /\ UNCHANGED journal
             /\ exec' = [exec EXCEPT ![p] = IF Part(p) = "pair"
                   THEN [@ EXCEPT !.pc = "recover"]
                   ELSE [@ EXCEPT !.pc = "failed", !.answer = "nothing", !.pending = FALSE]]
    <2> DEFINE x == IF Now = "pair" THEN [X EXCEPT !.pc = "recover"]
                    ELSE [X EXCEPT !.pc = "failed", !.answer = "nothing", !.pending = FALSE]
    <2>1. Writes(j, job[j], x)
      <3>1. job' = [job EXCEPT ![j] = job[j]] /\ exec' = [exec EXCEPT !["web"] = x]
        BY <1>3, <1>9 DEF Validate, IInv, TypeOK, X
      <3>2. x \in ExecRow /\ x.pc # "idle" /\ x.job = j
        BY ZenonT(60), <1>3 DEF ExecRow, Pcs, Answers
      <3>3. faults' \in 0 .. MaxFaults
        BY <1>9, SpendType
      <3>4. QED
        BY <1>2, <1>3, <1>9, <3>1, <3>2, <3>3 DEF Writes, Sets, Validate, IInv, TypeOK
    <2>2. /\ x.pc = (IF k = "pair" THEN "recover" ELSE "failed") /\ x.job = j /\ x.at = X.at
          /\ x.end = "none" /\ x.committed = X.committed
          /\ k # "pair" => x.answer = "nothing" /\ ~x.pending
          /\ k = "pair" => x.pending = X.pending
      BY <1>3, <1>4, <1>6 DEF ExecRow
    <2> HIDE DEF x
    <2>3. /\ Turns(j) /\ Still /\ TypeOK' /\ job'[j] = job[j] /\ X' = x
          /\ \A l \in Protected : (Busy(l)' <=> Busy(l)) /\ (Has(j, l)' <=> Has(j, l))
      BY <2>1, RowMove
    <2>4. /\ Keeps(j) /\ Untouched(j)' /\ Flagged(j)' /\ Verdict(j)'
          /\ X.committed => Beyond(j)'
      BY <2>2, <2>3, SameRow
    <2>5. Mine' = j /\ Row' = job[j] /\ Now' = k
      BY <1>3, <1>6, <2>2, <2>3 DEF Mine, Row, Now
    <2>6. Place'
      BY <1>4, <1>6, <2>2, <2>3, <2>5 DEF Place, InPart, OnPair, OnUnit, Either
    <2>7. Steps' /\ Flags'
      BY <1>4, <1>6, <2>2, <2>3, <2>5 DEF Steps, Flags, InPart, OnUnit
    <2>8. Handoff'
      <3>1. (Holds(j)' <=> Holds(j)) /\ (Has(j, "handoff")' <=> Has(j, "handoff"))
        BY <2>3 DEF Holds, Active, Protected
      <3>2. Proven("nothing")
        BY DEF Proven
      <3>3. QED
        BY <1>5, <1>6, <2>2, <2>3, <2>4, <2>5, <3>1, <3>2
        DEF Handoff, OnPair, OnUnit, Either
    <2>9. Known'
      <3>1. ~Busy(k)'
        BY <1>5, <1>6, <2>3
      <3>2. QED
        BY <2>2, <2>3, <2>5, <3>1 DEF Known, Busy
    <2>10. QED
      BY <2>3, <2>4, <2>6, <2>7, <2>8, <2>9, RowStep
  <1>10. QED
    BY <1>8, <1>9 DEF Validate

-----------------------------------------------------------------------------
(* The helper's units, beside the thread or the startup.                   *)

(* What a unit makes of its journal and of what runs.                      *)
Works(k, jr, v) ==
    /\ journal[k].unit # "none" /\ jr.restored = FALSE
    /\ jr.receipt \in {journal[k].receipt, NoJob}
    /\ jr.phase # "none" => jr.owner = journal[k].by
    /\ jr.unit # "none" => jr.unit = "changing" /\ jr.phase = "open" /\ jr.by = journal[k].by
    /\ (IF jr.phase = "none" THEN v ELSE jr.prior) = Saved(k)
    /\ X.pc = "wait" /\ Now = k =>
          /\ jr.unit # "none" => jr.result = "none"
          /\ jr.result = "ok" => Ready(k)'
          /\ jr.result = "rolled back" => jr.phase = "none" /\ jr.unit = "none"

(* A step of an apply unit that works as stated is good.                   *)
LEMMA UnitHelps ==
  ASSUME IInv, NEW k \in Protected, NEW jr, NEW v, Helps(k, jr, v), Works(k, jr, v),
         UNCHANGED <<exec, web, recovery>>, faults' \in 0 .. MaxFaults
  PROVE  Good
  <1>1. /\ journal'[k] = jr /\ runtime'[k] = v
        /\ \A l \in Protected : l # k => journal'[l] = journal[l] /\ runtime'[l] = runtime[l]
        /\ journal' \in [Protected -> Journal] /\ runtime' \in [Items -> Values]
    BY HelpFacts
  <1>2. /\ journal[k].by \in Jobs /\ Accounts(journal[k].by, k)
        /\ Journals /\ Accounted /\ Committed /\ Receipts /\ Known /\ TypeOK
    BY DEF IInv, Helper, Journals, Accounted, Works
  <1>3. job' = job /\ baseline' = baseline /\ desired' = desired
    BY DEF Helps
  <1>4. Journals'
    BY ZenonT(60), <1>1, <1>2 DEF Journals, Works
  <1>5. Accounted'
    <2>1. ASSUME NEW l \in Protected
          PROVE  /\ journal'[l].phase # "none" => Accounts(journal[l].owner, l)'
                 /\ journal'[l].unit # "none" => Accounts(journal[l].by, l)'
      <3>1. CASE l = k
        <4>1. \A i \in Jobs : Accounts(i, k) => Accounts(i, k)'
          BY HelpFacts
        <4>2. QED
          BY <1>1, <1>2, <3>1, <4>1 DEF Accounts, Works
      <3>2. CASE l # k
        <4>1. journal'[l] = journal[l]
          BY <1>1, <3>2
        <4>2. /\ journal[l].phase # "none" => journal[l].owner \in Jobs /\ Accounts(journal[l].owner, l)
              /\ journal[l].unit # "none" => journal[l].by \in Jobs /\ Accounts(journal[l].by, l)
          BY <1>2 DEF TypeOK, Journals, Accounted
        <4>3. QED
          BY <4>1, <4>2, HelpFacts
      <3>3. QED
        BY <3>1, <3>2
    <2>2. QED
      BY <2>1 DEF Accounted
  <1>6. Committed'
    <2> SUFFICES ASSUME NEW i \in Jobs, NEW l \in Protected, job'[i].flag = "committed", Has(i, l)'
                 PROVE  /\ baseline'[l] = job'[i].captured[l] /\ journal'[l].unit = "none"
                        /\ journal'[l].phase = "none" =>
                             journal'[l].receipt = i /\ runtime'[l] = job'[i].captured[l]
                        /\ journal'[l].phase # "none" =>
                             /\ journal'[l].phase = "awaiting" /\ journal'[l].owner = i
                             /\ journal'[l].restored \/ runtime'[l] = job'[i].captured[l]
      BY DEF Committed
    <2>1. job[i].flag = "committed" /\ Has(i, l)
      BY <1>3 DEF Has
    <2>2. l # k
      BY <1>2, <2>1 DEF Committed, Works
    <2>3. journal'[l] = journal[l] /\ runtime'[l] = runtime[l]
      BY <1>1, <2>2
    <2>4. QED
      BY <1>2, <1>3, <2>1, <2>3 DEF Committed
  <1>7. Receipts'
    <2>1. journal'["pair"].receipt \in {journal["pair"].receipt, NoJob}
      BY <1>1 DEF Protected, Works
    <2>2. NoJob \notin Jobs
      BY DEF NoJob, Jobs
    <2>3. journal'["pair"].receipt \in Jobs => journal'["pair"].receipt = journal["pair"].receipt
      BY <2>1, <2>2
    <2>4. QED
      BY <1>2, <1>3, <2>3 DEF Receipts, Has, X, Mine
  <1>8. /\ X' = X /\ Mine' = Mine /\ Row' = Row /\ Now' = Now
    BY <1>3 DEF X, Mine, Row, Now
  <1>9. \A l \in Protected : ~Busy(l) => ~Busy(l)'
    BY <1>1 DEF Busy, Works
  <1>10. \A l \in Protected : Ready(l) => Ready(l)'
    BY <1>1, <1>8 DEF Ready, Works
  <1>11. Known'
    <2>1. X.pc \in Either => Now \in Protected
      BY DEF IInv, Thread, Place
    <2>2. X.pc = "wait" => /\ journal'[Now].unit # "none" => journal'[Now].result = "none"
                           /\ journal'[Now].result = "ok" => Ready(Now)'
                           /\ journal'[Now].result = "rolled back" => ~Busy(Now)'
      <3>1. CASE X.pc = "wait" /\ Now = k
        BY <1>1, <1>8, <3>1 DEF Busy, Works
      <3>2. CASE X.pc = "wait" /\ Now # k
        <4>1. PICK l \in Protected : l = Now
          BY <2>1, <3>2 DEF Either
        <4>2. journal'[l] = journal[l] /\ (Ready(l) => Ready(l)') /\ (~Busy(l) => ~Busy(l)')
          BY <1>1, <1>9, <1>10, <3>2, <4>1
        <4>3. QED
          BY <1>2, <1>8, <3>2, <4>1, <4>2 DEF Known
      <3>3. QED
        BY <3>1, <3>2
    <2>3. X.pc = "settle" /\ X.answer = "ok" => journal'[Now].phase = "none"
      <3> SUFFICES ASSUME X.pc = "settle", X.answer = "ok" PROVE journal'[Now].phase = "none"
        OBVIOUS
      <3>1. PICK l \in Protected : l = Now
        BY <2>1 DEF Either
      <3>2. Mine \in Jobs /\ Row.flag = "committed" /\ Has(Mine, l)
        BY <3>1 DEF IInv, Thread, Threads, Place, Flags, InPart, Has, Now, Row
      <3>3. l # k
        BY <1>2, <3>2 DEF Committed, Row, Works
      <3>4. QED
        BY <1>1, <1>2, <3>1, <3>3 DEF Known
    <2>4. /\ X.pc = "validate" => ~Busy(Now)'
          /\ X.pc = "commit" => Ready(Now)'
          /\ X.pc = "recover" /\ X.answer = "rolled back" => ~Busy(Now)'
          /\ X.pc = "failed" /\ Proven(X.answer) => ~Busy(Now)'
      BY <1>2, <1>8, <1>9, <1>10, <2>1 DEF Known, Either
    <2>5. /\ X.pc = "paircleanup" /\ Proven(X.answer) => ~Busy("pair")'
          /\ X.pc \in {"raise", "handle"} /\ ~X.pending /\ Row.flag = "clear" => ~Busy("handoff")'
          /\ X.pc = "handle" /\ X.pending /\ Proven(X.answer) => ~Busy("handoff")'
      BY <1>2, <1>9 DEF Known, Protected
    <2>6. QED
      BY <1>8, <2>2, <2>3, <2>4, <2>5 DEF Known
  <1>12. Startups'
    <2>1. Startups
      BY DEF IInv
    <2>2. QED
      BY <1>3, <1>9, <2>1 DEF Startups, Holds, Active, Has
  <1>13. TypeOK'
    <2>1. jr.phase # "none" => jr.owner \in Jobs
      BY <1>2 DEF Works
    <2>2. \A l \in Protected : journal'[l].phase # "none" => journal'[l].owner \in Jobs
      BY <1>1, <1>2, <2>1 DEF TypeOK
    <2>3. QED
      BY <1>1, <1>2, <1>3, <2>2 DEF TypeOK
  <1>14. Rows'
    <2>1. Edited' /\ OneHolder' /\ Alone'
      BY <1>3, <1>8, HelpFacts DEF IInv, Rows, Edited, OneHolder, Alone
    <2>2. QED
      BY <2>1, HelpFacts DEF Rows
  <1>15. Thread'
    BY <1>3, <1>8
    DEF IInv, Thread, Threads, Place, Steps, Flags, Handoff, AllSucceeded, LeftOut, Trails,
                      NoneOpen, Has, Holds, Active, Beyond
  <1>16. IInv'
    BY <1>4, <1>5, <1>6, <1>7, <1>11, <1>12, <1>13, <1>14, <1>15 DEF IInv, Helper
  <1>17. QED
    BY <1>16, HelpRefines DEF Good, Works

(* The unit of an apply takes its snapshot, or is refused.                 *)
LEMMA RejectedFacts ==
  ASSUME IInv, NEW k \in Protected, journal[k].unit = "started",
         journal' = [journal EXCEPT ![k] = Rejected(k)],
         UNCHANGED <<desired, baseline, runtime, job, exec, web, recovery>>,
         faults' \in 0 .. MaxFaults
  PROVE  Good
  <1> DEFINE jr == Rejected(k)
             un == Undone(k)
  <1>1. journal[k].phase = "none"
    BY DEF IInv, Helper, Journals
  <1>2. jr = Quiet(k, un)
    BY <1>1 DEF Rejected
  <1>3. /\ un \in Journal /\ un.phase = "none" /\ un.restored = FALSE
        /\ un.receipt \in {journal[k].receipt, NoJob}
    BY JournalUpdates
  <1> HIDE DEF un
  <1>4. /\ Quiet(k, un) \in Journal /\ Quiet(k, un).unit = "none"
        /\ Quiet(k, un).phase = "none" /\ Quiet(k, un).restored = FALSE
        /\ Quiet(k, un).receipt \in {journal[k].receipt, NoJob}
        /\ Quiet(k, un).result = "failed"
    BY <1>3, JournalUpdates
  <1> HIDE DEF jr
  <1>5. /\ jr \in Journal /\ jr.unit = "none" /\ jr.phase = "none" /\ jr.restored = FALSE
        /\ jr.receipt \in {journal[k].receipt, NoJob} /\ jr.result = "failed"
    BY <1>2, <1>4
  <1>6. Helps(k, jr, runtime[k])
    <2>1. runtime' = [runtime EXCEPT ![k] = runtime[k]] /\ runtime[k] \in Values
      BY JournalUpdates DEF IInv, TypeOK
    <2>2. QED
      BY <1>5, <2>1 DEF Helps, jr
  <1>7. Works(k, jr, runtime[k])
    BY <1>1, <1>5 DEF Works, Saved
  <1>8. QED
    BY <1>6, <1>7, UnitHelps

(* The unit refuses, or opens its journal and begins to change the host.   *)
LEMMA UnitBeginStep ==
  ASSUME IInv, NEW k \in Protected, UnitBegin(k)
  PROVE  Good
  <1>1. /\ journal[k].unit = "started" /\ faults' \in 0 .. MaxFaults
        /\ UNCHANGED <<desired, baseline, job, exec, web, recovery>>
    BY DEF UnitBegin, IInv, TypeOK
  <1>2. CASE Refused(k)
    BY <1>1, <1>2, RejectedFacts DEF UnitBegin
  <1>3. CASE ~Refused(k)
    <2> DEFINE jr == [journal[k] EXCEPT !.owner = journal[k].by, !.phase = "open",
                                        !.prior = runtime[k], !.unit = "changing",
                                        !.receipt = IF k = "handoff" THEN NoJob ELSE @]
    <2>1. /\ journal[k] \in Journal /\ runtime[k] \in Values /\ Mixed \in Values
          /\ journal[k].phase = "none" /\ journal[k].restored = FALSE /\ journal[k].by \in Jobs
      <3>1. journal[k].phase = "none" /\ journal[k].by \in Jobs
        BY <1>1 DEF IInv, Helper, Journals
      <3>2. /\ journal[k] \in Journal /\ runtime[k] \in Values /\ Mixed \in Values
            /\ journal[k].restored => journal[k].phase # "none"
        BY JournalUpdates
      <3>3. QED
        BY <3>1, <3>2 DEF Journal
    <2>2. /\ jr \in Journal /\ jr.unit = "changing" /\ jr.phase = "open"
          /\ jr.owner = journal[k].by /\ jr.by = journal[k].by /\ jr.restored = FALSE
          /\ jr.prior = runtime[k] /\ jr.result = journal[k].result
          /\ jr.receipt \in {journal[k].receipt, NoJob}
      BY <2>1 DEF Journal, NoJob
    <2>3. journal' = [journal EXCEPT ![k] = jr] /\ runtime' = [runtime EXCEPT ![k] = Mixed]
      BY <1>3 DEF UnitBegin
    <2> HIDE DEF jr
    <2>4. Helps(k, jr, Mixed)
      BY <1>1, <2>1, <2>2, <2>3 DEF Helps
    <2>5. X.pc = "wait" /\ Now = k => journal[k].result = "none"
      BY <1>1 DEF IInv, Helper, Known
    <2>6. Works(k, jr, Mixed)
      BY <1>1, <2>1, <2>2, <2>5 DEF Works, Saved
    <2>7. QED
      BY <1>1, <2>4, <2>6, UnitHelps
  <1>4. QED
    BY <1>2, <1>3

(* The unit has changed the host and awaits the record.                    *)
LEMMA UnitDoneStep ==
  ASSUME IInv, NEW k \in Protected, UnitDone(k)
  PROVE  Good
  <1> DEFINE jr == [journal[k] EXCEPT !.phase = "awaiting", !.unit = "none", !.by = NoJob,
                                      !.result = "ok"]
             b == journal[k].by
             v == job[b].captured[k]
  <1>1. /\ journal[k].unit = "changing" /\ faults' \in 0 .. MaxFaults
        /\ UNCHANGED <<desired, baseline, job, exec, web, recovery>>
        /\ journal' = [journal EXCEPT ![k] = jr] /\ runtime' = [runtime EXCEPT ![k] = v]
    BY DEF UnitDone, IInv, TypeOK
  <1>2. /\ journal[k].phase = "open" /\ journal[k].owner = b /\ b \in Jobs
        /\ ~journal[k].restored /\ Accounts(b, k)
    BY <1>1 DEF IInv, Helper, Journals, Accounted
  <1>3. journal[k] \in Journal
    BY JournalUpdates
  <1>4. /\ jr \in Journal /\ jr.unit = "none" /\ jr.phase = "awaiting"
        /\ jr.owner = b /\ jr.restored = FALSE
        /\ jr.prior = journal[k].prior /\ jr.receipt = journal[k].receipt
    BY <1>2, <1>3 DEF Journal, NoJob
  <1>5. v \in Values
    BY <1>2 DEF IInv, TypeOK, JobRow, Items, Values
  <1> HIDE DEF jr, v
  <1>6. Helps(k, jr, v)
    BY <1>1, <1>4, <1>5 DEF Helps
  <1>7. X.pc = "wait" => Ready(k)'
    <2> SUFFICES ASSUME X.pc = "wait" PROVE Ready(k)'
      OBVIOUS
    <2>1. b = Mine
      BY <1>2, AccountsHolds DEF IInv, Rows, Alone
    <2>2. Mine' = b /\ Row'.captured[k] = v
      BY <1>1, <2>1 DEF Mine, Row, X, v
    <2>3. journal'[k] = jr /\ runtime'[k] = v
      BY <1>6, HelpFacts
    <2>4. QED
      BY <1>4, <2>2, <2>3 DEF Ready
  <1>8. Works(k, jr, v)
    <2>1. jr.result = "ok"
      BY <1>3 DEF jr, Journal
    <2>2. QED
      BY <1>1, <1>2, <1>4, <1>7, <2>1 DEF Works, Saved
  <1>9. QED
    BY <1>1, <1>6, <1>8, UnitHelps

(* The unit fails, before or after it opened its journal.                  *)
LEMMA UnitFailsStep ==
  ASSUME IInv, NEW k \in Protected, UnitFails(k)
  PROVE  Good
  <1>1. /\ UNCHANGED <<desired, baseline, job, exec, web, recovery>>
        /\ faults' \in 0 .. MaxFaults
    BY SpendType DEF UnitFails
  <1>2. CASE /\ journal[k].unit = "started" /\ UNCHANGED runtime
             /\ journal' = [journal EXCEPT ![k] = Rejected(k)]
    BY <1>1, <1>2, RejectedFacts
  <1>3. CASE /\ journal[k].unit = "changing"
             /\ \E o \in Restored(k) :
                  /\ journal' = [journal EXCEPT ![k] = [o.jr EXCEPT !.result =
                        IF o.answer = "rolled back" THEN "rolled back" ELSE "failed"]]
                  /\ runtime' = [runtime EXCEPT ![k] = o.live]
    <2>1. PICK o \in Restored(k) :
                  /\ journal' = [journal EXCEPT ![k] = [o.jr EXCEPT !.result =
                        IF o.answer = "rolled back" THEN "rolled back" ELSE "failed"]]
                  /\ runtime' = [runtime EXCEPT ![k] = o.live]
      BY <1>3
    <2>2. /\ journal[k].phase = "open" /\ journal[k].owner = journal[k].by
          /\ ~journal[k].restored
      BY <1>3 DEF IInv, Helper, Journals
    <2>3. /\ o.jr \in Journal /\ o.live \in Values /\ Settled(k, o.jr)
          /\ o.jr.receipt \in {journal[k].receipt, NoJob} /\ o.jr.unit = "none"
          /\ Proven(o.answer) => o.jr.phase = "none"
          /\ o.jr.phase = "none" => o.live = journal[k].prior
      BY <2>2, RestoredFacts
    <2> DEFINE res == IF o.answer = "rolled back" THEN "rolled back" ELSE "failed"
               jr == [o.jr EXCEPT !.result = res]
    <2>4. res = "rolled back" => Proven(o.answer)
      BY DEF Proven
    <2>5. res \in {"rolled back", "failed"}
      OBVIOUS
    <2>6. journal' = [journal EXCEPT ![k] = jr]
      BY <2>1
    <2> HIDE DEF res
    <2>7. /\ jr \in Journal /\ jr.unit = "none" /\ jr.phase = o.jr.phase /\ jr.owner = o.jr.owner
          /\ jr.prior = o.jr.prior /\ jr.restored = o.jr.restored
          /\ jr.receipt = o.jr.receipt /\ jr.result = res
      BY <2>3, <2>5 DEF Journal
    <2> HIDE DEF jr
    <2>8. Helps(k, jr, o.live)
      BY <1>1, <2>1, <2>3, <2>6, <2>7 DEF Helps
    <2>9. jr.restored = FALSE
      BY <2>2, <2>3, <2>7 DEF Settled, Journal
    <2>10. Works(k, jr, o.live)
      BY <1>3, <2>2, <2>3, <2>4, <2>5, <2>7, <2>9 DEF Works, Settled, Saved
    <2>11. QED
      BY <1>1, <2>8, <2>10, UnitHelps
  <1>4. QED
    BY <1>2, <1>3 DEF UnitFails

-----------------------------------------------------------------------------
(* The administrators.                                                     *)

(* A step that leaves rows, thread, helper and startup alone.              *)
LEMMA IdleStep ==
  ASSUME IInv, UNCHANGED <<baseline, runtime, job, exec, web, recovery, journal, faults>>,
         TypeOK', Edited'
  PROVE  Good
  <1>1. /\ Threads' /\ Place' /\ Steps' /\ Flags' /\ Handoff'
    <2>1. Threads'
      BY SMTT(60) DEF IInv, Thread, Threads, X, Mine, Row, Now, AllSucceeded,
             LeftOut, Trails, NoneOpen, Has, Holds, Active, Beyond
    <2>2. Place'
      BY SMTT(60) DEF IInv, Thread, Place, X, Mine, Row, Now, AllSucceeded,
             LeftOut, Trails, NoneOpen, Has, Holds, Active, Beyond
    <2>3. Steps'
      BY SMTT(60) DEF IInv, Thread, Steps, X, Mine, Row, Now, AllSucceeded,
             LeftOut, Trails, NoneOpen, Has, Holds, Active, Beyond
    <2>4. Flags'
      BY SMTT(60) DEF IInv, Thread, Flags, X, Mine, Row, Now, AllSucceeded,
             LeftOut, Trails, NoneOpen, Has, Holds, Active, Beyond
    <2>5. Handoff'
      BY SMTT(60) DEF IInv, Thread, Handoff, X, Mine, Row, Now, AllSucceeded,
             LeftOut, Trails, NoneOpen, Has, Holds, Active, Beyond
    <2>6. QED
      BY <2>1, <2>2, <2>3, <2>4, <2>5
  <1>2. Rows'
    BY DEF IInv, Rows, OneHolder, Alone, RowOK, Planned, Untouched, Flagged, Verdict,
           AllSucceeded, LeftOut, Trails, NoneOpen, Has, Holds, Active, X, Mine
  <1>3. Journals' /\ Accounted' /\ Committed' /\ Receipts'
    BY DEF IInv, Helper, Journals, Accounted, Committed, Receipts, Accounts, InHandoff,
           Has, X,
           Mine
  <1>4. Known'
    BY DEF IInv, Helper, Known, Ready, Busy, X, Mine, Row, Now
  <1>5. Startups'
    BY DEF IInv, Startups, Holds, Active, Has, Busy
  <1>6. \A k \in Protected : Refines(k)
    BY DEF Refines, Same, Change, Has, Saved
  <1>7. QED
    BY <1>1, <1>2, <1>3, <1>4, <1>5, <1>6 DEF Good, IInv, Thread, Helper

(* An edit changes what is saved, and nothing that is being applied.       *)
LEMMA EditStep ==
  ASSUME IInv, NEW i \in Items, Edit(i)
  PROVE  Good
  <1>1. /\ desired \in [Items -> Versions] /\ MaxEdits \in Nat
        /\ \A l \in Items : desired[l] >= 1
        /\ Items = {"handoff", "pair", "unit"}
    BY ApplyConstants DEF IInv, TypeOK, Rows, Edited, Items, Protected
  <1>2. \A l \in Items : desired[l] \in Int
    BY <1>1 DEF Versions
  <1>3. desired["handoff"] + desired["pair"] + desired["unit"] < MaxEdits + 3
    BY DEF Edit
  <1>4. desired[i] + 1 \in 1 .. MaxEdits + 1
    BY <1>1, <1>2, <1>3
  <1>5. desired' \in [Items -> Versions] /\ desired' = [desired EXCEPT ![i] = desired[i] + 1]
    BY <1>1, <1>2, <1>4 DEF Edit, Versions
  <1>6. Edited'
    <2>1. \A l \in Items : desired'[l] = IF l = i THEN desired[l] + 1 ELSE desired[l]
      BY <1>1, <1>5
    <2>2. \A l \in Items : desired'[l] >= 1
      BY <1>1, <1>2, <2>1
    <2>3. desired'["handoff"] + desired'["pair"] + desired'["unit"]
             = desired["handoff"] + desired["pair"] + desired["unit"] + 1
      BY <1>1, <1>2, <2>1
    <2>4. desired["handoff"] \in Int /\ desired["pair"] \in Int /\ desired["unit"] \in Int
      BY <1>1, <1>2
    <2>5. QED
      BY <1>1, <1>3, <2>2, <2>3, <2>4 DEF Edited
  <1>7. /\ TypeOK' /\ UNCHANGED <<baseline, runtime, job, exec, web, recovery, journal, faults>>
    BY <1>5 DEF IInv, TypeOK, Edit
  <1>8. QED
    BY <1>6, <1>7, IdleStep

(* Nothing reads a request but the thread and the startup.                 *)
LEMMA CancelStep ==
  ASSUME IInv, NEW j \in Jobs, NEW c \in {"no", "requested", "confirmed", "completion-won"},
         job' = [job EXCEPT ![j].cancel = c],
         UNCHANGED <<desired, baseline, runtime, exec, web, recovery, journal, faults>>,
         web = "starting" => job[j].status # "pending"
  PROVE  Good
  <1>1. /\ job' \in [Jobs -> JobRow]
        /\ \A i \in Jobs : /\ job'[i].status = job[i].status /\ job'[i].plan = job[i].plan
                           /\ job'[i].captured = job[i].captured
                           /\ job'[i].steps = job[i].steps /\ job'[i].flag = job[i].flag
                           /\ i # j => job'[i] = job[i]
    <2>1. job \in [Jobs -> JobRow]
      BY DEF IInv, TypeOK
    <2>2. job[j] \in JobRow
      BY <2>1
    <2>3. job' = [job EXCEPT ![j] = [job[j] EXCEPT !.cancel = c]]
      OBVIOUS
    <2>4. [job[j] EXCEPT !.cancel = c] \in JobRow
      BY <2>2 DEF JobRow
    <2>5. QED
      BY <2>1, <2>2, <2>3, <2>4 DEF JobRow
  <1>2. TypeOK'
    BY <1>1 DEF IInv, TypeOK
  <1>3. /\ \A i \in Jobs : /\ Holds(i)' <=> Holds(i)
                           /\ InHandoff(i)' <=> InHandoff(i)
                           /\ Beyond(i)' <=> Beyond(i)
                           /\ AllSucceeded(i)' <=> AllSucceeded(i)
                           /\ LeftOut(i)' <=> LeftOut(i)
                           /\ NoneOpen(i)' <=> NoneOpen(i)
        /\ \A i \in Jobs, k \in Protected : /\ Has(i, k)' <=> Has(i, k)
                                            /\ Accounts(i, k)' <=> Accounts(i, k)
    <2>1. \A i \in Jobs : /\ Holds(i)' <=> Holds(i)
                          /\ InHandoff(i)' <=> InHandoff(i)
                          /\ Beyond(i)' <=> Beyond(i)
                          /\ AllSucceeded(i)' <=> AllSucceeded(i)
                          /\ LeftOut(i)' <=> LeftOut(i)
                          /\ NoneOpen(i)' <=> NoneOpen(i)
      BY <1>1 DEF Holds, Active, InHandoff, Beyond, AllSucceeded, LeftOut, Trails, NoneOpen
    <2>2. \A i \in Jobs, k \in Protected : Has(i, k)' <=> Has(i, k)
      BY <1>1 DEF Has
    <2>3. QED
      BY <1>1, <2>1, <2>2 DEF Accounts
  <1>4. X' = X /\ Mine' = Mine
    BY DEF X, Mine
  <1>5. Rows'
    <2>1. Edited' /\ OneHolder' /\ Alone'
      BY <1>3, <1>4 DEF IInv, Rows, Edited, OneHolder, Alone
    <2>2. ASSUME NEW i \in Jobs PROVE RowOK(i)'
      BY <1>1, <1>3 DEF IInv, Rows, RowOK, Planned, Untouched, Flagged, Verdict
    <2>3. QED
      BY <2>1, <2>2 DEF Rows
  <1>6. Thread' /\ Known'
    <2>1. CASE X.pc = "idle"
      <3>1. X' = Idle
        BY <1>4, <2>1 DEF IInv, Thread, Threads
      <3>2. Threads'
        BY <1>4, <2>1 DEF IInv, Thread, Threads
      <3>3. QED
        BY <3>1, <3>2, IdleKnows DEF Thread
    <2>2. CASE X.pc # "idle"
      <3>1. PICK i \in Jobs : i = Mine
        BY <2>2 DEF IInv, Thread, Threads
      <3>2. /\ Row = job[i] /\ Row' = job'[i] /\ Now = job[i].plan[X.at] /\ Now' = Now
        BY <1>1, <1>4, <3>1 DEF Row, Now
      <3>3. Threads' /\ Place'
        BY <1>1, <1>4, <3>1, <3>2 DEF IInv, Thread, Threads, Place
      <3>4. Steps' /\ Flags'
        BY <1>1, <1>3, <1>4, <3>1, <3>2 DEF IInv, Thread, Steps, Flags
      <3>5. Handoff'
        BY <1>1, <1>3, <1>4, <3>1, <3>2 DEF IInv, Thread, Handoff, Protected
      <3>6. Known'
        BY ZenonT(60), <1>1, <1>4, <3>1, <3>2 DEF IInv, Helper, Known, Ready, Busy
      <3>7. QED
        BY <3>3, <3>4, <3>5, <3>6 DEF Thread
    <2>3. QED
      BY <2>1, <2>2
  <1>7. Journals' /\ Accounted' /\ Committed' /\ Receipts'
    <2>1. Journals'
      BY DEF IInv, Helper, Journals
    <2>2. Accounted'
      BY <1>3, <2>1 DEF IInv, TypeOK, Helper, Accounted, Journals
    <2>3. Committed'
      BY <1>1, <1>3 DEF IInv, Helper, Committed
    <2>4. Receipts'
      BY <1>1, <1>3, <1>4 DEF IInv, Helper, Receipts, Protected
    <2>5. QED
      BY <2>1, <2>2, <2>3, <2>4
  <1>8. Startups'
    <2>1. \A k \in Protected : Busy(k)' <=> Busy(k)
      BY DEF Busy
    <2>2. web = "starting" =>
             \A i \in Jobs : ~(job'[i].status = "pending" /\ job'[i].cancel = "requested")
      BY <1>1 DEF IInv, Startups
    <2>3. \A i \in Jobs : /\ Has(i, "handoff")' <=> Has(i, "handoff")
                          /\ Has(i, "pair")' <=> Has(i, "pair")
      BY <1>3 DEF Protected
    <2>4. QED
      BY <1>1, <1>3, <2>1, <2>2, <2>3 DEF IInv, Startups
  <1>9. \A k \in Protected : Refines(k)
    <2>1. \A k \in Protected : Change(k)' = Change(k)
      BY <1>1, <1>3 DEF Change
    <2>2. QED
      BY <2>1 DEF Refines, Same, Saved
  <1>10. QED
    BY <1>2, <1>5, <1>6, <1>7, <1>8, <1>9 DEF Good, IInv, Helper

(* A cancellation is accepted.                                             *)
LEMMA RequestCancelStep ==
  ASSUME IInv, NEW j \in Jobs, RequestCancel(j)
  PROVE  Good
  BY CancelStep DEF RequestCancel

(* A cancellation that came too late is settled.                           *)
LEMMA SettleRequestStep ==
  ASSUME IInv, NEW j \in Jobs, SettleRequest(j)
  PROVE  Good
  <1>1. job[j].status # "pending"
    BY DEF SettleRequest, Active
  <1>2. PICK c \in {"no", "requested", "confirmed", "completion-won"} :
           c = IF job[j].status = "cancelled" THEN "confirmed" ELSE "completion-won"
    OBVIOUS
  <1>3. job' = [job EXCEPT ![j].cancel = c]
    BY <1>2 DEF SettleRequest
  <1>4. QED
    BY <1>1, <1>3, CancelStep DEF SettleRequest

(* A pending task is cancelled: its thread has not begun.                  *)
LEMMA PendingFacts ==
  ASSUME IInv, NEW j \in Jobs, job[j].status = "pending",
         job' = [job EXCEPT ![j] = PendingStopped(j)]
  PROVE  /\ job' \in [Jobs -> JobRow] /\ \A i \in Jobs : DOMAIN job'[i].steps = DOMAIN job'[i].plan
         /\ Alters(j) /\ job'[j].status = "cancelled" /\ job'[j].flag = "clear"
         /\ Untouched(j)' /\ Flagged(j)' /\ Verdict(j)' /\ Planned(j)' /\ ~Holds(j)'
         /\ \A k \in Protected : ~Accounts(j, k) /\ ~Busy(k)
         /\ journal["pair"].receipt # j
  <1> DEFINE s == Rest(job[j].steps, 1, "skipped")
             r == PendingStopped(j)
  <1>1. /\ job \in [Jobs -> JobRow] /\ job[j] \in JobRow /\ TypeOK
        /\ DOMAIN job[j].steps = DOMAIN job[j].plan
        /\ DOMAIN job[j].plan = 1 .. Len(job[j].plan) /\ Len(job[j].plan) \in Nat
        /\ job[j].plan \in Plans => 1 \in DOMAIN job[j].plan
    BY PlanFacts DEF IInv, TypeOK
  <1>2. /\ job[j].flag = "clear" /\ job[j].plan \in Plans
        /\ \A n \in DOMAIN job[j].steps : job[j].steps[n] = "pending"
    BY DEF IInv, Rows, RowOK, Untouched, Planned
  <1>3. s \in Seq(StepStates) /\ DOMAIN s = DOMAIN job[j].steps
    BY <1>1, StepUpdates DEF JobRow, StepStates
  <1>4. \A n \in DOMAIN s : s[n] = "skipped"
    BY <1>1, <1>2, <1>3 DEF Rest
  <1> HIDE DEF s
  <1>5. /\ r \in JobRow /\ r.plan = job[j].plan /\ r.captured = job[j].captured /\ r.steps = s
        /\ r.status = "cancelled" /\ r.flag = "clear"
    <2>1. r = [job[j] EXCEPT !.status = "cancelled", !.cancel = "confirmed", !.steps = s]
      BY DEF PendingStopped, s
    <2> HIDE DEF r
    <2>2. QED
      BY <1>1, <1>2, <1>3, <2>1 DEF JobRow, Statuses
  <1> HIDE DEF r
  <1>6. /\ job' \in [Jobs -> JobRow] /\ job'[j] = r /\ \A i \in Jobs : i # j => job'[i] = job[i]
    BY <1>1, <1>5 DEF r
  <1>7. \A i \in Jobs : DOMAIN job'[i].steps = DOMAIN job'[i].plan
    BY <1>1, <1>3, <1>5, <1>6 DEF TypeOK
  <1>8. \A i \in Jobs : Holds(i) => i = j
    BY DEF IInv, Rows, OneHolder, Holds, Active
  <1>9. Alters(j)
    BY <1>5, <1>6, <1>8 DEF Alters
  <1>10. /\ Untouched(j)' /\ Flagged(j)' /\ Planned(j)' /\ ~Holds(j)'
    BY <1>2, <1>5, <1>6 DEF Untouched, Flagged, Planned, Holds, Active
  <1>11. Verdict(j)'
    BY <1>1, <1>2, <1>3, <1>4, <1>5, <1>6 DEF Verdict, LeftOut, Trails
  <1>12. \A k \in Protected : ~Accounts(j, k) /\ ~Busy(k)
    <2>1. \A k \in Protected : ~Accounts(j, k)
      BY <1>2 DEF Accounts, InHandoff
    <2>2. QED
      BY <1>8, <2>1, BusyMine DEF IInv, Helper
  <1>13. journal["pair"].receipt # j
    BY <1>1, <1>2 DEF IInv, Helper, Receipts, Has
  <1>14. QED
    BY <1>5, <1>6, <1>7, <1>9, <1>10, <1>11, <1>12, <1>13

(* A pending task is cancelled by the request itself.                      *)
LEMMA FinishPendingStep ==
  ASSUME IInv, NEW j \in Jobs, FinishPending(j)
  PROVE  Good
  <1>1. /\ job[j].status = "pending" /\ job[j].cancel = "requested"
        /\ job' = [job EXCEPT ![j] = PendingStopped(j)]
        /\ UNCHANGED <<desired, baseline, runtime, exec, web, recovery, journal, faults>>
    BY DEF FinishPending
  <1>2. /\ job' \in [Jobs -> JobRow] /\ \A i \in Jobs : DOMAIN job'[i].steps = DOMAIN job'[i].plan
        /\ Alters(j) /\ job'[j].status = "cancelled" /\ job'[j].flag = "clear"
        /\ Untouched(j)' /\ Flagged(j)' /\ Verdict(j)' /\ Planned(j)' /\ ~Holds(j)'
        /\ \A k \in Protected : ~Accounts(j, k) /\ ~Busy(k)
        /\ journal["pair"].receipt # j
    BY <1>1, PendingFacts
  <1>3. job[j].flag = "clear"
    BY <1>1 DEF IInv, Rows, RowOK, Untouched
  <1>4. Keeps(j) /\ Still /\ TypeOK'
    <2>1. Keeps(j)
      BY <1>2, <1>3 DEF Keeps
    <2>2. QED
      BY <1>1, <1>2, <2>1 DEF Still, IInv, TypeOK
  <1>5. X' = X /\ Mine' = Mine
    BY <1>1 DEF X, Mine
  <1>6. web # "starting"
    BY <1>1 DEF IInv, Startups
  <1>7. Startups'
    BY <1>1, <1>6 DEF IInv, Startups
  <1>8. Thread' /\ Known' /\ (X'.pc # "idle" => Mine' = j)
    <2>1. CASE X.pc = "idle"
      <3>1. X' = Idle /\ Threads'
        BY <1>1, <1>5, <2>1 DEF IInv, Thread, Threads
      <3>2. QED
        BY <1>5, <2>1, <3>1, IdleKnows DEF Thread
    <2>2. CASE X.pc # "idle"
      <3>1. Mine = j
        BY <1>1, <2>2 DEF IInv, Rows, Alone, Holds, Active
      <3>2. X.pc = "claim"
        <4>1. X \in ExecRow
          BY ApplyConstants DEF IInv, TypeOK, X
        <4>2. QED
          BY <1>1, <2>2, <3>1, <4>1 DEF IInv, Thread, Place, Row, InPart, ExecRow, Pcs
      <3>3. Row' = job'[j]
        BY <1>5, <3>1 DEF Row
      <3>4. Threads'
        BY <1>1, <1>2, <1>5, <3>1, <3>3 DEF IInv, Thread, Threads
      <3>5. Place' /\ Steps' /\ Flags'
        BY <1>2, <1>5, <3>1, <3>2, <3>3
           DEF IInv, Thread, Place, Steps, Flags, InPart, OnPair, OnUnit, Either
      <3>6. Handoff' /\ Known'
        BY <1>5, <3>2 DEF IInv, Thread, Handoff, Known, OnPair, OnUnit, Either
      <3>7. QED
        BY <1>5, <3>1, <3>4, <3>5, <3>6 DEF Thread
    <2>3. QED
      BY <2>1, <2>2
  <1>9. QED
    BY <1>1, <1>2, <1>4, <1>7, <1>8, AlterStep

(* A new master task: nothing holds the lock, so nothing is unfinished.    *)
LEMMA SubmitStep ==
  ASSUME IInv, NEW j \in Jobs, NEW plan \in Plans, Submit(j, plan)
  PROVE  Good
  <1> DEFINE cap == [i \in Items |-> IF \E n \in DOMAIN plan : plan[n] = i THEN desired[i] ELSE 0]
             ss == [n \in DOMAIN plan |-> "pending"]
             r == [NewJob EXCEPT !.status = "pending", !.plan = plan, !.captured = cap,
                                 !.steps = ss]
             x == [Idle EXCEPT !.pc = "claim", !.job = j]
  <1>1. /\ web = "up" /\ X.pc = "idle" /\ job[j].status = "new"
        /\ \A i \in Jobs : ~Holds(i)
        /\ job' = [job EXCEPT ![j] = r] /\ exec' = [exec EXCEPT !["web"] = x]
        /\ UNCHANGED <<desired, baseline, runtime, web, recovery, journal, faults>>
    BY DEF Submit, Held, X, Created
  <1>2. cap \in [Items -> Versions]
    BY ApplyConstants DEF IInv, TypeOK, Versions
  <1>3. ss \in Seq(StepStates) /\ DOMAIN ss = DOMAIN plan
    <2>1. plan \in Seq(Items)
      BY ApplyConstants
    <2>2. DOMAIN plan = 1 .. Len(plan) /\ Len(plan) \in Nat
      BY <2>1, LenProperties
    <2>3. ss \in [1 .. Len(plan) -> StepStates]
      BY <2>2 DEF StepStates
    <2>4. QED
      BY <2>2, <2>3, SeqDef
  <1>4. \A n \in DOMAIN ss : ss[n] = "pending"
    OBVIOUS
  <1> HIDE DEF cap, ss
  <1>5. /\ r \in JobRow /\ r.status = "pending" /\ r.plan = plan /\ r.steps = ss
        /\ r.flag = "clear" /\ r.cancel = "no"
    BY <1>2, <1>3 DEF JobRow, NewJob, Statuses
  <1>6. /\ x \in ExecRow /\ x.pc = "claim" /\ x.job = j /\ x.end = "none"
        /\ ~x.pending /\ ~x.committed
    BY DEF ExecRow, Idle, Pcs, Answers, NoJob
  <1> HIDE DEF r, x
  <1>7. /\ job \in [Jobs -> JobRow] /\ job' \in [Jobs -> JobRow] /\ job'[j] = r
        /\ \A i \in Jobs : i # j => job'[i] = job[i]
    BY <1>1, <1>5 DEF IInv, TypeOK
  <1>8. /\ exec' \in [Procs -> ExecRow] /\ X' = x
        /\ \A p \in Procs \ {"web"} : exec'[p] = exec[p]
    BY <1>1, <1>6, ApplyConstants DEF IInv, TypeOK, X
  <1>9. TypeOK'
    BY <1>1, <1>3, <1>5, <1>7, <1>8 DEF IInv, TypeOK
  <1>10. \A k \in Protected : ~Busy(k)
    BY <1>1, AccountsHolds DEF IInv, TypeOK, Helper, Journals, Accounted, Busy
  <1>11. \A i \in Jobs : Holds(i)' => i = j
    BY <1>1, <1>7 DEF Holds, Active
  <1>12. Mine' = j /\ Row' = r
    BY <1>6, <1>7, <1>8 DEF Mine, Row
  <1>13. Rows'
    <2>1. Edited' /\ OneHolder' /\ Alone'
      BY <1>1, <1>11, <1>12 DEF IInv, Rows, Edited, OneHolder, Alone
    <2>2. \A i \in Jobs : i # j => RowOK(i)'
      BY <1>7
      DEF IInv, Rows, RowOK, Planned, Untouched, Flagged, Verdict, AllSucceeded,
          LeftOut, Trails,
                  NoneOpen, Has
    <2>3. RowOK(j)'
      BY <1>4, <1>5, <1>7 DEF RowOK, Planned, Untouched, Flagged, Verdict
    <2>4. QED
      BY <2>1, <2>2, <2>3 DEF Rows
  <1>14. Threads'
    BY <1>1, <1>5, <1>6, <1>8, <1>12 DEF IInv, Thread, Threads
  <1>15. Place' /\ Steps' /\ Flags'
    BY <1>5, <1>6, <1>8, <1>12 DEF Place, Steps, Flags, InPart, OnPair, OnUnit, Either
  <1>16. Handoff' /\ Known'
    BY <1>6, <1>8 DEF Handoff, Known, OnPair, OnUnit, Either
  <1>17. Journals' /\ Accounted' /\ Committed'
    <2>1. Journals'
      BY <1>1 DEF IInv, Helper, Journals
    <2>2. Accounted'
      BY <1>1, <1>10 DEF Accounted, Busy
    <2>3. \A i \in Jobs : job'[i].flag # "committed"
      BY <1>1, <1>5, <1>7 DEF Holds
    <2>4. QED
      BY <2>1, <2>2, <2>3 DEF Committed
  <1>18. Receipts'
    <2>1. journal["pair"].receipt # j
      <3>1. Untouched(j)
        BY DEF IInv, Rows, RowOK
      <3>2. DOMAIN job[j].steps = DOMAIN job[j].plan
        BY DEF IInv, TypeOK
      <3>3. QED
        BY <1>1, <3>1, <3>2 DEF IInv, Helper, Receipts, Has, Untouched
    <2>2. QED
      BY <1>1, <1>6, <1>7, <1>8, <2>1 DEF IInv, Helper, Receipts, Has
  <1>19. Startups'
    BY <1>1 DEF IInv, Startups
  <1>20. IInv'
    BY <1>9, <1>13, <1>14, <1>15, <1>16, <1>17, <1>18, <1>19 DEF IInv, Thread, Helper
  <1>21. ASSUME NEW k \in Protected PROVE Refines(k)
    <2>1. Change(k) = Reading(j, k) /\ Change(k)' = Reading(j, k)'
      BY <1>1, <1>7, <1>11, ChangeMine, ChangeMineNext DEF ReadOff
    <2>2. Reading(j, k) = "none"
      BY <1>1, AccountsHolds DEF Reading, Holds
    <2>3. Reading(j, k)' = "none"
      BY <1>5, <1>7 DEF Reading, Accounts, InHandoff
    <2>4. QED
      BY <2>1, <2>2, <2>3 DEF Refines, Same
  <1>22. QED
    BY <1>20, <1>21 DEF Good

-----------------------------------------------------------------------------
(* Faults and the start of the web process.                                *)

(* The web process ends, alone or with the helper's units.                 *)
LEMMA StopsStep ==
  ASSUME IInv, UNCHANGED <<desired, baseline, runtime, job>>, faults' \in 0 .. MaxFaults,
         web' = "down", recovery' = [j \in Jobs |-> "idle"],
         exec' \in [Procs -> ExecRow], \A p \in Procs : exec'[p] = Idle,
         journal' \in [Protected -> Journal],
         \A k \in Protected :
            /\ journal'[k].phase = journal[k].phase /\ journal'[k].owner = journal[k].owner
            /\ journal'[k].prior = journal[k].prior /\ journal'[k].restored = journal[k].restored
            /\ journal'[k].receipt = journal[k].receipt
            /\ \/ journal'[k].unit = "none"
               \/ journal'[k].unit = journal[k].unit /\ journal'[k].by = journal[k].by
  PROVE  Good
  <1>1. X' = Idle /\ X'.pc = "idle"
    BY ApplyConstants DEF X, Idle
  <1>2. TypeOK'
    BY DEF IInv, TypeOK
  <1>3. /\ \A j \in Jobs : Holds(j)' <=> Holds(j)
        /\ \A j \in Jobs, k \in Protected : /\ Has(j, k)' <=> Has(j, k)
                                            /\ Accounts(j, k)' <=> Accounts(j, k)
    BY DEF Holds, Active, Has, Accounts, InHandoff
  <1>4. Rows'
    <2>1. Edited' /\ OneHolder' /\ Alone'
      BY <1>1, <1>3 DEF IInv, Rows, Edited, OneHolder, Alone
    <2>2. QED
      BY <2>1
      DEF IInv, Rows, RowOK, Planned, Untouched, Flagged, Verdict, AllSucceeded,
          LeftOut, Trails,
                  NoneOpen, Has
  <1>5. Threads'
    BY <1>1 DEF Threads
  <1>6. Place' /\ Steps' /\ Flags' /\ Handoff' /\ Known'
    BY <1>1, IdleKnows
  <1>7. Journals'
    BY DEF IInv, Helper, Journals
  <1>8. Accounted'
    <2>1. \A k \in Protected :
             /\ journal[k].phase # "none" => journal[k].owner \in Jobs /\ Accounts(journal[k].owner, k)
             /\ journal[k].unit # "none" => journal[k].by \in Jobs /\ Accounts(journal[k].by, k)
      BY DEF IInv, TypeOK, Helper, Journals, Accounted
    <2>2. ASSUME NEW k \in Protected
          PROVE  /\ journal'[k].phase # "none" => Accounts(journal[k].owner, k)'
                 /\ journal'[k].unit # "none" => Accounts(journal[k].by, k)'
      BY <1>3, <2>1
    <2>3. QED
      BY <2>2 DEF Accounted
  <1>9. Committed'
    BY <1>3 DEF IInv, Helper, Committed
  <1>10. Receipts'
    BY <1>1, <1>3 DEF IInv, Helper, Receipts, Protected
  <1>11. Startups'
    BY DEF Startups
  <1>12. \A k \in Protected : Refines(k)
    BY DEF Refines, Same, Change, Has, Saved
  <1>13. QED
    BY <1>2, <1>4, <1>5, <1>6, <1>7, <1>8, <1>9, <1>10, <1>11, <1>12
       DEF Good, IInv, Thread, Helper

(* The web process dies, and its thread with it; units go on.              *)
LEMMA WebStopsStep ==
  ASSUME IInv, WebStops
  PROVE  Good
  <1>1. exec' \in [Procs -> ExecRow] /\ \A p \in Procs : exec'[p] = Idle
    BY IdleRow DEF IInv, TypeOK, Thread, Threads, WebStops
  <1>2. faults' \in 0 .. MaxFaults /\ journal' = journal /\ journal \in [Protected -> Journal]
    BY SpendType DEF IInv, TypeOK, WebStops
  <1>3. QED
    BY <1>1, <1>2, StopsStep DEF WebStops

(* A reboot ends the units too and leaves journals and rows.               *)
LEMMA RebootStep ==
  ASSUME IInv, Reboot
  PROVE  Good
  <1>1. exec' \in [Procs -> ExecRow] /\ \A p \in Procs : exec'[p] = Idle
    BY IdleRow DEF Reboot
  <1>2. faults' \in 0 .. MaxFaults
    BY SpendType DEF Reboot
  <1>3. \A k \in Protected : journal'[k] = Quiet(k, journal[k])
    BY DEF Reboot
  <1>4. \A k \in Protected :
           /\ Quiet(k, journal[k]) \in Journal /\ Quiet(k, journal[k]).unit = "none"
           /\ Quiet(k, journal[k]).phase = journal[k].phase
           /\ Quiet(k, journal[k]).owner = journal[k].owner
           /\ Quiet(k, journal[k]).prior = journal[k].prior
           /\ Quiet(k, journal[k]).restored = journal[k].restored
           /\ Quiet(k, journal[k]).receipt = journal[k].receipt
    BY JournalUpdates
  <1>5. journal' \in [Protected -> Journal]
    BY <1>4 DEF Reboot
  <1>6. QED
    BY <1>1, <1>2, <1>3, <1>4, <1>5, StopsStep DEF Reboot

(* A helper call of the startup, while no thread is at work.               *)
LEMMA StartupHelps ==
  ASSUME IInv, NEW k \in Protected, NEW jr, NEW v, Helps(k, jr, v), X.pc = "idle", exec' = exec,
         web' \in {"up", "down", "starting"}, recovery' \in [Jobs -> Answers \cup {"idle", "todo"}],
         faults' \in 0 .. MaxFaults, jr.phase # "none" => jr.owner \in Jobs,
         Journals', Accounted', Committed', Receipts', Startups'
  PROVE  IInv'
  <1>1. X' = Idle /\ X'.pc = "idle"
    BY DEF X, IInv, Thread, Threads, Idle
  <1>2. TypeOK'
    <2>1. /\ journal' \in [Protected -> Journal] /\ runtime' \in [Items -> Values]
          /\ \A l \in Protected : journal'[l].phase # "none" => journal'[l].owner \in Jobs
      BY HelpFacts DEF IInv, TypeOK
    <2>2. QED
      BY <2>1 DEF IInv, TypeOK, Helps
  <1>3. Rows'
    <2>1. Edited' /\ OneHolder' /\ Alone'
      BY <1>1, HelpFacts DEF IInv, Rows, Edited, OneHolder, Alone, Helps
    <2>2. QED
      BY <2>1, HelpFacts DEF Rows
  <1>4. Threads'
    BY <1>1 DEF IInv, Thread, Threads
  <1>5. Place' /\ Steps' /\ Flags' /\ Handoff' /\ Known'
    BY <1>1, IdleKnows
  <1>6. QED
    BY <1>2, <1>3, <1>4, <1>5 DEF IInv, Thread, Helper

(* A step of the startup that changes no journal.                          *)
LEMMA KeptStep ==
  ASSUME IInv, X.pc = "idle", web' \in {"up", "down", "starting"},
         UNCHANGED <<desired, baseline, runtime, job, exec, journal, faults>>,
         recovery' \in [Jobs -> Answers \cup {"idle", "todo"}], Startups'
  PROVE  Good
  <1>1. PICK k \in Protected : k = "pair"
    BY DEF Protected
  <1>2. journal[k] \in Journal /\ runtime[k] \in Values
    BY JournalUpdates
  <1>3. Helps(k, journal[k], runtime[k])
    BY <1>2 DEF Helps, IInv, TypeOK
  <1>4. Settled(k, journal[k])
    BY DEF Settled, IInv, Helper, Journals
  <1>5. Journals' /\ Accounted' /\ (journal[k].phase # "none" => journal[k].owner \in Jobs)
    BY <1>3, <1>4, Bookkeeping
  <1>6. Committed' /\ Receipts'
    BY DEF IInv, Helper, Committed, Receipts, Has, X, Mine
  <1>7. IInv'
    BY <1>3, <1>5, <1>6, StartupHelps DEF IInv, TypeOK
  <1>8. \A l \in Protected : Refines(l)
    BY <1>3, HelpRefines DEF Saved
  <1>9. QED
    BY <1>7, <1>8 DEF Good

(* ExecStartPre and the lifespan.                                          *)
LEMMA WebStartsStep ==
  ASSUME IInv, WebStarts
  PROVE  Good
  <1> DEFINE stops(j) == job[j].status = "pending" /\ job[j].cancel = "requested"
             jr == journal["pair"]
             stopped == {j \in Jobs : stops(j)}
  <1>1. /\ web = "down" /\ jr.unit = "none" /\ web' = "starting"
        /\ UNCHANGED <<desired, baseline, exec, faults>>
        /\ job' = [j \in Jobs |-> IF stops(j) THEN PendingStopped(j) ELSE job[j]]
        /\ recovery' = [j \in Jobs |-> IF Holds(j) /\ ~stops(j) THEN "todo" ELSE "idle"]
    <2>1. /\ job' = [j \in Jobs |-> IF j \in stopped THEN PendingStopped(j) ELSE job[j]]
          /\ recovery' = [j \in Jobs |-> IF Interrupted(j) /\ j \notin stopped THEN "todo" ELSE "idle"]
      BY DEF WebStarts
    <2>2. \A j \in Jobs : j \in stopped <=> stops(j)
      OBVIOUS
    <2> HIDE DEF stopped, stops
    <2>3. QED
      BY <2>1, <2>2 DEF WebStarts, Interrupted
  <1>2. /\ jr.phase = "none" => UNCHANGED <<journal, runtime>>
        /\ jr.phase # "none" /\ jr.receipt = jr.owner =>
              journal' = [journal EXCEPT !["pair"] = Cleared("pair")] /\ UNCHANGED runtime
        /\ jr.phase # "none" /\ jr.receipt # jr.owner =>
              /\ journal' = [journal EXCEPT !["pair"].restored = TRUE]
              /\ runtime' = [runtime EXCEPT !["pair"] = jr.prior]
    BY DEF WebStarts
  <1>3. X.pc = "idle" /\ X = Idle /\ X' = Idle
    BY <1>1 DEF IInv, Thread, Threads, X
  <1>4. PICK k \in Protected : k = "pair"
    BY DEF Protected
  <1>5. recovery' \in [Jobs -> Answers \cup {"idle", "todo"}]
    <2> HIDE DEF stops
    <2> QED BY <1>1
  <1>6. CASE \E j \in Jobs : stops(j)
    <2>1. PICK j \in Jobs : stops(j)
      BY <1>6
    <2>2. \A i \in Jobs : Holds(i) => i = j
      BY <2>1 DEF IInv, Rows, OneHolder, Holds, Active
    <2>3. \A i \in Jobs : stops(i) => i = j
      BY <2>2 DEF Holds, Active
    <2>4. job' = [job EXCEPT ![j] = PendingStopped(j)]
      <3> HIDE DEF stops
      <3> QED BY <1>1, <2>1, <2>3 DEF IInv, TypeOK
    <2>5. /\ job' \in [Jobs -> JobRow]
          /\ \A i \in Jobs : DOMAIN job'[i].steps = DOMAIN job'[i].plan
          /\ Alters(j) /\ job'[j].status = "cancelled" /\ job'[j].flag = "clear"
          /\ Untouched(j)' /\ Flagged(j)' /\ Verdict(j)' /\ Planned(j)' /\ ~Holds(j)'
          /\ \A l \in Protected : ~Accounts(j, l) /\ ~Busy(l)
          /\ journal["pair"].receipt # j
      BY <2>1, <2>4, PendingFacts
    <2>6. UNCHANGED <<journal, runtime>>
      BY <1>2, <1>4, <2>5 DEF Busy
    <2>7. \A i \in Jobs : recovery'[i] = "idle"
      <3> HIDE DEF stops
      <3> QED BY <1>1, <2>1, <2>2
    <2>8. Keeps(j) /\ Still /\ TypeOK'
      <3>1. job[j].flag = "clear"
        BY <2>1 DEF IInv, Rows, RowOK, Untouched
      <3>2. Keeps(j)
        BY <2>5, <3>1 DEF Keeps
      <3>3. QED
        BY <1>1, <1>5, <2>5, <2>6, <3>2 DEF Still, IInv, TypeOK
    <2>9. Startups'
      <3>1. \A i \in Jobs : ~(job'[i].status = "pending" /\ job'[i].cancel = "requested")
        BY <2>3, <2>5 DEF Alters
      <3>2. QED
        BY <2>7, <3>1 DEF Startups
    <2>10. Thread' /\ Known' /\ X'.pc = "idle"
      BY <1>1, <1>3, IdleKnows DEF IInv, Thread, Threads, Idle
    <2>11. QED
      BY <1>1, <2>5, <2>8, <2>9, <2>10, AlterStep
  <1>7. CASE ~\E j \in Jobs : stops(j)
    <2>1. job' = job /\ \A j \in Jobs : recovery'[j] = IF Holds(j) THEN "todo" ELSE "idle"
      <3> HIDE DEF stops
      <3> QED BY <1>1, <1>7 DEF IInv, TypeOK
    <2>2. Startups'
      <3>1. \A j \in Jobs : Holds(j)' <=> Holds(j)
        BY <2>1 DEF Holds, Active
      <3>2. \A j \in Jobs : ~(job'[j].status = "pending" /\ job'[j].cancel = "requested")
        BY <1>7, <2>1
      <3>3. QED
        BY <1>1, <2>1, <3>1, <3>2 DEF Startups, Proven
    <2>3. CASE jr.phase = "none"
      BY <1>1, <1>2, <1>3, <1>5, <2>1, <2>2, <2>3, KeptStep
    <2>4. CASE jr.phase # "none"
      <3>1. jr \in Journal /\ jr.prior \in Values /\ runtime[k] \in Values
        BY <1>4, JournalUpdates
      <3>2. /\ jr.owner \in Jobs /\ Accounts(jr.owner, k) /\ Holds(jr.owner)
        BY <1>4, <2>4, AccountsHolds DEF IInv, TypeOK, Helper, Accounted
      <3>3. \A i \in Jobs : Holds(i) => i = jr.owner
        BY <3>2 DEF IInv, Rows, OneHolder
      <3>4. CASE jr.receipt = jr.owner
        <4> DEFINE cl == Cleared(k)
        <4>1. /\ cl \in Journal /\ cl.phase = "none" /\ cl.restored = FALSE
              /\ cl.unit = "none" /\ cl.receipt = jr.receipt
          BY <1>1, <1>4, JournalUpdates
        <4>2. journal' = [journal EXCEPT ![k] = cl] /\ runtime' = [runtime EXCEPT ![k] = runtime[k]]
          BY <1>2, <1>4, <2>4, <3>4 DEF IInv, TypeOK
        <4> HIDE DEF cl
        <4>3. Helps(k, cl, runtime[k])
          BY <1>1, <2>1, <3>1, <4>1, <4>2 DEF Helps
        <4>4. Settled(k, cl)
          BY <4>1 DEF Settled
        <4>5. Journals' /\ Accounted'
          BY <4>3, <4>4, Bookkeeping
        <4>6. journal'[k] = cl /\ \A l \in Protected : l # k => journal'[l] = journal[l]
          BY <4>3, HelpFacts
        <4>7. runtime' = runtime
          BY <1>2, <2>4, <3>4
        <4>8. Committed'
          <5>1. ASSUME NEW i \in Jobs, NEW l \in Protected, job'[i].flag = "committed", Has(i, l)'
                PROVE  /\ baseline'[l] = job'[i].captured[l] /\ journal'[l].unit = "none"
                       /\ journal'[l].phase = "none" =>
                            journal'[l].receipt = i /\ runtime'[l] = job'[i].captured[l]
                       /\ journal'[l].phase # "none" =>
                            /\ journal'[l].phase = "awaiting" /\ journal'[l].owner = i
                            /\ journal'[l].restored \/ runtime'[l] = job'[i].captured[l]
            <6>1. job[i].flag = "committed" /\ Has(i, l) /\ Committed
              BY <2>1, <5>1 DEF Has, IInv, Helper
            <6>2. CASE l = k
              <7>1. ~jr.restored
                BY <1>4, <3>4 DEF IInv, Helper, Journals
              <7>2. /\ baseline[l] = job[i].captured[l] /\ jr.owner = i
                    /\ runtime[l] = job[i].captured[l]
                BY <1>4, <2>4, <6>1, <6>2, <7>1 DEF Committed
              <7>3. QED
                BY <1>1, <2>1, <3>4, <4>1, <4>6, <4>7, <6>2, <7>2
            <6>3. CASE l # k
              BY <1>1, <2>1, <4>6, <4>7, <6>1, <6>3 DEF Committed
            <6>4. QED
              BY <6>2, <6>3
          <5>2. QED
            BY <5>1 DEF Committed
        <4>9. Receipts'
          BY <1>3, <1>4, <2>1, <4>1, <4>6 DEF IInv, Helper, Receipts, Has, Idle
        <4>10. \A l \in Protected : Refines(l)
          <5>1. Change(k) # "active"
            <6>1. Change(k) = Reading(jr.owner, k)
              BY <3>2, <3>3, ChangeMine DEF ReadOff, IInv, TypeOK
            <6>2. Has(jr.owner, k) /\ job[jr.owner].flag # "clear"
              BY <1>4, <3>2 DEF Accounts
            <6>3. job[jr.owner].flag # "pending"
              BY <3>2, <3>4 DEF IInv, Helper, Receipts
            <6>4. job[jr.owner].flag \in {"clear", "pending", "committed"}
              BY <3>2 DEF IInv, TypeOK, JobRow
            <6>5. QED
              BY <6>1, <6>2, <6>3, <6>4 DEF Reading
          <5>2. QED
            BY <4>3, <5>1, HelpRefines
        <4>11. IInv'
          BY <1>1, <1>3, <1>5, <2>2, <4>1, <4>3, <4>5, <4>8, <4>9, StartupHelps
          DEF IInv, TypeOK
        <4>12. QED
          BY <4>10, <4>11 DEF Good
      <3>5. CASE jr.receipt # jr.owner
        <4> DEFINE re == [jr EXCEPT !.restored = TRUE]
        <4>1. /\ re \in Journal /\ re.phase = jr.phase /\ re.restored = TRUE /\ re.unit = "none"
              /\ re.receipt = jr.receipt /\ re.owner = jr.owner /\ re.prior = jr.prior
          BY <1>1, <3>1 DEF Journal
        <4>2. journal' = [journal EXCEPT ![k] = re] /\ runtime' = [runtime EXCEPT ![k] = jr.prior]
          BY <1>2, <1>4, <2>4, <3>5
        <4> HIDE DEF re
        <4>3. Helps(k, re, jr.prior)
          BY <1>1, <2>1, <3>1, <4>1, <4>2 DEF Helps
        <4>4. /\ journal'[k] = re
              /\ \A l \in Protected : l # k => journal'[l] = journal[l] /\ runtime'[l] = runtime[l]
          BY <4>3, HelpFacts
        <4>5. Journals'
          <5>1. /\ journal'[k].unit = "none" /\ k = "pair" /\ journal'[k].phase # "none"
                /\ journal'[k].receipt # journal'[k].owner
            BY <1>4, <2>4, <3>5, <4>1, <4>4
          <5>2. \A l \in Protected : l # k => journal'[l] = journal[l]
            BY <4>4
          <5>3. Journals
            BY DEF IInv, Helper
          <5>4. QED
            BY <5>1, <5>2, <5>3 DEF Journals
        <4>6. Accounted'
          <5>1. \A l \in Protected :
                  /\ journal'[l].phase = journal[l].phase /\ journal'[l].owner = journal[l].owner
                  /\ journal'[l].unit = journal[l].unit
                  /\ journal'[l].unit # "none" => journal'[l].by = journal[l].by
            BY <1>1, <1>4, <4>1, <4>4
          <5>2. \A l \in Protected :
                  /\ journal[l].phase # "none" =>
                        journal[l].owner \in Jobs /\ Accounts(journal[l].owner, l)
                  /\ journal[l].unit # "none" =>
                        journal[l].by \in Jobs /\ Accounts(journal[l].by, l)
            BY DEF IInv, TypeOK, Helper, Journals, Accounted
          <5>3. \A i \in Jobs, l \in Protected : Accounts(i, l)' <=> Accounts(i, l)
            BY <4>3, HelpFacts
          <5>4. ASSUME NEW l \in Protected
                PROVE  /\ journal'[l].phase # "none" => Accounts(journal[l].owner, l)'
                       /\ journal'[l].unit # "none" => Accounts(journal[l].by, l)'
            BY <5>1, <5>2, <5>3
          <5>5. QED
            BY <5>4 DEF Accounted
        <4>7. Committed'
          <5>1. ASSUME NEW i \in Jobs, NEW l \in Protected, job'[i].flag = "committed", Has(i, l)'
                PROVE  /\ baseline'[l] = job'[i].captured[l] /\ journal'[l].unit = "none"
                       /\ journal'[l].phase = "none" =>
                            journal'[l].receipt = i /\ runtime'[l] = job'[i].captured[l]
                       /\ journal'[l].phase # "none" =>
                            /\ journal'[l].phase = "awaiting" /\ journal'[l].owner = i
                            /\ journal'[l].restored \/ runtime'[l] = job'[i].captured[l]
            <6>1. job[i].flag = "committed" /\ Has(i, l) /\ Committed
              BY <2>1, <5>1 DEF Has, IInv, Helper
            <6>2. CASE l = k
              <7>1. /\ baseline[l] = job[i].captured[l] /\ jr.owner = i /\ jr.phase = "awaiting"
                BY <1>4, <2>4, <6>1, <6>2 DEF Committed
              <7>2. QED
                BY <1>1, <2>1, <4>1, <4>4, <6>2, <7>1
            <6>3. CASE l # k
              BY <1>1, <2>1, <4>4, <6>1, <6>3 DEF Committed
            <6>4. QED
              BY <6>2, <6>3
          <5>2. QED
            BY <5>1 DEF Committed
        <4>8. Receipts'
          BY <1>3, <1>4, <2>1, <4>1, <4>4 DEF IInv, Helper, Receipts, Has, Idle
        <4>9. \A l \in Protected : Refines(l)
          BY <1>4, <2>4, <4>1, <4>3, HelpRefines DEF Saved
        <4>10. IInv'
          BY <1>1, <1>3, <1>5, <2>2, <3>2, <4>1, <4>3, <4>5, <4>6, <4>7, <4>8,
             StartupHelps
             DEF IInv, TypeOK
        <4>11. QED
          BY <4>9, <4>10 DEF Good
      <3>6. QED
        BY <3>4, <3>5
    <2>5. QED
      BY <2>3, <2>4
  <1>8. QED
    BY <1>6, <1>7

(* One answer for each task that may have left a transaction.              *)
LEMMA StartupCallStep ==
  ASSUME IInv, NEW j \in Jobs, StartupCall(j)
  PROVE  Good
  <1>1. /\ web = "starting" /\ recovery[j] = "todo" /\ Holds(j)
        /\ UNCHANGED <<desired, baseline, job, exec, web>>
        /\ recovery \in [Jobs -> Answers \cup {"idle", "todo"}]
    BY DEF StartupCall, IInv, TypeOK, Startups
  <1>2. \A i \in Jobs : Holds(i) => i = j
    BY <1>1 DEF IInv, Rows, OneHolder
  <1>3. X.pc = "idle" /\ X'.pc = "idle"
    BY <1>1 DEF IInv, Thread, Threads, X
  <1>4. Startups /\ Flagged(j)
    BY DEF IInv, Rows, RowOK
  <1>5. ASSUME NEW a \in Answers, recovery' = [recovery EXCEPT ![j] = a],
               a = "none" => ~Has(j, "handoff") /\ (Has(j, "pair") => job[j].flag = "clear"),
               \A k \in Protected : Has(j, k) /\ Proven(a) => ~Busy(k)'
        PROVE  /\ recovery' \in [Jobs -> Answers \cup {"idle", "todo"}]
               /\ Startups'
    <2>1. /\ recovery' \in [Jobs -> Answers \cup {"idle", "todo"}] /\ recovery'[j] = a
          /\ \A i \in Jobs : i # j => recovery'[i] = recovery[i]
      BY <1>1, <1>5
    <2>2. \A i \in Jobs : i # j => recovery'[i] = "idle"
      BY <1>2, <1>4, <2>1 DEF Startups
    <2>3. Holds(j)' /\ (\A l : Has(j, l)' <=> Has(j, l)) /\ job'[j].flag = job[j].flag
      BY <1>1 DEF Holds, Active, Has
    <2>4. \A i \in Jobs : ~(job'[i].status = "pending" /\ job'[i].cancel = "requested")
      BY <1>1, <1>4 DEF Startups
    <2>5. Startups'
      BY <1>1, <1>5, <2>1, <2>2, <2>3, <2>4 DEF Startups
    <2>6. QED
      BY <2>1, <2>5
  <1>6. ASSUME NEW k \in Protected, NEW o, Leave(k, o), recovery' = [recovery EXCEPT ![j] = o.answer],
               \/ job[j].flag = "committed" /\ Has(j, k) /\ o \in Acknowledged(k, j)
               \/ /\ job[j].flag # "committed" /\ o \in Recovered(k, j)
                  /\ Has(j, k) /\ (k = "pair" => job[j].flag = "pending")
        PROVE  Good
    <2>1. /\ o.jr \in Journal /\ o.live \in Values /\ o.answer \in Answers \ {"none"}
          /\ o.cost \in {0, 1}
      BY <1>6, AckFacts, RecoverFacts
    <2>2. Helps(k, o.jr, o.live) /\ faults' \in 0 .. MaxFaults
      BY <1>1, <1>6, <2>1, SpendType DEF Helps, Leave
    <2>3. /\ Journals' /\ Accounted' /\ Committed' /\ Receipts'
          /\ o.jr.phase # "none" => o.jr.owner \in Jobs
          /\ \A l \in Protected : Refines(l)
          /\ Proven(o.answer) => ~Busy(k)'
      <3>1. CASE job[j].flag = "committed" /\ Has(j, k) /\ o \in Acknowledged(k, j)
        BY <1>2, <1>3, <2>2, <3>1, AckKeeps
      <3>2. CASE /\ job[j].flag # "committed" /\ o \in Recovered(k, j)
                 /\ (k = "pair" => job[j].flag = "pending")
        BY <1>2, <1>3, <2>2, <3>2, RecoverKeeps
      <3>3. QED
        BY <1>6, <3>1, <3>2
    <2>4. \A l \in Protected : Has(j, l) /\ Proven(o.answer) => ~Busy(l)'
      BY <1>6, <2>3, OnePart DEF IInv
    <2>5. recovery' \in [Jobs -> Answers \cup {"idle", "todo"}] /\ Startups'
      <3>1. PICK a \in Answers : a = o.answer
        BY <2>1
      <3>2. a # "none" /\ recovery' = [recovery EXCEPT ![j] = a]
        BY <1>6, <2>1, <3>1
      <3>3. QED
        BY <1>5, <2>4, <3>1, <3>2
    <2>6. IInv'
      BY <1>1, <1>3, <2>2, <2>3, <2>5, StartupHelps
    <2>7. QED
      BY <2>3, <2>6 DEF Good
  <1>7. CASE job[j].flag # "clear" /\ Has(j, "pair")
    <2> DEFINE S == IF job[j].flag = "committed" THEN Acknowledged("pair", j) ELSE RecoverPair(j)
    <2>1. Calls(j) = {<<"pair", o>> : o \in S}
      BY <1>7 DEF Calls
    <2>2. S # {}
      <3>1. RecoverPair(j) # {}
        BY DEF RecoverPair, Restored
      <3>2. Acknowledged("pair", j) # {}
        BY DEF Acknowledged
      <3>3. QED
        BY <3>1, <3>2
    <2> HIDE DEF S
    <2>3. PICK o \in S : Leave("pair", o) /\ recovery' = [recovery EXCEPT ![j] = o.answer]
      <3>1. Calls(j) # {}
        BY <2>1, <2>2
      <3>2. PICK c \in Calls(j) :
               Leave(c[1], c[2]) /\ recovery' = [recovery EXCEPT ![j] = c[2].answer]
        BY <3>1 DEF StartupCall
      <3>3. PICK o \in S : c = <<"pair", o>>
        BY <2>1, <3>2
      <3>4. c[1] = "pair" /\ c[2] = o
        BY <3>3
      <3>5. QED
        BY <3>2, <3>4
    <2>4. job[j].flag # "committed" => job[j].flag = "pending"
      BY <1>7 DEF IInv, TypeOK, JobRow
    <2>5. PICK k \in Protected : k = "pair"
      BY DEF Protected
    <2>6. o \in IF job[j].flag = "committed" THEN Acknowledged(k, j) ELSE Recovered(k, j)
      BY <2>3, <2>5 DEF S, Recovered
    <2>7. QED
      BY <1>6, <1>7, <2>3, <2>4, <2>5, <2>6
  <1>8. CASE ~(job[j].flag # "clear" /\ Has(j, "pair")) /\ Has(j, "handoff")
    <2> DEFINE S == IF job[j].flag = "committed" THEN Acknowledged("handoff", j) ELSE RecoverHandoff
    <2>1. Calls(j) = {<<"handoff", o>> : o \in S}
      BY <1>8 DEF Calls
    <2>2. S # {}
      <3>1. RecoverHandoff # {}
        BY DEF RecoverHandoff
      <3>2. Acknowledged("handoff", j) # {}
        BY DEF Acknowledged
      <3>3. QED
        BY <3>1, <3>2
    <2> HIDE DEF S
    <2>3. PICK o \in S : Leave("handoff", o) /\ recovery' = [recovery EXCEPT ![j] = o.answer]
      <3>1. Calls(j) # {}
        BY <2>1, <2>2
      <3>2. PICK c \in Calls(j) :
               Leave(c[1], c[2]) /\ recovery' = [recovery EXCEPT ![j] = c[2].answer]
        BY <3>1 DEF StartupCall
      <3>3. PICK o \in S : c = <<"handoff", o>>
        BY <2>1, <3>2
      <3>4. c[1] = "handoff" /\ c[2] = o
        BY <3>3
      <3>5. QED
        BY <3>2, <3>4
    <2>4. PICK k \in Protected : k = "handoff"
      BY DEF Protected
    <2>5. o \in IF job[j].flag = "committed" THEN Acknowledged(k, j) ELSE Recovered(k, j)
      BY <2>3, <2>4 DEF S, Recovered
    <2>6. QED
      BY <1>6, <1>8, <2>3, <2>4, <2>5
  <1>9. CASE ~(job[j].flag # "clear" /\ Has(j, "pair")) /\ ~Has(j, "handoff")
    <2>1. Calls(j) = {}
      BY <1>9 DEF Calls
    <2>2. recovery' = [recovery EXCEPT ![j] = "none"] /\ UNCHANGED <<journal, runtime, faults>>
      BY <2>1 DEF StartupCall
    <2>3. recovery' \in [Jobs -> Answers \cup {"idle", "todo"}] /\ Startups'
      <3>1. ~Proven("none") /\ "none" \in Answers
        BY DEF Proven, Answers
      <3>2. QED
        BY <1>5, <1>9, <2>2, <3>1
    <2>4. QED
      BY <1>1, <1>3, <2>2, <2>3, KeptStep
  <1>10. QED
    BY <1>7, <1>8, <1>9

(* All answers are in: the tasks end, and the locks fall or stay.          *)
LEMMA StartupCommitStep ==
  ASSUME IInv, StartupCommit
  PROVE  Good
  <1>1. /\ web = "starting" /\ web' = "up" /\ recovery' = [j \in Jobs |-> "idle"]
        /\ job' = [j \in Jobs |-> IF recovery[j] = "idle" THEN job[j]
                     ELSE [job[j] EXCEPT !.status = "failed", !.steps = Stopped(@),
                                         !.flag = FlagAfter(j)]]
        /\ UNCHANGED <<desired, baseline, runtime, exec, journal, faults>>
        /\ \A j \in Jobs : recovery[j] # "todo"
    BY DEF StartupCommit
  <1>2. X.pc = "idle" /\ X' = Idle /\ X'.pc = "idle"
    BY <1>1 DEF IInv, Thread, Threads, X
  <1>3. recovery' \in [Jobs -> Answers \cup {"idle", "todo"}] /\ Startups'
    BY <1>1 DEF Startups
  <1>4. CASE \A j \in Jobs : recovery[j] = "idle"
    <2>1. job' = job
      BY <1>1, <1>4 DEF IInv, TypeOK
    <2>2. QED
      BY <1>1, <1>2, <1>3, <2>1, KeptStep
  <1>5. CASE ~\A j \in Jobs : recovery[j] = "idle"
    <2>1. PICK j \in Jobs : recovery[j] # "idle"
      BY <1>5
    <2>2. /\ Holds(j)
          /\ recovery[j] = "none" => ~Has(j, "handoff") /\ (Has(j, "pair") => job[j].flag = "clear")
          /\ \A k \in Protected : Has(j, k) /\ Proven(recovery[j]) => ~Busy(k)
      BY <2>1 DEF IInv, Startups
    <2>3. \A i \in Jobs : Holds(i) => i = j
      BY <2>2 DEF IInv, Rows, OneHolder
    <2>4. \A i \in Jobs : i # j => recovery[i] = "idle"
      BY <2>3 DEF IInv, Startups
    <2> DEFINE f == FlagAfter(j)
               s == Stopped(job[j].steps)
               r == [job[j] EXCEPT !.status = "failed", !.steps = s, !.flag = f]
    <2>5. /\ job[j] \in JobRow /\ job[j].flag \in {"clear", "pending", "committed"} /\ Flagged(j)
          /\ DOMAIN job[j].steps = DOMAIN job[j].plan
      BY DEF IInv, TypeOK, JobRow, Rows, RowOK
    <2>6. /\ f \in {"clear", "pending", "committed"}
          /\ f = "clear" => job[j].flag = "clear" \/ Proven(recovery[j])
          /\ f = "pending" => job[j].flag = "pending" \/ Has(j, "handoff")
          /\ f = "committed" => job[j].flag = "committed"
          /\ job[j].flag = "committed" => f # "pending"
          /\ Has(j, "handoff") /\ f = "clear" => Proven(recovery[j])
      <3>1. CASE recovery[j] = "none"
        BY <2>2, <2>5, <3>1 DEF FlagAfter
      <3>2. CASE recovery[j] # "none" /\ ~Has(j, "handoff")
        BY <2>5, <3>2 DEF FlagAfter
      <3>3. CASE recovery[j] # "none" /\ Has(j, "handoff")
        BY <2>5, <3>3 DEF FlagAfter, Proven
      <3>4. QED
        BY <3>1, <3>2, <3>3
    <2>7. /\ s \in Seq(StepStates) /\ DOMAIN s = DOMAIN job[j].steps
          /\ \A n \in DOMAIN s : s[n] \notin {"pending", "running"}
      BY <2>5, StepUpdates, StoppedSteps DEF JobRow, StepStates
    <2>8. job' = [job EXCEPT ![j] = r]
      BY <1>1, <2>1, <2>4 DEF IInv, TypeOK
    <2> HIDE DEF f, s
    <2>9. /\ r \in JobRow /\ r.plan = job[j].plan /\ r.captured = job[j].captured
          /\ r.status = "failed" /\ r.steps = s /\ r.flag = f
      BY <2>5, <2>6, <2>7 DEF JobRow, Statuses
    <2> HIDE DEF r
    <2>10. /\ job' \in [Jobs -> JobRow] /\ job'[j] = r
           /\ \A i \in Jobs : i # j => job'[i] = job[i]
      BY <2>8, <2>9 DEF IInv, TypeOK
    <2>11. Alters(j)
      BY <2>3, <2>9, <2>10 DEF Alters
    <2>12. TypeOK'
      <3>1. \A i \in Jobs : DOMAIN job'[i].steps = DOMAIN job'[i].plan
        BY <2>5, <2>7, <2>9, <2>10 DEF IInv, TypeOK
      <3>2. QED
        BY <1>1, <1>3, <2>10, <3>1 DEF IInv, TypeOK
    <2>13. Untouched(j)' /\ Verdict(j)' /\ Planned(j)'
      <3>1. Planned(j)'
        <4>1. job[j].status # "new"
          BY <2>2, <2>5 DEF Holds, Active, Flagged
        <4>2. QED
          BY <2>9, <2>10, <4>1 DEF IInv, Rows, RowOK, Planned
      <3>2. QED
        BY <2>7, <2>9, <2>10, <3>1 DEF Untouched, Verdict, NoneOpen
    <2>14. Flagged(j)'
      <3>1. f # "clear" => \E k \in Protected : Has(j, k)
        BY <2>5, <2>6 DEF Flagged, Protected
      <3>2. \A k \in Protected : Has(j, k)' <=> Has(j, k)
        BY <2>9, <2>10 DEF Has
      <3>3. QED
        BY <2>5, <2>7, <2>9, <2>10, <3>1, <3>2 DEF Flagged
    <2>15. Keeps(j)
      <3>1. ~InHandoff(j)'
        BY <2>9, <2>10 DEF InHandoff
      <3>2. ASSUME NEW k \in Protected, Busy(k), Accounts(j, k) PROVE Accounts(j, k)'
        <4>1. Has(j, k)'
          BY <2>9, <2>10, <3>2 DEF Accounts, Has
        <4>2. ~Proven(recovery[j])
          BY <2>2, <3>2 DEF Accounts
        <4>3. f # "clear"
          BY <2>6, <3>2, <4>2 DEF Accounts, InHandoff
        <4>4. QED
          BY <2>9, <2>10, <4>1, <4>3 DEF Accounts
      <3>3. journal["pair"].receipt = j => Has(j, "pair") /\ job[j].flag # "pending"
        BY DEF IInv, Helper, Receipts
      <3>4. journal["pair"].receipt = j => f # "pending"
        <4>1. Has(j, "pair") => ~Has(j, "handoff")
          BY OnePart DEF IInv, Protected
        <4>2. QED
          BY <2>6, <3>3, <4>1
      <3>5. journal["pair"].receipt = j => \A n \in DOMAIN job[j].plan : s[n] # "pending"
        BY <2>5, <2>7
      <3>6. QED
        BY <1>2, <2>2, <2>6, <2>9, <2>10, <3>1, <3>2, <3>4, <3>5 DEF Keeps
    <2>16. Still
      BY <1>1 DEF Still
    <2>17. Thread' /\ Known'
      BY <1>1, <1>2, IdleKnows DEF IInv, Thread, Threads
    <2>18. QED
      BY <1>1, <1>2, <1>3, <2>11, <2>12, <2>13, <2>14, <2>15, <2>16, <2>17, AlterStep
  <1>6. QED
    BY <1>4, <1>5

-----------------------------------------------------------------------------
(* The invariant holds throughout.                                         *)

(* The invariant holds at first.                                           *)
LEMMA InitHolds == Init => IInv
  <1> SUFFICES ASSUME Init PROVE IInv
    OBVIOUS
  <1>1. /\ 0 \in Versions /\ 1 \in Versions /\ 0 \in Values /\ MaxEdits \in Nat /\ MaxFaults \in Nat
    BY ApplyConstants DEF Versions, Values
  <1>2. NewJob \in JobRow /\ DOMAIN NewJob.steps = DOMAIN NewJob.plan
    <2>1. <<>> \in Seq(StepStates)
      BY EmptySeq
    <2>2. QED
      BY <1>1, <2>1 DEF NewJob, JobRow, Statuses
  <1>3. NoJournal \in Journal
    BY <1>1 DEF NoJournal, Journal, NoJob
  <1>4. /\ \A j \in Jobs : job[j] = NewJob /\ recovery[j] = "idle"
        /\ \A p \in Procs : exec[p] = Idle
        /\ \A k \in Protected : journal[k] = NoJournal
        /\ X = Idle
    BY ApplyConstants DEF Init, X
  <1>5. TypeOK
    <2>1. /\ desired \in [Items -> Versions] /\ baseline \in [Items -> Versions]
          /\ runtime \in [Items -> Values] /\ faults \in 0 .. MaxFaults
      BY <1>1 DEF Init, Values
    <2>2. /\ job \in [Jobs -> JobRow] /\ exec \in [Procs -> ExecRow]
          /\ journal \in [Protected -> Journal]
          /\ recovery \in [Jobs -> Answers \cup {"idle", "todo"}]
      BY <1>2, <1>3, IdleRow DEF Init
    <2>3. \A k \in Protected : journal[k].phase = "none"
      BY <1>4 DEF NoJournal
    <2>4. QED
      BY <1>2, <1>4, <2>1, <2>2, <2>3 DEF TypeOK, Init
  <1>6. \A j \in Jobs : /\ ~Holds(j) /\ RowOK(j) /\ job[j].flag = "clear"
    <2> SUFFICES ASSUME NEW j \in Jobs PROVE ~Holds(j) /\ RowOK(j) /\ job[j].flag = "clear"
      OBVIOUS
    <2>1. job[j].status = "new" /\ job[j].flag = "clear" /\ job[j].steps = <<>>
      BY <1>4 DEF NewJob
    <2>2. QED
      BY <2>1 DEF Holds, Active, RowOK, Planned, Untouched, Flagged, Verdict
  <1>7. Rows
    <2>1. Edited
      BY <1>1 DEF Edited, Init, Items, Protected
    <2>2. QED
      BY <1>6, <2>1 DEF Rows, OneHolder, Alone
  <1>8. Thread
    <2>1. X.pc = "idle" /\ ~X.pending /\ ~X.committed
      BY <1>4 DEF Idle
    <2>2. Threads
      BY <1>4, <2>1 DEF Threads
    <2>3. Place /\ Steps /\ Flags
      BY <2>1 DEF Place, Steps, Flags, InPart, OnPair, OnUnit, Either
    <2>4. Handoff
      BY <2>1 DEF Handoff, OnPair, OnUnit, Either
    <2>5. QED
      BY <2>2, <2>3, <2>4 DEF Thread
  <1>9. Helper
    <2>1. \A k \in Protected : /\ journal[k].phase = "none" /\ journal[k].unit = "none"
                               /\ ~journal[k].restored /\ journal[k].receipt = NoJob
      BY <1>4 DEF NoJournal
    <2>2. Journals /\ Accounted
      BY <2>1 DEF Journals, Accounted
    <2>3. Committed
      BY <1>6 DEF Committed
    <2>4. Receipts
      BY <2>1 DEF Receipts, Protected, NoJob, Jobs
    <2>5. X.pc = "idle"
      BY <1>4 DEF Idle
    <2>6. Known
      BY <2>5 DEF Known
    <2>7. QED
      BY <2>2, <2>3, <2>4, <2>6 DEF Helper
  <1>10. Startups
    BY <1>4 DEF Startups, Init
  <1>11. QED
    BY <1>5, <1>7, <1>8, <1>9, <1>10 DEF IInv

(* Every step keeps the invariant and refines.                             *)
LEMMA StepHolds ==
  ASSUME IInv, [Next]_vars
  PROVE  Good
  <1>1. CASE UNCHANGED vars
    <2>1. TypeOK' /\ Edited'
      BY <1>1 DEF IInv, TypeOK, Rows, Edited, vars
    <2>2. QED
      BY <1>1, <2>1, IdleStep DEF vars
  <1>2. CASE \E i \in Items : Edit(i)
    BY <1>2, EditStep
  <1>3. CASE \E j \in Jobs, plan \in Plans : Submit(j, plan)
    BY <1>3, SubmitStep
  <1>4. CASE \E j \in Jobs : RequestCancel(j) \/ FinishPending(j) \/ SettleRequest(j)
    BY <1>4, RequestCancelStep, FinishPendingStep, SettleRequestStep
  <1>5. CASE \E p \in Procs : ExecStep(p) \/ Raise(p)
    <2>1. PICK p \in Procs : ExecStep(p) \/ Raise(p)
      BY <1>5
    <2>2. CASE Claim(p) \/ Check(p) \/ Loop(p) \/ ApplyUnit(p) \/ UnitApplied(p) \/ UnitBroken(p)
      BY <2>2, ClaimStep, CheckStep, LoopStep, ApplyUnitStep, UnitAppliedStep,
         UnitBrokenStep
    <2>3. CASE FlagPair(p) \/ Validate(p) \/ Wait(p) \/ Recover(p) \/ PartFailed(p)
      BY <2>3, FlagPairStep, ValidateStep, WaitStep, RecoverStep, PartFailedStep
    <2>4. CASE Commit(p) \/ Acknowledge(p) \/ Settle(p) \/ Paired(p) \/ Finish(p) \/ Audit(p)
      BY <2>4, CommitStep, AcknowledgeStep, SettleStep, PairedStep, FinishStep,
         AuditStep
    <2>5. CASE PairRaise(p) \/ PairCleanup(p) \/ Reconcile(p) \/ Handle(p) \/ Raise(p)
      BY <2>5, PairRaiseStep, PairCleanupStep, ReconcileStep, HandleStep, RaiseStep
    <2>6. QED
      BY <2>1, <2>2, <2>3, <2>4, <2>5 DEF ExecStep
  <1>6. CASE \E k \in Protected : UnitStep(k) \/ UnitFails(k)
    BY <1>6, UnitBeginStep, UnitDoneStep, UnitFailsStep DEF UnitStep
  <1>7. CASE WebStops \/ Reboot \/ Startup
    BY <1>7, WebStopsStep, RebootStep, WebStartsStep, StartupCallStep, StartupCommitStep
       DEF Startup
  <1>8. QED
    BY <1>1, <1>2, <1>3, <1>4, <1>5, <1>6, <1>7 DEF Next

(* The inductive invariant.                                                *)
THEOREM Invariance == Spec => []IInv
  <1>1. IInv /\ [Next]_vars => IInv'
    BY StepHolds DEF Good
  <1>2. QED
    BY InitHolds, <1>1, PTL DEF Spec

(* Every variable of the global apply keeps its type, and a task has a     *)
(* step for each part of its plan.                                         *)
THEOREM TypeCorrect == Spec => []TypeOK
  <1>1. IInv => TypeOK
    BY DEF IInv
  <1>2. QED
    BY <1>1, Invariance, PTL

(* A journal the helper keeps and a unit at work belong to a task that     *)
(* holds the global lock (active_appliance_apply_job), whatever crashed,   *)
(* was lost or was retried before.                                         *)
THEOREM NothingOpenUnlocked == Spec => []OpenIsOwned
  <1>1. ASSUME IInv PROVE OpenIsOwned
    <2>1. \A k \in Protected :
             /\ journal[k].phase # "none" => journal[k].owner \in Jobs /\ Accounts(journal[k].owner, k)
             /\ journal[k].unit # "none" => journal[k].by \in Jobs /\ Accounts(journal[k].by, k)
      BY <1>1 DEF IInv, TypeOK, Helper, Journals, Accounted
    <2>2. QED
      BY <2>1, AccountsHolds DEF OpenIsOwned
  <1>2. QED
    BY <1>1, Invariance, PTL

(* The status a finished task shows agrees with its components and with    *)
(* what the helper has acknowledged, save that a request during the last   *)
(* component after a handoff cancels a task that left out nothing          *)
(* (run_appliance_apply_job, its handler and                               *)
(* recover_interrupted_appliance_apply_jobs).                              *)
THEOREM VerdictsAreHonest == Spec => []VerdictHonest
  <1>1. ASSUME IInv PROVE VerdictHonest
    <2> SUFFICES ASSUME NEW j \in Jobs
                 PROVE  LET s == {job[j].steps[n] : n \in DOMAIN job[j].steps} IN
                        /\ job[j].status = "succeeded" => s = {"succeeded"} /\ job[j].flag = "clear"
                        /\ job[j].status = "cancelled" =>
                              /\ s \subseteq {"succeeded", "skipped"} /\ job[j].flag = "clear"
                              /\ "skipped" \in s \/ Trails(j)
                        /\ job[j].status = "failed" => s \cap {"pending", "running"} = {}
      BY DEF VerdictHonest
    <2> DEFINE s == {job[j].steps[n] : n \in DOMAIN job[j].steps}
    <2>1. Verdict(j) /\ Planned(j) /\ TypeOK
      BY <1>1 DEF IInv, Rows, RowOK
    <2>2. job[j].status # "new" => 1 \in DOMAIN job[j].steps
      BY <2>1, PlanFacts DEF Planned
    <2>3. job[j].status = "succeeded" => s = {"succeeded"} /\ job[j].flag = "clear"
      BY <2>1, <2>2 DEF Verdict, AllSucceeded
    <2>4. job[j].status = "cancelled" =>
             /\ s \subseteq {"succeeded", "skipped"} /\ job[j].flag = "clear"
             /\ "skipped" \in s \/ Trails(j)
      BY <2>1 DEF Verdict, LeftOut
    <2>5. job[j].status = "failed" => s \cap {"pending", "running"} = {}
      BY <2>1 DEF Verdict, NoneOpen
    <2>6. QED
      BY <2>3, <2>4, <2>5
  <1>2. QED
    BY <1>1, Invariance, PTL

-----------------------------------------------------------------------------
(* The refinement.                                                         *)

(* The phases of a change.                                                 *)
LEMMA ChangeStates == \A k \in Protected : Change(k) \in {"none", "active", "committed"}
  BY DEF Change

(* Initially no change is open.                                            *)
LEMMA AbstractInit == Init => PC!Init
  <1> SUFFICES ASSUME Init PROVE PC!Init
    OBVIOUS
  <1>1. TypeOK
    BY InitHolds DEF IInv
  <1>2. /\ \A k \in Protected : baseline[k] \in Values /\ runtime[k] \in Values
    BY <1>1 DEF TypeOK, Items, Values
  <1>3. \A k \in Protected : journal[k].phase = "none"
    BY DEF Init, NoJournal
  <1>4. \A k \in Protected : Change(k) = "none"
    <2>1. \A j \in Jobs : job[j].flag = "clear" /\ job[j].status = "new"
      BY DEF Init, NewJob
    <2>2. QED
      BY <2>1 DEF Change
  <1>5. QED
    BY <1>2, <1>3, <1>4 DEF PC!Init

(* Every step of the apply is a step of the protected change, or leaves it *)
(* as it is.                                                               *)
LEMMA AbstractStep ==
  ASSUME \A k \in Protected : Refines(k)
  PROVE  PC!Next
  <1> SUFFICES ASSUME NEW k \in Protected
               PROVE  \/ PC!Open(k) \/ PC!Work(k) \/ PC!Decide(k) \/ PC!Settle(k)
                      \/ PC!RollBack(k) \/ PC!Complete(k) \/ PC!Unprotected(k)
    BY DEF PC!Next
  <1> DEFINE now == Change(k)
             nxt == Change(k)'
  <1>1. /\ PC!Moves(k, "none", "active") <=> now = "none" /\ nxt = "active"
        /\ PC!Moves(k, "active", "active") <=> now = "active" /\ nxt = "active"
        /\ PC!Moves(k, "active", "committed") <=> now = "active" /\ nxt = "committed"
        /\ PC!Moves(k, "committed", "committed") <=> now = "committed" /\ nxt = "committed"
        /\ PC!Moves(k, "active", "none") <=> now = "active" /\ nxt = "none"
        /\ PC!Moves(k, "committed", "none") <=> now = "committed" /\ nxt = "none"
        /\ PC!Moves(k, "none", "none") <=> now = "none" /\ nxt = "none"
    BY DEF PC!Moves
  <1>2. now \in {"none", "active", "committed"}
    BY ChangeStates
  <1> HIDE DEF now, nxt
  <1>3. CASE Same(k)
    BY <1>1, <1>2, <1>3 DEF Same, Saved, PC!Work, PC!Settle, PC!Unprotected, now, nxt
  <1>4. CASE Decides(k) /\ runtime'[k] = runtime[k]
    BY <1>1, <1>4 DEF Decides, PC!Decide, now, nxt
  <1>5. CASE Opens(k) /\ runtime'[k] = runtime[k] /\ baseline'[k] = baseline[k]
    BY <1>1, <1>5 DEF Opens, Saved, PC!Open, now, nxt
  <1>6. CASE Closes(k) /\ runtime'[k] = runtime[k] /\ baseline'[k] = baseline[k]
    BY <1>1, <1>2, <1>6 DEF Closes, Saved, PC!RollBack, PC!Complete, now, nxt
  <1>7. QED
    BY <1>3, <1>4, <1>5, <1>6 DEF Refines

(* The handoff and the pair, with their journals, receipts, flags, lost    *)
(* answers, crashes and recoveries, implement ProtectedChange: a change is *)
(* closed only when what runs is what ran before or what was recorded.     *)
THEOREM Refinement == Spec => Protects
  <1>1. IInv /\ [Next]_vars => PC!Next
    BY StepHolds, AbstractStep DEF Good
  <1>2. QED
    BY AbstractInit, Invariance, <1>1, PTL DEF Spec, Protects, PC!Spec
=============================================================================
