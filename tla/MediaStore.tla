------------------------------ MODULE MediaStore ------------------------------
(***************************************************************************)
(* The network boot media cache: one version of one environment, its       *)
(* directories, its database row and the manifest the last apply made      *)
(* active, under the transaction that replaces a damaged copy              *)
(*                                                                         *)
(*   atlaso/app/services/network_boot.py  sync_network_boot_media,         *)
(*       DeferredNetworkBootMediaSync, recover_interrupted_network_boot_   *)
(*       media_swaps, prune_superseded_shredos_media,                      *)
(*       remove_inactive_network_boot_media                                *)
(*   atlaso/app/ui.py                     run_appliance_apply_job          *)
(*                                                                         *)
(* The worker synchronises and deletes, the web process applies and        *)
(* prunes, and both recover at startup.  One action is one effect on the   *)
(* file system or one committed transaction, so that either process may    *)
(* die between any two of them.  Whether a worker may run a job at all is  *)
(* TaskQueue's subject.                                                    *)
(***************************************************************************)
EXTENDS Integers, FiniteSets

CONSTANTS
    MaxSyncs,   \* bound: swap transactions ever begun
    MaxFaults   \* bound: crashes, failed file operations, damaged copies

ASSUME MediaStoreConstants == MaxSyncs \in Nat /\ MaxFaults \in Nat

(* Directory 0 is named after the version; directory t carries the digest  *)
(* and the identity of transaction t (ShredOS only).                       *)
Tx    == 1 .. MaxSyncs
Dirs  == 0 .. MaxSyncs
NoDir == -1
NoTx  == 0

Content == {"none", "good", "bad"}
Procs   == {"worker", "web"}

VARIABLES
    shred,    \* the environment is ShredOS
    dir,      \* what each public directory holds
    row,      \* the directory the committed media row names
    applied,  \* the directory the applied manifest names
    enabled,  \* the desired state
    tx,       \* journal, backup and staging directory of each transaction
    lock,     \* the holder of the recovery lock
    proc,     \* the two processes
    faults

vars == <<shred, dir, row, applied, enabled, tx, lock, proc, faults>>

Pcs == {"down", "journals", "forward", "backward", "restore", "close", "idle",
        "stage", "lease", "acquire", "lock", "journal", "move", "publish",
        "unstage", "commit", "cleanbackup", "cleangone", "cleanjournal",
        "undo", "undobackup", "undojournal",
        "handle", "handlebackup", "handlejournal", "remove", "forget",
        "applying", "prune"}

(* `phase' is not in the code: it remembers whether the directory holds    *)
(* what the transaction published, whether its row was committed, and      *)
(* whether an intact backup was put back.                                  *)
Phases == {"begun", "published", "done", "restored"}
NewTx  == [journal |-> FALSE, final |-> NoDir, backup |-> "none",
           staging |-> "none", phase |-> "begun"]
Idle  == [pc |-> "idle", tx |-> NoTx, gone |-> NoDir, moves |-> FALSE]
Down  == [Idle EXCEPT !.pc = "down"]

TxRecord   == [journal : BOOLEAN, final : Dirs \cup {NoDir}, backup : Content,
               staging : {"none", "bare", "leased"}, phase : Phases]
ProcRecord == [pc : Pcs, tx : Tx \cup {NoTx}, gone : Dirs \cup {NoDir}, moves : BOOLEAN]

CacheTyped ==
    /\ shred \in BOOLEAN /\ enabled \in BOOLEAN
    /\ dir \in [Dirs -> Content]
    /\ row \in Dirs \cup {NoDir} /\ applied \in Dirs \cup {NoDir}
JournalsNamed == \A t \in Tx : tx[t].journal => tx[t].final \in Dirs
ProcsTyped ==
    /\ tx \in [Tx -> TxRecord]
    /\ lock \in Procs \cup {"free"}
    /\ proc \in [Procs -> ProcRecord]
    /\ faults \in 0 .. MaxFaults

(* The type invariant; every journal names a directory of the cache.       *)
TypeOK == CacheTyped /\ JournalsNamed /\ ProcsTyped

Init ==
    /\ shred \in BOOLEAN
    /\ dir = [d \in Dirs |-> "none"]
    /\ row = NoDir /\ applied = NoDir /\ enabled = FALSE
    /\ tx = [t \in Tx |-> NewTx]
    /\ lock = "free"
    /\ proc = [p \in Procs |-> Down]
    /\ faults = 0

Fault == /\ faults < MaxFaults
         /\ faults' = faults + 1

At(p, pc)   == proc[p].pc = pc
Goto(p, pc) == proc' = [proc EXCEPT ![p].pc = pc]

(* _verified_cached_media on the committed row.                            *)
Verified == row # NoDir /\ dir[row] = "good"

(* _MediaSwapRecoveryLock.acquire succeeds.                                *)
LockIgnored == TRUE
LockFree == lock = "free"

-----------------------------------------------------------------------------
(* sync_network_boot_media, in the worker.                                 *)
W   == proc["worker"]
Cur == tx[W.tx]

(* A damaged active ShredOS copy is left to its clients and repaired in a  *)
(* directory of its own; every other copy is replaced in place.            *)
Unique == shred /\ row # NoDir /\ applied # NoDir
RowDir(t)   == IF Unique THEN t ELSE row
FinalDir(t) == IF Unique THEN t ELSE 0

SyncBegin(t) ==
    /\ At("worker", "idle") /\ ~Verified
    /\ tx[t] = NewTx /\ \A u \in Tx : u < t => tx[u] # NewTx
    /\ tx' = [tx EXCEPT ![t].final = FinalDir(t)]
    /\ proc' = [proc EXCEPT !["worker"] =
                   [pc |-> "stage", tx |-> t,
                    gone |-> IF Unique /\ applied # row THEN row ELSE NoDir,
                    moves |-> ~Unique /\ dir[0] # "none"]]
    /\ UNCHANGED <<shred, dir, row, applied, enabled, lock, faults>>

(* tempfile.TemporaryDirectory, then the lease, taken under the lock.      *)
Stage ==
    /\ At("worker", "stage")
    /\ tx' = [tx EXCEPT ![W.tx].staging = "bare"]
    /\ Goto("worker", "lease")
    /\ UNCHANGED <<shred, dir, row, applied, enabled, lock, faults>>

Lease ==
    /\ At("worker", "lease") /\ LockFree
    /\ tx' = [tx EXCEPT ![W.tx].staging = "leased"]
    /\ Goto("worker", "acquire")
    /\ UNCHANGED <<shred, dir, row, applied, enabled, lock, faults>>

(* Acquisition, verification and extraction, or their failure.             *)
Acquire ==
    /\ At("worker", "acquire")
    /\ \/ Goto("worker", "lock") /\ UNCHANGED tx
       \/ /\ tx' = [tx EXCEPT ![W.tx].staging = "none"]
          /\ proc' = [proc EXCEPT !["worker"] = Idle]
    /\ UNCHANGED <<shred, dir, row, applied, enabled, lock, faults>>

TakeLock ==
    /\ At("worker", "lock") /\ LockFree
    /\ lock' = "worker"
    /\ Goto("worker", "journal")
    /\ UNCHANGED <<shred, dir, row, applied, enabled, tx, faults>>

(* A journal whose write fails may still be there, complete.               *)
WriteJournal ==
    /\ At("worker", "journal")
    /\ \/ /\ tx' = [tx EXCEPT ![W.tx].journal = TRUE]
          /\ Goto("worker", "move")
          /\ UNCHANGED <<lock, faults>>
       \/ /\ Fault
          /\ \E left \in BOOLEAN :
                tx' = [tx EXCEPT ![W.tx].journal = left, ![W.tx].staging = "none"]
          /\ lock' = "free"
          /\ proc' = [proc EXCEPT !["worker"] = Idle]
    /\ UNCHANGED <<shred, dir, row, applied, enabled>>

(* The replaced directory becomes the backup; a prune may have removed it. *)
MoveAside ==
    /\ At("worker", "move")
    /\ \/ /\ W.moves /\ dir[0] # "none"
          /\ tx' = [tx EXCEPT ![W.tx].backup = dir[0]]
          /\ dir' = [dir EXCEPT ![0] = "none"]
          /\ Goto("worker", "publish")
          /\ UNCHANGED faults
       \/ /\ ~W.moves
          /\ Goto("worker", "publish")
          /\ UNCHANGED <<dir, tx, faults>>
       \/ /\ W.moves
          /\ Fault \/ (dir[0] = "none" /\ UNCHANGED faults)
          /\ Goto("worker", "handlebackup")
          /\ UNCHANGED <<dir, tx>>
    /\ UNCHANGED <<shred, row, applied, enabled, lock>>

(* The rename fails (onto a directory the other process's recovery has     *)
(* just restored, it must), or the directory cannot be synchronised.       *)
Publish ==
    /\ At("worker", "publish")
    /\ \/ /\ dir[Cur.final] = "none"
          /\ dir' = [dir EXCEPT ![Cur.final] = "good"]
          /\ tx' = [tx EXCEPT ![W.tx].phase = "published"]
          /\ \/ Goto("worker", "unstage") /\ UNCHANGED faults
             \/ Goto("worker", "handle") /\ Fault
       \/ /\ Fault \/ (dir[Cur.final] # "none" /\ UNCHANGED faults)
          /\ Goto("worker", "handlebackup")
          /\ UNCHANGED <<dir, tx>>
    /\ UNCHANGED <<shred, row, applied, enabled, lock>>

(* The lease ends and the staging directory is removed; an error here      *)
(* escapes with the lock held.                                             *)
Unstage ==
    /\ At("worker", "unstage")
    /\ \/ /\ tx' = [tx EXCEPT ![W.tx].staging = "none"]
          /\ Goto("worker", "commit")
          /\ UNCHANGED faults
       \/ /\ Fault
          /\ proc' = [proc EXCEPT !["worker"] = Idle]
          /\ UNCHANGED tx
    /\ UNCHANGED <<shred, dir, row, applied, enabled, lock>>

(* The row is committed with the job's completion, or the job was          *)
(* cancelled or raised, or the row could not be recorded.                  *)
CommitRow ==
    /\ At("worker", "commit")
    /\ \/ /\ row' = Cur.final
          /\ tx' = [tx EXCEPT ![W.tx].phase = "done"]
          /\ Goto("worker", "cleanbackup")
       \/ /\ Goto("worker", "undo") \/ Goto("worker", "handle")
          /\ UNCHANGED <<row, tx>>
    /\ UNCHANGED <<shred, dir, applied, enabled, lock, faults>>

(* commit_filesystem, step by step.                                        *)
CleanBackup ==
    /\ At("worker", "cleanbackup")
    /\ tx' = [tx EXCEPT ![W.tx].backup = "none"]
    /\ Goto("worker", "cleangone")
    /\ UNCHANGED <<shred, dir, row, applied, enabled, lock, faults>>

CleanSuperseded ==
    /\ At("worker", "cleangone")
    /\ dir' = [d \in Dirs |-> IF d = W.gone THEN "none" ELSE dir[d]]
    /\ Goto("worker", "cleanjournal")
    /\ UNCHANGED <<shred, row, applied, enabled, tx, lock, faults>>

(* rollback_filesystem, step by step, and the two exception handlers of    *)
(* sync_network_boot_media, which take the same steps.                     *)
UndoUnlinked ==
    /\ W.pc \in {"undo", "handle"}
    /\ dir' = [dir EXCEPT ![Cur.final] = "none"]
    /\ tx' = [tx EXCEPT ![W.tx].phase = "begun", ![W.tx].journal = FALSE]
    /\ Goto("worker", IF W.pc = "undo" THEN "undobackup" ELSE "handlebackup")
    /\ UNCHANGED <<shred, row, applied, enabled, lock, faults>>

UndoPublish ==
    /\ W.pc \in {"undo", "handle"}
    /\ dir' = [dir EXCEPT ![Cur.final] = "none"]
    /\ tx' = [tx EXCEPT ![W.tx].phase = "begun"]
    /\ Goto("worker", IF W.pc = "undo" THEN "undobackup" ELSE "handlebackup")
    /\ UNCHANGED <<shred, row, applied, enabled, lock, faults>>

(* The contents of the cache once t's backup is back in place.             *)
Restored(t) == IF tx[t].backup = "none" THEN dir
               ELSE [dir EXCEPT ![tx[t].final] = tx[t].backup]

PhaseAfter(t) == IF tx[t].backup = "good" THEN "restored" ELSE tx[t].phase

UndoBackup ==
    /\ W.pc \in {"undobackup", "handlebackup"}
    /\ dir' = Restored(W.tx)
    /\ tx' = [tx EXCEPT ![W.tx].backup = "none", ![W.tx].phase = PhaseAfter(W.tx)]
    /\ Goto("worker", IF W.pc = "undobackup" THEN "undojournal" ELSE "handlejournal")
    /\ UNCHANGED <<shred, row, applied, enabled, lock, faults>>

(* The last step of each: the journal goes, the lock is released.          *)
Unlink ==
    /\ W.pc \in {"cleanjournal", "undojournal", "handlejournal"}
    /\ tx' = [tx EXCEPT ![W.tx].journal = FALSE, ![W.tx].staging = "none"]
    /\ lock' = "free"
    /\ proc' = [proc EXCEPT !["worker"] = Idle]
    /\ UNCHANGED <<shred, dir, row, applied, enabled, faults>>

(* A failed file operation leaves the rest to recovery.  The two methods   *)
(* release the lock in a finally clause; the handlers do not.              *)
InMethod  == W.pc \in {"cleanbackup", "cleangone", "cleanjournal",
                       "undo", "undobackup", "undojournal"}
InHandler == W.pc \in {"handle", "handlebackup", "handlejournal"}

CleanFails ==
    /\ InMethod \/ InHandler
    /\ Fault
    /\ tx' = [tx EXCEPT ![W.tx].staging = "none"]
    /\ lock' = IF InMethod THEN "free" ELSE lock
    /\ proc' = [proc EXCEPT !["worker"] = Idle]
    /\ UNCHANGED <<shred, dir, row, applied, enabled>>

-----------------------------------------------------------------------------
(* remove_inactive_network_boot_media, in the worker, without the lock.    *)
Removable == row # NoDir /\ applied = NoDir /\ ~enabled /\ dir[row] # "none"

RemoveCheck ==
    /\ At("worker", "idle") /\ Removable
    /\ proc' = [proc EXCEPT !["worker"].pc = "remove", !["worker"].gone = row]
    /\ UNCHANGED <<shred, dir, row, applied, enabled, tx, lock, faults>>

RemoveTree ==
    /\ At("worker", "remove")
    /\ dir' = [dir EXCEPT ![W.gone] = "none"]
    /\ Goto("worker", "forget")
    /\ UNCHANGED <<shred, row, applied, enabled, tx, lock, faults>>

RemoveRow ==
    /\ At("worker", "forget")
    /\ row' = NoDir \/ UNCHANGED row
    /\ proc' = [proc EXCEPT !["worker"] = Idle]
    /\ UNCHANGED <<shred, dir, applied, enabled, tx, lock, faults>>

-----------------------------------------------------------------------------
(* The web process: desired state, apply and prune.  Requests that change  *)
(* the desired state are refused while an apply runs.                      *)
SetDesired ==
    /\ At("web", "idle")
    /\ enabled' = ~enabled /\ (enabled' => row # NoDir)
    /\ UNCHANGED <<shred, dir, row, applied, tx, lock, proc, faults>>

(* The unit is rendered from the desired state ...                         *)
ApplyBegin ==
    /\ At("web", "idle")
    /\ proc' = [proc EXCEPT !["web"].pc = "applying",
                            !["web"].gone = IF enabled THEN row ELSE NoDir]
    /\ UNCHANGED <<shred, dir, row, applied, enabled, tx, lock, faults>>

(* ... and becomes the applied manifest when the helper has succeeded.     *)
ApplyEnd ==
    /\ At("web", "applying")
    /\ \/ /\ applied' = proc["web"].gone
          /\ proc' = [proc EXCEPT !["web"] =
                         [Idle EXCEPT !.pc = IF shred THEN "prune" ELSE "idle"]]
       \/ /\ proc' = [proc EXCEPT !["web"] = Idle]
          /\ UNCHANGED applied
    /\ UNCHANGED <<shred, dir, row, enabled, tx, lock, faults>>

(* prune_superseded_shredos_media: what neither the catalog nor the        *)
(* applied manifest names, as far as it gets.                              *)
ProtectedByRow == {row}
Protected == {row, applied}

Prune ==
    /\ At("web", "prune") /\ LockFree
    /\ \E S \in SUBSET (Dirs \ Protected) :
          dir' = [d \in Dirs |-> IF d \in S THEN "none" ELSE dir[d]]
    /\ Goto("web", "idle")
    /\ UNCHANGED <<shred, row, applied, enabled, tx, lock, faults>>

-----------------------------------------------------------------------------
(* recover_interrupted_network_boot_media_swaps, at startup of process p.  *)

(* The process that holds the lease of t is alive.                         *)
Live(t) == /\ W.tx = t
           /\ \/ W.pc \in {"acquire", "lock", "journal", "move", "publish", "unstage"}
              \/ InHandler
Leased(t) == tx[t].staging = "leased"
Orphan(t) == tx[t].staging = "leased" /\ ~Live(t)

(* _remove_orphan_media_staging_directories.                               *)
RecoverBegin(p) ==
    /\ At(p, "down") /\ LockFree
    /\ lock' = p
    /\ tx' = [t \in Tx |-> IF Orphan(t) THEN [tx[t] EXCEPT !.staging = "none"] ELSE tx[t]]
    /\ proc' = [proc EXCEPT ![p] = [Idle EXCEPT !.pc = "journals"]]
    /\ UNCHANGED <<shred, dir, row, applied, enabled, faults>>

(* A journal whose directory the committed row names and verifies is       *)
(* rolled forward, any other one back.                                     *)
Abandoned(t) == FALSE
Published(t) == Verified /\ row = tx[t].final

RecoverJournal(p, t) ==
    /\ At(p, "journals") /\ tx[t].journal
    /\ proc' = [proc EXCEPT ![p].tx = t,
                            ![p].pc = IF Published(t) THEN "forward" ELSE "backward"]
    /\ UNCHANGED <<shred, dir, row, applied, enabled, tx, lock, faults>>

RecoverForward(p) ==
    /\ At(p, "forward")
    /\ tx' = [tx EXCEPT ![proc[p].tx].backup = "none", ![proc[p].tx].staging = "none"]
    /\ Goto(p, "close")
    /\ UNCHANGED <<shred, dir, row, applied, enabled, lock, faults>>

RecoverBackward(p) ==
    /\ At(p, "backward")
    /\ dir' = [dir EXCEPT ![tx[proc[p].tx].final] = "none"]
    /\ tx' = [tx EXCEPT ![proc[p].tx].phase = "begun"]
    /\ Goto(p, "restore")
    /\ UNCHANGED <<shred, row, applied, enabled, lock, faults>>

RecoverRestore(p) ==
    LET t == proc[p].tx IN
    /\ At(p, "restore")
    /\ dir' = Restored(t)
    /\ tx' = [tx EXCEPT ![t].backup = "none", ![t].staging = "none",
                        ![t].phase = PhaseAfter(t)]
    /\ Goto(p, "close")
    /\ UNCHANGED <<shred, row, applied, enabled, lock, faults>>

RecoverClose(p) ==
    /\ At(p, "close")
    /\ tx' = [tx EXCEPT ![proc[p].tx].journal = FALSE]
    /\ Goto(p, "journals")
    /\ UNCHANGED <<shred, dir, row, applied, enabled, lock, faults>>

RecoverEnd(p) ==
    /\ At(p, "journals") /\ \A t \in Tx : ~tx[t].journal
    /\ lock' = "free"
    /\ proc' = [proc EXCEPT ![p] = Idle]
    /\ UNCHANGED <<shred, dir, row, applied, enabled, tx, faults>>

-----------------------------------------------------------------------------
(* The host: a process dies (or its recovery fails and it exits), and the  *)
(* kernel drops its locks; a copy is damaged on disk.                      *)
Crash(p) ==
    /\ ~At(p, "down") /\ Fault
    /\ proc' = [proc EXCEPT ![p] = Down]
    /\ lock' = IF lock = p THEN "free" ELSE lock
    /\ UNCHANGED <<shred, dir, row, applied, enabled, tx>>

Damage(d) ==
    /\ dir[d] = "good" /\ Fault
    /\ dir' = [dir EXCEPT ![d] = "bad"]
    /\ UNCHANGED <<shred, row, applied, enabled, tx, lock, proc>>

-----------------------------------------------------------------------------
Sync == \/ \E t \in Tx : SyncBegin(t)
        \/ Stage \/ Lease \/ Acquire \/ TakeLock \/ WriteJournal \/ MoveAside
        \/ Publish \/ Unstage \/ CommitRow
        \/ CleanBackup \/ CleanSuperseded \/ UndoPublish \/ UndoBackup
        \/ Unlink \/ CleanFails

Remove == RemoveCheck \/ RemoveTree \/ RemoveRow

Web == SetDesired \/ ApplyBegin \/ ApplyEnd \/ Prune

Recover(p) == \/ RecoverBegin(p) \/ RecoverForward(p) \/ RecoverBackward(p)
              \/ RecoverRestore(p) \/ RecoverClose(p) \/ RecoverEnd(p)
              \/ \E t \in Tx : RecoverJournal(p, t)

Host == (\E p \in Procs : Crash(p)) \/ (\E d \in Dirs : Damage(d))

Next == Sync \/ Remove \/ Web \/ (\E p \in Procs : Recover(p)) \/ Host

Spec == Init /\ [][Next]_vars

-----------------------------------------------------------------------------
(* Properties.                                                             *)

(* While the version is in the catalog, the copies someone may read.       *)
Referenced == IF row = NoDir THEN {} ELSE {row, applied} \ {NoDir}

(* A backup was once put back in directory d by a rollback or a recovery.  *)
PutBack(d) == \E t \in Tx : tx[t].final = d /\ tx[t].phase = "restored"

(* An intact copy that the catalog or the live clients' manifest names is  *)
(* never lost: not to a prune, to recovery, to cleaning up after an        *)
(* earlier repair or to rolling one back, whatever died before.  A swap    *)
(* may move it aside, to a backup its journal covers; only a swap that has *)
(* published it and not committed removes it, and an admitted deletion.    *)
(* Of a copy that only the manifest names this is not true once a backup   *)
(* was put back there: the repair that is under way takes it for damaged.  *)
ReferencedKept ==
    [][\A d \in Referenced : dir[d] = "good" /\ dir'[d] = "none" =>
          \/ At("worker", "remove") /\ W.gone = d
          \/ \E t \in Tx : /\ tx[t].journal /\ tx[t].final = d
                           /\ tx[t].phase = "published" \/ tx'[t].backup = "good"
          \/ d # row /\ PutBack(d)]_vars

(* A directory moved aside is always covered by a journal: no order of     *)
(* deaths and failures leaves the previous copy where no recovery looks.   *)
BackupJournaled == \A t \in Tx : tx[t].backup # "none" => tx[t].journal

(* A swap in progress is not disturbed: the other process's startup        *)
(* neither sweeps its staging directory nor rolls its publication back.    *)
LiveSwapKept ==
    /\ W.pc \in {"acquire", "lock", "journal", "move", "publish"} => Cur.staging = "leased"
    /\ W.pc \in {"unstage", "commit"} => Cur.journal /\ dir[Cur.final] # "none"

(* docs/services/ipxe.md: "application startup [can] finish or roll back   *)
(* an interrupted swap", "an idempotent fallback": rolling back removes    *)
(* what the transaction published, never the catalog's copy from before.   *)
RollbackUndoesOnly ==
    [][\A p \in Procs : At(p, "backward") /\ proc'[p].pc = "restore" =>
          LET t == proc[p].tx IN
          row = tx[t].final /\ dir[row] # "none" => tx[t].phase \in {"published", "done"}]_vars

=============================================================================
