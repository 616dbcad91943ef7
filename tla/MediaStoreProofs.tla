--------------------------- MODULE MediaStoreProofs ---------------------------
(***************************************************************************)
(* TLAPS proofs about the media cache, for every number of swaps and of    *)
(* faults.                                                                 *)
(***************************************************************************)
EXTENDS MediaStore, TLAPS

(* A swap before it takes the lock, and under it; a recovery.              *)
Preparing  == {"stage", "lease", "acquire", "lock"}
Swapping   == {"journal", "move", "publish", "unstage", "commit", "cleanbackup",
               "cleangone", "cleanjournal", "undo", "undobackup", "undojournal",
               "handle", "handlebackup", "handlejournal"}
Handling   == {"forward", "backward", "restore", "close"}
Recovering == Handling \cup {"journals"}

(* The recovery lock: a swap and the two recoveries exclude each other.    *)
LockOwned ==
    /\ W.pc \in Swapping \cup Recovering => lock = "worker"
    /\ proc["web"].pc \in Recovering => lock = "web"

(* The swap of the worker has a transaction of its own, which has no       *)
(* journal and no backup before the lock is taken and a journal after it;  *)
(* the journal goes last.                                                  *)
SwapTx      == W.pc \in Preparing \cup Swapping => W.tx \in Tx /\ Cur.final \in Dirs
Unjournaled == W.pc \in Preparing \cup {"journal"} => ~Cur.journal /\ Cur.backup = "none"
Journaled   == W.pc \in Swapping \ {"journal"} => Cur.journal
Cleaned     == W.pc \in {"cleangone", "cleanjournal", "undojournal", "handlejournal"} =>
                   Cur.backup = "none"

(* A recovery works on a journal that is there, and closes it last.        *)
RecoverTx == \A p \in Procs :
    /\ proc[p].pc \in Handling => proc[p].tx \in Tx /\ tx[proc[p].tx].journal
    /\ proc[p].pc = "close" => tx[proc[p].tx].backup = "none"

(* The inductive invariant.                                                *)
Swap == /\ LockOwned /\ SwapTx /\ Unjournaled /\ Journaled /\ Cleaned /\ RecoverTx
        /\ BackupJournaled /\ LiveSwapKept
IInv == TypeOK /\ Swap

-----------------------------------------------------------------------------
(* What keeps the copies in use.                                           *)

(* The directory of a transaction is the common one or its own, and the    *)
(* catalog names one that a transaction was begun for.                     *)
Owned == /\ \A t \in Tx : tx[t].final \in {NoDir, 0, t}
         /\ row \in Tx => tx[row].final = row
         /\ \A t \in Tx : tx[t].phase = "published" /\ tx[t].final = row => row \notin Tx

(* How far the swap in progress has come.                                  *)
Before    == Preparing \cup {"journal", "move", "publish"}
Uncertain == {"unstage", "commit", "undo", "handle"}
Cleaning  == {"cleanbackup", "cleangone", "cleanjournal"}
Undoing   == {"undobackup", "undojournal", "handlebackup", "handlejournal"}

Progress ==
    /\ W.pc \in Before => Cur.phase = "begun"
    /\ W.pc \in Uncertain => Cur.phase = "published"
    /\ W.pc \in Cleaning => Cur.phase = "done" /\ row = Cur.final
    /\ W.pc \in Undoing => Cur.phase \in {"begun", "restored"}
    /\ W.pc \in Preparing \cup Swapping =>
          (W.moves => Cur.final = 0) /\ (W.gone # NoDir => W.gone # Cur.final)

(* The copy a swap replaces elsewhere was damaged when it began.           *)
Replaces == W.pc \in Before \cup Uncertain =>
    /\ row = NoDir => Cur.final = 0
    /\ row \in Tx => row # Cur.final
    /\ row # NoDir /\ row # Cur.final => dir[row] # "good" \/ PutBack(row)

(* A deletion removes the catalog's copy before its row.                   *)
Deletes == /\ W.pc \in {"remove", "forget"} => W.gone = row /\ row # NoDir
           /\ W.pc = "forget" => dir[row] # "good" \/ PutBack(row)

(* A recovery rolls back what the catalog does not name intact, and what   *)
(* it finds published is the catalog's.                                    *)
Recovers == \A p \in Procs : LET t == proc[p].tx IN
    /\ proc[p].pc = "backward" /\ row = tx[t].final => dir[row] # "good"
    /\ proc[p].pc = "restore" => tx[t].phase = "begun"
    /\ proc[p].pc \in {"forward", "close"} /\ tx[t].phase = "published" =>
          tx[t].final = 0 /\ row \in {NoDir, 0}

(* A copy that only the manifest names, or an apply is about to, is        *)
(* damaged, or was put back, or is one that a swap has just published.     *)
Named      == {applied, proc["web"].gone} \ {NoDir}
Covered(d) == \E t \in Tx : tx[t].journal /\ tx[t].final = d /\ tx[t].phase = "published"
Outdated   == \A d \in Named \ {row} : d # 0 \/ row # NoDir =>
                 dir[d] # "good" \/ PutBack(d) \/ Covered(d)

Copies == Owned /\ Progress /\ Replaces /\ Deletes /\ Recovers /\ Outdated
KInv   == IInv /\ Copies

-----------------------------------------------------------------------------
(* Setting a field of one transaction's journal, backup or staging         *)
(* directory keeps the table of transactions well typed.                   *)
LEMMA TxTypes ==
    ASSUME NEW f \in [Tx -> TxRecord], NEW t
    PROVE  /\ \A v \in BOOLEAN : [f EXCEPT ![t].journal = v] \in [Tx -> TxRecord]
           /\ \A v \in Dirs : [f EXCEPT ![t].final = v] \in [Tx -> TxRecord]
           /\ \A v \in Content : [f EXCEPT ![t].backup = v] \in [Tx -> TxRecord]
           /\ \A v \in {"none", "bare", "leased"} :
                 [f EXCEPT ![t].staging = v] \in [Tx -> TxRecord]
           /\ \A v \in Phases : [f EXCEPT ![t].phase = v] \in [Tx -> TxRecord]
  BY ZenonT(60) DEF TxRecord

(* A fault is counted within the bound.                                    *)
LEMMA FaultTypes == ProcsTyped /\ Fault => faults' \in 0 .. MaxFaults
  BY MediaStoreConstants DEF ProcsTyped, Fault

(* A process that ends, dies or moves on is well typed.                    *)
LEMMA ProcTypes ==
    ASSUME NEW f \in [Procs -> ProcRecord], NEW p
    PROVE  /\ Idle \in ProcRecord /\ Down \in ProcRecord
           /\ \A r \in ProcRecord : [f EXCEPT ![p] = r] \in [Procs -> ProcRecord]
           /\ \A s \in Pcs : [f EXCEPT ![p].pc = s] \in [Procs -> ProcRecord]
           /\ \A t \in Tx : [f EXCEPT ![p].tx = t] \in [Procs -> ProcRecord]
           /\ \A d \in Dirs \cup {NoDir} : [f EXCEPT ![p].gone = d] \in [Procs -> ProcRecord]
  <1>1. Idle \in ProcRecord /\ Down \in ProcRecord
    BY DEF ProcRecord, Idle, Down, Pcs, NoTx, NoDir
  <1>2. QED
    BY <1>1 DEF ProcRecord

(* A backup put back in place is a copy of its directory.                  *)
LEMMA RestoredTypes ==
    ASSUME CacheTyped, ProcsTyped, NEW t \in Tx, tx[t].final \in Dirs
    PROVE  Restored(t) \in [Dirs -> Content]
  <1>1. tx[t].backup \in Content
    BY DEF ProcsTyped, TxRecord
  <1>2. QED
    BY <1>1 DEF Restored, CacheTyped

(* Putting a backup back is remembered as one of the phases.               *)
LEMMA PhaseTypes ==
    ASSUME ProcsTyped, NEW t \in Tx
    PROVE  PhaseAfter(t) \in Phases
  BY DEF ProcsTyped, TxRecord, PhaseAfter, Phases

(* Every step keeps the invariant: a swap and a recovery work on a         *)
(* transaction under the recovery lock, the web process prunes under it,   *)
(* and whoever dies leaves the journal of what it had begun                *)
(* (sync_network_boot_media, recover_interrupted_network_boot_media_swaps). *)
LEMMA InvStep == IInv /\ [Next]_vars => IInv'
  <1> SUFFICES ASSUME IInv, [Next]_vars PROVE IInv'
    OBVIOUS
  <1> USE MediaStoreConstants
      DEF IInv, TypeOK, At, Goto, W, Cur, Procs, Tx, Dirs, NoDir, NoTx, Pcs, Content,
          Phases,
          Preparing, Swapping, Handling, Recovering
  <1>1. CASE \E t \in Tx : SyncBegin(t)
    <2> PICK t \in Tx : SyncBegin(t)
      BY <1>1
    <2>1. FinalDir(t) \in Dirs
      BY DEF FinalDir
    <2>2. tx' \in [Tx -> TxRecord]
      BY <2>1, TxTypes DEF SyncBegin, ProcsTyped
    <2>3. [pc |-> "stage", tx |-> t, gone |-> IF Unique /\ applied # row THEN row ELSE NoDir,
           moves |-> ~Unique /\ dir[0] # "none"] \in ProcRecord
      BY DEF ProcRecord, CacheTyped
    <2>4. CacheTyped' /\ ProcsTyped'
      BY <2>2, <2>3, ProcTypes DEF SyncBegin, CacheTyped, ProcsTyped
    <2>5. JournalsNamed' /\ Swap'
      BY <2>1
      DEF SyncBegin, NewTx, JournalsNamed, TxRecord, ProcsTyped, ProcRecord, Idle, Down,
          Swap, LockOwned, SwapTx, Unjournaled, Journaled, Cleaned, RecoverTx,
          BackupJournaled, LiveSwapKept
    <2>6. QED
      BY <2>4, <2>5
  <1>2. CASE Stage
    <2>1. CacheTyped' /\ ProcsTyped'
      BY <1>2, TxTypes, ProcTypes DEF Stage, CacheTyped, ProcsTyped, Swap, SwapTx
    <2>2. JournalsNamed' /\ Swap'
      BY <1>2
      DEF Stage, JournalsNamed, TxRecord, ProcsTyped, ProcRecord, Idle, Down, Swap,
          LockOwned, SwapTx, Unjournaled, Journaled, Cleaned, RecoverTx,
          BackupJournaled, LiveSwapKept
    <2>3. QED
      BY <2>1, <2>2
  <1>3. CASE Lease
    <2>1. CacheTyped' /\ ProcsTyped'
      BY <1>3, TxTypes, ProcTypes
      DEF Lease, LockFree, CacheTyped, ProcsTyped, Swap, SwapTx
    <2>2. JournalsNamed' /\ Swap'
      BY <1>3
      DEF Lease, LockFree, JournalsNamed, TxRecord, ProcsTyped, ProcRecord, Idle, Down,
          Swap, LockOwned, SwapTx, Unjournaled, Journaled, Cleaned, RecoverTx,
          BackupJournaled, LiveSwapKept
    <2>3. QED
      BY <2>1, <2>2
  <1>4. CASE Acquire
    <2>1. CASE Goto("worker", "lock") /\ UNCHANGED tx
      <3>1. CacheTyped' /\ ProcsTyped'
        BY <1>4, <2>1, TxTypes, ProcTypes
        DEF Acquire, CacheTyped, ProcsTyped, Swap, SwapTx
      <3>2. JournalsNamed' /\ Swap'
        BY <1>4, <2>1
        DEF Acquire, JournalsNamed, TxRecord, ProcsTyped, ProcRecord, Idle, Down, Swap,
            LockOwned, SwapTx, Unjournaled, Journaled, Cleaned, RecoverTx,
            BackupJournaled, LiveSwapKept
      <3>3. QED
        BY <3>1, <3>2
    <2>2. CASE /\ tx' = [tx EXCEPT ![W.tx].staging = "none"]
               /\ proc' = [proc EXCEPT !["worker"] = Idle]
      <3>1. CacheTyped' /\ ProcsTyped'
        BY <1>4, <2>2, TxTypes, ProcTypes
        DEF Acquire, CacheTyped, ProcsTyped, Swap, SwapTx
      <3>2. JournalsNamed' /\ Swap'
        BY <1>4, <2>2
        DEF Acquire, JournalsNamed, TxRecord, ProcsTyped, ProcRecord, Idle, Down, Swap,
            LockOwned, SwapTx, Unjournaled, Journaled, Cleaned, RecoverTx,
            BackupJournaled, LiveSwapKept
      <3>3. QED
        BY <3>1, <3>2
    <2>3. QED
      BY <1>4, <2>1, <2>2 DEF Acquire
  <1>5. CASE TakeLock
    <2>1. CacheTyped' /\ ProcsTyped'
      BY <1>5, TxTypes, ProcTypes
      DEF TakeLock, LockFree, CacheTyped, ProcsTyped, Swap, SwapTx
    <2>2. JournalsNamed' /\ Swap'
      BY <1>5
      DEF TakeLock, LockFree, JournalsNamed, TxRecord, ProcsTyped, ProcRecord, Idle,
          Down, Swap, LockOwned, SwapTx, Unjournaled, Journaled, Cleaned, RecoverTx,
          BackupJournaled, LiveSwapKept
    <2>3. QED
      BY <2>1, <2>2
  <1>6. CASE WriteJournal
    <2>1. CASE /\ tx' = [tx EXCEPT ![W.tx].journal = TRUE]
               /\ Goto("worker", "move") /\ UNCHANGED <<lock, faults>>
      <3>1. CacheTyped' /\ ProcsTyped'
        BY <1>6, <2>1, TxTypes, ProcTypes, FaultTypes
        DEF WriteJournal, CacheTyped, ProcsTyped, Swap, SwapTx
      <3>2. JournalsNamed' /\ Swap'
        BY <1>6, <2>1
        DEF WriteJournal, JournalsNamed, TxRecord, ProcsTyped, ProcRecord, Idle, Down,
            Swap, LockOwned, SwapTx, Unjournaled, Journaled, Cleaned, RecoverTx,
            BackupJournaled, LiveSwapKept
      <3>3. QED
        BY <3>1, <3>2
    <2>2. CASE /\ Fault /\ lock' = "free" /\ proc' = [proc EXCEPT !["worker"] = Idle]
               /\ \E left \in BOOLEAN :
                    tx' = [tx EXCEPT ![W.tx].journal = left, ![W.tx].staging = "none"]
      <3>1. CacheTyped' /\ ProcsTyped'
        <4>1. PICK left \in BOOLEAN :
                  tx' = [tx EXCEPT ![W.tx].journal = left, ![W.tx].staging = "none"]
          BY <2>2
        <4>2. tx' \in [Tx -> TxRecord]
          BY <4>1, TxTypes DEF ProcsTyped
        <4>3. QED
          BY <1>6, <2>2, <4>2, ProcTypes, FaultTypes
          DEF WriteJournal, CacheTyped, ProcsTyped
      <3>2. JournalsNamed' /\ Swap'
        BY SMTT(180), <1>6, <2>2
        DEF WriteJournal, JournalsNamed, TxRecord, ProcsTyped, ProcRecord, Idle, Down,
            Swap, LockOwned, SwapTx, Unjournaled, Journaled, Cleaned, RecoverTx,
            BackupJournaled, LiveSwapKept
      <3>3. QED
        BY <3>1, <3>2
    <2>3. QED
      BY <1>6, <2>1, <2>2 DEF WriteJournal, Fault
  <1>7. CASE MoveAside
    <2>1. CASE /\ W.moves /\ dir[0] # "none"
               /\ tx' = [tx EXCEPT ![W.tx].backup = dir[0]]
               /\ dir' = [dir EXCEPT ![0] = "none"]
               /\ Goto("worker", "publish") /\ UNCHANGED faults
      <3>1. CacheTyped' /\ ProcsTyped'
        <4>1. dir[0] \in Content
          BY DEF CacheTyped
        <4>2. tx' \in [Tx -> TxRecord]
          BY <2>1, <4>1, TxTypes DEF ProcsTyped
        <4>3. QED
          BY <1>7, <2>1, <4>2, ProcTypes DEF MoveAside, CacheTyped, ProcsTyped
      <3>2. JournalsNamed' /\ Swap'
        BY <1>7, <2>1
        DEF MoveAside, JournalsNamed, TxRecord, ProcsTyped, ProcRecord, Idle, Down,
            Swap, LockOwned, SwapTx, Unjournaled, Journaled, Cleaned, RecoverTx,
            BackupJournaled, LiveSwapKept
      <3>3. QED
        BY <3>1, <3>2
    <2>2. CASE Goto("worker", "publish") /\ UNCHANGED <<dir, tx, faults>>
      <3>1. CacheTyped' /\ ProcsTyped'
        BY <1>7, <2>2, TxTypes, ProcTypes, FaultTypes
        DEF MoveAside, CacheTyped, ProcsTyped, Swap, SwapTx
      <3>2. JournalsNamed' /\ Swap'
        BY <1>7, <2>2
        DEF MoveAside, JournalsNamed, TxRecord, ProcsTyped, ProcRecord, Idle, Down,
            Swap, LockOwned, SwapTx, Unjournaled, Journaled, Cleaned, RecoverTx,
            BackupJournaled, LiveSwapKept
      <3>3. QED
        BY <3>1, <3>2
    <2>3. CASE /\ Fault \/ UNCHANGED faults
               /\ Goto("worker", "handlebackup") /\ UNCHANGED <<dir, tx>>
      <3>1. CacheTyped' /\ ProcsTyped'
        BY <1>7, <2>3, TxTypes, ProcTypes, FaultTypes
        DEF MoveAside, CacheTyped, ProcsTyped, Swap, SwapTx
      <3>2. JournalsNamed' /\ Swap'
        BY <1>7, <2>3
        DEF MoveAside, JournalsNamed, TxRecord, ProcsTyped, ProcRecord, Idle, Down,
            Swap, LockOwned, SwapTx, Unjournaled, Journaled, Cleaned, RecoverTx,
            BackupJournaled, LiveSwapKept
      <3>3. QED
        BY <3>1, <3>2
    <2>4. QED
      BY <1>7, <2>1, <2>2, <2>3 DEF MoveAside, Fault
  <1>8. CASE Publish
    <2>1. CASE /\ dir' = [dir EXCEPT ![Cur.final] = "good"]
               /\ tx' = [tx EXCEPT ![W.tx].phase = "published"]
               /\ Goto("worker", "unstage") /\ UNCHANGED faults
      <3>1. CacheTyped' /\ ProcsTyped'
        BY <1>8, <2>1, TxTypes, ProcTypes, FaultTypes
        DEF Publish, CacheTyped, ProcsTyped, Swap, SwapTx
      <3>2. dir'[Cur.final] = "good" /\ Cur.final \in Dirs
        BY <1>8, <2>1 DEF Publish, Swap, SwapTx, CacheTyped
      <3>3. /\ tx'[W.tx].final = Cur.final /\ tx'[W.tx].journal = Cur.journal
            /\ proc'["worker"].pc = "unstage" /\ proc'["worker"].tx = W.tx
        BY <1>8, <2>1 DEF Publish, Swap, SwapTx, ProcsTyped, TxRecord, ProcRecord
      <3>4. LiveSwapKept'
        BY <1>8, <3>2, <3>3 DEF Publish, Swap, Journaled, LiveSwapKept
      <3>5. JournalsNamed' /\ LockOwned' /\ SwapTx' /\ Unjournaled' /\ Journaled' /\ Cleaned'
        BY <1>8, <2>1
        DEF Publish, JournalsNamed, TxRecord, ProcsTyped, ProcRecord, Swap,
                          LockOwned, SwapTx, Unjournaled, Journaled, Cleaned
      <3>6. RecoverTx' /\ BackupJournaled'
        BY SMTT(30), <1>8, <2>1
        DEF Publish, TxRecord, ProcsTyped, ProcRecord, Swap, LockOwned,
                          SwapTx, RecoverTx, BackupJournaled
      <3>7. QED
        BY <3>1, <3>4, <3>5, <3>6 DEF Swap
    <2>2. CASE /\ dir' = [dir EXCEPT ![Cur.final] = "good"]
               /\ tx' = [tx EXCEPT ![W.tx].phase = "published"]
               /\ Goto("worker", "handle") /\ Fault
      <3>1. CacheTyped' /\ ProcsTyped'
        BY <1>8, <2>2, TxTypes, ProcTypes, FaultTypes
        DEF Publish, CacheTyped, ProcsTyped, Swap, SwapTx
      <3>2. JournalsNamed' /\ Swap'
        BY SMTT(60), <1>8, <2>2
        DEF Publish, JournalsNamed, TxRecord, ProcsTyped, ProcRecord, Idle, Down, Swap,
            LockOwned, SwapTx, Unjournaled, Journaled, Cleaned, RecoverTx,
            BackupJournaled, LiveSwapKept
      <3>3. QED
        BY <3>1, <3>2
    <2>3. CASE /\ Fault \/ UNCHANGED faults
               /\ Goto("worker", "handlebackup") /\ UNCHANGED <<dir, tx>>
      <3>1. CacheTyped' /\ ProcsTyped'
        BY <1>8, <2>3, TxTypes, ProcTypes, FaultTypes
        DEF Publish, CacheTyped, ProcsTyped, Swap, SwapTx
      <3>2. JournalsNamed' /\ Swap'
        BY <1>8, <2>3
        DEF Publish, JournalsNamed, TxRecord, ProcsTyped, ProcRecord, Idle, Down, Swap,
            LockOwned, SwapTx, Unjournaled, Journaled, Cleaned, RecoverTx,
            BackupJournaled, LiveSwapKept
      <3>3. QED
        BY <3>1, <3>2
    <2>4. QED
      BY <1>8, <2>1, <2>2, <2>3 DEF Publish, Fault
  <1>9. CASE Unstage
    <2>1. CASE /\ tx' = [tx EXCEPT ![W.tx].staging = "none"]
               /\ Goto("worker", "commit") /\ UNCHANGED faults
      <3>1. CacheTyped' /\ ProcsTyped'
        BY <1>9, <2>1, TxTypes, ProcTypes, FaultTypes
        DEF Unstage, CacheTyped, ProcsTyped, Swap, SwapTx
      <3>2. JournalsNamed' /\ Swap'
        BY <1>9, <2>1
        DEF Unstage, JournalsNamed, TxRecord, ProcsTyped, ProcRecord, Idle, Down, Swap,
            LockOwned, SwapTx, Unjournaled, Journaled, Cleaned, RecoverTx,
            BackupJournaled, LiveSwapKept
      <3>3. QED
        BY <3>1, <3>2
    <2>2. CASE /\ Fault /\ proc' = [proc EXCEPT !["worker"] = Idle] /\ UNCHANGED tx
      <3>1. CacheTyped' /\ ProcsTyped'
        BY <1>9, <2>2, TxTypes, ProcTypes, FaultTypes
        DEF Unstage, CacheTyped, ProcsTyped, Swap, SwapTx
      <3>2. JournalsNamed' /\ Swap'
        BY <1>9, <2>2
        DEF Unstage, JournalsNamed, TxRecord, ProcsTyped, ProcRecord, Idle, Down, Swap,
            LockOwned, SwapTx, Unjournaled, Journaled, Cleaned, RecoverTx,
            BackupJournaled, LiveSwapKept
      <3>3. QED
        BY <3>1, <3>2
    <2>3. QED
      BY <1>9, <2>1, <2>2 DEF Unstage, Fault
  <1>10. CASE CommitRow
    <2>1. CASE /\ row' = Cur.final
               /\ tx' = [tx EXCEPT ![W.tx].phase = "done"]
               /\ Goto("worker", "cleanbackup")
      <3>1. CacheTyped' /\ ProcsTyped'
        BY <1>10, <2>1, TxTypes, ProcTypes
        DEF CommitRow, CacheTyped, ProcsTyped, Swap, SwapTx
      <3>2. JournalsNamed' /\ Swap'
        BY <1>10, <2>1
        DEF CommitRow, JournalsNamed, TxRecord, ProcsTyped, ProcRecord, Idle, Down,
            Swap, LockOwned, SwapTx, Unjournaled, Journaled, Cleaned, RecoverTx,
            BackupJournaled, LiveSwapKept
      <3>3. QED
        BY <3>1, <3>2
    <2>2. CASE Goto("worker", "undo") /\ UNCHANGED <<row, tx>>
      <3>1. CacheTyped' /\ ProcsTyped'
        BY <1>10, <2>2, TxTypes, ProcTypes
        DEF CommitRow, CacheTyped, ProcsTyped, Swap, SwapTx
      <3>2. JournalsNamed' /\ Swap'
        BY <1>10, <2>2
        DEF CommitRow, JournalsNamed, TxRecord, ProcsTyped, ProcRecord, Idle, Down,
            Swap, LockOwned, SwapTx, Unjournaled, Journaled, Cleaned, RecoverTx,
            BackupJournaled, LiveSwapKept
      <3>3. QED
        BY <3>1, <3>2
    <2>3. CASE Goto("worker", "handle") /\ UNCHANGED <<row, tx>>
      <3>1. CacheTyped' /\ ProcsTyped'
        BY <1>10, <2>3, TxTypes, ProcTypes
        DEF CommitRow, CacheTyped, ProcsTyped, Swap, SwapTx
      <3>2. JournalsNamed' /\ Swap'
        BY <1>10, <2>3
        DEF CommitRow, JournalsNamed, TxRecord, ProcsTyped, ProcRecord, Idle, Down,
            Swap, LockOwned, SwapTx, Unjournaled, Journaled, Cleaned, RecoverTx,
            BackupJournaled, LiveSwapKept
      <3>3. QED
        BY <3>1, <3>2
    <2>4. QED
      BY <1>10, <2>1, <2>2, <2>3 DEF CommitRow
  <1>11. CASE CleanBackup
    <2>1. CacheTyped' /\ ProcsTyped'
      BY <1>11, TxTypes, ProcTypes DEF CleanBackup, CacheTyped, ProcsTyped, Swap, SwapTx
    <2>2. JournalsNamed' /\ Swap'
      BY <1>11
      DEF CleanBackup, JournalsNamed, TxRecord, ProcsTyped, ProcRecord, Idle, Down,
          Swap, LockOwned, SwapTx, Unjournaled, Journaled, Cleaned, RecoverTx,
          BackupJournaled, LiveSwapKept
    <2>3. QED
      BY <2>1, <2>2
  <1>12. CASE CleanSuperseded
    <2>1. CacheTyped' /\ ProcsTyped'
      BY <1>12, TxTypes, ProcTypes
      DEF CleanSuperseded, CacheTyped, ProcsTyped, Swap, SwapTx
    <2>2. JournalsNamed' /\ Swap'
      BY <1>12
      DEF CleanSuperseded, JournalsNamed, TxRecord, ProcsTyped, ProcRecord, Idle, Down,
          Swap, LockOwned, SwapTx, Unjournaled, Journaled, Cleaned, RecoverTx,
          BackupJournaled, LiveSwapKept
    <2>3. QED
      BY <2>1, <2>2
  <1>13. CASE UndoPublish
    <2>1. CacheTyped' /\ ProcsTyped'
      BY <1>13, TxTypes, ProcTypes DEF UndoPublish, CacheTyped, ProcsTyped, Swap, SwapTx
    <2>2. JournalsNamed' /\ Swap'
      BY <1>13
      DEF UndoPublish, JournalsNamed, TxRecord, ProcsTyped, ProcRecord, Idle, Down,
          Swap, LockOwned, SwapTx, Unjournaled, Journaled, Cleaned, RecoverTx,
          BackupJournaled, LiveSwapKept
    <2>3. QED
      BY <2>1, <2>2
  <1>14. CASE UndoBackup
    <2>1. W.tx \in Tx /\ Cur.final \in Dirs
      BY <1>14 DEF UndoBackup, Swap, SwapTx
    <2>2. dir' \in [Dirs -> Content]
      BY <1>14, <2>1, RestoredTypes DEF UndoBackup
    <2>3. CacheTyped' /\ ProcsTyped'
      <3>1. tx' \in [Tx -> TxRecord]
        BY <1>14, <2>1, TxTypes, PhaseTypes DEF UndoBackup, ProcsTyped
      <3>2. QED
        BY <1>14, <2>2, <3>1, ProcTypes DEF UndoBackup, CacheTyped, ProcsTyped
    <2>4. JournalsNamed' /\ Swap'
      BY SMTT(120), <1>14
      DEF UndoBackup, JournalsNamed, TxRecord, ProcsTyped, ProcRecord, Idle, Down, Swap,
          LockOwned, SwapTx, Unjournaled, Journaled, Cleaned, RecoverTx,
          BackupJournaled, LiveSwapKept
    <2>5. QED
      BY <2>3, <2>4
  <1>15. CASE Unlink
    <2>1. CacheTyped' /\ ProcsTyped'
      BY <1>15, TxTypes, ProcTypes DEF Unlink, CacheTyped, ProcsTyped, Swap, SwapTx
    <2>2. JournalsNamed' /\ Swap'
      BY SMTT(180), <1>15
      DEF Unlink, JournalsNamed, TxRecord, ProcsTyped, ProcRecord, Idle, Down, Swap,
          LockOwned, SwapTx, Unjournaled, Journaled, Cleaned, RecoverTx,
          BackupJournaled, LiveSwapKept
    <2>3. QED
      BY <2>1, <2>2
  <1>16. CASE CleanFails
    <2>1. CacheTyped' /\ ProcsTyped'
      BY <1>16, TxTypes, ProcTypes, FaultTypes
      DEF CleanFails, InMethod, InHandler, CacheTyped, ProcsTyped, Swap, SwapTx
    <2>2. JournalsNamed' /\ Swap'
      BY <1>16
      DEF CleanFails, InMethod, InHandler, JournalsNamed, TxRecord, ProcsTyped,
          ProcRecord, Idle, Down, Swap, LockOwned, SwapTx, Unjournaled, Journaled,
          Cleaned, RecoverTx, BackupJournaled, LiveSwapKept
    <2>3. QED
      BY <2>1, <2>2
  <1>17. CASE RemoveCheck
    <2>1. CacheTyped' /\ ProcsTyped'
      BY <1>17, TxTypes, ProcTypes
      DEF RemoveCheck, Removable, CacheTyped, ProcsTyped, Swap, SwapTx
    <2>2. JournalsNamed' /\ Swap'
      BY <1>17
      DEF RemoveCheck, Removable, JournalsNamed, TxRecord, ProcsTyped, ProcRecord, Idle,
          Down, Swap, LockOwned, SwapTx, Unjournaled, Journaled, Cleaned, RecoverTx,
          BackupJournaled, LiveSwapKept
    <2>3. QED
      BY <2>1, <2>2
  <1>18. CASE RemoveTree
    <2>1. CacheTyped' /\ ProcsTyped'
      BY <1>18, TxTypes, ProcTypes DEF RemoveTree, CacheTyped, ProcsTyped, Swap, SwapTx
    <2>2. JournalsNamed' /\ Swap'
      BY <1>18
      DEF RemoveTree, JournalsNamed, TxRecord, ProcsTyped, ProcRecord, Idle, Down, Swap,
          LockOwned, SwapTx, Unjournaled, Journaled, Cleaned, RecoverTx,
          BackupJournaled, LiveSwapKept
    <2>3. QED
      BY <2>1, <2>2
  <1>19. CASE RemoveRow
    <2>1. CacheTyped' /\ ProcsTyped'
      BY <1>19, TxTypes, ProcTypes DEF RemoveRow, CacheTyped, ProcsTyped, Swap, SwapTx
    <2>2. JournalsNamed' /\ Swap'
      BY <1>19
      DEF RemoveRow, JournalsNamed, TxRecord, ProcsTyped, ProcRecord, Idle, Down, Swap,
          LockOwned, SwapTx, Unjournaled, Journaled, Cleaned, RecoverTx,
          BackupJournaled, LiveSwapKept
    <2>3. QED
      BY <2>1, <2>2
  <1>20. CASE SetDesired
    <2>1. CacheTyped' /\ ProcsTyped'
      BY <1>20, TxTypes, ProcTypes DEF SetDesired, CacheTyped, ProcsTyped, Swap, SwapTx
    <2>2. JournalsNamed' /\ Swap'
      BY <1>20
      DEF SetDesired, JournalsNamed, TxRecord, ProcsTyped, ProcRecord, Idle, Down, Swap,
          LockOwned, SwapTx, Unjournaled, Journaled, Cleaned, RecoverTx,
          BackupJournaled, LiveSwapKept
    <2>3. QED
      BY <2>1, <2>2
  <1>21. CASE ApplyBegin
    <2>1. CacheTyped' /\ ProcsTyped'
      BY ZenonT(60), <1>21, TxTypes, ProcTypes
      DEF ApplyBegin, CacheTyped, ProcsTyped, Swap, SwapTx
    <2>2. JournalsNamed' /\ Swap'
      BY <1>21
      DEF ApplyBegin, JournalsNamed, TxRecord, ProcsTyped, ProcRecord, Idle, Down, Swap,
          LockOwned, SwapTx, Unjournaled, Journaled, Cleaned, RecoverTx,
          BackupJournaled, LiveSwapKept
    <2>3. QED
      BY <2>1, <2>2
  <1>22. CASE ApplyEnd
    <2>1. CASE /\ applied' = proc["web"].gone
               /\ proc' = [proc EXCEPT !["web"] =
                             [Idle EXCEPT !.pc = IF shred THEN "prune" ELSE "idle"]]
      <3>1. CacheTyped' /\ ProcsTyped'
        <4>1. proc["web"].gone \in Dirs \cup {NoDir}
          BY DEF ProcsTyped, ProcRecord
        <4>2. [Idle EXCEPT !.pc = IF shred THEN "prune" ELSE "idle"] \in ProcRecord
          BY DEF Idle, ProcRecord
        <4>3. QED
          BY <1>22, <2>1, <4>1, <4>2, ProcTypes DEF ApplyEnd, CacheTyped, ProcsTyped
      <3>2. JournalsNamed' /\ Swap'
        BY <1>22, <2>1
        DEF ApplyEnd, JournalsNamed, TxRecord, ProcsTyped, ProcRecord, Idle, Down, Swap,
            LockOwned, SwapTx, Unjournaled, Journaled, Cleaned, RecoverTx,
            BackupJournaled, LiveSwapKept
      <3>3. QED
        BY <3>1, <3>2
    <2>2. CASE proc' = [proc EXCEPT !["web"] = Idle] /\ UNCHANGED applied
      <3>1. CacheTyped' /\ ProcsTyped'
        BY <1>22, <2>2, TxTypes, ProcTypes
        DEF ApplyEnd, CacheTyped, ProcsTyped, Swap, SwapTx
      <3>2. JournalsNamed' /\ Swap'
        BY <1>22, <2>2
        DEF ApplyEnd, JournalsNamed, TxRecord, ProcsTyped, ProcRecord, Idle, Down, Swap,
            LockOwned, SwapTx, Unjournaled, Journaled, Cleaned, RecoverTx,
            BackupJournaled, LiveSwapKept
      <3>3. QED
        BY <3>1, <3>2
    <2>3. QED
      BY <1>22, <2>1, <2>2 DEF ApplyEnd
  <1>23. CASE Prune
    <2>1. CacheTyped' /\ ProcsTyped'
      BY <1>23, TxTypes, ProcTypes
      DEF Prune, LockFree, CacheTyped, ProcsTyped, Swap, SwapTx
    <2>2. JournalsNamed' /\ Swap'
      BY <1>23
      DEF Prune, LockFree, JournalsNamed, TxRecord, ProcsTyped, ProcRecord, Idle, Down,
          Swap, LockOwned, SwapTx, Unjournaled, Journaled, Cleaned, RecoverTx,
          BackupJournaled, LiveSwapKept
    <2>3. QED
      BY <2>1, <2>2
  <1>24. CASE \E p \in Procs : RecoverBegin(p)
    <2> PICK p \in Procs : RecoverBegin(p)
      BY <1>24
    <2>1. tx' \in [Tx -> TxRecord]
      BY ZenonT(60) DEF RecoverBegin, ProcsTyped, TxRecord
    <2>2. [Idle EXCEPT !.pc = "journals"] \in ProcRecord
      BY DEF Idle, ProcRecord
    <2>3. CacheTyped' /\ ProcsTyped'
      BY <2>1, <2>2, ProcTypes DEF RecoverBegin, CacheTyped, ProcsTyped
    <2>4. JournalsNamed' /\ Swap'
      BY SMTT(180)
      DEF RecoverBegin, LockFree, Orphan, Live, InHandler, JournalsNamed, TxRecord,
             ProcsTyped, ProcRecord, Idle, Down, Swap, LockOwned, SwapTx, Unjournaled,
             Journaled, Cleaned, RecoverTx, BackupJournaled, LiveSwapKept
    <2>5. QED
      BY <2>3, <2>4
  <1>25. CASE \E p \in Procs, t \in Tx : RecoverJournal(p, t)
    <2> PICK p \in Procs, t \in Tx : RecoverJournal(p, t)
      BY <1>25
    <2>1. proc' \in [Procs -> ProcRecord]
      BY ProcTypes DEF RecoverJournal, ProcsTyped
    <2>2. CacheTyped' /\ ProcsTyped'
      BY <2>1 DEF RecoverJournal, CacheTyped, ProcsTyped
    <2>3. JournalsNamed' /\ Swap'
      BY SMTT(60)
      DEF RecoverJournal, JournalsNamed, TxRecord, ProcsTyped, ProcRecord, Idle,
             Down, Swap, LockOwned, SwapTx, Unjournaled, Journaled, Cleaned, RecoverTx,
             BackupJournaled, LiveSwapKept
    <2>4. QED
      BY <2>2, <2>3
  <1>26. CASE \E p \in Procs : RecoverForward(p)
    <2> PICK p \in Procs : RecoverForward(p)
      BY <1>26
    <2> DEFINE t == proc[p].tx
    <2>1. /\ t \in Tx /\ tx[t].journal /\ tx[t].final \in Dirs
          /\ W.pc \in Preparing \cup Swapping => W.pc \in Preparing /\ W.tx # t
      BY DEF RecoverForward, Swap, RecoverTx, LockOwned, Unjournaled, JournalsNamed
    <2>2. /\ tx' \in [Tx -> TxRecord]
          /\ \A u \in Tx \ {t} : tx'[u] = tx[u]
          /\ tx'[t].journal /\ tx'[t].backup = "none" /\ tx'[t].final = tx[t].final
      <3>1. tx' \in [Tx -> TxRecord]
        BY TxTypes DEF RecoverForward, ProcsTyped
      <3>2. /\ \A u \in Tx \ {t} : tx'[u] = tx[u]
            /\ tx'[t] = [tx[t] EXCEPT !.backup = "none", !.staging = "none"]
        BY <2>1 DEF RecoverForward, ProcsTyped
      <3>3. QED
        BY <2>1, <3>1, <3>2 DEF ProcsTyped, TxRecord
    <2>3. /\ proc' \in [Procs -> ProcRecord]
          /\ proc'[p].pc = "close" /\ proc'[p].tx = t
          /\ \A q \in Procs \ {p} : proc'[q] = proc[q]
      BY ZenonT(60) DEF RecoverForward, ProcsTyped, ProcRecord
    <2>4. CacheTyped' /\ ProcsTyped'
      BY <2>2, <2>3 DEF RecoverForward, CacheTyped, ProcsTyped
    <2>5. JournalsNamed' /\ Swap'
      BY ZenonT(60), <2>1, <2>2, <2>3
      DEF RecoverForward, JournalsNamed, Swap, LockOwned, SwapTx, Unjournaled,
          Journaled, Cleaned, RecoverTx, BackupJournaled, LiveSwapKept
    <2>6. QED
      BY <2>4, <2>5
  <1>27. CASE \E p \in Procs : RecoverBackward(p)
    <2> PICK p \in Procs : RecoverBackward(p)
      BY <1>27
    <2>1. CacheTyped' /\ ProcsTyped'
      BY TxTypes, ProcTypes DEF RecoverBackward, CacheTyped, ProcsTyped, Swap, SwapTx
    <2>2. JournalsNamed' /\ Swap'
      BY SMTT(180)
      DEF RecoverBackward, JournalsNamed, TxRecord, ProcsTyped, ProcRecord, Idle,
             Down, Swap, LockOwned, SwapTx, Unjournaled, Journaled, Cleaned, RecoverTx,
             BackupJournaled, LiveSwapKept
    <2>3. QED
      BY <2>1, <2>2
  <1>28. CASE \E p \in Procs : RecoverRestore(p)
    <2> PICK p \in Procs : RecoverRestore(p)
      BY <1>28
    <2> DEFINE t == proc[p].tx
    <2>1. /\ t \in Tx /\ tx[t].journal /\ tx[t].final \in Dirs
          /\ W.pc \in Preparing \cup Swapping => W.pc \in Preparing /\ W.tx # t
      BY DEF RecoverRestore, Swap, RecoverTx, LockOwned, Unjournaled, JournalsNamed
    <2>2. /\ tx' \in [Tx -> TxRecord]
          /\ \A u \in Tx \ {t} : tx'[u] = tx[u]
          /\ tx'[t].journal /\ tx'[t].backup = "none" /\ tx'[t].final = tx[t].final
      <3>1. tx' \in [Tx -> TxRecord]
        BY <2>1, TxTypes, PhaseTypes DEF RecoverRestore, ProcsTyped
      <3>2. /\ \A u \in Tx \ {t} : tx'[u] = tx[u]
            /\ tx'[t] = [tx[t] EXCEPT !.backup = "none", !.staging = "none",
                                      !.phase = PhaseAfter(t)]
        BY <2>1 DEF RecoverRestore, ProcsTyped
      <3>3. QED
        BY <2>1, <3>1, <3>2 DEF ProcsTyped, TxRecord
    <2>3. /\ proc' \in [Procs -> ProcRecord]
          /\ proc'[p].pc = "close" /\ proc'[p].tx = t
          /\ \A q \in Procs \ {p} : proc'[q] = proc[q]
      BY ZenonT(60) DEF RecoverRestore, ProcsTyped, ProcRecord
    <2>4. dir' \in [Dirs -> Content]
      BY <2>1, RestoredTypes DEF RecoverRestore
    <2>5. CacheTyped' /\ ProcsTyped'
      BY <2>2, <2>3, <2>4 DEF RecoverRestore, CacheTyped, ProcsTyped
    <2>6. JournalsNamed' /\ Swap'
      BY ZenonT(60), <2>1, <2>2, <2>3
      DEF RecoverRestore, JournalsNamed, Swap, LockOwned, SwapTx, Unjournaled,
          Journaled, Cleaned, RecoverTx, BackupJournaled, LiveSwapKept
    <2>7. QED
      BY <2>5, <2>6
  <1>29. CASE \E p \in Procs : RecoverClose(p)
    <2> PICK p \in Procs : RecoverClose(p)
      BY <1>29
    <2>1. CacheTyped' /\ ProcsTyped'
      BY TxTypes, ProcTypes DEF RecoverClose, CacheTyped, ProcsTyped, Swap, SwapTx
    <2>2. JournalsNamed' /\ Swap'
      BY SMTT(180)
      DEF RecoverClose, JournalsNamed, TxRecord, ProcsTyped, ProcRecord, Idle, Down,
             Swap, LockOwned, SwapTx, Unjournaled, Journaled, Cleaned, RecoverTx,
             BackupJournaled, LiveSwapKept
    <2>3. QED
      BY <2>1, <2>2
  <1>30. CASE \E p \in Procs : RecoverEnd(p)
    <2> PICK p \in Procs : RecoverEnd(p)
      BY <1>30
    <2>1. CacheTyped' /\ ProcsTyped'
      BY TxTypes, ProcTypes DEF RecoverEnd, CacheTyped, ProcsTyped, Swap, SwapTx
    <2>2. JournalsNamed' /\ Swap'
      BY DEF RecoverEnd, JournalsNamed, TxRecord, ProcsTyped, ProcRecord, Idle, Down,
             Swap, LockOwned, SwapTx, Unjournaled, Journaled, Cleaned, RecoverTx,
             BackupJournaled, LiveSwapKept
    <2>3. QED
      BY <2>1, <2>2
  <1>31. CASE \E p \in Procs : Crash(p)
    <2> PICK p \in Procs : Crash(p)
      BY <1>31
    <2>1. CacheTyped' /\ ProcsTyped'
      BY TxTypes, ProcTypes, FaultTypes DEF Crash, CacheTyped, ProcsTyped, Swap, SwapTx
    <2>2. JournalsNamed' /\ Swap'
      BY DEF Crash, JournalsNamed, TxRecord, ProcsTyped, ProcRecord, Idle, Down, Swap,
             LockOwned, SwapTx, Unjournaled, Journaled, Cleaned, RecoverTx,
             BackupJournaled, LiveSwapKept
    <2>3. QED
      BY <2>1, <2>2
  <1>32. CASE \E d \in Dirs : Damage(d)
    <2> PICK d \in Dirs : Damage(d)
      BY <1>32
    <2>1. CacheTyped' /\ ProcsTyped'
      BY FaultTypes DEF Damage, CacheTyped, ProcsTyped
    <2>2. JournalsNamed' /\ Swap'
      BY DEF Damage, JournalsNamed, TxRecord, ProcsTyped, ProcRecord, Idle, Down, Swap,
             LockOwned, SwapTx, Unjournaled, Journaled, Cleaned, RecoverTx,
             BackupJournaled, LiveSwapKept
    <2>3. QED
      BY <2>1, <2>2
  <1>33. CASE UNCHANGED vars
    <2>1. CacheTyped' /\ ProcsTyped'
      BY <1>33, TxTypes, ProcTypes DEF vars, CacheTyped, ProcsTyped, Swap, SwapTx
    <2>2. JournalsNamed' /\ Swap'
      BY <1>33
      DEF vars, JournalsNamed, TxRecord, ProcsTyped, ProcRecord, Idle, Down, Swap,
          LockOwned, SwapTx, Unjournaled, Journaled, Cleaned, RecoverTx,
          BackupJournaled, LiveSwapKept
    <2>3. QED
      BY <2>1, <2>2
  <1>34. QED
    BY <1>1, <1>2, <1>3, <1>4, <1>5, <1>6, <1>7, <1>8, <1>9, <1>10, <1>11,
       <1>12, <1>13, <1>14, <1>15, <1>16, <1>17, <1>18, <1>19, <1>20, <1>21,
       <1>22, <1>23, <1>24, <1>25, <1>26, <1>27, <1>28, <1>29, <1>30, <1>31,
       <1>32, <1>33
    DEF Next, Sync, Remove, Web, Recover, Host

(* Before the first start there is no media and no transaction.            *)
LEMMA InitInv == Init => IInv
  <1> SUFFICES ASSUME Init PROVE IInv
    OBVIOUS
  <1> USE MediaStoreConstants
      DEF Init, W, Cur, NewTx, Idle, Down, Procs, Dirs, Tx, NoDir, NoTx
  <1>1. CacheTyped
    BY DEF CacheTyped, Content
  <1>2. ProcsTyped
    <2>1. NewTx \in TxRecord
      BY DEF TxRecord, Content, Phases
    <2>2. Down \in ProcRecord
      BY DEF ProcRecord, Pcs
    <2>3. QED
      BY <2>1, <2>2 DEF ProcsTyped
  <1>3. JournalsNamed /\ Swap
    BY DEF JournalsNamed, Swap, LockOwned, SwapTx, Unjournaled, Journaled, Cleaned,
           RecoverTx, BackupJournaled, LiveSwapKept, Preparing, Swapping, Handling,
           Recovering
  <1>4. QED
    BY <1>1, <1>2, <1>3 DEF IInv, TypeOK

(* The invariant holds whatever dies and fails during a swap, a recovery   *)
(* or a prune.                                                             *)
THEOREM Invariance == Spec => []IInv
  BY InitInv, InvStep, PTL DEF Spec

(* The cache, the transactions and the processes keep their types, and a   *)
(* journal names a directory of the cache.                                 *)
THEOREM TypeCorrect == Spec => []TypeOK
  <1>1. IInv => TypeOK
    BY DEF IInv
  <1>2. QED
    BY <1>1, Invariance, PTL

(* No copy that was moved aside is ever without the journal that leads a   *)
(* recovery to it (sync_network_boot_media, rollback_filesystem).          *)
THEOREM NoBackupIsLost == Spec => []BackupJournaled
  <1>1. IInv => BackupJournaled
    BY DEF IInv, Swap
  <1>2. QED
    BY <1>1, Invariance, PTL

(* A startup recovery of the other process neither sweeps the staging      *)
(* directory of a swap in progress nor undoes what it has published        *)
(* (recover_interrupted_network_boot_media_swaps).                         *)
THEOREM SwapUndisturbed == Spec => []LiveSwapKept
  <1>1. IInv => LiveSwapKept
    BY DEF IInv, Swap
  <1>2. QED
    BY <1>1, Invariance, PTL

-----------------------------------------------------------------------------
(* The copies in use.                                                      *)

(* A step that changes neither the catalog nor what became of a swap,      *)
(* closes no journal of an uncommitted publication, makes no copy intact   *)
(* and adds at most the catalog's copy to the named ones.                  *)
Calm ==
    /\ row' = row
    /\ \A t \in Tx : tx'[t].final = tx[t].final /\ tx'[t].phase = tx[t].phase
    /\ \A t \in Tx : tx[t].journal /\ tx[t].phase = "published" => tx'[t].journal
    /\ \A d \in Dirs : dir'[d] = "good" => dir[d] = "good"
    /\ Named' \subseteq Named \cup {row}

Rest == {"remove", "forget"} \cup Before \cup Uncertain \cup Cleaning \cup Undoing

WorkerCalm ==
    \/ W' = W
    \/ W'.pc \notin Rest
    \/ W'.pc \in {"remove", "forget"} /\ Deletes'
    \/ /\ W'.tx = W.tx /\ W'.gone = W.gone /\ W'.moves = W.moves
       /\ \/ W.pc \in Before /\ W'.pc \in Before \cup Undoing
          \/ W.pc \in Uncertain /\ W'.pc \in Uncertain
          \/ W.pc \in Cleaning /\ W'.pc \in Cleaning
          \/ W.pc \in Undoing /\ W'.pc \in Undoing

RecoverCalm == \A p \in Procs :
    proc'[p] = proc[p] \/ proc'[p].pc \notin {"backward", "restore", "forward", "close"}

(* What is known of the directories and of the swap at work.               *)
LEMMA CopyFacts ==
    ASSUME KInv
    PROVE  /\ row \in {NoDir, 0} \cup Tx /\ 0 \notin Tx /\ NoDir \notin Tx /\ NoDir # 0
           /\ Dirs = {0} \cup Tx /\ Named \subseteq Dirs
           /\ W.pc \in Rest \ {"remove", "forget"} => W.tx \in Tx /\ Cur.final \in Dirs
           /\ \A p \in Procs : proc[p].pc \in {"backward", "restore", "forward", "close"} =>
                 proc[p].tx \in Tx /\ tx[proc[p].tx].final \in Dirs
  <1>1. Dirs = {0} \cup Tx /\ 0 \notin Tx /\ NoDir \notin Tx /\ NoDir # 0
    BY MediaStoreConstants DEF Dirs, Tx, NoDir
  <1>2. row \in {NoDir, 0} \cup Tx
    BY <1>1 DEF KInv, IInv, TypeOK, CacheTyped
  <1>3. Named \subseteq Dirs
    BY DEF KInv, IInv, TypeOK, CacheTyped, ProcsTyped, ProcRecord, Named, Procs
  <1>4. W.pc \in Rest \ {"remove", "forget"} => W.tx \in Tx /\ Cur.final \in Dirs
    BY DEF KInv, IInv, Swap, SwapTx, Rest, Before, Uncertain, Cleaning, Undoing,
           Preparing,
           Swapping
  <1>5. \A p \in Procs : proc[p].pc \in {"backward", "restore", "forward", "close"} =>
           proc[p].tx \in Tx /\ tx[proc[p].tx].final \in Dirs
    BY DEF KInv, IInv, Swap, RecoverTx, Handling, TypeOK, JournalsNamed
  <1>6. QED
    BY <1>1, <1>2, <1>3, <1>4, <1>5

(* A calm step keeps the copies in use.                                    *)
LEMMA CalmStep ==
    ASSUME KInv, Calm, WorkerCalm, RecoverCalm \/ Recovers'
    PROVE  Copies'
  <1>1. \A d : PutBack(d)' <=> PutBack(d)
    BY DEF Calm, PutBack
  <1>2. \A d : Covered(d) => Covered(d)'
    BY DEF Calm, Covered
  <1>3. Copies
    BY DEF KInv
  <1>4. Owned'
    BY <1>3, CopyFacts DEF Calm, Copies, Owned
  <1>5. /\ W'.pc \in Before \cup Uncertain =>
              W.pc \in Before \cup Uncertain /\ W'.tx = W.tx /\ W.tx \in Tx
        /\ W'.pc \in Cleaning => W.pc \in Cleaning /\ W'.tx = W.tx /\ W.tx \in Tx
        /\ W'.pc \in Before => W.pc \in Before
        /\ W'.pc \in Uncertain => W.pc \in Uncertain
        /\ W'.pc \in Undoing => W.pc \in Before \cup Undoing /\ W'.tx = W.tx /\ W.tx \in Tx
        /\ W'.pc \in Rest \ {"remove", "forget"} => W'.gone = W.gone /\ W'.moves = W.moves
        /\ W'.pc \in {"remove", "forget"} => W' = W \/ Deletes'
    BY CopyFacts DEF WorkerCalm, Rest, Before, Uncertain, Cleaning, Undoing, Preparing
  <1>6. Progress'
    <2>1. Preparing \cup Swapping = Before \cup Uncertain \cup Cleaning \cup Undoing
      BY DEF Preparing, Swapping, Before, Uncertain, Cleaning, Undoing
    <2>2. W'.pc \in Preparing \cup Swapping =>
             W.pc \in Preparing \cup Swapping /\ W'.tx = W.tx /\ W.tx \in Tx
             /\ W'.gone = W.gone /\ W'.moves = W.moves
      BY <1>5, <2>1 DEF Rest, Before, Uncertain, Cleaning, Undoing, Preparing
    <2>3. QED
      BY <1>3, <1>5, <2>2 DEF Calm, Copies, Progress, Cur
  <1>7. Replaces'
    BY <1>1, <1>3, <1>5, CopyFacts DEF Calm, Copies, Replaces, Cur
  <1>8. Deletes'
    BY <1>1, <1>3, <1>5, CopyFacts DEF Calm, Copies, Deletes
  <1>9. Recovers'
    BY <1>3, CopyFacts DEF Calm, Copies, Recovers, RecoverCalm
  <1>10. Outdated'
    BY <1>1, <1>2, <1>3, CopyFacts DEF Calm, Copies, Outdated
  <1>11. QED
    BY <1>4, <1>6, <1>7, <1>8, <1>9, <1>10 DEF Copies

(* What a step may do to one transaction.                                  *)
LEMMA TxSteps ==
    ASSUME ProcsTyped, NEW u \in Tx
    PROVE  /\ \A v : LET f == [tx EXCEPT ![u].staging = v] IN \A t \in Tx :
                 /\ f[t].final = tx[t].final /\ f[t].phase = tx[t].phase
                 /\ f[t].journal = tx[t].journal
           /\ \A v : LET f == [tx EXCEPT ![u].backup = v] IN \A t \in Tx :
                 /\ f[t].final = tx[t].final /\ f[t].phase = tx[t].phase
                 /\ f[t].journal = tx[t].journal
           /\ \A b, v : LET f == [tx EXCEPT ![u].backup = b, ![u].staging = v] IN \A t \in Tx :
                 /\ f[t].final = tx[t].final /\ f[t].phase = tx[t].phase
                 /\ f[t].journal = tx[t].journal
           /\ \A b, v : LET f == [tx EXCEPT ![u].journal = b, ![u].staging = v] IN \A t \in Tx :
                 /\ f[t].final = tx[t].final /\ f[t].phase = tx[t].phase
                 /\ t # u => f[t].journal = tx[t].journal
           /\ \A b : LET f == [tx EXCEPT ![u].journal = b] IN \A t \in Tx :
                 /\ f[t].final = tx[t].final /\ f[t].phase = tx[t].phase
                 /\ f[t].journal = IF t = u THEN b ELSE tx[t].journal
           /\ \A v : LET f == [tx EXCEPT ![u].phase = v] IN \A t \in Tx :
                 /\ f[t].final = tx[t].final /\ f[t].journal = tx[t].journal
                 /\ f[t].phase = IF t = u THEN v ELSE tx[t].phase
           /\ \A b, v : LET f == [tx EXCEPT ![u].backup = b, ![u].phase = v] IN \A t \in Tx :
                 /\ f[t].final = tx[t].final /\ f[t].journal = tx[t].journal
                 /\ f[t].phase = IF t = u THEN v ELSE tx[t].phase
  BY DEF ProcsTyped, TxRecord

(* The steps of the swap before it is published, and those after it that   *)
(* change no phase.                                                        *)
LEMMA SwapCalm ==
    ASSUME KInv,
           \/ Stage \/ Lease \/ Acquire \/ TakeLock \/ WriteJournal \/ MoveAside
           \/ Unstage \/ CleanBackup \/ CleanSuperseded \/ Unlink \/ CleanFails
    PROVE  Copies'
  <1> USE DEF At, Goto, Procs, Before, Uncertain, Cleaning, Undoing, Preparing
  <1>1. ProcsTyped /\ CacheTyped
    BY DEF KInv, IInv, TypeOK
  <1>2. ASSUME proc'["web"] = proc["web"], applied' = applied PROVE Named' = Named
    BY <1>2 DEF Named
  <1>3. CASE Stage
    <2>1. W.tx \in Tx
      BY <1>3, CopyFacts DEF Stage, W, Rest, InMethod, InHandler
    <2>2. Calm
      BY <1>1, <1>2, <1>3, <2>1, TxSteps
      DEF Stage, Calm, CacheTyped, ProcsTyped, ProcRecord
    <2>3. WorkerCalm /\ RecoverCalm
      BY <1>1, <1>3
      DEF Stage, WorkerCalm, RecoverCalm, W, Rest, Idle, ProcsTyped, ProcRecord
    <2>4. QED
      BY <2>2, <2>3, CalmStep
  <1>4. CASE Lease
    <2>1. W.tx \in Tx
      BY <1>4, CopyFacts DEF Lease, W, Rest, InMethod, InHandler
    <2>2. Calm
      BY <1>1, <1>2, <1>4, <2>1, TxSteps
      DEF Lease, Calm, CacheTyped, ProcsTyped, ProcRecord
    <2>3. WorkerCalm /\ RecoverCalm
      BY <1>1, <1>4
      DEF Lease, WorkerCalm, RecoverCalm, W, Rest, Idle, ProcsTyped, ProcRecord
    <2>4. QED
      BY <2>2, <2>3, CalmStep
  <1>5. CASE Acquire
    <2>1. W.tx \in Tx
      BY <1>5, CopyFacts DEF Acquire, W, Rest, InMethod, InHandler
    <2>2. Calm
      <3> DEFINE TxCalm == \A t \in Tx :
              /\ tx'[t].final = tx[t].final /\ tx'[t].phase = tx[t].phase
              /\ tx[t].journal /\ tx[t].phase = "published" => tx'[t].journal
      <3>1. row' = row /\ Named' = Named
        BY <1>1, <1>2, <1>5 DEF Acquire, ProcsTyped, ProcRecord
      <3>2. \A d \in Dirs : dir'[d] = "good" => dir[d] = "good"
        BY <1>1, <1>5 DEF Acquire, CacheTyped
      <3>3. TxCalm
        <4>1. CASE tx' = tx
          BY <1>1, <1>5, <2>1, <4>1, TxSteps
        <4>2. CASE tx' = [tx EXCEPT ![W.tx].staging = "none"]
          BY <1>1, <1>5, <2>1, <4>2, TxSteps
        <4>3. QED
          BY <1>5, <4>1, <4>2 DEF Acquire
      <3>4. QED
        BY <3>1, <3>2, <3>3 DEF Calm
    <2>3. WorkerCalm /\ RecoverCalm
      BY <1>1, <1>5
      DEF Acquire, WorkerCalm, RecoverCalm, W, Rest, Idle, ProcsTyped, ProcRecord
    <2>4. QED
      BY <2>2, <2>3, CalmStep
  <1>6. CASE TakeLock
    <2>1. W.tx \in Tx
      BY <1>6, CopyFacts DEF TakeLock, W, Rest, InMethod, InHandler
    <2>2. Calm
      BY <1>1, <1>2, <1>6, <2>1, TxSteps
      DEF TakeLock, Calm, CacheTyped, ProcsTyped, ProcRecord
    <2>3. WorkerCalm /\ RecoverCalm
      BY <1>1, <1>6
      DEF TakeLock, WorkerCalm, RecoverCalm, W, Rest, Idle, ProcsTyped, ProcRecord
    <2>4. QED
      BY <2>2, <2>3, CalmStep
  <1>7. CASE WriteJournal
    <2>1. W.tx \in Tx
      BY <1>7, CopyFacts DEF WriteJournal, W, Rest, InMethod, InHandler
    <2>2. Calm
      <3> DEFINE TxCalm == \A t \in Tx :
              /\ tx'[t].final = tx[t].final /\ tx'[t].phase = tx[t].phase
              /\ tx[t].journal /\ tx[t].phase = "published" => tx'[t].journal
      <3>1. row' = row /\ Named' = Named
        BY <1>1, <1>2, <1>7 DEF WriteJournal, ProcsTyped, ProcRecord
      <3>2. \A d \in Dirs : dir'[d] = "good" => dir[d] = "good"
        BY <1>1, <1>7 DEF WriteJournal, CacheTyped
      <3>3. TxCalm
        <4>1. tx[W.tx].phase # "published"
          BY <1>7 DEF WriteJournal, KInv, Copies, Progress, Cur, W
        <4>2. PICK left \in BOOLEAN :
                 \/ tx' = [tx EXCEPT ![W.tx].journal = left]
                 \/ tx' = [tx EXCEPT ![W.tx].journal = left, ![W.tx].staging = "none"]
          BY <1>7 DEF WriteJournal
        <4>3. CASE tx' = [tx EXCEPT ![W.tx].journal = left]
          BY <1>1, <2>1, <4>1, <4>3, TxSteps
        <4>4. CASE tx' = [tx EXCEPT ![W.tx].journal = left, ![W.tx].staging = "none"]
          BY <1>1, <2>1, <4>1, <4>4 DEF ProcsTyped, TxRecord
        <4>5. QED
          BY <4>2, <4>3, <4>4
      <3>4. QED
        BY <3>1, <3>2, <3>3 DEF Calm
    <2>3. WorkerCalm /\ RecoverCalm
      BY <1>1, <1>7
      DEF WriteJournal, WorkerCalm, RecoverCalm, W, Rest, Idle, ProcsTyped, ProcRecord
    <2>4. QED
      BY <2>2, <2>3, CalmStep
  <1>8. CASE MoveAside
    <2>1. W.tx \in Tx
      BY <1>8, CopyFacts DEF MoveAside, W, Rest, InMethod, InHandler
    <2>2. Calm
      <3> DEFINE TxCalm == \A t \in Tx :
              /\ tx'[t].final = tx[t].final /\ tx'[t].phase = tx[t].phase
              /\ tx[t].journal /\ tx[t].phase = "published" => tx'[t].journal
      <3>1. row' = row /\ Named' = Named
        BY <1>1, <1>2, <1>8 DEF MoveAside, ProcsTyped, ProcRecord
      <3>2. \A d \in Dirs : dir'[d] = "good" => dir[d] = "good"
        BY <1>1, <1>8 DEF MoveAside, CacheTyped
      <3>3. TxCalm
        <4>1. CASE tx' = tx
          BY <1>1, <1>8, <2>1, <4>1, TxSteps
        <4>2. CASE tx' = [tx EXCEPT ![W.tx].backup = dir[0]]
          BY <1>1, <1>8, <2>1, <4>2, TxSteps
        <4>3. QED
          BY <1>8, <4>1, <4>2 DEF MoveAside
      <3>4. QED
        BY <3>1, <3>2, <3>3 DEF Calm
    <2>3. WorkerCalm /\ RecoverCalm
      BY <1>1, <1>8
      DEF MoveAside, WorkerCalm, RecoverCalm, W, Rest, Idle, ProcsTyped, ProcRecord
    <2>4. QED
      BY <2>2, <2>3, CalmStep
  <1>9. CASE Unstage
    <2>1. W.tx \in Tx
      BY <1>9, CopyFacts DEF Unstage, W, Rest, InMethod, InHandler
    <2>2. Calm
      <3> DEFINE TxCalm == \A t \in Tx :
              /\ tx'[t].final = tx[t].final /\ tx'[t].phase = tx[t].phase
              /\ tx[t].journal /\ tx[t].phase = "published" => tx'[t].journal
      <3>1. row' = row /\ Named' = Named
        BY <1>1, <1>2, <1>9 DEF Unstage, ProcsTyped, ProcRecord
      <3>2. \A d \in Dirs : dir'[d] = "good" => dir[d] = "good"
        BY <1>1, <1>9 DEF Unstage, CacheTyped
      <3>3. TxCalm
        <4>1. CASE tx' = tx
          BY <1>1, <1>9, <2>1, <4>1, TxSteps
        <4>2. CASE tx' = [tx EXCEPT ![W.tx].staging = "none"]
          BY <1>1, <1>9, <2>1, <4>2, TxSteps
        <4>3. QED
          BY <1>9, <4>1, <4>2 DEF Unstage
      <3>4. QED
        BY <3>1, <3>2, <3>3 DEF Calm
    <2>3. WorkerCalm /\ RecoverCalm
      BY <1>1, <1>9
      DEF Unstage, WorkerCalm, RecoverCalm, W, Rest, Idle, ProcsTyped, ProcRecord
    <2>4. QED
      BY <2>2, <2>3, CalmStep
  <1>10. CASE CleanBackup
    <2>1. W.tx \in Tx
      BY <1>10, CopyFacts DEF CleanBackup, W, Rest, InMethod, InHandler
    <2>2. Calm
      BY <1>1, <1>2, <1>10, <2>1, TxSteps
      DEF CleanBackup, Calm, CacheTyped, ProcsTyped, ProcRecord
    <2>3. WorkerCalm /\ RecoverCalm
      BY <1>1, <1>10
      DEF CleanBackup, WorkerCalm, RecoverCalm, W, Rest, Idle, ProcsTyped, ProcRecord
    <2>4. QED
      BY <2>2, <2>3, CalmStep
  <1>11. CASE CleanSuperseded
    <2>1. W.tx \in Tx
      BY <1>11, CopyFacts DEF CleanSuperseded, W, Rest, InMethod, InHandler
    <2>2. Calm
      BY <1>1, <1>2, <1>11, <2>1, TxSteps
      DEF CleanSuperseded, Calm, CacheTyped, ProcsTyped, ProcRecord
    <2>3. WorkerCalm /\ RecoverCalm
      BY <1>1, <1>11
      DEF CleanSuperseded, WorkerCalm, RecoverCalm, W, Rest, Idle, ProcsTyped,
          ProcRecord
    <2>4. QED
      BY <2>2, <2>3, CalmStep
  <1>12. CASE Unlink
    <2>1. W.tx \in Tx
      BY <1>12, CopyFacts DEF Unlink, W, Rest, InMethod, InHandler
    <2>2. Calm
      <3> DEFINE TxCalm == \A t \in Tx :
              /\ tx'[t].final = tx[t].final /\ tx'[t].phase = tx[t].phase
              /\ tx[t].journal /\ tx[t].phase = "published" => tx'[t].journal
      <3>1. row' = row /\ Named' = Named
        BY <1>1, <1>2, <1>12 DEF Unlink, ProcsTyped, ProcRecord
      <3>2. \A d \in Dirs : dir'[d] = "good" => dir[d] = "good"
        BY <1>1, <1>12 DEF Unlink, CacheTyped
      <3>3. TxCalm
        <4>1. tx[W.tx].phase # "published"
          BY <1>12 DEF Unlink, KInv, Copies, Progress, Cur, W
        <4>2. QED
          BY <1>1, <1>12, <2>1, <4>1 DEF Unlink, ProcsTyped, TxRecord
      <3>4. QED
        BY <3>1, <3>2, <3>3 DEF Calm
    <2>3. WorkerCalm /\ RecoverCalm
      BY <1>1, <1>12
      DEF Unlink, WorkerCalm, RecoverCalm, W, Rest, Idle, ProcsTyped, ProcRecord
    <2>4. QED
      BY <2>2, <2>3, CalmStep
  <1>13. CASE CleanFails
    <2>1. W.tx \in Tx
      BY <1>13, CopyFacts DEF CleanFails, W, Rest, InMethod, InHandler
    <2>2. Calm
      BY <1>1, <1>2, <1>13, <2>1, TxSteps
      DEF CleanFails, Calm, CacheTyped, ProcsTyped, ProcRecord
    <2>3. WorkerCalm /\ RecoverCalm
      BY <1>1, <1>13
      DEF CleanFails, WorkerCalm, RecoverCalm, W, Rest, Idle, ProcsTyped, ProcRecord
    <2>4. QED
      BY <2>2, <2>3, CalmStep
  <1>14. QED
    BY <1>3, <1>4, <1>5, <1>6, <1>7, <1>8, <1>9, <1>10, <1>11, <1>12, <1>13

(* The swap begins for a copy that does not verify, in the common          *)
(* directory or in one of its own.                                         *)
LEMMA CopiesBegun ==
    ASSUME KInv, NEW t \in Tx, SyncBegin(t)
    PROVE  Copies'
  <1>1. ProcsTyped /\ CacheTyped /\ Copies
    BY DEF KInv, IInv, TypeOK
  <1>2. /\ tx[t].final = NoDir /\ tx[t].phase = "begun" /\ tx[t].journal = FALSE
        /\ FinalDir(t) \in {0, t}
    BY DEF SyncBegin, NewTx, FinalDir
  <1>3. \A u \in Tx : /\ tx'[u].phase = tx[u].phase /\ tx'[u].journal = tx[u].journal
                      /\ tx'[u].final = IF u = t THEN FinalDir(t) ELSE tx[u].final
    BY <1>1 DEF SyncBegin, ProcsTyped, TxRecord
  <1>4. \A d : (PutBack(d)' <=> PutBack(d)) /\ (Covered(d)' <=> Covered(d))
    BY <1>2, <1>3 DEF PutBack, Covered
  <1>5. row' = row /\ dir' = dir /\ applied' = applied /\ proc'["web"] = proc["web"]
    BY <1>1 DEF SyncBegin, ProcsTyped, Procs
  <1>6. W' = [pc |-> "stage", tx |-> t,
              gone |-> IF Unique /\ applied # row THEN row ELSE NoDir,
              moves |-> ~Unique /\ dir[0] # "none"]
    BY <1>1 DEF SyncBegin, ProcsTyped, W, Procs
  <1>7. row # t
    BY <1>1, <1>2, CopyFacts DEF Copies, Owned
  <1>8. Owned'
    BY <1>1, <1>2, <1>3, <1>5, <1>7, CopyFacts DEF Copies, Owned
  <1>9. Progress'
    BY <1>2, <1>3, <1>6, <1>7, CopyFacts
    DEF Progress, Cur, FinalDir, Before, Preparing, Uncertain, Cleaning, Undoing
  <1>10. Replaces'
    <2>1. row # NoDir => dir[row] # "good"
      BY DEF SyncBegin, Verified
    <2>2. QED
      BY <1>3, <1>5, <1>6, <1>7, <2>1, CopyFacts DEF Replaces, Cur, FinalDir, Unique
  <1>11. Deletes'
    BY <1>6 DEF Deletes
  <1>12. Recovers'
    BY <1>1, <1>2, <1>3, <1>5, <1>6, CopyFacts
    DEF Copies, Recovers, Procs, W, KInv, IInv, Swap, RecoverTx, Handling
  <1>13. Outdated'
    BY <1>1, <1>4, <1>5 DEF Copies, Outdated, Named
  <1>14. QED
    BY <1>8, <1>9, <1>10, <1>11, <1>12, <1>13 DEF Copies

(* While the swap is under the lock, the other process recovers nothing.   *)
LEMMA SwapAlone ==
    ASSUME KInv, W.pc \in Swapping
    PROVE  proc["web"].pc \notin Recovering
  BY DEF KInv, IInv, Swap, LockOwned

(* A publication is covered by its journal until its row is committed.     *)
LEMMA CopiesPublished ==
    ASSUME KInv, Publish
    PROVE  Copies'
  <1> USE DEF At, Goto, Procs, Before, Uncertain, Cleaning, Undoing, Preparing
  <1>1. ProcsTyped /\ CacheTyped /\ Copies
    BY DEF KInv, IInv, TypeOK
  <1>2. W.tx \in Tx /\ Cur.final \in Dirs /\ Cur.journal /\ Cur.phase = "begun"
    BY CopyFacts
    DEF Publish, KInv, IInv, Swap, Journaled, Swapping, Copies, Progress, W, Rest
  <1>3. proc'["web"] = proc["web"] /\ row' = row /\ applied' = applied
    BY <1>1 DEF Publish, ProcsTyped
  <1>4. CASE dir' = dir /\ tx' = tx /\ Goto("worker", "handlebackup")
    <2>1. Calm
      BY <1>3, <1>4 DEF Calm, Named
    <2>2. WorkerCalm /\ RecoverCalm
      BY <1>1, <1>4 DEF Publish, WorkerCalm, RecoverCalm, W, ProcsTyped, ProcRecord
    <2>3. QED
      BY <2>1, <2>2, CalmStep
  <1>5. CASE /\ dir' = [dir EXCEPT ![Cur.final] = "good"]
             /\ tx' = [tx EXCEPT ![W.tx].phase = "published"]
             /\ Goto("worker", "unstage") \/ Goto("worker", "handle")
    <2>1. \A u \in Tx : /\ tx'[u].final = tx[u].final /\ tx'[u].journal = tx[u].journal
                        /\ tx'[u].phase = IF u = W.tx THEN "published" ELSE tx[u].phase
      BY <1>1, <1>2, <1>5 DEF ProcsTyped, TxRecord
    <2>2. /\ W'.pc \in {"unstage", "handle"} /\ W'.tx = W.tx
          /\ W'.gone = W.gone /\ W'.moves = W.moves
      BY <1>1, <1>5 DEF W, ProcsTyped, ProcRecord
    <2>3. \A d : (PutBack(d)' <=> PutBack(d)) /\ (Covered(d) => Covered(d)')
      BY <1>2, <2>1 DEF PutBack, Covered, Cur
    <2>4. \A d : d = Cur.final => Covered(d)'
      BY <1>2, <2>1 DEF Covered, Cur
    <2>5. \A d \in Dirs : dir'[d] = IF d = Cur.final THEN "good" ELSE dir[d]
      BY <1>1, <1>2, <1>5 DEF CacheTyped
    <2>6. W.pc = "publish"
      BY DEF Publish, W
    <2>7. Owned'
      BY <1>1, <1>2, <1>3, <2>1, <2>6, CopyFacts DEF Copies, Owned, Replaces, Cur
    <2>8. Progress'
      BY <1>1, <1>2, <2>1, <2>2, <2>6 DEF Copies, Progress, Cur, Swapping
    <2>9. Replaces'
      BY <1>1, <1>2, <1>3, <2>1, <2>2, <2>3, <2>5, <2>6, CopyFacts
      DEF Copies, Replaces, Cur
    <2>10. Deletes'
      BY <2>2 DEF Deletes
    <2>11. Recovers'
      BY <1>3, <2>2, <2>6, SwapAlone DEF Recovers, Recovering, Handling, Swapping, W
    <2>12. Outdated'
      BY <1>1, <1>3, <2>3, <2>4, <2>5, CopyFacts DEF Copies, Outdated, Named
    <2>13. QED
      BY <2>7, <2>8, <2>9, <2>10, <2>11, <2>12 DEF Copies
  <1>6. QED
    BY <1>4, <1>5 DEF Publish

(* The row that is committed names what the swap published; the copy it    *)
(* named before was damaged, or put back.                                  *)
LEMMA CopiesCommitted ==
    ASSUME KInv, CommitRow
    PROVE  Copies'
  <1> USE DEF At, Goto, Procs, Before, Uncertain, Cleaning, Undoing, Preparing
  <1>1. ProcsTyped /\ CacheTyped /\ Copies
    BY DEF KInv, IInv, TypeOK
  <1>2. W.pc = "commit" /\ W.tx \in Tx /\ Cur.final \in Dirs /\ Cur.phase = "published"
    BY CopyFacts DEF CommitRow, KInv, Copies, Progress, W, Rest
  <1>3. proc'["web"] = proc["web"] /\ dir' = dir /\ applied' = applied
    BY <1>1 DEF CommitRow, ProcsTyped
  <1>4. CASE row' = row /\ tx' = tx /\ (Goto("worker", "undo") \/ Goto("worker", "handle"))
    <2>1. Calm
      BY <1>3, <1>4 DEF Calm, Named
    <2>2. WorkerCalm /\ RecoverCalm
      BY <1>1, <1>2, <1>4 DEF WorkerCalm, RecoverCalm, W, ProcsTyped, ProcRecord
    <2>3. QED
      BY <2>1, <2>2, CalmStep
  <1>5. CASE /\ row' = Cur.final
             /\ tx' = [tx EXCEPT ![W.tx].phase = "done"]
             /\ Goto("worker", "cleanbackup")
    <2>1. \A u \in Tx : /\ tx'[u].final = tx[u].final /\ tx'[u].journal = tx[u].journal
                        /\ tx'[u].phase = IF u = W.tx THEN "done" ELSE tx[u].phase
      BY <1>1, <1>2, <1>5 DEF ProcsTyped, TxRecord
    <2>2. /\ W'.pc = "cleanbackup" /\ W'.tx = W.tx
          /\ W'.gone = W.gone /\ W'.moves = W.moves
      BY <1>1, <1>5 DEF W, ProcsTyped, ProcRecord
    <2>3. \A d : /\ PutBack(d)' <=> PutBack(d)
                 /\ Covered(d) /\ d # Cur.final => Covered(d)'
      BY <1>2, <2>1 DEF PutBack, Covered, Cur
    <2>4. Cur.final \in {0, W.tx}
      BY <1>1, <1>2, CopyFacts DEF Copies, Owned, Cur
    <2>5. Owned'
      BY <1>1, <1>2, <1>5, <2>1, <2>4, CopyFacts DEF Copies, Owned, Cur
    <2>6. Progress'
      BY <1>1, <1>2, <1>5, <2>1, <2>2 DEF Copies, Progress, Cur, Swapping
    <2>7. Replaces' /\ Deletes'
      BY <2>2 DEF Replaces, Deletes
    <2>8. Recovers'
      BY <1>2, <1>3, <2>2, SwapAlone DEF Recovers, Recovering, Handling, Swapping, W
    <2>9. Outdated'
      <3> SUFFICES ASSUME NEW d \in Named, d # Cur.final
                   PROVE  dir[d] # "good" \/ PutBack(d) \/ Covered(d)
        BY <1>3, <1>5, <2>3 DEF Outdated, Named
      <3>1. CASE d = row
        BY <1>1, <1>2, <3>1, CopyFacts DEF Copies, Replaces
      <3>2. CASE d # row
        BY <1>1, <1>2, <3>2 DEF Copies, Replaces, Outdated
      <3>3. QED
        BY <3>1, <3>2
    <2>10. QED
      BY <2>5, <2>6, <2>7, <2>8, <2>9 DEF Copies
  <1>6. QED
    BY <1>4, <1>5 DEF CommitRow

(* A publication that is undone is gone, and the copy before it is put     *)
(* back.                                                                   *)
LEMMA CopiesUndone ==
    ASSUME KInv, UndoPublish \/ UndoBackup
    PROVE  Copies'
  <1> USE DEF Goto, Procs, Before, Uncertain, Cleaning, Undoing, Preparing
  <1>1. ProcsTyped /\ CacheTyped /\ Copies
    BY DEF KInv, IInv, TypeOK
  <1>2. /\ W.pc \in {"undo", "handle", "undobackup", "handlebackup"}
        /\ W.tx \in Tx /\ Cur.final \in Dirs
    BY CopyFacts DEF UndoPublish, UndoBackup, Rest
  <1>3. /\ proc'["web"] = proc["web"] /\ row' = row /\ applied' = applied
        /\ W'.pc \in {"undobackup", "handlebackup", "undojournal", "handlejournal"}
        /\ W'.tx = W.tx /\ W'.gone = W.gone /\ W'.moves = W.moves
    BY <1>1 DEF UndoPublish, UndoBackup, ProcsTyped, ProcRecord, W
  <1>4. PICK ph \in {"begun", "restored"} :
           /\ \A u \in Tx : /\ tx'[u].final = tx[u].final /\ tx'[u].journal = tx[u].journal
                           /\ tx'[u].phase = IF u = W.tx THEN ph ELSE tx[u].phase
           /\ \A d \in Dirs : dir'[d] = "good" =>
                 \/ dir[d] = "good" /\ (W.pc \in Uncertain => d # Cur.final)
                 \/ d = Cur.final /\ ph = "restored"
           /\ Cur.phase = "restored" => ph = "restored"
    <2>1. CASE UndoPublish
      <3>1. Cur.phase = "published"
        BY <1>1, <2>1 DEF UndoPublish, Copies, Progress
      <3>2. \A u \in Tx : /\ tx'[u].final = tx[u].final /\ tx'[u].journal = tx[u].journal
                          /\ tx'[u].phase = IF u = W.tx THEN "begun" ELSE tx[u].phase
        BY <1>1, <1>2, <2>1 DEF UndoPublish, ProcsTyped, TxRecord
      <3>3. \A d \in Dirs : dir'[d] = "good" => dir[d] = "good" /\ d # Cur.final
        BY <1>1, <1>2, <2>1 DEF UndoPublish, CacheTyped
      <3>4. QED
        BY <3>1, <3>2, <3>3
    <2>2. CASE UndoBackup
      <3>1. W.pc \notin Uncertain /\ Cur.phase \in {"begun", "restored"}
        BY <1>1, <2>2 DEF UndoBackup, Copies, Progress
      <3>2. \A u \in Tx :
               /\ tx'[u].final = tx[u].final /\ tx'[u].journal = tx[u].journal
               /\ tx'[u].phase = IF u = W.tx THEN PhaseAfter(W.tx) ELSE tx[u].phase
        BY <1>1, <1>2, <2>2 DEF UndoBackup, ProcsTyped, TxRecord
      <3>3. \A d \in Dirs : dir'[d] = "good" =>
               dir[d] = "good" \/ (d = Cur.final /\ PhaseAfter(W.tx) = "restored")
        BY <1>1, <1>2, <2>2 DEF UndoBackup, CacheTyped, Restored, PhaseAfter, Cur
      <3>4. /\ PhaseAfter(W.tx) \in {"begun", "restored"}
            /\ Cur.phase = "restored" => PhaseAfter(W.tx) = "restored"
        BY <3>1 DEF PhaseAfter, Cur
      <3>5. QED
        BY <3>1, <3>2, <3>3, <3>4
    <2>3. QED
      BY <2>1, <2>2
  <1>5. \A d : /\ PutBack(d) => PutBack(d)'
               /\ Covered(d) => Covered(d)' \/ (W.pc \in Uncertain /\ d = Cur.final)
               /\ d = Cur.final /\ ph = "restored" => PutBack(d)'
    <2>1. W.pc \notin Uncertain => Cur.phase # "published"
      BY <1>1, <1>2 DEF Copies, Progress
    <2>2. QED
      BY <1>2, <1>4, <2>1 DEF PutBack, Covered, Cur
  <1>6. Owned'
    BY <1>1, <1>3, <1>4, CopyFacts DEF Copies, Owned
  <1>7. Progress'
    BY <1>1, <1>2, <1>3, <1>4 DEF Copies, Progress, Cur, Swapping
  <1>8. Replaces' /\ Deletes'
    BY <1>3 DEF Replaces, Deletes
  <1>9. Recovers'
    BY <1>2, <1>3, SwapAlone DEF Recovers, Recovering, Handling, Swapping, W
  <1>10. Outdated'
    BY <1>1, <1>3, <1>4, <1>5, CopyFacts DEF Copies, Outdated, Named
  <1>11. QED
    BY <1>6, <1>7, <1>8, <1>9, <1>10 DEF Copies

(* A deletion leaves no intact copy behind that the catalog named.         *)
LEMMA CopiesRemoved ==
    ASSUME KInv, Remove
    PROVE  Copies'
  <1> USE DEF At, Goto, Procs
  <1>1. ProcsTyped /\ CacheTyped /\ Copies
    BY DEF KInv, IInv, TypeOK
  <1>2. proc'["web"] = proc["web"] /\ applied' = applied /\ tx' = tx
    BY <1>1 DEF Remove, RemoveCheck, RemoveTree, RemoveRow, ProcsTyped
  <1>3. CASE RemoveCheck \/ RemoveTree \/ (RemoveRow /\ row' = row)
    <2>1. Calm
      BY <1>1, <1>2, <1>3
      DEF RemoveCheck, RemoveTree, RemoveRow, Calm, Named, CacheTyped
    <2>2. WorkerCalm
      <3>1. CASE RemoveCheck
        <4>1. W'.pc = "remove" /\ W'.gone = row' /\ row' # NoDir
          BY <1>1, <3>1 DEF RemoveCheck, Removable, W, ProcsTyped, ProcRecord
        <4>2. QED
          BY <4>1 DEF WorkerCalm, Deletes
      <3>2. CASE RemoveTree
        <4>1. W.gone = row /\ row # NoDir
          BY <1>1, <3>2 DEF RemoveTree, Copies, Deletes, W
        <4>2. W'.pc = "forget" /\ W'.gone = row' /\ row' # NoDir /\ dir'[row'] # "good"
          BY <1>1, <3>2, <4>1, CopyFacts
          DEF RemoveTree, W, ProcsTyped, ProcRecord, CacheTyped
        <4>3. QED
          BY <4>2 DEF WorkerCalm, Deletes
      <3>3. CASE RemoveRow
        <4>1. W'.pc = "idle"
          BY <1>1, <3>3 DEF RemoveRow, W, ProcsTyped, Idle
        <4>2. QED
          BY <4>1 DEF WorkerCalm, Rest, Before, Uncertain, Cleaning, Undoing, Preparing
      <3>4. QED
        BY <1>3, <3>1, <3>2, <3>3
    <2>3. RecoverCalm
      BY <1>1, <1>2, <1>3
      DEF RemoveCheck, RemoveTree, RemoveRow, RecoverCalm, ProcsTyped, ProcRecord, Idle
    <2>4. QED
      BY <2>1, <2>2, <2>3, CalmStep
  <1>4. CASE RemoveRow /\ row' = NoDir
    <2>1. W.pc = "forget" /\ row # NoDir /\ (dir[row] # "good" \/ PutBack(row))
      BY <1>1, <1>4 DEF RemoveRow, Copies, Deletes, W
    <2>2. W'.pc = "idle" /\ dir' = dir
      BY <1>1, <1>4 DEF RemoveRow, W, ProcsTyped, Idle
    <2>3. \A d : (PutBack(d)' <=> PutBack(d)) /\ (Covered(d)' <=> Covered(d))
      BY <1>2 DEF PutBack, Covered
    <2>4. Owned'
      BY <1>1, <1>2, <1>4, CopyFacts DEF Copies, Owned
    <2>5. Progress' /\ Replaces' /\ Deletes'
      BY <2>2 DEF Progress, Replaces, Deletes, Before, Uncertain, Cleaning, Undoing,
                  Preparing, Swapping
    <2>6. Recovers'
      BY <1>1, <1>2, <1>4, <2>2, CopyFacts DEF Copies, Recovers, W
    <2>7. Outdated'
      BY <1>1, <1>2, <1>4, <2>1, <2>2, <2>3 DEF Copies, Outdated, Named
    <2>8. QED
      BY <2>4, <2>5, <2>6, <2>7 DEF Copies
  <1>5. QED
    BY <1>3, <1>4 DEF Remove, RemoveRow

(* An apply names at most the catalog's copy anew; a prune, a crash and a  *)
(* damage make no copy intact.                                             *)
LEMMA CopiesBeside ==
    ASSUME KInv, Web \/ Host
    PROVE  Copies'
  <1> USE DEF At, Goto, Procs
  <1>1. ProcsTyped /\ CacheTyped
    BY DEF KInv, IInv, TypeOK
  <1>2. CASE Web
    <2>1. row' = row /\ tx' = tx /\ W' = W /\ proc'["web"].pc \notin Handling
      BY <1>1, <1>2
      DEF Web, SetDesired, ApplyBegin, ApplyEnd, Prune, W, ProcsTyped, ProcRecord, Idle,
          Handling
    <2>2. Named' \subseteq Named \cup {row}
      BY <1>1, <1>2
      DEF Web, SetDesired, ApplyBegin, ApplyEnd, Prune, Named, ProcsTyped, ProcRecord,
          Idle
    <2>3. \A d \in Dirs : dir'[d] = "good" => dir[d] = "good"
      BY <1>1, <1>2 DEF Web, SetDesired, ApplyBegin, ApplyEnd, Prune, CacheTyped
    <2>4. Calm
      BY <2>1, <2>2, <2>3 DEF Calm
    <2>5. WorkerCalm /\ RecoverCalm
      BY <2>1 DEF WorkerCalm, RecoverCalm, Handling, W
    <2>6. QED
      BY <2>4, <2>5, CalmStep
  <1>3. CASE Host
    <2>1. row' = row /\ tx' = tx /\ applied' = applied
      BY <1>3 DEF Host, Crash, Damage
    <2>2. \A p \in Procs : proc'[p] = proc[p] \/ proc'[p] = Down
      BY <1>1, <1>3 DEF Host, Crash, Damage, ProcsTyped
    <2>3. \A d \in Dirs : dir'[d] = "good" => dir[d] = "good"
      BY <1>1, <1>3 DEF Host, Crash, Damage, CacheTyped
    <2>4. Calm
      BY <2>1, <2>2, <2>3 DEF Calm, Named, Down, Idle
    <2>5. WorkerCalm /\ RecoverCalm
      BY <2>2
      DEF WorkerCalm, RecoverCalm, W, Down, Idle, Rest, Before, Uncertain, Cleaning,
          Undoing, Preparing
    <2>6. QED
      BY <2>4, <2>5, CalmStep
  <1>4. QED
    BY <1>2, <1>3

(* A recovery works on a journal that no swap in progress owns, and alone. *)
LEMMA RecoversAlone ==
    ASSUME KInv, NEW p \in Procs, proc[p].pc \in Handling
    PROVE  /\ W.pc \notin Swapping
           /\ W.pc \in Preparing => W.tx # proc[p].tx
           /\ \A q \in Procs : proc[q].pc \in Recovering => q = p
  <1>1. \A q \in Procs : proc[q].pc \in Recovering => lock = q
    BY DEF KInv, IInv, Swap, LockOwned, Procs, W
  <1>2. Handling \subseteq Recovering /\ Handling \cap Swapping = {}
    BY DEF Handling, Recovering, Swapping
  <1>3. W.pc \in Swapping => lock = "worker"
    BY DEF KInv, IInv, Swap, LockOwned
  <1>4. W.pc \in Preparing => W.tx # proc[p].tx
    BY DEF KInv, IInv, Swap, Unjournaled, RecoverTx, Cur
  <1>5. QED
    BY <1>1, <1>2, <1>3, <1>4 DEF W, Procs

(* The process that chooses a journal, and only it, moves on.              *)
LEMMA JournalChosen ==
    ASSUME ProcsTyped, NEW p \in Procs, NEW t \in Tx, RecoverJournal(p, t)
    PROVE  /\ \A q \in Procs : q # p => proc'[q] = proc[q]
           /\ proc'[p].tx = t /\ proc'[p].gone = proc[p].gone
           /\ proc'[p].pc = IF Published(t) THEN "forward" ELSE "backward"
  <1>1. PICK s : /\ proc' = [proc EXCEPT ![p].tx = t, ![p].pc = s]
                 /\ s = IF Published(t) THEN "forward" ELSE "backward"
    BY Zenon DEF RecoverJournal
  <1>2. QED
    BY <1>1 DEF ProcsTyped, ProcRecord

(* A recovery takes its lock, chooses a journal, rolls it forward, and     *)
(* ends; it looks at the catalog before it decides.                        *)
LEMMA RecoverCalmly ==
    ASSUME KInv, NEW p \in Procs,
           \/ RecoverBegin(p) \/ RecoverForward(p) \/ RecoverEnd(p)
           \/ \E t \in Tx : RecoverJournal(p, t)
    PROVE  Copies'
  <1> USE DEF At, Goto
  <1>1. ProcsTyped /\ CacheTyped /\ Copies /\ JournalsNamed
    BY DEF KInv, IInv, TypeOK
  <1>2. row' = row /\ dir' = dir /\ applied' = applied
    BY DEF RecoverBegin, RecoverForward, RecoverEnd, RecoverJournal
  <1>3. /\ \A q \in Procs : q # p => proc'[q] = proc[q]
        /\ proc'[p].pc \in {"journals", "forward", "backward", "close", "idle"}
        /\ proc'[p].gone \in {proc[p].gone, NoDir}
    <2>1. CASE RecoverBegin(p) \/ RecoverEnd(p)
      BY <1>1, <2>1 DEF RecoverBegin, RecoverEnd, ProcsTyped, Idle
    <2>2. CASE RecoverForward(p)
      BY <1>1, <2>2 DEF RecoverForward, ProcsTyped, ProcRecord
    <2>3. CASE \E t \in Tx : RecoverJournal(p, t)
      BY <1>1, <2>3, JournalChosen
    <2>4. QED
      BY <2>1, <2>2, <2>3
  <1>4. \A t \in Tx : /\ tx'[t].final = tx[t].final /\ tx'[t].phase = tx[t].phase
                      /\ tx'[t].journal = tx[t].journal
    <2>1. CASE RecoverForward(p)
      <3>1. proc[p].tx \in Tx
        BY <2>1, CopyFacts DEF RecoverForward
      <3>2. QED
        BY <1>1, <2>1, <3>1 DEF RecoverForward, ProcsTyped, TxRecord
    <2>2. CASE RecoverBegin(p)
      BY <1>1, <2>2 DEF RecoverBegin, ProcsTyped, TxRecord
    <2>3. QED
      BY <2>1, <2>2 DEF RecoverEnd, RecoverJournal
  <1>5. Calm
    BY <1>2, <1>3, <1>4 DEF Calm, Named, Procs
  <1>6. WorkerCalm
    BY <1>3
    DEF WorkerCalm, W, Rest, Before, Uncertain, Cleaning, Undoing, Preparing, Procs
  <1>7. RecoverCalm \/ Recovers'
    <2>1. CASE RecoverBegin(p) \/ RecoverEnd(p)
      BY <1>1, <1>3, <2>1 DEF RecoverBegin, RecoverEnd, RecoverCalm, ProcsTyped, Idle
    <2>2. CASE RecoverForward(p)
      <3>1. proc'[p].pc = "close" /\ proc'[p].tx = proc[p].tx /\ proc[p].pc = "forward"
        BY <1>1, <2>2 DEF RecoverForward, ProcsTyped, ProcRecord
      <3>2. QED
        BY <1>1, <1>2, <1>3, <1>4, <3>1, CopyFacts DEF Copies, Recovers
    <2>3. CASE \E t \in Tx : RecoverJournal(p, t)
      <3>1. PICK t \in Tx : RecoverJournal(p, t)
        BY <2>3
      <3>2. /\ tx[t].final \in Dirs /\ proc'[p].tx = t
            /\ proc'[p].pc = IF Published(t) THEN "forward" ELSE "backward"
        <4>1. tx[t].final \in Dirs
          BY <1>1, <3>1 DEF RecoverJournal, JournalsNamed
        <4>2. QED
          BY <1>1, <3>1, <4>1, JournalChosen
      <3>3. ~Published(t) /\ row = tx[t].final => dir[row] # "good"
        BY <3>2, CopyFacts DEF Published, Verified
      <3>4. Published(t) /\ tx[t].phase = "published" => tx[t].final = 0 /\ row = 0
        BY <1>1, CopyFacts DEF Published, Verified, Copies, Owned
      <3>5. QED
        BY <1>1, <1>2, <1>3, <1>4, <3>2, <3>3, <3>4, CopyFacts DEF Copies, Recovers
    <2>4. QED
      BY <2>1, <2>2, <2>3
  <1>8. QED
    BY <1>5, <1>6, <1>7, CalmStep

(* A roll back removes a copy that the catalog does not name intact, puts  *)
(* the backup back and closes the journal.                                 *)
LEMMA CopiesRecovered ==
    ASSUME KInv, NEW p \in Procs, RecoverBackward(p) \/ RecoverRestore(p) \/ RecoverClose(p)
    PROVE  Copies'
  <1> USE DEF At, Goto
  <1>1. ProcsTyped /\ CacheTyped /\ Copies
    BY DEF KInv, IInv, TypeOK
  <1>2. PICK t \in Tx : t = proc[p].tx /\ tx[t].final \in Dirs
    BY CopyFacts DEF RecoverBackward, RecoverRestore, RecoverClose
  <1>3. /\ row' = row /\ applied' = applied
        /\ \A q \in Procs : q # p => proc'[q] = proc[q]
        /\ proc'[p].pc \in {"restore", "close", "journals"}
        /\ proc'[p].gone = proc[p].gone /\ proc'[p].tx = t
    BY <1>1, <1>2
    DEF RecoverBackward, RecoverRestore, RecoverClose, ProcsTyped, ProcRecord
  <1>4. /\ W.pc \notin Swapping
        /\ W.pc \in Preparing => W.tx # t
        /\ \A q \in Procs : proc[q].pc \in Handling => q = p
    BY <1>2, RecoversAlone
    DEF RecoverBackward, RecoverRestore, RecoverClose, Handling, Recovering
  <1>5. \A u \in Tx : /\ tx'[u].final = tx[u].final
                      /\ u # t => /\ tx'[u].phase = tx[u].phase
                                  /\ tx'[u].journal = tx[u].journal
    BY <1>1, <1>2
    DEF RecoverBackward, RecoverRestore, RecoverClose, ProcsTyped, TxRecord
  <1>6. tx'[t].phase = "published" => tx[t].phase = "published"
    <2>1. PhaseAfter(t) = "published" => tx[t].phase = "published"
      BY DEF PhaseAfter
    <2>2. QED
      BY <1>1, <1>2, <2>1
      DEF RecoverBackward, RecoverRestore, RecoverClose, ProcsTyped, TxRecord
  <1>7. \A d \in Dirs : /\ dir'[d] = "good" => dir[d] = "good" \/ PutBack(d)'
                        /\ PutBack(d) => PutBack(d)' \/ dir'[d] # "good"
                        /\ Covered(d) /\ ~RecoverClose(p) => Covered(d)' \/ dir'[d] # "good"
    <2>1. CASE RecoverBackward(p)
      <3>1. \A d \in Dirs : dir'[d] = IF d = tx[t].final THEN "none" ELSE dir[d]
        BY <1>1, <1>2, <2>1 DEF RecoverBackward, CacheTyped
      <3>2. QED
        BY <1>5, <3>1 DEF PutBack, Covered
    <2>2. CASE RecoverRestore(p)
      <3>1. tx[t].phase = "begun"
        BY <1>1, <1>2, <2>2 DEF RecoverRestore, Copies, Recovers
      <3>2. tx'[t].phase = PhaseAfter(t)
        BY <1>1, <1>2, <2>2 DEF RecoverRestore, ProcsTyped, TxRecord
      <3>3. \A d \in Dirs : dir'[d] = "good" =>
               dir[d] = "good" \/ (d = tx[t].final /\ tx[t].backup = "good")
        BY <1>1, <1>2, <2>2 DEF RecoverRestore, CacheTyped, Restored
      <3>4. QED
        BY <1>5, <3>1, <3>2, <3>3 DEF PutBack, Covered, PhaseAfter
    <2>3. CASE RecoverClose(p)
      <3>1. dir' = dir /\ \A u \in Tx : tx'[u].phase = tx[u].phase
        BY <1>1, <1>2, <2>3 DEF RecoverClose, ProcsTyped, TxRecord
      <3>2. QED
        BY <1>5, <2>3, <3>1 DEF PutBack
    <2>4. QED
      BY <2>1, <2>2, <2>3
  <1>8. /\ W' = W \/ W'.pc \in {"restore", "close", "journals"}
        /\ Named' = Named
    BY <1>3 DEF W, Named, Procs
  <1>9. Owned'
    BY <1>1, <1>3, <1>5, <1>6, CopyFacts DEF Copies, Owned
  <1>10. Progress'
    <2>1. Preparing \cup Swapping = Before \cup Uncertain \cup Cleaning \cup Undoing
      BY DEF Preparing, Swapping, Before, Uncertain, Cleaning, Undoing
    <2>2. W'.pc \in Preparing \cup Swapping => W' = W /\ W.pc \in Preparing /\ W.tx \in Tx \ {t}
      BY <1>4, <1>8, <2>1, CopyFacts DEF Preparing, Swapping, Rest
    <2>3. QED
      BY <1>1, <1>5, <2>1, <2>2
      DEF Copies, Progress, Cur, Preparing, Before, Uncertain, Cleaning, Undoing
  <1>11. Replaces'
    <2>1. W'.pc \in Before \cup Uncertain => W' = W /\ W.pc \in Before \cup Uncertain /\ W.tx \in Tx
      BY <1>8, CopyFacts DEF Before, Uncertain, Preparing, Rest
    <2>2. QED
      BY <1>1, <1>3, <1>5, <1>7, <2>1, CopyFacts DEF Copies, Replaces, Cur
  <1>12. Deletes'
    BY <1>1, <1>3, <1>7, <1>8, CopyFacts DEF Copies, Deletes
  <1>13. Recovers'
    <2>1. \A q \in Procs : proc'[q].pc \in Handling => q = p
      BY <1>3, <1>4
    <2>2. proc'[p].pc = "restore" => tx'[t].phase = "begun"
      BY <1>1, <1>2
      DEF RecoverBackward, RecoverRestore, RecoverClose, ProcsTyped, ProcRecord,
          TxRecord
    <2>3. proc'[p].pc = "close" => tx'[t].phase # "published"
      <3>1. proc'[p].pc = "close" => RecoverRestore(p)
        BY <1>1
        DEF RecoverBackward, RecoverRestore, RecoverClose, ProcsTyped, ProcRecord
      <3>2. RecoverRestore(p) => tx[t].phase = "begun"
        BY <1>1, <1>2 DEF RecoverRestore, Copies, Recovers
      <3>3. QED
        BY <1>6, <3>1, <3>2
    <2>4. QED
      BY <1>3, <2>1, <2>2, <2>3 DEF Recovers, Handling
  <1>14. Outdated'
    <2>1. CASE ~RecoverClose(p)
      BY <1>1, <1>3, <1>7, <1>8, <2>1, CopyFacts DEF Copies, Outdated
    <2>2. CASE RecoverClose(p)
      <3>1. dir' = dir /\ \A u \in Tx : tx'[u].phase = tx[u].phase
        BY <1>1, <1>2, <2>2 DEF RecoverClose, ProcsTyped, TxRecord
      <3>2. tx[t].phase = "published" => tx[t].final = 0 /\ row \in {NoDir, 0}
        BY <1>1, <1>2, <2>2 DEF RecoverClose, Copies, Recovers
      <3>3. \A d \in Dirs : Covered(d) => Covered(d)' \/ (d = 0 /\ row \in {NoDir, 0})
        BY <1>5, <3>1, <3>2 DEF Covered
      <3>4. QED
        BY <1>1, <1>3, <1>7, <1>8, <3>1, <3>3, CopyFacts DEF Copies, Outdated
    <2>3. QED
      BY <2>1, <2>2
  <1>15. QED
    BY <1>9, <1>10, <1>11, <1>12, <1>13, <1>14 DEF Copies

(* Every step keeps the copies in use.                                     *)
LEMMA CopiesStep == KInv /\ [Next]_vars => KInv'
  <1> SUFFICES ASSUME KInv, [Next]_vars PROVE Copies'
    BY InvStep DEF KInv
  <1>1. CASE Next
    BY <1>1, SwapCalm, CopiesBegun, CopiesPublished, CopiesCommitted, CopiesUndone,
       CopiesRemoved, CopiesBeside, RecoverCalmly, CopiesRecovered
    DEF Next, Sync, Recover
  <1>2. CASE UNCHANGED vars
    BY <1>2, CalmStep DEF vars, Calm, WorkerCalm, RecoverCalm, Named, W
  <1>3. QED
    BY <1>1, <1>2

(* Before the first start no copy is named and no swap has begun.          *)
LEMMA CopiesInit == Init => KInv
  <1> SUFFICES ASSUME Init PROVE Copies
    BY InitInv DEF KInv
  <1> USE DEF Init, W, Down, Idle, Procs
  <1>1. NoDir \notin Tx
    BY MediaStoreConstants DEF Tx, NoDir
  <1>2. Owned
    BY <1>1 DEF Owned, NewTx
  <1>3. Progress /\ Replaces /\ Deletes
    BY DEF Progress, Replaces, Deletes, Before, Uncertain, Cleaning, Undoing, Preparing,
           Swapping
  <1>4. Recovers
    BY DEF Recovers
  <1>5. Outdated
    BY DEF Outdated, Named
  <1>6. QED
    BY <1>2, <1>3, <1>4, <1>5 DEF Copies

(* What the swaps, the deletions and the recoveries know of the copies in  *)
(* use holds whatever dies and fails, and whoever applies meanwhile.       *)
THEOREM CopiesInvariance == Spec => []KInv
  BY CopiesInit, CopiesStep, PTL DEF Spec

(* An intact copy in use goes only to an admitted deletion, to a swap that *)
(* moves it aside under its journal or undoes its own publication, or      *)
(* where an intact backup was put back of a copy only the manifest names.  *)
LEMMA KeptStep ==
    ASSUME KInv, Next, NEW d \in Referenced, dir[d] = "good", dir'[d] = "none"
    PROVE  \/ At("worker", "remove") /\ W.gone = d
           \/ \E t \in Tx : /\ tx[t].journal /\ tx[t].final = d
                            /\ tx[t].phase = "published" \/ tx'[t].backup = "good"
           \/ d # row /\ PutBack(d)
  <1>1. ProcsTyped /\ CacheTyped /\ Copies
    BY DEF KInv, IInv, TypeOK
  <1>2. d \in Dirs /\ row # NoDir /\ (d = row \/ (d = applied /\ d \in Named))
    BY <1>1 DEF Referenced, CacheTyped, Named
  <1>3. d # row => PutBack(d) \/ Covered(d)
    BY <1>1, <1>2 DEF Copies, Outdated
  <1>4. dir' # dir
    OBVIOUS
  <1>5. CASE MoveAside
    <2>1. W.pc = "move" /\ W.moves /\ d = 0 /\ tx' = [tx EXCEPT ![W.tx].backup = dir[0]]
      BY <1>1, <1>2, <1>4, <1>5 DEF MoveAside, At, W, CacheTyped
    <2>2. W.tx \in Tx /\ Cur.final = 0 /\ Cur.journal
      BY <1>1, <2>1
      DEF KInv, IInv, Swap, SwapTx, Journaled, Copies, Progress, Preparing, Swapping
    <2>3. tx'[W.tx].backup = "good"
      BY <1>1, <2>1, <2>2 DEF ProcsTyped, TxRecord
    <2>4. QED
      BY <2>1, <2>2, <2>3 DEF Cur
  <1>6. CASE CleanSuperseded
    <2>1. W.pc = "cleangone" /\ W.gone = d
      BY <1>1, <1>2, <1>6 DEF CleanSuperseded, At, W, CacheTyped
    <2>2. d # row
      BY <1>1, <1>2, <2>1, CopyFacts DEF Copies, Progress, Cleaning, Swapping
    <2>3. QED
      BY <1>3, <2>2 DEF Covered
  <1>7. CASE UndoPublish
    <2>1. W.pc \in {"undo", "handle"} /\ Cur.final = d
      BY <1>1, <1>2, <1>7 DEF UndoPublish, CacheTyped
    <2>2. W.tx \in Tx /\ Cur.journal /\ Cur.phase = "published"
      BY <1>1, <2>1
      DEF KInv, IInv, Swap, SwapTx, Journaled, Copies, Progress, Preparing, Swapping,
          Uncertain
    <2>3. QED
      BY <2>1, <2>2 DEF Cur
  <1>8. CASE RemoveTree
    BY <1>1, <1>2, <1>8 DEF RemoveTree, CacheTyped
  <1>9. CASE Prune
    BY <1>1, <1>2, <1>9 DEF Prune, Protected, CacheTyped
  <1>10. CASE \E p \in Procs : RecoverBackward(p)
    <2>1. PICK p \in Procs : RecoverBackward(p)
      BY <1>10
    <2>2. proc[p].pc = "backward" /\ tx[proc[p].tx].final = d
      BY <1>1, <1>2, <2>1 DEF RecoverBackward, At, CacheTyped
    <2>3. d # row
      BY <1>1, <2>2 DEF Copies, Recovers
    <2>4. QED
      BY <1>3, <2>3 DEF Covered
  <1>11. ASSUME NEW t \in Tx, tx[t].final \in Dirs, dir' = Restored(t) PROVE FALSE
    BY <1>1, <1>2, <1>11 DEF Restored, CacheTyped
  <1>12. ~UndoBackup
    <2>1. W.pc \in {"undobackup", "handlebackup"} => W.tx \in Tx /\ Cur.final \in Dirs
      BY CopyFacts DEF Rest, Undoing
    <2>2. QED
      BY <1>11, <2>1 DEF UndoBackup, Cur
  <1>13. \A p \in Procs : ~RecoverRestore(p)
    BY <1>11, CopyFacts DEF RecoverRestore, At
  <1>14. ~Publish /\ \A e \in Dirs : ~Damage(e)
    BY <1>1, <1>2, <1>4 DEF Publish, Damage, CacheTyped
  <1>15. QED
    BY <1>4, <1>5, <1>6, <1>7, <1>8, <1>9, <1>10, <1>12, <1>13, <1>14
    DEF Next, Sync, Remove, Web, Recover, Host, SyncBegin, Stage, Lease, Acquire,
        TakeLock,
        WriteJournal, Unstage, CommitRow, CleanBackup, Unlink, CleanFails, RemoveCheck,
        RemoveRow, SetDesired, ApplyBegin, ApplyEnd, RecoverBegin, RecoverForward,
        RecoverClose, RecoverEnd, RecoverJournal, Crash

(* No order of syncs, applies, prunes, deletions, deaths and recoveries    *)
(* loses an intact copy that the catalog names, nor one that only the live *)
(* clients' manifest names, unless an intact backup was put back there     *)
(* (commit_filesystem, prune_superseded_shredos_media,                     *)
(* recover_interrupted_network_boot_media_swaps).                          *)
THEOREM CopiesInUseKept == Spec => ReferencedKept
  <1>1. KInv /\ [Next]_vars =>
           [\A d \in Referenced : dir[d] = "good" /\ dir'[d] = "none" =>
               \/ At("worker", "remove") /\ W.gone = d
               \/ \E t \in Tx : /\ tx[t].journal /\ tx[t].final = d
                                /\ tx[t].phase = "published" \/ tx'[t].backup = "good"
               \/ d # row /\ PutBack(d)]_vars
    BY KeptStep
  <1>2. QED
    BY <1>1, CopiesInvariance, PTL DEF Spec, ReferencedKept

=============================================================================
