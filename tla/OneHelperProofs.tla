-------------------------- MODULE OneHelperProofs --------------------------
(***************************************************************************)
(* What one helper at a time may count on between two of its own steps,    *)
(* for every number of backups, edits and faults: the backup it works on   *)
(* is not one that has been rolled back; a file its plan still has to      *)
(* restore holds what the manifest says the operation wrote, unless        *)
(* somebody edited it where no comparison of hashes sees it; and the swap  *)
(* file it is about to move away has been switched off, unless it was      *)
(* misread as not in use.                                                  *)
(*                                                                         *)
(* They follow from ReversibleInv, by which the copy of the manifest the   *)
(* process holds is the one on disk, and from the guard of cmd_rollback.   *)
(***************************************************************************)
EXTENDS HelperProofs

Current(p) ==
  LET m == manifest[job[p].bid]
  IN  /\ pc[p] \in HoldingPC => m.status # "rolled-back"
      /\ pc[p] \in {"rb-mark", "rb-snapshot"} => job[p].orig # "rolled-back"
      /\ pc[p] \in ExecPC
           => \A f \in File \cap job[p].todo : disk[f] = m.files[f].after \/ raced[f] # {}

CurrentInv == ReversibleInv /\ \A p \in Proc : Current(p)

-----------------------------------------------------------------------------
(* Which process moves, and where to *)

(* A process that moves is the only one that is not idle. *)
LEMMA StepAlone ==
  ASSUME Concurrent = FALSE, TypeInv, NEW p \in Proc, Start(p) \/ ApplyStep(p) \/ RollbackStep(p)
  PROVE  Alone(p)
<1>1. \A q \in Proc \ {p} : pc'[q] = pc[q]
  <2>1. LockMove(p) BY LockMoves DEF TypeInv, TypeOK
  <2>2. PcType BY DEF TypeInv, TypeOK
  <2> QED BY <2>1, <2>2, GotoOthers DEF LockMove, Exit
<1>2. CASE Start(p)
  <2>1. AllIdle
    BY <1>2 DEF Start, StartTargetApply, StartSwapApply, StartRollback, CanStart
  <2> QED BY <1>1, <2>1 DEF Alone
<1>3. CASE ApplyStep(p)
  <2>1. pc[p] # "idle"
    BY <1>3 DEF ApplyStep, ValidateTarget, Begin, BeginFails, CheckSwap, RecordBefore, WriteFile,
       RecordAfter, RecordSwap, SwapOff, RetainOld, SaveOldName, CreateFile, Allocate, MkSwap,
       SwapOn, SwapCommandFails, SelectTarget, UpdateInitramfs, UpdateGrub, FinishApply
  <2> QED BY <1>1, <2>1 DEF Alone
<1>4. CASE RollbackStep(p)
  <2>1. pc[p] # "idle"
    BY <1>4 DEF RollbackStep, AcquireLock, LoadManifest, MarkRollingBack, SafetySnapshot,
       SafetySnapshotFails, PlanRollback, RestoreFile, RemoveDir, Regenerate, SwapRollbackBegins,
       ParkCurrent, RestoreOld, SwapBackOn, UnlinkSwap, ActionFails, FinishRollback, Doing
  <2> QED BY <1>1, <2>1 DEF Alone
<1> QED BY <1>2, <1>3, <1>4

(* The others are idle, and an idle process has nothing to rely on. *)
LEMMA OthersIdle ==
  ASSUME ReversibleInv, NEW p \in Proc, Alone(p), Current(p)'
  PROVE  \A q \in Proc : Current(q)'
<1>1. \A q \in Proc \ {p} : pc'[q] = "idle" BY DEF ReversibleInv, OneAtATime, Alone, AllIdle
<1> QED BY <1>1 DEF Current, HoldingPC, ExecPC

(* A process that ends, or does not hold a manifest, has nothing to rely   *)
(* on either.                                                              *)
LEMMA NotHolding ==
  ASSUME NEW p \in Proc, pc'[p] \notin HoldingPC
  PROVE  Current(p)'
BY DEF Current, HoldingPC, ExecPC, PC, LockedPC

LEMMA ExitCurrent ==
  ASSUME PcType, NEW p \in Proc, Exit(p)
  PROVE  Current(p)'
BY GotoOthers, NotHolding DEF Exit, HoldingPC

(* What a process saves replaces the manifest it works on. *)
LEMMA SaveAt ==
  ASSUME RecordsType, NEW p \in Proc, job[p].bid \in BackupId, NEW m, Save(p, m)
  PROVE  manifest'[job[p].bid] = m /\ \A c \in BackupId \ {job[p].bid} : manifest'[c] = manifest[c]
BY DEF RecordsType, Save

(* A process that holds a manifest, goes on in an apply and keeps both.    *)
LEMMA StillApplying ==
  ASSUME NEW p \in Proc, Current(p), pc[p] \in HoldingPC, pc'[p] \in ApplyPC,
         job'[p].bid = job[p].bid,
         manifest'[job[p].bid].status = manifest[job[p].bid].status
  PROVE  Current(p)'
BY DEF Current, ExecPC, ApplyPC

(* One that executes a plan, leaves the manifest and the files it still    *)
(* has to restore as they are, and has no more to do than before.          *)
LEMMA StillExecuting ==
  ASSUME NEW p \in Proc, Current(p), pc[p] \in ExecPC, pc'[p] \in ExecPC,
         UNCHANGED manifest, job'[p].bid = job[p].bid, job'[p].todo \subseteq job[p].todo,
         \A f \in File \cap job'[p].todo : disk'[f] = disk[f], UNCHANGED raced
  PROVE  Current(p)'
BY DEF Current, HoldingPC, ExecPC, PC, LockedPC

-----------------------------------------------------------------------------
(* The steps of an apply *)

(* No step of an apply changes the backup it works on, or its status,      *)
(* except the one that begins it and the one that ends it.                 *)
LEMMA ApplyCurrent ==
  ASSUME TypeInv, CurrentInv, NEW p \in Proc, Start(p) \/ ApplyStep(p)
  PROVE  Current(p)'
<1> USE DEF TypeInv, TypeOK
<1> DEFINE b == job[p].bid
<1>0. /\ job[p] \in Job /\ job[p].mem \in Manifest /\ job[p].file \in File
      /\ job[p].want \in Content /\ job[p].wasActive \in BOOLEAN
  BY DEF JobType, Job
<1>1. Local(p) /\ Current(p) BY DEF CurrentInv, ReversibleInv
<1>2. ASSUME pc[p] \in HoldingPC PROVE b \in BackupId /\ manifest[b] = job[p].mem
  BY <1>1, <1>2 DEF HoldingPC, WorksOnBackup, Local
<1>3. CASE Exit(p) BY <1>3, ExitCurrent
<1>4. CASE Start(p) \/ ValidateTarget(p)
  <2>1. Exit(p) \/ \E l \in {"validate", "begin", "rb-lock"} : Goto(p, l)
    BY <1>4 DEF Start, StartTargetApply, StartSwapApply, StartRollback, ValidateTarget
  <2> QED BY <1>3, <2>1, GotoOthers, NotHolding DEF HoldingPC
<1>5. CASE Begin(p)
  <2>1. nextId \in 0..MaxBackups /\ nextId \in BackupId /\ EmptyManifest \in Manifest
    BY <1>5, ConstantTypes, BoundAssumption DEF Begin, NewManifest, BackupId
  <2>2. Keep(p, WithBackup(job[p], nextId, EmptyManifest)) BY <1>5 DEF Begin, WithBackup
  <2>3. job'[p].bid = nextId BY <1>0, <2>1, <2>2, JobUpdates, KeepIt
  <2>4. manifest'[nextId].status = "in-progress"
    BY <1>5, <2>1 DEF Begin, NewManifest, RecordsType, EmptyManifest, NoManifest
  <2>5. \E l \in {"check-swap", "record"} : Goto(p, l) BY <1>5 DEF Begin
  <2> QED BY <2>3, <2>4, <2>5, GotoOthers DEF Current, ExecPC
<1>6. CASE CheckSwap(p) /\ ~Exit(p)
  <2> DEFINE n == swapAt = NoFile \/ inode[swapAt].size # job[p].size
             c == WithEntry(disk["fstab"])
  <2>0. PICK misread \in BOOLEAN :
          Keep(p, Checked(job[p], n, SwapActive(misread), "fstab", c)) /\ pc[p] = "check-swap"
    BY <1>6 DEF CheckSwap, Checked
  <2> DEFINE a == SwapActive(misread)
  <2>1. n \in BOOLEAN /\ a \in BOOLEAN /\ "fstab" \in File /\ c \in Content
    BY ConstantTypes DEF SwapActive, InUse, File, FilesType
  <2> HIDE DEF n, c, a
  <2>2. Keep(p, Checked(job[p], n, a, "fstab", c)) /\ pc[p] = "check-swap"
    BY <2>0 DEF a
  <2>3. job'[p].bid = b BY <1>0, <2>1, <2>2, JobUpdates, KeepIt
  <2>4. (\E l \in {"swap-manifest", "record"} : Goto(p, l)) /\ UNCHANGED manifest
    BY <1>6 DEF CheckSwap, recVars
  <2> QED BY <1>1, <2>2, <2>3, <2>4, GotoOthers, StillApplying DEF HoldingPC, PC, ApplyPC
<1>7. CASE SelectTarget(p) /\ ~Exit(p)
  <2>1. Keep(p, WithTarget(job[p], ForSwap(swapAt), "resume")) /\ pc[p] = "select"
    BY <1>7 DEF SelectTarget, WithTarget
  <2>2. ForSwap(swapAt) \in Content /\ "resume" \in File
    BY <1>7, ConstantTypes, BoundAssumption DEF SelectTarget, InUse, SwapType, InodeId, File
  <2>3. job'[p].bid = b BY <1>0, <2>1, <2>2, JobUpdates, KeepIt
  <2>4. Goto(p, "record") /\ UNCHANGED manifest BY <1>7 DEF SelectTarget, recVars
  <2> QED BY <1>1, <2>1, <2>3, <2>4, GotoOthers, StillApplying DEF HoldingPC, PC, ApplyPC
<1>8. ASSUME NEW m \in Manifest, NEW f \in File, NEW l \in ApplyPC,
             m.status = job[p].mem.status, pc[p] \in HoldingPC,
             Save(p, m), Goto(p, l), Keep(p, WithMem(job[p], m)) \/ Keep(p, WithNextFile(job[p], m, f))
      PROVE  Current(p)'
  <2>1. manifest'[b].status = manifest[b].status BY <1>2, <1>8, SaveAt
  <2>2. job'[p].bid = b BY <1>0, <1>8, JobUpdates, KeepIt
  <2> QED BY <1>1, <1>8, <2>1, <2>2, GotoOthers, StillApplying
<1>9. CASE RecordBefore(p)
  <2> DEFINE f == job[p].file
             d == ({f} \cap DirFile) \ dirs
             m == Recorded(job[p].mem, f, disk[f], d)
  <2>1. m \in Manifest BY <1>0, RecordedType DEF FilesType
  <2>2. Save(p, m) /\ Keep(p, WithMem(job[p], m)) /\ Goto(p, "write") /\ pc[p] = "record"
    BY <1>9 DEF RecordBefore, WithMem
  <2> HIDE DEF d
  <2>3. m.status = job[p].mem.status BY <1>0, RecordedParts
  <2> HIDE DEF m
  <2> QED BY <1>0, <1>8, <2>1, <2>2, <2>3 DEF HoldingPC, PC, ApplyPC
<1>10. CASE RecordAfter(p)
  <2> DEFINE f == job[p].file
             m == Sealed(job[p].mem, f, disk[f])
             g == IF f = "resume" THEN "grub" ELSE f
  <2>1. m \in Manifest /\ g \in File BY <1>0, SealedType DEF FilesType, File
  <2>2. Save(p, m) /\ Keep(p, WithNextFile(job[p], m, g)) /\ pc[p] = "seal"
    BY <1>10 DEF RecordAfter, WithNextFile
  <2>3. \E l \in {"swap-manifest", "record", "initramfs"} : Goto(p, l)
    BY <1>0, <1>10 DEF RecordAfter, File
  <2>4. m.status = job[p].mem.status BY <1>0, SealedParts
  <2> HIDE DEF m, g
  <2> QED BY <1>8, <2>1, <2>2, <2>3, <2>4 DEF HoldingPC, PC, ApplyPC
<1>11. CASE RecordSwap(p)
  <2> DEFINE s == [recorded |-> TRUE, existed |-> swapAt # NoFile,
                   wasActive |-> job[p].wasActive, oldNamed |-> FALSE]
             m == [job[p].mem EXCEPT !.swap = s]
  <2>1. s \in SwapRecord BY <1>0 DEF SwapRecord
  <2>2. Save(p, m) /\ Keep(p, WithMem(job[p], m)) /\ pc[p] = "swap-manifest"
    BY <1>11 DEF RecordSwap, WithMem
  <2>3. \E l \in {"swapon", "swapoff", "retain"} : Goto(p, l) BY <1>11 DEF RecordSwap
  <2> HIDE DEF s
  <2>4. m \in Manifest /\ m.status = job[p].mem.status
    BY <1>0, <2>1, ManifestUpdates, StatusParts
  <2> HIDE DEF m
  <2> QED BY <1>0, <1>8, <2>2, <2>3, <2>4 DEF HoldingPC, PC, ApplyPC
<1>12. CASE SaveOldName(p)
  <2> DEFINE m == [job[p].mem EXCEPT !.swap.oldNamed = TRUE]
  <2>1. Save(p, m) /\ Keep(p, WithMem(job[p], m)) /\ Goto(p, "create") /\ pc[p] = "retain-save"
    BY <1>12 DEF SaveOldName, WithMem
  <2>2. m \in Manifest /\ m.status = job[p].mem.status
    BY <1>0, ManifestUpdates, StatusParts
  <2> HIDE DEF m
  <2> QED BY <1>0, <1>8, <2>1, <2>2 DEF HoldingPC, PC, ApplyPC
<1>13. ASSUME ~Exit(p),
              \/ WriteFile(p) \/ SwapOff(p) \/ RetainOld(p) \/ CreateFile(p) \/ Allocate(p)
              \/ MkSwap(p) \/ SwapOn(p) \/ UpdateInitramfs(p) \/ UpdateGrub(p)
       PROVE  Current(p)'
  <2>1. UNCHANGED <<job, manifest>>
    BY <1>13 DEF WriteFile, SwapOff, RetainOld, CreateFile, Allocate, MkSwap, SwapOn,
                 UpdateInitramfs, UpdateGrub, recVars
  <2>2. pc[p] \in HoldingPC
    BY <1>13 DEF WriteFile, SwapOff, RetainOld, CreateFile, Allocate, MkSwap, SwapOn,
                 UpdateInitramfs, UpdateGrub, HoldingPC, PC, ApplyPC
  <2>3. \E l \in ApplyPC : Goto(p, l)
    BY <1>13 DEF WriteFile, SwapOff, RetainOld, CreateFile, Allocate, MkSwap, SwapOn,
                 UpdateInitramfs, UpdateGrub, ApplyPC
  <2> QED BY <1>1, <2>1, <2>2, <2>3, GotoOthers, StillApplying
<1>14. CASE BeginFails(p) \/ SwapCommandFails(p) \/ FinishApply(p)
  BY <1>3, <1>14 DEF BeginFails, SwapCommandFails, FinishApply
<1> QED BY <1>3, <1>4, <1>5, <1>6, <1>7, <1>9, <1>10, <1>11, <1>12, <1>13, <1>14 DEF ApplyStep

-----------------------------------------------------------------------------
(* The steps of a rollback *)

(* What the planner says it will restore holds what the operation wrote.   *)
LEMMA PlannedContent ==
  ASSUME NEW m, NEW d, NEW ds, NEW o, NEW x
  PROVE  \A f \in File \cap BuildPlan(m, d, ds, o, x) : d[f] = m.files[f].after
BY DEF BuildPlan, SwapWillRun, DirWillRun, PostWillRun, FileWillRun, DirAction, File

(* The steps up to the plan: cmd_rollback's guard is what keeps a backup   *)
(* that was rolled back out.                                               *)
LEMMA PlanningCurrent ==
  ASSUME TypeInv, CurrentInv, NEW p \in Proc,
         \/ AcquireLock(p) \/ LoadManifest(p) \/ MarkRollingBack(p) \/ SafetySnapshot(p)
         \/ SafetySnapshotFails(p) \/ PlanRollback(p) \/ FinishRollback(p)
  PROVE  Current(p)'
<1> USE DEF TypeInv, TypeOK
<1> DEFINE b == job[p].bid
           old_m == manifest[b]
<1>0. /\ job[p] \in Job /\ job[p].mem \in Manifest /\ job[p].file \in File
      /\ job[p].want \in Content
  BY DEF JobType, Job
<1>1. Local(p) /\ Current(p) /\ Begun BY DEF CurrentInv, ReversibleInv, RecordInv
<1>2. ASSUME pc[p] \in HoldingPC
      PROVE  b \in BackupId /\ old_m = job[p].mem /\ old_m.status # "none" /\ old_m \in Manifest
  BY <1>1, <1>2 DEF HoldingPC, WorksOnBackup, Local, RecordsType
<1>3. CASE Exit(p) BY <1>3, ExitCurrent
<1>4. CASE AcquireLock(p) /\ ~Exit(p)
  <2>1. Goto(p, "rb-load") BY <1>4 DEF AcquireLock
  <2> QED BY <2>1, GotoOthers, NotHolding DEF HoldingPC
<1>5. CASE LoadManifest(p) /\ ~Exit(p)
  <2>1. b \in BackupId /\ old_m \in Manifest BY <1>5 DEF LoadManifest, WorksOnBackup, RecordsType
  <2>2. old_m.status \in Status \ {"rolled-back"}
    BY <1>5, <2>1, ManifestUpdates DEF LoadManifest, CanRollBack, Eligible
  <2>3. Keep(p, WithOriginal(job[p], old_m, old_m.status)) /\ Goto(p, "rb-mark") /\ UNCHANGED manifest
    BY <1>5 DEF LoadManifest, WithOriginal, recVars
  <2>4. job'[p].bid = b /\ job'[p].orig = old_m.status
    BY <1>0, <2>1, <2>2, <2>3, JobUpdates, JobParts, KeepIt
  <2> QED BY <2>2, <2>3, <2>4, GotoOthers DEF Current, ExecPC
<1>6. CASE MarkRollingBack(p)
  <2> DEFINE m == [job[p].mem EXCEPT !.status = "rollback-in-progress"]
  <2>1. m \in Manifest /\ m.status = "rollback-in-progress"
    BY <1>0, ManifestUpdates, StatusParts DEF Status
  <2>2. Save(p, m) /\ Keep(p, WithMem(job[p], m)) /\ Goto(p, "rb-snapshot") /\ pc[p] = "rb-mark"
    BY <1>6 DEF MarkRollingBack, WithMem
  <2> HIDE DEF m
  <2>3. manifest'[b] = m BY <1>2, <2>2, SaveAt DEF HoldingPC, PC, LockedPC, ExecPC
  <2>4. job'[p].bid = b /\ job'[p].orig = job[p].orig
    BY <1>0, <2>1, <2>2, JobUpdates, JobParts, KeepIt
  <2> QED BY <1>1, <2>1, <2>2, <2>3, <2>4, GotoOthers DEF Current, ExecPC
<1>7. CASE SafetySnapshot(p)
  <2>1. pc[p] = "rb-snapshot" /\ Goto(p, "rb-plan") /\ UNCHANGED job BY <1>7 DEF SafetySnapshot
  <2>2. b \in BackupId /\ old_m.status # "none" /\ nextId \in BackupId
    BY <1>2, <1>7, <2>1 DEF SafetySnapshot, NewManifest, HoldingPC, PC, LockedPC, ExecPC
  <2>3. b # nextId BY <1>1, <2>2 DEF Begun, BackupId
  <2>4. manifest'[b] = old_m
    BY <1>7, <2>2, <2>3 DEF SafetySnapshot, NewManifest, RecordsType
  <2> QED BY <1>1, <2>1, <2>4, GotoOthers DEF Current, HoldingPC, ExecPC, PC, LockedPC
<1>8. CASE PlanRollback(p)
  <2> DEFINE t == BuildPlan(old_m, disk, dirs, old[b] # NoFile, swapAt # NoFile)
  <2>1. /\ pc[p] = "rb-plan" /\ Keep(p, WithPlan(job[p], old_m, t)) /\ Goto(p, "rb-exec")
        /\ UNCHANGED <<disk, manifest>>
    BY <1>8 DEF PlanRollback, WithPlan, fileVars, recVars
  <2>2. pc[p] \in HoldingPC BY <2>1 DEF HoldingPC, PC, LockedPC, ExecPC
  <2>3. t \in SUBSET Action /\ \A f \in File \cap t : disk[f] = old_m.files[f].after
    BY PlanType, PlannedContent
  <2> HIDE DEF t
  <2>4. job'[p].bid = b /\ job'[p].todo = t
    BY <1>0, <1>2, <2>1, <2>2, <2>3, JobUpdates, JobParts, KeepIt
  <2>5. old_m.status # "rolled-back" BY <1>1, <2>2 DEF Current
  <2> QED BY <2>1, <2>3, <2>4, <2>5, GotoOthers DEF Current
<1>9. CASE SafetySnapshotFails(p) \/ FinishRollback(p)
  BY <1>3, <1>9 DEF SafetySnapshotFails, FinishRollback
<1> QED BY <1>3, <1>4, <1>5, <1>6, <1>7, <1>8, <1>9

(* The steps that execute the plan: an action leaves the list with the     *)
(* step that restores its file, and no other step writes a managed file.   *)
LEMMA ExecutingKeeps ==
  ASSUME TypeInv, CurrentInv, NEW p \in Proc,
         \/ RestoreFile(p) \/ RemoveDir(p) \/ Regenerate(p) \/ SwapRollbackBegins(p)
         \/ ParkCurrent(p) \/ RestoreOld(p) \/ SwapBackOn(p) \/ UnlinkSwap(p) \/ ActionFails(p)
  PROVE  /\ pc[p] \in ExecPC /\ pc'[p] \in ExecPC /\ UNCHANGED <<manifest, raced>>
         /\ job'[p].bid = job[p].bid /\ job'[p].todo \subseteq job[p].todo
         /\ \A f \in File \cap job'[p].todo : disk'[f] = disk[f]
<1> USE DEF TypeInv, TypeOK
<1> DEFINE b == job[p].bid
<1>0. job[p] \in Job /\ job[p].file \in File /\ job[p].want \in Content
  BY DEF JobType, Job
<1>1. Local(p) BY DEF CurrentInv, ReversibleInv
<1>2. pc[p] \in ExecPC
  BY DEF RestoreFile, RemoveDir, Regenerate, SwapRollbackBegins, ParkCurrent, RestoreOld,
         SwapBackOn, UnlinkSwap, ActionFails, Doing, ExecPC
<1>3. b \in BackupId /\ manifest[b] = job[p].mem /\ manifest[b] \in Manifest
  BY <1>1, <1>2 DEF Local, ExecPC, HoldingPC, PC, LockedPC, WorksOnBackup, RecordsType
<1>4. UNCHANGED manifest
  <2>1. CASE ParkCurrent(p)
    <3>1. manifest' = [manifest EXCEPT ![b] = manifest[b]] \/ UNCHANGED manifest
      BY <1>3, <2>1 DEF ParkCurrent, Save
    <3> QED BY <3>1 DEF RecordsType
  <2>2. CASE ~ParkCurrent(p)
    BY <2>2 DEF RestoreFile, RemoveDir, Regenerate, SwapRollbackBegins, RestoreOld, SwapBackOn,
                UnlinkSwap, ActionFails, recVars
  <2> QED BY <2>1, <2>2
<1>5. CASE RestoreFile(p)
  <2> DEFINE f == Next1(p)
  <2>1. /\ disk' = [disk EXCEPT ![f] = manifest[b].files[f].before] /\ UNCHANGED pc
        /\ Keep(p, WithMem(Succeeded(job[p]), manifest[b]))
    BY <1>5 DEF RestoreFile, WithMem
  <2>2. job'[p].bid = b /\ job'[p].todo \subseteq job[p].todo \ {f}
    <3>1. job'[p] = WithMem(Succeeded(job[p]), manifest[b]) BY <2>1, KeepIt
    <3>2. Succeeded(job[p]).todo = job[p].todo \ {f} BY <1>0 DEF Job, Succeeded, Next1
    <3>3. \A k \in Job : WithMem(k, manifest[b]).todo = k.todo BY DEF Job, WithMem
    <3> QED BY <1>0, <1>3, <3>1, <3>2, <3>3, ResultJobs
  <2> HIDE DEF f
  <2>3. (\A g \in File \ {f} : disk'[g] = disk[g]) /\ UNCHANGED raced
    BY <1>5, <2>1 DEF RestoreFile, envVars, FilesType
  <2> QED BY <1>2, <1>4, <2>1, <2>2, <2>3
<1>6. CASE ~RestoreFile(p)
  <2>1. \/ UNCHANGED job
        \/ Keep(p, Succeeded(job[p])) \/ Keep(p, Failed(job[p]))
        \/ Keep(p, WithMem(job[p], manifest[b]))
    BY <1>6 DEF RemoveDir, Regenerate, SwapRollbackBegins, ParkCurrent, RestoreOld, SwapBackOn,
                UnlinkSwap, ActionFails, WithMem
  <2>2. job'[p].bid = b /\ job'[p].todo \subseteq job[p].todo
    <3>1. CASE Keep(p, Succeeded(job[p])) \/ Keep(p, Failed(job[p]))
      BY <1>0, <1>3, <3>1, ResultJobs, JobParts, KeepIt
    <3>2. CASE Keep(p, WithMem(job[p], manifest[b]))
      BY <1>0, <1>3, <3>2, JobUpdates, JobParts, KeepIt
    <3> QED BY <2>1, <3>1, <3>2
  <2>3. UNCHANGED pc \/ \E l \in ExecPC : Goto(p, l)
    BY <1>6 DEF RemoveDir, Regenerate, SwapRollbackBegins, ParkCurrent, RestoreOld, SwapBackOn,
                UnlinkSwap, ActionFails, ExecPC
  <2>4. pc'[p] \in ExecPC BY <1>2, <2>3, GotoOthers
  <2>5. UNCHANGED <<disk, raced>>
    BY <1>6 DEF RemoveDir, Regenerate, SwapRollbackBegins, ParkCurrent, RestoreOld, SwapBackOn,
                UnlinkSwap, ActionFails, fileVars, envVars, Reading, Fault
  <2> QED BY <1>2, <1>4, <2>2, <2>4, <2>5
<1> QED BY <1>5, <1>6

LEMMA ExecutingCurrent ==
  ASSUME TypeInv, CurrentInv, NEW p \in Proc,
         \/ RestoreFile(p) \/ RemoveDir(p) \/ Regenerate(p) \/ SwapRollbackBegins(p)
         \/ ParkCurrent(p) \/ RestoreOld(p) \/ SwapBackOn(p) \/ UnlinkSwap(p) \/ ActionFails(p)
  PROVE  Current(p)'
<1>1. Current(p) BY DEF CurrentInv
<1> QED BY <1>1, ExecutingKeeps, StillExecuting

-----------------------------------------------------------------------------
(* The invariant *)

LEMMA EnvironmentCurrent ==
  ASSUME TypeInv, CurrentInv
  PROVE  /\ \A p \in Proc : Crash(p) => CurrentInv'
         /\ Reboot => CurrentInv'
         /\ \A f \in File : EditFile(f) => CurrentInv'
<1> USE DEF TypeInv, TypeOK
<1>1. ReversibleInv /\ \A q \in Proc : Current(q) BY DEF CurrentInv
<1>2. ASSUME NEW p \in Proc, Crash(p) PROVE CurrentInv'
  <2>1. Current(p)' BY <1>2, ExitCurrent DEF Crash
  <2>2. Alone(p) BY <1>2, ExitOthers DEF Crash, Alone
  <2> QED BY <1>1, <1>2, <2>1, <2>2, OthersIdle, EnvironmentReversible DEF CurrentInv
<1>3. ASSUME Reboot PROVE CurrentInv'
  <2>1. \A p \in Proc : pc'[p] = "idle" BY <1>3 DEF Reboot
  <2>2. \A p \in Proc : Current(p)' BY <2>1, NotHolding DEF HoldingPC
  <2> QED BY <1>1, <1>3, <2>2, EnvironmentReversible DEF CurrentInv
<1>4. ASSUME NEW f \in File, EditFile(f) PROVE CurrentInv'
  <2>1. UNCHANGED <<manifest, pc, job>> /\ \A g \in File : raced[g] \subseteq raced'[g]
    BY <1>4 DEF EditFile, recVars, EnvType
  <2>2. /\ \A g \in File \ {f} : disk'[g] = disk[g]
        /\ Unseen(f) => edits + 1 \in raced'[f]
    BY <1>4 DEF EditFile, FilesType, EnvType
  <2>3. ASSUME NEW p \in Proc PROVE Current(p)'
    <3>1. ASSUME pc[p] \in ExecPC, NEW g \in File \cap job[p].todo
          PROVE  disk'[g] = manifest[job[p].bid].files[g].after \/ raced'[g] # {}
      <4>1. CASE g = f BY <2>2, <3>1, <4>1 DEF Unseen
      <4>2. CASE g # f BY <1>1, <2>1, <2>2, <3>1, <4>2 DEF Current
      <4> QED BY <4>1, <4>2
    <3> QED BY <1>1, <2>1, <3>1 DEF Current
  <2> QED BY <1>1, <1>4, <2>3, EnvironmentReversible DEF CurrentInv
<1> QED BY <1>2, <1>3, <1>4

LEMMA CurrentNext ==
  ASSUME Concurrent = FALSE, TypeInv, CurrentInv, [Next]_vars
  PROVE  CurrentInv'
<1>1. CASE UNCHANGED vars
  <2>1. ReversibleInv' BY <1>1, ReversibleNext DEF CurrentInv
  <2>2. \A p \in Proc : Current(p)' BY <1>1 DEF vars, CurrentInv, Current
  <2> QED BY <2>1, <2>2 DEF CurrentInv
<1>2. ASSUME NEW p \in Proc, Start(p) \/ ApplyStep(p) \/ RollbackStep(p) PROVE CurrentInv'
  <2>1. Current(p)' BY <1>2, ApplyCurrent, PlanningCurrent, ExecutingCurrent DEF RollbackStep
  <2>2. ReversibleInv' BY <1>2, ReversibleNext DEF CurrentInv, Next, Environment
  <2> QED BY <1>2, <2>1, <2>2, StepAlone, OthersIdle DEF CurrentInv
<1> QED BY <1>1, <1>2, EnvironmentCurrent DEF Next, Environment

LEMMA CurrentInit == Init => CurrentInv
<1> SUFFICES ASSUME Init PROVE CurrentInv
  OBVIOUS
<1>1. \A p \in Proc : pc[p] = "idle" BY DEF Init
<1> QED BY <1>1, ReversibleInit DEF CurrentInv, Current, HoldingPC, ExecPC

-----------------------------------------------------------------------------
(* Whose content it is *)

(* A text of the operator is in f only by an edit no comparison could see. *)
Ours(f, c) == c.kind = "own" => c.n \in raced[f]

(* What was written, and what is about to be overwritten, is ours.         *)
Claimed(p) ==
  /\ job[p].want.kind # "own" /\ job[p].line.kind # "own"
  /\ pc[p] = "seal" => Ours(job[p].file, disk[job[p].file])
  /\ pc[p] \in ExecPC => \A f \in File \cap job[p].todo : Ours(f, disk[f])

SealedOurs == \A b \in BackupId : \A f \in File : Ours(f, manifest[b].files[f].after)

ClaimInv == CurrentInv /\ SealedOurs /\ \A p \in Proc : Claimed(p)

(* What the updates leave of the contents to write.                        *)
LEMMA ContentParts ==
  ASSUME NEW j \in Job
  PROVE  /\ \A m : WithMem(j, m).want = j.want /\ WithMem(j, m).line = j.line
         /\ \A m, f : /\ WithNextFile(j, m, f).want = j.want
                      /\ WithNextFile(j, m, f).line = j.line
         /\ \A b, m : WithBackup(j, b, m).want = j.want /\ WithBackup(j, b, m).line = j.line
         /\ \A m, s : WithOriginal(j, m, s).want = j.want /\ WithOriginal(j, m, s).line = j.line
         /\ \A m, t : WithPlan(j, m, t).want = j.want /\ WithPlan(j, m, t).line = j.line
         /\ \A c, f : WithTarget(j, c, f).want = c /\ WithTarget(j, c, f).line = j.line
         /\ \A n, a, f, c : /\ Checked(j, n, a, f, c).want = j.want
                            /\ Checked(j, n, a, f, c).line = c
         /\ Succeeded(j).want = j.want /\ Succeeded(j).line = j.line
         /\ Failed(j).want = j.want /\ Failed(j).line = j.line
BY DEF Job, WithMem, WithNextFile, WithBackup, WithOriginal, WithPlan, WithTarget, Checked,
       Succeeded, Failed

LEMMA NewJobContent ==
  /\ NoJob.want.kind # "own" /\ NoJob.line.kind # "own"
  /\ \A t : [NoJob EXCEPT !.want = t].want = t /\ [NoJob EXCEPT !.want = t].line = Absent
  /\ \A s : [NoJob EXCEPT !.size = s].want = Absent /\ [NoJob EXCEPT !.size = s].line = Absent
  /\ \A b : [NoJob EXCEPT !.bid = b].want = Absent /\ [NoJob EXCEPT !.bid = b].line = Absent
  /\ Absent.kind # "own" /\ Partition.kind # "own" /\ Unknown.kind # "own"
  /\ \A n : ForSwap(n).kind # "own"
  /\ \A c : WithEntry(c).kind # "own"
<1> DEFINE j == NoJob
<1>1. j \in Job /\ j.want = Absent /\ j.line = Absent BY ConstantTypes DEF NoJob
<1> HIDE DEF j
<1>2. /\ \A t : [j EXCEPT !.want = t].want = t /\ [j EXCEPT !.want = t].line = Absent
      /\ \A s : [j EXCEPT !.size = s].want = Absent /\ [j EXCEPT !.size = s].line = Absent
      /\ \A b : [j EXCEPT !.bid = b].want = Absent /\ [j EXCEPT !.bid = b].line = Absent
  BY <1>1 DEF Job
<1>3. Absent.kind # "own" /\ Partition.kind # "own" /\ Unknown.kind # "own"
      /\ (\A n : ForSwap(n).kind # "own") /\ (\A c : WithEntry(c).kind # "own")
  BY DEF Absent, Partition, Unknown, ForSwap, WithEntry
<1> QED BY <1>1, <1>2, <1>3 DEF j

(* No operation sets out to write a text of the operator.                  *)
LEMMA NeverTheirs ==
  ASSUME TypeInv, NEW p \in Proc, job[p].want.kind # "own", job[p].line.kind # "own",
         Start(p) \/ ApplyStep(p) \/ RollbackStep(p) \/ Crash(p)
  PROVE  job'[p].want.kind # "own" /\ job'[p].line.kind # "own"
<1> USE DEF TypeInv, TypeOK
<1>0. job[p] \in Job BY DEF JobType
<1>1. CASE Exit(p) BY <1>1, NewJobContent, KeepIt DEF Exit
<1>2. CASE UNCHANGED job BY <1>2
<1>3. ASSUME NEW m, NEW f, NEW b,
             \/ Keep(p, WithMem(job[p], m)) \/ Keep(p, WithNextFile(job[p], m, f))
             \/ Keep(p, WithBackup(job[p], b, m)) \/ Keep(p, WithOriginal(job[p], m, b))
             \/ Keep(p, WithPlan(job[p], m, b)) \/ Keep(p, Succeeded(job[p]))
             \/ Keep(p, Failed(job[p])) \/ Keep(p, WithMem(Succeeded(job[p]), m))
      PROVE  job'[p].want.kind # "own" /\ job'[p].line.kind # "own"
  <2>1. Succeeded(job[p]) \in Job BY <1>0 DEF Succeeded, Job
  <2> QED BY <1>0, <1>3, <2>1, ContentParts, KeepIt
<1>4. CASE Start(p)
  <2>1. CASE \E t \in {Partition} \cup {ForSwap(i) : i \in active} : StartTargetApply(p, t)
    <3>1. PICK t \in {Partition} \cup {ForSwap(i) : i \in active} : StartTargetApply(p, t)
      BY <2>1
    <3>2. job'[p] = [NoJob EXCEPT !.want = t] BY <3>1, KeepIt DEF StartTargetApply
    <3> QED BY <3>2, NewJobContent
  <2>2. CASE \E s \in Sizes : StartSwapApply(p, s)
    <3>1. PICK s \in Sizes : job'[p] = [NoJob EXCEPT !.size = s]
      BY <2>2, KeepIt DEF StartSwapApply
    <3> QED BY <3>1, NewJobContent
  <2>3. CASE \E c \in BackupId : StartRollback(p, c)
    <3>1. PICK c \in BackupId : job'[p] = [NoJob EXCEPT !.bid = c]
      BY <2>3, KeepIt DEF StartRollback
    <3> QED BY <3>1, NewJobContent
  <2> QED BY <1>4, <2>1, <2>2, <2>3 DEF Start
<1>5. CASE ApplyStep(p)
  <2>1. CASE CheckSwap(p) /\ ~Exit(p)
    <3> DEFINE n == swapAt = NoFile \/ inode[swapAt].size # job[p].size
               c == WithEntry(disk["fstab"])
    <3>1. PICK a : Keep(p, Checked(job[p], n, a, "fstab", c))
      BY <2>1 DEF CheckSwap, Checked
    <3>2. c.kind # "own" BY NewJobContent
    <3> HIDE DEF n, c
    <3> QED BY <1>0, <3>1, <3>2, ContentParts, KeepIt
  <2>2. CASE SelectTarget(p) /\ ~Exit(p)
    <3>1. Keep(p, WithTarget(job[p], ForSwap(swapAt), "resume"))
      BY <2>2 DEF SelectTarget, WithTarget
    <3> QED BY <1>0, <3>1, NewJobContent, ContentParts, KeepIt
  <2>3. CASE Begin(p)
    BY <1>3, <2>3 DEF Begin, WithBackup
  <2>4. CASE RecordBefore(p)
    BY <1>3, <2>4 DEF RecordBefore, WithMem
  <2>5. CASE RecordAfter(p)
    BY <1>3, <2>5 DEF RecordAfter, WithNextFile
  <2>6. CASE RecordSwap(p) \/ SaveOldName(p)
    BY <1>3, <2>6 DEF RecordSwap, SaveOldName, WithMem
  <2>7. CASE \/ ValidateTarget(p) \/ BeginFails(p) \/ WriteFile(p) \/ SwapOff(p) \/ RetainOld(p)
             \/ CreateFile(p) \/ Allocate(p) \/ MkSwap(p) \/ SwapOn(p) \/ SwapCommandFails(p)
             \/ UpdateInitramfs(p) \/ UpdateGrub(p) \/ FinishApply(p)
    BY <1>1, <1>2, <2>7 DEF ValidateTarget, BeginFails, WriteFile, SwapOff, RetainOld, CreateFile,
       Allocate, MkSwap, SwapOn, SwapCommandFails, UpdateInitramfs, UpdateGrub, FinishApply
  <2> QED BY <1>1, <1>5, <2>1, <2>2, <2>3, <2>4, <2>5, <2>6, <2>7 DEF ApplyStep
<1>6. CASE RollbackStep(p)
  <2>1. CASE AcquireLock(p) \/ SafetySnapshot(p) \/ SafetySnapshotFails(p) \/ FinishRollback(p)
             \/ ParkCurrent(p)
    BY <1>1, <1>2, <2>1 DEF AcquireLock, SafetySnapshot, SafetySnapshotFails, FinishRollback,
       ParkCurrent
  <2>2. CASE LoadManifest(p)
    BY <1>1, <1>3, <2>2 DEF LoadManifest, WithOriginal
  <2>3. CASE MarkRollingBack(p)
    BY <1>3, <2>3 DEF MarkRollingBack, WithMem
  <2>4. CASE PlanRollback(p)
    BY <1>3, <2>4 DEF PlanRollback, WithPlan
  <2>5. CASE RestoreFile(p)
    BY <1>3, <2>5 DEF RestoreFile, WithMem
  <2>6. CASE RemoveDir(p) \/ Regenerate(p) \/ SwapBackOn(p) \/ UnlinkSwap(p) \/ ActionFails(p)
             \/ RestoreOld(p)
    BY <1>2, <1>3, <2>6 DEF RemoveDir, Regenerate, SwapBackOn, UnlinkSwap, ActionFails, RestoreOld
  <2>7. CASE SwapRollbackBegins(p)
    BY <1>3, <2>7 DEF SwapRollbackBegins, WithMem
  <2> QED BY <1>6, <2>1, <2>2, <2>3, <2>4, <2>5, <2>6, <2>7 DEF RollbackStep
<1>7. CASE Crash(p) BY <1>1, <1>7 DEF Crash
<1> QED BY <1>4, <1>5, <1>6, <1>7

(* What a step saves: hashes that were there, none, or the one it takes.   *)
Seals(p) ==
  \/ UNCHANGED manifest
  \/ NewManifest
  \/ /\ pc[p] \in HoldingPC
     /\ \E m : /\ Save(p, m)
               /\ \A f \in File : \/ m.files[f].after \in {job[p].mem.files[f].after, Unknown}
                                  \/ /\ pc[p] = "seal" /\ f = job[p].file
                                     /\ m.files[f].after = disk[f]

LEMMA AfterParts ==
  ASSUME NEW m \in Manifest, NEW f \in File, NEW c
  PROVE  /\ \A d : \A g \in File : Recorded(m, f, c, d).files[g].after \in {m.files[g].after, Unknown}
         /\ \A g \in File : \/ Sealed(m, f, c).files[g].after = m.files[g].after
                            \/ g = f /\ Sealed(m, f, c).files[g].after = c
<1>1. ASSUME NEW d, NEW g \in File
      PROVE  Recorded(m, f, c, d).files[g].after \in {m.files[g].after, Unknown}
  <2>1. CASE m.files[f].recorded BY <2>1 DEF Recorded
  <2>2. CASE ~m.files[f].recorded
    <3> DEFINE r == [recorded |-> TRUE, before |-> c, after |-> Unknown]
    <3>1. Recorded(m, f, c, d).files = [m.files EXCEPT ![f] = r]
      BY <2>2 DEF Recorded, Manifest
    <3>2. r.after = Unknown OBVIOUS
    <3> HIDE DEF r
    <3> QED BY <3>1, <3>2 DEF Manifest
  <2> QED BY <2>1, <2>2
<1>2. \A g \in File : \/ Sealed(m, f, c).files[g].after = m.files[g].after
                      \/ g = f /\ Sealed(m, f, c).files[g].after = c
  BY DEF Sealed, Manifest, FileRecord
<1> QED BY <1>1, <1>2

LEMMA StepSeals ==
  ASSUME TypeInv, CurrentInv, NEW p \in Proc,
         Start(p) \/ ApplyStep(p) \/ RollbackStep(p) \/ Crash(p)
  PROVE  Seals(p)
<1> USE DEF TypeInv, TypeOK
<1>0. /\ job[p] \in Job /\ job[p].mem \in Manifest /\ job[p].file \in File
      /\ job[p].orig \in Status /\ job[p].wasActive \in BOOLEAN
  BY DEF JobType, Job
<1>1. ASSUME NEW m, m.files = job[p].mem.files, pc[p] \in HoldingPC, Save(p, m)
      PROVE  Seals(p)
  BY <1>1 DEF Seals
<1>2. CASE UNCHANGED manifest BY <1>2 DEF Seals
<1>3. CASE \/ Start(p) \/ Crash(p)
           \/ ValidateTarget(p) \/ BeginFails(p) \/ CheckSwap(p) \/ WriteFile(p) \/ SwapOff(p)
           \/ RetainOld(p) \/ CreateFile(p) \/ Allocate(p) \/ MkSwap(p) \/ SwapOn(p)
           \/ SwapCommandFails(p) \/ SelectTarget(p) \/ UpdateInitramfs(p) \/ UpdateGrub(p)
  BY <1>2, <1>3 DEF Start, StartTargetApply, StartSwapApply, StartRollback, Crash,
     ValidateTarget, BeginFails, CheckSwap, WriteFile, SwapOff, RetainOld, CreateFile,
     Allocate, MkSwap, SwapOn, SwapCommandFails, SelectTarget, UpdateInitramfs, UpdateGrub,
     recVars
<1>4. CASE \/ AcquireLock(p) \/ LoadManifest(p) \/ PlanRollback(p) \/ RestoreFile(p) \/ RemoveDir(p)
           \/ Regenerate(p) \/ SwapRollbackBegins(p) \/ RestoreOld(p) \/ SwapBackOn(p)
           \/ UnlinkSwap(p) \/ ActionFails(p)
  BY <1>2, <1>4 DEF AcquireLock, LoadManifest, PlanRollback, RestoreFile, RemoveDir, Regenerate,
     SwapRollbackBegins, RestoreOld, SwapBackOn, UnlinkSwap, ActionFails, recVars
<1>5. CASE Begin(p) \/ SafetySnapshot(p)
  BY <1>5 DEF Begin, SafetySnapshot, Seals
<1>6. CASE RecordBefore(p)
  <2> DEFINE f == job[p].file
             m == Recorded(job[p].mem, f, disk[f], ({f} \cap DirFile) \ dirs)
  <2>1. Save(p, m) /\ pc[p] = "record" BY <1>6 DEF RecordBefore
  <2>2. \A g \in File : m.files[g].after \in {job[p].mem.files[g].after, Unknown}
    BY <1>0, AfterParts
  <2> HIDE DEF m
  <2> QED BY <2>1, <2>2 DEF Seals, HoldingPC, PC, ApplyPC
<1>7. CASE RecordAfter(p)
  <2> DEFINE f == job[p].file
             m == Sealed(job[p].mem, f, disk[f])
  <2>1. Save(p, m) /\ pc[p] = "seal" BY <1>7 DEF RecordAfter
  <2>2. \A g \in File : \/ m.files[g].after = job[p].mem.files[g].after
                        \/ g = f /\ m.files[g].after = disk[f]
    BY <1>0, AfterParts
  <2> HIDE DEF m
  <2> QED BY <2>1, <2>2 DEF Seals, HoldingPC, PC, ApplyPC
<1>8. CASE RecordSwap(p)
  <2> DEFINE s == [recorded |-> TRUE, existed |-> swapAt # NoFile,
                   wasActive |-> job[p].wasActive, oldNamed |-> FALSE]
             m == [job[p].mem EXCEPT !.swap = s]
  <2>1. s \in SwapRecord BY <1>0 DEF SwapRecord
  <2>2. Save(p, m) /\ pc[p] = "swap-manifest" BY <1>8 DEF RecordSwap
  <2> HIDE DEF s
  <2>3. m.files = job[p].mem.files BY <1>0, <2>1, StatusParts
  <2> HIDE DEF m
  <2> QED BY <1>1, <2>2, <2>3 DEF HoldingPC, PC, ApplyPC
<1>9. CASE SaveOldName(p)
  <2> DEFINE m == [job[p].mem EXCEPT !.swap.oldNamed = TRUE]
  <2>1. Save(p, m) /\ pc[p] = "retain-save" BY <1>9 DEF SaveOldName
  <2>2. m.files = job[p].mem.files BY <1>0, StatusParts
  <2> HIDE DEF m
  <2> QED BY <1>1, <2>1, <2>2 DEF HoldingPC, PC, ApplyPC
<1>10. ASSUME NEW s \in Status, pc[p] \in HoldingPC, Save(p, [job[p].mem EXCEPT !.status = s])
       PROVE  Seals(p)
  <2> DEFINE m == [job[p].mem EXCEPT !.status = s]
  <2>1. m.files = job[p].mem.files BY <1>0, <1>10, StatusParts
  <2>2. Save(p, m) BY <1>10
  <2> HIDE DEF m
  <2> QED BY <1>1, <1>10, <2>1, <2>2
<1>11. CASE FinishApply(p)
  <2>1. pc[p] \in HoldingPC BY <1>11 DEF FinishApply, HoldingPC, PC, ApplyPC
  <2>2. PICK s \in {"completed", "failed"} : Save(p, [job[p].mem EXCEPT !.status = s])
    BY <1>11 DEF FinishApply
  <2> QED BY <1>10, <2>1, <2>2 DEF Status, Eligible
<1>12. CASE MarkRollingBack(p) \/ SafetySnapshotFails(p) \/ FinishRollback(p)
  <2>1. pc[p] \in HoldingPC
    BY <1>12 DEF MarkRollingBack, SafetySnapshotFails, FinishRollback, HoldingPC, PC, LockedPC,
       ExecPC
  <2>2. PICK s \in Status : Save(p, [job[p].mem EXCEPT !.status = s])
    BY <1>0, <1>12, FinalStatusType DEF MarkRollingBack, SafetySnapshotFails, FinishRollback, Status
  <2> QED BY <1>10, <2>1, <2>2
<1>13. CASE ParkCurrent(p)
  <2>1. CASE Save(p, job[p].mem)
    <3>1. pc[p] \in HoldingPC BY <1>13 DEF ParkCurrent, HoldingPC, PC, LockedPC, ExecPC
    <3> QED BY <1>1, <2>1, <3>1
  <2> QED BY <1>2, <1>13, <2>1 DEF ParkCurrent
<1> QED BY <1>3, <1>4, <1>5, <1>6, <1>7, <1>8, <1>9, <1>11, <1>12, <1>13
        DEF ApplyStep, RollbackStep

(* A hash is ours if the content it is taken of is.                        *)
LEMMA SealedStep ==
  ASSUME TypeInv, ClaimInv, NEW p \in Proc, Seals(p), UNCHANGED raced
  PROVE  SealedOurs'
<1> USE DEF TypeInv, TypeOK
<1>1. SealedOurs /\ Claimed(p) /\ Local(p) BY DEF ClaimInv, CurrentInv, ReversibleInv
<1>2. CASE UNCHANGED manifest BY <1>1, <1>2 DEF SealedOurs, Ours
<1>3. CASE NewManifest
  <2>1. \A f \in File : EmptyManifest.files[f].after = Unknown
    BY DEF EmptyManifest, NoManifest, NoRecord
  <2>2. \A b \in BackupId : manifest'[b] \in {manifest[b], EmptyManifest}
    BY <1>3 DEF NewManifest, RecordsType
  <2> QED BY <1>1, <2>1, <2>2, NewJobContent DEF SealedOurs, Ours
<1>4. CASE pc[p] \in HoldingPC /\ ~UNCHANGED manifest /\ ~NewManifest
  <2>1. PICK m : /\ Save(p, m)
                 /\ \A f \in File : \/ m.files[f].after \in {job[p].mem.files[f].after, Unknown}
                                    \/ /\ pc[p] = "seal" /\ f = job[p].file
                                       /\ m.files[f].after = disk[f]
    BY <1>4 DEF Seals
  <2>2. job[p].bid \in BackupId /\ job[p].mem = manifest[job[p].bid]
    BY <1>1, <1>4 DEF Local, WorksOnBackup, HoldingPC
  <2>3. \A b \in BackupId : manifest'[b] = IF b = job[p].bid THEN m ELSE manifest[b]
    BY <2>1, <2>2, SaveAt
  <2>4. \A f \in File : Ours(f, m.files[f].after)
    BY <1>1, <2>1, <2>2, NewJobContent DEF SealedOurs, Claimed, Ours
  <2> QED BY <1>1, <2>3, <2>4 DEF SealedOurs, Ours
<1> QED BY <1>2, <1>3, <1>4 DEF Seals

(* What a step leaves to be sealed or overwritten is ours.                 *)
LEMMA ClaimStep ==
  ASSUME TypeInv, ClaimInv, NEW p \in Proc, Start(p) \/ ApplyStep(p) \/ RollbackStep(p) \/ Crash(p),
         UNCHANGED raced
  PROVE  Claimed(p)'
<1> USE DEF TypeInv, TypeOK
<1> DEFINE b == job[p].bid
<1>0. /\ job[p] \in Job /\ job[p].file \in File /\ job[p].mem \in Manifest
      /\ job[p].want \in Content
  BY DEF JobType, Job
<1>1. Claimed(p) /\ SealedOurs BY DEF ClaimInv
<1>2. job'[p].want.kind # "own" /\ job'[p].line.kind # "own"
  BY <1>1, NeverTheirs DEF Claimed
<1>3. ASSUME pc'[p] # "seal", pc'[p] \notin ExecPC PROVE Claimed(p)'
  BY <1>2, <1>3 DEF Claimed
<1>4. CASE Exit(p) BY <1>3, <1>4, GotoOthers DEF Exit, ExecPC
<1>5. CASE Start(p) \/ Crash(p)
  <2>1. Exit(p) \/ \E l \in {"validate", "begin", "rb-lock"} : Goto(p, l)
    BY <1>5 DEF Start, StartTargetApply, StartSwapApply, StartRollback, Crash
  <2> QED BY <1>3, <1>4, <2>1, GotoOthers DEF ExecPC
<1>6. CASE WriteFile(p)
  <2> DEFINE f == job[p].file
  <2>1. Goto(p, "seal") /\ disk'[f] = Wanted(job[p]) /\ UNCHANGED job
    BY <1>0, <1>6 DEF WriteFile, FilesType
  <2>2. Wanted(job[p]).kind # "own" BY <1>1 DEF Wanted, Claimed
  <2> QED BY <1>2, <2>1, <2>2, GotoOthers DEF Claimed, Ours, ExecPC
<1>7. CASE ApplyStep(p) /\ ~WriteFile(p)
  <2>1. CASE RecordAfter(p)
    <3>1. \E l \in {"swap-manifest", "record", "initramfs"} : Goto(p, l)
      BY <1>0, <2>1 DEF RecordAfter, File
    <3> QED BY <1>3, <3>1, GotoOthers DEF ExecPC
  <2>2. CASE ~RecordAfter(p)
    <3>1. Exit(p) \/ \E l \in ApplyPC \ {"seal"} : Goto(p, l)
      <4>1. CASE ValidateTarget(p) \/ BeginFails(p) \/ SwapCommandFails(p) \/ FinishApply(p)
        BY <4>1 DEF ValidateTarget, BeginFails, SwapCommandFails, FinishApply, ApplyPC
      <4>2. CASE Begin(p) \/ RecordBefore(p) \/ RecordSwap(p)
        BY <4>2 DEF Begin, RecordBefore, RecordSwap, ApplyPC
      <4>3. CASE CheckSwap(p)
        <5>1. Exit(p) \/ \E l \in {"swap-manifest", "record"} : Goto(p, l)
          BY <4>3 DEF CheckSwap
        <5> QED BY <5>1 DEF ApplyPC
      <4>4. CASE SelectTarget(p) \/ SwapOff(p) \/ RetainOld(p) \/ SaveOldName(p)
        BY <4>4 DEF SelectTarget, SwapOff, RetainOld, SaveOldName, ApplyPC
      <4>5. CASE CreateFile(p) \/ Allocate(p) \/ MkSwap(p) \/ SwapOn(p) \/ UpdateInitramfs(p)
                 \/ UpdateGrub(p)
        BY <4>5 DEF CreateFile, Allocate, MkSwap, SwapOn, UpdateInitramfs, UpdateGrub, ApplyPC
      <4> QED BY <1>7, <2>2, <4>1, <4>2, <4>3, <4>4, <4>5 DEF ApplyStep
    <3> QED BY <1>3, <1>4, <3>1, GotoOthers DEF ExecPC, ApplyPC
  <2> QED BY <2>1, <2>2
<1>8. CASE PlanRollback(p)
  <2> DEFINE m == manifest[b]
             t == BuildPlan(m, disk, dirs, old[b] # NoFile, swapAt # NoFile)
  <2>1. /\ pc[p] = "rb-plan" /\ Keep(p, WithPlan(job[p], m, t)) /\ Goto(p, "rb-exec")
        /\ UNCHANGED disk
    BY <1>8 DEF PlanRollback, WithPlan, fileVars
  <2>2. b \in BackupId /\ m \in Manifest BY <2>1 DEF WorksOnBackup, RecordsType
  <2>3. t \in SUBSET Action /\ \A f \in File \cap t : disk[f] = m.files[f].after
    BY PlanType, PlannedContent
  <2> HIDE DEF t
  <2>4. job'[p].todo = t BY <1>0, <2>1, <2>2, <2>3, JobParts, KeepIt
  <2>5. \A f \in File \cap t : Ours(f, disk[f]) BY <1>1, <2>2, <2>3 DEF SealedOurs
  <2> QED BY <1>2, <2>1, <2>4, <2>5, GotoOthers DEF Claimed, Ours
<1>9. CASE RollbackStep(p) /\ ~PlanRollback(p) /\ pc[p] \notin ExecPC
  <2>1. Exit(p) \/ \E l \in {"rb-load", "rb-mark", "rb-snapshot", "rb-plan"} : Goto(p, l)
    BY <1>9 DEF RollbackStep, AcquireLock, LoadManifest, MarkRollingBack, SafetySnapshot,
       SafetySnapshotFails, RestoreFile, RemoveDir, Regenerate, SwapRollbackBegins, ParkCurrent,
       RestoreOld, SwapBackOn, UnlinkSwap, ActionFails, FinishRollback, Doing, ExecPC
  <2> QED BY <1>3, <1>4, <2>1, GotoOthers DEF ExecPC
<1>10. CASE RollbackStep(p) /\ ~PlanRollback(p) /\ pc[p] \in ExecPC
  <2>1. CASE FinishRollback(p) BY <1>4, <2>1 DEF FinishRollback
  <2>2. CASE ~FinishRollback(p)
    <3>1. \/ RestoreFile(p) \/ RemoveDir(p) \/ Regenerate(p) \/ SwapRollbackBegins(p)
          \/ ParkCurrent(p) \/ RestoreOld(p) \/ SwapBackOn(p) \/ UnlinkSwap(p) \/ ActionFails(p)
      BY <1>10, <2>2 DEF RollbackStep, AcquireLock, LoadManifest, MarkRollingBack, SafetySnapshot,
         SafetySnapshotFails, ExecPC
    <3>2. /\ pc'[p] \in ExecPC /\ job'[p].todo \subseteq job[p].todo
          /\ \A f \in File \cap job'[p].todo : disk'[f] = disk[f]
      BY <3>1, ExecutingKeeps DEF ClaimInv
    <3> QED BY <1>1, <1>2, <1>10, <3>2 DEF Claimed, Ours, ExecPC
  <2> QED BY <2>1, <2>2
<1> QED BY <1>5, <1>6, <1>7, <1>8, <1>9, <1>10

(* A process moves alone, and is not the operator.                        *)
LEMMA StepsOwn ==
  ASSUME TypeInv, NEW p \in Proc, Start(p) \/ ApplyStep(p) \/ RollbackStep(p) \/ Crash(p)
  PROVE  UNCHANGED raced /\ \A q \in Proc \ {p} : pc'[q] = pc[q] /\ job'[q] = job[q]
<1> USE DEF TypeInv, TypeOK
<1>1. \A q \in Proc \ {p} : pc'[q] = pc[q]
  <2>1. LockMove(p) BY LockMoves
  <2> QED BY <2>1, GotoOthers DEF LockMove, Exit
<1>2. UNCHANGED job \/ \E j : Keep(p, j)
  <2>1. CASE Start(p) \/ Crash(p)
    BY <2>1 DEF Start, StartTargetApply, StartSwapApply, StartRollback, Crash, Exit
  <2>2. CASE ApplyStep(p)
    BY <2>2 DEF ApplyStep, ValidateTarget, Begin, BeginFails, CheckSwap, RecordBefore, WriteFile,
       RecordAfter, RecordSwap, SwapOff, RetainOld, SaveOldName, CreateFile, Allocate, MkSwap,
       SwapOn, SwapCommandFails, SelectTarget, UpdateInitramfs, UpdateGrub, FinishApply, Exit
  <2>3. CASE RollbackStep(p)
    BY <2>3 DEF RollbackStep, AcquireLock, LoadManifest, MarkRollingBack, SafetySnapshot,
       SafetySnapshotFails, PlanRollback, RestoreFile, RemoveDir, Regenerate, SwapRollbackBegins,
       ParkCurrent, RestoreOld, SwapBackOn, UnlinkSwap, ActionFails, FinishRollback, Exit
  <2> QED BY <2>1, <2>2, <2>3
<1>3. \A q \in Proc \ {p} : job'[q] = job[q]
  BY <1>2 DEF Keep, JobType
<1>4. UNCHANGED raced
  <2>1. CASE Start(p) \/ Crash(p)
    BY <2>1 DEF Start, StartTargetApply, StartSwapApply, StartRollback, Crash, Fault, envVars
  <2>2. CASE ApplyStep(p)
    BY <2>2 DEF ApplyStep, ValidateTarget, Begin, BeginFails, CheckSwap, RecordBefore, WriteFile,
       RecordAfter, RecordSwap, SwapOff, RetainOld, SaveOldName, CreateFile, Allocate, MkSwap,
       SwapOn, SwapCommandFails, SelectTarget, UpdateInitramfs, UpdateGrub, FinishApply, Fault,
       Reading, envVars
  <2>3. CASE RollbackStep(p)
    BY <2>3 DEF RollbackStep, AcquireLock, LoadManifest, MarkRollingBack, SafetySnapshot,
       SafetySnapshotFails, PlanRollback, RestoreFile, RemoveDir, Regenerate, SwapRollbackBegins,
       ParkCurrent, RestoreOld, SwapBackOn, UnlinkSwap, ActionFails, FinishRollback, Fault,
       Reading, envVars
  <2> QED BY <2>1, <2>2, <2>3
<1> QED BY <1>1, <1>3, <1>4

LEMMA ClaimNext ==
  ASSUME Concurrent = FALSE, TypeInv, ClaimInv, [Next]_vars
  PROVE  ClaimInv'
<1> USE DEF TypeInv, TypeOK
<1>1. CurrentInv' BY CurrentNext DEF ClaimInv
<1>2. ASSUME NEW p \in Proc, Start(p) \/ ApplyStep(p) \/ RollbackStep(p) \/ Crash(p)
      PROVE  ClaimInv'
  <2>1. UNCHANGED raced BY <1>2, StepsOwn
  <2>2. SealedOurs' BY <1>2, <2>1, StepSeals, SealedStep DEF ClaimInv
  <2>3. Claimed(p)' BY <1>2, <2>1, ClaimStep
  <2>4. \A q \in Proc \ {p} : pc'[q] = pc[q] /\ job'[q] = job[q]
    BY <1>2, StepsOwn
  <2>5. Alone(p)
    <3>1. CASE Crash(p) BY <2>4, <3>1 DEF Crash, Alone
    <3> QED BY <1>2, <3>1, StepAlone
  <2>6. \A q \in Proc \ {p} : pc'[q] = "idle"
    BY <2>5 DEF ClaimInv, CurrentInv, ReversibleInv, OneAtATime, Alone, AllIdle
  <2>7. \A q \in Proc \ {p} : Claimed(q)'
    BY <2>4, <2>6 DEF ClaimInv, Claimed, ExecPC
  <2> QED BY <1>1, <2>2, <2>3, <2>7 DEF ClaimInv
<1>3. CASE Reboot
  <2>1. UNCHANGED <<manifest, raced>> BY <1>3 DEF Reboot, Fault, recVars
  <2>2. \A p \in Proc : pc'[p] = "idle" /\ job'[p] = NoJob BY <1>3 DEF Reboot
  <2>3. \A p \in Proc : Claimed(p)' BY <2>2, NewJobContent DEF Claimed, ExecPC
  <2> QED BY <1>1, <2>1, <2>3 DEF ClaimInv, SealedOurs, Ours
<1>4. ASSUME NEW f \in File, EditFile(f) PROVE ClaimInv'
  <2>1. UNCHANGED <<manifest, pc, job>> /\ \A g \in File : raced[g] \subseteq raced'[g]
    BY <1>4 DEF EditFile, recVars, EnvType
  <2>2. \A g \in File \ {f} : disk'[g] = disk[g]
    BY <1>4 DEF EditFile, FilesType
  <2>3. Unseen(f) => Ours(f, disk[f])'
    <3>1. disk'[f] \in {Own(edits + 1), Absent} BY <1>4 DEF EditFile, FilesType
    <3>2. Unseen(f) => edits + 1 \in raced'[f] BY <1>4 DEF EditFile, EnvType
    <3> QED BY <3>1, <3>2, NewJobContent DEF Ours, Own
  <2>4. ASSUME NEW p \in Proc PROVE Claimed(p)'
    <3>1. Claimed(p) BY DEF ClaimInv
    <3>2. job[p].file \in File BY DEF JobType, Job
    <3>3. ASSUME pc[p] = "seal" PROVE Ours(job[p].file, disk[job[p].file])'
      <4>1. CASE job[p].file = f BY <2>1, <2>3, <3>3, <4>1 DEF Unseen
      <4>2. CASE job[p].file # f BY <2>1, <2>2, <3>1, <3>2, <3>3, <4>2 DEF Claimed, Ours
      <4> QED BY <4>1, <4>2
    <3>4. ASSUME pc[p] \in ExecPC, NEW g \in File \cap job[p].todo PROVE Ours(g, disk[g])'
      <4>1. CASE g = f BY <2>3, <3>4, <4>1 DEF Unseen
      <4>2. CASE g # f BY <2>1, <2>2, <3>1, <3>4, <4>2 DEF Claimed, Ours
      <4> QED BY <4>1, <4>2
    <3> QED BY <2>1, <3>1, <3>3, <3>4 DEF Claimed
  <2>5. SealedOurs' BY <2>1 DEF ClaimInv, SealedOurs, Ours
  <2> QED BY <1>1, <2>4, <2>5 DEF ClaimInv
<1>5. CASE UNCHANGED vars
  <2>1. UNCHANGED <<manifest, raced, pc, job, disk>> BY <1>5 DEF vars
  <2>2. SealedOurs' BY <2>1 DEF ClaimInv, SealedOurs, Ours
  <2>3. \A p \in Proc : Claimed(p)' BY <2>1 DEF ClaimInv, Claimed, Ours
  <2> QED BY <1>1, <2>2, <2>3 DEF ClaimInv
<1> QED BY <1>2, <1>3, <1>4, <1>5 DEF Next, Environment

LEMMA ClaimInit == Init => ClaimInv
<1> SUFFICES ASSUME Init PROVE ClaimInv
  OBVIOUS
<1>1. \A p \in Proc : pc[p] = "idle" /\ job[p] = NoJob BY DEF Init
<1>2. \A p \in Proc : Claimed(p) BY <1>1, NewJobContent DEF Claimed, ExecPC
<1>3. \A b \in BackupId : \A f \in File : manifest[b].files[f].after = Unknown
  BY DEF Init, NoManifest, NoRecord
<1> QED BY <1>2, <1>3, CurrentInit, NewJobContent DEF ClaimInv, SealedOurs, Ours

(* A rollback overwrites or removes only what the operation left there,    *)
(* and a text of the operator only if it was put there while no comparison *)
(* could see it, between a write and its hash or between the plan and the  *)
(* action: with one helper at a time, wherever processes die and commands  *)
(* fail (_file_action, _rollback_restore_file, record_after_write).        *)
THEOREM OwnContentCorrect ==
  ASSUME Concurrent = FALSE
  PROVE  Spec => OnlyOwnContentOverwritten
<1>1. TypeInv /\ ClaimInv /\ [Next]_vars => ClaimInv'
  BY ClaimNext
<1>2. TypeInv /\ ClaimInv /\ [Next]_vars
        => [\A p \in Proc : RestoreFile(p) =>
              LET f == Next1(p)
              IN  /\ disk[f] = manifest[job[p].bid].files[f].after \/ raced[f] # {}
                  /\ disk[f].kind = "own" => disk[f].n \in raced[f]]_vars
  <2> SUFFICES ASSUME TypeInv, ClaimInv, NEW p \in Proc, RestoreFile(p)
               PROVE  LET f == Next1(p)
                      IN  /\ disk[f] = manifest[job[p].bid].files[f].after \/ raced[f] # {}
                          /\ disk[f].kind = "own" => disk[f].n \in raced[f]
    OBVIOUS
  <2> DEFINE T == job[p].todo
  <2>1. pc[p] = "rb-exec" /\ Next1(p) \in File /\ T # {} BY DEF RestoreFile, Doing
  <2>2. T \in SUBSET Action BY DEF TypeInv, TypeOK, JobType, Job
  <2>3. Next1(p) \in T BY <2>1, <2>2, FirstOfPlan DEF Next1
  <2> QED BY <2>1, <2>3 DEF ClaimInv, Claimed, Ours, CurrentInv, Current, ExecPC
<1> QED BY <1>1, <1>2, ClaimInit, TypeInvariant, PTL DEF Spec, OnlyOwnContentOverwritten

-----------------------------------------------------------------------------
(* The last status *)

(* A manifest is written by the process that holds it, or begun.           *)
Writes(p) ==
  \/ UNCHANGED manifest
  \/ pc[p] \in HoldingPC /\ \E m : Save(p, m)
  \/ NewManifest

LEMMA ManifestWrites ==
  ASSUME TypeInv, CurrentInv, NEW p \in Proc,
         Start(p) \/ ApplyStep(p) \/ RollbackStep(p) \/ Crash(p)
  PROVE  Writes(p)
<1>1. CASE Start(p) \/ Crash(p)
  BY <1>1 DEF Start, StartTargetApply, StartSwapApply, StartRollback, Crash, recVars, Writes
<1>2. CASE \/ ValidateTarget(p) \/ BeginFails(p) \/ CheckSwap(p) \/ WriteFile(p) \/ SwapOff(p)
           \/ RetainOld(p) \/ CreateFile(p) \/ Allocate(p) \/ MkSwap(p) \/ SwapOn(p)
           \/ SwapCommandFails(p) \/ SelectTarget(p) \/ UpdateInitramfs(p) \/ UpdateGrub(p)
  BY <1>2 DEF ValidateTarget, BeginFails, CheckSwap, WriteFile, SwapOff, RetainOld, CreateFile,
     Allocate, MkSwap, SwapOn, SwapCommandFails, SelectTarget, UpdateInitramfs, UpdateGrub,
     recVars, Writes
<1>3. CASE \/ AcquireLock(p) \/ LoadManifest(p) \/ PlanRollback(p) \/ RestoreFile(p) \/ RemoveDir(p)
           \/ Regenerate(p) \/ SwapRollbackBegins(p) \/ RestoreOld(p) \/ SwapBackOn(p)
           \/ UnlinkSwap(p) \/ ActionFails(p)
  BY <1>3 DEF AcquireLock, LoadManifest, PlanRollback, RestoreFile, RemoveDir, Regenerate,
     SwapRollbackBegins, RestoreOld, SwapBackOn, UnlinkSwap, ActionFails, recVars, Writes
<1>4. CASE Begin(p) \/ SafetySnapshot(p)
  BY <1>4 DEF Begin, SafetySnapshot, Writes
<1>5. CASE RecordBefore(p) \/ RecordAfter(p) \/ RecordSwap(p) \/ SaveOldName(p) \/ FinishApply(p)
  BY <1>5 DEF RecordBefore, RecordAfter, RecordSwap, SaveOldName, FinishApply, Writes,
     HoldingPC, PC, ApplyPC
<1>6. CASE MarkRollingBack(p) \/ SafetySnapshotFails(p) \/ ParkCurrent(p) \/ FinishRollback(p)
  BY <1>6 DEF MarkRollingBack, SafetySnapshotFails, ParkCurrent, FinishRollback, Writes,
     HoldingPC, PC, LockedPC, ExecPC
<1> QED BY <1>1, <1>2, <1>3, <1>4, <1>5, <1>6 DEF ApplyStep, RollbackStep

(* "rolled-back" is the last status of a backup, whatever is started,      *)
(* fails, dies or is retried after it, with one helper at a time           *)
(* (cmd_rollback's guard, and mark_status writing the copy in memory).     *)
THEOREM FinalCorrect ==
  ASSUME Concurrent = FALSE
  PROVE  Spec => RolledBackIsFinal
<1>1. TypeInv /\ CurrentInv /\ [Next]_vars => CurrentInv'
  BY CurrentNext
<1>2. TypeInv /\ CurrentInv /\ [Next]_vars
        => [\A b \in BackupId : manifest[b].status = "rolled-back"
                                => manifest[b].status' = "rolled-back"]_vars
  <2> SUFFICES ASSUME TypeInv, CurrentInv, Next, NEW b \in BackupId,
                      manifest[b].status = "rolled-back"
               PROVE  manifest'[b].status = "rolled-back"
    OBVIOUS
  <2>1. CASE UNCHANGED manifest BY <2>1
  <2>2. ASSUME NEW p \in Proc, pc[p] \in HoldingPC, NEW m, Save(p, m)
        PROVE  manifest'[b].status = "rolled-back"
    <3>1. job[p].bid \in BackupId BY <2>2 DEF TypeInv, WorksOnBackup, HoldingPC
    <3>2. job[p].bid # b BY <2>2 DEF CurrentInv, Current
    <3> QED BY <2>2, <3>1, <3>2, SaveAt DEF TypeInv, TypeOK
  <2>3. CASE NewManifest
    <3>1. manifest[nextId].status = "none" /\ nextId \in BackupId
      BY <2>3 DEF NewManifest, CurrentInv, ReversibleInv, RecordInv, Begun, BackupId
    <3> QED BY <2>3, <3>1 DEF NewManifest, TypeInv, TypeOK, RecordsType
  <2>4. CASE Reboot \/ \E f \in File : EditFile(f)
    BY <2>1, <2>4 DEF Reboot, EditFile, recVars
  <2> QED BY <2>1, <2>2, <2>3, <2>4, ManifestWrites DEF Writes, Next, Environment
<1> QED BY <1>1, <1>2, CurrentInit, TypeInvariant, PTL DEF Spec, RolledBackIsFinal

-----------------------------------------------------------------------------
(* The swap file in use *)

(* What a process knows of the swap file at the path: whether it was in    *)
(* use when apply looked is still true when the answer is acted upon, and  *)
(* nothing is in use there once swapoff was done, or the reading was wrong.*)
SwapKnown(p) ==
  /\ pc[p] = "validate" => job[p].file = "resume"
  /\ pc[p] = "begin" /\ job[p].size = 0 => job[p].file = "resume"
  /\ pc[p] \in {"record", "write", "seal"} /\ job[p].file = "fstab"
       => job[p].wasActive = InUse \/ job[p].bid \in blind
  /\ pc[p] = "swap-manifest" => job[p].wasActive = InUse \/ job[p].bid \in blind
  /\ pc[p] \in {"retain", "rb-park", "rb-unlink"} => ~InUse \/ job[p].bid \in blind
  /\ pc[p] = "rb-unpark" => swapAt = NoFile

SwapInv == ReversibleInv /\ \A p \in Proc : SwapKnown(p)

KnowingPC == {"validate", "begin", "record", "write", "seal", "swap-manifest",
              "retain", "rb-park", "rb-unlink", "rb-unpark"}

LEMMA KnowsNothing ==
  ASSUME NEW p \in Proc, pc'[p] \notin KnowingPC
  PROVE  SwapKnown(p)'
BY DEF SwapKnown, KnowingPC

LEMMA OthersKnowNothing ==
  ASSUME ReversibleInv, NEW p \in Proc, Alone(p), SwapKnown(p)'
  PROVE  \A q \in Proc : SwapKnown(q)'
<1>1. \A q \in Proc \ {p} : pc'[q] = "idle" BY DEF ReversibleInv, OneAtATime, Alone, AllIdle
<1> QED BY <1>1, KnowsNothing DEF KnowingPC

(* What is left of the local state by the updates. *)
LEMMA SwapParts ==
  ASSUME NEW j \in Job
  PROVE  /\ \A m : /\ WithMem(j, m).file = j.file /\ WithMem(j, m).bid = j.bid
                   /\ WithMem(j, m).wasActive = j.wasActive
         /\ \A m, f : /\ WithNextFile(j, m, f).file = f /\ WithNextFile(j, m, f).bid = j.bid
                      /\ WithNextFile(j, m, f).wasActive = j.wasActive
         /\ \A b, m : WithBackup(j, b, m).file = j.file
         /\ \A c, f : WithTarget(j, c, f).file = f /\ WithTarget(j, c, f).bid = j.bid
         /\ \A n, a, f, c : /\ Checked(j, n, a, f, c).wasActive = a
                            /\ Checked(j, n, a, f, c).bid = j.bid
BY DEF Job, WithMem, WithNextFile, WithBackup, WithTarget, Checked

LEMMA NewJobParts ==
  /\ \A t \in Content : [NoJob EXCEPT !.want = t].file = "resume"
  /\ \A s \in Nat \ {0} : [NoJob EXCEPT !.size = s].size # 0
<1> DEFINE j == NoJob
<1>1. j \in Job /\ j.file = "resume" BY ConstantTypes DEF NoJob
<1> HIDE DEF j
<1> SUFFICES /\ \A t \in Content : [j EXCEPT !.want = t].file = "resume"
             /\ \A s \in Nat \ {0} : [j EXCEPT !.size = s].size # 0
  BY DEF j
<1> QED BY <1>1 DEF Job

LEMMA ApplyKnown ==
  ASSUME TypeInv, SwapInv, NEW p \in Proc, Start(p) \/ ApplyStep(p)
  PROVE  SwapKnown(p)'
<1> USE DEF TypeInv, TypeOK
<1> DEFINE b == job[p].bid
<1>0. job[p] \in Job /\ job[p].file \in File /\ SwapKnown(p)
  BY DEF JobType, Job, SwapInv
<1>1. ASSUME pc'[p] \notin KnowingPC PROVE SwapKnown(p)' BY <1>1, KnowsNothing
<1>2. CASE Exit(p) BY <1>1, <1>2, GotoOthers DEF Exit, KnowingPC
<1>3. CASE Start(p)
  <2>1. CASE \E t \in {Partition} \cup {ForSwap(i) : i \in active} : StartTargetApply(p, t)
    <3>1. PICK t \in {Partition} \cup {ForSwap(i) : i \in active} : StartTargetApply(p, t)
      BY <2>1
    <3>2. t \in Content BY <3>1, ConstantTypes, BoundAssumption DEF SwapType, InodeId
    <3>3. job'[p].file = "resume" /\ Goto(p, "validate")
      BY <3>1, <3>2, NewJobParts, KeepIt DEF StartTargetApply
    <3> QED BY <3>3, GotoOthers DEF SwapKnown
  <2>2. CASE \E s \in Sizes : StartSwapApply(p, s)
    <3>1. job'[p].size # 0 /\ Goto(p, "begin")
      BY <2>2, NewJobParts, SizesAssumption, KeepIt DEF StartSwapApply
    <3> QED BY <3>1, GotoOthers DEF SwapKnown
  <2>3. CASE \E c \in BackupId : StartRollback(p, c)
    BY <1>1, <2>3, GotoOthers DEF StartRollback, KnowingPC
  <2> QED BY <1>3, <2>1, <2>2, <2>3 DEF Start
<1>4. CASE ValidateTarget(p) /\ ~Exit(p)
  <2>1. pc[p] = "validate" /\ Goto(p, "begin") /\ UNCHANGED job BY <1>4 DEF ValidateTarget
  <2> QED BY <1>0, <2>1, GotoOthers DEF SwapKnown
<1>5. CASE Begin(p)
  <2>1. Keep(p, WithBackup(job[p], nextId, EmptyManifest)) /\ pc[p] = "begin"
    BY <1>5 DEF Begin, WithBackup
  <2>2. job'[p].file = job[p].file BY <1>0, <2>1, SwapParts, KeepIt
  <2>3. IF job[p].size # 0 THEN Goto(p, "check-swap") ELSE Goto(p, "record") BY <1>5 DEF Begin
  <2> QED BY <1>0, <2>1, <2>2, <2>3, GotoOthers DEF SwapKnown
<1>6. CASE CheckSwap(p) /\ ~Exit(p)
  <2> DEFINE n == swapAt = NoFile \/ inode[swapAt].size # job[p].size
             c == WithEntry(disk["fstab"])
  <2>1. PICK misread \in BOOLEAN :
          /\ Keep(p, Checked(job[p], n, SwapActive(misread), "fstab", c))
          /\ Reading(b, misread) /\ UNCHANGED <<swapAt, active>>
    BY <1>6 DEF CheckSwap, Checked, swapVars
  <2> HIDE DEF n, c
  <2>2. job'[p].wasActive = SwapActive(misread) /\ job'[p].bid = b
    BY <1>0, <2>1, SwapParts, KeepIt
  <2>3. \E l \in {"swap-manifest", "record"} : Goto(p, l) BY <1>6 DEF CheckSwap
  <2>4. SwapActive(misread) = InUse \/ b \in blind'
    BY <2>1 DEF Reading, SwapActive, InUse
  <2>5. job'[p].wasActive = InUse' \/ job'[p].bid \in blind'
    BY <2>1, <2>2, <2>4 DEF InUse
  <2> QED BY <2>3, <2>5, GotoOthers DEF SwapKnown
<1>7. CASE RecordBefore(p)
  <2> DEFINE f == job[p].file
             m == Recorded(job[p].mem, f, disk[f], ({f} \cap DirFile) \ dirs)
  <2>1. /\ Keep(p, WithMem(job[p], m)) /\ Goto(p, "write") /\ pc[p] = "record"
        /\ UNCHANGED <<swapAt, active, blind>>
    BY <1>7 DEF RecordBefore, WithMem, swapVars, envVars
  <2> HIDE DEF m, f
  <2>2. /\ job'[p].file = job[p].file /\ job'[p].wasActive = job[p].wasActive
        /\ job'[p].bid = b
    BY <1>0, <2>1, SwapParts, KeepIt
  <2> QED BY <1>0, <2>1, <2>2, GotoOthers DEF SwapKnown, InUse
<1>8. CASE WriteFile(p)
  <2>1. Goto(p, "seal") /\ pc[p] = "write" /\ UNCHANGED <<job, swapAt, active, blind>>
    BY <1>8 DEF WriteFile, swapVars, envVars
  <2> QED BY <1>0, <2>1, GotoOthers DEF SwapKnown, InUse
<1>9. CASE RecordAfter(p)
  <2> DEFINE f == job[p].file
             m == Sealed(job[p].mem, f, disk[f])
             g == IF f = "resume" THEN "grub" ELSE f
  <2>1. /\ Keep(p, WithNextFile(job[p], m, g)) /\ pc[p] = "seal"
        /\ UNCHANGED <<swapAt, active, blind>>
    BY <1>9 DEF RecordAfter, WithNextFile, swapVars, envVars
  <2>2. \/ f = "fstab" /\ Goto(p, "swap-manifest")
        \/ f = "resume" /\ Goto(p, "record")
        \/ f = "grub" /\ Goto(p, "initramfs")
    BY <1>0, <1>9 DEF RecordAfter, File
  <2> HIDE DEF m
  <2>3. job'[p].file = g /\ job'[p].wasActive = job[p].wasActive /\ job'[p].bid = b
    BY <1>0, <2>1, SwapParts, KeepIt
  <2>4. CASE f = "fstab" BY <1>0, <2>1, <2>2, <2>3, <2>4, GotoOthers DEF SwapKnown, InUse
  <2>5. CASE f # "fstab" BY <2>2, <2>3, <2>5, GotoOthers DEF SwapKnown
  <2> QED BY <2>4, <2>5
<1>10. CASE RecordSwap(p)
  <2> DEFINE m == [job[p].mem EXCEPT !.swap =
                     [recorded |-> TRUE, existed |-> swapAt # NoFile,
                      wasActive |-> job[p].wasActive, oldNamed |-> FALSE]]
  <2>1. /\ pc[p] = "swap-manifest" /\ UNCHANGED <<swapAt, active, blind>>
        /\ Keep(p, WithMem(job[p], m))
    BY <1>10 DEF RecordSwap, WithMem, swapVars, envVars
  <2> HIDE DEF m
  <2>2. \/ \E l \in {"swapon", "swapoff"} : Goto(p, l)
        \/ ~job[p].wasActive /\ Goto(p, "retain")
    BY <1>10 DEF RecordSwap
  <2>3. ~job[p].wasActive => ~InUse \/ b \in blind BY <1>0, <2>1 DEF SwapKnown
  <2>4. job'[p].bid = b BY <1>0, <2>1, SwapParts, KeepIt
  <2> QED BY <2>1, <2>2, <2>3, <2>4, GotoOthers DEF SwapKnown, InUse
<1>11. CASE SwapOff(p)
  BY <1>11, GotoOthers DEF SwapOff, SwapKnown, InUse
<1>12. CASE SelectTarget(p) /\ ~Exit(p)
  <2>1. Keep(p, WithTarget(job[p], ForSwap(swapAt), "resume")) /\ Goto(p, "record")
    BY <1>12 DEF SelectTarget, WithTarget
  <2>2. job'[p].file = "resume" BY <1>0, <2>1, SwapParts, KeepIt
  <2> QED BY <2>1, <2>2, GotoOthers DEF SwapKnown
<1>13. CASE \/ RetainOld(p) \/ SaveOldName(p) \/ CreateFile(p) \/ Allocate(p) \/ MkSwap(p)
            \/ SwapOn(p) \/ UpdateInitramfs(p) \/ UpdateGrub(p)
  <2>1. \E l \in ApplyPC \ KnowingPC : Goto(p, l)
    BY <1>13 DEF RetainOld, SaveOldName, CreateFile, Allocate, MkSwap, SwapOn, UpdateInitramfs,
                 UpdateGrub, ApplyPC, KnowingPC
  <2> QED BY <1>1, <2>1, GotoOthers
<1>14. CASE BeginFails(p) \/ SwapCommandFails(p) \/ FinishApply(p)
  BY <1>2, <1>14 DEF BeginFails, SwapCommandFails, FinishApply
<1> QED BY <1>2, <1>3, <1>4, <1>5, <1>6, <1>7, <1>8, <1>9, <1>10, <1>11, <1>12, <1>13, <1>14
        DEF ApplyStep

LEMMA RollbackKnown ==
  ASSUME TypeInv, SwapInv, NEW p \in Proc, RollbackStep(p)
  PROVE  SwapKnown(p)'
<1> USE DEF TypeInv, TypeOK
<1>1. CASE SwapRollbackBegins(p)
  <2> DEFINE b == job[p].bid
  <2>1. CASE pc[p] = "rb-exec" /\ UNCHANGED pc
    BY <2>1 DEF SwapKnown
  <2>2. CASE ~(pc[p] = "rb-exec" /\ UNCHANGED pc)
    <3>1. PICK misread \in BOOLEAN :
            /\ Reading(b, misread)
            /\ active' = IF SwapActive(misread) THEN active \ {swapAt} ELSE active
      BY <1>1, <2>2 DEF SwapRollbackBegins, Doing
    <3>2. /\ UNCHANGED swapAt /\ Keep(p, WithMem(job[p], manifest[b]))
          /\ \E l \in {"rb-park", "rb-unlink"} : Goto(p, l)
      BY <1>1, <2>2 DEF SwapRollbackBegins, Doing, WithMem
    <3>3. job'[p].bid = b
      <4>1. job[p] \in Job BY DEF JobType
      <4> QED BY <3>2, <4>1, SwapParts, KeepIt
    <3>4. ~InUse' \/ b \in blind'
      BY <3>1, <3>2 DEF Reading, SwapActive, InUse
    <3> QED BY <3>2, <3>3, <3>4, GotoOthers DEF SwapKnown
  <2> QED BY <2>1, <2>2
<1>2. CASE ParkCurrent(p)
  <2>1. swapAt' = NoFile /\ Goto(p, "rb-unpark") BY <1>2 DEF ParkCurrent
  <2> QED BY <2>1, GotoOthers DEF SwapKnown
<1>3. CASE \/ AcquireLock(p) \/ LoadManifest(p) \/ MarkRollingBack(p) \/ SafetySnapshot(p)
           \/ SafetySnapshotFails(p) \/ PlanRollback(p) \/ RestoreFile(p) \/ RemoveDir(p)
           \/ Regenerate(p) \/ RestoreOld(p) \/ SwapBackOn(p) \/ UnlinkSwap(p)
           \/ ActionFails(p) \/ FinishRollback(p)
  <2>1. \/ Exit(p)
        \/ pc[p] = "rb-exec" /\ UNCHANGED pc
        \/ \E l \in {"rb-load", "rb-mark", "rb-snapshot", "rb-plan", "rb-exec", "rb-swapon"} : Goto(p, l)
    BY <1>3 DEF AcquireLock, LoadManifest, MarkRollingBack, SafetySnapshot, SafetySnapshotFails,
       PlanRollback, RestoreFile, RemoveDir, Regenerate, RestoreOld, SwapBackOn, UnlinkSwap,
       ActionFails, FinishRollback, Doing
  <2>2. pc'[p] \notin KnowingPC BY <2>1, GotoOthers DEF Exit, KnowingPC
  <2> QED BY <2>2, KnowsNothing
<1> QED BY <1>1, <1>2, <1>3 DEF RollbackStep

LEMMA SwapNext ==
  ASSUME Concurrent = FALSE, TypeInv, SwapInv, [Next]_vars
  PROVE  SwapInv'
<1> USE DEF SwapInv
<1>1. ReversibleInv' BY ReversibleNext
<1>2. ASSUME NEW p \in Proc, Start(p) \/ ApplyStep(p) \/ RollbackStep(p) PROVE SwapInv'
  <2>1. SwapKnown(p)' BY <1>2, ApplyKnown, RollbackKnown
  <2> QED BY <1>1, <1>2, <2>1, StepAlone, OthersKnowNothing
<1>3. ASSUME NEW p \in Proc, Crash(p) PROVE SwapInv'
  <2>1. pc'[p] = "idle" /\ Alone(p)
    BY <1>3, ExitOthers DEF Crash, Alone, TypeInv, TypeOK
  <2> QED BY <1>1, <2>1, KnowsNothing, OthersKnowNothing DEF KnowingPC
<1>4. CASE Reboot
  <2>1. \A p \in Proc : pc'[p] = "idle" BY <1>4 DEF Reboot
  <2> QED BY <1>1, <2>1, KnowsNothing DEF KnowingPC
<1>5. CASE (\E f \in File : EditFile(f)) \/ UNCHANGED vars
  <2>1. UNCHANGED <<pc, job, swapAt, active, blind>> BY <1>5 DEF EditFile, vars, swapVars
  <2> QED BY <1>1, <2>1 DEF SwapKnown, InUse
<1> QED BY <1>2, <1>3, <1>4, <1>5 DEF Next, Environment

LEMMA SwapInit == Init => SwapInv
<1> SUFFICES ASSUME Init PROVE SwapInv
  OBVIOUS
<1>1. \A p \in Proc : pc[p] = "idle" BY DEF Init
<1> QED BY <1>1, ReversibleInit DEF SwapInv, SwapKnown

(* A swap file the kernel uses is renamed or unlinked by an operation only *)
(* if its own, last reading of swapon was wrong, in an apply or a          *)
(* rollback, whatever failed before and whatever the machine boots with,   *)
(* with one helper at a time (_ensure_managed_swap_file,                   *)
(* _rollback_restore_old_swap, _rollback_remove_wizard_swap).              *)
THEOREM ActiveSwapCorrect ==
  ASSUME Concurrent = FALSE
  PROVE  Spec => ActiveSwapNotMoved
<1>1. TypeInv /\ SwapInv /\ [Next]_vars => SwapInv'
  BY SwapNext
<1>2. TypeInv /\ SwapInv /\ [Next]_vars
        => [(InUse /\ swapAt' # swapAt) =>
              \E p \in Proc : pc[p] \in {"retain", "rb-park", "rb-unlink"} /\ job[p].bid \in blind]_vars
  <2> SUFFICES ASSUME TypeInv, SwapInv, Next, InUse, swapAt' # swapAt
               PROVE  \E p \in Proc : /\ pc[p] \in {"retain", "rb-park", "rb-unlink"}
                                      /\ job[p].bid \in blind
    OBVIOUS
  <2>1. PICK p \in Proc : Start(p) \/ ApplyStep(p) \/ RollbackStep(p)
    BY DEF Next, Environment, Crash, Reboot, EditFile, swapVars
  <2>2. RetainOld(p) \/ ParkCurrent(p) \/ UnlinkSwap(p) \/ RestoreOld(p)
    <3>1. ~Start(p) BY DEF Start, StartTargetApply, StartSwapApply, StartRollback, swapVars
    <3>2. CASE ApplyStep(p)
      BY <3>2 DEF ApplyStep, ValidateTarget, Begin, BeginFails, CheckSwap, RecordBefore,
         WriteFile, RecordAfter, RecordSwap, SwapOff, SaveOldName, CreateFile, Allocate, MkSwap,
         SwapOn, SwapCommandFails, SelectTarget, UpdateInitramfs, UpdateGrub, FinishApply,
         swapVars, InUse
    <3>3. CASE RollbackStep(p)
      BY <3>3 DEF RollbackStep, AcquireLock, LoadManifest, MarkRollingBack, SafetySnapshot,
         SafetySnapshotFails, PlanRollback, RestoreFile, RemoveDir, Regenerate,
         SwapRollbackBegins, SwapBackOn, ActionFails, FinishRollback, swapVars
    <3> QED BY <2>1, <3>1, <3>2, <3>3
  <2>3. pc[p] \in {"retain", "rb-park", "rb-unlink", "rb-unpark"}
    BY <2>2 DEF RetainOld, ParkCurrent, UnlinkSwap, RestoreOld
  <2> QED BY <2>3 DEF SwapInv, SwapKnown, InUse
<1> QED BY <1>1, <1>2, SwapInit, TypeInvariant, PTL DEF Spec, ActiveSwapNotMoved
=============================================================================
