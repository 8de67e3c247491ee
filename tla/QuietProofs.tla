----------------------------- MODULE QuietProofs -----------------------------
(***************************************************************************)
(* What a rollback promises besides the files, until the first fault, for  *)
(* every number of backups, edits and sizes of the swap file, with one     *)
(* helper at a time: the initramfs is built from the file it restored, the *)
(* swap file is the one found, and the operator's own is never lost.       *)
(*                                                                         *)
(* Each holds on every behaviour up to its first fault, and no longer: the *)
(* code tolerates the failure of a command after which it does not.  The   *)
(* invariants follow what one helper has done so far: whether the          *)
(* initramfs is behind the resume file and will be rebuilt (StepInv),      *)
(* where the swap file, the one it retained and the one it made are at     *)
(* every step (SwapStory), and where the file lies that was there before   *)
(* the first backup (HadInv).                                              *)
(***************************************************************************)
EXTENDS RestoredProofs

-----------------------------------------------------------------------------
(* What a step leaves of the history and the begun backups *)

LEMMA HistoryKept ==
  ASSUME TypeInv, CurrentInv, NEW p \in Proc, Start(p) \/ ApplyStep(p) \/ RollbackStep(p)
  PROVE  /\ \A b \in BackupId : foreign[b] \subseteq foreign'[b]
         /\ ~NewManifest => /\ UNCHANGED base
                            /\ \A b \in BackupId : manifest'[b].status # "none"
                                                     => manifest[b].status # "none"
<1> USE DEF TypeInv, TypeOK
<1>1. \/ UNCHANGED histVars
      \/ UNCHANGED base /\ \E x : Disturb(job[p].bid, x)
      \/ NewManifest
  <2>1. CASE Start(p)
    BY <2>1 DEF Start, StartTargetApply, StartSwapApply, StartRollback
  <2>2. CASE ApplyStep(p)
    BY <2>2 DEF ApplyStep, ValidateTarget, Begin, BeginFails, CheckSwap, RecordBefore, WriteFile,
       RecordAfter, RecordSwap, SwapOff, RetainOld, SaveOldName, CreateFile, Allocate, MkSwap,
       SwapOn, SwapCommandFails, SelectTarget, UpdateInitramfs, UpdateGrub, FinishApply, histVars
  <2>3. CASE RollbackStep(p)
    BY <2>3 DEF RollbackStep, AcquireLock, LoadManifest, MarkRollingBack, SafetySnapshot,
       SafetySnapshotFails, PlanRollback, RestoreFile, RemoveDir, Regenerate, SwapRollbackBegins,
       ParkCurrent, RestoreOld, SwapBackOn, UnlinkSwap, ActionFails, FinishRollback, histVars
  <2> QED BY <2>1, <2>2, <2>3
<1>2. \A b \in BackupId : foreign[b] \subseteq foreign'[b]
  BY <1>1, DisturbGrows DEF histVars, NewManifest
<1>3. ASSUME ~NewManifest, NEW b \in BackupId, manifest'[b].status # "none"
      PROVE  manifest[b].status # "none"
  <2>1. CASE UNCHANGED manifest BY <1>3, <2>1
  <2>2. ASSUME pc[p] \in HoldingPC, NEW m, Save(p, m) PROVE manifest[b].status # "none"
    <3>1. job[p].bid \in BackupId /\ manifest[job[p].bid].status # "none"
      BY <2>2 DEF WorksOnBackup, HoldingPC, CurrentInv, ReversibleInv, Local
    <3> QED BY <1>3, <2>2, <3>1, SaveAt
  <2> QED BY <1>3, <2>1, <2>2, ManifestWrites DEF Writes
<1> QED BY <1>1, <1>2, <1>3 DEF histVars

-----------------------------------------------------------------------------
(* The initramfs *)

(* A process still has to rebuild the initramfs for the resume file it     *)
(* wrote.                                                                  *)
Behind(p) ==
  \/ pc[p] = "initramfs"
  \/ pc[p] \in WritingPC /\ job[p].file = "grub"
  \/ pc[p] = "seal" /\ job[p].file = "resume"
  \/ pc[p] \in ExecPC /\ "rerun-initramfs" \in job[p].todo

(* A backup whose rollback is held to RestoredInitramfs. *)
InStepAtFirst(b) ==
  /\ manifest[b].status # "none" /\ "resume" \notin foreign[b]
  /\ base[b].initrd = base[b].disk["resume"]

InStep ==
  \A b \in BackupId : InStepAtFirst(b) =>
    initrd = disk["resume"] \/ \E p \in Proc : job[p].bid = b /\ Behind(p)

(* A plan that restores the resume file rebuilds the initramfs. *)
Rebuilds(p) ==
  pc[p] \in ExecPC /\ "resume" \in job[p].todo => "rerun-initramfs" \in job[p].todo

StepInv == InStep /\ \A p \in Proc : Rebuilds(p)

LEMMA StillInStep ==
  ASSUME ReversibleInv, InStep, NEW p \in Proc, Alone(p),
         UNCHANGED <<initrd, base>>, disk'["resume"] = disk["resume"],
         \A b \in BackupId : foreign[b] \subseteq foreign'[b],
         \A b \in BackupId : manifest'[b].status # "none" => manifest[b].status # "none",
         Behind(p) => Behind(p)' /\ job'[p].bid = job[p].bid
  PROVE  InStep'
<1> SUFFICES ASSUME NEW b \in BackupId, InStepAtFirst(b)', initrd' # disk'["resume"]
             PROVE  \E q \in Proc : job'[q].bid = b /\ Behind(q)'
  BY DEF InStep
<1>1. InStepAtFirst(b) /\ initrd # disk["resume"] BY DEF InStepAtFirst
<1>2. PICK q \in Proc : job[q].bid = b /\ Behind(q) BY <1>1 DEF InStep
<1>3. pc[q] # "idle" BY <1>2 DEF Behind, WritingPC, ExecPC
<1>4. q = p BY <1>3 DEF Alone, ReversibleInv, OneAtATime, AllIdle
<1> QED BY <1>2, <1>4

(* A backup that begins finds the machine as it is. *)
LEMMA BegunInStep ==
  ASSUME TypeOK, ReversibleInv, InStep, NEW p \in Proc, Alone(p), NewManifest,
         UNCHANGED <<disk, initrd>>, ~Behind(p)
  PROVE  InStep'
<1> USE DEF TypeOK, RecordsType, HistoryType
<1> SUFFICES ASSUME NEW b \in BackupId, InStepAtFirst(b)'
             PROVE  initrd = disk["resume"]
  BY DEF InStep
<1>1. CASE b = nextId
  <2>1. base'[b] = Machine BY <1>1 DEF NewManifest
  <2> QED BY <2>1 DEF InStepAtFirst, Machine
<1>2. CASE b # nextId
  <2>1. InStepAtFirst(b) BY <1>2 DEF InStepAtFirst, NewManifest
  <2>2. \A q \in Proc : ~Behind(q)
    BY DEF Alone, ReversibleInv, OneAtATime, AllIdle, Behind, WritingPC, ExecPC
  <2> QED BY <2>1, <2>2 DEF InStep
<1> QED BY <1>1, <1>2

(* The resume file is written, by the process that will rebuild the        *)
(* initramfs.                                                              *)
LEMMA WriteInStep ==
  ASSUME TypeOK, ReversibleInv, InStep, NEW b, Disturb(b, "resume"),
         UNCHANGED <<manifest, base>>,
         b \in BackupId => \E p \in Proc : job'[p].bid = b /\ Behind(p)'
  PROVE  InStep'
<1> USE DEF TypeOK, HistoryType
<1> SUFFICES ASSUME NEW c \in BackupId, InStepAtFirst(c)'
             PROVE  c = b
  BY DEF InStep
<1>1. ~(c >= nextId) BY DEF InStepAtFirst, ReversibleInv, RecordInv, Begun
<1> QED BY <1>1 DEF InStepAtFirst, Disturb

LEMMA CaughtUp ==
  ASSUME initrd' = disk'["resume"]
  PROVE  InStep'
BY DEF InStep

LEMMA ApplyInStep ==
  ASSUME TypeInv, CurrentInv, InStep, NEW p \in Proc, Alone(p), UNCHANGED faults,
         Start(p) \/ ApplyStep(p)
  PROVE  InStep'
<1> USE DEF TypeInv, TypeOK
<1> DEFINE b == job[p].bid
           f == job[p].file
<1>0. job[p] \in Job /\ job[p].mem \in Manifest /\ f \in File /\ job[p].want \in Content
  BY DEF JobType, Job
<1>1. ReversibleInv /\ Local(p) BY DEF CurrentInv, ReversibleInv
<1>2. ASSUME UNCHANGED <<initrd, base>>, disk'["resume"] = disk["resume"], ~NewManifest,
             Behind(p) => Behind(p)' /\ job'[p].bid = b
      PROVE  InStep'
  BY <1>1, <1>2, HistoryKept, StillInStep
<1>3. ASSUME NEW m, NEW n, manifest' = [manifest EXCEPT ![n] = m], n \in BackupId, UNCHANGED nextId
      PROVE  ~NewManifest
  BY <1>3 DEF NewManifest, RecordsType
<1>4. CASE Start(p)
  <2>1. UNCHANGED <<initrd, base, disk, nextId>> /\ pc[p] = "idle"
    BY <1>4 DEF Start, StartTargetApply, StartSwapApply, StartRollback, CanStart, fileVars,
                bootVars, histVars, recVars
  <2>2. ~NewManifest BY <2>1 DEF NewManifest, RecordsType
  <2> QED BY <1>2, <2>1, <2>2 DEF Behind, WritingPC, ExecPC
<1>5. CASE Begin(p)
  <2>1. NewManifest /\ UNCHANGED <<disk, initrd>> /\ pc[p] = "begin"
    BY <1>5 DEF Begin, fileVars, bootVars
  <2> QED BY <1>1, <2>1, BegunInStep DEF Behind, WritingPC, ExecPC
<1>6. CASE UpdateInitramfs(p)
  <2>1. initrd' = disk["resume"] /\ UNCHANGED disk
    BY <1>6 DEF UpdateInitramfs, Fault, Faulty, EnvType, fileVars
  <2> QED BY <2>1, CaughtUp
<1>7. CASE RecordBefore(p)
  <2> DEFINE m == Recorded(job[p].mem, f, disk[f], ({f} \cap DirFile) \ dirs)
  <2>1. /\ Keep(p, WithMem(job[p], m)) /\ pc[p] = "record" /\ Goto(p, "write")
        /\ UNCHANGED <<disk, initrd, base, nextId>>
    BY <1>7 DEF RecordBefore, WithMem, fileVars, bootVars, histVars
  <2>2. m \in Manifest BY <1>0, RecordedType DEF FilesType
  <2> HIDE DEF m
  <2>3. job'[p].bid = b /\ job'[p].file = f
    BY <1>0, <2>1, <2>2, JobUpdates, SwapParts, KeepIt
  <2>4. ~NewManifest BY <2>1 DEF NewManifest, RecordsType
  <2>5. Behind(p) => Behind(p)'
    BY <2>1, <2>3, GotoOthers DEF Behind, WritingPC, ExecPC
  <2> QED BY <1>2, <2>1, <2>3, <2>4, <2>5
<1>8. CASE WriteFile(p)
  <2>1. /\ disk' = [disk EXCEPT ![f] = Wanted(job[p])] /\ pc[p] = "write" /\ Goto(p, "seal")
        /\ Disturb(b, f) /\ UNCHANGED <<job, initrd, manifest, base, nextId>>
    BY <1>8 DEF WriteFile, bootVars, recVars
  <2>2. CASE f = "resume"
    <3>1. Behind(p)' /\ job'[p].bid = b BY <2>1, <2>2, GotoOthers DEF Behind
    <3> QED BY <1>1, <2>1, <2>2, <3>1, WriteInStep
  <2>3. CASE f # "resume"
    <3>1. disk'["resume"] = disk["resume"] BY <2>1, <2>3 DEF FilesType, File
    <3>2. ~NewManifest BY <2>1 DEF NewManifest, RecordsType
    <3>3. Behind(p) => Behind(p)' BY <2>1, <2>3, GotoOthers DEF Behind, WritingPC, ExecPC
    <3> QED BY <1>2, <2>1, <3>1, <3>2, <3>3
  <2> QED BY <2>2, <2>3
<1>9. CASE RecordAfter(p)
  <2> DEFINE m == Sealed(job[p].mem, f, disk[f])
             g == IF f = "resume" THEN "grub" ELSE f
  <2>1. /\ Keep(p, WithNextFile(job[p], m, g)) /\ pc[p] = "seal"
        /\ UNCHANGED <<disk, initrd, base, nextId>>
    BY <1>9 DEF RecordAfter, WithNextFile, fileVars, bootVars, histVars
  <2>2. \/ f = "fstab" /\ Goto(p, "swap-manifest")
        \/ f = "resume" /\ Goto(p, "record")
        \/ f = "grub" /\ Goto(p, "initramfs")
    BY <1>0, <1>9 DEF RecordAfter, File
  <2>3. m \in Manifest /\ g \in File BY <1>0, SealedType DEF FilesType, File
  <2> HIDE DEF m
  <2>4. job'[p].bid = b /\ job'[p].file = g
    BY <1>0, <2>1, <2>3, JobUpdates, SwapParts, KeepIt
  <2>5. ~NewManifest BY <2>1 DEF NewManifest, RecordsType
  <2>6. Behind(p) => Behind(p)'
    BY <2>1, <2>2, <2>4, GotoOthers DEF Behind, WritingPC, ExecPC
  <2> QED BY <1>2, <2>1, <2>4, <2>5, <2>6
<1>10. CASE \/ ValidateTarget(p) \/ BeginFails(p) \/ CheckSwap(p) \/ RecordSwap(p) \/ SwapOff(p)
            \/ RetainOld(p) \/ SaveOldName(p) \/ CreateFile(p) \/ Allocate(p) \/ MkSwap(p)
            \/ SwapOn(p) \/ SwapCommandFails(p) \/ SelectTarget(p) \/ UpdateGrub(p)
            \/ FinishApply(p)
  <2>1. UNCHANGED <<disk, initrd, base, nextId>>
    BY <1>10 DEF ValidateTarget, BeginFails, CheckSwap, RecordSwap, SwapOff, RetainOld,
       SaveOldName, CreateFile, Allocate, MkSwap, SwapOn, SwapCommandFails, SelectTarget,
       UpdateGrub, FinishApply, fileVars, bootVars, histVars, recVars
  <2>2. pc[p] \in {"validate", "begin", "check-swap", "update-grub", "complete", "mark-failed"}
                    \cup MakingPC
    BY <1>10 DEF ValidateTarget, BeginFails, CheckSwap, RecordSwap, SwapOff, RetainOld,
       SaveOldName, CreateFile, Allocate, MkSwap, SwapOn, SwapCommandFails, SelectTarget,
       UpdateGrub, FinishApply, MakingPC
  <2>3. ~Behind(p) BY <2>2 DEF Behind, WritingPC, ExecPC, MakingPC
  <2>4. ~NewManifest BY <2>1 DEF NewManifest, RecordsType
  <2> QED BY <1>2, <2>1, <2>3, <2>4
<1> QED BY <1>4, <1>5, <1>6, <1>7, <1>8, <1>9, <1>10 DEF ApplyStep

LEMMA PlannedRebuild ==
  ASSUME NEW m, NEW d, NEW ds, NEW o, NEW x
  PROVE  "resume" \in BuildPlan(m, d, ds, o, x) => "rerun-initramfs" \in BuildPlan(m, d, ds, o, x)
BY DEF BuildPlan, SwapWillRun, DirWillRun, PostWillRun, DirAction

(* What is left to do after the first action is done or has failed.        *)
LEMMA ResultTodo ==
  ASSUME NEW j \in Job, NEW m \in Manifest
  PROVE  /\ Succeeded(j).bid = j.bid /\ Succeeded(j).todo = j.todo \ {First(j.todo)}
         /\ Failed(j).bid = j.bid /\ Failed(j).todo = j.todo \ {First(j.todo)}
         /\ WithMem(j, m).bid = j.bid /\ WithMem(j, m).todo = j.todo
         /\ WithMem(Succeeded(j), m).bid = j.bid
         /\ WithMem(Succeeded(j), m).todo = j.todo \ {First(j.todo)}
<1>1. /\ Succeeded(j).bid = j.bid /\ Succeeded(j).todo = j.todo \ {First(j.todo)}
      /\ Failed(j).bid = j.bid /\ Failed(j).todo = j.todo \ {First(j.todo)}
  BY DEF Job, Succeeded, Failed
<1>2. \A k \in Job : WithMem(k, m).bid = k.bid /\ WithMem(k, m).todo = k.todo
  BY DEF Job, WithMem
<1>3. Succeeded(j) \in Job BY ResultJobs
<1> QED BY <1>1, <1>2, <1>3

LEMMA RollbackInStep ==
  ASSUME TypeInv, CurrentInv, TraceInv, StepInv, NEW p \in Proc, Alone(p), UNCHANGED faults,
         RollbackStep(p)
  PROVE  InStep' /\ Rebuilds(p)'
<1> USE DEF TypeInv, TypeOK
<1> DEFINE b == job[p].bid
           old_m == manifest[b]
           T == job[p].todo
<1>0. job[p] \in Job /\ T \in SUBSET Action BY DEF JobType, Job
<1>1. ReversibleInv /\ Local(p) /\ Tracing(p) /\ InStep /\ Rebuilds(p)
  BY DEF CurrentInv, ReversibleInv, TraceInv, StepInv
<1>2. ASSUME pc[p] \in HoldingPC PROVE b \in BackupId /\ old_m \in Manifest
  BY <1>2 DEF HoldingPC, WorksOnBackup, RecordsType
<1>3. ASSUME UNCHANGED <<initrd, base>>, disk'["resume"] = disk["resume"], ~NewManifest,
             Behind(p) => Behind(p)' /\ job'[p].bid = b
      PROVE  InStep'
  BY <1>1, <1>3, HistoryKept, StillInStep
<1>4. ASSUME UNCHANGED nextId PROVE ~NewManifest
  BY <1>4 DEF NewManifest, RecordsType
<1>5. CASE \/ AcquireLock(p) \/ LoadManifest(p) \/ MarkRollingBack(p) \/ SafetySnapshotFails(p)
           \/ FinishRollback(p)
  <2>1. UNCHANGED <<disk, initrd, base, nextId>>
    BY <1>5 DEF AcquireLock, LoadManifest, MarkRollingBack, SafetySnapshotFails, FinishRollback,
       fileVars, bootVars, recVars, histVars
  <2>2. ~Behind(p)
    BY <1>5 DEF AcquireLock, LoadManifest, MarkRollingBack, SafetySnapshotFails, FinishRollback,
       Behind, WritingPC, ExecPC
  <2>3. Exit(p) \/ \E l \in {"rb-load", "rb-mark", "rb-snapshot"} : Goto(p, l)
    BY <1>5 DEF AcquireLock, LoadManifest, MarkRollingBack, SafetySnapshotFails, FinishRollback
  <2>4. Rebuilds(p)' BY <2>3, GotoOthers DEF Exit, Rebuilds, ExecPC
  <2> QED BY <1>3, <1>4, <2>1, <2>2, <2>4
<1>6. CASE SafetySnapshot(p)
  <2>1. /\ NewManifest /\ UNCHANGED <<disk, initrd>> /\ pc[p] = "rb-snapshot"
        /\ Goto(p, "rb-plan")
    BY <1>6 DEF SafetySnapshot, fileVars, bootVars
  <2> QED BY <1>1, <2>1, GotoOthers, BegunInStep DEF Behind, WritingPC, ExecPC, Rebuilds
<1>7. CASE PlanRollback(p)
  <2> DEFINE t == BuildPlan(old_m, disk, dirs, old[b] # NoFile, swapAt # NoFile)
  <2>1. /\ pc[p] = "rb-plan" /\ Keep(p, WithPlan(job[p], old_m, t))
        /\ UNCHANGED <<disk, initrd, base, nextId>>
    BY <1>7 DEF PlanRollback, WithPlan, fileVars, bootVars, recVars, histVars
  <2>2. old_m \in Manifest BY <1>2, <2>1 DEF HoldingPC, PC, LockedPC, ExecPC
  <2>3. t \in SUBSET Action /\ ("resume" \in t => "rerun-initramfs" \in t)
    BY PlanType, PlannedRebuild
  <2> HIDE DEF t
  <2>4. \A j \in Job : WithPlan(j, old_m, t).todo = t BY DEF Job, WithPlan
  <2>5. job'[p].todo = t BY <1>0, <2>1, <2>4, KeepIt
  <2> QED BY <1>3, <1>4, <2>1, <2>3, <2>5 DEF Behind, WritingPC, ExecPC, Rebuilds
<1>8. CASE RestoreFile(p)
  <2> DEFINE f == Next1(p)
  <2>1. /\ disk' = [disk EXCEPT ![f] = old_m.files[f].before] /\ UNCHANGED <<pc, initrd, nextId>>
        /\ Keep(p, WithMem(Succeeded(job[p]), old_m)) /\ Disturb(b, f) /\ pc[p] = "rb-exec"
        /\ f \in File /\ T # {} /\ UNCHANGED <<manifest, base>>
    BY <1>8 DEF RestoreFile, Doing, WithMem, bootVars, recVars
  <2>2. old_m \in Manifest /\ f \in T
    BY <1>0, <1>2, <2>1, FirstOfPlan DEF HoldingPC, PC, LockedPC, ExecPC, Next1
  <2>3. job'[p].bid = b /\ job'[p].todo = T \ {f}
    BY <1>0, <2>1, <2>2, ResultTodo, KeepIt DEF Next1
  <2> HIDE DEF f
  <2>4. "rerun-initramfs" \in T => "rerun-initramfs" \in job'[p].todo
    BY <2>1, <2>3 DEF File
  <2>5. (Behind(p) => Behind(p)') /\ Rebuilds(p)'
    BY <1>1, <2>1, <2>3, <2>4 DEF Behind, Rebuilds, WritingPC, ExecPC
  <2>6. CASE f = "resume"
    <3>1. Behind(p)' BY <1>1, <2>1, <2>2, <2>4, <2>6 DEF Behind, Rebuilds, ExecPC
    <3> QED BY <1>1, <2>1, <2>3, <2>5, <2>6, <3>1, WriteInStep
  <2>7. CASE f # "resume"
    <3>1. disk'["resume"] = disk["resume"] BY <2>1, <2>7 DEF FilesType, File
    <3> QED BY <1>3, <1>4, <2>1, <2>3, <2>5, <3>1
  <2> QED BY <2>6, <2>7
<1>9. ASSUME pc[p] \in ExecPC, UNCHANGED <<disk, initrd, base, nextId>>,
             job'[p].bid = b, pc'[p] \in ExecPC,
             \/ job'[p].todo = T
             \/ job'[p].todo = T \ {Next1(p)} /\ Next1(p) # "rerun-initramfs"
      PROVE  InStep' /\ Rebuilds(p)'
  <2>1. (Behind(p) => Behind(p)') /\ Rebuilds(p)'
    BY <1>1, <1>9 DEF Behind, Rebuilds, WritingPC, ExecPC
  <2> QED BY <1>3, <1>4, <1>9, <2>1
<1>10. CASE Regenerate(p)
  <2>1. /\ pc[p] = "rb-exec" /\ T # {} /\ Next1(p) \in Rerun /\ UNCHANGED <<pc, disk, base, nextId>>
        /\ Keep(p, Succeeded(job[p]))
        /\ \/ Next1(p) = "rerun-grub" /\ UNCHANGED initrd
           \/ Next1(p) = "rerun-initramfs" /\ initrd' = disk["resume"]
    BY <1>10 DEF Regenerate, Doing, Rerun, fileVars, recVars, histVars
  <2>2. old_m \in Manifest BY <1>2, <2>1 DEF HoldingPC, PC, LockedPC, ExecPC
  <2>3. job'[p].bid = b /\ job'[p].todo = T \ {Next1(p)}
    BY <1>0, <2>1, <2>2, ResultTodo, KeepIt DEF Next1
  <2>4. CASE Next1(p) = "rerun-grub" /\ UNCHANGED initrd
    BY <1>9, <2>1, <2>3, <2>4 DEF ExecPC
  <2>5. CASE Next1(p) = "rerun-initramfs" /\ initrd' = disk["resume"]
    <3>1. "resume" \notin T
      <4>1. \A a \in T : Rank("rerun-initramfs") <= Rank(a)
        BY <1>0, <2>1, <2>5, FirstOfPlan DEF Next1
      <4> QED BY <4>1, Ranks
    <3> QED BY <2>1, <2>3, <2>5, <3>1, CaughtUp DEF Rebuilds
  <2> QED BY <2>1, <2>4, <2>5
<1>11. CASE \/ RemoveDir(p) \/ SwapRollbackBegins(p) \/ ParkCurrent(p) \/ RestoreOld(p)
            \/ SwapBackOn(p) \/ UnlinkSwap(p) \/ ActionFails(p)
  <2>1. pc[p] \in ExecPC /\ UNCHANGED <<disk, initrd, base, nextId>>
    BY <1>11 DEF RemoveDir, SwapRollbackBegins, ParkCurrent, RestoreOld, SwapBackOn, UnlinkSwap,
       ActionFails, Doing, ExecPC, fileVars, bootVars, recVars, histVars
  <2>2. old_m \in Manifest
    BY <1>2, <2>1 DEF HoldingPC, ExecPC, PC, LockedPC
  <2>3. \/ UNCHANGED job \/ Keep(p, WithMem(job[p], old_m))
        \/ Keep(p, Succeeded(job[p])) \/ Keep(p, Failed(job[p]))
    BY <1>11 DEF RemoveDir, SwapRollbackBegins, ParkCurrent, RestoreOld, SwapBackOn, UnlinkSwap,
       ActionFails, WithMem
  <2>4. job'[p].bid = b /\ (job'[p].todo = T \/ job'[p].todo = T \ {Next1(p)})
    BY <1>0, <2>2, <2>3, ResultTodo, KeepIt DEF Next1
  <2>5. UNCHANGED pc \/ \E l \in ExecPC : Goto(p, l)
    BY <1>11 DEF RemoveDir, SwapRollbackBegins, ParkCurrent, RestoreOld, SwapBackOn, UnlinkSwap,
       ActionFails, ExecPC
  <2>6. pc'[p] \in ExecPC BY <2>1, <2>5, GotoOthers
  <2>7. Next1(p) # "rerun-initramfs"
    <3>1. Next1(p) \in DirAction \cup SwapAction
      <4>1. CASE RemoveDir(p) \/ SwapRollbackBegins(p)
        BY <4>1 DEF RemoveDir, SwapRollbackBegins, Doing
      <4>2. CASE pc[p] \in ExecPC \ {"rb-exec"} BY <1>1, <4>2 DEF Tracing
      <4>3. CASE ActionFails(p) /\ pc[p] = "rb-exec"
        BY <4>3 DEF ActionFails, Fault, Faulty, EnvType
      <4> QED BY <1>11, <2>1, <4>1, <4>2, <4>3
           DEF ParkCurrent, RestoreOld, SwapBackOn, UnlinkSwap
    <3> QED BY <3>1 DEF DirAction, SwapAction
  <2> QED BY <1>9, <2>1, <2>4, <2>6, <2>7
<1> QED BY <1>5, <1>6, <1>7, <1>8, <1>10, <1>11 DEF RollbackStep

-----------------------------------------------------------------------------
(* Before the first fault nothing but a helper, which no command fails,    *)
(* and the operator changes the machine.                                   *)

LEMMA ReadRightly ==
  ASSUME EnvType, UNCHANGED faults, NEW b, NEW misread \in BOOLEAN, Reading(b, misread)
  PROVE  misread = FALSE /\ (blind = {} => blind' = {})
BY DEF Reading, Faulty, EnvType

LEMMA NoFaultYet ==
  ASSUME TypeInv, [Next]_vars, faults' = 0
  PROVE  /\ faults = 0
         /\ blind = {} => blind' = {}
         /\ \/ UNCHANGED vars
            \/ \E p \in Proc : Start(p) \/ ApplyStep(p) \/ RollbackStep(p)
            \/ \E f \in File : EditFile(f)
<1> USE DEF TypeInv, TypeOK
<1>1. faults \in Nat /\ ~Faulty BY BoundAssumption DEF EnvType, Faulty
<1> DEFINE Seen == faults = 0 /\ (blind = {} => blind' = {})
<1>2. CASE UNCHANGED vars BY <1>2 DEF vars
<1>3. CASE \E f \in File : EditFile(f) BY <1>3 DEF EditFile
<1>4. ASSUME NEW p \in Proc, Start(p) \/ ApplyStep(p) \/ RollbackStep(p) PROVE Seen
  <2>1. CASE Start(p)
    BY <2>1 DEF Start, StartTargetApply, StartSwapApply, StartRollback, envVars
  <2>2. CASE CheckSwap(p)
    BY <1>1, <2>2 DEF CheckSwap, Reading, envVars
  <2>3. CASE SwapRollbackBegins(p)
    BY <1>1, <2>3 DEF SwapRollbackBegins, Reading, envVars
  <2>4. CASE ApplyStep(p) /\ ~CheckSwap(p)
    BY <1>1, <2>4 DEF ApplyStep, ValidateTarget, Begin, BeginFails, RecordBefore,
       WriteFile, RecordAfter, RecordSwap, SwapOff, RetainOld, SaveOldName, CreateFile, Allocate,
       MkSwap, SwapOn, SwapCommandFails, SelectTarget, UpdateInitramfs, UpdateGrub, FinishApply,
       envVars, Fault
  <2>5. CASE RollbackStep(p) /\ ~SwapRollbackBegins(p)
    BY <1>1, <2>5 DEF RollbackStep, AcquireLock, LoadManifest, MarkRollingBack, SafetySnapshot,
       SafetySnapshotFails, PlanRollback, RestoreFile, RemoveDir, Regenerate,
       ParkCurrent, RestoreOld, SwapBackOn, UnlinkSwap, ActionFails, FinishRollback, envVars, Fault
  <2> QED BY <1>4, <2>1, <2>2, <2>3, <2>4, <2>5
<1>5. \A p \in Proc : ~Crash(p) BY <1>1 DEF Crash, Fault
<1>6. ~Reboot BY <1>1 DEF Reboot, Fault
<1> QED BY <1>2, <1>3, <1>4, <1>5, <1>6 DEF Next, Environment

LEMMA NotExecuting ==
  ASSUME TypeInv, NEW p \in Proc, Start(p) \/ ApplyStep(p)
  PROVE  pc'[p] \notin ExecPC
<1> USE DEF TypeInv, TypeOK
<1>1. pc[p] \notin LockedPC
  BY DEF Start, StartTargetApply, StartSwapApply, StartRollback, CanStart, ApplyStep,
     ValidateTarget, Begin, BeginFails, CheckSwap, RecordBefore, WriteFile, RecordAfter,
     RecordSwap, SwapOff, RetainOld, SaveOldName, CreateFile, Allocate, MkSwap, SwapOn,
     SwapCommandFails, SelectTarget, UpdateInitramfs, UpdateGrub, FinishApply, LockedPC, ExecPC
<1>2. UNCHANGED lock \/ Exit(p)
  BY DEF Start, StartTargetApply, StartSwapApply, StartRollback, ApplyStep,
     ValidateTarget, Begin, BeginFails, CheckSwap, RecordBefore, WriteFile, RecordAfter,
     RecordSwap, SwapOff, RetainOld, SaveOldName, CreateFile, Allocate, MkSwap, SwapOn,
     SwapCommandFails, SelectTarget, UpdateInitramfs, UpdateGrub, FinishApply
<1>3. LockMove(p) BY LockMoves
<1>4. ~(lock = NoProc /\ lock' = p) BY <1>2, ProcAssumption DEF Exit
<1>5. pc'[p] \notin LockedPC
  BY <1>1, <1>3, <1>4, GotoOthers DEF LockMove, Exit, LockedPC, ExecPC
<1> QED BY <1>5 DEF ExecPC, LockedPC

LEMMA StepNext ==
  ASSUME Concurrent = FALSE, TypeInv, CurrentInv, TraceInv, [Next]_vars, faults' = 0, StepInv
  PROVE  StepInv'
<1> USE DEF TypeInv, TypeOK
<1>1. ReversibleInv /\ InStep BY DEF CurrentInv, StepInv
<1>2. CASE UNCHANGED vars
  BY <1>2 DEF vars, StepInv, InStep, InStepAtFirst, Rebuilds, Behind
<1>3. ASSUME NEW f \in File, EditFile(f) PROVE StepInv'
  <2>1. /\ Disturb(0, f) /\ UNCHANGED <<pc, job, initrd, manifest, base>>
        /\ \A g \in File \ {f} : disk'[g] = disk[g]
    BY <1>3 DEF EditFile, FilesType, bootVars, recVars
  <2>2. 0 \notin BackupId BY DEF BackupId
  <2>3. \A b \in BackupId : foreign[b] \subseteq foreign'[b] BY <2>1, DisturbGrows
  <2>4. CASE f = "resume" 
    <3>1. InStep' BY <1>1, <2>1, <2>2, <2>4, WriteInStep
    <3> QED BY <2>1, <3>1 DEF StepInv, Rebuilds
  <2>5. CASE f # "resume"
    <3>1. disk'["resume"] = disk["resume"] BY <2>1, <2>5 DEF File
    <3> QED BY <2>1, <2>3, <3>1 DEF StepInv, InStep, InStepAtFirst, Rebuilds, Behind
  <2> QED BY <2>4, <2>5
<1>4. ASSUME NEW p \in Proc, Start(p) \/ ApplyStep(p) \/ RollbackStep(p) PROVE StepInv'
  <2>1. Alone(p) /\ UNCHANGED faults BY <1>4, StepAlone, NoFaultYet
  <2>2. \A q \in Proc \ {p} : pc'[q] = "idle"
    BY <1>1, <2>1 DEF ReversibleInv, OneAtATime, Alone, AllIdle
  <2>3. InStep' /\ Rebuilds(p)'
    BY <1>1, <1>4, <2>1, ApplyInStep, NotExecuting, RollbackInStep DEF Rebuilds
  <2> QED BY <2>2, <2>3 DEF StepInv, Rebuilds, ExecPC
<1> QED BY <1>2, <1>3, <1>4, NoFaultYet

LEMMA StepInit == Init => StepInv
BY DEF Init, NoManifest, StepInv, InStep, InStepAtFirst, Rebuilds, ExecPC

(* A rollback that ends "rolled-back" leaves an initramfs built from the   *)
(* resume file it restored, if the two were in step before the apply and   *)
(* nobody else wrote the file: until the first fault, for any number of    *)
(* backups and edits, with one helper at a time (_post_actions;            *)
(* RestoredInitramfs is what the run helper_quiet checks).                 *)
THEOREM InitramfsCorrect ==
  ASSUME Concurrent = FALSE
  PROVE  Spec => [](faults = 0 => RestoredInitramfs)
<1>1. TypeInv /\ CurrentInv /\ [Next]_vars => CurrentInv'
  BY CurrentNext
<1>2. TypeInv /\ CurrentInv /\ TraceInv /\ [Next]_vars => TraceInv'
  BY TraceNext
<1>3. TypeInv /\ CurrentInv /\ TraceInv /\ (faults = 0 => StepInv) /\ [Next]_vars
        => (faults = 0 => StepInv)'
  BY StepNext, NoFaultYet
<1>4. TypeInv /\ CurrentInv /\ (faults = 0 => StepInv) => (faults = 0 => RestoredInitramfs)
  <2> SUFFICES ASSUME TypeInv, CurrentInv, StepInv, NEW b \in BackupId,
                      manifest[b].status = "rolled-back", "resume" \notin foreign[b],
                      base[b].initrd = base[b].disk["resume"]
               PROVE  initrd = disk["resume"]
    BY DEF RestoredInitramfs
  <2>1. \A p \in Proc : job[p].bid = b => ~Behind(p)
    BY DEF Behind, WritingPC, ExecPC, HoldingPC, PC, ApplyPC, LockedPC, CurrentInv, Current
  <2> QED BY <2>1 DEF StepInv, InStep, InStepAtFirst
<1>5. Init => (faults = 0 => StepInv) BY StepInit
<1> QED BY <1>1, <1>2, <1>3, <1>4, <1>5, CurrentInit, TraceInit, TypeInvariant, PTL DEF Spec

-----------------------------------------------------------------------------
(* The swap file *)

(* An apply that has not touched the swap file yet, and still writes fstab *)
(* and the record of what it found.                                        *)
Preparing(p) ==
  \/ pc[p] \in {"check-swap", "swap-manifest"}
  \/ pc[p] \in WritingPC /\ job[p].file = "fstab"

(* Only the file at the path is in use; a retained file was formatted; a   *)
(* backup's two siblings exist together only while one takes the other's   *)
(* place.                                                                  *)
Shape ==
  /\ active \subseteq {swapAt}
  /\ swapAt # NoFile => inode[swapAt].fmt \/ \E p \in Proc : pc[p] \in {"allocate", "mkswap"}
  /\ \A b \in BackupId :
       /\ b >= nextId => old[b] = NoFile /\ cur[b] = NoFile
       /\ old[b] # NoFile => inode[old[b]].fmt
       /\ old[b] # NoFile /\ cur[b] # NoFile
            => \E p \in Proc : pc[p] = "rb-unpark" /\ job[p].bid = b

(* What a process relies on, whoever changed the swap file before it: with *)
(* this no command is refused and no action fails by itself.               *)
Stage(p) ==
  LET b == job[p].bid
      r == manifest[b].swap
      T == job[p].todo
  IN  /\ Preparing(p) \/ pc[p] \in {"swapoff", "retain"} => old[b] = NoFile /\ cur[b] = NoFile
      /\ Preparing(p) /\ pc[p] # "check-swap" => job[p].needsNew \/ swapAt # NoFile
      /\ pc[p] = "swapoff" => InUse
      /\ pc[p] \in {"retain-save", "create", "rb-unpark"} => swapAt = NoFile
      /\ pc[p] \in {"allocate", "mkswap", "swapon", "rb-swapon"} => swapAt # NoFile
      /\ pc[p] \in {"allocate", "mkswap", "rb-swapon"} => active = {}
      /\ pc[p] \in {"rb-park", "rb-unpark"} => old[b] # NoFile
      /\ pc[p] \in {"rb-park", "rb-unpark", "rb-swapon"} => Next1(p) = "restore-old-swap"
      /\ pc[p] = "rb-unlink" => Next1(p) = "remove-swap"
      /\ pc[p] = "rb-exec" /\ "restore-old-swap" \in T => old[b] # NoFile
      /\ pc[p] \in ExecPC => /\ "restore-old-swap" \in T => r.existed
                             /\ "remove-swap" \in T => r.recorded /\ ~r.existed

(* The record of b tells what b found; the swap file is as b found it; b's *)
(* apply retained the file it found, or made one where there was none.     *)
Tracked(b) ==
  LET r == manifest[b].swap
      o == base[b].swapAt
  IN  /\ r.recorded /\ (r.existed <=> o # NoFile)
      /\ o \in base[b].active => r.wasActive

Untouched(b) ==
  LET r == manifest[b].swap
      o == base[b].swapAt
  IN  /\ swapAt = o /\ old[b] = NoFile
      /\ o \in base[b].active => o \in active
      /\ r.recorded => (r.existed <=> o # NoFile)

Retained(b) ==
  LET o == base[b].swapAt
  IN  Tracked(b) /\ manifest[b].swap.oldNamed /\ o # NoFile /\ old[b] = o

Made(b) == Tracked(b) /\ base[b].swapAt = NoFile /\ swapAt # NoFile /\ old[b] = NoFile

Settled(b) == Untouched(b) \/ Retained(b) \/ Made(b)

(* Where b's own process stands between two of these. *)
UnsettledPC == {"retain", "retain-save", "create", "rb-park", "rb-unpark", "rb-swapon", "rb-unlink"}

Clean(b) == manifest[b].status # "none" /\ "swap" \notin foreign[b]

Settling ==
  \A b \in BackupId : Clean(b) =>
    /\ Settled(b) \/ \E p \in Proc : pc[p] \in UnsettledPC /\ job[p].bid = b
    /\ manifest[b].status = "rolled-back" => Untouched(b)

(* What a process knows while nobody else changed the swap file. *)
Knows(p) ==
  LET b == job[p].bid
      o == base[b].swapAt
      T == job[p].todo
  IN  b \in BackupId /\ "swap" \notin foreign[b] =>
        /\ Preparing(p) \/ pc[p] = "swapoff" => Untouched(b)
        /\ pc[p] \in {"swapoff", "retain", "retain-save", "rb-swapon", "rb-unlink"} => Tracked(b)
        /\ pc[p] \in {"retain", "rb-swapon", "rb-unlink"} => old[b] = NoFile
        /\ pc[p] \in {"retain", "rb-swapon"} => swapAt = o
        /\ pc[p] = "retain-save" => o # NoFile /\ old[b] = o
        /\ pc[p] = "create" => Retained(b) \/ (Tracked(b) /\ o = NoFile /\ old[b] = NoFile)
        /\ pc[p] = "rb-exec" => /\ "restore-old-swap" \in T => Retained(b)
                                /\ "remove-swap" \in T => Made(b)
                                /\ SwapAction \cap T = {} => Untouched(b)
        /\ pc[p] \in {"rb-park", "rb-unpark"} => Retained(b)
        /\ pc[p] = "rb-unlink" => o = NoFile

SwapStory == Shape /\ Settling /\ \A p \in Proc : Stage(p) /\ Knows(p)

(* No process takes a swap file in use for one that is not. *)
Sighted == SwapInv /\ blind = {}

(* Where a process relies on something of the swap file. *)
StagePC == {"check-swap", "swap-manifest", "swapoff", "retain", "retain-save", "create",
            "allocate", "mkswap", "swapon"} \cup ExecPC

-----------------------------------------------------------------------------
LEMMA NothingOnStage ==
  ASSUME NEW p \in Proc, pc'[p] \notin StagePC, ~Preparing(p)'
  PROVE  Stage(p)' /\ Knows(p)'
BY DEF Stage, Knows, StagePC, Preparing, ExecPC

LEMMA OthersOffStage ==
  ASSUME ReversibleInv, NEW p \in Proc, Alone(p)
  PROVE  \A q \in Proc \ {p} : pc[q] = "idle" /\ pc'[q] = "idle"
BY DEF ReversibleInv, OneAtATime, Alone, AllIdle

LEMMA OthersStory ==
  ASSUME ReversibleInv, NEW p \in Proc, Alone(p), Shape', Settling', Stage(p)', Knows(p)'
  PROVE  SwapStory'
<1>1. \A q \in Proc \ {p} : Stage(q)' /\ Knows(q)'
  BY OthersOffStage, NothingOnStage DEF StagePC, Preparing, ExecPC, WritingPC
<1> QED BY <1>1 DEF SwapStory

(* A step of b's own process settles what it has to settle for b alone.    *)
LEMMA OwnSettling ==
  ASSUME ReversibleInv, TypeOK, Settling, NEW p \in Proc, Alone(p), NEW b \in BackupId,
         job[p].bid = b, UNCHANGED base,
         manifest[b].status # "none", manifest[b].status # "rolled-back",
         Disturb(b, "swap") \/ UNCHANGED <<swapAt, old, active, foreign>>,
         \A c \in BackupId \ {b} : manifest'[c] = manifest[c] /\ old'[c] = old[c],
         manifest'[b].status = manifest[b].status,
         "swap" \notin foreign'[b] =>
           Settled(b)' \/ (pc'[p] \in UnsettledPC /\ job'[p].bid = b)
  PROVE  Settling'
<1> SUFFICES ASSUME NEW c \in BackupId, Clean(c)'
             PROVE  /\ Settled(c)' \/ \E q \in Proc : pc'[q] \in UnsettledPC /\ job'[q].bid = c
                    /\ manifest'[c].status = "rolled-back" => Untouched(c)'
  BY DEF Settling
<1>1. CASE c = b BY <1>1 DEF Clean
<1>2. CASE c # b
  <2>1. manifest'[c] = manifest[c] /\ old'[c] = old[c] /\ ~(c >= nextId)
    BY <1>2 DEF Clean, ReversibleInv, RecordInv, Begun
  <2>2. ~Disturb(b, "swap") BY <1>2, <2>1 DEF Clean, Disturb, TypeOK, HistoryType
  <2>3. Clean(c) /\ UNCHANGED <<swapAt, active>> BY <2>1, <2>2 DEF Clean
  <2>4. ~\E q \in Proc : pc[q] \in UnsettledPC /\ job[q].bid = c
    BY <1>2, OthersOffStage DEF UnsettledPC
  <2>5. Settled(c) /\ (manifest[c].status = "rolled-back" => Untouched(c))
    BY <2>3, <2>4 DEF Settling
  <2> QED BY <2>1, <2>3, <2>5 DEF Settled, Untouched, Retained, Made, Tracked
<1> QED BY <1>1, <1>2

(* The steps of _ensure_managed_swap_file that touch the swap file. *)
LEMMA MakingStory ==
  ASSUME TypeInv, CurrentInv, Sighted, SwapStory, NEW p \in Proc, Alone(p),
         \/ SwapOff(p) \/ RetainOld(p) \/ CreateFile(p) \/ Allocate(p) \/ MkSwap(p) \/ SwapOn(p)
  PROVE  SwapStory'
<1> USE DEF TypeInv, TypeOK
<1> DEFINE b == job[p].bid
<1>1. /\ ReversibleInv /\ Current(p) /\ Local(p)
      /\ Shape /\ Settling /\ Stage(p) /\ Knows(p)
  BY DEF CurrentInv, ReversibleInv, SwapStory
<1>2. /\ pc[p] \in {"swapoff", "retain", "create", "allocate", "mkswap", "swapon"}
      /\ UNCHANGED <<job, cur, manifest, nextId, base>>
      /\ Disturb(b, "swap") \/ UNCHANGED <<swapAt, old, active, foreign>>
  BY DEF SwapOff, RetainOld, CreateFile, Allocate, MkSwap, SwapOn, recVars, histVars
<1>3. b \in BackupId /\ manifest[b].status # "none" /\ manifest[b].status # "rolled-back"
  BY <1>1, <1>2 DEF WorksOnBackup, Local, Current, HoldingPC, PC, ApplyPC, LockedPC, ExecPC
<1>4. ~(b >= nextId) BY <1>1, <1>3 DEF ReversibleInv, RecordInv, Begun
<1>5. foreign'[b] = foreign[b] BY <1>2, <1>3 DEF Disturb, HistoryType
<1>6. \A q \in Proc \ {p} : pc[q] = "idle" /\ pc'[q] = "idle" BY <1>1, OthersOffStage
<1> USE DEF SwapType
<1>7. CASE SwapOff(p)
  <2>1. /\ pc[p] = "swapoff" /\ pc'[p] = "retain" /\ active' = active \ {swapAt}
        /\ UNCHANGED <<swapAt, old, inode>>
    BY <1>7, GotoOthers DEF SwapOff
  <2>2. Shape' BY <1>1, <1>2, <1>6, <2>1 DEF Shape
  <2>3. Stage(p)' BY <1>1, <1>2, <2>1 DEF Stage, Preparing, WritingPC, ExecPC
  <2>4. Knows(p)'
    BY <1>1, <1>2, <1>5, <2>1 DEF Knows, Preparing, WritingPC, Untouched, Tracked
  <2>5. Settling' BY <1>1, <1>2, <1>3, <2>1, OwnSettling DEF UnsettledPC
  <2> QED BY <1>1, <2>2, <2>3, <2>4, <2>5, OthersStory
<1>8. CASE RetainOld(p) /\ swapAt # NoFile
  <2>1. /\ pc[p] = "retain" /\ pc'[p] = "retain-save" /\ swapAt' = NoFile
        /\ old' = [old EXCEPT ![b] = swapAt] /\ UNCHANGED <<active, inode>>
    BY <1>8, GotoOthers DEF RetainOld
  <2>2. Shape'
    <3>1. inode[swapAt].fmt /\ cur[b] = NoFile
      BY <1>1, <1>6, <1>8, <2>1 DEF Shape, Stage
    <3>2. active = {}
      BY <1>1, <1>8, <2>1 DEF Shape, Sighted, SwapInv, SwapKnown, InUse
    <3>3. \A c \in BackupId : old'[c] = IF c = b THEN swapAt ELSE old[c]
      BY <2>1
    <3>4. \A c \in BackupId \ {b} : ~(old[c] # NoFile /\ cur[c] # NoFile)
      BY <1>1, <1>6, <2>1 DEF Shape
    <3> QED BY <1>1, <1>2, <1>4, <2>1, <3>1, <3>2, <3>3, <3>4 DEF Shape
  <2>3. Stage(p)' BY <1>1, <1>2, <2>1 DEF Stage, Preparing, WritingPC, ExecPC
  <2>4. Knows(p)'
    BY <1>1, <1>2, <1>3, <1>5, <1>8, <2>1 DEF Knows, Preparing, WritingPC, Tracked
  <2>5. Settling' BY <1>1, <1>2, <1>3, <2>1, OwnSettling DEF UnsettledPC
  <2> QED BY <1>1, <2>2, <2>3, <2>4, <2>5, OthersStory
<1>9. CASE RetainOld(p) /\ swapAt = NoFile
  <2>1. /\ pc[p] = "retain" /\ pc'[p] = "create" /\ UNCHANGED <<swapAt, old, active, inode>>
    BY <1>9, GotoOthers DEF RetainOld
  <2>2. Shape' BY <1>1, <1>2, <1>6, <2>1 DEF Shape
  <2>3. Stage(p)' BY <1>1, <1>2, <1>9, <2>1 DEF Stage, Preparing, WritingPC, ExecPC
  <2>4. Knows(p)'
    BY <1>1, <1>2, <1>3, <1>5, <1>9, <2>1 DEF Knows, Preparing, WritingPC, Tracked
  <2>5. Settling' BY <1>1, <1>2, <1>3, <2>1, OwnSettling DEF UnsettledPC
  <2> QED BY <1>1, <2>2, <2>3, <2>4, <2>5, OthersStory
<1>10. CASE CreateFile(p)
  <2>1. /\ pc[p] = "create" /\ pc'[p] = "allocate" /\ swapAt = NoFile /\ swapAt' = b
        /\ UNCHANGED <<old, active, inode>> /\ b # NoFile
    BY <1>1, <1>3, <1>10, GotoOthers DEF CreateFile, Stage, NoFile, BackupId
  <2>2. active = {} BY <1>1, <2>1 DEF Shape, InodeId, NoFile
  <2>3. Shape' BY <1>1, <1>2, <1>6, <2>1, <2>2 DEF Shape
  <2>4. Stage(p)' BY <1>1, <1>2, <2>1, <2>2 DEF Stage, Preparing, WritingPC, ExecPC
  <2>5. Knows(p)'
    BY <1>1, <1>2, <1>5, <2>1 DEF Knows, Preparing, WritingPC
  <2>6. "swap" \notin foreign'[b] => Settled(b)'
    BY <1>1, <1>2, <1>3, <1>5, <2>1 DEF Knows, Settled, Retained, Made, Tracked
  <2>7. Settling' BY <1>1, <1>2, <1>3, <2>1, <2>6, OwnSettling
  <2> QED BY <1>1, <2>3, <2>4, <2>5, <2>7, OthersStory
<1>11. ASSUME pc[p] \in {"allocate", "mkswap"}, pc'[p] \in {"mkswap", "swapon"},
              UNCHANGED <<swapAt, old, active>>, Shape'
       PROVE  SwapStory'
  <2>1. Stage(p)' BY <1>1, <1>2, <1>11 DEF Stage, Preparing, WritingPC, ExecPC
  <2>2. Knows(p)' BY <1>11 DEF Knows, Preparing, WritingPC
  <2>3. ASSUME "swap" \notin foreign'[b] PROVE Settled(b)'
    <3>1. Clean(b) BY <1>3, <1>5, <2>3 DEF Clean
    <3>2. Settled(b) BY <1>1, <1>3, <1>6, <1>11, <3>1 DEF Settling, UnsettledPC
    <3> QED BY <1>2, <1>11, <3>2 DEF Settled, Untouched, Retained, Made, Tracked
  <2>4. Settling' BY <1>1, <1>2, <1>3, <1>11, <2>3, OwnSettling
  <2> QED BY <1>1, <1>11, <2>1, <2>2, <2>4, OthersStory
<1>12. CASE Allocate(p)
  <2>1. /\ pc[p] = "allocate" /\ pc'[p] = "mkswap" /\ swapAt # NoFile
        /\ UNCHANGED <<swapAt, old, active>>
        /\ inode' = [inode EXCEPT ![swapAt].size = job[p].size]
    BY <1>1, <1>12, GotoOthers DEF Allocate, Stage
  <2>2. \A i \in InodeId : inode'[i].fmt = inode[i].fmt
    BY <2>1
  <2>3. Shape' BY <1>1, <1>2, <1>6, <2>1, <2>2 DEF Shape
  <2> QED BY <1>11, <2>1, <2>3
<1>13. CASE MkSwap(p)
  <2>1. /\ pc[p] = "mkswap" /\ pc'[p] = "swapon" /\ swapAt # NoFile
        /\ UNCHANGED <<swapAt, old, active>>
        /\ inode' = [inode EXCEPT ![swapAt].fmt = TRUE]
    BY <1>13, GotoOthers DEF MkSwap
  <2>2. inode'[swapAt].fmt /\ \A i \in InodeId : inode[i].fmt => inode'[i].fmt
    BY <2>1
  <2>3. Shape' BY <1>1, <1>2, <1>6, <2>1, <2>2 DEF Shape
  <2> QED BY <1>11, <2>1, <2>3
<1>14. CASE SwapOn(p)
  <2>1. /\ pc[p] = "swapon" /\ pc'[p] = "select" /\ UNCHANGED <<swapAt, old, inode>>
        /\ active' = active \cup {swapAt}
    BY <1>14, GotoOthers DEF SwapOn
  <2>2. Shape' BY <1>1, <1>2, <1>6, <2>1 DEF Shape
  <2>3. Stage(p)' /\ Knows(p)'
    BY <2>1, NothingOnStage DEF StagePC, Preparing, WritingPC, ExecPC
  <2>4. ASSUME "swap" \notin foreign'[b] PROVE Settled(b)'
    <3>1. Clean(b) BY <1>3, <1>5, <2>4 DEF Clean
    <3>2. Settled(b) BY <1>1, <1>3, <1>6, <2>1, <3>1 DEF Settling, UnsettledPC
    <3> QED BY <1>2, <2>1, <3>2 DEF Settled, Untouched, Retained, Made, Tracked
  <2>5. Settling' BY <1>1, <1>2, <1>3, <2>1, <2>4, OwnSettling
  <2> QED BY <1>1, <2>2, <2>3, <2>5, OthersStory
<1> QED BY <1>7, <1>8, <1>9, <1>10, <1>12, <1>13, <1>14

(* What an update of a manifest leaves of its swap part. *)
LEMMA SwapOfManifest ==
  ASSUME NEW m \in Manifest
  PROVE  /\ \A s \in SwapRecord : [m EXCEPT !.swap = s].swap = s
         /\ [m EXCEPT !.swap.oldNamed = TRUE].swap = [m.swap EXCEPT !.oldNamed = TRUE]
         /\ \A s \in Status : [m EXCEPT !.status = s].swap = m.swap
         /\ \A f \in File : \A c, d : Recorded(m, f, c, d).swap = m.swap
         /\ \A f \in File : \A c : Sealed(m, f, c).swap = m.swap
BY DEF Manifest, Recorded, Sealed

(* The two saves that tell about it. *)
LEMMA RecordingStory ==
  ASSUME TypeInv, CurrentInv, Sighted, SwapStory, NEW p \in Proc, Alone(p),
         RecordSwap(p) \/ SaveOldName(p)
  PROVE  SwapStory'
<1> USE DEF TypeInv, TypeOK
<1> DEFINE b == job[p].bid
           o == base[b].swapAt
<1>0. job[p] \in Job /\ job[p].mem \in Manifest BY DEF JobType, Job
<1>1. /\ ReversibleInv /\ Current(p) /\ Local(p) /\ SwapKnown(p) /\ blind = {}
      /\ Shape /\ Settling /\ Stage(p) /\ Knows(p)
  BY DEF CurrentInv, ReversibleInv, SwapStory, Sighted, SwapInv
<1>2. /\ pc[p] \in {"swap-manifest", "retain-save"}
      /\ UNCHANGED <<swapAt, old, cur, inode, active, nextId, base, foreign>>
  BY DEF RecordSwap, SaveOldName, swapVars, histVars
<1>3. /\ b \in BackupId /\ manifest[b].status # "none" /\ manifest[b].status # "rolled-back"
      /\ job[p].mem = manifest[b]
  BY <1>1, <1>2 DEF WorksOnBackup, Local, Current, HoldingPC, PC, ApplyPC, LockedPC, ExecPC
<1>4. o \in base[b].active => o \in InodeId
  BY <1>3 DEF HistoryType, MachineType
<1>5. \A q \in Proc \ {p} : pc[q] = "idle" /\ pc'[q] = "idle" BY <1>1, OthersOffStage
<1>6. ASSUME NEW m \in Manifest, Save(p, m), Keep(p, WithMem(job[p], m)), m.status = manifest[b].status
      PROVE  /\ job'[p].bid = b /\ manifest'[b] = m
             /\ \A c \in BackupId \ {b} : manifest'[c] = manifest[c]
             /\ manifest'[b].status = manifest[b].status
  <2>1. job'[p] = WithMem(job[p], m) BY <1>6, KeepIt
  <2>2. WithMem(job[p], m).bid = b BY <1>0, <1>6, ResultTodo
  <2> QED BY <1>3, <1>6, <2>1, <2>2, SaveAt
<1>7. ASSUME pc'[p] \notin {"rb-unpark", "allocate", "mkswap"} PROVE Shape'
  BY <1>1, <1>2, <1>5, <1>7 DEF Shape
<1>8. CASE RecordSwap(p)
  <2> DEFINE s == [recorded |-> TRUE, existed |-> swapAt # NoFile,
                   wasActive |-> job[p].wasActive, oldNamed |-> FALSE]
             m == [job[p].mem EXCEPT !.swap = s]
  <2>1. /\ pc[p] = "swap-manifest" /\ Save(p, m) /\ Keep(p, WithMem(job[p], m))
        /\ \/ pc'[p] = "swapon" /\ ~job[p].needsNew
           \/ pc'[p] = "swapoff" /\ job[p].wasActive
           \/ pc'[p] = "retain"
    BY <1>8, GotoOthers DEF RecordSwap, WithMem
  <2>2. /\ s \in SwapRecord /\ s.recorded /\ (s.existed <=> swapAt # NoFile)
        /\ (s.wasActive <=> job[p].wasActive)
    BY <1>0 DEF Job, SwapRecord
  <2> HIDE DEF s
  <2>3. m \in Manifest /\ m.status = manifest[b].status /\ m.swap = s
    <3>1. m \in Manifest BY <1>0, <2>2, ManifestUpdates
    <3>2. m.status = manifest[b].status BY <1>0, <1>3, <2>2, StatusParts
    <3>3. m.swap = s BY <1>0, <2>2, SwapOfManifest
    <3> QED BY <3>1, <3>2, <3>3
  <2> HIDE DEF m
  <2>4. job'[p].bid = b /\ manifest'[b].swap = s
        /\ manifest'[b].status = manifest[b].status
        /\ \A c \in BackupId \ {b} : manifest'[c] = manifest[c]
    BY <1>6, <2>1, <2>3
  <2>5. Shape' BY <1>7, <2>1
  <2>6. job[p].wasActive <=> InUse BY <1>1, <2>1 DEF SwapKnown
  <2>7. Stage(p)'
    BY <1>1, <1>2, <2>1, <2>4, <2>6 DEF Stage, Preparing, WritingPC, ExecPC, InUse
  <2>8. ASSUME "swap" \notin foreign[b] PROVE Untouched(b)' /\ Tracked(b)'
    <3>1. Untouched(b) BY <1>1, <1>3, <2>1, <2>8 DEF Knows, Preparing
    <3>2. o \in base[b].active => job[p].wasActive
      BY <1>4, <2>6, <3>1 DEF Untouched, InUse, NoFile, InodeId
    <3> QED BY <1>2, <2>2, <2>4, <3>1, <3>2 DEF Untouched, Tracked
  <2>9. Knows(p)'
    BY <1>2, <2>1, <2>4, <2>8 DEF Knows, Preparing, WritingPC, Untouched
  <2>10. Settling'
    BY <1>1, <1>2, <1>3, <2>4, <2>8, OwnSettling DEF Settled
  <2> QED BY <1>1, <2>5, <2>7, <2>9, <2>10, OthersStory
<1>9. CASE SaveOldName(p)
  <2> DEFINE m == [job[p].mem EXCEPT !.swap.oldNamed = TRUE]
  <2>1. /\ pc[p] = "retain-save" /\ Save(p, m) /\ Keep(p, WithMem(job[p], m))
        /\ pc'[p] = "create"
    BY <1>9, GotoOthers DEF SaveOldName, WithMem
  <2>2. m \in Manifest /\ m.status = manifest[b].status
        /\ m.swap = [manifest[b].swap EXCEPT !.oldNamed = TRUE]
    BY <1>0, <1>3, ManifestUpdates, StatusParts, SwapOfManifest
  <2> HIDE DEF m
  <2>3. job'[p].bid = b /\ manifest'[b].swap = [manifest[b].swap EXCEPT !.oldNamed = TRUE]
        /\ manifest'[b].status = manifest[b].status
        /\ \A c \in BackupId \ {b} : manifest'[c] = manifest[c]
    BY <1>6, <2>1, <2>2
  <2>4. manifest[b].swap \in SwapRecord BY <1>0, <1>3 DEF Manifest
  <2>5. Shape' BY <1>7, <2>1
  <2>6. Stage(p)'
    BY <1>1, <1>2, <2>1, <2>3 DEF Stage, Preparing, WritingPC, ExecPC
  <2>7. "swap" \notin foreign[b] => Retained(b)'
    BY <1>1, <1>2, <1>3, <2>1, <2>3, <2>4 DEF Knows, Retained, Tracked, SwapRecord
  <2>8. Knows(p)'
    BY <1>2, <2>1, <2>3, <2>7 DEF Knows, Preparing, WritingPC
  <2>9. Settling'
    BY <1>1, <1>2, <1>3, <2>3, <2>7, OwnSettling DEF Settled
  <2> QED BY <1>1, <2>5, <2>6, <2>8, <2>9, OthersStory
<1> QED BY <1>8, <1>9

(* A backup begins with the swap file as it finds it. *)
LEMMA BeginningStory ==
  ASSUME TypeInv, CurrentInv, Sighted, SwapStory, NEW p \in Proc, Alone(p),
         Begin(p) \/ SafetySnapshot(p)
  PROVE  SwapStory'
<1> USE DEF TypeInv, TypeOK, RecordsType, HistoryType
<1>0. job[p] \in Job BY DEF JobType
<1>1. /\ ReversibleInv /\ SwapKnown(p) /\ Shape /\ Settling
  BY DEF CurrentInv, SwapStory, Sighted, SwapInv
<1>2. /\ pc[p] \in {"begin", "rb-snapshot"} /\ NewManifest
      /\ UNCHANGED <<swapAt, old, cur, inode, active>>
  BY DEF Begin, SafetySnapshot, swapVars
<1>3. PICK b \in BackupId : b = nextId BY <1>2 DEF NewManifest
<1>4. /\ nextId' = b + 1 /\ UNCHANGED foreign
      /\ manifest'[b] = EmptyManifest /\ base'[b] = Machine
      /\ \A c \in BackupId \ {b} : manifest'[c] = manifest[c] /\ base'[c] = base[c]
  BY <1>2, <1>3 DEF NewManifest
<1>5. \A q \in Proc \ {p} : pc[q] = "idle" /\ pc'[q] = "idle" BY <1>1, OthersOffStage
<1>6. pc'[p] \in {"check-swap", "record", "rb-plan"}
  BY GotoOthers DEF Begin, SafetySnapshot
<1>7. Shape' BY <1>1, <1>2, <1>3, <1>4, <1>5, <1>6 DEF Shape, BackupId
<1>8. Untouched(b)'
  BY <1>1, <1>2, <1>3, <1>4 DEF Untouched, Shape, Machine, EmptyManifest, NoManifest, NoSwap, BackupId
<1>9. Settling'
  <2> SUFFICES ASSUME NEW c \in BackupId, Clean(c)'
               PROVE  Settled(c)' /\ (manifest'[c].status = "rolled-back" => Untouched(c)')
    BY DEF Settling
  <2>1. CASE c = b BY <1>8, <2>1 DEF Settled
  <2>2. CASE c # b
    <3>1. Clean(c) BY <1>3, <1>4, <2>2 DEF Clean
    <3>2. Settled(c) /\ (manifest[c].status = "rolled-back" => Untouched(c))
      BY <1>1, <1>2, <1>5, <3>1 DEF Settling, UnsettledPC
    <3> QED BY <1>2, <1>3, <1>4, <2>2, <3>2 DEF Settled, Untouched, Retained, Made, Tracked
  <2> QED BY <2>1, <2>2
<1>10. Stage(p)' /\ Knows(p)'
  <2>1. CASE pc'[p] = "check-swap"
    <3>1. job'[p].bid = b
      <4>1. Keep(p, WithBackup(job[p], b, EmptyManifest))
        BY <1>3, <2>1, GotoOthers DEF Begin, SafetySnapshot, WithBackup
      <4>2. job'[p] = WithBackup(job[p], b, EmptyManifest) BY <4>1, KeepIt
      <4> QED BY <1>0, <4>2 DEF WithBackup, Job
    <3>2. old[b] = NoFile /\ cur[b] = NoFile BY <1>1, <1>3, <1>4 DEF Shape, BackupId
    <3> QED BY <1>2, <1>8, <2>1, <3>1, <3>2 DEF Stage, Knows, Preparing, WritingPC, ExecPC
  <2>2. CASE pc'[p] = "record"
    <3>1. pc[p] = "begin" /\ job[p].size = 0
          /\ Keep(p, WithBackup(job[p], b, EmptyManifest))
      BY <1>3, <2>2, GotoOthers DEF Begin, SafetySnapshot, WithBackup
    <3>2. job'[p] = WithBackup(job[p], b, EmptyManifest) BY <3>1, KeepIt
    <3>3. job'[p].file = "resume" BY <1>0, <1>1, <3>1, <3>2, SwapParts DEF SwapKnown
    <3> QED BY <2>2, <3>3, NothingOnStage DEF StagePC, Preparing, ExecPC
  <2>3. CASE pc'[p] = "rb-plan"
    BY <2>3, NothingOnStage DEF StagePC, Preparing, ExecPC, WritingPC
  <2> QED BY <1>6, <2>1, <2>2, <2>3
<1> QED BY <1>1, <1>7, <1>9, <1>10, OthersStory

(* No command is refused and no action fails by itself. *)
LEMMA NothingFails ==
  ASSUME TypeInv, CurrentInv, SwapStory, NEW p \in Proc, Alone(p), UNCHANGED faults
  PROVE  ~SwapCommandFails(p) /\ ~ActionFails(p)
<1> USE DEF TypeInv, TypeOK
<1>1. /\ ReversibleInv /\ Shape /\ Stage(p) /\ ~Fault
  BY DEF CurrentInv, SwapStory, Fault, Faulty, EnvType
<1>2. \A q \in Proc \ {p} : pc[q] = "idle" BY <1>1, OthersOffStage
<1>3. ASSUME SwapCommandFails(p) PROVE FALSE
  <2>1. CommandRefused(p) BY <1>1, <1>3 DEF SwapCommandFails
  <2>2. pc[p] = "swapon" => inode[swapAt].fmt
    BY <1>1, <1>2 DEF Shape, Stage
  <2> QED BY <1>1, <2>1, <2>2 DEF CommandRefused, Stage
<1>4. ASSUME ActionFails(p) PROVE FALSE
  <2>1. pc[p] = "rb-swapon" => inode[swapAt].fmt
    BY <1>1, <1>2 DEF Shape, Stage
  <2> QED BY <1>1, <1>4, <2>1 DEF ActionFails, Stage
<1> QED BY <1>3, <1>4

(* The plan, and the swap actions of it. *)
LEMMA RestoringStory ==
  ASSUME TypeInv, CurrentInv, TraceInv, Sighted, SwapStory, NEW p \in Proc, Alone(p),
         UNCHANGED faults,
         \/ PlanRollback(p) \/ SwapRollbackBegins(p) \/ ParkCurrent(p) \/ RestoreOld(p)
         \/ SwapBackOn(p) \/ UnlinkSwap(p)
  PROVE  SwapStory'
<1> USE DEF TypeInv, TypeOK
<1> DEFINE b == job[p].bid
           o == base[b].swapAt
           T == job[p].todo
           r == manifest[b].swap
<1>0. job[p] \in Job /\ T \in SUBSET Action BY DEF JobType, Job
<1>1. /\ ReversibleInv /\ Current(p) /\ Local(p) /\ SwapKnown(p) /\ blind = {} /\ Tracing(p)
      /\ Shape /\ Settling /\ Stage(p) /\ Knows(p)
  BY DEF CurrentInv, ReversibleInv, SwapStory, Sighted, SwapInv, TraceInv
<1>2. /\ pc[p] \in {"rb-plan"} \cup ExecPC /\ UNCHANGED <<inode, nextId, base>>
      /\ Disturb(b, "swap") \/ UNCHANGED <<swapAt, old, active, foreign>>
  BY DEF PlanRollback, SwapRollbackBegins, Doing, ParkCurrent, RestoreOld, SwapBackOn, UnlinkSwap,
         ExecPC, swapVars, recVars, histVars
<1>3. /\ b \in BackupId /\ manifest[b].status # "none" /\ manifest[b].status # "rolled-back"
      /\ job[p].mem = manifest[b] /\ manifest[b] \in Manifest
  BY <1>1, <1>2 DEF WorksOnBackup, Local, Current, HoldingPC, PC, ApplyPC, LockedPC, ExecPC,
                    RecordsType
<1>4. UNCHANGED manifest
  <2>1. UNCHANGED manifest \/ manifest' = [manifest EXCEPT ![b] = manifest[b]]
    BY <1>3 DEF PlanRollback, SwapRollbackBegins, ParkCurrent, RestoreOld, SwapBackOn, UnlinkSwap,
       recVars, Save
  <2> QED BY <2>1 DEF RecordsType
<1>5. foreign'[b] = foreign[b] /\ job'[p].bid = b
  <2>1. foreign'[b] = foreign[b] BY <1>2, <1>3 DEF Disturb, HistoryType
  <2> DEFINE t == BuildPlan(manifest[b], disk, dirs, old[b] # NoFile, swapAt # NoFile)
  <2>2. \A j \in Job : WithPlan(j, manifest[b], t).bid = j.bid BY DEF Job, WithPlan
  <2>3. \/ UNCHANGED job \/ Keep(p, WithPlan(job[p], manifest[b], t))
        \/ Keep(p, WithMem(job[p], manifest[b]))
        \/ Keep(p, Succeeded(job[p])) \/ Keep(p, Failed(job[p]))
    BY DEF PlanRollback, SwapRollbackBegins, ParkCurrent, RestoreOld, SwapBackOn, UnlinkSwap,
       WithPlan, WithMem
  <2> HIDE DEF t
  <2> QED BY <1>0, <1>3, <2>1, <2>2, <2>3, ResultTodo, KeepIt
<1>6. \A q \in Proc \ {p} : pc[q] = "idle" /\ pc'[q] = "idle" BY <1>1, OthersOffStage
<1>7. o \in base[b].active => o \in InodeId BY <1>3 DEF HistoryType, MachineType
<1>8. /\ "restore-old-swap" \in SwapAction /\ "remove-swap" \in SwapAction
      /\ \A a \in SwapAction : a = "restore-old-swap" \/ a = "remove-swap"
  BY DEF SwapAction
<1>9. pc[p] \in ExecPC \ {"rb-exec"} => Next1(p) \in T
  BY <1>0, <1>1, FirstOfPlan DEF Tracing, Next1
<1> USE DEF SwapType
<1>10. CASE PlanRollback(p)
  <2> DEFINE t == BuildPlan(manifest[b], disk, dirs, old[b] # NoFile, swapAt # NoFile)
  <2>1. /\ pc[p] = "rb-plan" /\ pc'[p] = "rb-exec" /\ Keep(p, WithPlan(job[p], manifest[b], t))
        /\ UNCHANGED <<swapAt, old, cur, active>>
    BY <1>10, GotoOthers DEF PlanRollback, WithPlan, swapVars
  <2>2. /\ t \in SUBSET Action
        /\ "restore-old-swap" \in t <=> r.recorded /\ r.existed /\ r.oldNamed /\ old[b] # NoFile
        /\ "remove-swap" \in t <=> r.recorded /\ ~r.existed /\ swapAt # NoFile
    <3>1. t \in SUBSET Action BY PlanType
    <3>2. /\ "restore-old-swap" \in t
               <=> manifest[b].swap.recorded /\ manifest[b].swap.existed
                     /\ manifest[b].swap.oldNamed /\ old[b] # NoFile
          /\ "remove-swap" \in t
               <=> manifest[b].swap.recorded /\ ~manifest[b].swap.existed /\ swapAt # NoFile
      BY DEF BuildPlan, SwapWillRun, DirWillRun, PostWillRun, DirAction, File
    <3> QED BY <3>1, <3>2
  <2> HIDE DEF t
  <2>3. job'[p].todo = t /\ job'[p].bid = b
    <3>1. \A j \in Job : WithPlan(j, manifest[b], t).todo = t
                         /\ WithPlan(j, manifest[b], t).bid = j.bid
      BY DEF Job, WithPlan
    <3> QED BY <1>0, <2>1, <3>1, KeepIt
  <2>4. Shape' BY <1>1, <1>2, <1>6, <2>1 DEF Shape
  <2>5. Stage(p)' BY <1>4, <2>1, <2>2, <2>3 DEF Stage, Preparing, WritingPC, ExecPC
  <2>6. ASSUME "swap" \notin foreign[b] PROVE Settled(b)
    <3>1. Clean(b) BY <1>3, <2>6 DEF Clean
    <3> QED BY <1>1, <1>3, <1>6, <2>1, <3>1 DEF Settling, UnsettledPC
  <2>7. ASSUME "swap" \notin foreign[b]
        PROVE  /\ "restore-old-swap" \in t => Retained(b)
               /\ "remove-swap" \in t => Made(b)
               /\ SwapAction \cap t = {} => Untouched(b)
    BY <1>8, <2>2, <2>6, <2>7 DEF Settled, Untouched, Retained, Made, Tracked
  <2>8. Knows(p)'
    BY <1>2, <1>4, <1>5, <2>1, <2>3, <2>7
       DEF Knows, Preparing, WritingPC, Untouched, Retained, Made, Tracked
  <2>9. "swap" \notin foreign'[b] => Settled(b)'
    BY <1>2, <1>4, <1>5, <2>1, <2>6 DEF Settled, Untouched, Retained, Made, Tracked
  <2>10. Settling'
    BY <1>1, <1>2, <1>3, <1>4, <1>5, <2>1, <2>9, OwnSettling
       DEF Settled, Untouched, Retained, Made, Tracked
  <2> QED BY <1>1, <2>4, <2>5, <2>8, <2>10, OthersStory
<1>11. CASE SwapRollbackBegins(p)
  <2>1. /\ pc[p] = "rb-exec" /\ T # {} /\ Next1(p) \in SwapAction /\ Next1(p) \in T
        /\ UNCHANGED <<swapAt, old, cur>>
    BY <1>0, <1>11, FirstOfPlan DEF SwapRollbackBegins, Doing, Next1
  <2>2. ~(Next1(p) = "restore-old-swap" /\ old[b] = NoFile)
    BY <1>1, <2>1 DEF Stage
  <2>3. /\ active' = active \ {swapAt} /\ Keep(p, WithMem(job[p], manifest[b]))
        /\ \/ Next1(p) = "restore-old-swap" /\ pc'[p] = "rb-park"
           \/ Next1(p) = "remove-swap" /\ pc'[p] = "rb-unlink"
    <3>1. PICK misread \in BOOLEAN :
            /\ Reading(b, misread)
            /\ active' = IF SwapActive(misread) THEN active \ {swapAt} ELSE active
      BY <1>11, <2>2 DEF SwapRollbackBegins
    <3>2. active' = active \ {swapAt}
      <4>1. active' = IF InUse THEN active \ {swapAt} ELSE active
        BY <3>1, ReadRightly DEF SwapActive
      <4> QED BY <4>1 DEF InUse, SwapType, InodeId, NoFile
    <3>3. Keep(p, WithMem(job[p], manifest[b]))
          /\ Goto(p, IF Next1(p) = "restore-old-swap" THEN "rb-park" ELSE "rb-unlink")
      BY <1>11, <2>2 DEF SwapRollbackBegins, WithMem
    <3> QED BY <1>8, <2>1, <3>2, <3>3, GotoOthers
  <2>4. job'[p].todo = T /\ job'[p].bid = b BY <1>0, <1>3, <2>3, ResultTodo, KeepIt
  <2>5. Shape' BY <1>1, <1>2, <1>6, <2>1, <2>3 DEF Shape
  <2>6. Stage(p)'
    BY <1>1, <1>4, <2>1, <2>2, <2>3, <2>4 DEF Stage, Preparing, WritingPC, ExecPC, Next1
  <2>7. "swap" \notin foreign[b] =>
          /\ pc'[p] = "rb-park" => Retained(b)
          /\ pc'[p] = "rb-unlink" => Made(b)
    BY <1>1, <1>3, <1>5, <2>1, <2>3 DEF Knows, Retained, Made, Tracked
  <2>8. Knows(p)'
    BY <1>2, <1>4, <1>5, <2>1, <2>3, <2>4, <2>7
       DEF Knows, Preparing, WritingPC, Retained, Made, Tracked
  <2>9. Settling' BY <1>1, <1>2, <1>3, <1>4, <2>1, <2>3, <2>4, OwnSettling DEF UnsettledPC
  <2> QED BY <1>1, <2>5, <2>6, <2>8, <2>9, OthersStory
<1>12. CASE ParkCurrent(p)
  <2>1. /\ pc[p] = "rb-park" /\ pc'[p] = "rb-unpark" /\ UNCHANGED <<old, active, job>>
        /\ IF swapAt # NoFile THEN cur' = [cur EXCEPT ![b] = swapAt] /\ swapAt' = NoFile
                              ELSE UNCHANGED <<cur, swapAt>>
    BY <1>12, GotoOthers DEF ParkCurrent
  <2>2. swapAt' = NoFile /\ \A c \in BackupId \ {b} : cur'[c] = cur[c]
    BY <2>1
  <2>3. active = {} BY <1>1, <2>1 DEF Shape, SwapKnown, InUse, InodeId, NoFile
  <2>4. ~(b >= nextId) /\ \A c \in BackupId \ {b} : ~(old[c] # NoFile /\ cur[c] # NoFile)
    BY <1>1, <1>3, <1>6, <2>1 DEF ReversibleInv, RecordInv, Begun, Shape
  <2>8. Shape' BY <1>1, <1>2, <2>1, <2>2, <2>3, <2>4 DEF Shape
  <2>5. Stage(p)'
    BY <1>1, <1>4, <2>1, <2>2 DEF Stage, Preparing, WritingPC, ExecPC, Next1
  <2>6. Knows(p)'
    BY <1>1, <1>2, <1>3, <1>4, <1>5, <2>1 DEF Knows, Preparing, WritingPC, Retained, Tracked
  <2>7. Settling' BY <1>1, <1>2, <1>3, <1>4, <2>1, OwnSettling DEF UnsettledPC
  <2> QED BY <1>1, <2>5, <2>6, <2>7, <2>8, OthersStory
<1>13. ASSUME pc'[p] = "rb-exec", Keep(p, Succeeded(job[p])), SwapAction \cap T = {Next1(p)},
              UNCHANGED cur, Shape',
              "swap" \notin foreign[b] => Untouched(b)',
              \A c \in BackupId \ {b} : old'[c] = old[c]
       PROVE  SwapStory'
  <2>1. job'[p].todo = T \ {Next1(p)} /\ job'[p].bid = b
    BY <1>0, <1>3, <1>13, ResultTodo, KeepIt DEF Next1
  <2>2. SwapAction \cap job'[p].todo = {} BY <1>13, <2>1
  <2>3. Stage(p)' BY <1>8, <1>13, <2>2 DEF Stage, Preparing, WritingPC
  <2>4. Knows(p)' BY <1>5, <1>8, <1>13, <2>1, <2>2 DEF Knows, Preparing, WritingPC
  <2>5. Settling' BY <1>1, <1>2, <1>3, <1>4, <1>5, <1>13, OwnSettling DEF Settled
  <2> QED BY <1>1, <1>13, <2>3, <2>4, <2>5, OthersStory
<1>14. pc[p] \in {"rb-park", "rb-unpark", "rb-swapon", "rb-unlink"}
         => SwapAction \cap T = {Next1(p)}
  BY <1>1, <1>8, <1>9 DEF Stage, ExecPC
<1>15. CASE RestoreOld(p)
  <2>1. /\ pc[p] = "rb-unpark" /\ old[b] # NoFile /\ swapAt' = old[b]
        /\ old' = [old EXCEPT ![b] = NoFile] /\ UNCHANGED <<cur, active>>
    BY <1>15 DEF RestoreOld
  <2>2. swapAt = NoFile /\ active = {}
    BY <1>1, <2>1 DEF Stage, Shape, InodeId, NoFile
  <2>3. old'[b] = NoFile /\ \A c \in BackupId \ {b} : old'[c] = old[c] BY <1>3, <2>1
  <2>4. inode[old[b]].fmt BY <1>1, <1>3, <2>1 DEF Shape
  <2>5. Shape' BY <1>1, <1>2, <1>3, <1>6, <2>1, <2>2, <2>3, <2>4 DEF Shape
  <2>6. "swap" \notin foreign[b] => Retained(b) BY <1>1, <1>3, <2>1 DEF Knows
  <2>7. CASE r.wasActive
    <3>1. pc'[p] = "rb-swapon" /\ UNCHANGED job
      BY <1>3, <1>15, <2>7, GotoOthers DEF RestoreOld
    <3>2. Stage(p)'
      BY <1>1, <1>4, <2>1, <2>2, <3>1 DEF Stage, Preparing, WritingPC, ExecPC, Next1
    <3>3. Knows(p)'
      BY <1>2, <1>4, <1>5, <2>1, <2>3, <2>6, <3>1 DEF Knows, Preparing, WritingPC, Retained, Tracked
    <3>4. Settling' BY <1>1, <1>2, <1>3, <1>4, <2>3, <3>1, OwnSettling DEF UnsettledPC
    <3> QED BY <1>1, <2>5, <3>2, <3>3, <3>4, OthersStory
  <2>8. CASE ~r.wasActive
    <3>1. pc'[p] = "rb-exec" /\ Keep(p, Succeeded(job[p]))
      BY <1>3, <1>15, <2>8, GotoOthers DEF RestoreOld
    <3>2. "swap" \notin foreign[b] => Untouched(b)'
      BY <1>2, <1>4, <1>5, <2>1, <2>3, <2>6, <2>8 DEF Untouched, Retained, Tracked
    <3> QED BY <1>13, <1>14, <2>1, <2>3, <2>5, <3>1, <3>2
  <2> QED BY <2>7, <2>8
<1>16. CASE SwapBackOn(p)
  <2>1. /\ pc[p] = "rb-swapon" /\ pc'[p] = "rb-exec" /\ Keep(p, Succeeded(job[p]))
        /\ active' = active \cup {swapAt} /\ UNCHANGED <<swapAt, old, cur>>
    BY <1>16, GotoOthers DEF SwapBackOn
  <2>2. Shape' BY <1>1, <1>2, <1>6, <2>1 DEF Shape
  <2>3. "swap" \notin foreign[b] => Untouched(b)'
    BY <1>1, <1>2, <1>3, <1>4, <1>5, <2>1 DEF Knows, Untouched, Tracked
  <2> QED BY <1>13, <1>14, <2>1, <2>2, <2>3
<1>17. CASE UnlinkSwap(p)
  <2>1. /\ pc[p] = "rb-unlink" /\ pc'[p] = "rb-exec" /\ Keep(p, Succeeded(job[p]))
        /\ swapAt' = NoFile /\ UNCHANGED <<active, old, cur>>
    BY <1>17, GotoOthers DEF UnlinkSwap
  <2>2. active = {} BY <1>1, <2>1 DEF Shape, SwapKnown, InUse, InodeId, NoFile
  <2>3. Shape' BY <1>1, <1>2, <1>6, <2>1, <2>2 DEF Shape
  <2>4. "swap" \notin foreign[b] => Untouched(b)'
    BY <1>1, <1>2, <1>3, <1>4, <1>5, <1>7, <2>1 DEF Knows, Untouched, Tracked, InodeId, NoFile
  <2> QED BY <1>13, <1>14, <2>1, <2>3, <2>4
<1> QED BY <1>10, <1>11, <1>12, <1>15, <1>16, <1>17

(* A step that leaves the swap file and what is recorded of it alone, and  *)
(* says "rolled-back" of a backup only when its swap file is as it found   *)
(* it.                                                                     *)
SwapLeftAlone ==
  /\ UNCHANGED <<swapAt, old, cur, inode, active, nextId, base>>
  /\ \A c \in BackupId :
       /\ foreign[c] \subseteq foreign'[c]
       /\ manifest'[c].swap = manifest[c].swap
       /\ manifest'[c].status # "none" => manifest[c].status # "none"
       /\ manifest'[c].status = "rolled-back" /\ "swap" \notin foreign[c]
            => manifest[c].status = "rolled-back" \/ Untouched(c)

(* Where such a step of p may lead: off the stage, on to the record of the *)
(* swap file, or on with the plan.                                         *)
StaysOnStage(p) ==
  \/ pc'[p] \notin StagePC /\ ~Preparing(p)'
  \/ /\ Preparing(p) /\ Preparing(p)' /\ pc'[p] # "check-swap"
     /\ job'[p].bid = job[p].bid /\ (job'[p].needsNew \/ swapAt # NoFile)
  \/ /\ pc[p] = "rb-exec" /\ pc'[p] = "rb-exec" /\ job'[p].bid = job[p].bid
     /\ \A a \in SwapAction : a \in job'[p].todo <=> a \in job[p].todo

QuietStep(p) ==
  SwapLeftAlone /\ StaysOnStage(p) /\ pc[p] \notin UnsettledPC \cup {"allocate", "mkswap"}

LEMMA LeftAloneStory ==
  ASSUME TypeInv, ReversibleInv, SwapStory, NEW p \in Proc, Alone(p), QuietStep(p)
  PROVE  SwapStory'
<1> USE DEF QuietStep, SwapLeftAlone
<1>1. Shape /\ Settling /\ Stage(p) /\ Knows(p) BY DEF SwapStory
<1>2. \A q \in Proc \ {p} : pc[q] = "idle" /\ pc'[q] = "idle" BY OthersOffStage
<1>3. Shape' BY <1>1, <1>2 DEF Shape, UnsettledPC
<1>4. \A c \in BackupId : /\ Untouched(c) => Untouched(c)'
                          /\ Retained(c) => Retained(c)'
                          /\ Made(c) => Made(c)'
  BY DEF Untouched, Retained, Made, Tracked
<1>5. Settling'
  <2> SUFFICES ASSUME NEW c \in BackupId, Clean(c)'
               PROVE  Settled(c)' /\ (manifest'[c].status = "rolled-back" => Untouched(c)')
    BY DEF Settling
  <2>1. Clean(c) BY DEF Clean
  <2>2. Settled(c) /\ (manifest[c].status = "rolled-back" => Untouched(c))
    BY <1>1, <1>2, <2>1 DEF Settling, UnsettledPC
  <2> QED BY <1>4, <2>1, <2>2 DEF Settled, Clean
<1>6. Stage(p)' /\ Knows(p)'
  <2> DEFINE b == job[p].bid
  <2>1. CASE pc'[p] \notin StagePC /\ ~Preparing(p)' BY <2>1, NothingOnStage
  <2>2. CASE /\ Preparing(p) /\ Preparing(p)' /\ pc'[p] # "check-swap" /\ job'[p].bid = b
             /\ (job'[p].needsNew \/ swapAt # NoFile)
    <3>1. pc'[p] \in {"swap-manifest"} \cup WritingPC BY <2>2 DEF Preparing
    <3>2. Stage(p)' BY <1>1, <2>2, <3>1 DEF Stage, WritingPC, ExecPC
    <3>3. Knows(p)'
      BY <1>1, <2>2, <3>1 DEF Knows, WritingPC, Untouched
    <3> QED BY <3>2, <3>3
  <2>3. CASE /\ pc[p] = "rb-exec" /\ pc'[p] = "rb-exec" /\ job'[p].bid = b
             /\ \A a \in SwapAction : a \in job'[p].todo <=> a \in job[p].todo
    <3>1. b \in BackupId BY <2>3 DEF TypeInv, WorksOnBackup
    <3>2. /\ "restore-old-swap" \in job'[p].todo <=> "restore-old-swap" \in job[p].todo
          /\ "remove-swap" \in job'[p].todo <=> "remove-swap" \in job[p].todo
          /\ SwapAction \cap job'[p].todo = {} => SwapAction \cap job[p].todo = {}
      BY <2>3 DEF SwapAction
    <3>3. Stage(p)'
      BY <1>1, <3>1, <2>3, <3>2 DEF Stage, Preparing, WritingPC, ExecPC
    <3>4. Knows(p)'
      BY <1>1, <2>3, <3>2 DEF Knows, Preparing, WritingPC, Untouched, Retained, Made, Tracked
    <3> QED BY <3>3, <3>4
  <2> QED BY <2>1, <2>2, <2>3 DEF StaysOnStage
<1> QED BY <1>3, <1>5, <1>6, OthersStory

(* A manifest is saved with the swap part it had. *)
LEMMA QuietSave ==
  ASSUME TypeOK, NEW p \in Proc, job[p].bid \in BackupId,
         manifest[job[p].bid].status # "none",
         NEW m, Save(p, m), m.swap = manifest[job[p].bid].swap,
         UNCHANGED <<swapAt, old, cur, inode, active, nextId, base, foreign>>,
         m.status = "rolled-back" /\ "swap" \notin foreign[job[p].bid]
           => manifest[job[p].bid].status = "rolled-back" \/ Untouched(job[p].bid)
  PROVE  SwapLeftAlone
<1>1. /\ manifest'[job[p].bid] = m
      /\ \A c \in BackupId \ {job[p].bid} : manifest'[c] = manifest[c]
  BY SaveAt DEF TypeOK
<1> QED BY <1>1 DEF SwapLeftAlone

(* The steps of an apply that do not touch the swap file. *)
LEMMA QuietApply ==
  ASSUME TypeInv, CurrentInv, SwapStory, NEW p \in Proc, Alone(p),
         \/ Start(p) \/ ValidateTarget(p) \/ BeginFails(p) \/ CheckSwap(p) \/ RecordBefore(p)
         \/ WriteFile(p) \/ RecordAfter(p) \/ SelectTarget(p) \/ UpdateInitramfs(p)
         \/ UpdateGrub(p) \/ FinishApply(p)
  PROVE  QuietStep(p)
<1> USE DEF TypeInv, TypeOK
<1> DEFINE b == job[p].bid
           f == job[p].file
<1>0. job[p] \in Job /\ job[p].mem \in Manifest /\ f \in File /\ job[p].want \in Content
  BY DEF JobType, Job
<1>1. ReversibleInv /\ Current(p) /\ Local(p) /\ Stage(p)
  BY DEF CurrentInv, ReversibleInv, SwapStory
<1>2. UNCHANGED <<swapAt, old, cur, inode, active, nextId, base>>
  BY DEF Start, StartTargetApply, StartSwapApply, StartRollback, ValidateTarget, BeginFails,
     CheckSwap, RecordBefore, WriteFile, RecordAfter, SelectTarget, UpdateInitramfs, UpdateGrub,
     FinishApply, swapVars, recVars, histVars
<1>3. pc[p] \notin UnsettledPC \cup {"allocate", "mkswap"}
  BY DEF Start, StartTargetApply, StartSwapApply, StartRollback, CanStart, ValidateTarget,
     BeginFails, CheckSwap, RecordBefore, WriteFile, RecordAfter, SelectTarget, UpdateInitramfs,
     UpdateGrub, FinishApply, UnsettledPC
<1>4. pc[p] \in HoldingPC
        => /\ b \in BackupId /\ job[p].mem = manifest[b]
           /\ manifest[b].status # "none" /\ manifest[b].status # "rolled-back"
  BY <1>1 DEF WorksOnBackup, Local, Current, HoldingPC
<1>5. ASSUME SwapLeftAlone, StaysOnStage(p) PROVE QuietStep(p)
  BY <1>3, <1>5 DEF QuietStep
<1>6. ASSUME UNCHANGED manifest, \A c \in BackupId : foreign[c] \subseteq foreign'[c]
      PROVE  SwapLeftAlone
  BY <1>2, <1>6 DEF SwapLeftAlone
<1>7. ASSUME Exit(p) \/ \E l \in PC \ (StagePC \cup WritingPC) : Goto(p, l) PROVE StaysOnStage(p)
  <2>1. pc'[p] = "idle" \/ pc'[p] \in PC \ (StagePC \cup WritingPC)
    BY <1>7, GotoOthers DEF Exit
  <2> QED BY <2>1 DEF StaysOnStage, StagePC, Preparing, ExecPC, WritingPC
<1>8. CASE Start(p) \/ ValidateTarget(p) \/ BeginFails(p) \/ UpdateInitramfs(p) \/ UpdateGrub(p)
  <2>1. SwapLeftAlone
    BY <1>6, <1>8 DEF Start, StartTargetApply, StartSwapApply, StartRollback, ValidateTarget,
       BeginFails, UpdateInitramfs, UpdateGrub, recVars, histVars
  <2>2. Exit(p) \/ \E l \in {"validate", "begin", "rb-lock", "update-grub", "complete",
                             "mark-failed"} : Goto(p, l)
    BY <1>8 DEF Start, StartTargetApply, StartSwapApply, StartRollback, ValidateTarget,
       BeginFails, UpdateInitramfs, UpdateGrub
  <2>3. StaysOnStage(p) BY <1>7, <2>2 DEF PC, ApplyPC, StagePC, ExecPC, WritingPC
  <2> QED BY <1>5, <2>1, <2>3
<1>9. CASE CheckSwap(p)
  <2>1. SwapLeftAlone BY <1>6, <1>9 DEF CheckSwap, recVars, histVars
  <2>2. CASE Exit(p) BY <1>5, <1>7, <2>1, <2>2
  <2>3. CASE ~Exit(p)
    <3> DEFINE n == swapAt = NoFile \/ inode[swapAt].size # job[p].size
               c == WithEntry(disk["fstab"])
    <3>1. PICK a : /\ pc[p] = "check-swap" /\ Keep(p, Checked(job[p], n, a, "fstab", c))
                   /\ pc'[p] = "swap-manifest" \/ pc'[p] = "record"
      BY <1>9, <2>3, GotoOthers DEF CheckSwap, Checked
    <3>2. swapAt = NoFile => n OBVIOUS
    <3>3. n \in BOOLEAN OBVIOUS
    <3> HIDE DEF n, c
    <3>4. job'[p] = Checked(job[p], n, a, "fstab", c) BY <3>1, KeepIt
    <3>5. job'[p].bid = b /\ job'[p].file = "fstab" /\ job'[p].needsNew = n
      BY <1>0, <3>4 DEF Checked, Job
    <3>6. StaysOnStage(p)
      BY <3>1, <3>2, <3>5 DEF StaysOnStage, Preparing, WritingPC
    <3> QED BY <1>5, <2>1, <3>6
  <2> QED BY <2>2, <2>3
<1>10. ASSUME pc[p] \in WritingPC, pc'[p] \in WritingPC \/ pc'[p] = "swap-manifest",
              job'[p].bid = b, job'[p].needsNew = job[p].needsNew,
              \/ f = "fstab" /\ (job'[p].file = "fstab" \/ pc'[p] = "swap-manifest")
              \/ f # "fstab" /\ job'[p].file # "fstab" /\ pc'[p] # "swap-manifest"
       PROVE  StaysOnStage(p)
  BY <1>1, <1>10 DEF StaysOnStage, Stage, Preparing, WritingPC, StagePC, ExecPC
<1>11. \A m, g : /\ WithMem(job[p], m).needsNew = job[p].needsNew
                 /\ WithNextFile(job[p], m, g).needsNew = job[p].needsNew
                 /\ WithMem(job[p], m).bid = b /\ WithNextFile(job[p], m, g).bid = b
                 /\ WithMem(job[p], m).file = f /\ WithNextFile(job[p], m, g).file = g
  BY <1>0 DEF Job, WithMem, WithNextFile
<1>12. ASSUME NEW m, Save(p, m), pc[p] \in HoldingPC, m.swap = manifest[b].swap,
              m.status # "rolled-back", UNCHANGED foreign
       PROVE  SwapLeftAlone
  BY <1>2, <1>4, <1>12, QuietSave
<1>13. CASE RecordBefore(p)
  <2> DEFINE m == Recorded(job[p].mem, f, disk[f], ({f} \cap DirFile) \ dirs)
  <2>1. /\ Save(p, m) /\ Keep(p, WithMem(job[p], m)) /\ pc[p] = "record" /\ pc'[p] = "write"
        /\ UNCHANGED foreign
    BY <1>13, GotoOthers DEF RecordBefore, WithMem, histVars
  <2>2. m.swap = job[p].mem.swap /\ m.status = job[p].mem.status
    BY <1>0, SwapOfManifest, RecordedParts
  <2> HIDE DEF m
  <2>3. pc[p] \in HoldingPC BY <2>1 DEF HoldingPC, PC, ApplyPC
  <2>4. SwapLeftAlone BY <1>4, <1>12, <2>1, <2>2, <2>3
  <2>5. job'[p] = WithMem(job[p], m) BY <2>1, KeepIt
  <2>6. StaysOnStage(p) BY <1>10, <1>11, <2>1, <2>5 DEF WritingPC
  <2> QED BY <1>5, <2>4, <2>6
<1>14. CASE WriteFile(p)
  <2>1. /\ pc[p] = "write" /\ pc'[p] = "seal" /\ UNCHANGED <<job, manifest>> /\ Disturb(b, f)
    BY <1>14, GotoOthers DEF WriteFile, recVars
  <2>2. SwapLeftAlone BY <1>6, <2>1, DisturbGrows
  <2>3. StaysOnStage(p) BY <1>10, <2>1 DEF WritingPC
  <2> QED BY <1>5, <2>2, <2>3
<1>15. CASE RecordAfter(p)
  <2> DEFINE m == Sealed(job[p].mem, f, disk[f])
             g == IF f = "resume" THEN "grub" ELSE f
  <2>1. Save(p, m) /\ Keep(p, WithNextFile(job[p], m, g)) /\ pc[p] = "seal" /\ UNCHANGED foreign
    BY <1>15 DEF RecordAfter, WithNextFile, histVars
  <2>2. \/ f = "fstab" /\ pc'[p] = "swap-manifest"
        \/ f = "resume" /\ pc'[p] = "record" /\ g = "grub"
        \/ f = "grub" /\ Goto(p, "initramfs")
    BY <1>0, <1>15, GotoOthers DEF RecordAfter, File
  <2>3. m.swap = job[p].mem.swap /\ m.status = job[p].mem.status
    BY <1>0, SwapOfManifest, SealedParts
  <2> HIDE DEF m, g
  <2>4. pc[p] \in HoldingPC BY <2>1 DEF HoldingPC, PC, ApplyPC
  <2>5. SwapLeftAlone BY <1>4, <1>12, <2>1, <2>3, <2>4
  <2>6. job'[p] = WithNextFile(job[p], m, g) BY <2>1, KeepIt
  <2>7. CASE f = "grub" /\ Goto(p, "initramfs")
    <3>1. StaysOnStage(p) BY <1>7, <2>7 DEF PC, ApplyPC, StagePC, ExecPC, WritingPC
    <3> QED BY <1>5, <2>5, <3>1
  <2>8. CASE ~(f = "grub" /\ Goto(p, "initramfs"))
    <3>1. StaysOnStage(p) BY <1>10, <1>11, <2>1, <2>2, <2>6, <2>8 DEF WritingPC
    <3> QED BY <1>5, <2>5, <3>1
  <2> QED BY <2>7, <2>8
<1>16. CASE SelectTarget(p)
  <2>1. SwapLeftAlone BY <1>6, <1>16 DEF SelectTarget, recVars, histVars
  <2>2. CASE Exit(p) BY <1>5, <1>7, <2>1, <2>2
  <2>3. CASE ~Exit(p)
    <3>1. /\ Keep(p, WithTarget(job[p], ForSwap(swapAt), "resume")) /\ pc'[p] = "record"
      BY <1>16, <2>3, GotoOthers DEF SelectTarget, WithTarget
    <3>2. job'[p] = WithTarget(job[p], ForSwap(swapAt), "resume") BY <3>1, KeepIt
    <3>3. job'[p].file = "resume" BY <1>0, <3>2, SwapParts
    <3>4. StaysOnStage(p) BY <3>1, <3>3 DEF StaysOnStage, StagePC, Preparing, ExecPC
    <3> QED BY <1>5, <2>1, <3>4
  <2> QED BY <2>2, <2>3
<1>17. CASE FinishApply(p)
  <2> DEFINE s == IF pc[p] = "complete" THEN "completed" ELSE "failed"
             m == [job[p].mem EXCEPT !.status = s]
  <2>1. Save(p, m) /\ Exit(p) /\ UNCHANGED foreign /\ pc[p] \in HoldingPC
    BY <1>17 DEF FinishApply, histVars, HoldingPC, PC, ApplyPC
  <2>2. s \in Status \ {"rolled-back"} BY DEF Status, Eligible
  <2> HIDE DEF s
  <2>3. m.swap = job[p].mem.swap /\ m.status = s BY <1>0, <2>2, SwapOfManifest, StatusParts
  <2> HIDE DEF m
  <2>4. SwapLeftAlone BY <1>4, <1>12, <2>1, <2>2, <2>3
  <2> QED BY <1>5, <1>7, <2>1, <2>4
<1> QED BY <1>8, <1>9, <1>13, <1>14, <1>15, <1>16, <1>17

(* The steps of a rollback that do not touch the swap file. *)
LEMMA QuietRollback ==
  ASSUME TypeInv, CurrentInv, SwapStory, NEW p \in Proc, Alone(p),
         \/ AcquireLock(p) \/ LoadManifest(p) \/ MarkRollingBack(p) \/ SafetySnapshotFails(p)
         \/ RestoreFile(p) \/ RemoveDir(p) \/ Regenerate(p) \/ FinishRollback(p)
  PROVE  QuietStep(p)
<1> USE DEF TypeInv, TypeOK
<1> DEFINE b == job[p].bid
           T == job[p].todo
<1>0. job[p] \in Job /\ job[p].mem \in Manifest /\ job[p].orig \in Status /\ T \in SUBSET Action
  BY DEF JobType, Job
<1>1. ReversibleInv /\ Current(p) /\ Local(p) /\ Stage(p) /\ Knows(p)
  BY DEF CurrentInv, ReversibleInv, SwapStory
<1>2. UNCHANGED <<swapAt, old, cur, inode, active, nextId, base>>
  BY DEF AcquireLock, LoadManifest, MarkRollingBack, SafetySnapshotFails, RestoreFile, RemoveDir,
     Regenerate, FinishRollback, swapVars, recVars, histVars
<1>3. pc[p] \in {"rb-lock", "rb-load", "rb-mark", "rb-snapshot", "rb-exec"}
  BY DEF AcquireLock, LoadManifest, MarkRollingBack, SafetySnapshotFails, RestoreFile, RemoveDir,
     Regenerate, FinishRollback, Doing
<1>4. pc[p] \in HoldingPC
        => /\ b \in BackupId /\ job[p].mem = manifest[b] /\ manifest[b] \in Manifest
           /\ manifest[b].status # "none" /\ manifest[b].status # "rolled-back"
  BY <1>1 DEF WorksOnBackup, Local, Current, HoldingPC, RecordsType
<1>5. ASSUME SwapLeftAlone, StaysOnStage(p) PROVE QuietStep(p)
  BY <1>3, <1>5 DEF QuietStep, UnsettledPC
<1>6. ASSUME UNCHANGED manifest, \A c \in BackupId : foreign[c] \subseteq foreign'[c]
      PROVE  SwapLeftAlone
  BY <1>2, <1>6 DEF SwapLeftAlone
<1>7. ASSUME Exit(p) \/ \E l \in {"rb-load", "rb-mark", "rb-snapshot"} : Goto(p, l)
      PROVE  StaysOnStage(p)
  <2>1. pc'[p] \in {"idle", "rb-load", "rb-mark", "rb-snapshot"} BY <1>7, GotoOthers DEF Exit
  <2> QED BY <2>1 DEF StaysOnStage, StagePC, Preparing, ExecPC, WritingPC
<1>8. CASE AcquireLock(p) \/ LoadManifest(p)
  <2>1. SwapLeftAlone BY <1>6, <1>8 DEF AcquireLock, LoadManifest, recVars, histVars
  <2>2. StaysOnStage(p) BY <1>7, <1>8 DEF AcquireLock, LoadManifest
  <2> QED BY <1>5, <2>1, <2>2
<1>9. ASSUME NEW s \in Status, Save(p, [job[p].mem EXCEPT !.status = s]), pc[p] \in HoldingPC,
             UNCHANGED foreign, s = "rolled-back" /\ "swap" \notin foreign[b] => Untouched(b)
      PROVE  SwapLeftAlone
  <2> DEFINE m == [job[p].mem EXCEPT !.status = s]
  <2>1. m.swap = job[p].mem.swap /\ m.status = s BY <1>0, SwapOfManifest, StatusParts
  <2>2. Save(p, m) BY <1>9
  <2> HIDE DEF m
  <2> QED BY <1>2, <1>4, <1>9, <2>1, <2>2, QuietSave
<1>10. CASE MarkRollingBack(p)
  <2>1. /\ Save(p, [job[p].mem EXCEPT !.status = "rollback-in-progress"])
        /\ pc[p] = "rb-mark" /\ Goto(p, "rb-snapshot") /\ UNCHANGED foreign
    BY <1>10 DEF MarkRollingBack, histVars
  <2>2. SwapLeftAlone BY <1>9, <2>1 DEF Status, HoldingPC, PC, LockedPC, ExecPC
  <2> QED BY <1>5, <1>7, <2>1, <2>2
<1>11. CASE SafetySnapshotFails(p)
  <2>1. /\ Save(p, [job[p].mem EXCEPT !.status = job[p].orig])
        /\ pc[p] = "rb-snapshot" /\ Exit(p) /\ UNCHANGED foreign
    BY <1>11 DEF SafetySnapshotFails, histVars
  <2>2. job[p].orig # "rolled-back" BY <1>1, <2>1 DEF Current
  <2>3. SwapLeftAlone BY <1>0, <1>9, <2>1, <2>2 DEF HoldingPC, PC, LockedPC, ExecPC
  <2> QED BY <1>5, <1>7, <2>1, <2>3
<1>12. CASE FinishRollback(p)
  <2>1. /\ Save(p, [job[p].mem EXCEPT !.status = FinalStatus(job[p])])
        /\ pc[p] = "rb-exec" /\ T = {} /\ Exit(p) /\ UNCHANGED foreign
    BY <1>12 DEF FinishRollback, histVars
  <2>2. pc[p] \in HoldingPC BY <2>1 DEF HoldingPC, PC, LockedPC, ExecPC
  <2>3. "swap" \notin foreign[b] => Untouched(b) BY <1>1, <1>4, <2>1, <2>2 DEF Knows
  <2>4. SwapLeftAlone BY <1>9, <2>1, <2>2, <2>3, FinalStatusType
  <2> QED BY <1>5, <1>7, <2>1, <2>4
<1>13. CASE RestoreFile(p) \/ RemoveDir(p) \/ Regenerate(p)
  <2>1. /\ pc[p] = "rb-exec" /\ UNCHANGED <<pc, manifest>>
        /\ Next1(p) \in File \cup DirAction \cup Rerun
        /\ \/ Keep(p, WithMem(Succeeded(job[p]), manifest[b]))
           \/ Keep(p, Succeeded(job[p])) \/ Keep(p, Failed(job[p]))
    BY <1>13 DEF RestoreFile, RemoveDir, Regenerate, Doing, recVars, WithMem
  <2>2. \A c \in BackupId : foreign[c] \subseteq foreign'[c]
    BY <1>13, DisturbGrows DEF RestoreFile, RemoveDir, Regenerate, histVars
  <2>3. SwapLeftAlone BY <1>6, <2>1, <2>2
  <2>4. manifest[b] \in Manifest BY <1>4, <2>1 DEF HoldingPC, PC, LockedPC, ExecPC
  <2>5. job'[p].bid = b /\ job'[p].todo = T \ {Next1(p)}
    BY <1>0, <2>1, <2>4, ResultTodo, KeepIt DEF Next1
  <2>6. Next1(p) \notin SwapAction BY <2>1 DEF SwapAction, File, DirAction, Rerun
  <2>7. StaysOnStage(p) BY <2>1, <2>5, <2>6 DEF StaysOnStage
  <2> QED BY <1>5, <2>3, <2>7
<1> QED BY <1>8, <1>10, <1>11, <1>12, <1>13

(* Every step is one of these before the first fault. *)
LEMMA StepKinds ==
  ASSUME TypeInv, CurrentInv, SwapStory, NEW p \in Proc, Alone(p), UNCHANGED faults,
         Start(p) \/ ApplyStep(p) \/ RollbackStep(p), ~QuietStep(p)
  PROVE  \/ SwapOff(p) \/ RetainOld(p) \/ CreateFile(p) \/ Allocate(p) \/ MkSwap(p) \/ SwapOn(p)
         \/ RecordSwap(p) \/ SaveOldName(p)
         \/ Begin(p) \/ SafetySnapshot(p)
         \/ PlanRollback(p) \/ SwapRollbackBegins(p) \/ ParkCurrent(p) \/ RestoreOld(p)
         \/ SwapBackOn(p) \/ UnlinkSwap(p)
<1>1. ~SwapCommandFails(p) /\ ~ActionFails(p) BY NothingFails
<1>2. CASE Start(p) \/ ApplyStep(p) BY <1>1, <1>2, QuietApply DEF ApplyStep
<1>3. CASE RollbackStep(p) BY <1>1, <1>3, QuietRollback DEF RollbackStep
<1> QED BY <1>2, <1>3

(* An edit of a file, and a stutter, leave all of it. *)
LEMMA StoryKept ==
  ASSUME SwapStory, UNCHANGED <<pc, job, swapAt, old, cur, inode, active, manifest, nextId, base>>,
         \A c \in BackupId : "swap" \in foreign'[c] <=> "swap" \in foreign[c]
  PROVE  SwapStory'
<1>1. Shape' BY DEF SwapStory, Shape
<1>2. Settling'
  BY DEF SwapStory, Settling, Clean, Settled, Untouched, Retained, Made, Tracked
<1>3. ASSUME NEW p \in Proc PROVE Stage(p)'
  <2>1. Stage(p) BY DEF SwapStory
  <2> QED BY <2>1 DEF Stage, Preparing, Tracked, Untouched, Retained, Made, InUse, Next1
<1>4. ASSUME NEW p \in Proc PROVE Knows(p)'
  <2>1. Knows(p) BY DEF SwapStory
  <2> QED BY <2>1 DEF Knows, Preparing, Tracked, Untouched, Retained, Made, InUse, Next1
<1> QED BY <1>1, <1>2, <1>3, <1>4 DEF SwapStory

LEMMA StoryNext ==
  ASSUME Concurrent = FALSE, TypeInv, CurrentInv, TraceInv, Sighted, [Next]_vars, faults' = 0,
         SwapStory
  PROVE  SwapStory'
<1>1. CASE UNCHANGED vars
  BY <1>1, StoryKept DEF vars
<1>2. ASSUME NEW f \in File, EditFile(f) PROVE SwapStory'
  <2>1. /\ UNCHANGED <<pc, job, swapAt, old, cur, inode, active, manifest, nextId, base>>
        /\ Disturb(0, f) /\ f # "swap"
    BY <1>2 DEF EditFile, swapVars, recVars, File
  <2>2. \A c \in BackupId : "swap" \in foreign'[c] <=> "swap" \in foreign[c]
    BY <2>1 DEF Disturb, TypeInv, TypeOK, HistoryType
  <2> QED BY <2>1, <2>2, StoryKept
<1>3. ASSUME NEW p \in Proc, Start(p) \/ ApplyStep(p) \/ RollbackStep(p) PROVE SwapStory'
  <2>1. Alone(p) /\ UNCHANGED faults BY <1>3, StepAlone, NoFaultYet
  <2>2. CASE QuietStep(p) BY <2>1, <2>2, LeftAloneStory DEF CurrentInv
  <2>3. CASE ~QuietStep(p)
    BY <1>3, <2>1, <2>3, StepKinds, MakingStory, RecordingStory, BeginningStory, RestoringStory
  <2> QED BY <2>2, <2>3
<1> QED BY <1>1, <1>2, <1>3, NoFaultYet

LEMMA StoryInit == Init => SwapStory
<1> SUFFICES ASSUME Init PROVE SwapStory
  OBVIOUS
<1>1. \A p \in Proc : pc[p] = "idle" BY DEF Init
<1>2. Shape
  <2>1. active \subseteq {swapAt} /\ (swapAt # NoFile => inode[swapAt].fmt)
    BY BoundAssumption DEF Init, InodeId
  <2> QED BY <2>1 DEF Init, Shape
<1>3. \A b \in BackupId : ~Clean(b) BY DEF Init, Clean, NoManifest
<1>4. \A p \in Proc : Stage(p) /\ Knows(p)
  BY <1>1 DEF Stage, Knows, Preparing, ExecPC, WritingPC
<1> QED BY <1>2, <1>3, <1>4 DEF SwapStory, Settling

(* A rollback that ends "rolled-back" leaves the machine with the swap     *)
(* file it found, in use if it was, when nobody else changed the swap      *)
(* file: until the first fault, for any number of backups, edits and sizes *)
(* of the file, with one helper at a time (_ensure_managed_swap_file,      *)
(* _swap_actions, _rollback_restore_old_swap, _rollback_remove_wizard_swap;*)
(* RestoredSwap is what the run helper_quiet checks).                      *)
THEOREM SwapCorrect ==
  ASSUME Concurrent = FALSE
  PROVE  Spec => [](faults = 0 => RestoredSwap)
<1>1. TypeInv /\ CurrentInv /\ [Next]_vars => CurrentInv'
  BY CurrentNext
<1>2. TypeInv /\ CurrentInv /\ TraceInv /\ [Next]_vars => TraceInv'
  BY TraceNext
<1>3. TypeInv /\ SwapInv /\ [Next]_vars => SwapInv'
  BY SwapNext
<1>4. /\ TypeInv /\ CurrentInv /\ TraceInv /\ SwapInv /\ [Next]_vars
      /\ faults = 0 => blind = {} /\ SwapStory
      => (faults = 0 => blind = {} /\ SwapStory)'
  BY StoryNext, NoFaultYet DEF Sighted
<1>5. (faults = 0 => blind = {} /\ SwapStory) => (faults = 0 => RestoredSwap)
  BY DEF SwapStory, Settling, Clean, Untouched, RestoredSwap, RestoredSwapFile
<1>6. Init => (faults = 0 => blind = {} /\ SwapStory) BY StoryInit DEF Init
<1> QED BY <1>1, <1>2, <1>3, <1>4, <1>5, <1>6, CurrentInit, TraceInit, SwapInit, TypeInvariant,
           PTL DEF Spec

-----------------------------------------------------------------------------
(* The swap file the operator had *)

(* It is somewhere; every apply that recorded the swap file found one; and *)
(* there is one at the path, but while one takes the other's place.        *)
Held == swapAt = 0 \/ \E b \in BackupId : 0 \in {old[b], cur[b]}

AllFoundOne == \A b \in BackupId : manifest[b].swap.recorded => manifest[b].swap.existed

Replacing == {"retain-save", "create", "rb-unpark"}

Present == swapAt # NoFile \/ \E p \in Proc : pc[p] \in Replacing

(* Until the first backup is begun the swap file is left alone.            *)
HadInv ==
  /\ nextId = 1 => swapAt = base[1].swapAt
  /\ base[1].swapAt = 0 => Held /\ AllFoundOne /\ Present

LEMMA HadUnlessTouched ==
  ASSUME MaxBackups # 0, TypeInv, ReversibleInv, SwapStory, HadInv, NEW p \in Proc, Alone(p),
         QuietStep(p)
  PROVE  HadInv'
<1> USE DEF QuietStep, SwapLeftAlone
<1>1. \A q \in Proc \ {p} : pc[q] = "idle" BY OthersOffStage
<1>2. Present => swapAt # NoFile BY <1>1 DEF Present, Replacing, UnsettledPC
<1> QED BY <1>2 DEF HadInv, Held, AllFoundOne, Present

LEMMA HadWhenBegun ==
  ASSUME MaxBackups # 0, TypeInv, CurrentInv, HadInv, NEW p \in Proc, Alone(p),
         Begin(p) \/ SafetySnapshot(p)
  PROVE  HadInv'
<1> USE DEF TypeInv, TypeOK, RecordsType, HistoryType
<1>1. /\ pc[p] \in {"begin", "rb-snapshot"} /\ NewManifest /\ UNCHANGED <<swapAt, old, cur>>
  BY DEF Begin, SafetySnapshot, swapVars
<1>2. \A q \in Proc \ {p} : pc[q] = "idle" BY OthersOffStage DEF CurrentInv
<1>3. Present => swapAt # NoFile BY <1>1, <1>2 DEF Present, Replacing
<1>4. 1 \in BackupId BY BoundAssumption DEF BackupId
<1>5. /\ base'[1] = IF nextId = 1 THEN Machine ELSE base[1]
      /\ nextId' # 1
  BY <1>1, <1>4 DEF NewManifest, BackupId
<1>6. (base'[1].swapAt = 0) <=> (base[1].swapAt = 0) BY <1>5 DEF HadInv, Machine
<1>7. \A c \in BackupId : manifest'[c] = IF c = nextId THEN EmptyManifest ELSE manifest[c]
  BY <1>1 DEF NewManifest
<1>8. AllFoundOne => AllFoundOne'
  BY <1>7 DEF AllFoundOne, EmptyManifest, NoManifest, NoSwap
<1> QED BY <1>1, <1>3, <1>5, <1>6, <1>8 DEF HadInv, Held, Present

(* The steps that touch the swap file or the record of it. *)
LEMMA HadWhenTouched ==
  ASSUME MaxBackups # 0, TypeInv, CurrentInv, TraceInv, SwapStory, HadInv, NEW p \in Proc,
         Alone(p),
         \/ SwapOff(p) \/ RetainOld(p) \/ CreateFile(p) \/ Allocate(p) \/ MkSwap(p) \/ SwapOn(p)
         \/ RecordSwap(p) \/ SaveOldName(p)
         \/ PlanRollback(p) \/ SwapRollbackBegins(p) \/ ParkCurrent(p) \/ RestoreOld(p)
         \/ SwapBackOn(p) \/ UnlinkSwap(p)
  PROVE  HadInv'
<1> USE DEF TypeInv, TypeOK, RecordsType
<1> DEFINE b == job[p].bid
<1>0. job[p] \in Job /\ job[p].mem \in Manifest /\ job[p].todo \in SUBSET Action
  BY DEF JobType, Job
<1>1. /\ ReversibleInv /\ Current(p) /\ Local(p) /\ Tracing(p) /\ Shape /\ Stage(p)
  BY DEF CurrentInv, ReversibleInv, TraceInv, SwapStory
<1>2. /\ pc[p] \in {"swapoff", "retain", "create", "allocate", "mkswap", "swapon",
                     "swap-manifest", "retain-save", "rb-plan"} \cup ExecPC
      /\ UNCHANGED <<nextId, base>>
  BY DEF SwapOff, RetainOld, CreateFile, Allocate, MkSwap, SwapOn, RecordSwap, SaveOldName,
     PlanRollback, SwapRollbackBegins, ParkCurrent, RestoreOld, SwapBackOn, UnlinkSwap, Doing,
     ExecPC, recVars, histVars
<1>3. b \in BackupId /\ manifest[b].status # "none" /\ job[p].mem = manifest[b]
  BY <1>1, <1>2 DEF WorksOnBackup, Local, HoldingPC, PC, ApplyPC, LockedPC, ExecPC
<1>4. nextId # 1
  BY <1>1, <1>3 DEF ReversibleInv, RecordInv, Begun, BackupId
<1>5. \A q \in Proc \ {p} : pc[q] = "idle" /\ pc'[q] = "idle" BY <1>1, OthersOffStage
<1> SUFFICES ASSUME base[1].swapAt = 0, Held, AllFoundOne, swapAt # NoFile \/ pc[p] \in Replacing
             PROVE  Held' /\ AllFoundOne' /\ Present'
  BY <1>2, <1>4, <1>5 DEF HadInv, Present, Replacing
<1> USE DEF SwapType
<1>6. ASSUME UNCHANGED <<swapAt, old, cur>>, UNCHANGED manifest, swapAt # NoFile
      PROVE  Held' /\ AllFoundOne' /\ Present'
  BY <1>6 DEF Held, AllFoundOne, Present
<1>7. CASE \/ SwapOff(p) \/ MkSwap(p) \/ SwapOn(p) \/ PlanRollback(p) \/ SwapRollbackBegins(p)
           \/ SwapBackOn(p)
  <2>1. UNCHANGED <<swapAt, old, cur, manifest>>
        /\ pc[p] \in {"swapoff", "mkswap", "swapon", "rb-plan", "rb-exec", "rb-swapon"}
    BY <1>7 DEF SwapOff, MkSwap, SwapOn, PlanRollback, SwapRollbackBegins, SwapBackOn, Doing,
       swapVars, recVars
  <2> QED BY <1>6, <2>1 DEF Replacing
<1>8. CASE Allocate(p)
  <2>1. UNCHANGED <<swapAt, old, cur, manifest>> /\ swapAt # NoFile
    BY <1>1, <1>8 DEF Allocate, Stage, recVars
  <2> QED BY <1>6, <2>1
<1>9. CASE RetainOld(p)
  <2>1. /\ pc[p] = "retain" /\ pc'[p] = "retain-save" /\ UNCHANGED <<cur, manifest>>
        /\ old' = [old EXCEPT ![b] = swapAt] /\ old[b] = NoFile
    BY <1>1, <1>9, GotoOthers DEF RetainOld, Replacing, Stage, recVars
  <2>2. Held' BY <1>3, <2>1 DEF Held, NoFile
  <2> QED BY <2>1, <2>2 DEF AllFoundOne, Present, Replacing
<1>10. CASE CreateFile(p)
  <2>1. swapAt = NoFile /\ swapAt' = b /\ UNCHANGED <<old, cur, manifest>> /\ b # NoFile
    BY <1>1, <1>3, <1>10 DEF CreateFile, Stage, recVars, BackupId, NoFile
  <2> QED BY <2>1 DEF Held, AllFoundOne, Present, NoFile
<1>11. ASSUME NEW m \in Manifest, Save(p, m), m.swap.existed PROVE AllFoundOne'
  <2>1. /\ manifest'[b] = m /\ \A c \in BackupId \ {b} : manifest'[c] = manifest[c]
    BY <1>3, <1>11, SaveAt
  <2> QED BY <1>11, <2>1 DEF AllFoundOne
<1>12. CASE RecordSwap(p)
  <2> DEFINE s == [recorded |-> TRUE, existed |-> swapAt # NoFile,
                   wasActive |-> job[p].wasActive, oldNamed |-> FALSE]
             m == [job[p].mem EXCEPT !.swap = s]
  <2>1. Save(p, m) /\ swapAt # NoFile /\ UNCHANGED <<swapAt, old, cur>>
    BY <1>12 DEF RecordSwap, Replacing, swapVars
  <2>2. s \in SwapRecord /\ s.existed BY <1>0, <2>1 DEF Job, SwapRecord
  <2> HIDE DEF s
  <2>3. m \in Manifest /\ m.swap = s BY <1>0, <2>2, ManifestUpdates, SwapOfManifest
  <2> HIDE DEF m
  <2>4. AllFoundOne' BY <1>11, <2>1, <2>2, <2>3
  <2> QED BY <2>1, <2>4 DEF Held, Present
<1>13. CASE SaveOldName(p)
  <2> DEFINE m == [job[p].mem EXCEPT !.swap.oldNamed = TRUE]
  <2>1. Save(p, m) /\ pc'[p] = "create" /\ UNCHANGED <<swapAt, old, cur>>
    BY <1>13, GotoOthers DEF SaveOldName, swapVars
  <2>2. m \in Manifest /\ m.swap = [manifest[b].swap EXCEPT !.oldNamed = TRUE]
    BY <1>0, <1>3, ManifestUpdates, SwapOfManifest
  <2>3. manifest[b].swap \in SwapRecord BY <1>0, <1>3 DEF Manifest
  <2> HIDE DEF m
  <2>4. /\ manifest'[b] = m /\ \A c \in BackupId \ {b} : manifest'[c] = manifest[c]
    BY <1>3, <2>1, SaveAt
  <2>5. AllFoundOne' BY <1>3, <2>2, <2>3, <2>4 DEF AllFoundOne, SwapRecord
  <2> QED BY <2>1, <2>5 DEF Held, Present, Replacing
<1>14. CASE ParkCurrent(p)
  <2>1. /\ pc[p] = "rb-park" /\ pc'[p] = "rb-unpark" /\ UNCHANGED old
        /\ cur' = [cur EXCEPT ![b] = swapAt] /\ manifest' = [manifest EXCEPT ![b] = manifest[b]]
    BY <1>3, <1>14, GotoOthers DEF ParkCurrent, Replacing, Save
  <2>2. cur[b] = NoFile /\ UNCHANGED manifest
    BY <1>1, <1>3, <1>5, <2>1 DEF Shape, Stage
  <2>3. Held' BY <1>3, <2>1, <2>2 DEF Held, NoFile
  <2> QED BY <2>1, <2>2, <2>3 DEF AllFoundOne, Present, Replacing
<1>15. CASE RestoreOld(p)
  <2>1. /\ swapAt = NoFile /\ swapAt' = old[b] /\ old[b] # NoFile
        /\ old' = [old EXCEPT ![b] = NoFile] /\ UNCHANGED <<cur, manifest>>
    BY <1>1, <1>15 DEF RestoreOld, Stage, recVars
  <2>2. Held' BY <1>3, <2>1 DEF Held, NoFile
  <2> QED BY <2>1, <2>2 DEF AllFoundOne, Present
<1>16. ~UnlinkSwap(p)
  <2> SUFFICES ASSUME pc[p] = "rb-unlink" PROVE FALSE BY DEF UnlinkSwap
  <2>1. job[p].todo # {} /\ Next1(p) = "remove-swap" BY <1>1 DEF Tracing, Stage, ExecPC
  <2>2. "remove-swap" \in job[p].todo BY <1>0, <2>1, FirstOfPlan DEF Next1
  <2> QED BY <1>1, <1>3, <2>2 DEF Stage, ExecPC, AllFoundOne
<1> QED BY <1>7, <1>8, <1>9, <1>10, <1>12, <1>13, <1>14, <1>15, <1>16

LEMMA HadNext ==
  ASSUME Concurrent = FALSE, MaxBackups # 0, TypeInv, CurrentInv, TraceInv, SwapStory,
         [Next]_vars, faults' = 0, HadInv
  PROVE  HadInv'
<1>1. CASE UNCHANGED vars
  BY <1>1 DEF vars, HadInv, Held, AllFoundOne, Present
<1>2. CASE \E f \in File : EditFile(f)
  BY <1>2 DEF EditFile, HadInv, Held, AllFoundOne, Present, swapVars, recVars
<1>3. ASSUME NEW p \in Proc, Start(p) \/ ApplyStep(p) \/ RollbackStep(p) PROVE HadInv'
  <2>1. Alone(p) /\ UNCHANGED faults BY <1>3, StepAlone, NoFaultYet
  <2>2. CASE QuietStep(p) BY <2>1, <2>2, HadUnlessTouched DEF CurrentInv
  <2>3. CASE ~QuietStep(p)
    BY <1>3, <2>1, <2>3, StepKinds, HadWhenBegun, HadWhenTouched
  <2> QED BY <2>2, <2>3
<1> QED BY <1>1, <1>2, <1>3, NoFaultYet

LEMMA HadInit == ASSUME MaxBackups # 0 PROVE Init => HadInv
<1> SUFFICES ASSUME Init PROVE HadInv
  OBVIOUS
<1>1. 1 \in BackupId BY BoundAssumption DEF BackupId
<1>2. base[1].swapAt = swapAt /\ nextId = 1 BY <1>1 DEF Init, Machine
<1>3. AllFoundOne BY DEF Init, AllFoundOne, NoManifest, NoSwap
<1> QED BY <1>2, <1>3 DEF HadInv, Held, Present, NoFile

(* The swap file the operator had before the first apply is never          *)
(* destroyed: it is at the path or in a sibling, until the first fault,    *)
(* for any number of backups, edits and sizes, with one helper at a time   *)
(* (os.replace in _ensure_managed_swap_file and                            *)
(* _rollback_restore_old_swap; PreexistingSwapKept is what the run         *)
(* helper_quiet checks, and what v_swapkept refutes after a fault).        *)
THEOREM SwapFileKept ==
  ASSUME Concurrent = FALSE, MaxBackups # 0
  PROVE  Spec => [](faults = 0 => PreexistingSwapKept)
<1>1. TypeInv /\ CurrentInv /\ [Next]_vars => CurrentInv'
  BY CurrentNext
<1>2. TypeInv /\ CurrentInv /\ TraceInv /\ [Next]_vars => TraceInv'
  BY TraceNext
<1>3. TypeInv /\ SwapInv /\ [Next]_vars => SwapInv'
  BY SwapNext
<1>4. /\ TypeInv /\ CurrentInv /\ TraceInv /\ SwapInv /\ [Next]_vars
      /\ faults = 0 => blind = {} /\ SwapStory
      => (faults = 0 => blind = {} /\ SwapStory)'
  BY StoryNext, NoFaultYet DEF Sighted
<1>5. /\ TypeInv /\ CurrentInv /\ TraceInv /\ [Next]_vars
      /\ faults = 0 => blind = {} /\ SwapStory
      /\ faults = 0 => HadInv
      => (faults = 0 => HadInv)'
  BY HadNext, NoFaultYet
<1>6. (faults = 0 => HadInv) => (faults = 0 => PreexistingSwapKept)
  BY DEF HadInv, Held, PreexistingSwapKept
<1>7. Init => (faults = 0 => blind = {} /\ SwapStory) /\ (faults = 0 => HadInv)
  BY StoryInit, HadInit DEF Init
<1> QED BY <1>1, <1>2, <1>3, <1>4, <1>5, <1>6, <1>7, CurrentInit, TraceInit, SwapInit,
           TypeInvariant, PTL DEF Spec
=============================================================================
