---------------------------- MODULE HelperProofs ----------------------------
(***************************************************************************)
(* Proofs about the one-shot helper, for every number of processes,        *)
(* backups, edits and faults: its type invariant, the exclusion of         *)
(* rollbacks and, with one helper at a time, write-ahead: what an          *)
(* operation changed is recorded in its manifest with the content it       *)
(* found, in every reachable state.                                        *)
(*                                                                         *)
(* Reversible says nothing of the copy of the manifest the process holds   *)
(* and writes back, nor of the files it is about to write.  The inductive  *)
(* invariant adds both: the copy is the manifest on disk, and a file is    *)
(* recorded before the step that writes or restores it.                    *)
(***************************************************************************)
EXTENDS HelperProperties, TLAPS

(* TypeOK is not inductive alone: a process reads old, cur and manifest at *)
(* the backup it works on, which has to be one that exists.                *)
WorksOnBackup ==
  \A p \in Proc : pc[p] \notin {"idle", "validate", "begin"} => job[p].bid \in BackupId

TypeInv == TypeOK /\ WorksOnBackup

-----------------------------------------------------------------------------
(* Data *)

(* The constants of RollbackPlan and Helper have their types. *)
LEMMA ConstantTypes ==
  /\ NoManifest \in Manifest /\ EmptyManifest \in Manifest /\ NoJob \in Job
  /\ Absent \in Content /\ Unknown \in Content /\ Partition \in Content
  /\ \A n \in Nat : Own(n) \in Content /\ ForSwap(n) \in Content
  /\ \A c \in Content : WithEntry(c) \in Content
<1>1. /\ Absent \in Content /\ Unknown \in Content /\ Partition \in Content
      /\ \A n \in Nat : Own(n) \in Content /\ ForSwap(n) \in Content
      /\ \A c \in Content : WithEntry(c) \in Content
  BY DEF Content, Kind, Absent, Unknown, Partition, Own, ForSwap, WithEntry
<1>2. NoRecord \in FileRecord /\ NoSwap \in SwapRecord
  BY <1>1 DEF NoRecord, FileRecord, NoSwap, SwapRecord
<1>3. NoManifest \in Manifest
  BY <1>2 DEF NoManifest, Manifest, Status
<1>4. EmptyManifest \in Manifest
  BY <1>3 DEF EmptyManifest, Manifest, Status, Eligible
<1>5. NoJob \in Job
  BY <1>1, <1>3, BoundAssumption DEF NoJob, Job, Status, File
<1> QED BY <1>1, <1>3, <1>4, <1>5

(* What the updates of a manifest preserve. *)
LEMMA ManifestUpdates ==
  ASSUME NEW m \in Manifest
  PROVE  /\ \A s \in Status : [m EXCEPT !.status = s] \in Manifest
         /\ \A s \in SwapRecord : [m EXCEPT !.swap = s] \in Manifest
         /\ [m EXCEPT !.swap.oldNamed = TRUE] \in Manifest
         /\ m.status \in Status /\ m.swap.wasActive \in BOOLEAN
         /\ \A f \in File : m.files[f].before \in Content
<1>1. \A s \in Status : [m EXCEPT !.status = s] \in Manifest
  BY DEF Manifest
<1>2. \A s \in SwapRecord : [m EXCEPT !.swap = s] \in Manifest
  BY DEF Manifest
<1>3. [m EXCEPT !.swap.oldNamed = TRUE] \in Manifest
  BY DEF Manifest, SwapRecord
<1>4. m.status \in Status /\ m.swap.wasActive \in BOOLEAN
  BY DEF Manifest, SwapRecord
<1>5. \A f \in File : m.files[f].before \in Content
  BY DEF Manifest, FileRecord
<1> QED BY <1>1, <1>2, <1>3, <1>4, <1>5

LEMMA RecordedType ==
  ASSUME NEW m \in Manifest, NEW f \in File, NEW c \in Content, NEW d \in SUBSET DirFile
  PROVE  Recorded(m, f, c, d) \in Manifest
<1>1. [recorded |-> TRUE, before |-> c, after |-> Unknown] \in FileRecord
  BY ConstantTypes DEF FileRecord
<1> QED BY <1>1 DEF Recorded, Manifest

LEMMA SealedType ==
  ASSUME NEW m \in Manifest, NEW f \in File, NEW c \in Content
  PROVE  Sealed(m, f, c) \in Manifest
BY DEF Sealed, Manifest, FileRecord

(* The updates of a process's local state, named so that they can be cited. *)
WithMem(j, m)          == [j EXCEPT !.mem = m]
WithBackup(j, b, m)    == [j EXCEPT !.bid = b, !.mem = m]
WithNextFile(j, m, f)  == [j EXCEPT !.mem = m, !.file = f]
WithOriginal(j, m, s)  == [j EXCEPT !.mem = m, !.orig = s]
WithPlan(j, m, t)      == [j EXCEPT !.mem = m, !.todo = t]
WithTarget(j, c, f)    == [j EXCEPT !.want = c, !.file = f]
Checked(j, n, a, f, c) == [j EXCEPT !.needsNew = n, !.wasActive = a, !.file = f, !.line = c]

LEMMA JobUpdates ==
  ASSUME NEW j \in Job, NEW m \in Manifest, NEW f \in File, NEW c \in Content
  PROVE  /\ WithMem(j, m) \in Job /\ WithMem(j, m).bid = j.bid
         /\ WithNextFile(j, m, f) \in Job /\ WithNextFile(j, m, f).bid = j.bid
         /\ WithTarget(j, c, f) \in Job /\ WithTarget(j, c, f).bid = j.bid
         /\ \A b \in 0..MaxBackups :
              WithBackup(j, b, m) \in Job /\ WithBackup(j, b, m).bid = b
         /\ \A s \in Status :
              WithOriginal(j, m, s) \in Job /\ WithOriginal(j, m, s).bid = j.bid
         /\ \A t \in SUBSET Action :
              WithPlan(j, m, t) \in Job /\ WithPlan(j, m, t).bid = j.bid
         /\ \A n \in BOOLEAN, a \in BOOLEAN :
              Checked(j, n, a, f, c) \in Job /\ Checked(j, n, a, f, c).bid = j.bid
BY DEF Job, WithMem, WithNextFile, WithTarget, WithBackup, WithOriginal, WithPlan, Checked

LEMMA NewJobs ==
  /\ \A t \in Content : [NoJob EXCEPT !.want = t] \in Job
  /\ \A s \in Nat : [NoJob EXCEPT !.size = s] \in Job
  /\ \A b \in BackupId : [NoJob EXCEPT !.bid = b] \in Job /\ [NoJob EXCEPT !.bid = b].bid = b
<1> DEFINE j == NoJob
<1>1. j \in Job BY ConstantTypes
<1> HIDE DEF j
<1> SUFFICES /\ \A t \in Content : [j EXCEPT !.want = t] \in Job
             /\ \A s \in Nat : [j EXCEPT !.size = s] \in Job
             /\ \A b \in BackupId : [j EXCEPT !.bid = b] \in Job /\ [j EXCEPT !.bid = b].bid = b
  BY DEF j
<1> QED BY <1>1, BoundAssumption DEF Job, BackupId

LEMMA ResultJobs ==
  ASSUME NEW j \in Job, NEW m \in Manifest
  PROVE  /\ Succeeded(j) \in Job /\ Succeeded(j).bid = j.bid
         /\ Failed(j) \in Job /\ Failed(j).bid = j.bid
         /\ WithMem(Succeeded(j), m) \in Job
         /\ WithMem(Succeeded(j), m).bid = j.bid
<1>1. Succeeded(j) \in Job /\ Succeeded(j).bid = j.bid
  BY DEF Succeeded, Job
<1>2. Failed(j) \in Job /\ Failed(j).bid = j.bid
  BY DEF Failed, Job
<1>3. \A k \in Job : WithMem(k, m) \in Job /\ WithMem(k, m).bid = k.bid
  BY DEF Job, WithMem
<1> QED BY <1>1, <1>2, <1>3

LEMMA PlanType ==
  ASSUME NEW m, NEW d, NEW ds, NEW o, NEW x
  PROVE  BuildPlan(m, d, ds, o, x) \subseteq Action
BY DEF BuildPlan, SwapWillRun, DirWillRun, PostWillRun, Action, SwapAction, DirAction, Rerun, File

LEMMA FinalStatusType == \A j : FinalStatus(j) \in Status \ {"none", "in-progress"}
BY DEF FinalStatus, Status, Eligible

-----------------------------------------------------------------------------
(* The building blocks of the actions *)

LEMMA Frame ==
  /\ FilesType /\ UNCHANGED fileVars => FilesType'
  /\ BootType /\ UNCHANGED bootVars => BootType'
  /\ SwapType /\ UNCHANGED swapVars => SwapType'
  /\ RecordsType /\ UNCHANGED recVars => RecordsType'
  /\ LockType /\ UNCHANGED lock => LockType'
  /\ PcType /\ UNCHANGED pc => PcType'
  /\ JobType /\ UNCHANGED job => JobType'
  /\ EnvType /\ UNCHANGED envVars => EnvType'
  /\ HistoryType /\ UNCHANGED histVars => HistoryType'
BY DEF FilesType, BootType, SwapType, RecordsType, LockType, PcType, JobType, EnvType,
       HistoryType, fileVars, bootVars, swapVars, recVars, envVars, histVars

(* A process goes on at l, as it is or with the local state j, or ends. *)
LEMMA GotoStep ==
  ASSUME PcType, WorksOnBackup, NEW p \in Proc, NEW l \in PC, Goto(p, l), UNCHANGED job,
         pc[p] \in {"idle", "validate", "begin"} => l \in {"idle", "validate", "begin"}
  PROVE  PcType' /\ WorksOnBackup'
BY DEF PcType, Goto, WorksOnBackup

LEMMA KeepStep ==
  ASSUME PcType, JobType, WorksOnBackup, NEW p \in Proc, NEW l \in PC, NEW j \in Job,
         Goto(p, l), Keep(p, j), j.bid \in BackupId \/ l \in {"validate", "begin"}
  PROVE  PcType' /\ JobType' /\ WorksOnBackup'
BY DEF PcType, JobType, Goto, Keep, WorksOnBackup

LEMMA StayStep ==
  ASSUME JobType, WorksOnBackup, NEW p \in Proc, NEW j \in Job,
         Keep(p, j), j.bid = job[p].bid, UNCHANGED pc
  PROVE  JobType' /\ WorksOnBackup'
BY DEF JobType, Keep, WorksOnBackup

LEMMA ExitStep ==
  ASSUME PcType, JobType, LockType, WorksOnBackup, NEW p \in Proc, Exit(p)
  PROVE  PcType' /\ JobType' /\ LockType' /\ WorksOnBackup'
BY ConstantTypes DEF PcType, JobType, LockType, Exit, Goto, Keep, PC, WorksOnBackup

LEMMA SaveStep ==
  ASSUME RecordsType, NEW p \in Proc, job[p].bid \in BackupId, NEW m \in Manifest,
         Save(p, m), UNCHANGED nextId
  PROVE  RecordsType'
BY DEF RecordsType, Save

LEMMA DisturbStep ==
  ASSUME HistoryType, NEW b, NEW x \in File \cup {"swap"}, Disturb(b, x), UNCHANGED base
  PROVE  HistoryType'
BY DEF HistoryType, Disturb

LEMMA FaultStep == ASSUME EnvType, Fault PROVE EnvType'
BY BoundAssumption DEF EnvType, Fault, Faulty

LEMMA ReadingStep ==
  ASSUME EnvType, NEW b \in BackupId, NEW misread \in BOOLEAN, Reading(b, misread)
  PROVE  EnvType'
BY BoundAssumption DEF EnvType, Reading, Faulty

LEMMA NewManifestStep ==
  ASSUME TypeOK, NewManifest
  PROVE  RecordsType' /\ HistoryType' /\ nextId \in BackupId
<1> USE DEF TypeOK
<1>1. RecordsType' /\ nextId \in BackupId
  BY ConstantTypes, BoundAssumption DEF RecordsType, NewManifest, BackupId
<1>2. Machine \in MachineType
  BY DEF Machine, MachineType, FilesType, BootType, SwapType
<1>3. HistoryType'
  BY <1>2 DEF HistoryType, NewManifest
<1> QED BY <1>1, <1>3

-----------------------------------------------------------------------------
(* Every step preserves the type invariant, one step per action. *)

LEMMA StartType ==
  ASSUME TypeInv, NEW p \in Proc, Start(p)
  PROVE  TypeInv'
<1> USE DEF TypeInv, TypeOK
<1>1. ASSUME NEW t \in {Partition} \cup {ForSwap(i) : i \in active}, StartTargetApply(p, t)
      PROVE  TypeInv'
  <2>1. t \in Content BY ConstantTypes, BoundAssumption DEF SwapType, InodeId
  <2>2. [NoJob EXCEPT !.want = t] \in Job BY <2>1, NewJobs
  <2> QED BY <1>1, <2>2, KeepStep, GotoStep, Frame
          DEF StartTargetApply, WorksOnBackup, PC, ApplyPC
<1>2. ASSUME NEW s \in Sizes, StartSwapApply(p, s)
      PROVE  TypeInv'
  <2>1. [NoJob EXCEPT !.size = s] \in Job BY NewJobs, SizesAssumption
  <2> QED BY <1>2, <2>1, KeepStep, GotoStep, Frame
          DEF StartSwapApply, WorksOnBackup, PC, ApplyPC
<1>3. ASSUME NEW b \in BackupId, StartRollback(p, b)
      PROVE  TypeInv'
  BY <1>3, NewJobs, KeepStep, GotoStep, Frame DEF StartRollback, WorksOnBackup, PC
<1> QED BY <1>1, <1>2, <1>3 DEF Start

(* The part of an apply that checks, records and writes. *)
LEMMA WritingType ==
  ASSUME TypeInv, NEW p \in Proc
  PROVE  /\ ValidateTarget(p) => TypeInv'
         /\ Begin(p) => TypeInv'
         /\ BeginFails(p) => TypeInv'
         /\ CheckSwap(p) => TypeInv'
         /\ RecordBefore(p) => TypeInv'
         /\ WriteFile(p) => TypeInv'
         /\ RecordAfter(p) => TypeInv'
         /\ RecordSwap(p) => TypeInv'
<1> USE DEF TypeInv, TypeOK
<1>0. job[p] \in Job /\ job[p].file \in File /\ job[p].mem \in Manifest
      /\ job[p].want \in Content /\ job[p].line \in Content /\ job[p].wasActive \in BOOLEAN
  BY DEF JobType, Job
<1>1. ASSUME ValidateTarget(p) PROVE TypeInv'
  <2>1. CASE Exit(p)
    BY <1>1, <2>1, ExitStep, Frame DEF ValidateTarget, WorksOnBackup
  <2>2. CASE Goto(p, "begin") /\ UNCHANGED <<job, lock>>
    BY <1>1, <2>2, GotoStep, Frame DEF ValidateTarget, WorksOnBackup, PC, ApplyPC
  <2> QED BY <1>1, <2>1, <2>2 DEF ValidateTarget
<1>2. ASSUME Begin(p) PROVE TypeInv'
  <2>1. RecordsType' /\ HistoryType' /\ nextId \in BackupId
    BY <1>2, NewManifestStep DEF Begin
  <2> DEFINE j == WithBackup(job[p], nextId, EmptyManifest)
  <2>2. nextId \in 0..MaxBackups BY <2>1, BoundAssumption DEF BackupId
  <2>3. j \in Job /\ j.bid \in BackupId
    <3>1. EmptyManifest \in Manifest BY ConstantTypes
    <3> QED BY <1>0, <2>1, <2>2, <3>1, JobUpdates
  <2>4. Keep(p, j) /\ \E l \in PC : Goto(p, l)
    BY <1>2 DEF Begin, WithBackup, PC, ApplyPC
  <2> HIDE DEF j
  <2>5. PcType' /\ JobType' /\ WorksOnBackup'
    BY <2>3, <2>4, KeepStep
  <2> QED BY <1>2, <2>1, <2>5, Frame DEF Begin
<1>3. ASSUME BeginFails(p) PROVE TypeInv'
  BY <1>3, ExitStep, Frame DEF BeginFails, WorksOnBackup
<1>4. ASSUME CheckSwap(p) PROVE TypeInv'
  <2>1. CASE Exit(p)
    <3>1. EnvType'
      <4>1. CASE UNCHANGED envVars BY <4>1, Frame
      <4>2. CASE \E misread \in BOOLEAN : Reading(job[p].bid, misread)
        BY <1>4, <4>2, ReadingStep DEF CheckSwap, WorksOnBackup
      <4> QED BY <1>4, <4>1, <4>2 DEF CheckSwap
    <3> QED BY <1>4, <2>1, <3>1, ExitStep, Frame DEF CheckSwap, WorksOnBackup
  <2>2. CASE ~Exit(p)
    <3>0. PICK misread \in BOOLEAN :
            /\ Reading(job[p].bid, misread)
            /\ Keep(p, [job[p] EXCEPT
                 !.needsNew = swapAt = NoFile \/ inode[swapAt].size # job[p].size,
                 !.wasActive = SwapActive(misread),
                 !.file = "fstab",
                 !.line = WithEntry(disk["fstab"])])
      BY <1>4, <2>2 DEF CheckSwap
    <3> DEFINE n == swapAt = NoFile \/ inode[swapAt].size # job[p].size
               c == WithEntry(disk["fstab"])
               a == SwapActive(misread)
               j == Checked(job[p], n, a, "fstab", c)
    <3>1. n \in BOOLEAN /\ a \in BOOLEAN /\ "fstab" \in File
      BY DEF SwapActive, InUse, File
    <3>2. c \in Content
      BY ConstantTypes, <3>1 DEF FilesType
    <3> HIDE DEF n, c, a
    <3>3. Keep(p, j) /\ job[p].bid \in BackupId /\ \E l \in PC : Goto(p, l)
      <4>1. Keep(p, j) BY <3>0 DEF Checked, n, c, a
      <4>2. job[p].bid \in BackupId BY <1>4 DEF CheckSwap, WorksOnBackup
      <4>3. \E l \in {"swap-manifest", "record"} : Goto(p, l)
        BY <1>4, <2>2 DEF CheckSwap
      <4> QED BY <4>1, <4>2, <4>3 DEF PC, ApplyPC
    <3>4. j \in Job /\ j.bid = job[p].bid
      <4>1. \A x \in BOOLEAN, y \in BOOLEAN :
              /\ Checked(job[p], x, y, "fstab", c) \in Job
              /\ Checked(job[p], x, y, "fstab", c).bid = job[p].bid
        <5>1. /\ job[p] \in Job /\ job[p].mem \in Manifest /\ "fstab" \in File
              /\ c \in Content
          BY <1>0, <3>1, <3>2
        <5> HIDE DEF TypeInv, TypeOK
        <5> QED BY <5>1, JobUpdates
      <4> QED BY <3>1, <4>1
    <3> HIDE DEF j
    <3>5. PcType' /\ JobType' /\ WorksOnBackup'
      BY <3>3, <3>4, KeepStep
    <3>6. EnvType' BY <3>0, <3>3, ReadingStep
    <3> QED BY <1>4, <2>2, <3>5, <3>6, Frame DEF CheckSwap
  <2> QED BY <2>1, <2>2
<1>5. ASSUME RecordBefore(p) PROVE TypeInv'
  <2> DEFINE f == job[p].file
             m == Recorded(job[p].mem, f, disk[f], ({f} \cap DirFile) \ dirs)
  <2>1. job[p].bid \in BackupId BY <1>5 DEF RecordBefore, WorksOnBackup
  <2>2. m \in Manifest BY <1>0, RecordedType DEF FilesType
  <2>3. Save(p, m) /\ Keep(p, WithMem(job[p], m)) /\ Goto(p, "write")
    BY <1>5 DEF RecordBefore, WithMem
  <2> HIDE DEF m
  <2>4. RecordsType'
    BY <1>5, <2>1, <2>2, <2>3, SaveStep DEF RecordBefore
  <2>5. WithMem(job[p], m) \in Job /\ WithMem(job[p], m).bid = job[p].bid
    BY <1>0, <2>2, JobUpdates
  <2> QED BY <1>5, <2>1, <2>3, <2>4, <2>5, KeepStep, GotoStep, Frame
          DEF RecordBefore, WorksOnBackup, PC, ApplyPC
<1>6. ASSUME WriteFile(p) PROVE TypeInv'
  <2>1. Wanted(job[p]) \in Content BY <1>0 DEF Wanted
  <2>2. FilesType' BY <1>0, <1>6, <2>1 DEF WriteFile, FilesType
  <2>3. HistoryType' BY <1>0, <1>6, DisturbStep DEF WriteFile
  <2> QED BY <1>6, <2>2, <2>3, GotoStep, Frame DEF WriteFile, WorksOnBackup, PC, ApplyPC
<1>7. ASSUME RecordAfter(p) PROVE TypeInv'
  <2> DEFINE f == job[p].file
             m == Sealed(job[p].mem, f, disk[f])
             g == IF f = "resume" THEN "grub" ELSE f
             l == CASE f = "fstab"  -> "swap-manifest"
                    [] f = "resume" -> "record"
                    [] f = "grub"   -> "initramfs"
  <2>1. job[p].bid \in BackupId BY <1>7 DEF RecordAfter, WorksOnBackup
  <2>2. m \in Manifest BY <1>0, SealedType DEF FilesType
  <2>3. g \in File /\ l \in PC BY <1>0 DEF File, PC, ApplyPC
  <2>4. Save(p, m) /\ Keep(p, WithNextFile(job[p], m, g)) /\ Goto(p, l)
    BY <1>7 DEF RecordAfter, WithNextFile
  <2> HIDE DEF m, g, l
  <2>5. RecordsType'
    BY <1>7, <2>1, <2>2, <2>4, SaveStep DEF RecordAfter
  <2>6. /\ WithNextFile(job[p], m, g) \in Job
        /\ WithNextFile(job[p], m, g).bid = job[p].bid
    BY <1>0, <2>2, <2>3, JobUpdates
  <2> QED BY <1>7, <2>1, <2>3, <2>4, <2>5, <2>6, KeepStep, GotoStep, Frame
          DEF RecordAfter, WorksOnBackup
<1>8. ASSUME RecordSwap(p) PROVE TypeInv'
  <2> DEFINE s == [recorded |-> TRUE, existed |-> swapAt # NoFile,
                   wasActive |-> job[p].wasActive, oldNamed |-> FALSE]
             m == [job[p].mem EXCEPT !.swap = s]
  <2>1. job[p].bid \in BackupId BY <1>8 DEF RecordSwap, WorksOnBackup
  <2>2. s \in SwapRecord BY <1>0 DEF SwapRecord
  <2>3. m \in Manifest BY <1>0, <2>2, ManifestUpdates
  <2>4. Save(p, m) /\ Keep(p, WithMem(job[p], m))
    BY <1>8 DEF RecordSwap, WithMem
  <2> HIDE DEF m
  <2>5. RecordsType'
    BY <1>8, <2>1, <2>3, <2>4, SaveStep DEF RecordSwap
  <2>6. WithMem(job[p], m) \in Job /\ WithMem(job[p], m).bid = job[p].bid
    BY <1>0, <2>3, JobUpdates
  <2> QED BY <1>8, <2>1, <2>4, <2>5, <2>6, KeepStep, GotoStep, Frame
          DEF RecordSwap, WorksOnBackup, PC, ApplyPC
<1> QED BY <1>1, <1>2, <1>3, <1>4, <1>5, <1>6, <1>7, <1>8

(* The swap commands and the end of an apply. *)
LEMMA SwapAndEndType ==
  ASSUME TypeInv, NEW p \in Proc
  PROVE  /\ SwapOff(p) => TypeInv'
         /\ RetainOld(p) => TypeInv'
         /\ SaveOldName(p) => TypeInv'
         /\ CreateFile(p) => TypeInv'
         /\ Allocate(p) => TypeInv'
         /\ MkSwap(p) => TypeInv'
         /\ SwapOn(p) => TypeInv'
         /\ SwapCommandFails(p) => TypeInv'
         /\ SelectTarget(p) => TypeInv'
         /\ UpdateInitramfs(p) => TypeInv'
         /\ UpdateGrub(p) => TypeInv'
         /\ FinishApply(p) => TypeInv'
<1> USE DEF TypeInv, TypeOK
<1>0. job[p] \in Job /\ job[p].mem \in Manifest /\ job[p].size \in Nat
      /\ job[p].file \in File /\ job[p].want \in Content
  BY DEF JobType, Job
<1>1. ASSUME SwapOff(p) PROVE TypeInv'
  <2>1. SwapType' BY <1>1 DEF SwapOff, SwapType
  <2>2. HistoryType' BY <1>1, DisturbStep DEF SwapOff
  <2> QED BY <1>1, <2>1, <2>2, GotoStep, Frame DEF SwapOff, WorksOnBackup, PC, ApplyPC
<1>2. ASSUME RetainOld(p) PROVE TypeInv'
  <2>1. SwapType' BY <1>2 DEF RetainOld, SwapType
  <2>2. HistoryType' BY <1>2, DisturbStep DEF RetainOld, HistoryType
  <2>3. PcType' /\ WorksOnBackup'
    BY <1>2, GotoStep DEF RetainOld, PC, ApplyPC
  <2> QED BY <1>2, <2>1, <2>2, <2>3, Frame DEF RetainOld
<1>3. ASSUME SaveOldName(p) PROVE TypeInv'
  <2> DEFINE m == [job[p].mem EXCEPT !.swap.oldNamed = TRUE]
  <2>1. job[p].bid \in BackupId BY <1>3 DEF SaveOldName, WorksOnBackup
  <2>2. m \in Manifest BY <1>0, ManifestUpdates
  <2>3. Save(p, m) /\ Keep(p, WithMem(job[p], m)) /\ Goto(p, "create")
    BY <1>3 DEF SaveOldName, WithMem
  <2> HIDE DEF m
  <2>4. RecordsType'
    BY <1>3, <2>1, <2>2, <2>3, SaveStep DEF SaveOldName
  <2>5. WithMem(job[p], m) \in Job /\ WithMem(job[p], m).bid = job[p].bid
    BY <1>0, <2>2, JobUpdates
  <2> QED BY <1>3, <2>1, <2>3, <2>4, <2>5, KeepStep, GotoStep, Frame
          DEF SaveOldName, WorksOnBackup, PC, ApplyPC
<1>4. ASSUME CreateFile(p) PROVE TypeInv'
  <2>1. job[p].bid \in InodeId
    BY <1>4, BoundAssumption DEF CreateFile, WorksOnBackup, BackupId, InodeId
  <2>2. SwapType' BY <1>4, <2>1 DEF CreateFile, SwapType
  <2>3. HistoryType' BY <1>4, DisturbStep DEF CreateFile
  <2> QED BY <1>4, <2>2, <2>3, GotoStep, Frame DEF CreateFile, WorksOnBackup, PC, ApplyPC
<1>5. ASSUME Allocate(p) PROVE TypeInv'
  <2> DEFINE i == IF swapAt = NoFile THEN job[p].bid ELSE swapAt
  <2>1. i \in InodeId
    <3>1. job[p].bid \in InodeId
      BY <1>5, BoundAssumption DEF Allocate, WorksOnBackup, BackupId, InodeId
    <3> QED BY <3>1 DEF SwapType
  <2>2. swapAt' = i /\ inode' = [inode EXCEPT ![i].size = job[p].size]
    BY <1>5 DEF Allocate
  <2> HIDE DEF i
  <2>3. SwapType' BY <1>0, <1>5, <2>1, <2>2 DEF Allocate, SwapType
  <2>4. HistoryType' BY <1>5, DisturbStep DEF Allocate
  <2> QED BY <1>5, <2>3, <2>4, GotoStep, Frame DEF Allocate, WorksOnBackup, PC, ApplyPC
<1>6. ASSUME MkSwap(p) PROVE TypeInv'
  <2>1. SwapType' BY <1>6 DEF MkSwap, SwapType
  <2> QED BY <1>6, <2>1, GotoStep, Frame DEF MkSwap, WorksOnBackup, PC, ApplyPC
<1>7. ASSUME SwapOn(p) PROVE TypeInv'
  <2>1. SwapType' BY <1>7 DEF SwapOn, SwapType
  <2>2. HistoryType' BY <1>7, DisturbStep DEF SwapOn
  <2> QED BY <1>7, <2>1, <2>2, GotoStep, Frame DEF SwapOn, WorksOnBackup, PC, ApplyPC
<1>8. ASSUME SwapCommandFails(p) PROVE TypeInv'
  <2>1. job[p].bid \in BackupId BY <1>8 DEF SwapCommandFails, WorksOnBackup
  <2>2. SwapType' BY <1>8, <2>1 DEF SwapCommandFails, SwapType
  <2>3. HistoryType' BY <1>8, DisturbStep DEF SwapCommandFails, HistoryType
  <2>4. EnvType' BY <1>8, FaultStep, Frame DEF SwapCommandFails
  <2> QED BY <1>8, <2>2, <2>3, <2>4, ExitStep, Frame DEF SwapCommandFails, WorksOnBackup
<1>9. ASSUME SelectTarget(p) PROVE TypeInv'
  <2>1. CASE Exit(p)
    BY <1>9, <2>1, ExitStep, Frame DEF SelectTarget, WorksOnBackup
  <2>2. CASE ~Exit(p)
    <3>1. ForSwap(swapAt) \in Content /\ "resume" \in File
      BY <1>9, <2>2, ConstantTypes, BoundAssumption DEF SelectTarget, InUse, SwapType, InodeId, File
    <3>2. /\ WithTarget(job[p], ForSwap(swapAt), "resume") \in Job
          /\ WithTarget(job[p], ForSwap(swapAt), "resume").bid = job[p].bid
      BY <1>0, <3>1, JobUpdates
    <3>3. job[p].bid \in BackupId BY <1>9 DEF SelectTarget, WorksOnBackup
    <3>4. Keep(p, WithTarget(job[p], ForSwap(swapAt), "resume")) /\ Goto(p, "record")
      BY <1>9, <2>2 DEF SelectTarget, WithTarget
    <3>5. PcType' /\ JobType' /\ WorksOnBackup'
      BY <3>2, <3>3, <3>4, KeepStep DEF PC, ApplyPC
    <3> QED BY <1>9, <2>2, <3>5, Frame DEF SelectTarget
  <2> QED BY <2>1, <2>2
<1>10. ASSUME UpdateInitramfs(p) PROVE TypeInv'
  <2>1. BootType' BY <1>10 DEF UpdateInitramfs, BootType, FilesType, File
  <2>2. EnvType' BY <1>10, FaultStep, Frame DEF UpdateInitramfs
  <2>3. PcType' /\ WorksOnBackup'
    BY <1>10, GotoStep DEF UpdateInitramfs, PC, ApplyPC
  <2> QED BY <1>10, <2>1, <2>2, <2>3, Frame DEF UpdateInitramfs
<1>11. ASSUME UpdateGrub(p) PROVE TypeInv'
  <2>1. BootType' BY <1>11 DEF UpdateGrub, BootType, FilesType, File
  <2>2. EnvType' BY <1>11, FaultStep, Frame DEF UpdateGrub
  <2>3. PcType' /\ WorksOnBackup'
    BY <1>11, GotoStep DEF UpdateGrub, PC, ApplyPC
  <2> QED BY <1>11, <2>1, <2>2, <2>3, Frame DEF UpdateGrub
<1>12. ASSUME FinishApply(p) PROVE TypeInv'
  <2> DEFINE s == IF pc[p] = "complete" THEN "completed" ELSE "failed"
  <2>1. job[p].bid \in BackupId BY <1>12 DEF FinishApply, WorksOnBackup
  <2>2. s \in Status BY DEF Status, Eligible
  <2>3. [job[p].mem EXCEPT !.status = s] \in Manifest BY <1>0, <2>2, ManifestUpdates
  <2>4. RecordsType' BY <1>12, <2>1, <2>3, SaveStep DEF FinishApply
  <2> QED BY <1>12, <2>4, ExitStep, Frame DEF FinishApply, WorksOnBackup
<1> QED BY <1>1, <1>2, <1>3, <1>4, <1>5, <1>6, <1>7, <1>8, <1>9, <1>10, <1>11, <1>12

LEMMA ApplyType ==
  ASSUME TypeInv, NEW p \in Proc, ApplyStep(p)
  PROVE  TypeInv'
BY WritingType, SwapAndEndType DEF ApplyStep

LEMMA RollbackType ==
  ASSUME TypeInv, NEW p \in Proc, RollbackStep(p)
  PROVE  TypeInv'
<1> USE DEF TypeInv, TypeOK
<1> DEFINE b == job[p].bid
<1>0. /\ job[p] \in Job /\ job[p].mem \in Manifest /\ job[p].file \in File
      /\ job[p].want \in Content /\ job[p].orig \in Status
  BY DEF JobType, Job
<1>1. CASE AcquireLock(p)
  <2>1. CASE lock = NoProc
    BY <1>1, <2>1, GotoStep, Frame DEF AcquireLock, LockType, PC, LockedPC, ExecPC
  <2>2. CASE lock # NoProc
    BY <1>1, <2>2, ExitStep, Frame DEF AcquireLock
  <2> QED BY <2>1, <2>2
<1>2. CASE LoadManifest(p)
  <2> DEFINE m == manifest[b]
  <2>1. CASE CanRollBack(m)
    <3>1. b \in BackupId /\ m \in Manifest
      BY <1>2 DEF LoadManifest, WorksOnBackup, RecordsType
    <3>2. m.status \in Status BY <3>1, ManifestUpdates
    <3>3. WithOriginal(job[p], m, m.status) \in Job /\ WithOriginal(job[p], m, m.status).bid = b
      BY <1>0, <3>1, <3>2, JobUpdates
    <3>4. Keep(p, WithOriginal(job[p], m, m.status)) /\ Goto(p, "rb-mark")
      BY <1>2, <2>1 DEF LoadManifest, WithOriginal
    <3>5. PcType' /\ JobType' /\ WorksOnBackup'
      BY <3>1, <3>3, <3>4, KeepStep DEF PC, LockedPC, ExecPC
    <3> QED BY <1>2, <2>1, <3>5, Frame DEF LoadManifest
  <2>2. CASE ~CanRollBack(m)
    BY <1>2, <2>2, ExitStep, Frame DEF LoadManifest
  <2> QED BY <2>1, <2>2
<1>3. CASE MarkRollingBack(p)
  <2> DEFINE m == [job[p].mem EXCEPT !.status = "rollback-in-progress"]
  <2>1. b \in BackupId BY <1>3 DEF MarkRollingBack, WorksOnBackup
  <2>2. m \in Manifest BY <1>0, ManifestUpdates DEF Status
  <2>3. Save(p, m) /\ Keep(p, WithMem(job[p], m)) /\ Goto(p, "rb-snapshot")
    BY <1>3 DEF MarkRollingBack, WithMem
  <2> HIDE DEF m
  <2>4. RecordsType'
    BY <1>3, <2>1, <2>2, <2>3, SaveStep DEF MarkRollingBack
  <2>5. WithMem(job[p], m) \in Job /\ WithMem(job[p], m).bid = b
    BY <1>0, <2>2, JobUpdates
  <2>6. PcType' /\ JobType' /\ WorksOnBackup'
    BY <2>1, <2>3, <2>5, KeepStep DEF PC, LockedPC, ExecPC
  <2> QED BY <1>3, <2>4, <2>6, Frame DEF MarkRollingBack
<1>4. CASE SafetySnapshot(p)
  BY <1>4, NewManifestStep, GotoStep, Frame DEF SafetySnapshot, PC, LockedPC, ExecPC
<1>5. CASE SafetySnapshotFails(p)
  <2>1. b \in BackupId BY <1>5 DEF SafetySnapshotFails, WorksOnBackup
  <2>2. [job[p].mem EXCEPT !.status = job[p].orig] \in Manifest
    BY <1>0, ManifestUpdates
  <2>3. RecordsType' BY <1>5, <2>1, <2>2, SaveStep DEF SafetySnapshotFails
  <2> QED BY <1>5, <2>3, ExitStep, Frame DEF SafetySnapshotFails
<1>6. CASE PlanRollback(p)
  <2> DEFINE m == manifest[b]
             t == BuildPlan(m, disk, dirs, old[b] # NoFile, swapAt # NoFile)
  <2>1. b \in BackupId /\ m \in Manifest
    BY <1>6 DEF PlanRollback, WorksOnBackup, RecordsType
  <2>2. t \in SUBSET Action BY PlanType
  <2>3. Keep(p, WithPlan(job[p], m, t)) /\ Goto(p, "rb-exec")
    BY <1>6 DEF PlanRollback, WithPlan
  <2> HIDE DEF t
  <2>4. WithPlan(job[p], m, t) \in Job /\ WithPlan(job[p], m, t).bid = b
    BY <1>0, <2>1, <2>2, JobUpdates
  <2>5. PcType' /\ JobType' /\ WorksOnBackup'
    BY <2>1, <2>3, <2>4, KeepStep DEF PC, LockedPC, ExecPC
  <2> QED BY <1>6, <2>5, Frame DEF PlanRollback
<1>7. CASE RestoreFile(p)
  <2> DEFINE f == Next1(p)
             m == manifest[b]
  <2>1. b \in BackupId /\ m \in Manifest /\ f \in File
    BY <1>7 DEF RestoreFile, Doing, WorksOnBackup, RecordsType
  <2>2. m.files[f].before \in Content BY <2>1, ManifestUpdates
  <2> HIDE DEF f
  <2>3. FilesType' BY <1>7, <2>1, <2>2 DEF RestoreFile, FilesType, f
  <2>4. HistoryType' BY <1>7, <2>1, DisturbStep DEF RestoreFile, f
  <2>5. Keep(p, WithMem(Succeeded(job[p]), m)) /\ UNCHANGED pc
    BY <1>7 DEF RestoreFile, WithMem
  <2>6. WithMem(Succeeded(job[p]), m) \in Job /\ WithMem(Succeeded(job[p]), m).bid = b
    BY <1>0, <2>1, ResultJobs
  <2>7. JobType' /\ WorksOnBackup' BY <2>5, <2>6, StayStep
  <2> QED BY <1>7, <2>3, <2>4, <2>7, Frame DEF RestoreFile
<1>8. CASE RemoveDir(p)
  <2>1. FilesType' BY <1>8 DEF RemoveDir, FilesType
  <2>2. JobType' /\ WorksOnBackup' BY <1>0, <1>8, ResultJobs, StayStep DEF RemoveDir
  <2> QED BY <1>8, <2>1, <2>2, Frame DEF RemoveDir
<1>9. CASE Regenerate(p)
  <2>1. BootType' BY <1>9 DEF Regenerate, BootType, FilesType, File
  <2>2. JobType' /\ WorksOnBackup' BY <1>0, <1>9, ResultJobs, StayStep DEF Regenerate
  <2> QED BY <1>9, <2>1, <2>2, Frame DEF Regenerate
<1>10. CASE SwapRollbackBegins(p)
  <2>1. b \in BackupId /\ manifest[b] \in Manifest
    BY <1>10 DEF SwapRollbackBegins, Doing, WorksOnBackup, RecordsType
  <2>2. SwapType' BY <1>10 DEF SwapRollbackBegins, SwapType
  <2>3. HistoryType' BY <1>10, DisturbStep DEF SwapRollbackBegins, HistoryType
  <2>4. PcType' /\ JobType' /\ WorksOnBackup'
    <3>1. CASE Keep(p, Failed(job[p])) /\ UNCHANGED pc
      BY <1>0, <3>1, ResultJobs, StayStep, Frame
    <3>2. CASE ~(Keep(p, Failed(job[p])) /\ UNCHANGED pc)
      <4>1. Keep(p, WithMem(job[p], manifest[b])) /\ \E l \in PC : Goto(p, l)
        BY <1>10, <3>2 DEF SwapRollbackBegins, WithMem, PC, LockedPC, ExecPC
      <4>2. WithMem(job[p], manifest[b]) \in Job /\ WithMem(job[p], manifest[b]).bid = b
        BY <1>0, <2>1, JobUpdates
      <4> QED BY <2>1, <4>1, <4>2, KeepStep
    <3> QED BY <3>1, <3>2
  <2>5. EnvType'
    <3>1. CASE UNCHANGED envVars BY <3>1, Frame
    <3>2. CASE \E misread \in BOOLEAN : Reading(b, misread)
      BY <2>1, <3>2, ReadingStep
    <3> QED BY <1>10, <3>1, <3>2 DEF SwapRollbackBegins
  <2> QED BY <1>10, <2>2, <2>3, <2>4, <2>5, Frame DEF SwapRollbackBegins
<1>11. CASE ParkCurrent(p)
  <2>1. b \in BackupId BY <1>11 DEF ParkCurrent, WorksOnBackup
  <2>2. SwapType' BY <1>11, <2>1 DEF ParkCurrent, SwapType
  <2>3. RecordsType' BY <1>0, <1>11, <2>1, SaveStep DEF ParkCurrent, RecordsType
  <2>4. HistoryType' BY <1>11, DisturbStep DEF ParkCurrent, HistoryType
  <2>5. PcType' /\ WorksOnBackup' BY <1>11, GotoStep DEF ParkCurrent, PC, LockedPC, ExecPC
  <2> QED BY <1>11, <2>2, <2>3, <2>4, <2>5, Frame DEF ParkCurrent
<1>12. CASE RestoreOld(p)
  <2>1. b \in BackupId BY <1>12 DEF RestoreOld, WorksOnBackup
  <2>2. SwapType' BY <1>12, <2>1 DEF RestoreOld, SwapType
  <2>3. HistoryType' BY <1>12, DisturbStep DEF RestoreOld
  <2>4. PcType' /\ JobType' /\ WorksOnBackup'
    <3>1. CASE job[p].mem.swap.wasActive
      BY <1>12, <3>1, GotoStep, Frame DEF RestoreOld, PC, LockedPC, ExecPC
    <3>2. CASE ~job[p].mem.swap.wasActive
      BY <1>0, <1>12, <2>1, <3>2, ResultJobs, KeepStep DEF RestoreOld, PC, LockedPC, ExecPC
    <3> QED BY <3>1, <3>2
  <2> QED BY <1>12, <2>2, <2>3, <2>4, Frame DEF RestoreOld
<1>13. CASE SwapBackOn(p)
  <2>1. b \in BackupId BY <1>13 DEF SwapBackOn, WorksOnBackup
  <2>2. SwapType' BY <1>13 DEF SwapBackOn, SwapType
  <2>3. HistoryType' BY <1>13, DisturbStep DEF SwapBackOn
  <2>4. PcType' /\ JobType' /\ WorksOnBackup'
    BY <1>0, <1>13, <2>1, ResultJobs, KeepStep DEF SwapBackOn, PC, LockedPC, ExecPC
  <2> QED BY <1>13, <2>2, <2>3, <2>4, Frame DEF SwapBackOn
<1>14. CASE UnlinkSwap(p)
  <2>1. b \in BackupId BY <1>14 DEF UnlinkSwap, WorksOnBackup
  <2>2. SwapType' BY <1>14 DEF UnlinkSwap, SwapType
  <2>3. HistoryType' BY <1>14, DisturbStep DEF UnlinkSwap
  <2>4. PcType' /\ JobType' /\ WorksOnBackup'
    BY <1>0, <1>14, <2>1, ResultJobs, KeepStep DEF UnlinkSwap, PC, LockedPC, ExecPC
  <2> QED BY <1>14, <2>2, <2>3, <2>4, Frame DEF UnlinkSwap
<1>15. CASE ActionFails(p)
  <2>1. b \in BackupId BY <1>15 DEF ActionFails, Doing, WorksOnBackup
  <2>2. EnvType' BY <1>15, FaultStep, Frame DEF ActionFails
  <2>3. PcType' /\ JobType' /\ WorksOnBackup'
    BY <1>0, <1>15, <2>1, ResultJobs, KeepStep DEF ActionFails, PC, LockedPC, ExecPC
  <2> QED BY <1>15, <2>2, <2>3, Frame DEF ActionFails
<1>16. CASE FinishRollback(p)
  <2>1. b \in BackupId BY <1>16 DEF FinishRollback, WorksOnBackup
  <2>2. [job[p].mem EXCEPT !.status = FinalStatus(job[p])] \in Manifest
    BY <1>0, ManifestUpdates, FinalStatusType
  <2>3. RecordsType' BY <1>16, <2>1, <2>2, SaveStep DEF FinishRollback
  <2> QED BY <1>16, <2>3, ExitStep, Frame DEF FinishRollback
<1> QED BY <1>1, <1>2, <1>3, <1>4, <1>5, <1>6, <1>7, <1>8, <1>9, <1>10, <1>11, <1>12,
           <1>13, <1>14, <1>15, <1>16 DEF RollbackStep

LEMMA CrashType ==
  ASSUME TypeInv, NEW p \in Proc, Crash(p)
  PROVE  TypeInv'
BY ExitStep, FaultStep, Frame DEF TypeInv, TypeOK, Crash

LEMMA RebootType ==
  ASSUME TypeInv, Reboot
  PROVE  TypeInv'
<1> USE DEF TypeInv, TypeOK
<1>1. PcType' /\ JobType' /\ LockType' /\ WorksOnBackup'
  BY ConstantTypes DEF Reboot, PcType, JobType, LockType, WorksOnBackup, PC
<1>2. BootType' /\ SwapType' BY DEF Reboot, BootType, SwapType
<1>3. HistoryType' BY DisturbStep DEF Reboot, HistoryType
<1>4. EnvType' BY FaultStep DEF Reboot
<1> QED BY <1>1, <1>2, <1>3, <1>4, Frame DEF Reboot

LEMMA EditType ==
  ASSUME TypeInv, NEW f \in File, EditFile(f)
  PROVE  TypeInv'
<1> USE DEF TypeInv, TypeOK
<1>1. FilesType'
  <2>1. Own(edits + 1) \in Content /\ Absent \in Content
    BY ConstantTypes, BoundAssumption DEF EnvType
  <2> QED BY <2>1 DEF EditFile, FilesType
<1>2. HistoryType' BY DisturbStep DEF EditFile
<1>3. EnvType' BY BoundAssumption DEF EditFile, EnvType
<1>4. WorksOnBackup' BY DEF EditFile, WorksOnBackup
<1> QED BY <1>1, <1>2, <1>3, <1>4, Frame DEF EditFile

LEMMA TypeInit == Init => TypeInv
<1> SUFFICES ASSUME Init PROVE TypeInv
  OBVIOUS
<1>1. FilesType
  <2>1. PICK k \in Found :
          disk = [fstab  |-> IF swapAt = 0 THEN WithEntry(Own(0)) ELSE Own(0),
                  resume |-> [kind |-> k, n |-> 0],
                  grub   |-> IF k = "own" THEN Absent ELSE [kind |-> k, n |-> 0]]
    BY DEF Init
  <2>2. [kind |-> k, n |-> 0] \in Content BY FoundAssumption DEF Content, Kind
  <2> DEFINE a == IF swapAt = 0 THEN WithEntry(Own(0)) ELSE Own(0)
             g == IF k = "own" THEN Absent ELSE [kind |-> k, n |-> 0]
             r == [kind |-> k, n |-> 0]
  <2>3. a \in Content /\ g \in Content /\ r \in Content BY <2>2, ConstantTypes
  <2>4. disk = [fstab |-> a, resume |-> r, grub |-> g] BY <2>1
  <2> HIDE DEF a, g, r
  <2>5. disk \in [File -> Content] BY <2>3, <2>4 DEF File
  <2>6. dirs \subseteq DirFile BY DEF Init
  <2> QED BY <2>5, <2>6 DEF FilesType
<1>2. BootType BY <1>1 DEF Init, BootType, FilesType, File
<1>3. SwapType
  <2>1. PICK s \in Sizes : inode = [i \in InodeId |-> IF i = 0 THEN [size |-> s, fmt |-> TRUE]
                                                       ELSE [size |-> 0, fmt |-> FALSE]]
    BY DEF Init
  <2>2. inode \in [InodeId -> [size : Nat, fmt : BOOLEAN]] BY <2>1, SizesAssumption
  <2>3. 0 \in InodeId BY BoundAssumption DEF InodeId
  <2> QED BY <2>2, <2>3 DEF Init, SwapType
<1>4. RecordsType BY ConstantTypes, BoundAssumption DEF Init, RecordsType
<1>5. Machine \in MachineType BY <1>1, <1>2, <1>3 DEF Machine, MachineType, FilesType, BootType, SwapType
<1>6. HistoryType BY <1>5 DEF Init, HistoryType
<1>7. LockType /\ PcType /\ JobType /\ EnvType /\ WorksOnBackup
  BY ConstantTypes, BoundAssumption DEF Init, LockType, PcType, JobType, EnvType, WorksOnBackup, PC
<1> QED BY <1>1, <1>2, <1>3, <1>4, <1>6, <1>7 DEF TypeInv, TypeOK

LEMMA TypeNext == TypeInv /\ [Next]_vars => TypeInv'
<1> SUFFICES ASSUME TypeInv, [Next]_vars PROVE TypeInv'
  OBVIOUS
<1>1. CASE UNCHANGED vars
  BY <1>1, Frame DEF vars, TypeInv, TypeOK, WorksOnBackup, fileVars, bootVars, swapVars,
                     recVars, envVars, histVars
<1> QED BY <1>1, StartType, ApplyType, RollbackType, CrashType, RebootType, EditType
        DEF Next, Environment

THEOREM TypeInvariant == Spec => []TypeInv
BY TypeInit, TypeNext, PTL DEF Spec

(* Every state the helper can reach is well typed. *)
THEOREM TypeCorrect == Spec => []TypeOK
BY TypeInvariant, PTL DEF TypeInv

-----------------------------------------------------------------------------
(* The operation lock *)

(* What a step of one process does to the lock: it stays inside or outside *)
(* the locked part, enters it when the lock is free, or ends.              *)
LockMove(p) ==
  \/ \E l \in PC : Goto(p, l) /\ UNCHANGED lock /\ (l \in LockedPC <=> pc[p] \in LockedPC)
  \/ lock = NoProc /\ lock' = p /\ \E l \in LockedPC : Goto(p, l)
  \/ Exit(p)
  \/ UNCHANGED <<pc, lock>>

LEMMA LockMoves ==
  ASSUME JobType, NEW p \in Proc, Start(p) \/ ApplyStep(p) \/ RollbackStep(p) \/ Crash(p)
  PROVE  LockMove(p)
<1> USE DEF LockMove, PC, ApplyPC, LockedPC, ExecPC
<1>1. CASE Start(p)
  <2>1. pc[p] = "idle" /\ UNCHANGED lock /\ \E l \in {"validate", "begin", "rb-lock"} : Goto(p, l)
    BY <1>1 DEF Start, StartTargetApply, StartSwapApply, StartRollback, CanStart
  <2> QED BY <2>1
<1>2. CASE ApplyStep(p)
  <2>1. CASE ValidateTarget(p) \/ Begin(p) \/ BeginFails(p) \/ CheckSwap(p)
    <3>1. CASE CheckSwap(p)
      <4>1. Exit(p) \/ (UNCHANGED lock /\ \E l \in {"swap-manifest", "record"} : Goto(p, l))
        BY <3>1 DEF CheckSwap
      <4>2. pc[p] = "check-swap" BY <3>1 DEF CheckSwap
      <4> QED BY <4>1, <4>2
    <3> QED BY <2>1, <3>1 DEF ValidateTarget, Begin, BeginFails
  <2>2. CASE RecordBefore(p) \/ WriteFile(p) \/ RecordAfter(p) \/ RecordSwap(p)
    <3>1. CASE RecordAfter(p)
      <4>1. PICK l \in {"swap-manifest", "record", "initramfs"} : Goto(p, l)
        BY <3>1 DEF RecordAfter, JobType, Job, File
      <4> QED BY <3>1, <4>1 DEF RecordAfter
    <3> QED BY <2>2, <3>1 DEF RecordBefore, WriteFile, RecordSwap
  <2>3. CASE SwapOff(p) \/ RetainOld(p) \/ SaveOldName(p) \/ CreateFile(p) \/ Allocate(p)
    BY <2>3 DEF SwapOff, RetainOld, SaveOldName, CreateFile, Allocate
  <2>4. CASE MkSwap(p) \/ SwapOn(p) \/ SwapCommandFails(p) \/ SelectTarget(p)
    BY <2>4 DEF MkSwap, SwapOn, SwapCommandFails, SelectTarget
  <2>5. CASE UpdateInitramfs(p) \/ UpdateGrub(p) \/ FinishApply(p)
    BY <2>5 DEF UpdateInitramfs, UpdateGrub, FinishApply
  <2> QED BY <1>2, <2>1, <2>2, <2>3, <2>4, <2>5 DEF ApplyStep
<1>3. CASE RollbackStep(p)
  <2>1. CASE AcquireLock(p) \/ LoadManifest(p) \/ MarkRollingBack(p) \/ SafetySnapshot(p)
    BY <2>1 DEF AcquireLock, LoadManifest, MarkRollingBack, SafetySnapshot
  <2>2. CASE SafetySnapshotFails(p) \/ PlanRollback(p) \/ RestoreFile(p) \/ RemoveDir(p)
    BY <2>2 DEF SafetySnapshotFails, PlanRollback, RestoreFile, RemoveDir
  <2>3. CASE Regenerate(p) \/ SwapRollbackBegins(p) \/ ParkCurrent(p) \/ RestoreOld(p)
    BY <2>3 DEF Regenerate, SwapRollbackBegins, Doing, ParkCurrent, RestoreOld
  <2>4. CASE SwapBackOn(p) \/ UnlinkSwap(p) \/ ActionFails(p) \/ FinishRollback(p)
    BY <2>4 DEF SwapBackOn, UnlinkSwap, ActionFails, Doing, FinishRollback
  <2> QED BY <1>3, <2>1, <2>2, <2>3, <2>4 DEF RollbackStep
<1>4. CASE Crash(p) BY <1>4 DEF Crash
<1> QED BY <1>1, <1>2, <1>3, <1>4

LEMMA LockNext ==
  ASSUME TypeInv, RollbackExclusive, [Next]_vars
  PROVE  RollbackExclusive'
<1> USE DEF TypeInv, TypeOK, PcType, LockType, RollbackExclusive
<1>1. ASSUME NEW p \in Proc, LockMove(p) PROVE RollbackExclusive'
  BY <1>1, ProcAssumption DEF LockMove, Exit, Goto, LockedPC, ExecPC
<1>2. CASE Reboot
  BY <1>2, ProcAssumption DEF Reboot, LockedPC, ExecPC
<1>3. CASE (\E f \in File : EditFile(f)) \/ UNCHANGED vars
  BY <1>3 DEF EditFile, vars
<1> QED BY <1>1, <1>2, <1>3, LockMoves DEF Next, Environment

(* Two rollbacks never run together, and the lock is held exactly while    *)
(* one is inside cmd_rollback's locked part, for any number of helpers.    *)
THEOREM LockCorrect == Spec => []RollbackExclusive
<1>1. Init => RollbackExclusive
  BY ProcAssumption DEF Init, RollbackExclusive, LockedPC, ExecPC
<1> QED BY <1>1, LockNext, TypeInvariant, PTL DEF Spec

(* When no helper runs the lock is free and every backup that is not       *)
(* rolled back can be rolled back, wherever the apply, the rollback or the *)
(* machine stopped (cmd_rollback), for any number of helpers.              *)
THEOREM RetryableCorrect == Spec => []Retryable
<1>1. TypeOK /\ RollbackExclusive => Retryable
  <2> SUFFICES ASSUME TypeOK, RollbackExclusive, AllIdle PROVE Retryable
    BY DEF Retryable
  <2>1. lock = NoProc
    BY DEF TypeOK, LockType, RollbackExclusive, AllIdle, LockedPC, ExecPC
  <2>2. \A b \in BackupId : manifest[b].status \in Status
    BY ManifestUpdates DEF TypeOK, RecordsType
  <2> QED BY <2>1, <2>2 DEF Retryable, CanRollBack, Status
<1> QED BY <1>1, LockCorrect, TypeCorrect, PTL

-----------------------------------------------------------------------------
(* Write-ahead: what is recorded, and what a process holds of it *)

(* Only one process runs. *)
OneAtATime == \A p, q \in Proc : pc[p] # "idle" /\ pc[q] # "idle" => p = q

(* The backups begun so far are those below nextId, and each tells the     *)
(* truth about the files nobody else changed.                              *)
Begun == \A b \in BackupId : manifest[b].status = "none" <=> b >= nextId

RecordedTruly ==
  \A b \in BackupId : \A f \in File \ foreign[b] :
    manifest[b].status # "none" =>
      LET r == manifest[b].files[f]
      IN  IF r.recorded THEN r.before = base[b].disk[f] ELSE disk[f] = base[b].disk[f]

RecordInv == Begun /\ RecordedTruly

(* Where a process holds the manifest in memory, and where it executes a   *)
(* plan.                                                                   *)
HoldingPC == PC \ {"idle", "validate", "begin", "rb-lock", "rb-load"}

Local(p) ==
  LET b == job[p].bid
  IN  /\ pc[p] \notin {"idle", "validate", "begin"} => manifest[b].status # "none"
      /\ pc[p] \in HoldingPC => job[p].mem = manifest[b]
      /\ pc[p] \in {"rb-mark", "rb-snapshot"} => job[p].orig # "none"
      /\ pc[p] = "write" => manifest[b].files[job[p].file].recorded
      /\ pc[p] \in ExecPC => \A f \in File \cap job[p].todo : manifest[b].files[f].recorded

ReversibleInv == OneAtATime /\ RecordInv /\ \A p \in Proc : Local(p)

-----------------------------------------------------------------------------
(* What a step does to the machine and the manifests *)

LEMMA QuietEffect ==
  ASSUME RecordInv, UNCHANGED <<disk, manifest, nextId, base>>,
         \A b \in BackupId : foreign[b] \subseteq foreign'[b]
  PROVE  RecordInv'
BY DEF RecordInv, Begun, RecordedTruly

LEMMA DisturbGrows ==
  ASSUME HistoryType, NEW b, NEW x, Disturb(b, x)
  PROVE  \A c \in BackupId : foreign[c] \subseteq foreign'[c]
BY DEF HistoryType, Disturb

(* A manifest is saved: files keep their record, or get a true one. *)
LEMMA SaveEffect ==
  ASSUME TypeOK, RecordInv, NEW b \in BackupId, NEW m \in Manifest,
         manifest[b].status # "none", m.status # "none",
         manifest' = [manifest EXCEPT ![b] = m],
         UNCHANGED <<disk, nextId, base, foreign>>,
         \A f \in File :
           \/ /\ m.files[f].recorded = manifest[b].files[f].recorded
              /\ m.files[f].before = manifest[b].files[f].before
           \/ /\ ~manifest[b].files[f].recorded
              /\ m.files[f].recorded /\ m.files[f].before = disk[f]
  PROVE  RecordInv'
<1> USE DEF TypeOK, RecordsType
<1>1. Begun' BY DEF RecordInv, Begun
<1>2. ASSUME NEW c \in BackupId, NEW f \in File \ foreign[c], manifest'[c].status # "none"
      PROVE  IF manifest'[c].files[f].recorded
             THEN manifest'[c].files[f].before = base[c].disk[f]
             ELSE disk[f] = base[c].disk[f]
  <2>1. CASE c = b
    <3>1. manifest'[c] = m BY <2>1
    <3> QED BY <1>2, <2>1, <3>1 DEF RecordInv, RecordedTruly
  <2>2. CASE c # b
    <3>1. manifest'[c] = manifest[c] BY <2>2
    <3> QED BY <1>2, <3>1 DEF RecordInv, RecordedTruly
  <2> QED BY <2>1, <2>2
<1>3. RecordedTruly' BY <1>2 DEF RecordedTruly
<1> QED BY <1>1, <1>3 DEF RecordInv

(* A file is written by b, or by the operator when b is no backup. *)
LEMMA WriteEffect ==
  ASSUME TypeOK, RecordInv, NEW b, NEW f \in File, Disturb(b, f),
         UNCHANGED <<manifest, nextId, base>>,
         \A g \in File \ {f} : disk'[g] = disk[g],
         b \in BackupId => manifest[b].files[f].recorded
  PROVE  RecordInv'
<1> USE DEF TypeOK, HistoryType
<1>1. Begun' BY DEF RecordInv, Begun
<1>2. ASSUME NEW c \in BackupId, NEW g \in File \ foreign'[c], manifest[c].status # "none"
      PROVE  IF manifest[c].files[g].recorded
             THEN manifest[c].files[g].before = base[c].disk[g]
             ELSE disk'[g] = base[c].disk[g]
  <2>1. g \notin foreign[c] /\ (g = f => c = b)
    <3>1. ~(c >= nextId) BY <1>2 DEF RecordInv, Begun
    <3> QED BY <3>1 DEF Disturb
  <2>2. CASE g = f BY <1>2, <2>1, <2>2 DEF RecordInv, RecordedTruly
  <2>3. CASE g # f BY <1>2, <2>1, <2>3 DEF RecordInv, RecordedTruly
  <2> QED BY <2>2, <2>3
<1>3. RecordedTruly' BY <1>2 DEF RecordedTruly
<1> QED BY <1>1, <1>3 DEF RecordInv

LEMMA BeginEffect ==
  ASSUME TypeOK, RecordInv, NewManifest, UNCHANGED disk
  PROVE  RecordInv' /\ \A b \in BackupId : manifest[b].status # "none" => manifest'[b] = manifest[b]
<1> USE DEF TypeOK, RecordsType, HistoryType
<1>1. EmptyManifest.status = "in-progress" /\ \A f \in File : ~EmptyManifest.files[f].recorded
  BY DEF EmptyManifest, NoManifest, NoRecord
<1>2. nextId \in BackupId /\ nextId' = nextId + 1 /\ manifest'[nextId] = EmptyManifest
      /\ \A c \in BackupId \ {nextId} : manifest'[c] = manifest[c]
  BY DEF NewManifest
<1>3. Begun' BY <1>1, <1>2 DEF RecordInv, Begun, BackupId
<1>4. base'[nextId].disk = disk /\ \A c \in BackupId \ {nextId} : base'[c] = base[c]
  BY <1>2 DEF NewManifest, Machine
<1>5. ASSUME NEW c \in BackupId, NEW f \in File \ foreign[c], manifest'[c].status # "none"
      PROVE  IF manifest'[c].files[f].recorded
             THEN manifest'[c].files[f].before = base'[c].disk[f]
             ELSE disk[f] = base'[c].disk[f]
  <2>1. CASE c = nextId BY <1>1, <1>2, <1>4, <2>1
  <2>2. CASE c # nextId BY <1>2, <1>4, <1>5, <2>2 DEF RecordInv, RecordedTruly
  <2> QED BY <2>1, <2>2
<1>6. RecordedTruly' BY <1>5 DEF RecordedTruly, NewManifest
<1>7. \A b \in BackupId : manifest[b].status # "none" => manifest'[b] = manifest[b]
  BY <1>2 DEF RecordInv, Begun, BackupId
<1> QED BY <1>3, <1>6, <1>7 DEF RecordInv

-----------------------------------------------------------------------------
(* What a step does to the processes *)

(* Only p moves, and p is the process that runs or starts when none does. *)
Alone(p) ==
  /\ pc[p] # "idle" \/ AllIdle
  /\ \A q \in Proc \ {p} : pc'[q] = pc[q]

LEMMA AloneStep ==
  ASSUME ReversibleInv, NEW p \in Proc, Alone(p), RecordInv', Local(p)'
  PROVE  ReversibleInv'
<1>1. \A q \in Proc \ {p} : pc'[q] = "idle" BY DEF ReversibleInv, OneAtATime, Alone, AllIdle
<1>2. OneAtATime' BY <1>1 DEF OneAtATime
<1>3. \A q \in Proc \ {p} : Local(q)' BY <1>1 DEF Local, HoldingPC, ExecPC
<1> QED BY <1>2, <1>3 DEF ReversibleInv

LEMMA GotoOthers ==
  ASSUME PcType, NEW p \in Proc, NEW l, Goto(p, l)
  PROVE  pc'[p] = l /\ \A q \in Proc \ {p} : pc'[q] = pc[q]
BY DEF PcType, Goto

LEMMA KeepIt ==
  ASSUME JobType, NEW p \in Proc, NEW j, Keep(p, j)
  PROVE  job'[p] = j
BY DEF JobType, Keep

LEMMA ExitOthers ==
  ASSUME PcType, JobType, NEW p \in Proc, Exit(p)
  PROVE  pc'[p] = "idle" /\ Local(p)' /\ \A q \in Proc \ {p} : pc'[q] = pc[q]
BY GotoOthers DEF Exit, Local, HoldingPC, ExecPC

(* A process that ends. *)
LEMMA ExitKeeps ==
  ASSUME TypeOK, ReversibleInv, NEW p \in Proc, pc[p] # "idle", Exit(p), RecordInv'
  PROVE  ReversibleInv'
BY AloneStep, ExitOthers DEF TypeOK, Alone

(* A process that goes on with the same manifest and no more to do. *)
LEMMA SameManifest ==
  ASSUME TypeOK, ReversibleInv, NEW p \in Proc, pc[p] # "idle", RecordInv',
         \A q \in Proc \ {p} : pc'[q] = pc[q],
         UNCHANGED manifest,
         job'[p].bid = job[p].bid, job'[p].todo \subseteq job[p].todo,
         job'[p].mem = job[p].mem,
         pc'[p] \notin {"write", "rb-mark", "rb-snapshot"},
         pc[p] \in {"validate", "begin"} => pc'[p] \in {"idle", "validate", "begin"},
         pc'[p] \in HoldingPC => pc[p] \in HoldingPC,
         pc'[p] \in ExecPC => pc[p] \in ExecPC
  PROVE  ReversibleInv'
<1>1. Local(p) BY DEF ReversibleInv
<1>2. Local(p)' BY <1>1 DEF Local
<1> QED BY <1>2, AloneStep DEF Alone

(* The parts of the local state that the updates leave or set. *)
LEMMA JobParts ==
  ASSUME NEW j \in Job, NEW m \in Manifest, NEW f \in File, NEW c \in Content
  PROVE  /\ WithMem(j, m).mem = m /\ WithMem(j, m).todo = j.todo
         /\ WithMem(j, m).file = j.file /\ WithMem(j, m).orig = j.orig
         /\ WithNextFile(j, m, f).mem = m /\ WithNextFile(j, m, f).todo = j.todo
         /\ WithTarget(j, c, f).mem = j.mem /\ WithTarget(j, c, f).todo = j.todo
         /\ Succeeded(j).mem = j.mem /\ Succeeded(j).todo \subseteq j.todo
         /\ Failed(j).mem = j.mem /\ Failed(j).todo \subseteq j.todo
         /\ WithMem(Succeeded(j), m).mem = m /\ WithMem(Succeeded(j), m).todo \subseteq j.todo
         /\ \A b \in 0..MaxBackups : WithBackup(j, b, m).mem = m
         /\ \A s \in Status : WithOriginal(j, m, s).mem = m /\ WithOriginal(j, m, s).orig = s
         /\ \A t \in SUBSET Action : WithPlan(j, m, t).mem = m /\ WithPlan(j, m, t).todo = t
         /\ \A n \in BOOLEAN, a \in BOOLEAN :
              Checked(j, n, a, f, c).mem = j.mem /\ Checked(j, n, a, f, c).todo = j.todo
<1>1. /\ WithMem(j, m).mem = m /\ WithMem(j, m).todo = j.todo
      /\ WithMem(j, m).file = j.file /\ WithMem(j, m).orig = j.orig
      /\ WithNextFile(j, m, f).mem = m /\ WithNextFile(j, m, f).todo = j.todo
      /\ WithTarget(j, c, f).mem = j.mem /\ WithTarget(j, c, f).todo = j.todo
  BY DEF Job, WithMem, WithNextFile, WithTarget
<1>2. /\ Succeeded(j).mem = j.mem /\ Succeeded(j).todo \subseteq j.todo
      /\ Failed(j).mem = j.mem /\ Failed(j).todo \subseteq j.todo
  BY DEF Job, Succeeded, Failed
<1>3. WithMem(Succeeded(j), m).mem = m /\ WithMem(Succeeded(j), m).todo \subseteq j.todo
  <2>1. \A k \in Job : WithMem(k, m).mem = m /\ WithMem(k, m).todo = k.todo
    BY DEF Job, WithMem
  <2> QED BY <1>2, <2>1, ResultJobs
<1>4. /\ \A b \in 0..MaxBackups : WithBackup(j, b, m).mem = m
      /\ \A s \in Status : WithOriginal(j, m, s).mem = m /\ WithOriginal(j, m, s).orig = s
      /\ \A t \in SUBSET Action : WithPlan(j, m, t).mem = m /\ WithPlan(j, m, t).todo = t
      /\ \A n \in BOOLEAN, a \in BOOLEAN :
           Checked(j, n, a, f, c).mem = j.mem /\ Checked(j, n, a, f, c).todo = j.todo
  BY DEF Job, WithBackup, WithOriginal, WithPlan, Checked
<1> QED BY <1>1, <1>2, <1>3, <1>4

(* Status and swap updates keep every file's record. *)
LEMMA StatusParts ==
  ASSUME NEW m \in Manifest
  PROVE  /\ \A s \in Status : /\ [m EXCEPT !.status = s].files = m.files
                              /\ [m EXCEPT !.status = s].status = s
         /\ \A s \in SwapRecord : /\ [m EXCEPT !.swap = s].files = m.files
                                  /\ [m EXCEPT !.swap = s].status = m.status
         /\ [m EXCEPT !.swap.oldNamed = TRUE].files = m.files
         /\ [m EXCEPT !.swap.oldNamed = TRUE].status = m.status
<1>1. \A s \in Status : /\ [m EXCEPT !.status = s].files = m.files
                        /\ [m EXCEPT !.status = s].status = s
  BY DEF Manifest
<1>2. \A s \in SwapRecord : /\ [m EXCEPT !.swap = s].files = m.files
                            /\ [m EXCEPT !.swap = s].status = m.status
  BY DEF Manifest
<1>3. /\ [m EXCEPT !.swap.oldNamed = TRUE].files = m.files
      /\ [m EXCEPT !.swap.oldNamed = TRUE].status = m.status
  BY DEF Manifest
<1> QED BY <1>1, <1>2, <1>3

LEMMA RecordedParts ==
  ASSUME NEW m \in Manifest, NEW f \in File, NEW c, NEW d
  PROVE  LET n == Recorded(m, f, c, d)
         IN  /\ n.status = m.status /\ n.files[f].recorded
             /\ \A g \in File \ {f} : n.files[g] = m.files[g]
             /\ m.files[f].recorded => n.files[f] = m.files[f]
             /\ ~m.files[f].recorded => n.files[f].before = c
BY DEF Recorded, Manifest, FileRecord

LEMMA SealedParts ==
  ASSUME NEW m \in Manifest, NEW f \in File, NEW c
  PROVE  LET n == Sealed(m, f, c)
         IN  /\ n.status = m.status
             /\ \A g \in File : /\ n.files[g].recorded = m.files[g].recorded
                                /\ n.files[g].before = m.files[g].before
BY DEF Sealed, Manifest, FileRecord

(* What the planner says it will restore is recorded. *)
LEMMA PlannedFiles ==
  ASSUME NEW m, NEW d, NEW ds, NEW o, NEW x
  PROVE  \A f \in File \cap BuildPlan(m, d, ds, o, x) : m.files[f].recorded
BY DEF BuildPlan, SwapWillRun, DirWillRun, PostWillRun, FileWillRun, DirAction, File

(* build_plan's order. *)
LEMMA Ranks ==
  /\ Rank("restore-old-swap") = 1 /\ Rank("remove-swap") = 2 /\ Rank("grub") = 3
  /\ Rank("resume") = 4 /\ Rank("fstab") = 5 /\ Rank("rmdir-resume") = 6
  /\ Rank("rmdir-grub") = 7 /\ Rank("rerun-grub") = 8 /\ Rank("rerun-initramfs") = 9
BY DEF Rank

(* The action that runs next is one of the plan, and the first of them.    *)
LEMMA FirstOfPlan ==
  ASSUME NEW T \in SUBSET Action, T # {}
  PROVE  First(T) \in T /\ \A a \in T : Rank(First(T)) <= Rank(a)
<1>1. /\ Rank("restore-old-swap") = 1 /\ Rank("remove-swap") = 2 /\ Rank("grub") = 3
      /\ Rank("resume") = 4 /\ Rank("fstab") = 5 /\ Rank("rmdir-resume") = 6
      /\ Rank("rmdir-grub") = 7 /\ Rank("rerun-grub") = 8 /\ Rank("rerun-initramfs") = 9
  BY Ranks
<1>2. T \subseteq {"restore-old-swap", "remove-swap", "grub", "resume", "fstab",
                   "rmdir-resume", "rmdir-grub", "rerun-grub", "rerun-initramfs"}
  BY DEF Action, SwapAction, File, DirAction, Rerun
<1>3. \E a \in T : \A b \in T : Rank(a) <= Rank(b)
  <2>1. CASE "restore-old-swap" \in T BY <1>1, <1>2, <2>1
  <2>2. CASE "restore-old-swap" \notin T /\ "remove-swap" \in T BY <1>1, <1>2, <2>2
  <2>3. CASE T \cap SwapAction = {} /\ "grub" \in T BY <1>1, <1>2, <2>3 DEF SwapAction
  <2>4. CASE T \cap (SwapAction \cup {"grub"}) = {} /\ "resume" \in T
    BY <1>1, <1>2, <2>4 DEF SwapAction
  <2>5. CASE T \cap (SwapAction \cup {"grub", "resume"}) = {} /\ "fstab" \in T
    BY <1>1, <1>2, <2>5 DEF SwapAction
  <2>6. CASE T \cap (SwapAction \cup File) = {} /\ T \cap DirAction # {}
    BY <1>1, <1>2, <2>6 DEF SwapAction, File, DirAction
  <2>7. CASE T \cap (SwapAction \cup File \cup DirAction) = {}
    <3>1. T \subseteq {"rerun-grub", "rerun-initramfs"}
      BY <1>2, <2>7 DEF SwapAction, File, DirAction
    <3>2. CASE "rerun-grub" \in T BY <1>1, <3>1, <3>2
    <3>3. CASE "rerun-grub" \notin T /\ "rerun-initramfs" \in T BY <1>1, <3>1, <3>3
    <3> QED BY <3>1, <3>2, <3>3
  <2> QED BY <1>2, <2>1, <2>2, <2>3, <2>4, <2>5, <2>6, <2>7 DEF SwapAction, File
<1> QED BY <1>3 DEF First

-----------------------------------------------------------------------------
(* Every step preserves the invariant. *)

LEMMA StartReversible ==
  ASSUME Concurrent = FALSE, TypeInv, ReversibleInv, NEW p \in Proc, Start(p)
  PROVE  ReversibleInv'
<1> USE DEF TypeInv, TypeOK
<1>0. AllIdle /\ RecordInv'
  BY QuietEffect DEF Start, StartTargetApply, StartSwapApply, StartRollback, CanStart,
                     ReversibleInv, fileVars, recVars, histVars
<1>1. CASE \E t \in {Partition} \cup {ForSwap(i) : i \in active} : StartTargetApply(p, t)
  <2>1. Goto(p, "validate") BY <1>1 DEF StartTargetApply
  <2> QED BY <1>0, <2>1, GotoOthers, AloneStep DEF Alone, Local, HoldingPC, ExecPC
<1>2. CASE \E s \in Sizes : StartSwapApply(p, s)
  <2>1. Goto(p, "begin") BY <1>2 DEF StartSwapApply
  <2> QED BY <1>0, <2>1, GotoOthers, AloneStep DEF Alone, Local, HoldingPC, ExecPC
<1>3. ASSUME NEW b \in BackupId, StartRollback(p, b)
      PROVE  ReversibleInv'
  <2>1. Goto(p, "rb-lock") /\ UNCHANGED manifest /\ manifest[b].status # "none"
    BY <1>3 DEF StartRollback, recVars
  <2>2. job'[p].bid = b BY <1>3, NewJobs, KeepIt DEF StartRollback
  <2>3. Local(p)' BY <2>1, <2>2, GotoOthers DEF Local, HoldingPC, ExecPC
  <2> QED BY <1>0, <2>1, <2>3, GotoOthers, AloneStep DEF Alone
<1> QED BY <1>1, <1>2, <1>3 DEF Start

(* The steps of an apply that save no manifest and write no managed file. *)
LEMMA QuietApplyReversible ==
  ASSUME TypeInv, ReversibleInv, NEW p \in Proc,
         \/ ValidateTarget(p) \/ BeginFails(p) \/ CheckSwap(p) \/ SwapOff(p) \/ RetainOld(p)
         \/ CreateFile(p) \/ Allocate(p) \/ MkSwap(p) \/ SwapOn(p) \/ SwapCommandFails(p)
         \/ SelectTarget(p) \/ UpdateInitramfs(p) \/ UpdateGrub(p)
  PROVE  ReversibleInv'
<1> USE DEF TypeInv, TypeOK
<1>0. job[p] \in Job /\ job[p].mem \in Manifest /\ job[p].want \in Content
  BY DEF JobType, Job
<1>1. UNCHANGED <<disk, manifest, nextId, base>> /\ pc[p] # "idle"
  BY DEF ValidateTarget, BeginFails, CheckSwap, SwapOff, RetainOld, CreateFile, Allocate, MkSwap,
         SwapOn, SwapCommandFails, SelectTarget, UpdateInitramfs, UpdateGrub,
         fileVars, recVars, histVars
<1>2. \A c \in BackupId : foreign[c] \subseteq foreign'[c]
  BY DisturbGrows DEF ValidateTarget, BeginFails, CheckSwap, SwapOff, RetainOld, CreateFile,
         Allocate, MkSwap, SwapOn, SwapCommandFails, SelectTarget, UpdateInitramfs, UpdateGrub,
         histVars
<1>3. RecordInv' BY <1>1, <1>2, QuietEffect DEF ReversibleInv
<1>4. CASE Exit(p)
  BY <1>1, <1>3, <1>4, ExitKeeps
<1>5. CASE CheckSwap(p) /\ ~Exit(p)
  <2> DEFINE n == swapAt = NoFile \/ inode[swapAt].size # job[p].size
             c == WithEntry(disk["fstab"])
  <2>0. PICK misread \in BOOLEAN :
          Keep(p, Checked(job[p], n, SwapActive(misread), "fstab", c)) /\ pc[p] = "check-swap"
    BY <1>5 DEF CheckSwap, Checked
  <2> DEFINE a == SwapActive(misread)
  <2>1. n \in BOOLEAN /\ a \in BOOLEAN /\ "fstab" \in File /\ c \in Content
    BY ConstantTypes DEF SwapActive, InUse, File, FilesType
  <2> HIDE DEF n, c, a
  <2>2. Keep(p, Checked(job[p], n, a, "fstab", c)) /\ pc[p] = "check-swap"
    BY <2>0 DEF a
  <2>3. job'[p].bid = job[p].bid /\ job'[p].mem = job[p].mem /\ job'[p].todo = job[p].todo
    BY <1>0, <2>1, <2>2, JobUpdates, JobParts, KeepIt
  <2>4. \E l \in {"swap-manifest", "record"} : Goto(p, l)
    BY <1>5 DEF CheckSwap
  <2> QED BY <1>1, <1>3, <2>2, <2>3, <2>4, GotoOthers, SameManifest
          DEF HoldingPC, ExecPC, PC, ApplyPC
<1>6. CASE SelectTarget(p) /\ ~Exit(p)
  <2>1. Keep(p, WithTarget(job[p], ForSwap(swapAt), "resume")) /\ pc[p] = "select"
    BY <1>6 DEF SelectTarget, WithTarget
  <2>2. ForSwap(swapAt) \in Content /\ "resume" \in File
    BY <1>6, ConstantTypes, BoundAssumption DEF SelectTarget, InUse, SwapType, InodeId, File
  <2>3. job'[p].bid = job[p].bid /\ job'[p].mem = job[p].mem /\ job'[p].todo = job[p].todo
    BY <1>0, <2>1, <2>2, JobUpdates, JobParts, KeepIt
  <2>4. Goto(p, "record") BY <1>6 DEF SelectTarget
  <2> QED BY <1>1, <1>3, <2>1, <2>3, <2>4, GotoOthers, SameManifest
          DEF HoldingPC, ExecPC, PC, ApplyPC
<1>7. CASE ~CheckSwap(p) /\ ~SelectTarget(p) /\ ~Exit(p)
  <2>1. UNCHANGED job
    BY <1>7 DEF ValidateTarget, BeginFails, SwapOff, RetainOld, CreateFile, Allocate, MkSwap,
                SwapOn, SwapCommandFails, UpdateInitramfs, UpdateGrub
  <2>2. CASE ValidateTarget(p)
    <3>1. Goto(p, "begin") BY <1>7, <2>2 DEF ValidateTarget
    <3> QED BY <1>1, <1>3, <2>1, <3>1, GotoOthers, SameManifest DEF HoldingPC, ExecPC
  <2>3. CASE ~ValidateTarget(p)
    <3>1. pc[p] \in {"swapoff", "retain", "create", "allocate", "mkswap", "swapon",
                     "initramfs", "update-grub"}
      BY <1>7, <2>3 DEF BeginFails, SwapOff, RetainOld, CreateFile, Allocate, MkSwap,
                        SwapOn, SwapCommandFails, UpdateInitramfs, UpdateGrub
    <3>2. \E l \in {"retain", "retain-save", "create", "allocate", "mkswap", "swapon",
                    "select", "update-grub", "complete", "mark-failed"} : Goto(p, l)
      BY <1>7, <2>3 DEF BeginFails, SwapOff, RetainOld, CreateFile, Allocate, MkSwap,
                        SwapOn, SwapCommandFails, UpdateInitramfs, UpdateGrub
    <3> QED BY <1>1, <1>3, <2>1, <3>1, <3>2, GotoOthers, SameManifest
            DEF HoldingPC, ExecPC, PC, ApplyPC
  <2> QED BY <2>2, <2>3
<1> QED BY <1>4, <1>5, <1>6, <1>7

(* The steps of an apply that save the manifest or write a managed file. *)
LEMMA WritingApplyReversible ==
  ASSUME TypeInv, ReversibleInv, NEW p \in Proc
  PROVE  /\ Begin(p) => ReversibleInv'
         /\ RecordBefore(p) => ReversibleInv'
         /\ WriteFile(p) => ReversibleInv'
         /\ RecordAfter(p) => ReversibleInv'
         /\ RecordSwap(p) => ReversibleInv'
         /\ SaveOldName(p) => ReversibleInv'
         /\ FinishApply(p) => ReversibleInv'
<1> USE DEF TypeInv, TypeOK
<1> DEFINE b == job[p].bid
           old_m == manifest[b]
<1>0. /\ job[p] \in Job /\ job[p].mem \in Manifest /\ job[p].file \in File
      /\ job[p].want \in Content /\ job[p].wasActive \in BOOLEAN
  BY DEF JobType, Job
<1>1. Local(p) /\ RecordInv BY DEF ReversibleInv
<1>2. ASSUME pc[p] \in HoldingPC
      PROVE  b \in BackupId /\ old_m = job[p].mem /\ old_m.status # "none"
  BY <1>1, <1>2 DEF HoldingPC, WorksOnBackup, Local
<1>3. ASSUME Begin(p) PROVE ReversibleInv'
  <2>1. RecordInv' BY <1>1, <1>3, BeginEffect DEF Begin, fileVars
  <2>2. nextId \in 0..MaxBackups /\ nextId \in BackupId /\ EmptyManifest \in Manifest
    BY <1>3, ConstantTypes, BoundAssumption DEF Begin, NewManifest, BackupId
  <2>3. Keep(p, WithBackup(job[p], nextId, EmptyManifest)) /\ pc[p] = "begin"
    BY <1>3 DEF Begin, WithBackup
  <2>4. job'[p].bid = nextId /\ job'[p].mem = EmptyManifest
    BY <1>0, <2>2, <2>3, JobUpdates, JobParts, KeepIt
  <2>5. manifest'[nextId] = EmptyManifest /\ EmptyManifest.status # "none"
    BY <1>3, <2>2 DEF Begin, NewManifest, RecordsType, EmptyManifest, NoManifest
  <2>6. \E l \in {"check-swap", "record"} : Goto(p, l) BY <1>3 DEF Begin
  <2>7. Local(p)' BY <2>4, <2>5, <2>6, GotoOthers DEF Local, ExecPC
  <2> QED BY <2>1, <2>3, <2>6, <2>7, GotoOthers, AloneStep DEF Alone
<1>4. ASSUME RecordBefore(p) PROVE ReversibleInv'
  <2> DEFINE f == job[p].file
             m == Recorded(job[p].mem, f, disk[f], ({f} \cap DirFile) \ dirs)
  <2>1. pc[p] = "record" /\ b \in BackupId /\ old_m = job[p].mem /\ old_m.status # "none"
    BY <1>2, <1>4 DEF RecordBefore, HoldingPC, PC, ApplyPC
  <2>2. m \in Manifest BY <1>0, RecordedType DEF FilesType
  <2>3. /\ m.status = old_m.status /\ m.files[f].recorded
        /\ \A g \in File \ {f} : m.files[g] = old_m.files[g]
        /\ old_m.files[f].recorded => m.files[f] = old_m.files[f]
        /\ ~old_m.files[f].recorded => m.files[f].before = disk[f]
    <3> DEFINE d == ({f} \cap DirFile) \ dirs
               k == job[p].mem
    <3>1. m = Recorded(k, f, disk[f], d) /\ k \in Manifest /\ f \in File /\ k = old_m
      BY <1>0, <2>1
    <3> HIDE DEF d, k, f, m, old_m
    <3>2. /\ m.status = k.status /\ m.files[f].recorded
          /\ \A g \in File \ {f} : m.files[g] = k.files[g]
          /\ k.files[f].recorded => m.files[f] = k.files[f]
          /\ ~k.files[f].recorded => m.files[f].before = disk[f]
      BY <3>1, RecordedParts
    <3> QED BY <3>1, <3>2
  <2>4. Save(p, m) /\ Keep(p, WithMem(job[p], m)) /\ Goto(p, "write")
    BY <1>4 DEF RecordBefore, WithMem
  <2> HIDE DEF m, f
  <2>5. manifest' = [manifest EXCEPT ![b] = m] BY <2>4 DEF Save
  <2>6. RecordInv'
    <3>1. UNCHANGED <<disk, nextId, base, foreign>>
      BY <1>4 DEF RecordBefore, fileVars, histVars
    <3>2. \A g \in File :
            \/ /\ m.files[g].recorded = manifest[b].files[g].recorded
               /\ m.files[g].before = manifest[b].files[g].before
            \/ /\ ~manifest[b].files[g].recorded
               /\ m.files[g].recorded /\ m.files[g].before = disk[g]
      <4>1. manifest \in [BackupId -> Manifest] BY DEF RecordsType
      <4>2. manifest[b].files[f].recorded \in BOOLEAN
        BY <1>0, <2>1, <4>1 DEF Manifest, FileRecord, f
      <4> QED BY <2>3, <4>2
    <3>3. manifest[b].status # "none" /\ m.status # "none" BY <2>1, <2>3
    <3> HIDE DEF b
    <3> QED BY <1>1, <2>1, <2>2, <2>5, <3>1, <3>2, <3>3, SaveEffect
  <2>7. job'[p] = WithMem(job[p], m) BY <2>4, KeepIt
  <2>8. job'[p].bid = b /\ job'[p].mem = m /\ job'[p].file = f
    BY <1>0, <2>2, <2>7, JobUpdates, JobParts DEF f
  <2>9. manifest'[b] = m BY <2>1, <2>5 DEF RecordsType
  <2>10. Local(p)'
    BY <2>1, <2>3, <2>4, <2>8, <2>9, GotoOthers DEF Local, ExecPC
  <2> QED BY <2>1, <2>4, <2>6, <2>10, GotoOthers, AloneStep DEF Alone
<1>5. ASSUME WriteFile(p) PROVE ReversibleInv'
  <2> DEFINE f == job[p].file
  <2>1. pc[p] = "write" /\ old_m.files[f].recorded
    BY <1>1, <1>5 DEF WriteFile, Local
  <2>2. RecordInv'
    BY <1>0, <1>1, <1>5, <2>1, WriteEffect DEF WriteFile, FilesType, recVars
  <2>3. Goto(p, "seal") /\ UNCHANGED <<job, manifest>> BY <1>5 DEF WriteFile, recVars
  <2> QED BY <2>1, <2>2, <2>3, GotoOthers, SameManifest DEF HoldingPC, ExecPC, PC, ApplyPC
<1>6. ASSUME RecordAfter(p) PROVE ReversibleInv'
  <2> DEFINE f == job[p].file
             m == Sealed(job[p].mem, f, disk[f])
             g == IF f = "resume" THEN "grub" ELSE f
  <2>1. pc[p] = "seal" /\ b \in BackupId /\ old_m = job[p].mem /\ old_m.status # "none"
    BY <1>2, <1>6 DEF RecordAfter, HoldingPC, PC, ApplyPC
  <2>2. m \in Manifest /\ g \in File BY <1>0, SealedType DEF FilesType, File
  <2>3. /\ m.status = old_m.status
        /\ \A h \in File : /\ m.files[h].recorded = old_m.files[h].recorded
                           /\ m.files[h].before = old_m.files[h].before
    BY <1>0, <2>1, SealedParts
  <2>4. Save(p, m) /\ Keep(p, WithNextFile(job[p], m, g))
    BY <1>6 DEF RecordAfter, WithNextFile
  <2>5. \E l \in {"swap-manifest", "record", "initramfs"} : Goto(p, l)
    BY <1>0, <1>6 DEF RecordAfter, File
  <2> HIDE DEF m, f, g
  <2>6. manifest' = [manifest EXCEPT ![b] = m] BY <2>4 DEF Save
  <2>7. RecordInv'
    BY <1>1, <1>6, <2>1, <2>2, <2>3, <2>6, SaveEffect DEF RecordAfter, fileVars, histVars
  <2>8. job'[p] = WithNextFile(job[p], m, g) BY <2>4, KeepIt
  <2>9. job'[p].bid = b /\ job'[p].mem = m BY <1>0, <2>2, <2>8, JobUpdates, JobParts
  <2>10. manifest'[b] = m BY <2>1, <2>6 DEF RecordsType
  <2>11. Local(p)' BY <2>1, <2>3, <2>5, <2>9, <2>10, GotoOthers DEF Local, ExecPC
  <2> QED BY <2>1, <2>5, <2>7, <2>11, GotoOthers, AloneStep DEF Alone
<1>7. ASSUME NEW m \in Manifest, m.files = job[p].mem.files, m.status = job[p].mem.status,
             pc[p] \in HoldingPC, Save(p, m), Keep(p, WithMem(job[p], m)),
             NEW l \in {"swapon", "swapoff", "retain", "create"}, Goto(p, l),
             UNCHANGED <<disk, nextId, base, foreign>>
      PROVE  ReversibleInv'
  <2>1. b \in BackupId /\ old_m = job[p].mem /\ old_m.status # "none" BY <1>2, <1>7
  <2>2. manifest' = [manifest EXCEPT ![b] = m] BY <1>7 DEF Save
  <2>3. RecordInv' BY <1>1, <1>7, <2>1, <2>2, SaveEffect
  <2>4. job'[p].bid = b /\ job'[p].mem = m BY <1>0, <1>7, JobUpdates, JobParts, KeepIt
  <2>5. manifest'[b] = m BY <2>1, <2>2 DEF RecordsType
  <2>6. Local(p)' BY <1>7, <2>1, <2>4, <2>5, GotoOthers DEF Local, ExecPC
  <2>7. pc[p] # "idle" BY <1>7 DEF HoldingPC
  <2> QED BY <1>7, <2>3, <2>6, <2>7, GotoOthers, AloneStep DEF Alone
<1>8. ASSUME RecordSwap(p) PROVE ReversibleInv'
  <2> DEFINE s == [recorded |-> TRUE, existed |-> swapAt # NoFile,
                   wasActive |-> job[p].wasActive, oldNamed |-> FALSE]
             m == [job[p].mem EXCEPT !.swap = s]
  <2>1. s \in SwapRecord BY <1>0 DEF SwapRecord
  <2>2. Save(p, m) /\ Keep(p, WithMem(job[p], m)) BY <1>8 DEF RecordSwap, WithMem
  <2>3. \E l \in {"swapon", "swapoff", "retain", "create"} : Goto(p, l)
    BY <1>8 DEF RecordSwap
  <2>4. pc[p] \in HoldingPC /\ UNCHANGED <<disk, nextId, base, foreign>>
    BY <1>8 DEF RecordSwap, HoldingPC, PC, ApplyPC, fileVars, histVars
  <2> HIDE DEF s
  <2>5. m \in Manifest /\ m.files = job[p].mem.files /\ m.status = job[p].mem.status
    BY <1>0, <2>1, ManifestUpdates, StatusParts
  <2> QED BY <1>7, <2>2, <2>3, <2>4, <2>5
<1>9. ASSUME SaveOldName(p) PROVE ReversibleInv'
  <2> DEFINE m == [job[p].mem EXCEPT !.swap.oldNamed = TRUE]
  <2>1. Save(p, m) /\ Keep(p, WithMem(job[p], m)) /\ Goto(p, "create")
    BY <1>9 DEF SaveOldName, WithMem
  <2>2. pc[p] \in HoldingPC /\ UNCHANGED <<disk, nextId, base, foreign>>
    BY <1>9 DEF SaveOldName, HoldingPC, PC, ApplyPC, fileVars, histVars
  <2>3. m \in Manifest /\ m.files = job[p].mem.files /\ m.status = job[p].mem.status
    BY <1>0, ManifestUpdates, StatusParts
  <2> QED BY <1>7, <2>1, <2>2, <2>3
<1>10. ASSUME FinishApply(p) PROVE ReversibleInv'
  <2> DEFINE s == IF pc[p] = "complete" THEN "completed" ELSE "failed"
             m == [job[p].mem EXCEPT !.status = s]
  <2>1. b \in BackupId /\ old_m = job[p].mem /\ old_m.status # "none" /\ pc[p] # "idle"
    BY <1>2, <1>10 DEF FinishApply, HoldingPC, PC, ApplyPC
  <2>2. s \in Status /\ s # "none" BY DEF Status, Eligible
  <2>3. Save(p, m) /\ Exit(p) /\ UNCHANGED <<disk, nextId, base, foreign>>
    BY <1>10 DEF FinishApply, fileVars, histVars
  <2> HIDE DEF s
  <2>4. m \in Manifest /\ m.files = old_m.files /\ m.status = s
    <3>1. m \in Manifest /\ m.files = job[p].mem.files /\ m.status = s
      BY <1>0, <2>2, ManifestUpdates, StatusParts
    <3> HIDE DEF m
    <3> QED BY <2>1, <3>1
  <2> HIDE DEF m
  <2>5. manifest' = [manifest EXCEPT ![b] = m] BY <2>3 DEF Save
  <2>6. RecordInv' BY <1>1, <2>1, <2>2, <2>3, <2>4, <2>5, SaveEffect
  <2> QED BY <2>1, <2>3, <2>6, ExitKeeps
<1> QED BY <1>3, <1>4, <1>5, <1>6, <1>8, <1>9, <1>10

(* The steps of a rollback that save no manifest and write no managed file. *)
LEMMA QuietRollbackReversible ==
  ASSUME TypeInv, ReversibleInv, NEW p \in Proc,
         \/ AcquireLock(p) \/ RemoveDir(p) \/ Regenerate(p) \/ SwapRollbackBegins(p)
         \/ ParkCurrent(p) \/ RestoreOld(p) \/ SwapBackOn(p) \/ UnlinkSwap(p) \/ ActionFails(p)
  PROVE  ReversibleInv'
<1> USE DEF TypeInv, TypeOK
<1> DEFINE b == job[p].bid
<1>0. job[p] \in Job /\ job[p].file \in File /\ job[p].want \in Content
  BY DEF JobType, Job
<1>1. pc[p] \in {"rb-lock"} \cup ExecPC
  BY DEF AcquireLock, RemoveDir, Regenerate, SwapRollbackBegins, ParkCurrent, RestoreOld,
         SwapBackOn, UnlinkSwap, ActionFails, Doing, ExecPC
<1>2. Local(p) /\ b \in BackupId
  BY <1>1 DEF ReversibleInv, WorksOnBackup, ExecPC
<1>3. pc[p] \in ExecPC => job[p].mem = manifest[b]
  BY <1>1, <1>2 DEF Local, ExecPC, HoldingPC, PC, LockedPC
<1>4. UNCHANGED <<disk, nextId, base>> /\ \A c \in BackupId : foreign[c] \subseteq foreign'[c]
  BY DisturbGrows DEF AcquireLock, RemoveDir, Regenerate, SwapRollbackBegins, ParkCurrent,
     RestoreOld, SwapBackOn, UnlinkSwap, ActionFails, fileVars, recVars, histVars
<1>5. UNCHANGED manifest
  <2>1. CASE ParkCurrent(p)
    <3>1. pc[p] \in ExecPC BY <2>1 DEF ParkCurrent, ExecPC
    <3>2. manifest' = [manifest EXCEPT ![b] = manifest[b]] \/ UNCHANGED manifest
      BY <1>3, <2>1, <3>1 DEF ParkCurrent, Save
    <3> QED BY <3>2 DEF RecordsType
  <2>2. CASE ~ParkCurrent(p)
    BY <2>2 DEF AcquireLock, RemoveDir, Regenerate, SwapRollbackBegins, RestoreOld, SwapBackOn,
                UnlinkSwap, ActionFails, recVars
  <2> QED BY <2>1, <2>2
<1>6. RecordInv' BY <1>4, <1>5, QuietEffect DEF ReversibleInv
<1>7. CASE Exit(p) BY <1>1, <1>6, <1>7, ExitKeeps DEF ExecPC
<1>8. CASE AcquireLock(p) /\ ~Exit(p)
  <2>1. Goto(p, "rb-load") /\ UNCHANGED job BY <1>8 DEF AcquireLock
  <2> QED BY <1>1, <1>5, <1>6, <2>1, GotoOthers, SameManifest DEF HoldingPC, ExecPC
<1>9. CASE ~AcquireLock(p)
  <2>1. pc[p] \in ExecPC
    BY <1>9 DEF RemoveDir, Regenerate, SwapRollbackBegins, ParkCurrent, RestoreOld, SwapBackOn,
                UnlinkSwap, ActionFails, Doing, ExecPC
  <2>2. \/ UNCHANGED job
        \/ Keep(p, Succeeded(job[p])) \/ Keep(p, Failed(job[p]))
        \/ Keep(p, WithMem(job[p], manifest[b]))
    BY <1>9 DEF RemoveDir, Regenerate, SwapRollbackBegins, ParkCurrent, RestoreOld, SwapBackOn,
                UnlinkSwap, ActionFails, WithMem
  <2>3. manifest[b] \in Manifest BY <1>2 DEF RecordsType
  <2>4. /\ job'[p].bid = b /\ job'[p].mem = job[p].mem
        /\ job'[p].todo \subseteq job[p].todo
    <3>1. CASE Keep(p, Succeeded(job[p])) \/ Keep(p, Failed(job[p]))
      BY <1>0, <2>3, <3>1, ResultJobs, JobParts, KeepIt
    <3>2. CASE Keep(p, WithMem(job[p], manifest[b]))
      BY <1>0, <1>3, <2>1, <2>3, <3>2, JobUpdates, JobParts, KeepIt
    <3> QED BY <2>2, <3>1, <3>2
  <2>5. UNCHANGED pc \/ \E l \in ExecPC : Goto(p, l)
    BY <1>9 DEF RemoveDir, Regenerate, SwapRollbackBegins, ParkCurrent, RestoreOld, SwapBackOn,
                UnlinkSwap, ActionFails, ExecPC
  <2>6. pc'[p] \in ExecPC /\ \A q \in Proc \ {p} : pc'[q] = pc[q]
    BY <2>1, <2>5, GotoOthers
  <2> QED BY <1>5, <1>6, <2>1, <2>4, <2>6, SameManifest DEF HoldingPC, ExecPC, PC, LockedPC
<1> QED BY <1>7, <1>8, <1>9

LEMMA WritingRollbackReversible ==
  ASSUME TypeInv, ReversibleInv, NEW p \in Proc
  PROVE  /\ LoadManifest(p) => ReversibleInv'
         /\ MarkRollingBack(p) => ReversibleInv'
         /\ SafetySnapshot(p) => ReversibleInv'
         /\ SafetySnapshotFails(p) => ReversibleInv'
         /\ PlanRollback(p) => ReversibleInv'
         /\ RestoreFile(p) => ReversibleInv'
         /\ FinishRollback(p) => ReversibleInv'
<1> USE DEF TypeInv, TypeOK
<1> DEFINE b == job[p].bid
           old_m == manifest[b]
<1>0. /\ job[p] \in Job /\ job[p].mem \in Manifest /\ job[p].file \in File
      /\ job[p].want \in Content /\ job[p].orig \in Status
  BY DEF JobType, Job
<1>1. Local(p) /\ RecordInv BY DEF ReversibleInv
<1>2. ASSUME pc[p] \in HoldingPC
      PROVE  b \in BackupId /\ old_m = job[p].mem /\ old_m.status # "none"
  BY <1>1, <1>2 DEF HoldingPC, WorksOnBackup, Local
<1>3. ASSUME LoadManifest(p) PROVE ReversibleInv'
  <2>1. b \in BackupId /\ old_m \in Manifest /\ old_m.status # "none" /\ pc[p] = "rb-load"
    BY <1>1, <1>3 DEF LoadManifest, WorksOnBackup, RecordsType, Local
  <2>2. RecordInv' /\ UNCHANGED manifest
    BY <1>1, <1>3, QuietEffect DEF LoadManifest, fileVars, recVars, histVars
  <2>3. CASE Exit(p) BY <2>1, <2>2, <2>3, ExitKeeps
  <2>4. CASE ~Exit(p)
    <3>1. Keep(p, WithOriginal(job[p], old_m, old_m.status)) /\ Goto(p, "rb-mark")
      BY <1>3, <2>4 DEF LoadManifest, WithOriginal
    <3>2. old_m.status \in Status BY <2>1, ManifestUpdates
    <3>3. job'[p].bid = b /\ job'[p].mem = old_m /\ job'[p].orig = old_m.status
      BY <1>0, <2>1, <3>1, <3>2, JobUpdates, JobParts, KeepIt
    <3>4. Local(p)' BY <2>1, <2>2, <3>1, <3>3, GotoOthers DEF Local, ExecPC
    <3> QED BY <2>1, <2>2, <3>1, <3>4, GotoOthers, AloneStep DEF Alone
  <2> QED BY <2>3, <2>4
<1>4. ASSUME NEW m \in Manifest, m.files = job[p].mem.files, m.status # "none",
             pc[p] \in HoldingPC, Save(p, m), UNCHANGED <<disk, nextId, base, foreign>>
      PROVE  RecordInv' /\ manifest'[b] = m
  <2>1. b \in BackupId /\ old_m = job[p].mem /\ old_m.status # "none" BY <1>2, <1>4
  <2>2. manifest' = [manifest EXCEPT ![b] = m] BY <1>4 DEF Save
  <2>3. RecordInv' BY <1>1, <1>4, <2>1, <2>2, SaveEffect
  <2> QED BY <2>1, <2>2, <2>3 DEF RecordsType
<1>5. ASSUME MarkRollingBack(p) PROVE ReversibleInv'
  <2> DEFINE m == [job[p].mem EXCEPT !.status = "rollback-in-progress"]
  <2>1. m \in Manifest /\ m.files = job[p].mem.files /\ m.status = "rollback-in-progress"
    BY <1>0, ManifestUpdates, StatusParts DEF Status
  <2>2. /\ Save(p, m) /\ Keep(p, WithMem(job[p], m)) /\ Goto(p, "rb-snapshot")
        /\ UNCHANGED <<disk, nextId, base, foreign>> /\ pc[p] = "rb-mark"
    BY <1>5 DEF MarkRollingBack, WithMem, fileVars, histVars
  <2> HIDE DEF m
  <2>3. RecordInv' /\ manifest'[b] = m
    BY <1>4, <2>1, <2>2 DEF HoldingPC, PC, LockedPC, ExecPC
  <2>4. job'[p].bid = b /\ job'[p].mem = m /\ job'[p].orig = job[p].orig
    BY <1>0, <2>1, <2>2, JobUpdates, JobParts, KeepIt
  <2>5. Local(p)' BY <1>1, <2>1, <2>2, <2>3, <2>4, GotoOthers DEF Local, ExecPC
  <2> QED BY <2>2, <2>3, <2>5, GotoOthers, AloneStep DEF Alone
<1>6. ASSUME SafetySnapshot(p) PROVE ReversibleInv'
  <2>1. pc[p] = "rb-snapshot" /\ Goto(p, "rb-plan") /\ UNCHANGED job
    BY <1>6 DEF SafetySnapshot
  <2>2. b \in BackupId /\ old_m = job[p].mem /\ old_m.status # "none"
    BY <1>2, <2>1 DEF HoldingPC, PC, LockedPC, ExecPC
  <2>3. RecordInv' /\ manifest'[b] = old_m
    BY <1>1, <1>6, <2>2, BeginEffect DEF SafetySnapshot, fileVars
  <2>4. Local(p)' BY <2>1, <2>2, <2>3, GotoOthers DEF Local, ExecPC
  <2> QED BY <2>1, <2>3, <2>4, GotoOthers, AloneStep DEF Alone
<1>7. ASSUME SafetySnapshotFails(p) PROVE ReversibleInv'
  <2> DEFINE m == [job[p].mem EXCEPT !.status = job[p].orig]
  <2>1. /\ pc[p] = "rb-snapshot" /\ Save(p, m) /\ Exit(p)
        /\ UNCHANGED <<disk, nextId, base, foreign>>
    BY <1>7 DEF SafetySnapshotFails, fileVars, histVars
  <2>2. job[p].orig # "none" BY <1>1, <2>1 DEF Local
  <2>3. m \in Manifest /\ m.files = job[p].mem.files /\ m.status = job[p].orig
    BY <1>0, ManifestUpdates, StatusParts
  <2> HIDE DEF m
  <2>4. RecordInv' BY <1>4, <2>1, <2>2, <2>3 DEF HoldingPC, PC, LockedPC, ExecPC
  <2> QED BY <2>1, <2>4, ExitKeeps
<1>8. ASSUME PlanRollback(p) PROVE ReversibleInv'
  <2> DEFINE t == BuildPlan(old_m, disk, dirs, old[b] # NoFile, swapAt # NoFile)
  <2>1. /\ pc[p] = "rb-plan" /\ Keep(p, WithPlan(job[p], old_m, t)) /\ Goto(p, "rb-exec")
        /\ UNCHANGED <<disk, manifest, nextId, base, foreign>>
    BY <1>8 DEF PlanRollback, WithPlan, fileVars, recVars, histVars
  <2>2. b \in BackupId /\ old_m \in Manifest /\ old_m.status # "none"
    BY <1>2, <2>1 DEF HoldingPC, PC, LockedPC, ExecPC, RecordsType
  <2>3. t \in SUBSET Action /\ \A f \in File \cap t : old_m.files[f].recorded
    BY PlanType, PlannedFiles
  <2> HIDE DEF t
  <2>4. job'[p].bid = b /\ job'[p].mem = old_m /\ job'[p].todo = t
    BY <1>0, <2>1, <2>2, <2>3, JobUpdates, JobParts, KeepIt
  <2>5. RecordInv' BY <1>1, <2>1, QuietEffect
  <2>6. Local(p)' BY <2>1, <2>2, <2>3, <2>4, GotoOthers DEF Local
  <2> QED BY <2>1, <2>5, <2>6, GotoOthers, AloneStep DEF Alone
<1>9. ASSUME RestoreFile(p) PROVE ReversibleInv'
  <2> DEFINE f == Next1(p)
  <2>1. /\ pc[p] = "rb-exec" /\ f \in File /\ UNCHANGED <<manifest, nextId, base, pc>>
        /\ disk' = [disk EXCEPT ![f] = old_m.files[f].before] /\ Disturb(b, f)
        /\ Keep(p, WithMem(Succeeded(job[p]), old_m))
    BY <1>9 DEF RestoreFile, Doing, WithMem, recVars
  <2>2. f \in job[p].todo
    <3> DEFINE T == job[p].todo
    <3>1. T \in SUBSET Action /\ T # {} BY <1>0, <1>9 DEF RestoreFile, Doing, Job
    <3> QED BY <3>1, FirstOfPlan DEF Next1
  <2> HIDE DEF f
  <2>3. b \in BackupId /\ old_m = job[p].mem /\ old_m \in Manifest /\ old_m.files[f].recorded
    BY <1>1, <1>2, <2>1, <2>2 DEF HoldingPC, PC, LockedPC, RecordsType, Local, ExecPC
  <2>4. RecordInv' BY <1>1, <2>1, <2>3, WriteEffect DEF FilesType
  <2>5. job'[p].bid = b /\ job'[p].mem = job[p].mem /\ job'[p].todo \subseteq job[p].todo
    BY <1>0, <2>1, <2>3, ResultJobs, JobParts, KeepIt
  <2> QED BY <2>1, <2>4, <2>5, SameManifest DEF HoldingPC, ExecPC, PC, LockedPC
<1>10. ASSUME FinishRollback(p) PROVE ReversibleInv'
  <2> DEFINE s == FinalStatus(job[p])
             m == [job[p].mem EXCEPT !.status = s]
  <2>1. /\ pc[p] = "rb-exec" /\ Save(p, m) /\ Exit(p)
        /\ UNCHANGED <<disk, nextId, base, foreign>>
    BY <1>10 DEF FinishRollback, fileVars, histVars
  <2>2. s \in Status /\ s # "none" BY FinalStatusType
  <2> HIDE DEF s
  <2>3. m \in Manifest /\ m.files = job[p].mem.files /\ m.status = s
    BY <1>0, <2>2, ManifestUpdates, StatusParts
  <2> HIDE DEF m
  <2>4. RecordInv' BY <1>4, <2>1, <2>2, <2>3 DEF HoldingPC, PC, LockedPC, ExecPC
  <2> QED BY <2>1, <2>4, ExitKeeps
<1> QED BY <1>3, <1>5, <1>6, <1>7, <1>8, <1>9, <1>10

LEMMA EnvironmentReversible ==
  ASSUME TypeInv, ReversibleInv
  PROVE  /\ \A p \in Proc : Crash(p) => ReversibleInv'
         /\ Reboot => ReversibleInv'
         /\ \A f \in File : EditFile(f) => ReversibleInv'
<1> USE DEF TypeInv, TypeOK
<1>1. ASSUME NEW p \in Proc, Crash(p) PROVE ReversibleInv'
  <2>1. RecordInv'
    BY <1>1, QuietEffect DEF ReversibleInv, Crash, fileVars, recVars, histVars
  <2> QED BY <1>1, <2>1, ExitKeeps DEF Crash
<1>2. ASSUME Reboot PROVE ReversibleInv'
  <2>1. \A c \in BackupId : foreign[c] \subseteq foreign'[c]
    BY <1>2, DisturbGrows DEF Reboot
  <2>2. RecordInv'
    BY <1>2, <2>1, QuietEffect DEF ReversibleInv, Reboot, fileVars, recVars
  <2>3. \A p \in Proc : pc'[p] = "idle" BY <1>2 DEF Reboot
  <2> QED BY <2>2, <2>3 DEF ReversibleInv, OneAtATime, Local, HoldingPC, ExecPC
<1>3. ASSUME NEW f \in File, EditFile(f) PROVE ReversibleInv'
  <2>1. /\ Disturb(0, f) /\ UNCHANGED <<manifest, nextId, base, pc, job>>
        /\ \A g \in File \ {f} : disk'[g] = disk[g]
    BY <1>3 DEF EditFile, FilesType, recVars
  <2>2. RecordInv'
    BY <2>1, WriteEffect DEF ReversibleInv, BackupId
  <2> QED BY <2>1, <2>2 DEF ReversibleInv, OneAtATime, Local
<1> QED BY <1>1, <1>2, <1>3

LEMMA ReversibleNext ==
  ASSUME Concurrent = FALSE, TypeInv, ReversibleInv, [Next]_vars
  PROVE  ReversibleInv'
<1>1. CASE UNCHANGED vars
  BY <1>1 DEF vars, ReversibleInv, OneAtATime, RecordInv, Begun, RecordedTruly, Local
<1>2. ASSUME NEW p \in Proc, ApplyStep(p) PROVE ReversibleInv'
  BY <1>2, QuietApplyReversible, WritingApplyReversible DEF ApplyStep
<1>3. ASSUME NEW p \in Proc, RollbackStep(p) PROVE ReversibleInv'
  BY <1>3, QuietRollbackReversible, WritingRollbackReversible DEF RollbackStep
<1> QED BY <1>1, <1>2, <1>3, StartReversible, EnvironmentReversible DEF Next, Environment

LEMMA ReversibleInit == Init => ReversibleInv
<1> SUFFICES ASSUME Init PROVE ReversibleInv
  OBVIOUS
<1>1. NoManifest.status = "none" BY DEF NoManifest
<1>2. RecordInv
  BY <1>1 DEF Init, RecordInv, Begun, RecordedTruly, BackupId
<1>3. \A p \in Proc : pc[p] = "idle" BY DEF Init
<1> QED BY <1>2, <1>3 DEF ReversibleInv, OneAtATime, Local, HoldingPC, ExecPC

LEMMA RecordedIsReversible == TypeOK /\ RecordInv => Reversible
BY DEF RecordInv, RecordedTruly, Reversible

(* Whatever an apply has changed is recorded in its manifest on disk with  *)
(* the content it found, at every moment, through any number of crashes,   *)
(* reboots, failed commands, edits, applies and rollbacks, as long as one  *)
(* helper runs at a time (record_before_write against atomic writes).      *)
THEOREM ReversibleCorrect ==
  ASSUME Concurrent = FALSE
  PROVE  Spec => []Reversible
<1>1. TypeInv /\ ReversibleInv /\ [Next]_vars => ReversibleInv'
  BY ReversibleNext
<1>2. TypeInv /\ ReversibleInv => Reversible
  BY RecordedIsReversible DEF ReversibleInv, TypeInv
<1> QED BY <1>1, <1>2, ReversibleInit, TypeInvariant, PTL DEF Spec
=============================================================================
