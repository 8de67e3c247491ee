--------------------------- MODULE RestoredProofs ---------------------------
(***************************************************************************)
(* What the final statuses promise, for every number of backups, edits and *)
(* faults, with one helper at a time: when an operation is "rolled-back"   *)
(* every file nobody else changed is back to what it was, and when it is   *)
(* "completed" the machine will resume.                                    *)
(*                                                                         *)
(* A file whose record says what the operation wrote holds either that or  *)
(* what it held at first (Traced): apply writes no file again once its     *)
(* after-hash is recorded, and a restore puts the first content back.  So  *)
(* a file the planner leaves out of the plan is already back, and one in   *)
(* the plan is back when its action has succeeded (Tracing).               *)
(*                                                                         *)
(* An apply reaches "completed" along one path, on which each file it      *)
(* writes, and each command that reads one, comes after the target was     *)
(* chosen among the swaps in use; nobody else writes meanwhile (Ready).    *)
(***************************************************************************)
EXTENDS OneHelperProofs

(* The record tells what the operation wrote. *)
Tells(r) == r.recorded /\ r.after # Unknown

IsBack(b, f) == disk[f] = base[b].disk[f]

Sound(b, f) ==
  LET r == manifest[b].files[f]
  IN  Tells(r) => /\ r.after # Absent
                  /\ disk[f] = r.after \/ IsBack(b, f)
                  /\ manifest[b].status = "rolled-back" => IsBack(b, f)

Traced ==
  \A b \in BackupId : \A f \in File \ foreign[b] : manifest[b].status # "none" => Sound(b, f)

(* The files an apply has yet to write, from file f on, and where it       *)
(* stands between writing fstab and the others.                            *)
From(f) == IF f = "fstab" THEN File ELSE IF f = "resume" THEN {"resume", "grub"} ELSE {"grub"}

WritingPC == {"record", "write", "seal"}
MakingPC  == {"swap-manifest", "swapoff", "retain", "retain-save", "create",
              "allocate", "mkswap", "swapon", "select"}

Ahead(p) == IF pc[p] = "check-swap" THEN File
            ELSE IF pc[p] \in WritingPC THEN From(job[p].file)
            ELSE IF pc[p] \in MakingPC THEN From("resume") ELSE {}

Tracing(p) ==
  LET b == job[p].bid
  IN  /\ \A f \in Ahead(p) : manifest[b].files[f].after = Unknown
      /\ pc[p] \in ExecPC \ {"rb-exec"} => job[p].todo # {} /\ Next1(p) \in SwapAction
      /\ pc[p] \in ExecPC /\ ~job[p].anyFail
           => \A f \in File \ (foreign[b] \cup job[p].todo) :
                Tells(manifest[b].files[f]) => IsBack(b, f)

TraceInv == Traced /\ \A p \in Proc : Tracing(p)

-----------------------------------------------------------------------------
(* What a step does to the files and the manifests *)

LEMMA QuietTrace ==
  ASSUME Traced, UNCHANGED <<disk, manifest, base>>,
         \A b \in BackupId : foreign[b] \subseteq foreign'[b]
  PROVE  Traced'
BY DEF Traced, Sound, IsBack

(* A manifest is saved: a record that tells told the same before, or tells *)
(* what the file holds; and it says "rolled-back" of files that are back.  *)
LEMMA SaveTrace ==
  ASSUME TypeOK, Traced, NEW b \in BackupId, NEW m,
         manifest[b].status # "none",
         manifest' = [manifest EXCEPT ![b] = m],
         UNCHANGED <<disk, base, foreign>>,
         \A f \in File \ foreign[b] : Tells(m.files[f]) =>
           /\ \/ Tells(manifest[b].files[f]) /\ m.files[f].after = manifest[b].files[f].after
              \/ m.files[f].after = disk[f] /\ disk[f] # Absent
           /\ m.status = "rolled-back" => IsBack(b, f)
  PROVE  Traced'
<1> USE DEF TypeOK, RecordsType
<1>1. manifest'[b] = m /\ \A c \in BackupId \ {b} : manifest'[c] = manifest[c]
  OBVIOUS
<1>2. ASSUME NEW c \in BackupId, NEW f \in File \ foreign[c], manifest'[c].status # "none"
      PROVE  Sound(c, f)'
  <2>1. CASE c = b BY <1>1, <1>2, <2>1 DEF Traced, Sound, IsBack
  <2>2. CASE c # b BY <1>1, <1>2, <2>2 DEF Traced, Sound, IsBack
  <2> QED BY <2>1, <2>2
<1> QED BY <1>2 DEF Traced

(* A file is written: by b before its record tells anything, or back to    *)
(* what b found; or by somebody b is no backup of.                         *)
LEMMA WriteTrace ==
  ASSUME TypeOK, RecordInv, Traced, NEW b, NEW f \in File, Disturb(b, f),
         UNCHANGED <<manifest, base>>,
         \A g \in File \ {f} : disk'[g] = disk[g],
         b \in BackupId /\ f \notin foreign[b] =>
           \/ ~Tells(manifest[b].files[f])
           \/ manifest[b].files[f].after # Absent /\ disk'[f] = base[b].disk[f]
  PROVE  Traced'
<1> USE DEF TypeOK, HistoryType
<1>1. ASSUME NEW c \in BackupId, NEW g \in File \ foreign'[c], manifest[c].status # "none"
      PROVE  Sound(c, g)'
  <2>1. g \notin foreign[c] /\ (g = f => c = b)
    <3>1. ~(c >= nextId) BY <1>1 DEF RecordInv, Begun
    <3> QED BY <3>1 DEF Disturb
  <2>2. CASE g = f BY <2>1, <2>2 DEF Sound, IsBack
  <2>3. CASE g # f BY <1>1, <2>1, <2>3 DEF Traced, Sound, IsBack
  <2> QED BY <2>2, <2>3
<1> QED BY <1>1 DEF Traced

LEMMA BeginTrace ==
  ASSUME TypeOK, Traced, NewManifest, UNCHANGED disk
  PROVE  Traced'
<1> USE DEF TypeOK, RecordsType, HistoryType
<1>1. \A f \in File : ~Tells(EmptyManifest.files[f])
  BY DEF EmptyManifest, NoManifest, NoRecord, Tells
<1>2. /\ manifest'[nextId] = EmptyManifest /\ UNCHANGED foreign
      /\ \A c \in BackupId \ {nextId} : manifest'[c] = manifest[c] /\ base'[c] = base[c]
  BY DEF NewManifest
<1>3. ASSUME NEW c \in BackupId, NEW f \in File \ foreign[c], manifest'[c].status # "none"
      PROVE  Sound(c, f)'
  <2>1. CASE c = nextId BY <1>1, <1>2, <2>1 DEF Sound
  <2>2. CASE c # nextId BY <1>2, <1>3, <2>2 DEF Traced, Sound, IsBack
  <2> QED BY <2>1, <2>2
<1> QED BY <1>2, <1>3 DEF Traced

-----------------------------------------------------------------------------
(* What a step does to the processes *)

NotedPC == {"check-swap"} \cup WritingPC \cup MakingPC \cup ExecPC

LEMMA NothingToTrace ==
  ASSUME NEW p \in Proc, pc'[p] \notin NotedPC
  PROVE  Tracing(p)'
BY DEF Tracing, Ahead, NotedPC

LEMMA OthersNotTracing ==
  ASSUME ReversibleInv, NEW p \in Proc, Alone(p), Traced', Tracing(p)'
  PROVE  TraceInv'
<1>1. \A q \in Proc \ {p} : pc'[q] = "idle" BY DEF ReversibleInv, OneAtATime, Alone, AllIdle
<1>2. \A q \in Proc \ {p} : Tracing(q)'
  BY <1>1, NothingToTrace DEF NotedPC, WritingPC, MakingPC, ExecPC
<1> QED BY <1>2 DEF TraceInv

(* An apply that goes on, with no more to write, and leaves what it has    *)
(* yet to write without an after-hash.                                     *)
LEMMA StillAhead ==
  ASSUME NEW p \in Proc, Tracing(p), pc'[p] \notin ExecPC,
         Ahead(p)' \subseteq Ahead(p), job'[p].bid = job[p].bid,
         \A f \in Ahead(p)' : \/ manifest'[job[p].bid].files[f].after = Unknown
                              \/ /\ manifest'[job[p].bid].files[f].after
                                      = manifest[job[p].bid].files[f].after
  PROVE  Tracing(p)'
BY DEF Tracing

LEMMA AheadOrder ==
  /\ From("fstab") = File
  /\ From("resume") = File \ {"fstab"}
  /\ From("grub") = File \ {"fstab", "resume"}
  /\ \A f \in File : f \in From(f) /\ From(f) \subseteq File
BY DEF From, File

(* What record_before_write and record_after_write leave of the after-     *)
(* hashes.                                                                 *)
LEMMA RecordedAfter ==
  ASSUME NEW m \in Manifest, NEW f \in File, NEW c, NEW d
  PROVE  \A g \in File : \/ Recorded(m, f, c, d).files[g] = m.files[g]
                         \/ Recorded(m, f, c, d).files[g].after = Unknown
BY DEF Recorded, Manifest, FileRecord

LEMMA SealedAfter ==
  ASSUME NEW m \in Manifest, NEW f \in File, NEW c
  PROVE  /\ \A g \in File \ {f} : Sealed(m, f, c).files[g] = m.files[g]
         /\ \/ Sealed(m, f, c) = m
            \/ c # Absent /\ Sealed(m, f, c).files[f].after = c
BY DEF Sealed, Manifest, FileRecord

-----------------------------------------------------------------------------
(* The steps of an apply *)

LEMMA QuietApplyTrace ==
  ASSUME TypeInv, CurrentInv, TraceInv, NEW p \in Proc,
         \/ Start(p) \/ ValidateTarget(p) \/ BeginFails(p) \/ CheckSwap(p) \/ SwapOff(p)
         \/ RetainOld(p) \/ CreateFile(p) \/ Allocate(p) \/ MkSwap(p) \/ SwapOn(p)
         \/ SwapCommandFails(p) \/ SelectTarget(p) \/ UpdateInitramfs(p) \/ UpdateGrub(p)
  PROVE  Traced' /\ Tracing(p)'
<1> USE DEF TypeInv, TypeOK
<1> DEFINE b == job[p].bid
<1>0. job[p] \in Job /\ job[p].mem \in Manifest /\ job[p].file \in File /\ job[p].want \in Content
  BY DEF JobType, Job
<1>1. Tracing(p) /\ Traced BY DEF TraceInv
<1>2. UNCHANGED <<disk, manifest, base>> /\ \A c \in BackupId : foreign[c] \subseteq foreign'[c]
  <2>1. CASE Start(p)
    BY <2>1 DEF Start, StartTargetApply, StartSwapApply, StartRollback, fileVars, recVars, histVars
  <2>2. CASE \/ ValidateTarget(p) \/ BeginFails(p) \/ CheckSwap(p) \/ MkSwap(p)
             \/ SelectTarget(p) \/ UpdateInitramfs(p) \/ UpdateGrub(p)
    BY <2>2 DEF ValidateTarget, BeginFails, CheckSwap, MkSwap, SelectTarget, UpdateInitramfs,
       UpdateGrub, fileVars, recVars, histVars
  <2>3. CASE \/ SwapOff(p) \/ RetainOld(p) \/ CreateFile(p) \/ Allocate(p) \/ SwapOn(p)
             \/ SwapCommandFails(p)
    BY <2>3, DisturbGrows DEF SwapOff, RetainOld, CreateFile, Allocate, SwapOn,
       SwapCommandFails, fileVars, recVars
  <2> QED BY <2>1, <2>2, <2>3
<1>3. Traced' BY <1>1, <1>2, QuietTrace
<1>4. CASE Exit(p)
  BY <1>3, <1>4, GotoOthers, NothingToTrace
  DEF Exit, NotedPC, WritingPC, MakingPC, ExecPC
<1>5. CASE Start(p) \/ ValidateTarget(p) \/ UpdateInitramfs(p) \/ UpdateGrub(p)
  <2>1. \/ Exit(p)
        \/ \E l \in {"validate", "begin", "rb-lock", "update-grub", "mark-failed", "complete"} :
             Goto(p, l)
    BY <1>5 DEF Start, StartTargetApply, StartSwapApply, StartRollback, ValidateTarget,
       UpdateInitramfs, UpdateGrub
  <2> QED BY <1>3, <1>4, <2>1, GotoOthers, NothingToTrace DEF NotedPC, WritingPC, MakingPC, ExecPC
<1>6. CASE CheckSwap(p) /\ ~Exit(p)
  <2> DEFINE n == swapAt = NoFile \/ inode[swapAt].size # job[p].size
             c == WithEntry(disk["fstab"])
  <2>0. PICK misread \in BOOLEAN :
          Keep(p, Checked(job[p], n, SwapActive(misread), "fstab", c)) /\ pc[p] = "check-swap"
    BY <1>6 DEF CheckSwap, Checked
  <2> DEFINE a == SwapActive(misread)
  <2>1. n \in BOOLEAN /\ a \in BOOLEAN /\ "fstab" \in File /\ c \in Content
    BY ConstantTypes DEF SwapActive, InUse, File, FilesType
  <2> HIDE DEF n, c, a
  <2>2. Keep(p, Checked(job[p], n, a, "fstab", c)) /\ pc[p] = "check-swap"
    BY <2>0 DEF a
  <2>3. job'[p].bid = b BY <1>0, <2>1, <2>2, JobUpdates, KeepIt
  <2>4. \E l \in {"swap-manifest", "record"} : Goto(p, l) BY <1>6 DEF CheckSwap
  <2>5. Ahead(p)' \subseteq File /\ Ahead(p) = File
    BY <2>2, AheadOrder DEF Ahead, From, File
  <2> QED BY <1>1, <1>2, <1>3, <2>3, <2>4, <2>5, GotoOthers, StillAhead DEF ExecPC
<1>7. CASE SelectTarget(p) /\ ~Exit(p)
  <2>1. Keep(p, WithTarget(job[p], ForSwap(swapAt), "resume")) /\ pc[p] = "select" /\ Goto(p, "record")
    BY <1>7 DEF SelectTarget, WithTarget
  <2>2. ForSwap(swapAt) \in Content /\ "resume" \in File
    BY <1>7, ConstantTypes, BoundAssumption DEF SelectTarget, InUse, SwapType, InodeId, File
  <2>3. job'[p].bid = b /\ job'[p].file = "resume"
    BY <1>0, <2>1, <2>2, JobUpdates, SwapParts, KeepIt
  <2>4. pc'[p] = "record" BY <2>1, GotoOthers
  <2>5. Ahead(p)' = Ahead(p) BY <2>1, <2>3, <2>4 DEF Ahead, WritingPC, MakingPC
  <2> QED BY <1>1, <1>2, <1>3, <2>3, <2>4, <2>5, StillAhead DEF ExecPC
<1>8. CASE ~Exit(p) /\ (SwapOff(p) \/ RetainOld(p) \/ CreateFile(p) \/ Allocate(p) \/ MkSwap(p) \/ SwapOn(p))
  <2>1. /\ pc[p] \in MakingPC /\ UNCHANGED job /\ \E l \in MakingPC : Goto(p, l)
    BY <1>8 DEF SwapOff, RetainOld, CreateFile, Allocate, MkSwap, SwapOn, MakingPC
  <2>2. pc'[p] \in MakingPC BY <2>1, GotoOthers
  <2>3. Ahead(p)' = Ahead(p) BY <2>1, <2>2 DEF Ahead, MakingPC, WritingPC
  <2> QED BY <1>1, <1>2, <1>3, <2>1, <2>2, <2>3, StillAhead DEF MakingPC, ExecPC
<1> QED BY <1>3, <1>4, <1>5, <1>6, <1>7, <1>8 DEF BeginFails, SwapCommandFails

LEMMA WritingApplyTrace ==
  ASSUME TypeInv, CurrentInv, TraceInv, NEW p \in Proc,
         \/ Begin(p) \/ RecordBefore(p) \/ WriteFile(p) \/ RecordAfter(p) \/ RecordSwap(p)
         \/ SaveOldName(p) \/ FinishApply(p)
  PROVE  Traced' /\ Tracing(p)'
<1> USE DEF TypeInv, TypeOK
<1> DEFINE b == job[p].bid
           old_m == manifest[b]
<1>0. /\ job[p] \in Job /\ job[p].mem \in Manifest /\ job[p].file \in File
      /\ job[p].want \in Content /\ job[p].wasActive \in BOOLEAN
  BY DEF JobType, Job
<1>1. Tracing(p) /\ Traced /\ Local(p) /\ Current(p) /\ RecordInv
  BY DEF TraceInv, CurrentInv, ReversibleInv
<1>2. ASSUME pc[p] \in HoldingPC
      PROVE  /\ b \in BackupId /\ old_m = job[p].mem
             /\ old_m.status # "none" /\ old_m.status # "rolled-back"
  BY <1>1, <1>2 DEF HoldingPC, WorksOnBackup, Local, Current
<1>3. CASE Begin(p)
  <2>1. Traced' BY <1>1, <1>3, BeginTrace DEF Begin, fileVars
  <2>2. nextId \in 0..MaxBackups /\ nextId \in BackupId /\ EmptyManifest \in Manifest
    BY <1>3, ConstantTypes, BoundAssumption DEF Begin, NewManifest, BackupId
  <2>3. Keep(p, WithBackup(job[p], nextId, EmptyManifest)) BY <1>3 DEF Begin, WithBackup
  <2>4. job'[p].bid = nextId /\ job'[p].file = job[p].file
    BY <1>0, <2>2, <2>3, JobUpdates, SwapParts, KeepIt
  <2>5. manifest'[nextId] = EmptyManifest /\ \A f \in File : EmptyManifest.files[f].after = Unknown
    BY <1>3, <2>2 DEF Begin, NewManifest, RecordsType, EmptyManifest, NoManifest, NoRecord
  <2>6. \E l \in {"check-swap", "record"} : Goto(p, l) BY <1>3 DEF Begin
  <2>7. pc'[p] \notin ExecPC BY <2>6, GotoOthers DEF ExecPC
  <2>8. Ahead(p)' \subseteq File BY AheadOrder DEF Ahead, From, File
  <2> QED BY <2>1, <2>4, <2>5, <2>7, <2>8 DEF Tracing
<1>4. ASSUME NEW m \in Manifest, pc[p] \in HoldingPC, Save(p, m),
             m.status = old_m.status, UNCHANGED <<disk, base, foreign>>,
             \A g \in File : Tells(m.files[g]) =>
               \/ Tells(old_m.files[g]) /\ m.files[g].after = old_m.files[g].after
               \/ m.files[g].after = disk[g] /\ disk[g] # Absent
      PROVE  Traced' /\ manifest'[b] = m
  <2>1. b \in BackupId /\ old_m.status # "none" /\ m.status # "rolled-back" BY <1>2, <1>4
  <2>2. manifest' = [manifest EXCEPT ![b] = m] BY <1>4 DEF Save
  <2>3. Traced' BY <1>1, <1>4, <2>1, <2>2, SaveTrace
  <2> QED BY <2>1, <2>2, <2>3 DEF RecordsType
<1>5. CASE RecordBefore(p)
  <2> DEFINE f == job[p].file
             d == ({f} \cap DirFile) \ dirs
             m == Recorded(job[p].mem, f, disk[f], d)
  <2>1. /\ pc[p] = "record" /\ Save(p, m) /\ Keep(p, WithMem(job[p], m)) /\ Goto(p, "write")
        /\ UNCHANGED <<disk, base, foreign>>
    BY <1>5 DEF RecordBefore, WithMem, fileVars, histVars
  <2>2. m \in Manifest BY <1>0, RecordedType DEF FilesType
  <2>3. pc[p] \in HoldingPC /\ old_m = job[p].mem BY <1>2, <2>1 DEF HoldingPC, PC, ApplyPC
  <2> HIDE DEF d
  <2>4. m.status = job[p].mem.status BY <1>0, RecordedParts
  <2>5. \A g \in File : m.files[g] = job[p].mem.files[g] \/ m.files[g].after = Unknown
    BY <1>0, RecordedAfter
  <2> HIDE DEF m, f
  <2>6. Traced' /\ manifest'[b] = m BY <1>4, <2>1, <2>2, <2>3, <2>4, <2>5 DEF Tells
  <2>7. job'[p].bid = b /\ job'[p].file = job[p].file
    BY <1>0, <2>1, <2>2, JobUpdates, JobParts, KeepIt
  <2>8. pc'[p] = "write" BY <2>1, GotoOthers
  <2>9. Ahead(p)' = Ahead(p) /\ Ahead(p) \subseteq File
    BY <1>0, <2>1, <2>7, <2>8, AheadOrder DEF Ahead, WritingPC
  <2> QED BY <1>1, <2>3, <2>5, <2>6, <2>7, <2>8, <2>9, StillAhead DEF ExecPC
<1>6. CASE WriteFile(p)
  <2> DEFINE f == job[p].file
  <2>1. /\ pc[p] = "write" /\ Goto(p, "seal") /\ UNCHANGED <<job, manifest, base>>
        /\ Disturb(b, f) /\ \A g \in File \ {f} : disk'[g] = disk[g]
    BY <1>6 DEF WriteFile, recVars, FilesType
  <2>2. old_m.files[f].after = Unknown
    BY <1>0, <1>1, <2>1, AheadOrder DEF Tracing, Ahead, WritingPC
  <2>3. Traced' BY <1>0, <1>1, <2>1, <2>2, WriteTrace DEF Tells
  <2>4. pc'[p] = "seal" BY <2>1, GotoOthers
  <2>5. Ahead(p)' = Ahead(p) BY <2>1, <2>4 DEF Ahead, WritingPC
  <2> QED BY <1>1, <2>1, <2>3, <2>4, <2>5, StillAhead DEF ExecPC
<1>7. CASE RecordAfter(p)
  <2> DEFINE f == job[p].file
             m == Sealed(job[p].mem, f, disk[f])
             g == IF f = "resume" THEN "grub" ELSE f
  <2>1. /\ pc[p] = "seal" /\ Save(p, m) /\ Keep(p, WithNextFile(job[p], m, g))
        /\ UNCHANGED <<disk, base, foreign>>
    BY <1>7 DEF RecordAfter, WithNextFile, fileVars, histVars
  <2>2. m \in Manifest /\ g \in File BY <1>0, SealedType DEF FilesType, File
  <2>3. pc[p] \in HoldingPC /\ old_m = job[p].mem BY <1>2, <2>1 DEF HoldingPC, PC, ApplyPC
  <2>4. /\ m.status = job[p].mem.status
        /\ \A h \in File : m.files[h].recorded = job[p].mem.files[h].recorded
    BY <1>0, SealedParts
  <2>5. /\ \A h \in File \ {f} : m.files[h] = job[p].mem.files[h]
        /\ m = job[p].mem \/ (disk[f] # Absent /\ m.files[f].after = disk[f])
    BY <1>0, SealedAfter
  <2>6. \/ f = "fstab" /\ Goto(p, "swap-manifest")
        \/ f = "resume" /\ Goto(p, "record")
        \/ f = "grub" /\ Goto(p, "initramfs")
    BY <1>0, <1>7 DEF RecordAfter, File
  <2> HIDE DEF m
  <2>7. Traced' /\ manifest'[b] = m
    <3>1. \A h \in File : Tells(m.files[h]) =>
            \/ Tells(old_m.files[h]) /\ m.files[h].after = old_m.files[h].after
            \/ m.files[h].after = disk[h] /\ disk[h] # Absent
      BY <2>3, <2>5 DEF Tells
    <3> QED BY <1>4, <2>1, <2>2, <2>3, <2>4, <3>1
  <2>8. job'[p].bid = b /\ job'[p].file = g
    BY <1>0, <2>1, <2>2, JobUpdates, SwapParts, KeepIt
  <2>9. Ahead(p) = From(f) BY <2>1 DEF Ahead, WritingPC
  <2>10. pc'[p] \notin ExecPC /\ Ahead(p)' \subseteq Ahead(p) \ {f} /\ Ahead(p) \subseteq File
    <3>1. CASE f = "fstab" /\ Goto(p, "swap-manifest")
      BY <2>9, <3>1, GotoOthers, AheadOrder DEF Ahead, WritingPC, MakingPC, ExecPC
    <3>2. CASE f = "resume" /\ Goto(p, "record")
      <4>1. pc'[p] = "record" /\ job'[p].file = "grub" BY <2>8, <3>2, GotoOthers
      <4>2. Ahead(p)' = From("grub") BY <4>1 DEF Ahead, WritingPC
      <4> QED BY <2>9, <3>2, <4>1, <4>2, AheadOrder DEF ExecPC
    <3>3. CASE f = "grub" /\ Goto(p, "initramfs")
      BY <2>9, <3>3, GotoOthers, AheadOrder DEF Ahead, WritingPC, MakingPC, ExecPC
    <3> QED BY <2>6, <3>1, <3>2, <3>3
  <2>11. \A h \in Ahead(p)' : m.files[h].after = old_m.files[h].after
    BY <2>3, <2>5, <2>10
  <2> QED BY <1>1, <2>7, <2>8, <2>10, <2>11, StillAhead
<1>8. ASSUME NEW m \in Manifest, m.files = job[p].mem.files, m.status = job[p].mem.status,
             pc[p] \in MakingPC, Save(p, m), Keep(p, WithMem(job[p], m)),
             NEW l \in MakingPC \cup {"create"}, Goto(p, l), UNCHANGED <<disk, base, foreign>>
      PROVE  Traced' /\ Tracing(p)'
  <2>1. pc[p] \in HoldingPC BY <1>8 DEF MakingPC, HoldingPC, PC, ApplyPC
  <2>2. m.files = old_m.files /\ m.status = old_m.status BY <1>2, <1>8, <2>1
  <2>3. Traced' /\ manifest'[b] = m BY <1>4, <1>8, <2>1, <2>2
  <2>4. job'[p].bid = b BY <1>0, <1>8, JobUpdates, KeepIt
  <2>5. pc'[p] \in MakingPC BY <1>8, GotoOthers DEF MakingPC
  <2>6. Ahead(p)' = Ahead(p) BY <1>8, <2>5 DEF Ahead, MakingPC, WritingPC
  <2> QED BY <1>1, <2>2, <2>3, <2>4, <2>5, <2>6, StillAhead DEF MakingPC, ExecPC
<1>9. CASE RecordSwap(p)
  <2> DEFINE s == [recorded |-> TRUE, existed |-> swapAt # NoFile,
                   wasActive |-> job[p].wasActive, oldNamed |-> FALSE]
             m == [job[p].mem EXCEPT !.swap = s]
  <2>1. s \in SwapRecord BY <1>0 DEF SwapRecord
  <2>2. /\ Save(p, m) /\ Keep(p, WithMem(job[p], m)) /\ pc[p] \in MakingPC
        /\ UNCHANGED <<disk, base, foreign>> /\ \E l \in MakingPC : Goto(p, l)
    BY <1>9 DEF RecordSwap, WithMem, MakingPC, fileVars, histVars
  <2> HIDE DEF s
  <2>3. m \in Manifest /\ m.files = job[p].mem.files /\ m.status = job[p].mem.status
    BY <1>0, <2>1, ManifestUpdates, StatusParts
  <2> HIDE DEF m
  <2> QED BY <1>8, <2>2, <2>3
<1>10. CASE SaveOldName(p)
  <2> DEFINE m == [job[p].mem EXCEPT !.swap.oldNamed = TRUE]
  <2>1. /\ Save(p, m) /\ Keep(p, WithMem(job[p], m)) /\ pc[p] \in MakingPC
        /\ UNCHANGED <<disk, base, foreign>> /\ \E l \in MakingPC : Goto(p, l)
    BY <1>10 DEF SaveOldName, WithMem, MakingPC, fileVars, histVars
  <2>2. m \in Manifest /\ m.files = job[p].mem.files /\ m.status = job[p].mem.status
    BY <1>0, ManifestUpdates, StatusParts
  <2> HIDE DEF m
  <2> QED BY <1>8, <2>1, <2>2
<1>11. CASE FinishApply(p)
  <2> DEFINE s == IF pc[p] = "complete" THEN "completed" ELSE "failed"
             m == [job[p].mem EXCEPT !.status = s]
  <2>1. b \in BackupId /\ old_m = job[p].mem /\ old_m.status # "none"
    BY <1>2, <1>11 DEF FinishApply, HoldingPC, PC, ApplyPC
  <2>2. Save(p, m) /\ Exit(p) /\ UNCHANGED <<disk, base, foreign>>
    BY <1>11 DEF FinishApply, fileVars, histVars
  <2>3. s \in Status /\ s # "rolled-back" BY DEF Status, Eligible
  <2> HIDE DEF s
  <2>4. m.files = job[p].mem.files /\ m.status = s BY <1>0, <2>3, StatusParts
  <2> HIDE DEF m
  <2>5. manifest' = [manifest EXCEPT ![b] = m] BY <2>2 DEF Save
  <2>6. Traced' BY <1>1, <2>1, <2>2, <2>3, <2>4, <2>5, SaveTrace
  <2> QED BY <2>2, <2>6, GotoOthers, NothingToTrace
      DEF Exit, NotedPC, WritingPC, MakingPC, ExecPC
<1> QED BY <1>3, <1>5, <1>6, <1>7, <1>9, <1>10, <1>11

-----------------------------------------------------------------------------
(* The steps of a rollback *)

(* What the planner leaves out, it leaves out because the content is not   *)
(* the operation's.                                                        *)
LEMMA NotPlanned ==
  ASSUME NEW m, NEW d, NEW ds, NEW o, NEW x
  PROVE  \A f \in File \ BuildPlan(m, d, ds, o, x) :
           Tells(m.files[f]) => d[f] = Absent \/ d[f] # m.files[f].after
BY DEF BuildPlan, FileWillRun, Tells

LEMMA ResultParts ==
  ASSUME NEW j \in Job, NEW m \in Manifest
  PROVE  /\ Succeeded(j).todo = j.todo \ {First(j.todo)} /\ Succeeded(j).anyFail = j.anyFail
         /\ Failed(j).anyFail
         /\ WithMem(j, m).todo = j.todo /\ WithMem(j, m).anyFail = j.anyFail
BY DEF Job, Succeeded, Failed, WithMem

LEMMA PlanningTrace ==
  ASSUME TypeInv, CurrentInv, TraceInv, NEW p \in Proc,
         \/ AcquireLock(p) \/ LoadManifest(p) \/ MarkRollingBack(p) \/ SafetySnapshot(p)
         \/ SafetySnapshotFails(p) \/ PlanRollback(p) \/ FinishRollback(p)
  PROVE  Traced' /\ Tracing(p)'
<1> USE DEF TypeInv, TypeOK
<1> DEFINE b == job[p].bid
           old_m == manifest[b]
<1>0. /\ job[p] \in Job /\ job[p].mem \in Manifest /\ job[p].file \in File
      /\ job[p].want \in Content /\ job[p].orig \in Status
  BY DEF JobType, Job
<1>1. Tracing(p) /\ Traced /\ Local(p) /\ Current(p) /\ RecordInv
  BY DEF TraceInv, CurrentInv, ReversibleInv
<1>2. ASSUME pc[p] \in HoldingPC
      PROVE  /\ b \in BackupId /\ old_m = job[p].mem /\ old_m \in Manifest
             /\ old_m.status # "none"
  BY <1>1, <1>2 DEF HoldingPC, WorksOnBackup, Local, RecordsType
<1>3. ASSUME pc'[p] \in {"idle", "rb-load", "rb-mark", "rb-snapshot", "rb-plan"}
      PROVE  Tracing(p)'
  BY <1>3, NothingToTrace DEF NotedPC, WritingPC, MakingPC, ExecPC
<1>4. ASSUME NEW m, m.files = job[p].mem.files, pc[p] \in HoldingPC, Save(p, m),
             UNCHANGED <<disk, base, foreign>>,
             m.status = "rolled-back" =>
               \A f \in File \ foreign[b] : Tells(old_m.files[f]) => IsBack(b, f)
      PROVE  Traced'
  <2>1. b \in BackupId /\ old_m.status # "none" /\ m.files = old_m.files BY <1>2, <1>4
  <2>2. manifest' = [manifest EXCEPT ![b] = m] BY <1>4 DEF Save
  <2> QED BY <1>1, <1>4, <2>1, <2>2, SaveTrace
<1>5. CASE AcquireLock(p) \/ LoadManifest(p)
  <2>1. UNCHANGED <<disk, manifest, base, foreign>>
    BY <1>5 DEF AcquireLock, LoadManifest, fileVars, recVars, histVars
  <2>2. Exit(p) \/ \E l \in {"rb-load", "rb-mark"} : Goto(p, l)
    BY <1>5 DEF AcquireLock, LoadManifest
  <2>3. pc'[p] \in {"idle", "rb-load", "rb-mark"} BY <2>2, GotoOthers DEF Exit
  <2> QED BY <1>1, <1>3, <2>1, <2>3, QuietTrace
<1>6. CASE MarkRollingBack(p)
  <2> DEFINE m == [job[p].mem EXCEPT !.status = "rollback-in-progress"]
  <2>1. /\ Save(p, m) /\ Goto(p, "rb-snapshot") /\ pc[p] \in HoldingPC
        /\ UNCHANGED <<disk, base, foreign>>
    BY <1>6 DEF MarkRollingBack, fileVars, histVars, HoldingPC, PC, LockedPC, ExecPC
  <2>2. m.files = job[p].mem.files /\ m.status = "rollback-in-progress"
    BY <1>0, StatusParts DEF Status
  <2> HIDE DEF m
  <2> QED BY <1>3, <1>4, <2>1, <2>2, GotoOthers
<1>7. CASE SafetySnapshot(p)
  <2>1. Goto(p, "rb-plan") /\ NewManifest /\ UNCHANGED disk BY <1>7 DEF SafetySnapshot, fileVars
  <2> QED BY <1>1, <1>3, <2>1, BeginTrace, GotoOthers
<1>8. CASE SafetySnapshotFails(p)
  <2> DEFINE m == [job[p].mem EXCEPT !.status = job[p].orig]
  <2>1. /\ Save(p, m) /\ Exit(p) /\ pc[p] = "rb-snapshot" /\ UNCHANGED <<disk, base, foreign>>
    BY <1>8 DEF SafetySnapshotFails, fileVars, histVars
  <2>2. job[p].orig # "rolled-back" /\ pc[p] \in HoldingPC
    BY <1>1, <2>1 DEF Current, HoldingPC, PC, LockedPC, ExecPC
  <2>3. m.files = job[p].mem.files /\ m.status = job[p].orig BY <1>0, StatusParts
  <2> HIDE DEF m
  <2> QED BY <1>3, <1>4, <2>1, <2>2, <2>3, GotoOthers DEF Exit
<1>9. CASE PlanRollback(p)
  <2> DEFINE t == BuildPlan(old_m, disk, dirs, old[b] # NoFile, swapAt # NoFile)
  <2>1. /\ pc[p] = "rb-plan" /\ Keep(p, WithPlan(job[p], old_m, t)) /\ Goto(p, "rb-exec")
        /\ UNCHANGED <<disk, manifest, base, foreign>>
    BY <1>9 DEF PlanRollback, WithPlan, fileVars, recVars, histVars
  <2>2. pc[p] \in HoldingPC BY <2>1 DEF HoldingPC, PC, LockedPC, ExecPC
  <2>3. /\ t \in SUBSET Action
        /\ \A f \in File \ t : Tells(old_m.files[f]) => disk[f] = Absent \/ disk[f] # old_m.files[f].after
    BY PlanType, NotPlanned
  <2> HIDE DEF t
  <2>4. job'[p].bid = b /\ job'[p].todo = t
    BY <1>0, <1>2, <2>1, <2>2, <2>3, JobUpdates, JobParts, KeepIt
  <2>5. \A f \in File \ (foreign[b] \cup t) : Tells(old_m.files[f]) => IsBack(b, f)
    BY <1>1, <1>2, <2>2, <2>3 DEF Traced, Sound
  <2>6. pc'[p] = "rb-exec" BY <2>1, GotoOthers
  <2>7. Traced' BY <1>1, <2>1, QuietTrace
  <2>8. Ahead(p)' = {} BY <2>6 DEF Ahead, WritingPC, MakingPC
  <2> QED BY <2>1, <2>4, <2>5, <2>6, <2>7, <2>8 DEF Tracing, IsBack
<1>10. CASE FinishRollback(p)
  <2> DEFINE s == FinalStatus(job[p])
             m == [job[p].mem EXCEPT !.status = s]
  <2>1. /\ Save(p, m) /\ Exit(p) /\ UNCHANGED <<disk, base, foreign>>
        /\ pc[p] = "rb-exec" /\ job[p].todo = {}
    BY <1>10 DEF FinishRollback, fileVars, histVars
  <2>2. s \in Status /\ (s = "rolled-back" => ~job[p].anyFail)
    BY FinalStatusType DEF FinalStatus
  <2> HIDE DEF s
  <2>3. m.files = job[p].mem.files /\ m.status = s BY <1>0, <2>2, StatusParts
  <2> HIDE DEF m
  <2>4. s = "rolled-back" => \A f \in File \ foreign[b] : Tells(old_m.files[f]) => IsBack(b, f)
    BY <1>1, <2>1, <2>2 DEF Tracing, ExecPC
  <2>5. pc[p] \in HoldingPC BY <2>1 DEF HoldingPC, PC, LockedPC, ExecPC
  <2> QED BY <1>3, <1>4, <2>1, <2>3, <2>4, <2>5, GotoOthers DEF Exit
<1> QED BY <1>5, <1>6, <1>7, <1>8, <1>9, <1>10

(* The restore of a file puts back what the operation found.               *)
LEMMA RestoreTrace ==
  ASSUME TypeInv, CurrentInv, TraceInv, NEW p \in Proc, RestoreFile(p)
  PROVE  Traced' /\ Tracing(p)'
<1> USE DEF TypeInv, TypeOK
<1> DEFINE b == job[p].bid
           old_m == manifest[b]
           f == Next1(p)
<1>0. job[p] \in Job BY DEF JobType
<1>1. Tracing(p) /\ Traced /\ Local(p) /\ RecordInv
  BY DEF TraceInv, CurrentInv, ReversibleInv
<1>2. /\ pc[p] = "rb-exec" /\ f \in File /\ UNCHANGED <<manifest, base, pc>>
      /\ disk' = [disk EXCEPT ![f] = old_m.files[f].before] /\ Disturb(b, f)
      /\ Keep(p, WithMem(Succeeded(job[p]), old_m))
  BY DEF RestoreFile, Doing, WithMem, recVars
<1>3. f \in job[p].todo
  <2> DEFINE T == job[p].todo
  <2>1. T \in SUBSET Action /\ T # {} BY <1>0 DEF RestoreFile, Doing, Job
  <2> QED BY <2>1, FirstOfPlan DEF Next1
<1>4. /\ b \in BackupId /\ old_m \in Manifest /\ old_m.status # "none"
      /\ old_m.files[f].recorded
  BY <1>1, <1>2, <1>3 DEF WorksOnBackup, RecordsType, Local, ExecPC
<1>5. /\ job'[p].bid = b /\ job'[p].todo = job[p].todo \ {f}
      /\ job'[p].anyFail = job[p].anyFail
  <2>1. job'[p] = WithMem(Succeeded(job[p]), old_m) BY <1>2, KeepIt
  <2>2. Succeeded(job[p]) \in Job BY <1>0, <1>4, ResultJobs
  <2>3. /\ Succeeded(job[p]).todo = job[p].todo \ {f}
        /\ Succeeded(job[p]).anyFail = job[p].anyFail
    BY <1>0, <1>4, ResultParts DEF Next1
  <2>4. /\ job'[p].todo = Succeeded(job[p]).todo
        /\ job'[p].anyFail = Succeeded(job[p]).anyFail
    BY <1>4, <2>1, <2>2, ResultParts
  <2> QED BY <1>0, <1>4, <2>1, <2>3, <2>4, ResultJobs
<1> HIDE DEF f
<1>6. disk'[f] = old_m.files[f].before /\ \A g \in File \ {f} : disk'[g] = disk[g]
  BY <1>2 DEF FilesType
<1>7. f \notin foreign[b] => disk'[f] = base[b].disk[f]
  BY <1>1, <1>2, <1>4, <1>6 DEF RecordInv, RecordedTruly
<1>8. Traced'
  <2>1. f \notin foreign[b] /\ Tells(old_m.files[f]) => old_m.files[f].after # Absent
    BY <1>1, <1>2, <1>4 DEF Traced, Sound
  <2> QED BY <1>1, <1>2, <1>4, <1>6, <1>7, <2>1, WriteTrace
<1>9. foreign[b] \subseteq foreign'[b] BY <1>2, <1>4, DisturbGrows
<1>10. Ahead(p)' = {} BY <1>2 DEF Ahead, WritingPC, MakingPC
<1>11. ASSUME ~job[p].anyFail, NEW g \in File \ (foreign'[b] \cup job'[p].todo),
              Tells(old_m.files[g])
       PROVE  disk'[g] = base[b].disk[g]
  <2>1. g \notin foreign[b] BY <1>9
  <2>2. CASE g = f BY <1>7, <2>1, <2>2
  <2>3. CASE g # f
    <3>1. g \notin job[p].todo BY <1>5, <2>3
    <3> QED BY <1>1, <1>2, <1>6, <1>11, <2>1, <2>3, <3>1 DEF Tracing, IsBack, ExecPC
  <2> QED BY <2>2, <2>3
<1>12. Tracing(p)' BY <1>2, <1>5, <1>10, <1>11 DEF Tracing, IsBack
<1> QED BY <1>8, <1>12

(* Every other step of the plan leaves the files alone, and takes an       *)
(* action that restores one off the list only when it counts a failure.    *)
LEMMA ExecutingTrace ==
  ASSUME TypeInv, CurrentInv, TraceInv, NEW p \in Proc,
         \/ RemoveDir(p) \/ Regenerate(p) \/ SwapRollbackBegins(p)
         \/ ParkCurrent(p) \/ RestoreOld(p) \/ SwapBackOn(p) \/ UnlinkSwap(p) \/ ActionFails(p)
  PROVE  Traced' /\ Tracing(p)'
<1> USE DEF TypeInv, TypeOK
<1> DEFINE b == job[p].bid
           old_m == manifest[b]
<1>0. job[p] \in Job /\ job[p].file \in File /\ job[p].want \in Content BY DEF JobType, Job
<1>1. Tracing(p) /\ Traced /\ Local(p) BY DEF TraceInv, CurrentInv, ReversibleInv
<1>2. pc[p] \in ExecPC
  BY DEF RemoveDir, Regenerate, SwapRollbackBegins, ParkCurrent, RestoreOld, SwapBackOn,
         UnlinkSwap, ActionFails, Doing, ExecPC
<1>3. b \in BackupId /\ old_m = job[p].mem /\ old_m \in Manifest
  BY <1>1, <1>2 DEF Local, ExecPC, HoldingPC, PC, LockedPC, WorksOnBackup, RecordsType
<1>4. UNCHANGED manifest
  <2>1. CASE ParkCurrent(p)
    <3>1. manifest' = [manifest EXCEPT ![b] = manifest[b]] \/ UNCHANGED manifest
      BY <1>3, <2>1 DEF ParkCurrent, Save
    <3> QED BY <3>1 DEF RecordsType
  <2>2. CASE ~ParkCurrent(p)
    BY <2>2 DEF RemoveDir, Regenerate, SwapRollbackBegins, RestoreOld, SwapBackOn, UnlinkSwap,
                ActionFails, recVars
  <2> QED BY <2>1, <2>2
<1>5. UNCHANGED <<disk, base>> /\ \A c \in BackupId : foreign[c] \subseteq foreign'[c]
  BY DisturbGrows DEF RemoveDir, Regenerate, SwapRollbackBegins, ParkCurrent, RestoreOld,
     SwapBackOn, UnlinkSwap, ActionFails, fileVars, histVars
<1>6. Traced' BY <1>1, <1>4, <1>5, QuietTrace
<1>7. ASSUME pc'[p] \in ExecPC, job'[p].bid = b,
             pc'[p] # "rb-exec" => job'[p].todo = job[p].todo /\ job[p].todo # {}
                                   /\ Next1(p) \in SwapAction,
             \/ job'[p].anyFail
             \/ /\ job'[p].anyFail = job[p].anyFail
                /\ File \cap job[p].todo \subseteq job'[p].todo
      PROVE  Tracing(p)'
  <2>1. Ahead(p)' = {} BY <1>7 DEF Ahead, WritingPC, MakingPC, ExecPC
  <2>2. pc'[p] # "rb-exec" => job'[p].todo # {} /\ Next1(p)' \in SwapAction
    BY <1>7 DEF Next1
  <2>3. ASSUME ~job'[p].anyFail, NEW f \in File \ (foreign'[b] \cup job'[p].todo),
               Tells(old_m.files[f])
        PROVE  IsBack(b, f)
    BY <1>1, <1>2, <1>3, <1>5, <1>7, <2>3 DEF Tracing
  <2> QED BY <1>4, <1>5, <1>7, <2>1, <2>2, <2>3 DEF Tracing, IsBack
<1>8. CASE Goto(p, "rb-exec") /\ Keep(p, Failed(job[p]))
  <2>1. job'[p].anyFail /\ job'[p].bid = b /\ pc'[p] = "rb-exec"
    BY <1>0, <1>3, <1>8, ResultParts, ResultJobs, KeepIt, GotoOthers
  <2> QED BY <1>6, <1>7, <2>1 DEF ExecPC
<1>9. ASSUME pc'[p] = "rb-exec", Keep(p, Succeeded(job[p])), Next1(p) \notin File
      PROVE  Tracing(p)'
  <2>1. /\ job'[p].bid = b /\ job'[p].anyFail = job[p].anyFail
        /\ job'[p].todo = job[p].todo \ {Next1(p)}
    BY <1>0, <1>3, <1>9, ResultParts, ResultJobs, KeepIt DEF Next1
  <2> QED BY <1>7, <1>9, <2>1 DEF ExecPC
<1>10. \A a \in DirAction \cup Rerun \cup SwapAction : a \notin File
  BY DEF DirAction, Rerun, SwapAction, File
<1>11. CASE RemoveDir(p) \/ Regenerate(p)
  <2>1. /\ pc[p] = "rb-exec" /\ UNCHANGED pc /\ Next1(p) \notin File
        /\ Keep(p, Succeeded(job[p])) \/ Keep(p, Failed(job[p]))
    BY <1>10, <1>11 DEF RemoveDir, Regenerate, Doing
  <2>2. CASE Keep(p, Failed(job[p]))
    <3>1. job'[p].anyFail /\ job'[p].bid = b
      BY <1>0, <1>3, <2>2, ResultParts, ResultJobs, KeepIt
    <3> QED BY <1>6, <1>7, <2>1, <3>1 DEF ExecPC
  <2> QED BY <1>6, <1>9, <2>1, <2>2
<1>12. CASE SwapRollbackBegins(p)
  <2>1. pc[p] = "rb-exec" /\ job[p].todo # {} /\ Next1(p) \in SwapAction
    BY <1>12 DEF SwapRollbackBegins, Doing
  <2>2. CASE Keep(p, Failed(job[p])) /\ UNCHANGED pc
    <3>1. job'[p].anyFail /\ job'[p].bid = b
      BY <1>0, <1>3, <2>2, ResultParts, ResultJobs, KeepIt
    <3> QED BY <1>6, <1>7, <2>1, <2>2, <3>1 DEF ExecPC
  <2>3. CASE Keep(p, WithMem(job[p], old_m)) /\ \E l \in {"rb-park", "rb-unlink"} : Goto(p, l)
    <3>1. /\ job'[p].bid = b /\ job'[p].todo = job[p].todo
          /\ job'[p].anyFail = job[p].anyFail
      BY <1>0, <1>3, <2>3, ResultParts, JobUpdates, KeepIt
    <3>2. pc'[p] \in ExecPC BY <2>3, GotoOthers DEF ExecPC
    <3> QED BY <1>6, <1>7, <2>1, <3>1, <3>2
  <2> QED BY <1>12, <2>2, <2>3 DEF SwapRollbackBegins, WithMem
<1>13. CASE ParkCurrent(p) \/ (RestoreOld(p) /\ UNCHANGED job)
  <2>1. /\ pc[p] \in ExecPC \ {"rb-exec"} /\ UNCHANGED job
        /\ \E l \in {"rb-unpark", "rb-swapon", "rb-exec"} : Goto(p, l)
    BY <1>13 DEF ParkCurrent, RestoreOld, ExecPC
  <2>2. pc'[p] \in ExecPC BY <2>1, GotoOthers DEF ExecPC
  <2> QED BY <1>1, <1>6, <1>7, <2>1, <2>2 DEF Tracing
<1>14. CASE (RestoreOld(p) /\ ~UNCHANGED job) \/ SwapBackOn(p) \/ UnlinkSwap(p)
  <2>1. /\ pc[p] \in ExecPC \ {"rb-exec"} /\ Goto(p, "rb-exec")
        /\ Keep(p, Succeeded(job[p]))
    BY <1>14 DEF RestoreOld, SwapBackOn, UnlinkSwap, ExecPC
  <2>2. Next1(p) \notin File BY <1>1, <1>10, <2>1 DEF Tracing
  <2> QED BY <1>6, <1>9, <2>1, <2>2, GotoOthers
<1>15. CASE ActionFails(p) BY <1>8, <1>15 DEF ActionFails
<1> QED BY <1>11, <1>12, <1>13, <1>14, <1>15

-----------------------------------------------------------------------------
(* The invariant *)

LEMMA EnvironmentTrace ==
  ASSUME TypeInv, CurrentInv, TraceInv
  PROVE  /\ \A p \in Proc : Crash(p) => TraceInv'
         /\ Reboot => TraceInv'
         /\ \A f \in File : EditFile(f) => TraceInv'
<1> USE DEF TypeInv, TypeOK
<1>1. Traced /\ ReversibleInv /\ RecordInv /\ \A q \in Proc : Tracing(q)
  BY DEF TraceInv, CurrentInv, ReversibleInv
<1>2. ASSUME NEW p \in Proc, Crash(p) PROVE TraceInv'
  <2>1. Traced' BY <1>1, <1>2, QuietTrace DEF Crash, fileVars, recVars, histVars
  <2>2. Alone(p) /\ pc'[p] = "idle" BY <1>2, ExitOthers DEF Crash, Alone
  <2>3. Tracing(p)' BY <2>2, NothingToTrace DEF NotedPC, WritingPC, MakingPC, ExecPC
  <2> QED BY <1>1, <2>1, <2>2, <2>3, OthersNotTracing
<1>3. ASSUME Reboot PROVE TraceInv'
  <2>1. \A c \in BackupId : foreign[c] \subseteq foreign'[c] BY <1>3, DisturbGrows DEF Reboot
  <2>2. Traced' BY <1>1, <1>3, <2>1, QuietTrace DEF Reboot, fileVars, recVars
  <2>3. \A p \in Proc : pc'[p] = "idle" BY <1>3 DEF Reboot
  <2>4. \A p \in Proc : Tracing(p)'
    BY <2>3, NothingToTrace DEF NotedPC, WritingPC, MakingPC, ExecPC
  <2> QED BY <2>2, <2>4 DEF TraceInv
<1>4. ASSUME NEW f \in File, EditFile(f) PROVE TraceInv'
  <2>1. /\ Disturb(0, f) /\ UNCHANGED <<manifest, base, pc, job>>
        /\ \A g \in File \ {f} : disk'[g] = disk[g]
    BY <1>4 DEF EditFile, FilesType, recVars
  <2>2. 0 \notin BackupId BY DEF BackupId
  <2>3. Traced' BY <1>1, <2>1, <2>2, WriteTrace
  <2>4. ASSUME NEW p \in Proc PROVE Tracing(p)'
    <3> DEFINE b == job[p].bid
    <3>1. Tracing(p) /\ Ahead(p)' = Ahead(p) /\ Next1(p)' = Next1(p)
      BY <1>1, <2>1 DEF Ahead, Next1
    <3>2. ASSUME pc[p] \in ExecPC
          PROVE  /\ foreign[b] \subseteq foreign'[b]
                 /\ f \in foreign'[b]
      <4>1. b \in BackupId /\ manifest[b].status # "none"
        BY <1>1, <3>2 DEF WorksOnBackup, ExecPC, ReversibleInv, Local
      <4>2. ~(b >= nextId) /\ b # 0 BY <1>1, <2>2, <4>1 DEF RecordInv, Begun
      <4> QED BY <2>1, <4>1, <4>2 DEF Disturb
    <3> QED BY <2>1, <3>1, <3>2 DEF Tracing, IsBack
  <2> QED BY <2>3, <2>4 DEF TraceInv
<1> QED BY <1>2, <1>3, <1>4

LEMMA TraceNext ==
  ASSUME Concurrent = FALSE, TypeInv, CurrentInv, TraceInv, [Next]_vars
  PROVE  TraceInv'
<1>1. CASE UNCHANGED vars
  BY <1>1 DEF vars, TraceInv, Traced, Sound, IsBack, Tracing, Ahead, Next1
<1>2. ASSUME NEW p \in Proc, Start(p) \/ ApplyStep(p) \/ RollbackStep(p) PROVE TraceInv'
  <2>1. Traced' /\ Tracing(p)'
    <3>1. CASE Start(p) \/ ApplyStep(p)
      BY <3>1, QuietApplyTrace, WritingApplyTrace DEF ApplyStep
    <3>2. CASE RollbackStep(p)
      BY <3>2, PlanningTrace, RestoreTrace, ExecutingTrace DEF RollbackStep
    <3> QED BY <1>2, <3>1, <3>2
  <2>2. ReversibleInv BY DEF CurrentInv
  <2> QED BY <1>2, <2>1, <2>2, StepAlone, OthersNotTracing
<1> QED BY <1>1, <1>2, EnvironmentTrace DEF Next, Environment

LEMMA TraceInit == Init => TraceInv
<1> SUFFICES ASSUME Init PROVE TraceInv
  OBVIOUS
<1>1. \A p \in Proc : pc[p] = "idle" BY DEF Init
<1>2. \A p \in Proc : Tracing(p)
  BY <1>1 DEF Tracing, Ahead, WritingPC, MakingPC, ExecPC
<1>3. Traced BY DEF Init, NoManifest, Traced
<1> QED BY <1>2, <1>3 DEF TraceInv

(* A rollback that ends "rolled-back" has put every file back that nobody  *)
(* else changed, for any number of crashes, reboots, failed commands and   *)
(* retries before it, unless a crash left the file without an after-hash:  *)
(* with one helper at a time (RollbackPlanner, _file_action,               *)
(* _rollback_restore_file).                                                *)
THEOREM RestoredCorrect ==
  ASSUME Concurrent = FALSE
  PROVE  Spec => []RestoredFiles
<1>1. TypeInv /\ CurrentInv /\ [Next]_vars => CurrentInv'
  BY CurrentNext
<1>2. TypeInv /\ CurrentInv /\ TraceInv /\ [Next]_vars => TraceInv'
  BY TraceNext
<1>3. TypeInv /\ CurrentInv /\ TraceInv => RestoredFiles
  <2> SUFFICES ASSUME TypeInv, CurrentInv, TraceInv, NEW b \in BackupId, NEW f \in File \ foreign[b],
                      manifest[b].status = "rolled-back",
                      ~(manifest[b].files[f].recorded /\ manifest[b].files[f].after = Unknown)
               PROVE  disk[f] = base[b].disk[f]
    BY DEF RestoredFiles
  <2>1. CASE Tells(manifest[b].files[f])
    BY <2>1 DEF TraceInv, Traced, Sound, IsBack
  <2>2. CASE ~manifest[b].files[f].recorded
    BY <2>2 DEF CurrentInv, ReversibleInv, RecordInv, RecordedTruly
  <2> QED BY <2>1, <2>2 DEF Tells
<1> QED BY <1>1, <1>2, <1>3, CurrentInit, TraceInit, TypeInvariant, PTL DEF Spec

-----------------------------------------------------------------------------
(* What an apply has brought in line *)

(* Where an apply has chosen the target it writes, and what it has brought *)
(* in line with it so far.                                                 *)
Chosen(p) ==
  \/ pc[p] \in {"initramfs", "update-grub", "complete"}
  \/ pc[p] \in WritingPC /\ job[p].file # "fstab"

InLine(p) ==
  LET j == job[p]
  IN  /\ Live(j.want)
      /\ j.mem.swap.recorded => disk["fstab"].kind = "entry"
      /\ ~(j.file = "resume" /\ pc[p] \in {"record", "write"}) => disk["resume"] = j.want
      /\ ~(j.file = "resume" \/ pc[p] \in {"record", "write"}) => disk["grub"] = j.want
      /\ pc[p] \in {"update-grub", "complete"} => initrd = j.want
      /\ pc[p] = "complete" => grubcfg = j.want

(* What an apply relies on from one step to the next: the target it was    *)
(* given is in use, the fstab line is there before the swap file is made,  *)
(* and everything written after the target was chosen names it.            *)
Ready(p) ==
  LET j == job[p]
  IN  /\ pc[p] = "validate" => j.size = 0 /\ j.file = "resume"
      /\ pc[p] = "begin" /\ j.size = 0 => j.file = "resume" /\ Live(j.want)
      /\ pc[p] \in WritingPC /\ j.file = "fstab" => j.line.kind = "entry"
      /\ pc[p] \in MakingPC \/ (pc[p] = "seal" /\ j.file = "fstab")
           => disk["fstab"].kind = "entry"
      /\ Chosen(p) => InLine(p)
      /\ pc[p] \in {"initramfs", "update-grub", "complete"} => j.file = "grub"

(* Nobody else has written a managed file since p began its backup. *)
Undisturbed(p) == pc[p] \in {"validate", "begin"} \/ File \cap foreign[job[p].bid] = {}

(* A rollback that may still give up does not hold an "in-progress".       *)
Resuming(p) == pc[p] = "rb-snapshot" => job[p].mem.status # "in-progress"

ReadyInv ==
  /\ ReversibleInv
  /\ \A p \in Proc : Resuming(p) /\ (Undisturbed(p) => Ready(p))

ReadyPC == {"validate", "begin", "initramfs", "update-grub", "complete"}
             \cup WritingPC \cup MakingPC

-----------------------------------------------------------------------------
(* Completed is bootable *)

LEMMA NothingReady ==
  ASSUME NEW p \in Proc, pc'[p] \notin ReadyPC
  PROVE  Ready(p)'
BY DEF Ready, ReadyPC, Chosen, WritingPC

LEMMA OthersNotReady ==
  ASSUME ReversibleInv, NEW p \in Proc, Alone(p), Resuming(p)', Undisturbed(p)' => Ready(p)'
  PROVE  \A q \in Proc : Resuming(q)' /\ (Undisturbed(q)' => Ready(q)')
<1>1. \A q \in Proc \ {p} : pc'[q] = "idle" BY DEF ReversibleInv, OneAtATime, Alone, AllIdle
<1> QED BY <1>1, NothingReady DEF ReadyPC, WritingPC, MakingPC, Resuming

(* The parts of the local state an apply relies on. *)
LEMMA ReadyParts ==
  ASSUME NEW j \in Job
  PROVE  /\ \A m : /\ WithMem(j, m).mem = m /\ WithMem(j, m).file = j.file
                   /\ WithMem(j, m).want = j.want /\ WithMem(j, m).line = j.line
         /\ \A m, f : /\ WithNextFile(j, m, f).mem = m /\ WithNextFile(j, m, f).file = f
                      /\ WithNextFile(j, m, f).want = j.want
         /\ \A b, m : /\ WithBackup(j, b, m).mem = m /\ WithBackup(j, b, m).file = j.file
                      /\ WithBackup(j, b, m).want = j.want
         /\ \A c, f : /\ WithTarget(j, c, f).want = c /\ WithTarget(j, c, f).file = f
                      /\ WithTarget(j, c, f).mem = j.mem
         /\ \A n, a, f, c : Checked(j, n, a, f, c).file = f /\ Checked(j, n, a, f, c).line = c
BY DEF Job, WithMem, WithNextFile, WithBackup, WithTarget, Checked

LEMMA NewJobReady ==
  /\ \A t \in Content : /\ [NoJob EXCEPT !.want = t].file = "resume"
                        /\ [NoJob EXCEPT !.want = t].size = 0
  /\ \A s \in Nat \ {0} : [NoJob EXCEPT !.size = s].size # 0
<1> DEFINE j == NoJob
<1>1. j \in Job /\ j.file = "resume" /\ j.size = 0 BY ConstantTypes DEF NoJob
<1> HIDE DEF j
<1> SUFFICES /\ \A t \in Content : /\ [j EXCEPT !.want = t].file = "resume"
                                   /\ [j EXCEPT !.want = t].size = 0
             /\ \A s \in Nat \ {0} : [j EXCEPT !.size = s].size # 0
  BY DEF j
<1> QED BY <1>1 DEF Job

(* Recording and sealing leave the swap part of a manifest alone. *)
LEMMA SwapPart ==
  ASSUME NEW m \in Manifest, NEW f \in File, NEW c, NEW d
  PROVE  Recorded(m, f, c, d).swap = m.swap /\ Sealed(m, f, c).swap = m.swap
BY DEF Recorded, Sealed, Manifest

(* The steps up to the swap file and its target. *)
LEMMA ChoosingReady ==
  ASSUME TypeInv, NEW p \in Proc, ~Exit(p), Start(p) \/ Ready(p),
         \/ Start(p) \/ ValidateTarget(p) \/ Begin(p) \/ CheckSwap(p) \/ RecordSwap(p)
         \/ SwapOff(p) \/ RetainOld(p) \/ SaveOldName(p) \/ CreateFile(p) \/ Allocate(p)
         \/ MkSwap(p) \/ SwapOn(p) \/ SelectTarget(p)
  PROVE  Ready(p)'
<1> USE DEF TypeInv, TypeOK
<1>0. /\ job[p] \in Job /\ job[p].mem \in Manifest /\ job[p].file \in File
      /\ pc[p] # "idle" => Ready(p)
  BY DEF JobType, Job, Start, StartTargetApply, StartSwapApply, StartRollback, CanStart
<1>1. CASE Start(p)
  <2>1. CASE \E t \in {Partition} \cup {ForSwap(i) : i \in active} : StartTargetApply(p, t)
    <3>1. PICK t \in {Partition} \cup {ForSwap(i) : i \in active} : StartTargetApply(p, t)
      BY <2>1
    <3>2. t \in Content BY <3>1, ConstantTypes, BoundAssumption DEF SwapType, InodeId
    <3>3. job'[p].file = "resume" /\ job'[p].size = 0 /\ Goto(p, "validate")
      BY <3>1, <3>2, NewJobReady, KeepIt DEF StartTargetApply
    <3> QED BY <3>3, GotoOthers DEF Ready, Chosen, WritingPC, MakingPC
  <2>2. CASE \E s \in Sizes : StartSwapApply(p, s)
    <3>1. job'[p].size # 0 /\ Goto(p, "begin")
      BY <2>2, NewJobReady, SizesAssumption, KeepIt DEF StartSwapApply
    <3> QED BY <3>1, GotoOthers DEF Ready, Chosen, WritingPC, MakingPC
  <2>3. CASE \E c \in BackupId : StartRollback(p, c)
    BY <2>3, GotoOthers, NothingReady DEF StartRollback, ReadyPC, WritingPC, MakingPC
  <2> QED BY <1>1, <2>1, <2>2, <2>3 DEF Start
<1>2. CASE ValidateTarget(p)
  <2>1. /\ pc[p] = "validate" /\ Live(job[p].want) /\ Goto(p, "begin")
        /\ UNCHANGED <<job, swapAt, active>>
    BY <1>2 DEF ValidateTarget, swapVars
  <2> QED BY <1>0, <2>1, GotoOthers DEF Ready, Chosen, WritingPC, MakingPC, Live
<1>3. CASE Begin(p)
  <2>1. /\ Keep(p, WithBackup(job[p], nextId, EmptyManifest)) /\ pc[p] = "begin"
        /\ UNCHANGED <<swapAt, active>>
    BY <1>3 DEF Begin, WithBackup, swapVars
  <2>2. /\ job'[p].file = job[p].file /\ job'[p].want = job[p].want
        /\ job'[p].mem = EmptyManifest
    BY <1>0, <2>1, ReadyParts, KeepIt
  <2>3. ~EmptyManifest.swap.recorded BY DEF EmptyManifest, NoManifest, NoSwap
  <2>4. IF job[p].size # 0 THEN Goto(p, "check-swap") ELSE Goto(p, "record") BY <1>3 DEF Begin
  <2>5. CASE job[p].size = 0
    BY <1>0, <2>1, <2>2, <2>3, <2>4, <2>5, GotoOthers
    DEF Ready, Chosen, InLine, WritingPC, MakingPC, Live
  <2>6. CASE job[p].size # 0
    BY <2>4, <2>6, GotoOthers, NothingReady DEF ReadyPC, WritingPC, MakingPC
  <2> QED BY <2>5, <2>6
<1>4. CASE CheckSwap(p)
  <2> DEFINE n == swapAt = NoFile \/ inode[swapAt].size # job[p].size
             c == WithEntry(disk["fstab"])
  <2>1. PICK a : /\ Keep(p, Checked(job[p], n, a, "fstab", c)) /\ UNCHANGED disk
                 /\ Goto(p, IF disk["fstab"] = c THEN "swap-manifest" ELSE "record")
    BY <1>4 DEF CheckSwap, Checked, fileVars
  <2>2. c.kind = "entry" BY DEF WithEntry
  <2> HIDE DEF n, c
  <2>3. job'[p].file = "fstab" /\ job'[p].line = c BY <1>0, <2>1, ReadyParts, KeepIt
  <2> QED BY <2>1, <2>2, <2>3, GotoOthers DEF Ready, Chosen, WritingPC, MakingPC
<1>5. CASE SelectTarget(p)
  <2>1. /\ Keep(p, WithTarget(job[p], ForSwap(swapAt), "resume")) /\ Goto(p, "record")
        /\ pc[p] = "select" /\ Live(ForSwap(swapAt)) /\ UNCHANGED <<disk, swapAt, active>>
    BY <1>5 DEF SelectTarget, WithTarget, InUse, Live, fileVars, swapVars
  <2>2. job'[p].file = "resume" /\ job'[p].want = ForSwap(swapAt)
    BY <1>0, <2>1, ReadyParts, KeepIt
  <2>3. disk["fstab"].kind = "entry" BY <1>0, <2>1 DEF Ready, MakingPC
  <2> QED BY <2>1, <2>2, <2>3, GotoOthers DEF Ready, Chosen, InLine, WritingPC, MakingPC, Live
<1>6. CASE \/ RecordSwap(p) \/ SwapOff(p) \/ RetainOld(p) \/ SaveOldName(p) \/ CreateFile(p)
           \/ Allocate(p) \/ MkSwap(p) \/ SwapOn(p)
  <2>1. pc[p] \in MakingPC /\ UNCHANGED disk
    BY <1>6 DEF RecordSwap, SwapOff, RetainOld, SaveOldName, CreateFile, Allocate, MkSwap, SwapOn,
                MakingPC, fileVars
  <2>2. \E l \in MakingPC : Goto(p, l)
    BY <1>6 DEF RecordSwap, SwapOff, RetainOld, SaveOldName, CreateFile, Allocate, MkSwap, SwapOn,
                MakingPC
  <2>3. disk["fstab"].kind = "entry" BY <1>0, <2>1 DEF Ready, MakingPC
  <2> QED BY <2>1, <2>2, <2>3, GotoOthers DEF Ready, Chosen, WritingPC, MakingPC
<1> QED BY <1>1, <1>2, <1>3, <1>4, <1>5, <1>6

(* The steps that write the files and rebuild what is made from them. *)
LEMMA WritingReady ==
  ASSUME TypeInv, NEW p \in Proc, Ready(p),
         \/ RecordBefore(p) \/ WriteFile(p) \/ RecordAfter(p) \/ UpdateInitramfs(p) \/ UpdateGrub(p)
  PROVE  Ready(p)'
<1> USE DEF TypeInv, TypeOK
<1> DEFINE f == job[p].file
<1>0. job[p] \in Job /\ job[p].mem \in Manifest /\ f \in File /\ Ready(p)
  BY DEF JobType, Job
<1>1. UNCHANGED <<swapAt, active>>
  BY DEF RecordBefore, WriteFile, RecordAfter, UpdateInitramfs, UpdateGrub, swapVars
<1>2. \A t : Live(t)' <=> Live(t) BY <1>1 DEF Live
<1>3. CASE RecordBefore(p)
  <2> DEFINE m == Recorded(job[p].mem, f, disk[f], ({f} \cap DirFile) \ dirs)
  <2>1. /\ Keep(p, WithMem(job[p], m)) /\ pc[p] = "record" /\ Goto(p, "write") /\ UNCHANGED disk
    BY <1>3 DEF RecordBefore, WithMem, fileVars
  <2>2. m.swap = job[p].mem.swap BY <1>0, SwapPart
  <2> HIDE DEF m
  <2>3. /\ job'[p].mem = m /\ job'[p].file = f /\ job'[p].want = job[p].want
        /\ job'[p].line = job[p].line
    BY <1>0, <2>1, ReadyParts, KeepIt
  <2> QED BY <1>0, <1>2, <2>1, <2>2, <2>3, GotoOthers DEF Ready, Chosen, InLine, WritingPC, MakingPC
<1>4. CASE WriteFile(p)
  <2>1. /\ disk' = [disk EXCEPT ![f] = Wanted(job[p])] /\ pc[p] = "write" /\ Goto(p, "seal")
        /\ UNCHANGED job
    BY <1>4 DEF WriteFile
  <2>2. disk'[f] = Wanted(job[p]) /\ \A g \in File \ {f} : disk'[g] = disk[g]
    BY <1>0, <2>1 DEF FilesType
  <2>3. pc'[p] = "seal" BY <2>1, GotoOthers
  <2>4. CASE f = "fstab"
    BY <1>0, <2>1, <2>2, <2>3, <2>4 DEF Ready, Chosen, Wanted, WritingPC, MakingPC
  <2>5. CASE f # "fstab"
    <3>1. InLine(p) /\ disk'[f] = job[p].want
      BY <1>0, <2>1, <2>2, <2>5 DEF Ready, Chosen, Wanted, WritingPC
    <3>2. f \in {"resume", "grub"} BY <1>0, <2>5 DEF File
    <3>3. InLine(p)'
      BY <1>2, <2>1, <2>2, <2>3, <3>1, <3>2 DEF InLine, File
    <3> QED BY <2>1, <2>3, <2>5, <3>3 DEF Ready, Chosen, WritingPC, MakingPC
  <2> QED BY <2>4, <2>5
<1>5. CASE RecordAfter(p)
  <2> DEFINE m == Sealed(job[p].mem, f, disk[f])
             g == IF f = "resume" THEN "grub" ELSE f
  <2>1. /\ Keep(p, WithNextFile(job[p], m, g)) /\ pc[p] = "seal" /\ UNCHANGED disk
    BY <1>5 DEF RecordAfter, WithNextFile, fileVars
  <2>2. \/ f = "fstab" /\ Goto(p, "swap-manifest")
        \/ f = "resume" /\ Goto(p, "record")
        \/ f = "grub" /\ Goto(p, "initramfs")
    BY <1>0, <1>5 DEF RecordAfter, File
  <2>3. m.swap = job[p].mem.swap BY <1>0, SwapPart
  <2> HIDE DEF m
  <2>4. job'[p].mem = m /\ job'[p].file = g /\ job'[p].want = job[p].want
    BY <1>0, <2>1, ReadyParts, KeepIt
  <2>5. CASE f = "fstab"
    BY <1>0, <2>1, <2>2, <2>5, GotoOthers DEF Ready, Chosen, WritingPC, MakingPC
  <2>6. CASE f # "fstab"
    BY <1>0, <1>2, <2>1, <2>2, <2>3, <2>4, <2>6, GotoOthers
    DEF Ready, Chosen, InLine, WritingPC, MakingPC
  <2> QED BY <2>5, <2>6
<1>6. CASE UpdateInitramfs(p)
  <2>1. /\ pc[p] = "initramfs" /\ UNCHANGED <<disk, job>>
        /\ Goto(p, "mark-failed") \/ (Goto(p, "update-grub") /\ initrd' = disk["resume"])
    BY <1>6 DEF UpdateInitramfs, fileVars
  <2>2. CASE Goto(p, "mark-failed")
    BY <2>2, GotoOthers, NothingReady DEF ReadyPC, WritingPC, MakingPC
  <2>3. CASE Goto(p, "update-grub") /\ initrd' = disk["resume"]
    BY <1>0, <1>2, <2>1, <2>3, GotoOthers DEF Ready, Chosen, InLine, WritingPC, MakingPC
  <2> QED BY <2>1, <2>2, <2>3
<1>7. CASE UpdateGrub(p)
  <2>1. /\ pc[p] = "update-grub" /\ UNCHANGED <<disk, initrd, job>>
        /\ Goto(p, "mark-failed") \/ (Goto(p, "complete") /\ grubcfg' = disk["grub"])
    BY <1>7 DEF UpdateGrub, fileVars
  <2>2. CASE Goto(p, "mark-failed")
    BY <2>2, GotoOthers, NothingReady DEF ReadyPC, WritingPC, MakingPC
  <2>3. CASE Goto(p, "complete") /\ grubcfg' = disk["grub"]
    BY <1>0, <1>2, <2>1, <2>3, GotoOthers DEF Ready, Chosen, InLine, WritingPC, MakingPC
  <2> QED BY <2>1, <2>2, <2>3
<1> QED BY <1>3, <1>4, <1>5, <1>6, <1>7

LEMMA RollbackReady ==
  ASSUME TypeInv, NEW p \in Proc, RollbackStep(p)
  PROVE  Resuming(p)' /\ Ready(p)'
<1> USE DEF TypeInv, TypeOK
<1>1. CASE MarkRollingBack(p)
  <2> DEFINE m == [job[p].mem EXCEPT !.status = "rollback-in-progress"]
  <2>1. job[p] \in Job /\ job[p].mem \in Manifest BY DEF JobType, Job
  <2>2. Keep(p, WithMem(job[p], m)) /\ Goto(p, "rb-snapshot") BY <1>1 DEF MarkRollingBack, WithMem
  <2>3. m.status = "rollback-in-progress" BY <2>1, StatusParts DEF Status
  <2> HIDE DEF m
  <2>4. job'[p].mem = m BY <2>1, <2>2, ReadyParts, KeepIt
  <2> QED BY <2>2, <2>3, <2>4, GotoOthers, NothingReady DEF Resuming, ReadyPC, WritingPC, MakingPC
<1>2. CASE ~MarkRollingBack(p)
  <2>1. \/ Exit(p)
        \/ pc[p] = "rb-exec" /\ UNCHANGED pc
        \/ \E l \in ExecPC \cup {"rb-load", "rb-mark", "rb-plan"} : Goto(p, l)
    BY <1>2 DEF RollbackStep, AcquireLock, LoadManifest, SafetySnapshot, SafetySnapshotFails,
       PlanRollback, RestoreFile, RemoveDir, Regenerate, SwapRollbackBegins, ParkCurrent,
       RestoreOld, SwapBackOn, UnlinkSwap, ActionFails, FinishRollback, Doing, ExecPC
  <2>2. pc'[p] \notin ReadyPC \cup {"rb-snapshot"}
    BY <2>1, GotoOthers DEF Exit, ReadyPC, WritingPC, MakingPC, ExecPC
  <2> QED BY <2>2, NothingReady DEF Resuming
<1> QED BY <1>1, <1>2

(* An apply goes on with its own backup, and takes nothing back that was   *)
(* written over it.                                                        *)
LEMMA ApplyGoesOn ==
  ASSUME TypeInv, NEW p \in Proc, ApplyStep(p), ~Exit(p)
  PROVE  /\ pc'[p] \in ApplyPC
         /\ pc[p] \notin {"validate", "begin"}
              => /\ pc'[p] \notin {"validate", "begin"} /\ job'[p].bid = job[p].bid
                 /\ \A c \in BackupId : foreign[c] \subseteq foreign'[c]
<1> USE DEF TypeInv, TypeOK
<1>0. job[p] \in Job /\ job[p].file \in File BY DEF JobType, Job
<1>1. CASE ValidateTarget(p) \/ Begin(p)
  BY <1>1, GotoOthers DEF ValidateTarget, Begin, ApplyPC
<1>2. CASE \/ CheckSwap(p) \/ RecordBefore(p) \/ WriteFile(p) \/ RecordAfter(p)
           \/ RecordSwap(p) \/ SaveOldName(p) \/ SelectTarget(p)
  <2>1. \E l \in ApplyPC \ {"validate", "begin"} : Goto(p, l)
    <3>1. CASE CheckSwap(p)
      <4>1. \E l \in {"swap-manifest", "record"} : Goto(p, l) BY <3>1 DEF CheckSwap
      <4> QED BY <4>1 DEF ApplyPC
    <3>2. CASE RecordAfter(p)
      <4>1. \E l \in {"swap-manifest", "record", "initramfs"} : Goto(p, l)
        BY <1>0, <3>2 DEF RecordAfter, File
      <4> QED BY <4>1 DEF ApplyPC
    <3>3. CASE RecordBefore(p) \/ WriteFile(p) \/ RecordSwap(p) \/ SaveOldName(p) \/ SelectTarget(p)
      BY <3>3 DEF RecordBefore, WriteFile, RecordSwap, SaveOldName, SelectTarget, ApplyPC
    <3> QED BY <1>2, <3>1, <3>2, <3>3
  <2>2. job'[p].bid = job[p].bid
    <3>1. \/ \E n, a, f, c : Keep(p, Checked(job[p], n, a, f, c))
          \/ \E m : Keep(p, WithMem(job[p], m))
          \/ \E m, f : Keep(p, WithNextFile(job[p], m, f))
          \/ \E c, f : Keep(p, WithTarget(job[p], c, f))
          \/ UNCHANGED job
      BY <1>2 DEF CheckSwap, RecordBefore, WriteFile, RecordAfter, RecordSwap, SaveOldName,
         SelectTarget, Checked, WithMem, WithNextFile, WithTarget
    <3> QED BY <1>0, <3>1, SwapParts, KeepIt
  <2>3. \A c \in BackupId : foreign[c] \subseteq foreign'[c]
    BY <1>2, DisturbGrows DEF CheckSwap, RecordBefore, WriteFile, RecordAfter, RecordSwap,
       SaveOldName, SelectTarget, histVars
  <2> QED BY <2>1, <2>2, <2>3, GotoOthers
<1>3. CASE \/ SwapOff(p) \/ RetainOld(p) \/ CreateFile(p) \/ Allocate(p) \/ MkSwap(p)
           \/ SwapOn(p) \/ UpdateInitramfs(p) \/ UpdateGrub(p)
  <2>1. UNCHANGED job /\ \E l \in ApplyPC \ {"validate", "begin"} : Goto(p, l)
    BY <1>3 DEF SwapOff, RetainOld, CreateFile, Allocate, MkSwap, SwapOn, UpdateInitramfs,
       UpdateGrub, ApplyPC
  <2>2. \A c \in BackupId : foreign[c] \subseteq foreign'[c]
    BY <1>3, DisturbGrows DEF SwapOff, RetainOld, CreateFile, Allocate, MkSwap, SwapOn,
       UpdateInitramfs, UpdateGrub, histVars
  <2> QED BY <2>1, <2>2, GotoOthers
<1> QED BY <1>1, <1>2, <1>3 DEF ApplyStep, BeginFails, SwapCommandFails, FinishApply

LEMMA ApplyReady ==
  ASSUME TypeInv, ReadyInv, NEW p \in Proc, ApplyStep(p)
  PROVE  Resuming(p)' /\ (Undisturbed(p)' => Ready(p)')
<1>1. CASE Exit(p)
  BY <1>1, GotoOthers, NothingReady
  DEF Exit, ReadyPC, WritingPC, MakingPC, TypeInv, TypeOK, Resuming
<1>2. CASE ~Exit(p)
  <2>1. Resuming(p)' BY <1>2, ApplyGoesOn DEF Resuming, ApplyPC
  <2>2. ASSUME Undisturbed(p)' PROVE Ready(p)'
    <3>1. Undisturbed(p)
      <4>1. CASE pc[p] \notin {"validate", "begin"}
        <5>1. pc[p] # "idle"
          BY DEF ApplyStep, ValidateTarget, Begin, BeginFails, CheckSwap, RecordBefore, WriteFile,
             RecordAfter, RecordSwap, SwapOff, RetainOld, SaveOldName, CreateFile, Allocate,
             MkSwap, SwapOn, SwapCommandFails, SelectTarget, UpdateInitramfs, UpdateGrub,
             FinishApply
        <5>2. job[p].bid \in BackupId BY <4>1, <5>1 DEF TypeInv, WorksOnBackup
        <5> QED BY <1>2, <2>2, <4>1, <5>2, ApplyGoesOn DEF Undisturbed
      <4> QED BY <4>1 DEF Undisturbed
    <3>2. Ready(p) BY <3>1 DEF ReadyInv
    <3>3. ~(BeginFails(p) \/ SwapCommandFails(p) \/ FinishApply(p))
      BY <1>2 DEF BeginFails, SwapCommandFails, FinishApply
    <3> QED BY <1>2, <3>2, <3>3, ChoosingReady, WritingReady DEF ApplyStep
  <2> QED BY <2>1, <2>2
<1> QED BY <1>1, <1>2

LEMMA ReadyNext ==
  ASSUME Concurrent = FALSE, TypeInv, ReadyInv, [Next]_vars
  PROVE  ReadyInv'
<1>0. ReversibleInv BY DEF ReadyInv
<1>1. ReversibleInv' BY <1>0, ReversibleNext
<1> SUFFICES \A p \in Proc : Resuming(p)' /\ (Undisturbed(p)' => Ready(p)')
  BY <1>1 DEF ReadyInv
<1>2. ASSUME NEW p \in Proc, Start(p) \/ ApplyStep(p) \/ RollbackStep(p)
      PROVE  \A q \in Proc : Resuming(q)' /\ (Undisturbed(q)' => Ready(q)')
  <2>1. Resuming(p)' /\ (Undisturbed(p)' => Ready(p)')
    <3>1. CASE Start(p)
      <4>1. \E l \in {"validate", "begin", "rb-lock"} : Goto(p, l)
        BY <3>1 DEF Start, StartTargetApply, StartSwapApply, StartRollback
      <4>2. pc'[p] \in {"validate", "begin", "rb-lock"}
        BY <4>1, GotoOthers DEF TypeInv, TypeOK
      <4>3. ~Exit(p)
        BY <4>2, GotoOthers DEF Exit, TypeInv, TypeOK
      <4> QED BY <3>1, <4>2, <4>3, ChoosingReady DEF Resuming
    <3> QED BY <1>2, <3>1, ApplyReady, RollbackReady
  <2> QED BY <1>0, <1>2, <2>1, StepAlone, OthersNotReady
<1>3. ASSUME NEW p \in Proc, Crash(p)
      PROVE  \A q \in Proc : Resuming(q)' /\ (Undisturbed(q)' => Ready(q)')
  <2>1. pc'[p] = "idle" /\ Alone(p)
    BY <1>3, ExitOthers DEF Crash, Alone, TypeInv, TypeOK
  <2> QED BY <1>0, <2>1, NothingReady, OthersNotReady DEF ReadyPC, WritingPC, MakingPC, Resuming
<1>4. CASE Reboot
  <2>1. \A p \in Proc : pc'[p] = "idle" BY <1>4 DEF Reboot
  <2> QED BY <2>1, NothingReady DEF ReadyPC, WritingPC, MakingPC, Resuming
<1>5. ASSUME NEW f \in File, EditFile(f), NEW p \in Proc
      PROVE  Resuming(p)' /\ (Undisturbed(p)' => Ready(p)')
  <2>1. UNCHANGED <<pc, job, swapAt, active>> BY <1>5 DEF EditFile, swapVars
  <2>2. Resuming(p)' BY <2>1 DEF ReadyInv, Resuming
  <2>3. CASE pc[p] = "idle"
    BY <2>1, <2>2, <2>3, NothingReady DEF ReadyPC, WritingPC, MakingPC
  <2>4. CASE pc[p] \in {"validate", "begin"}
    <3>1. Ready(p) BY <2>4 DEF ReadyInv, Undisturbed
    <3> QED BY <2>1, <2>2, <2>4, <3>1 DEF Ready, Chosen, Live, WritingPC, MakingPC
  <2>5. CASE pc[p] \notin {"idle", "validate", "begin"}
    <3> DEFINE b == job[p].bid
    <3>1. b \in BackupId BY <2>5 DEF TypeInv, WorksOnBackup
    <3>2. manifest[b].status # "none" BY <1>0, <2>5 DEF ReversibleInv, Local
    <3>3. ~(b >= nextId) BY <1>0, <3>1, <3>2 DEF ReversibleInv, RecordInv, Begun
    <3>4. f \in foreign'[b]
      BY <1>5, <3>1, <3>3 DEF EditFile, Disturb, BackupId
    <3>5. ~Undisturbed(p)' BY <2>1, <2>5, <3>4 DEF Undisturbed
    <3> QED BY <2>2, <3>5
  <2> QED BY <2>3, <2>4, <2>5
<1>6. CASE UNCHANGED vars
  <2>1. UNCHANGED <<pc, job, disk, initrd, grubcfg, swapAt, active, foreign>> BY <1>6 DEF vars
  <2>2. \A p \in Proc : Ready(p)' <=> Ready(p) BY <2>1 DEF Ready, Chosen, InLine, Live
  <2> QED BY <2>1, <2>2 DEF ReadyInv, Resuming, Undisturbed
<1> QED BY <1>2, <1>3, <1>4, <1>5, <1>6 DEF Next, Environment

LEMMA ReadyInit == Init => ReadyInv
<1> SUFFICES ASSUME Init PROVE ReadyInv
  OBVIOUS
<1>1. \A p \in Proc : pc[p] = "idle" BY DEF Init
<1> QED BY <1>1, ReversibleInit DEF ReadyInv, Ready, Chosen, WritingPC, MakingPC, Resuming

(* Who writes "completed" over "in-progress". *)
LEMMA Completing ==
  ASSUME TypeInv, ReadyInv, Next, NEW b \in BackupId,
         manifest[b].status = "in-progress", manifest'[b].status = "completed"
  PROVE  \E p \in Proc : FinishApply(p) /\ pc[p] = "complete" /\ job[p].bid = b
<1> USE DEF TypeInv, TypeOK
<1>0. \A p \in Proc : Local(p) /\ Resuming(p) /\ job[p].mem \in Manifest
  BY DEF ReadyInv, ReversibleInv, JobType, Job
<1>1. ASSUME NEW p \in Proc, pc[p] \in HoldingPC, NEW m, Save(p, m)
      PROVE  job[p].bid = b /\ job[p].mem.status = "in-progress" /\ m.status = "completed"
  <2>1. job[p].bid \in BackupId BY <1>1 DEF WorksOnBackup, HoldingPC
  <2>2. job[p].bid = b BY <1>1, <2>1, SaveAt
  <2> QED BY <1>0, <1>1, <2>1, <2>2, SaveAt DEF Local
<1>2. manifest' # manifest OBVIOUS
<1>3. ~NewManifest
  <2>1. EmptyManifest.status = "in-progress" BY DEF EmptyManifest, NoManifest
  <2> QED BY <2>1 DEF NewManifest, RecordsType
<1>4. PICK p \in Proc : ApplyStep(p) \/ RollbackStep(p)
  BY <1>2 DEF Next, Environment, Start, StartTargetApply, StartSwapApply, StartRollback,
     Crash, Reboot, EditFile, recVars
<1>5. \/ RecordBefore(p) \/ RecordAfter(p) \/ RecordSwap(p) \/ SaveOldName(p)
      \/ FinishApply(p) \/ MarkRollingBack(p) \/ SafetySnapshotFails(p)
      \/ ParkCurrent(p) \/ FinishRollback(p)
  <2>1. CASE ApplyStep(p)
    BY <1>2, <1>3, <2>1 DEF ApplyStep, ValidateTarget, Begin, BeginFails, CheckSwap, WriteFile,
       SwapOff, RetainOld, CreateFile, Allocate, MkSwap, SwapOn, SwapCommandFails, SelectTarget,
       UpdateInitramfs, UpdateGrub, recVars
  <2>2. CASE RollbackStep(p)
    BY <1>2, <1>3, <2>2 DEF RollbackStep, AcquireLock, LoadManifest, SafetySnapshot, PlanRollback,
       RestoreFile, RemoveDir, Regenerate, SwapRollbackBegins, RestoreOld, SwapBackOn,
       UnlinkSwap, ActionFails, recVars
  <2> QED BY <1>4, <2>1, <2>2
<1>6. pc[p] \in HoldingPC
  BY <1>5 DEF RecordBefore, RecordAfter, RecordSwap, SaveOldName, FinishApply, MarkRollingBack,
     SafetySnapshotFails, ParkCurrent, FinishRollback, Doing, HoldingPC, PC, ApplyPC, LockedPC, ExecPC
<1> DEFINE m == job[p].mem
<1>7. CASE RecordBefore(p)
  <2>1. Save(p, Recorded(m, job[p].file, disk[job[p].file], ({job[p].file} \cap DirFile) \ dirs))
    BY <1>7 DEF RecordBefore
  <2>2. job[p].file \in File BY DEF JobType, Job
  <2> QED BY <1>0, <1>1, <1>6, <2>1, <2>2, RecordedParts
<1>8. CASE RecordAfter(p)
  <2>1. Save(p, Sealed(m, job[p].file, disk[job[p].file])) BY <1>8 DEF RecordAfter
  <2>2. job[p].file \in File BY DEF JobType, Job
  <2> QED BY <1>0, <1>1, <1>6, <2>1, <2>2, SealedParts
<1>9. CASE RecordSwap(p)
  <2> DEFINE s == [recorded |-> TRUE, existed |-> swapAt # NoFile,
                   wasActive |-> job[p].wasActive, oldNamed |-> FALSE]
  <2>1. Save(p, [m EXCEPT !.swap = s]) BY <1>9 DEF RecordSwap
  <2>2. s \in SwapRecord BY DEF SwapRecord, JobType, Job
  <2> HIDE DEF s
  <2>3. [m EXCEPT !.swap = s].status = m.status BY <1>0, <2>2, StatusParts
  <2> QED BY <1>1, <1>6, <2>1, <2>3
<1>10. CASE SaveOldName(p)
  <2>1. Save(p, [m EXCEPT !.swap.oldNamed = TRUE]) BY <1>10 DEF SaveOldName
  <2>2. [m EXCEPT !.swap.oldNamed = TRUE].status = m.status BY <1>0, StatusParts
  <2> QED BY <1>1, <1>6, <2>1, <2>2
<1>11. CASE MarkRollingBack(p)
  <2>1. Save(p, [m EXCEPT !.status = "rollback-in-progress"]) BY <1>11 DEF MarkRollingBack
  <2>2. [m EXCEPT !.status = "rollback-in-progress"].status = "rollback-in-progress"
    BY <1>0, StatusParts DEF Status
  <2> QED BY <1>1, <1>6, <2>1, <2>2
<1>12. CASE ParkCurrent(p)
  <2>1. Save(p, m) BY <1>2, <1>12 DEF ParkCurrent
  <2> QED BY <1>1, <1>6, <2>1
<1>13. CASE SafetySnapshotFails(p)
  <2>1. pc[p] = "rb-snapshot" /\ Save(p, [m EXCEPT !.status = job[p].orig])
    BY <1>13 DEF SafetySnapshotFails
  <2> QED BY <1>0, <1>1, <1>6, <2>1 DEF Resuming
<1>14. CASE FinishRollback(p)
  <2>1. Save(p, [m EXCEPT !.status = FinalStatus(job[p])]) BY <1>14 DEF FinishRollback
  <2>2. [m EXCEPT !.status = FinalStatus(job[p])].status = FinalStatus(job[p])
    BY <1>0, FinalStatusType, StatusParts
  <2>3. FinalStatus(job[p]) # "completed" BY DEF FinalStatus
  <2> QED BY <1>1, <1>6, <2>1, <2>2, <2>3
<1>15. CASE FinishApply(p)
  <2>1. pc[p] \in {"complete", "mark-failed"} BY <1>15 DEF FinishApply
  <2>2. Save(p, [m EXCEPT !.status = IF pc[p] = "complete" THEN "completed" ELSE "failed"])
    BY <1>15 DEF FinishApply
  <2>3. CASE pc[p] = "mark-failed"
    <3>1. Save(p, [m EXCEPT !.status = "failed"]) BY <2>2, <2>3
    <3>2. [m EXCEPT !.status = "failed"].status = "failed"
      BY <1>0, StatusParts DEF Status, Eligible
    <3> QED BY <1>1, <1>6, <3>1, <3>2
  <2> QED BY <1>1, <1>6, <1>15, <2>1, <2>2, <2>3
<1> QED BY <1>5, <1>7, <1>8, <1>9, <1>10, <1>11, <1>12, <1>13, <1>14, <1>15

(* "completed" is written only when the resume file, grub, the initramfs   *)
(* and grub.cfg name one target, which is in use, and fstab has the swap   *)
(* line if a swap file was recorded, for any number of faults and backups: *)
(* with one helper at a time, unless others wrote one of the managed files *)
(* since the backup was begun (run_one_shot).                              *)
THEOREM BootableCorrect ==
  ASSUME Concurrent = FALSE
  PROVE  Spec => CompletedIsBootable
<1> DEFINE Bootable ==
      \A b \in BackupId :
       (/\ manifest[b].status = "in-progress" /\ manifest[b].status' = "completed"
        /\ File \cap foreign[b] = {})
         => /\ {disk["grub"], initrd, grubcfg} = {disk["resume"]}
            /\ Live(disk["resume"])
            /\ manifest[b].swap.recorded => disk["fstab"].kind = "entry"
<1>1. TypeInv /\ ReadyInv /\ [Next]_vars => ReadyInv'
  BY ReadyNext
<1>2. TypeInv /\ ReadyInv /\ [Next]_vars => [Bootable]_vars
  <2> SUFFICES ASSUME TypeInv, ReadyInv, Next, NEW b \in BackupId,
                      manifest[b].status = "in-progress", manifest'[b].status = "completed",
                      File \cap foreign[b] = {}
               PROVE  /\ {disk["grub"], initrd, grubcfg} = {disk["resume"]}
                      /\ Live(disk["resume"])
                      /\ manifest[b].swap.recorded => disk["fstab"].kind = "entry"
    OBVIOUS
  <2>1. PICK p \in Proc : FinishApply(p) /\ pc[p] = "complete" /\ job[p].bid = b
    BY Completing
  <2>2. Ready(p) /\ Local(p) BY <2>1 DEF ReadyInv, ReversibleInv, Undisturbed
  <2>3. job[p].mem = manifest[b] BY <2>1, <2>2 DEF Local, HoldingPC, PC, ApplyPC
  <2>4. InLine(p) /\ job[p].file = "grub" BY <2>1, <2>2 DEF Ready, Chosen
  <2> QED BY <2>1, <2>3, <2>4 DEF InLine
<1> QED BY <1>1, <1>2, ReadyInit, TypeInvariant, PTL DEF Spec, CompletedIsBootable
=============================================================================
