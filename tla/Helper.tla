------------------------------- MODULE Helper -------------------------------
(***************************************************************************)
(* The one-shot privileged helper (backend/privileged_helper.py): processes *)
(* that apply a plan or roll one back, on the machine they change.         *)
(*                                                                         *)
(* Every `pkexec` call is a process that runs one request and exits.  An   *)
(* action is one durable effect of the code (a file replaced, a manifest   *)
(* saved, a command finished), so a process may stop between any two.      *)
(* Apply takes no lock; rollback takes the operation lock.                 *)
(*                                                                         *)
(* Environment, bounded by constants: commands that fail, processes that   *)
(* die and reboots (MaxFaults), and an operator who edits the managed      *)
(* files (MaxEdits).                                                       *)
(***************************************************************************)
EXTENDS RollbackPlan, FiniteSets

CONSTANTS
  Proc,           \* slots for helper processes
  MaxBackups,     \* backup ids that can be created
  Sizes,          \* sizes a swap file may have (0 is "not allocated")
  Found,          \* what the resume file may hold at first
  MayLackDirs,    \* the parent directories may be missing at first
  MaxEdits,       \* edits the operator makes
  MaxFaults,      \* failed commands, dead processes and reboots
  NoProc,         \* nobody holds the lock
  Concurrent      \* a second helper may start while one runs

ASSUME ProcAssumption   == Proc # {} /\ NoProc \notin Proc
ASSUME BoundAssumption  == MaxBackups \in Nat /\ MaxEdits \in Nat /\ MaxFaults \in Nat
ASSUME SizesAssumption  == Sizes # {} /\ Sizes \subseteq Nat \ {0}
ASSUME FoundAssumption  == Found \subseteq {"absent", "own", "partition", "swapfile"} /\ Found # {}
ASSUME KnobAssumption   == {MayLackDirs, Concurrent} \subseteq BOOLEAN

BackupId == 1..MaxBackups     \* in the order begin() creates them
NoFile   == -1
InodeId  == 0..MaxBackups     \* swap files: 0 is the operator's, b is made by apply b

VARIABLES
  disk,      \* content of each managed file
  dirs,      \* does the parent directory of the file exist
  initrd,    \* the resume file the initramfs was last built from
  grubcfg,   \* the GRUB fragment grub.cfg was last built from
  cmdline,   \* the kernel command line's resume setting, as booted
  swapAt,    \* the swap file at /swap.img, or NoFile
  old,       \* per backup id, the retained <name>.uhw-backup-<id>
  cur,       \* per backup id, the <name>.uhw-rollback-current-<id>
  inode,     \* size and mkswap state of each swap file
  active,    \* swap files in use by the kernel
  manifest,  \* manifest.json of each backup id
  nextId,    \* the next backup id
  lock,      \* holder of the operation lock
  pc,        \* where each process stands
  job,       \* its local state
  edits,     \* edits made
  faults,    \* faults that happened
  raced,     \* history: per file, the edits no comparison of hashes can see
  blind,     \* history: backups for which a swap file in use was last read as not in use
  base,      \* history: the machine when a backup id was begun
  foreign    \* history: what others than b's apply and rollback changed since

fileVars == <<disk, dirs>>
bootVars == <<initrd, grubcfg, cmdline>>
swapVars == <<swapAt, old, cur, inode, active>>
recVars  == <<manifest, nextId>>
envVars  == <<edits, faults, raced, blind>>
histVars == <<base, foreign>>
vars == <<disk, dirs, initrd, grubcfg, cmdline, swapAt, old, cur, inode, active,
          manifest, nextId, lock, pc, job, edits, faults, raced, blind, base, foreign>>

-----------------------------------------------------------------------------
(* Local state *)

ApplyPC == {"validate", "begin", "check-swap", "record", "write", "seal",
            "swap-manifest", "swapoff", "retain", "retain-save", "create",
            "allocate", "mkswap", "swapon", "select", "initramfs",
            "update-grub", "mark-failed", "complete"}
ExecPC   == {"rb-exec", "rb-park", "rb-unpark", "rb-swapon", "rb-unlink"}
LockedPC == {"rb-load", "rb-mark", "rb-snapshot", "rb-plan"} \cup ExecPC
PC == {"idle", "rb-lock"} \cup ApplyPC \cup LockedPC

Job == [bid : 0..MaxBackups, want : Content, size : Nat, needsNew : BOOLEAN,
        wasActive : BOOLEAN, file : File, line : Content, mem : Manifest,
        todo : SUBSET Action, anyOk : BOOLEAN, anyFail : BOOLEAN,
        regenFail : BOOLEAN, orig : Status]

NoJob == [bid |-> 0, want |-> Absent, size |-> 0, needsNew |-> FALSE,
          wasActive |-> FALSE, file |-> "resume", line |-> Absent,
          mem |-> NoManifest, todo |-> {}, anyOk |-> FALSE, anyFail |-> FALSE,
          regenFail |-> FALSE, orig |-> "none"]

AllIdle == \A p \in Proc : pc[p] = "idle"

(* Control flow: go on at l; go on with the local state j; end. *)
Goto(p, l) == pc' = [pc EXCEPT ![p] = l]
Keep(p, j) == job' = [job EXCEPT ![p] = j]
Exit(p) ==
  /\ Goto(p, "idle")
  /\ Keep(p, NoJob)
  /\ lock' = IF lock = p THEN NoProc ELSE lock

(* BackupManager.save: the process writes its own copy of the manifest.    *)
Save(p, m) == manifest' = [manifest EXCEPT ![job[p].bid] = m]

Faulty == faults < MaxFaults /\ faults' = faults + 1
Fault  == Faulty /\ UNCHANGED <<edits, raced, blind>>

(* History: x (a file, or "swap") is changed by the operation b, or by the *)
(* operator when b is 0.                                                   *)
Disturb(b, x) ==
  foreign' = [c \in BackupId |-> IF c = b \/ c >= nextId
                                 THEN foreign[c] ELSE foreign[c] \cup {x}]

Machine == [disk |-> disk, initrd |-> initrd, grubcfg |-> grubcfg,
            swapAt |-> swapAt, active |-> active]

-----------------------------------------------------------------------------
(* A machine the wizard may be started on: with or without a swap file in  *)
(* use and in fstab; with no resume file, with one that sets nothing, or   *)
(* already configured for one of its swap targets.                         *)

Init ==
  /\ swapAt \in {NoFile, 0}
  /\ \E k \in IF swapAt = 0 THEN Found ELSE Found \ {"swapfile"} :
       disk = [fstab  |-> IF swapAt = 0 THEN WithEntry(Own(0)) ELSE Own(0),
               resume |-> [kind |-> k, n |-> 0],
               grub   |-> IF k = "own" THEN Absent ELSE [kind |-> k, n |-> 0]]
  /\ dirs \in {DirFile} \cup (IF MayLackDirs THEN {{f \in DirFile : disk[f] # Absent}} ELSE {})
  /\ initrd = disk["resume"] /\ grubcfg = disk["grub"] /\ cmdline = disk["grub"]
  /\ old = [b \in BackupId |-> NoFile] /\ cur = [b \in BackupId |-> NoFile]
  /\ \E s \in Sizes : inode = [i \in InodeId |-> IF i = 0
                                 THEN [size |-> s, fmt |-> TRUE]
                                 ELSE [size |-> 0, fmt |-> FALSE]]
  /\ active = {0} \cap {swapAt}
  /\ manifest = [b \in BackupId |-> NoManifest] /\ nextId = 1
  /\ lock = NoProc /\ pc = [p \in Proc |-> "idle"] /\ job = [p \in Proc |-> NoJob]
  /\ edits = 0 /\ faults = 0 /\ raced = [f \in File |-> {}] /\ blind = {}
  /\ base = [b \in BackupId |-> Machine] /\ foreign = [b \in BackupId |-> {}]

-----------------------------------------------------------------------------
(* Probing *)

(* _validate_target_live, _select_live_swapfile_target: the target is      *)
(* there and in use.  The machine always has a usable swap partition.      *)
Live(t) == t = Partition \/ (swapAt \in active /\ t = ForSwap(swapAt))

(* conflict_warnings: the running kernel or the resume file names another  *)
(* target than t.                                                          *)
Conflict(t) == \E c \in {cmdline, disk["resume"]} : SetsResume(c) /\ c # t

InUse == swapAt # NoFile /\ swapAt \in active

(* Wrong variant: swapon's output is never understood. *)
SwapActiveUnparsed(misread) == FALSE

(* _is_active_swap and _is_swap_active: a swapon that fails, or prints     *)
(* what cannot be parsed, passes for "not in use".                         *)
SwapActive(misread) == InUse /\ ~misread

(* Asking it for backup b; a misreading is a fault, and makes a difference *)
(* only for a file in use.                                                 *)
Reading(b, misread) ==
  /\ IF misread THEN InUse /\ Faulty ELSE UNCHANGED faults
  /\ blind' = IF misread THEN blind \cup {b} ELSE blind \ {b}
  /\ UNCHANGED <<edits, raced>>

-----------------------------------------------------------------------------
(* apply-plan *)

CanStart(p) == pc[p] = "idle" /\ (Concurrent \/ AllIdle)

(* run_one_shot with an existing target, as the caller saw it. *)
StartTargetApply(p, t) ==
  /\ CanStart(p) /\ Live(t)
  /\ Keep(p, [NoJob EXCEPT !.want = t]) /\ Goto(p, "validate")
  /\ UNCHANGED <<fileVars, bootVars, swapVars, recVars, lock, envVars, histVars>>

(* run_one_shot with a swap_file_request of size s. *)
StartSwapApply(p, s) ==
  /\ CanStart(p)
  /\ Keep(p, [NoJob EXCEPT !.size = s]) /\ Goto(p, "begin")
  /\ UNCHANGED <<fileVars, bootVars, swapVars, recVars, lock, envVars, histVars>>

(* The re-probe may also meet a blocking reason of the machine that is not *)
(* modelled, so refusing is always possible.                               *)
ValidateTarget(p) ==
  /\ pc[p] = "validate"
  /\ \/ /\ Live(job[p].want) /\ ~Conflict(job[p].want)
        /\ Goto(p, "begin") /\ UNCHANGED <<job, lock>>
     \/ Exit(p)
  /\ UNCHANGED <<fileVars, bootVars, swapVars, recVars, envVars, histVars>>

(* BackupManager.begin and the history of what b starts from. *)
NewManifest ==
  /\ nextId \in BackupId
  /\ manifest' = [manifest EXCEPT ![nextId] = EmptyManifest]
  /\ nextId' = nextId + 1
  /\ base' = [base EXCEPT ![nextId] = Machine]
  /\ UNCHANGED foreign

Begin(p) ==
  /\ pc[p] = "begin"
  /\ NewManifest
  /\ Keep(p, [job[p] EXCEPT !.bid = nextId, !.mem = EmptyManifest])
  /\ IF job[p].size # 0
     THEN Goto(p, "check-swap")
     ELSE Goto(p, "record")
  /\ UNCHANGED <<fileVars, bootVars, swapVars, lock, envVars>>

(* No id left stands for begin() failing. *)
BeginFails(p) ==
  /\ pc[p] = "begin" /\ nextId \notin BackupId
  /\ Exit(p)
  /\ UNCHANGED <<fileVars, bootVars, swapVars, recVars, envVars, histVars>>

(* _ensure_managed_swap_file up to the first write: file system, path and  *)
(* free space (any of them may refuse), then the fstab text is read.       *)
CheckSwap(p) ==
  /\ pc[p] = "check-swap"
  /\ \/ /\ \E misread \in BOOLEAN :
             /\ Reading(job[p].bid, misread)
             /\ Keep(p, [job[p] EXCEPT
                  !.needsNew = swapAt = NoFile \/ inode[swapAt].size # job[p].size,
                  !.wasActive = SwapActive(misread),
                  !.file = "fstab",
                  !.line = WithEntry(disk["fstab"])])
        /\ Goto(p, IF disk["fstab"] = WithEntry(disk["fstab"])
                   THEN "swap-manifest" ELSE "record")
        /\ UNCHANGED lock
     \/ Exit(p) /\ UNCHANGED envVars
  /\ UNCHANGED <<fileVars, bootVars, swapVars, recVars, histVars>>

(* Wrong variant: the record is kept in memory and saved with the hash.    *)
RecordBeforeInMemory(p) ==
  LET f == job[p].file
      m == Recorded(job[p].mem, f, disk[f], ({f} \cap DirFile) \ dirs)
  IN  /\ pc[p] = "record"
      /\ Keep(p, [job[p] EXCEPT !.mem = m]) /\ Goto(p, "write")
      /\ UNCHANGED <<fileVars, bootVars, swapVars, recVars, lock, envVars, histVars>>

(* _atomic_write_v042, in its three durable steps: record_before_write     *)
(* (and maybe_record_parent_dir), the replace, record_after_write.         *)
Wanted(j) == IF j.file = "fstab" THEN j.line ELSE j.want

RecordBefore(p) ==
  LET f == job[p].file
      m == Recorded(job[p].mem, f, disk[f], ({f} \cap DirFile) \ dirs)
  IN  /\ pc[p] = "record"
      /\ Save(p, m) /\ Keep(p, [job[p] EXCEPT !.mem = m]) /\ Goto(p, "write")
      /\ UNCHANGED <<fileVars, bootVars, swapVars, nextId, lock, envVars, histVars>>

WriteFile(p) ==
  LET f == job[p].file
  IN  /\ pc[p] = "write"
      /\ disk' = [disk EXCEPT ![f] = Wanted(job[p])]
      /\ dirs' = dirs \cup ({f} \cap DirFile)
      /\ Disturb(job[p].bid, f)
      /\ Goto(p, "seal")
      /\ UNCHANGED <<bootVars, swapVars, recVars, lock, job, envVars, base>>

RecordAfter(p) ==
  LET f == job[p].file
      m == Sealed(job[p].mem, f, disk[f])
  IN  /\ pc[p] = "seal"
      /\ Save(p, m)
      /\ Keep(p, [job[p] EXCEPT !.mem = m, !.file = IF f = "resume" THEN "grub" ELSE f])
      /\ Goto(p, CASE f = "fstab"  -> "swap-manifest"
                   [] f = "resume" -> "record"
                   [] f = "grub"   -> "initramfs")
      /\ UNCHANGED <<fileVars, bootVars, swapVars, nextId, lock, envVars, histVars>>

(* The swap part of the manifest; existence is looked at again here. *)
RecordSwap(p) ==
  LET m == [job[p].mem EXCEPT !.swap =
              [recorded |-> TRUE, existed |-> swapAt # NoFile,
               wasActive |-> job[p].wasActive, oldNamed |-> FALSE]]
  IN  /\ pc[p] = "swap-manifest"
      /\ Save(p, m) /\ Keep(p, [job[p] EXCEPT !.mem = m])
      /\ Goto(p, IF ~job[p].needsNew THEN "swapon"
                 ELSE IF job[p].wasActive THEN "swapoff" ELSE "retain")
      /\ UNCHANGED <<fileVars, bootVars, swapVars, nextId, lock, envVars, histVars>>

SwapOff(p) ==
  /\ pc[p] = "swapoff" /\ InUse
  /\ active' = active \ {swapAt}
  /\ Disturb(job[p].bid, "swap")
  /\ Goto(p, "retain")
  /\ UNCHANGED <<fileVars, bootVars, swapAt, old, cur, inode, recVars, lock, job, envVars, base>>

(* os.replace(path, old_path); a new file needs no retaining. *)
RetainOld(p) ==
  /\ pc[p] = "retain"
  /\ IF swapAt # NoFile
     THEN /\ old' = [old EXCEPT ![job[p].bid] = swapAt]
          /\ swapAt' = NoFile
          /\ Disturb(job[p].bid, "swap")
          /\ Goto(p, "retain-save")
     ELSE Goto(p, "create") /\ UNCHANGED <<old, swapAt, foreign>>
  /\ UNCHANGED <<fileVars, bootVars, cur, inode, active, recVars, lock, job, envVars, base>>

(* old_swap_backup_name is saved after the rename it names. *)
SaveOldName(p) ==
  LET m == [job[p].mem EXCEPT !.swap.oldNamed = TRUE]
  IN  /\ pc[p] = "retain-save"
      /\ Save(p, m) /\ Keep(p, [job[p] EXCEPT !.mem = m]) /\ Goto(p, "create")
      /\ UNCHANGED <<fileVars, bootVars, swapVars, nextId, lock, envVars, histVars>>

(* _make_swap_file: the empty file first, then its blocks, then mkswap. *)
CreateFile(p) ==
  /\ pc[p] = "create"
  /\ swapAt' = IF swapAt = NoFile THEN job[p].bid ELSE swapAt
  /\ Disturb(job[p].bid, "swap")
  /\ Goto(p, "allocate")
  /\ UNCHANGED <<fileVars, bootVars, old, cur, inode, active, recVars, lock, job, envVars, base>>

Allocate(p) ==
  LET i == IF swapAt = NoFile THEN job[p].bid ELSE swapAt
  IN  /\ pc[p] = "allocate"
      /\ swapAt' = i
      /\ inode' = [inode EXCEPT ![i].size = job[p].size]
      /\ Disturb(job[p].bid, "swap")
      /\ Goto(p, "mkswap")
      /\ UNCHANGED <<fileVars, bootVars, old, cur, active, recVars, lock, job, envVars, base>>

MkSwap(p) ==
  /\ pc[p] = "mkswap" /\ swapAt # NoFile /\ swapAt \notin active
  /\ inode' = [inode EXCEPT ![swapAt].fmt = TRUE]
  /\ Goto(p, "swapon")
  /\ UNCHANGED <<fileVars, bootVars, swapAt, old, cur, active, recVars, lock, job, envVars, histVars>>

SwapOn(p) ==
  /\ pc[p] = "swapon" /\ swapAt # NoFile /\ inode[swapAt].fmt
  /\ active' = active \cup {swapAt}
  /\ Disturb(job[p].bid, "swap")
  /\ Goto(p, "select")
  /\ UNCHANGED <<fileVars, bootVars, swapAt, old, cur, inode, recVars, lock, job, envVars, base>>

(* A command of the apply fails: the process ends and the manifest stays   *)
(* as it is.  While the file is being made, the old one is put back, but   *)
(* only when nothing is at the path.                                       *)
CommandRefused(p) ==
  \/ pc[p] = "swapoff" /\ ~InUse
  \/ pc[p] = "mkswap" /\ (swapAt = NoFile \/ swapAt \in active)
  \/ pc[p] = "swapon" /\ (swapAt = NoFile \/ ~inode[swapAt].fmt)

SwapCommandFails(p) ==
  LET b == job[p].bid
  IN  /\ pc[p] \in {"swapoff", "create", "allocate", "mkswap", "swapon"}
      /\ IF CommandRefused(p) THEN UNCHANGED envVars ELSE Fault
      /\ IF pc[p] \in {"create", "allocate", "mkswap"} /\ old[b] # NoFile /\ swapAt = NoFile
         THEN /\ swapAt' = old[b]
              /\ old' = [old EXCEPT ![b] = NoFile]
              /\ active' \in {active} \cup (IF job[p].wasActive THEN {active \cup {old[b]}} ELSE {})
              /\ Disturb(b, "swap")
         ELSE UNCHANGED <<swapAt, old, active, foreign>>
      /\ Exit(p)
      /\ UNCHANGED <<fileVars, bootVars, cur, inode, recVars, base>>

(* Only now is the swap file known to be usable and free of conflicts. *)
SelectTarget(p) ==
  /\ pc[p] = "select"
  /\ \/ /\ InUse /\ ~Conflict(ForSwap(swapAt))
        /\ Keep(p, [job[p] EXCEPT !.want = ForSwap(swapAt), !.file = "resume"])
        /\ Goto(p, "record") /\ UNCHANGED lock
     \/ Exit(p)
  /\ UNCHANGED <<fileVars, bootVars, swapVars, recVars, envVars, histVars>>

(* Wrong variant: the return code is ignored. *)
UpdateInitramfsUnchecked(p) ==
  /\ pc[p] = "initramfs"
  /\ \/ initrd' = disk["resume"] /\ UNCHANGED envVars
     \/ Fault /\ UNCHANGED initrd
  /\ Goto(p, "update-grub")
  /\ UNCHANGED <<fileVars, grubcfg, cmdline, swapVars, recVars, lock, job, histVars>>

UpdateInitramfs(p) ==
  /\ pc[p] = "initramfs"
  /\ \/ initrd' = disk["resume"] /\ Goto(p, "update-grub") /\ UNCHANGED envVars
     \/ Fault /\ Goto(p, "mark-failed") /\ UNCHANGED initrd
  /\ UNCHANGED <<fileVars, grubcfg, cmdline, swapVars, recVars, lock, job, histVars>>

(* update-grub, and grub-mkconfig when it fails. *)
UpdateGrub(p) ==
  /\ pc[p] = "update-grub"
  /\ \/ grubcfg' = disk["grub"] /\ Goto(p, "complete") /\ UNCHANGED envVars
     \/ Fault /\ Goto(p, "mark-failed") /\ UNCHANGED grubcfg
  /\ UNCHANGED <<fileVars, initrd, cmdline, swapVars, recVars, lock, job, histVars>>

(* mark_status writes the manifest the process holds in memory. *)
FinishApply(p) ==
  /\ pc[p] \in {"complete", "mark-failed"}
  /\ Save(p, [job[p].mem EXCEPT !.status = IF pc[p] = "complete" THEN "completed" ELSE "failed"])
  /\ Exit(p)
  /\ UNCHANGED <<fileVars, bootVars, swapVars, nextId, envVars, histVars>>

-----------------------------------------------------------------------------
(* rollback-files *)

(* _rollback_files loads the manifest before cmd_rollback locks. *)
StartRollback(p, b) ==
  /\ CanStart(p) /\ manifest[b].status # "none"
  /\ Keep(p, [NoJob EXCEPT !.bid = b]) /\ Goto(p, "rb-lock")
  /\ UNCHANGED <<fileVars, bootVars, swapVars, recVars, lock, envVars, histVars>>

(* Wrong variant: whoever comes takes the lock. *)
AcquireLockBlind(p) ==
  /\ pc[p] = "rb-lock"
  /\ lock' = p /\ Goto(p, "rb-load")
  /\ UNCHANGED <<fileVars, bootVars, swapVars, recVars, job, envVars, histVars>>

AcquireLock(p) ==
  /\ pc[p] = "rb-lock"
  /\ IF lock = NoProc
     THEN lock' = p /\ Goto(p, "rb-load") /\ UNCHANGED job
     ELSE Exit(p)
  /\ UNCHANGED <<fileVars, bootVars, swapVars, recVars, envVars, histVars>>

LoadManifest(p) ==
  LET m == manifest[job[p].bid]
  IN  /\ pc[p] = "rb-load"
      /\ IF CanRollBack(m)
         THEN /\ Keep(p, [job[p] EXCEPT !.mem = m, !.orig = m.status])
              /\ Goto(p, "rb-mark") /\ UNCHANGED lock
         ELSE Exit(p)
      /\ UNCHANGED <<fileVars, bootVars, swapVars, recVars, envVars, histVars>>

MarkRollingBack(p) ==
  LET m == [job[p].mem EXCEPT !.status = "rollback-in-progress"]
  IN  /\ pc[p] = "rb-mark"
      /\ Save(p, m) /\ Keep(p, [job[p] EXCEPT !.mem = m]) /\ Goto(p, "rb-snapshot")
      /\ UNCHANGED <<fileVars, bootVars, swapVars, nextId, lock, envVars, histVars>>

(* The safety snapshot is a manifest of its own, and nothing is recorded   *)
(* in it.  When it cannot be begun the original status is restored.        *)
SafetySnapshot(p) ==
  /\ pc[p] = "rb-snapshot"
  /\ NewManifest /\ Goto(p, "rb-plan")
  /\ UNCHANGED <<fileVars, bootVars, swapVars, lock, job, envVars>>

SafetySnapshotFails(p) ==
  /\ pc[p] = "rb-snapshot" /\ nextId \notin BackupId
  /\ Save(p, [job[p].mem EXCEPT !.status = job[p].orig]) /\ Exit(p)
  /\ UNCHANGED <<fileVars, bootVars, swapVars, nextId, envVars, histVars>>

PlanRollback(p) ==
  LET b == job[p].bid
      m == manifest[b]
  IN  /\ pc[p] = "rb-plan"
      /\ Keep(p, [job[p] EXCEPT !.mem = m,
                    !.todo = BuildPlan(m, disk, dirs, old[b] # NoFile, swapAt # NoFile)])
      /\ Goto(p, "rb-exec")
      /\ UNCHANGED <<fileVars, bootVars, swapVars, recVars, lock, envVars, histVars>>

(* The next action of the plan, and what its result leaves to do. *)
Next1(p) == First(job[p].todo)
Doing(p, A) == pc[p] = "rb-exec" /\ job[p].todo # {} /\ Next1(p) \in A

(* Wrong variant: the action stays on the list. *)
SucceededAgain(j) == [j EXCEPT !.anyOk = TRUE]

Succeeded(j) == [j EXCEPT !.todo = @ \ {First(@)}, !.anyOk = TRUE]
Failed(j) == [j EXCEPT !.todo = @ \ {First(@)}, !.anyFail = TRUE,
                       !.regenFail = @ \/ First(j.todo) \in Rerun]

(* restore-file and remove-created-file: the hash was compared when the    *)
(* plan was built and is not compared again.                               *)
RestoreFile(p) ==
  LET f == Next1(p)
      b == job[p].bid
  IN  /\ Doing(p, File)
      /\ disk' = [disk EXCEPT ![f] = manifest[b].files[f].before]
      /\ dirs' = IF manifest[b].files[f].before = Absent
                 THEN dirs ELSE dirs \cup ({f} \cap DirFile)
      /\ Disturb(b, f)
      /\ Keep(p, [Succeeded(job[p]) EXCEPT !.mem = manifest[b]])
      /\ UNCHANGED <<bootVars, swapVars, recVars, lock, pc, envVars, base>>

RemoveDir(p) ==
  LET f == IF Next1(p) = "rmdir-grub" THEN "grub" ELSE "resume"
  IN  /\ Doing(p, DirAction)
      /\ IF f \in dirs /\ disk[f] = Absent
         THEN dirs' = dirs \ {f} /\ Keep(p, Succeeded(job[p]))
         ELSE Keep(p, Failed(job[p])) /\ UNCHANGED dirs
      /\ UNCHANGED <<disk, bootVars, swapVars, recVars, lock, pc, envVars, histVars>>

Regenerate(p) ==
  /\ Doing(p, Rerun)
  /\ IF Next1(p) = "rerun-grub"
     THEN grubcfg' = disk["grub"] /\ UNCHANGED initrd
     ELSE initrd' = disk["resume"] /\ UNCHANGED grubcfg
  /\ Keep(p, Succeeded(job[p]))
  /\ UNCHANGED <<fileVars, cmdline, swapVars, recVars, lock, pc, envVars, histVars>>

(* _rollback_restore_old_swap and _rollback_remove_wizard_swap begin with  *)
(* swapoff, if the file is found to be in use; the sibling is looked for   *)
(* again.                                                                  *)
SwapRollbackBegins(p) ==
  /\ Doing(p, SwapAction)
  /\ LET b == job[p].bid
         restore == Next1(p) = "restore-old-swap"
     IN  IF restore /\ old[b] = NoFile
         THEN Keep(p, Failed(job[p])) /\ UNCHANGED <<pc, active, foreign, envVars>>
         ELSE /\ \E misread \in BOOLEAN :
                   /\ Reading(b, misread)
                   /\ active' = IF SwapActive(misread) THEN active \ {swapAt} ELSE active
              /\ Disturb(b, "swap")
              /\ Keep(p, [job[p] EXCEPT !.mem = manifest[b]])
              /\ Goto(p, IF restore THEN "rb-park" ELSE "rb-unlink")
  /\ UNCHANGED <<fileVars, bootVars, swapAt, old, cur, inode, recVars, lock, base>>

ParkCurrent(p) ==
  LET b == job[p].bid
  IN  /\ pc[p] = "rb-park"
      /\ IF swapAt # NoFile
         THEN /\ cur' = [cur EXCEPT ![b] = swapAt] /\ swapAt' = NoFile
              /\ Save(p, job[p].mem)        \* rollback_current_name
              /\ Disturb(b, "swap")
         ELSE UNCHANGED <<cur, swapAt, manifest, foreign>>
      /\ Goto(p, "rb-unpark")
      /\ UNCHANGED <<fileVars, bootVars, old, inode, active, nextId, lock, job, envVars, base>>

RestoreOld(p) ==
  LET b == job[p].bid
  IN  /\ pc[p] = "rb-unpark" /\ old[b] # NoFile
      /\ swapAt' = old[b] /\ old' = [old EXCEPT ![b] = NoFile]
      /\ Disturb(b, "swap")
      /\ IF job[p].mem.swap.wasActive
         THEN Goto(p, "rb-swapon") /\ UNCHANGED job
         ELSE Goto(p, "rb-exec") /\ Keep(p, Succeeded(job[p]))
      /\ UNCHANGED <<fileVars, bootVars, cur, inode, active, recVars, lock, envVars, base>>

SwapBackOn(p) ==
  /\ pc[p] = "rb-swapon" /\ swapAt # NoFile /\ inode[swapAt].fmt /\ swapAt \notin active
  /\ active' = active \cup {swapAt}
  /\ Disturb(job[p].bid, "swap")
  /\ Goto(p, "rb-exec") /\ Keep(p, Succeeded(job[p]))
  /\ UNCHANGED <<fileVars, bootVars, swapAt, old, cur, inode, recVars, lock, envVars, base>>

UnlinkSwap(p) ==
  /\ pc[p] = "rb-unlink"
  /\ swapAt' = NoFile
  /\ Disturb(job[p].bid, "swap")
  /\ Goto(p, "rb-exec") /\ Keep(p, Succeeded(job[p]))
  /\ UNCHANGED <<fileVars, bootVars, old, cur, inode, active, recVars, lock, envVars, base>>

(* _execute_rollback_action turns every failure and exception into a       *)
(* failed action, and goes on with the next one.                           *)
ActionFails(p) ==
  /\ \/ Doing(p, Action) /\ Fault
     \/ pc[p] \in {"rb-park", "rb-unlink"} /\ Fault
     \/ pc[p] = "rb-unpark" /\ (IF old[job[p].bid] = NoFile THEN UNCHANGED envVars ELSE Fault)
     \/ pc[p] = "rb-swapon" /\ (IF swapAt = NoFile \/ ~inode[swapAt].fmt \/ swapAt \in active
                                THEN UNCHANGED envVars ELSE Fault)
  /\ Goto(p, "rb-exec") /\ Keep(p, Failed(job[p]))
  /\ UNCHANGED <<fileVars, bootVars, swapVars, recVars, lock, histVars>>

(* Wrong variant: a status that is not one of STORED_STATUSES. *)
FinalStatusUnstored(j) ==
  IF j.anyFail THEN "partial" ELSE "rolled-back"

FinalStatus(j) ==
  IF j.regenFail THEN "rolled-back-partial"
  ELSE IF ~j.anyFail THEN "rolled-back"
  ELSE IF j.anyOk THEN "rolled-back-partial" ELSE "rollback-failed"

FinishRollback(p) ==
  /\ pc[p] = "rb-exec" /\ job[p].todo = {}
  /\ Save(p, [job[p].mem EXCEPT !.status = FinalStatus(job[p])])
  /\ Exit(p)
  /\ UNCHANGED <<fileVars, bootVars, swapVars, nextId, envVars, histVars>>

-----------------------------------------------------------------------------
(* The environment *)

(* The process is killed, or an exception no handler turns into a status   *)
(* ends it (a command's timeout, build_plan refusing a manifest).  The     *)
(* kernel drops its lock.                                                  *)
Crash(p) ==
  /\ pc[p] # "idle" /\ Fault /\ Exit(p)
  /\ UNCHANGED <<fileVars, bootVars, swapVars, recVars, histVars>>

(* At boot the kernel gets grub.cfg's command line, and fstab's swap file. *)
Reboot ==
  /\ Fault
  /\ pc' = [p \in Proc |-> "idle"] /\ job' = [p \in Proc |-> NoJob] /\ lock' = NoProc
  /\ cmdline' = grubcfg
  /\ active' = IF disk["fstab"].kind = "entry" /\ swapAt # NoFile /\ inode[swapAt].fmt
               THEN {swapAt} ELSE {}
  /\ IF active' # active THEN Disturb(0, "swap") ELSE UNCHANGED foreign
  /\ UNCHANGED <<fileVars, initrd, grubcfg, swapAt, old, cur, inode, recVars, base>>

(* An edit no comparison sees: between the write of f and the hash taken   *)
(* of it, or between the hash check of the plan and the action that        *)
(* overwrites f.                                                           *)
Unseen(f) ==
  \E p \in Proc : \/ pc[p] = "seal" /\ job[p].file = f
                  \/ pc[p] \in ExecPC /\ f \in job[p].todo

(* The operator rewrites a managed file, or deletes one of the wizard's, at *)
(* any moment.                                                             *)
EditFile(f) ==
  /\ edits < MaxEdits /\ edits' = edits + 1
  /\ raced' = IF Unseen(f) THEN [raced EXCEPT ![f] = @ \cup {edits + 1}] ELSE raced
  /\ UNCHANGED <<faults, blind>>
  /\ \E c \in {Own(edits + 1)} \cup (IF f = "fstab" THEN {} ELSE {Absent}) :
       disk' = [disk EXCEPT ![f] = c] /\ c # disk[f]
  /\ dirs' = dirs \cup (IF disk'[f] = Absent THEN {} ELSE {f} \cap DirFile)
  /\ Disturb(0, f)
  /\ UNCHANGED <<bootVars, swapVars, recVars, lock, pc, job, base>>

-----------------------------------------------------------------------------
Start(p) ==
  \/ \E t \in {Partition} \cup {ForSwap(i) : i \in active} : StartTargetApply(p, t)
  \/ \E s \in Sizes : StartSwapApply(p, s)
  \/ \E b \in BackupId : StartRollback(p, b)

ApplyStep(p) ==
  \/ ValidateTarget(p) \/ Begin(p) \/ BeginFails(p) \/ CheckSwap(p)
  \/ RecordBefore(p) \/ WriteFile(p) \/ RecordAfter(p) \/ RecordSwap(p)
  \/ SwapOff(p) \/ RetainOld(p) \/ SaveOldName(p) \/ CreateFile(p)
  \/ Allocate(p) \/ MkSwap(p) \/ SwapOn(p) \/ SwapCommandFails(p)
  \/ SelectTarget(p) \/ UpdateInitramfs(p) \/ UpdateGrub(p) \/ FinishApply(p)

RollbackStep(p) ==
  \/ AcquireLock(p) \/ LoadManifest(p) \/ MarkRollingBack(p)
  \/ SafetySnapshot(p) \/ SafetySnapshotFails(p) \/ PlanRollback(p)
  \/ RestoreFile(p) \/ RemoveDir(p) \/ Regenerate(p) \/ SwapRollbackBegins(p)
  \/ ParkCurrent(p) \/ RestoreOld(p) \/ SwapBackOn(p) \/ UnlinkSwap(p)
  \/ ActionFails(p) \/ FinishRollback(p)

Environment ==
  \/ \E p \in Proc : Start(p) \/ Crash(p)
  \/ Reboot
  \/ \E f \in File : EditFile(f)

Next ==
  \/ \E p \in Proc : ApplyStep(p) \/ RollbackStep(p)
  \/ Environment

Spec == Init /\ [][Next]_vars

(* A started helper keeps running: every command it waits for has a        *)
(* timeout, and it never waits for the lock.                               *)
FairSpec == Spec /\ \A p \in Proc : WF_vars(ApplyStep(p) \/ RollbackStep(p))
=============================================================================
