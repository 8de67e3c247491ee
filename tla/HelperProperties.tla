-------------------------- MODULE HelperProperties --------------------------
(***************************************************************************)
(* What the one-shot helper promises: apply can always be undone, undoing  *)
(* restores the machine, the operator's own swap file and edits survive,   *)
(* and no manifest is ever stuck.                                          *)
(***************************************************************************)
EXTENDS Helper

MachineType == [disk : [File -> Content], initrd : Content, grubcfg : Content,
                swapAt : InodeId \cup {NoFile}, active : SUBSET InodeId]

FilesType   == disk \in [File -> Content] /\ dirs \subseteq DirFile
BootType    == initrd \in Content /\ grubcfg \in Content /\ cmdline \in Content
SwapType    == /\ swapAt \in InodeId \cup {NoFile}
               /\ old \in [BackupId -> InodeId \cup {NoFile}]
               /\ cur \in [BackupId -> InodeId \cup {NoFile}]
               /\ inode \in [InodeId -> [size : Nat, fmt : BOOLEAN]]
               /\ active \subseteq InodeId
RecordsType == manifest \in [BackupId -> Manifest] /\ nextId \in 1..(MaxBackups + 1)
LockType    == lock \in Proc \cup {NoProc}
PcType      == pc \in [Proc -> PC]
JobType     == job \in [Proc -> Job]
EnvType     == /\ edits \in 0..MaxEdits /\ faults \in 0..MaxFaults
               /\ raced \in [File -> SUBSET (1..MaxEdits)] /\ blind \subseteq BackupId
HistoryType == /\ base \in [BackupId -> MachineType]
               /\ foreign \in [BackupId -> SUBSET (File \cup {"swap"})]

(* Every variable stays in its range; BackupManager's statuses and         *)
(* manifest shape are those of core/rollback.py.                           *)
TypeOK ==
  /\ FilesType /\ BootType /\ SwapType /\ RecordsType
  /\ LockType /\ PcType /\ JobType /\ EnvType /\ HistoryType

-----------------------------------------------------------------------------
(* Write-ahead: whatever b changed and nobody else did since it began is   *)
(* recorded in b's manifest on disk, with the content b found, at every    *)
(* moment a process can die (record_before_write against atomic writes).   *)
Reversible ==
  \A b \in BackupId : \A f \in File \ foreign[b] :
    (manifest[b].status # "none" /\ disk[f] # base[b].disk[f])
      => /\ manifest[b].files[f].recorded
         /\ manifest[b].files[f].before = base[b].disk[f]

(* A rollback that ends "rolled-back" has put every file back, whatever    *)
(* failed, crashed and was retried before, unless someone else changed the *)
(* file or the crash left its after-hash unknown (RollbackPlanner).        *)
RestoredFiles ==
  \A b \in BackupId : \A f \in File \ foreign[b] :
    LET r == manifest[b].files[f]
    IN  (manifest[b].status = "rolled-back" /\ ~(r.recorded /\ r.after = Unknown))
          => disk[f] = base[b].disk[f]

(* The same for the swap file: the one that was at the path is back        *)
(* (_swap_actions, _rollback_restore_old_swap).                            *)
RestoredSwapFile ==
  \A b \in BackupId :
    (manifest[b].status = "rolled-back" /\ "swap" \notin foreign[b])
      => swapAt = base[b].swapAt

(* And when no command fails it is back in use, if it was.                 *)
RestoredSwap ==
  /\ RestoredSwapFile
  /\ \A b \in BackupId :
       (manifest[b].status = "rolled-back" /\ "swap" \notin foreign[b])
         => (swapAt \in base[b].active => swapAt \in active)

(* After "rolled-back" the initramfs is built from the restored resume     *)
(* file, if it was in step before the apply (_post_actions) and the        *)
(* manifest is complete for that file.                                     *)
RestoredInitramfs ==
  \A b \in BackupId :
    (/\ manifest[b].status = "rolled-back" /\ "resume" \notin foreign[b]
     /\ manifest[b].files["resume"].after # Unknown
     /\ base[b].initrd = base[b].disk["resume"])
      => initrd = disk["resume"]

(* After "rolled-back" grub.cfg is built from the restored GRUB fragment.  *)
RestoredGrubCfg ==
  \A b \in BackupId :
    (/\ manifest[b].status = "rolled-back" /\ "grub" \notin foreign[b]
     /\ base[b].grubcfg = base[b].disk["grub"])
      => grubcfg = disk["grub"]

(* "completed" is written only when both configuration files, the          *)
(* initramfs and grub.cfg name one swap target, and that target is in use, *)
(* unless others changed a managed file since the backup was begun (the    *)
(* whole of run_one_shot).                                                 *)
CompletedIsBootable ==
  [][\A b \in BackupId :
       (/\ manifest[b].status = "in-progress" /\ manifest[b].status' = "completed"
        /\ File \cap foreign[b] = {})
         => /\ {disk["grub"], initrd, grubcfg} = {disk["resume"]}
            /\ Live(disk["resume"])
            /\ manifest[b].swap.recorded => disk["fstab"].kind = "entry"]_vars

(* The swap file the operator had is never destroyed: it is at the path or *)
(* in one of the retained siblings (os.replace, never unlink).             *)
PreexistingSwapKept ==
  base[1].swapAt = 0 => swapAt = 0 \/ \E b \in BackupId : 0 \in {old[b], cur[b]}

(* A swap file the kernel is using is renamed or unlinked only by an       *)
(* operation whose own, last reading of swapon failed: a reading that was  *)
(* right when it was made, before fstab was written or the sibling parked, *)
(* is still right when it is used (_is_active_swap against swapoff).       *)
ActiveSwapNotMoved ==
  [][(InUse /\ swapAt' # swapAt) =>
       \E p \in Proc : pc[p] \in {"retain", "rb-park", "rb-unlink"} /\ job[p].bid \in blind]_vars

(* With no helper running nothing is stuck: the lock is free, and every    *)
(* backup that is not rolled back can be rolled back, wherever the apply   *)
(* or an earlier rollback of it stopped (cmd_rollback's eligibility).      *)
Retryable ==
  AllIdle =>
    /\ lock = NoProc
    /\ \A b \in BackupId : manifest[b].status \in {"none", "rolled-back"} \/ CanRollBack(manifest[b])

(* "rolled-back" is the last status of a backup (mark_status).             *)
RolledBackIsFinal ==
  [][\A b \in BackupId : manifest[b].status = "rolled-back"
                           => manifest[b].status' = "rolled-back"]_vars

(* Exactly the process inside cmd_rollback's locked part holds the lock:   *)
(* two rollbacks never interleave, and no dead process keeps it.           *)
RollbackExclusive == \A p \in Proc : lock = p <=> pc[p] \in LockedPC

(* A rollback overwrites or removes only what the apply left there, as its *)
(* manifest says, and never a text of the operator (_file_action), but for *)
(* edits made while no comparison could see them (raced): some lie between *)
(* the write and record_after_write, which hashes what is then on disk,    *)
(* the others between the plan and the action.                             *)
OnlyOwnContentOverwritten ==
  [][\A p \in Proc : RestoreFile(p) =>
       LET f == Next1(p)
       IN  /\ disk[f] = manifest[job[p].bid].files[f].after \/ raced[f] # {}
           /\ disk[f].kind = "own" => disk[f].n \in raced[f]]_vars

(* Every started helper ends, whatever fails. *)
OperationsEnd == \A p \in Proc : pc[p] # "idle" ~> pc[p] = "idle"
=============================================================================
