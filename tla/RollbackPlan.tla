---------------------------- MODULE RollbackPlan ----------------------------
(***************************************************************************)
(* The rollback manifest and the planner that reads it                     *)
(* (core/rollback.py), as data and pure operators: no state here.          *)
(*                                                                         *)
(* A manifest says, for one operation, what each managed file was before   *)
(* the operation wrote it and what it was right after.  The planner        *)
(* compares the recorded hashes with the machine and decides, action by    *)
(* action, what a rollback may do.  A hash is modelled by the content it   *)
(* is the hash of, and the backup copy by the content it holds.            *)
(***************************************************************************)
EXTENDS Integers

(* Contents of the managed files: an operator's own text, a generated      *)
(* setting for the swap partition or for swap file number n, or the fstab  *)
(* text number n with the wizard's swap line added.                        *)
Absent    == [kind |-> "absent",  n |-> 0]
Unknown   == [kind |-> "unknown", n |-> 0]
Own(n)    == [kind |-> "own",     n |-> n]
Partition == [kind |-> "partition", n |-> 0]
ForSwap(n) == [kind |-> "swapfile", n |-> n]

Kind    == {"absent", "unknown", "own", "partition", "swapfile", "entry"}
Content == [kind : Kind, n : Nat]

(* core/system.ensure_swap_entry: the line is added once. *)
WithEntry(c) == [kind |-> "entry", n |-> c.n]

(* The text names a resume target. *)
SetsResume(c) == c.kind \in {"partition", "swapfile"}

(* The files the helper may write; the two whose parent directory it may   *)
(* have to create.                                                         *)
File    == {"fstab", "resume", "grub"}
DirFile == {"resume", "grub"}

-----------------------------------------------------------------------------
(* Manifests *)

FileRecord == [recorded : BOOLEAN, before : Content, after : Content]
SwapRecord == [recorded : BOOLEAN, existed : BOOLEAN,
               wasActive : BOOLEAN, oldNamed : BOOLEAN]

Eligible == {"failed", "completed", "in-progress",
             "rolled-back-partial", "rollback-failed"}

Status == Eligible \cup {"none", "rollback-in-progress", "rolled-back"}

Manifest == [status : Status, files : [File -> FileRecord],
             dirs : SUBSET DirFile, swap : SwapRecord]

NoRecord == [recorded |-> FALSE, before |-> Absent, after |-> Unknown]
NoSwap   == [recorded |-> FALSE, existed |-> FALSE,
             wasActive |-> FALSE, oldNamed |-> FALSE]

(* Before begin, and right after it. *)
NoManifest    == [status |-> "none", files |-> [f \in File |-> NoRecord],
                  dirs |-> {}, swap |-> NoSwap]
EmptyManifest == [NoManifest EXCEPT !.status = "in-progress"]

(* record_before_write: the first record of a file is kept. *)
Recorded(m, f, content, newDir) ==
  IF m.files[f].recorded
  THEN m
  ELSE [m EXCEPT !.files[f] = [recorded |-> TRUE, before |-> content,
                               after |-> Unknown],
                 !.dirs = @ \cup newDir]

(* record_after_write: hashes what the path holds now, if anything. *)
Sealed(m, f, content) ==
  IF content = Absent THEN m ELSE [m EXCEPT !.files[f].after = content]

(* Wrong variants: a rollback that was interrupted is left alone; any      *)
(* backup may be rolled back, again and again.                             *)
CanRollBackOnce(m) == m.status \in Eligible
CanRollBackAny(m)  == m.status # "none"

(* cmd_rollback accepts an eligible status, or one left by a rollback that *)
(* did not finish (the caller holds the operation lock).                   *)
CanRollBack(m) == m.status \in Eligible \cup {"rollback-in-progress"}

-----------------------------------------------------------------------------
(* The plan: the actions that will run, out of all that could, in the      *)
(* order of build_plan: swap first, files in reverse write order, created  *)
(* directories, then what has to be regenerated.                           *)

Rank(a) ==
  CASE a = "restore-old-swap"   -> 1
    [] a = "remove-swap"        -> 2
    [] a = "grub"               -> 3
    [] a = "resume"             -> 4
    [] a = "fstab"              -> 5
    [] a = "rmdir-resume"       -> 6
    [] a = "rmdir-grub"         -> 7
    [] a = "rerun-grub"         -> 8
    [] a = "rerun-initramfs"    -> 9

SwapAction == {"restore-old-swap", "remove-swap"}
Rerun  == {"rerun-grub", "rerun-initramfs"}
DirAction == {"rmdir-resume", "rmdir-grub"}
Action == SwapAction \cup File \cup DirAction \cup Rerun

(* Wrong variants: only files that existed are handled; the content is not *)
(* compared.                                                               *)
FileWillRunExisting(r, current) ==
  r.recorded /\ r.before # Absent /\ current = r.after
FileWillRunUnhashed(r, current) ==
  r.recorded /\ r.after # Unknown /\ current # Absent

(* _file_action: both a restore and a removal run only on the content the  *)
(* operation left; a record without an after-hash is never acted upon.     *)
FileWillRun(r, current) ==
  r.recorded /\ r.after # Unknown /\ current # Absent /\ current = r.after

(* Wrong variants: only the key nobody writes is looked at; a swap file is *)
(* removed without the proof that the wizard made it.                      *)
SwapWillRunByMode(s, oldExists, pathExists) == {}
SwapWillRunUnproven(s, oldExists, pathExists) ==
  IF s.recorded /\ s.oldNamed /\ oldExists THEN {"restore-old-swap"}
  ELSE IF s.recorded /\ pathExists THEN {"remove-swap"} ELSE {}

(* _swap_actions: the manifest key it looks for ("rollback_mode") is not   *)
(* the one apply writes ("mode"), so only the two fallbacks ever decide.   *)
SwapWillRun(s, oldExists, pathExists) ==
  IF ~s.recorded THEN {}
  ELSE IF s.existed
       THEN IF s.oldNamed /\ oldExists THEN {"restore-old-swap"} ELSE {}
       ELSE IF pathExists THEN {"remove-swap"} ELSE {}

(* A directory the operation created goes only if it is empty now. *)
DirWillRun(m, disk, dirs) ==
  {a \in DirAction :
     LET f == IF a = "rmdir-grub" THEN "grub" ELSE "resume"
     IN  f \in m.dirs /\ f \in dirs /\ disk[f] = Absent}

(* Wrong variant: the initramfs is rebuilt for fstab. *)
PostWillRunFstab(files) == IF "fstab" \in files THEN Rerun ELSE {}

(* _post_actions: update-grub follows fstab (or /etc/default/grub, which   *)
(* apply never writes), not the GRUB fragment.                             *)
PostWillRun(files) ==
  (IF "fstab" \in files THEN {"rerun-grub"} ELSE {})
    \cup (IF "resume" \in files THEN {"rerun-initramfs"} ELSE {})

BuildPlan(m, disk, dirs, oldExists, pathExists) ==
  LET files == {f \in File : FileWillRun(m.files[f], disk[f])}
  IN  SwapWillRun(m.swap, oldExists, pathExists)
        \cup files
        \cup DirWillRun(m, disk, dirs)
        \cup PostWillRun(files)

First(todo) == CHOOSE a \in todo : \A b \in todo : Rank(a) <= Rank(b)
=============================================================================
