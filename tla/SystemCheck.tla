---------------------------- MODULE SystemCheck ----------------------------
(***************************************************************************)
(* From what the unprivileged wizard sees of the machine to what the       *)
(* helper, as root, accepts: detection (services/system_probe.py), the     *)
(* plan (services/hibernate_planner.py) and the validation of the target   *)
(* (backend/privileged_helper.py), while the machine may change between    *)
(* any two of them.  What the helper writes, and the commands that fail    *)
(* on the way, are module Helper's.                                        *)
(***************************************************************************)
EXTENDS SwapTargets, SequencesExt

CONSTANTS
  None,        \* Python's None
  Machines,    \* machines to start from
  Sizes,       \* sizes the user may set, besides those suggested
  Offsets,     \* where a new swap file may lie
  MaxChanges   \* changes of the machine by others

(* The resume setting of the kernel's command line or of the initramfs     *)
(* configuration: 0 for what is not set; ByPath for a device not named by  *)
(* its UUID.                                                               *)
Setting == [uuid : Nat, offset : Nat]

(* devs: the swaps there are; off: the paths of those not in use; root and *)
(* rootUuid: the filesystem /swap.img is on; real: the size of /swap.img,  *)
(* 0 if there is none; fstab: it has an entry; stack: GRUB,                *)
(* initramfs-tools and the kernel's support are there.                     *)
Machine == [devs : Seq(Device), off : SUBSET Paths, ram : Nat, free : Nat,
            root : {"ext4", "btrfs", "other"}, rootUuid : Nat \ {ByPath}, real : Nat,
            fstab : BOOLEAN, stack : BOOLEAN, cmd : Setting, init : Setting]

(* swapon names a swap once.  /swap.img is a file on the root filesystem,  *)
(* is never looked up as removable, and swapon leaves out its header page. *)
Sound(m) ==
  /\ \A i, j \in DOMAIN m.devs : m.devs[i].path = m.devs[j].path => i = j
  /\ \A i \in DOMAIN m.devs : m.devs[i].path = "/swap.img" =>
       /\ m.devs[i].kind = "file" /\ ~m.devs[i].removable
       /\ m.devs[i].fs = m.root /\ m.devs[i].size + 1 = m.real

ASSUME NoneAssumption    == None \notin [accepted : BOOLEAN, path : Paths \cup {""},
                                         uuid : Nat, offset : Nat]
ASSUME MachineAssumption == Machines \subseteq {m \in Machine : Sound(m)}
ASSUME ChoiceAssumption  == /\ Sizes \subseteq Nat /\ Offsets \subseteq Nat \ {0}
                            /\ MaxChanges \in Nat

VARIABLES
  machine,   \* the machine
  seen,      \* SystemProfile of the wizard's last detection
  plan,      \* ModificationPlan
  outcome,   \* what the helper made of it
  changes,   \* changes so far
  asOf       \* history: the machine at the last detection

vars == <<machine, seen, plan, outcome, changes, asOf>>

Plan == [kind : {"partition", "file", "request"}, path : Paths, uuid : Nat,
         offset : Nat, size : Nat, ok : BOOLEAN]

Init ==
  /\ machine \in Machines
  /\ seen = None /\ plan = None /\ outcome = None /\ changes = 0 /\ asOf = None

-----------------------------------------------------------------------------
(* Probing *)

(* _resume_config_tokens: a device named by its path has no UUID. *)
UuidOf(s) == IF s.uuid = ByPath THEN 0 ELSE s.uuid

(* _apply_existing_resume_offset_fallback: the offset of an unreadable     *)
(* file is taken from the resume settings in use, if they agree.           *)
Borrowed(d, m) ==
  LET uuids   == {UuidOf(m.cmd), UuidOf(m.init)} \ {0}
      offsets == {m.cmd.offset, m.init.offset} \ {0}
  IN  IF m.fstab /\ d.uuid # 0 /\ uuids = {d.uuid} /\ Cardinality(offsets) = 1
      THEN CHOOSE o \in offsets : TRUE
      ELSE 0

(* What the tools tell a caller.  Without root blkid answers from its      *)
(* cache, dmsetup says nothing and crypttab may be closed, which counts as *)
(* an empty one.  findmnt tells everybody the UUID that a file is on, and  *)
(* crypttab's entry is found by the UUID that the caller was told.         *)
Told(d, root) ==
  LET uuid == IF root \/ d.kind # "partition" THEN d.uuid ELSE d.cached
      open == root \/ ~d.closed
  IN  [d EXCEPT !.uuid = uuid, !.dm = IF root THEN @ ELSE "none",
                !.crypttab = IF open /\ d.named \in {0, uuid} THEN @ ELSE "no",
                !.badtab = open /\ @, !.readable = root \/ @]

(* _populate_swapfile_details: only the map of an ext4 file shows holes,   *)
(* and other filesystems have no map.                                      *)
Mapped(d, m) ==
  IF d.kind # "file" THEN d
  ELSE IF d.fs = "other" THEN [d EXCEPT !.offset = 0, !.sparse = FALSE]
  ELSE IF d.readable THEN [d EXCEPT !.sparse = @ /\ d.fs = "ext4" /\ d.offset # 0]
  ELSE [d EXCEPT !.offset = Borrowed(d, m), !.sparse = FALSE]

Probed(d, m, root) == Mapped(Told(d, root), m)

(* swapon --show; a swap keeps its place among those there are.            *)
Listed(m) == Restrict(m.devs, {i \in DOMAIN m.devs : m.devs[i].path \notin m.off})

(* profile_from_probe_data(probe_current_system()) *)
ProfileOf(m, root) ==
  LET devs == [i \in DOMAIN Listed(m) |-> Probed(Listed(m)[i], m, root)]
  IN  [devs |-> devs, status |-> Status(devs, m.ram), ram |-> m.ram, free |-> m.free,
       stack |-> m.stack, cmd |-> m.cmd, init |-> m.init]

-----------------------------------------------------------------------------
(* Planning *)

(* Wrong variant: having no resume setting yet counts as a conflict. *)
NoConflictIfSet(p, d) ==
  /\ UuidOf(p.cmd) \in {0, d.uuid}
  /\ p.init = [uuid |-> d.uuid, offset |-> IF d.kind = "file" THEN d.offset ELSE 0]

(* conflict_warnings is empty *)
NoConflict(p, d) ==
  LET expected == IF d.kind = "file" THEN d.offset ELSE 0
  IN  /\ UuidOf(p.cmd) \in {0, d.uuid}
      /\ p.cmd.offset \in {0, expected}
      /\ p.init \in {[uuid |-> 0, offset |-> 0], [uuid |-> d.uuid, offset |-> expected]}

(* build_modification_plan(...).can_apply *)
TargetOk(p, i) ==
  /\ p.stack /\ RecommendedOf(p.devs, p.ram) # 0
  /\ Selectable(p.status[i]) /\ NoConflict(p, p.devs[i])

(* The candidates of that path and kind *)
Matches(p, path, kind) ==
  {i \in DOMAIN p.devs : p.devs[i].path = path /\ p.devs[i].kind = kind}

(* existing_swapfile_size *)
Shown(p) ==
  LET files == Matches(p, "/swap.img", "file")
  IN  IF files = {} THEN 0 ELSE p.devs[CHOOSE i \in files : TRUE].size

(* build_swapfile_modification_plan(...).can_apply *)
FileOk(p, size) == p.stack /\ Fits(p.ram, p.free, Shown(p), size)

(* HelperSession.detect *)
Check ==
  /\ outcome = None
  /\ seen' = ProfileOf(machine, FALSE) /\ asOf' = machine /\ plan' = None
  /\ UNCHANGED <<machine, outcome, changes>>

(* HelperSession.build_plan for a target, which the pages let the user     *)
(* choose among those that can be selected ...                             *)
PlanTarget ==
  /\ seen # None /\ outcome = None
  /\ \E i \in DOMAIN seen.devs :
       LET d == seen.devs[i] IN
       /\ Selectable(seen.status[i])
       /\ plan' = [kind |-> d.kind, path |-> d.path, uuid |-> d.uuid,
                   offset |-> d.offset, size |-> d.size, ok |-> TargetOk(seen, i)]
  /\ UNCHANGED <<machine, seen, outcome, changes, asOf>>

(* ... and for a SwapFileRequest.  The page that asks for it cannot be     *)
(* built when the suggestions raise.                                       *)
PlanFile ==
  /\ seen # None /\ outcome = None /\ SuggestedSizes(seen.ram) # <<>>
  /\ \E s \in Sizes \cup ToSet(SuggestedSizes(seen.ram)) :
       /\ Accepts(s)
       /\ plan' = [kind |-> "request", path |-> "/swap.img", uuid |-> 0, offset |-> 0,
                   size |-> Snapped(s), ok |-> FileOk(seen, Snapped(s))]
  /\ UNCHANGED <<machine, seen, outcome, changes, asOf>>

-----------------------------------------------------------------------------
(* The helper *)

Refused     == [accepted |-> FALSE, path |-> "", uuid |-> 0, offset |-> 0]
Accepted(d) == [accepted |-> TRUE, path |-> d.path, uuid |-> d.uuid,
                offset |-> IF d.kind = "file" THEN d.offset ELSE 0]

(* Wrong variant: the target is taken as the wizard saw it. *)
Trusting(m, wanted) ==
  IF Matches(ProfileOf(m, TRUE), wanted.path, wanted.kind) # {}
  THEN Accepted(wanted) ELSE Refused

(* Wrong variant: only the recommended target is accepted. *)
RecommendedOnly(m, wanted) ==
  LET p == ProfileOf(m, TRUE)
      i == RecommendedOf(p.devs, p.ram)
  IN  IF i # 0 /\ p.devs[i].path = wanted.path THEN Accepted(p.devs[i]) ELSE Refused

(* _validate_target_live *)
Validated(m, wanted) ==
  LET p    == ProfileOf(m, TRUE)
      live == Matches(p, wanted.path, wanted.kind)
      i    == CHOOSE j \in live : TRUE
      d    == p.devs[i]
  IN  IF live # {} /\ TargetOk(p, i) /\ d.uuid = wanted.uuid
         /\ (d.kind = "file" => d.offset = wanted.offset)
      THEN Accepted(d) ELSE Refused

ValidateTarget ==
  /\ plan # None /\ outcome = None /\ plan.ok /\ plan.kind # "request"
  /\ outcome' = Validated(machine, plan)
  /\ UNCHANGED <<machine, seen, plan, changes, asOf>>

(* _select_live_swapfile_target *)
Selected(m) ==
  LET p     == ProfileOf(m, TRUE)
      files == Matches(p, "/swap.img", "file")
      i     == CHOOSE j \in files : TRUE
  IN  IF files # {} /\ TargetOk(p, i) THEN Accepted(p.devs[i]) ELSE Refused

(* _make_swap_file and swapon: swapon does not show the page that mkswap's  *)
(* header takes.  The old file stays beside the new one, which is on the   *)
(* same device.                                                            *)
WithNewFile(m, size, offset) ==
  LET old   == {i \in DOMAIN m.devs : m.devs[i].path = "/swap.img"}
      at    == IF old = {} THEN Len(m.devs) + 1 ELSE CHOOSE i \in old : TRUE
      fresh == [path |-> "/swap.img", kind |-> "file", active |-> TRUE,
                removable |-> FALSE, uuid |-> m.rootUuid, cached |-> 0, fs |-> m.root,
                crypttab |-> "no", named |-> 0, closed |-> FALSE, lsblk |-> FALSE,
                mapper |-> FALSE, dm |-> "none", badtab |-> FALSE, size |-> 0,
                offset |-> 0, sparse |-> FALSE, readable |-> FALSE]
      new   == [(IF old = {} THEN fresh ELSE m.devs[at])
                  EXCEPT !.size = size - 1, !.offset = offset, !.sparse = FALSE,
                         !.readable = FALSE]
  IN  [m EXCEPT !.devs = IF old = {} THEN Append(@, new) ELSE [@ EXCEPT ![at] = new],
                !.real = size, !.free = @ - size]

(* _ensure_managed_swap_file, then the choice of that file as the target *)
EnsureFile ==
  /\ plan # None /\ outcome = None /\ plan.ok /\ plan.kind = "request"
  /\ IF machine.root # "ext4" \/ ~PreflightPasses(machine.free, machine.real, plan.size)
     THEN outcome' = Refused /\ UNCHANGED machine
     ELSE \E o \in Offsets :
            LET m == IF machine.real = plan.size THEN machine
                     ELSE WithNewFile(machine, plan.size, o)
            IN  /\ machine' = [m EXCEPT !.fstab = TRUE, !.off = @ \ {"/swap.img"}]
                /\ outcome' = Selected(machine')
  /\ UNCHANGED <<seen, plan, changes, asOf>>

-----------------------------------------------------------------------------
(* Verification *)

(* Whether the text resume_offset=b contains resume_offset=a *)
Begins(a, b) == \E k \in 0..9 : b \div 10^k = a

(* Wrong variant: the offsets are not looked at. *)
ErrorsByUuid(d, m) ==
  {e \in {"uuid", "initramfs"} :
     \/ e = "uuid" /\ UuidOf(m.cmd) # d.uuid
     \/ e = "initramfs" /\ m.init.uuid # d.uuid}

(* system.verify: what does not fit the target.  The initramfs setting is  *)
(* searched for the expected texts, not parsed.                            *)
Errors(d, m) ==
  LET offset == IF d.kind = "file" THEN d.offset ELSE 0
      found  == IF d.kind = "file" THEN Begins(offset, m.init.offset) ELSE m.init.offset = 0
  IN  {e \in {"swap", "uuid", "offset", "initramfs"} :
         \/ e = "swap" /\ \A a \in ToSet(Listed(m)) : a.path # d.path
         \/ e = "uuid" /\ UuidOf(m.cmd) # d.uuid
         \/ e = "offset" /\ m.cmd.offset # offset
         \/ e = "initramfs" /\ ~(m.init.uuid = d.uuid /\ found)}

(* Wrong variant: the first swap is taken. *)
VerifiedFirst(m, root) ==
  LET p == ProfileOf(m, root)
      i == CHOOSE j \in DOMAIN p.devs : \A k \in DOMAIN p.devs : j <= k
  IN  DOMAIN p.devs # {} /\ Selectable(p.status[i]) /\ Errors(p.devs[i], m) = {}

(* verify_json: all_ok for the recommended target, which need not be the   *)
(* one that was configured.                                                *)
Verified(m, root) ==
  LET p == ProfileOf(m, root)
      i == RecommendedOf(p.devs, p.ram)
  IN  i # 0 /\ Errors(p.devs[i], m) = {}

-----------------------------------------------------------------------------
(* Others change the machine: the swap file is made again, a partition is  *)
(* formatted, a swap is no longer used, the disk fills up.                 *)
Change(m) ==
  /\ outcome = None /\ changes < MaxChanges /\ changes' = changes + 1
  /\ machine' = m
  /\ UNCHANGED <<seen, plan, outcome, asOf>>

Recreate ==
  \E i \in DOMAIN machine.devs, o \in Offsets :
    /\ machine.devs[i].kind = "file" /\ machine.devs[i].offset # o
    /\ Change([machine EXCEPT !.devs[i].offset = o])

Reformat ==
  \E i \in DOMAIN machine.devs :
    /\ machine.devs[i].kind = "partition" /\ machine.devs[i].uuid # 8
    /\ Change([machine EXCEPT !.devs[i].uuid = 8])

SwapOff ==
  \E d \in ToSet(machine.devs) :
    d.path \notin machine.off /\ Change([machine EXCEPT !.off = @ \cup {d.path}])

FillDisk == machine.free > 0 /\ Change([machine EXCEPT !.free = 0])

Next ==
  \/ Check \/ PlanTarget \/ PlanFile \/ ValidateTarget \/ EnsureFile
  \/ Recreate \/ Reformat \/ SwapOff \/ FillDisk

Spec == Init /\ [][Next]_vars
=============================================================================
