----------------------- MODULE SystemCheckProperties -----------------------
(* What detection, planning and the helper's validation promise together.  *)
EXTENDS SystemCheck

(* The variables hold what the code's objects hold. *)
TypeOK ==
  /\ machine \in Machine
  /\ seen # None => /\ asOf \in Machine
                    /\ seen.devs \in [DOMAIN seen.devs -> Device]
                    /\ seen.status \in [DOMAIN seen.devs ->
                         {"recommended", "valid_option", "warning_option", "blocked"}]
  /\ plan # None => plan \in Plan
  /\ outcome # None => DOMAIN outcome = {"accepted", "path", "uuid", "offset"}
  /\ changes \in 0..MaxChanges

-----------------------------------------------------------------------------
(* The decision table of spec/ubuntu_hibernate_wizard_task.md section 25.5 *)
(* as the code's detector means it: what the facts must be for a target to *)
(* be offered, independently of the order in which they are looked at.     *)

NoEncryption(d) ==
  /\ d.crypttab = "no" /\ ~d.lsblk
  /\ d.mapper => ~d.badtab /\ (d.kind = "partition" => d.dm = "others")

OffsetKnown(d, m) ==
  IF d.readable THEN d.offset # 0 /\ (d.fs = "ext4" => ~d.sparse)
  ELSE /\ m.fstab
       /\ \E o \in {m.cmd.offset, m.init.offset} \ {0} :
            {m.cmd.offset, m.init.offset} \subseteq {0, o}
       /\ d.uuid \in {m.cmd.uuid, m.init.uuid}
       /\ {m.cmd.uuid, m.init.uuid} \subseteq {0, ByPath, d.uuid}

Safe(d, m) ==
  /\ d.kind \in {"partition", "file"} /\ d.active /\ ~d.removable
  /\ d.size >= m.ram /\ d.uuid # 0 /\ NoEncryption(d)
  /\ d.kind = "file" => d.fs \in {"ext4", "btrfs"} /\ OffsetKnown(d, m)

(* A swap is offered exactly when what the tools told the wizard met every *)
(* condition of the table: no order of the tests and no fact that is       *)
(* missing lets an unsafe target through or keeps a safe one back          *)
(* (services/swap_detector.py:81-157).                                     *)
DecisionTable ==
  seen # None =>
    LET devs == Listed(asOf)
    IN  \A i \in DOMAIN devs : Selectable(seen.status[i]) <=> Safe(Told(devs[i], FALSE), asOf)

(* Exactly one of the swaps that are offered is recommended: a partition   *)
(* if there is one, and none of its kind is larger                         *)
(* (services/swap_detector.py:160-169).                                    *)
OneRecommended ==
  seen # None =>
    LET offered == {i \in DOMAIN seen.devs : Selectable(seen.status[i])}
        best    == {i \in offered : seen.status[i] = "recommended"}
    IN  /\ offered # {} <=> Cardinality(best) = 1
        /\ \A i \in best, j \in offered :
             LET d == seen.devs[i]
                 e == seen.devs[j]
             IN  \/ d.kind = e.kind /\ d.size >= e.size
                 \/ d.kind = "partition" /\ e.kind = "file"

-----------------------------------------------------------------------------
(* What the helper goes on to write names the swap of the plan, which at   *)
(* this moment is in use, safe and large enough, with the UUID and offset  *)
(* it really has, whatever the wizard saw, borrowed or planned before the  *)
(* machine changed (backend/privileged_helper.py:740-757, 933-945).        *)
WrittenIsLive ==
  (outcome # None /\ outcome.accepted) =>
    /\ outcome.path = plan.path
    /\ \E d \in ToSet(machine.devs) :
         /\ d.path = outcome.path /\ d.path \notin machine.off
         /\ Safe(Told(d, TRUE), machine)
         /\ outcome.uuid = d.uuid
         /\ outcome.offset = IF d.kind = "file" THEN d.offset ELSE 0

(* A target plan that can be applied is accepted when nothing has changed  *)
(* since the check, unless the user was told less than root, in one of     *)
(* three ways: the offset was borrowed, or holes not seen, of a file only  *)
(* root can read; blkid had an old UUID of the partition; crypttab is      *)
(* closed and has something to say of the swap                             *)
(* (services/system_probe.py:127-188, 340-398).                            *)
RefusedForAReason ==
  (/\ outcome # None /\ ~outcome.accepted /\ plan.kind # "request" /\ machine = asOf) =>
    \E d \in ToSet(machine.devs) :
      /\ d.path = plan.path /\ d.kind = plan.kind
      /\ \/ /\ d.kind = "file" /\ ~d.readable
            /\ (d.sparse /\ d.fs = "ext4") \/ d.offset # plan.offset
         \/ d.kind = "partition" /\ d.cached # d.uuid
         \/ d.closed /\ ~NoEncryption(Told(d, TRUE))

(* A swap file that the plan finds room for also passes the helper's own   *)
(* check when nothing has changed, though the one goes by the size swapon  *)
(* shows and the other by the size of the file.  Only a file that is just  *)
(* its header page too long divides them: the plan takes it for one of     *)
(* that size (services/hibernate_planner.py:133-164,                       *)
(* backend/privileged_helper.py:829-846).                                  *)
PlannedFileFits ==
  (/\ plan # None /\ plan.ok /\ plan.kind = "request" /\ outcome = None
   /\ machine = asOf) =>
    \/ PreflightPasses(machine.free, machine.real, plan.size)
    \/ machine.real = plan.size + 1

(* The new swap file of an applicable plan is refused only when the header *)
(* page leaves less than RAM, when a resume setting in use names another   *)
(* place, when its device is in doubt, when the filesystem is not ext4,    *)
(* when the file of that size that is there is not a swap or when one that *)
(* is longer by its header page leaves no room                             *)
(* (backend/privileged_helper.py:870-945).                                 *)
NewFileRefused ==
  [][(/\ plan # None /\ plan.kind = "request" /\ outcome = None /\ outcome' = Refused
      /\ machine = asOf) =>
       \/ machine.root # "ext4"
       \/ machine.real = plan.size + 1 /\ machine.free < plan.size + Reserve
       \/ machine.real = plan.size /\ \A d \in ToSet(machine.devs) : d.path # "/swap.img"
       \/ \E d \in ToSet(machine'.devs) :
            /\ d.path = "/swap.img"
            /\ \/ d.size < machine.ram \/ ~NoEncryption(Told(d, TRUE)) \/ ~d.active \/ d.uuid = 0
               \/ machine.real = plan.size /\ (d.offset = 0 \/ d.sparse)
               \/ ~({machine.cmd.uuid} \subseteq {0, ByPath, d.uuid})
               \/ ~({machine.cmd.offset} \subseteq {0, d.offset})
               \/ machine.init \notin {[uuid |-> 0, offset |-> 0],
                                       [uuid |-> d.uuid, offset |-> d.offset]}]_vars

-----------------------------------------------------------------------------
(* all_ok is never said of a machine that would not resume: the running    *)
(* kernel looks for the image in a swap that is in use and safe, and the   *)
(* initramfs is set to the same, up to digits that follow the offset.  For *)
(* the user this goes as far as what the tools tell: the offset of a file  *)
(* the user cannot read may be borrowed from the very settings that are    *)
(* checked, a partition may have another UUID than blkid's cache has, and  *)
(* a closed crypttab may name the swap (cli.py:19-76,                      *)
(* core/system.py:50-89).                                                  *)
VerifiedResumes ==
  \A root \in BOOLEAN : Verified(machine, root) =>
    \E d \in ToSet(Listed(machine)) :
      /\ Safe(Told(d, root), machine)
      /\ {machine.cmd.uuid, machine.init.uuid} = {Told(d, root).uuid}
      /\ d.kind = "partition" => machine.cmd.offset = 0 /\ machine.init.offset = 0
      /\ d.kind = "file" => /\ root \/ d.readable => machine.cmd.offset = d.offset
                           /\ Begins(machine.cmd.offset, machine.init.offset)
      /\ root \/ (~d.closed /\ (d.kind = "file" \/ d.cached = d.uuid)) =>
           NoEncryption(Told(d, TRUE)) /\ Told(d, root).uuid = d.uuid

(* The machine after a reboot with these resume settings.  blkid's cache   *)
(* is on /run: it has no UUID until root runs blkid (known), then the      *)
(* right one.                                                              *)
Rebooted(m, set, known) ==
  [m EXCEPT !.cmd = set, !.init = set,
            !.devs = [i \in DOMAIN m.devs |->
                        [m.devs[i] EXCEPT !.cached = IF known THEN m.devs[i].uuid ELSE 0]]]

(* What the helper accepted verifies after the reboot if nothing else has  *)
(* changed, unless another swap is recommended than the one configured:    *)
(* for root, and for the user of a swap file, but of a partition only when *)
(* blkid's cache knows it (cli.py:33, 43-52,                               *)
(* services/system_probe.py:130-133, 385).                                 *)
AcceptedVerifies ==
  (outcome # None /\ outcome.accepted) =>
    \A root, known \in BOOLEAN :
      LET m == Rebooted(machine, [uuid |-> outcome.uuid, offset |-> outcome.offset], known)
          p == ProfileOf(m, root)
          i == RecommendedOf(p.devs, p.ram)
      IN  (root \/ known \/ plan.kind # "partition") =>
            Verified(m, root) \/ (i # 0 /\ p.devs[i].path # outcome.path)
=============================================================================
