---------------------------- MODULE SwapTargets ----------------------------
(***************************************************************************)
(* What the probe's facts about a swap device come to: the evidence of     *)
(* encryption (services/encryption_detector.py), the class of a candidate  *)
(* (services/swap_detector.py), the recommendation, the sizes offered for  *)
(* the managed swap file and the room they need                            *)
(* (services/hibernate_planner.py).  Sizes are counted in pages.           *)
(***************************************************************************)
EXTENDS Naturals, Sequences, FiniteSets

CONSTANTS
  MiB, GiB,   \* in pages
  MaxGiB,     \* MAX_SWAPFILE_BYTES, in GiB (128 in the source)
  Paths       \* the names swaps go by

ASSUME UnitAssumption == /\ {MiB, GiB} \subseteq Nat \ {0} /\ GiB % MiB = 0
                         /\ MaxGiB \in Nat /\ MaxGiB >= 6
ASSUME PathAssumption == "/swap.img" \in Paths   \* MANAGED_SWAP_FILE

MinSwap == GiB
MaxSwap == MaxGiB * GiB
Reserve == GiB

(* A resume setting that names its device by path has no UUID.             *)
ByPath == 9

(* A row of swapon and what the other tools say of it.  uuid and offset 0  *)
(* stand for a missing one; readable: an unprivileged process can map the  *)
(* file; mapper: the device, or the one that holds the file, is under      *)
(* /dev/mapper; crypttab, lsblk and dm (the names dmsetup gives) are       *)
(* evidence of encryption; badtab: crypttab has a malformed line.          *)
(* cached: the UUID blkid has for a process that cannot open the device;   *)
(* named: the UUID, or PARTUUID, that crypttab's entry goes by, 0 for a    *)
(* path; closed: crypttab is closed to unprivileged processes.             *)
Device == [path : Paths, kind : {"partition", "file", "zram", "unknown"},
           size : Nat, active : BOOLEAN, removable : BOOLEAN, uuid : Nat \ {ByPath},
           cached : Nat \ {ByPath}, fs : {"ext4", "btrfs", "other"}, sparse : BOOLEAN,
           offset : Nat, readable : BOOLEAN,
           crypttab : {"no", "random", "keyed"}, named : Nat, closed : BOOLEAN,
           lsblk : BOOLEAN, mapper : BOOLEAN, dm : {"none", "others", "this"},
           badtab : BOOLEAN]

-----------------------------------------------------------------------------
(* Encryption: classify_encryption_for_swap *)

MapperCrypt(d) == d.kind = "partition" /\ d.mapper /\ d.dm = "this"

Encrypted(d) == d.crypttab # "no" \/ d.lsblk \/ MapperCrypt(d)

(* A mapper that nothing vouches for, or a crypttab that cannot be read.   *)
Ambiguous(d) ==
  /\ ~Encrypted(d) /\ d.mapper
  /\ d.badtab \/ (d.kind = "partition" /\ d.dm = "none")

Classification(d) ==
  IF Ambiguous(d) THEN "unknown_mapper_swap"
  ELSE IF d.crypttab = "random" THEN "encrypted_random_key_swap"
  ELSE IF Encrypted(d) THEN "encrypted_persistent_swap"
  ELSE "plain"

-----------------------------------------------------------------------------
(* Candidates: _classify_one, in its order *)

(* Wrong variant: a swap on a mapper that cannot be told is let through. *)
BarredButMapper(d) == Encrypted(d)

Barred(d) ==
  \/ Encrypted(d)
  \/ Classification(d) \in {"encrypted_random_key_swap", "encrypted_persistent_swap",
                            "unknown_mapper_swap"}

UsablePartition(d) == ~Barred(d) /\ d.uuid # 0

UsableFile(d) ==
  /\ ~Barred(d) /\ d.fs \in {"ext4", "btrfs"} /\ ~d.sparse
  /\ d.uuid # 0 /\ d.offset # 0

Class(d, ram) ==
  IF d.kind = "zram" THEN "blocked"
  ELSE IF ~d.active THEN "warning_option"
  ELSE IF d.removable THEN "blocked"
  ELSE IF d.size < ram THEN "warning_option"
  ELSE IF d.kind = "partition" /\ UsablePartition(d) THEN "valid_option"
  ELSE IF d.kind = "file" /\ UsableFile(d) THEN "valid_option"
  ELSE "blocked"

(* max(..., key=size_bytes): the first of the largest *)
Largest(devs, S) ==
  CHOOSE i \in S : \A j \in S : devs[j].size < devs[i].size
                                \/ (devs[j].size = devs[i].size /\ i <= j)

Valid(devs, ram, kind) ==
  {i \in DOMAIN devs : devs[i].kind = kind /\ Class(devs[i], ram) = "valid_option"}

(* Wrong variant: files are looked at first. *)
FileFirst(devs, ram) ==
  LET P == Valid(devs, ram, "partition")
      F == Valid(devs, ram, "file")
  IN  IF F # {} THEN Largest(devs, F) ELSE IF P # {} THEN Largest(devs, P) ELSE 0

(* _choose_recommended and SystemProfile.recommended_target; 0 is None. *)
RecommendedOf(devs, ram) ==
  LET P == Valid(devs, ram, "partition")
      F == Valid(devs, ram, "file")
  IN  IF P # {} THEN Largest(devs, P) ELSE IF F # {} THEN Largest(devs, F) ELSE 0

(* classify_swap_targets: the status of every candidate *)
Status(devs, ram) ==
  [i \in DOMAIN devs |-> IF i = RecommendedOf(devs, ram) THEN "recommended"
                         ELSE Class(devs[i], ram)]

Selectable(status) == status \in {"recommended", "valid_option"}

-----------------------------------------------------------------------------
(* Sizes of the managed swap file *)

(* int(round(x / GIB)): halves go to the even number *)
Rounded(x) ==
  LET q == x \div GiB
      r == 2 * (x % GiB)
  IN  IF r < GiB \/ (r = GiB /\ q % 2 = 0) THEN q ELSE q + 1

RamGiB(ram) == IF Rounded(ram) = 0 THEN 1 ELSE Rounded(ram)

(* validate_swapfile_request_size: what it lets through, snapped to MiB *)
Accepts(size) == MinSwap <= size /\ size <= MaxSwap
Snapped(size) == (size \div MiB) * MiB

(* suggested_swap_sizes; the empty sequence where it raises.  Two of the   *)
(* three are the same when the machine has 2 GiB.                          *)
SuggestedSizes(ram) ==
  LET r == RamGiB(ram) * GiB
  IN  IF \E s \in {r, r + 2 * GiB, 2 * r} : ~Accepts(s) THEN <<>>
      ELSE <<r, r + 2 * GiB, IF r = 2 * GiB THEN 3 * r ELSE 2 * r>>

(* swapfile_allocation_required_bytes: shown is the size swapon shows of   *)
(* the active file, 0 if there is none                                     *)
Allocation(shown, size) == IF shown = size /\ shown > 0 THEN 0 ELSE size

(* Wrong variant: the reserve is forgotten. *)
FitsWithoutReserve(ram, free, shown, size) ==
  size >= ram /\ free > 0 /\ free >= Allocation(shown, size)

(* swapfile_free_space_problem is None *)
Fits(ram, free, shown, size) ==
  /\ size >= ram /\ free > 0
  /\ Allocation(shown, size) > 0 => free >= Allocation(shown, size) + Reserve

(* Wrong variant: only what the file grows by is asked for. *)
PreflightByDelta(free, real, size) == real # size => free + real >= size + Reserve

(* _preflight_swapfile_free_space; real is the file's own size, 0 for none *)
PreflightPasses(free, real, size) == real # size => free >= size + Reserve
=============================================================================
