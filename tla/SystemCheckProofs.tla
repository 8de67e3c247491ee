------------------------- MODULE SystemCheckProofs -------------------------
(***************************************************************************)
(* Proofs about detection, planning and the helper's validation, for every *)
(* set of machines, sizes and offsets and any number of changes.           *)
(*                                                                         *)
(* Everything goes back to two facts about one probe: the recommended swap *)
(* is one of the valid ones, and the detector calls a swap valid exactly   *)
(* when the facts it could gather make it safe.  What relates the plan to  *)
(* what the helper finds needs more: the plan was made for a swap of the   *)
(* machine at the last check (TracedPlan), others change neither which     *)
(* swaps there are nor their kind (KinInv), and what the user cannot know  *)
(* of a swap is nothing the acceptance rests on: a file only root can read *)
(* is accepted only where fstab names it, a partition only off the mapper  *)
(* (ListedInv).                                                            *)
(***************************************************************************)
EXTENDS SystemCheckProperties, FiniteSetTheorems, WellFoundedInduction, TLAPS

-----------------------------------------------------------------------------
(* The first of the largest *)

(* i is at least as large as j, and comes first among equals.              *)
Beats(devs, i, j) ==
  \/ devs[j].size < devs[i].size
  \/ devs[j].size = devs[i].size /\ i <= j

(* A finite set of swaps has a first largest.  A smallest set without one  *)
(* would have one without any of its members, and then that or the member. *)
LEMMA LargestExists ==
  ASSUME NEW devs, NEW S \in SUBSET Nat, IsFiniteSet(S), S # {},
         \A i \in S : devs[i].size \in Nat
  PROVE  \E i \in S : \A j \in S : Beats(devs, i, j)
<1> DEFINE Without == {U \in SUBSET S : U # {} /\ ~ \E i \in U : \A j \in U : Beats(devs, i, j)}
<1>1. SUFFICES ASSUME Without # {} PROVE FALSE
  OBVIOUS
<1>2. Without \subseteq FiniteSubsetsOf(S)
  BY FS_FiniteSubsetsOfFinite
<1>3. PICK U \in Without : \A V \in Without : ~(<<V, U>> \in StrictSubsetOrdering(S))
  <2> HIDE DEF Without
  <2> QED BY <1>1, <1>2, FS_StrictSubsetOrderingWellFounded, WFMin
<1>4. PICK x : x \in U
  OBVIOUS
<1>5. U \ {x} \notin Without
  BY <1>3, <1>4 DEF StrictSubsetOrdering
<1>6. CASE U \ {x} = {}
  BY <1>3, <1>4, <1>6 DEF Beats
<1>7. CASE U \ {x} # {}
  <2>1. PICK m \in U \ {x} : \A j \in U \ {x} : Beats(devs, m, j)
    BY <1>5, <1>7
  <2>2. \A j \in U : devs[j].size \in Nat /\ j \in Nat
    OBVIOUS
  <2>3. CASE Beats(devs, m, x)
    BY <1>3, <2>1, <2>3
  <2>4. CASE ~Beats(devs, m, x)
    <3>1. \A j \in U : Beats(devs, x, j)
      BY <1>4, <2>1, <2>2, <2>4 DEF Beats
    <3> QED BY <1>3, <1>4, <3>1
  <2> QED BY <2>3, <2>4
<1> QED BY <1>6, <1>7

LEMMA LargestFound ==
  ASSUME NEW devs, NEW S \in SUBSET Nat, IsFiniteSet(S), S # {},
         \A i \in S : devs[i].size \in Nat
  PROVE  Largest(devs, S) \in S /\ \A j \in S : Beats(devs, Largest(devs, S), j)
BY LargestExists DEF Largest, Beats

-----------------------------------------------------------------------------
(* Classes and the recommendation *)

(* Swaps as a probe lists them: some of the positions, each with facts.    *)
Swaps(devs) ==
  /\ DOMAIN devs \subseteq Nat \ {0} /\ IsFiniteSet(DOMAIN devs)
  /\ devs \in [DOMAIN devs -> Device]

(* What the recommendation is, and that it is the best of its kind.        *)
LEMMA RecommendedFacts ==
  ASSUME NEW devs, Swaps(devs), NEW ram \in Nat
  PROVE  LET i == RecommendedOf(devs, ram)
             P == Valid(devs, ram, "partition")
             F == Valid(devs, ram, "file")
         IN  \/ i = 0 /\ P = {} /\ F = {}
             \/ i \in P /\ \A j \in P : devs[j].size <= devs[i].size
             \/ i \in F /\ P = {} /\ \A j \in F : devs[j].size <= devs[i].size
<1> DEFINE P == Valid(devs, ram, "partition")
           F == Valid(devs, ram, "file")
<1>1. ASSUME NEW S \in SUBSET DOMAIN devs, S # {}
      PROVE  Largest(devs, S) \in S /\ \A j \in S : devs[j].size <= devs[Largest(devs, S)].size
  <2>1. S \in SUBSET Nat /\ IsFiniteSet(S) BY <1>1, FS_Subset DEF Swaps
  <2>2. \A i \in S : devs[i].size \in Nat BY <1>1 DEF Swaps, Device
  <2>3. Largest(devs, S) \in S /\ \A j \in S : Beats(devs, Largest(devs, S), j)
    BY <1>1, <2>1, <2>2, LargestFound
  <2> QED BY <2>2, <2>3 DEF Beats
<1>2. P \in SUBSET DOMAIN devs /\ F \in SUBSET DOMAIN devs BY DEF Valid
<1>3. RecommendedOf(devs, ram) = IF P # {} THEN Largest(devs, P)
                                 ELSE IF F # {} THEN Largest(devs, F) ELSE 0
  BY DEF RecommendedOf
<1> HIDE DEF P, F
<1>4. CASE P # {} BY <1>1, <1>2, <1>3, <1>4 DEF P, F
<1>5. CASE P = {} /\ F # {} BY <1>1, <1>2, <1>3, <1>5 DEF P, F
<1>6. CASE P = {} /\ F = {} BY <1>3, <1>6 DEF P, F
<1> QED BY <1>4, <1>5, <1>6

(* Only swaps the detector calls valid can be selected, the recommended    *)
(* one among them.                                                         *)
LEMMA SelectableIsValid ==
  ASSUME NEW devs, Swaps(devs), NEW ram \in Nat, NEW i \in DOMAIN devs
  PROVE  /\ Selectable(Status(devs, ram)[i]) <=> Class(devs[i], ram) = "valid_option"
         /\ Status(devs, ram)[i] \in {"recommended", "valid_option", "warning_option", "blocked"}
         /\ Status(devs, ram)[i] = "recommended" <=> i = RecommendedOf(devs, ram)
<1>1. Status(devs, ram)[i] = IF i = RecommendedOf(devs, ram) THEN "recommended"
                             ELSE Class(devs[i], ram)
  BY DEF Status
<1>2. Class(devs[i], ram) \in {"valid_option", "warning_option", "blocked"}
  BY DEF Class
<1>3. i = RecommendedOf(devs, ram) => Class(devs[i], ram) = "valid_option"
  BY RecommendedFacts DEF Swaps, Valid
<1> QED BY <1>1, <1>2, <1>3 DEF Selectable

(* The detector finds no encryption exactly when there is no evidence.     *)
LEMMA BarredIsEncrypted ==
  ASSUME NEW d \in Device PROVE Barred(d) <=> ~NoEncryption(d)
<1>1. d.crypttab \in {"no", "random", "keyed"} /\ d.dm \in {"none", "others", "this"}
  BY DEF Device
<1> QED BY <1>1 DEF Barred, Classification, Encrypted, Ambiguous, MapperCrypt, NoEncryption

(* The tests of _classify_one, whatever their order, are a conjunction.    *)
LEMMA ValidClass ==
  ASSUME NEW d \in Device, NEW ram \in Nat
  PROVE  Class(d, ram) = "valid_option" <=>
           /\ d.kind \in {"partition", "file"} /\ d.active /\ ~d.removable
           /\ d.size >= ram /\ d.uuid # 0 /\ NoEncryption(d)
           /\ d.kind = "file" => d.fs \in {"ext4", "btrfs"} /\ ~d.sparse /\ d.offset # 0
<1>1. d.size \in Nat /\ d.kind \in {"partition", "file", "zram", "unknown"}
  BY DEF Device
<1> QED BY <1>1, BarredIsEncrypted DEF Class, UsablePartition, UsableFile

-----------------------------------------------------------------------------
(* One probe *)

(* The swaps in use are those of the machine, at their own places.         *)
LEMMA ListedFacts ==
  ASSUME NEW m \in Machine
  PROVE  /\ DOMAIN Listed(m) \subseteq Nat \ {0} /\ IsFiniteSet(DOMAIN Listed(m))
         /\ \A i \in DOMAIN Listed(m) : /\ Listed(m)[i] = m.devs[i] /\ i \in DOMAIN m.devs
                                       /\ m.devs[i] \in Device /\ m.devs[i].path \notin m.off
<1>1. m.devs \in Seq(Device) BY DEF Machine
<1>2. DOMAIN m.devs = 1..Len(m.devs) /\ Len(m.devs) \in Nat BY <1>1
<1>3. IsFiniteSet(DOMAIN m.devs) BY <1>2, FS_Interval
<1>4. DOMAIN Listed(m) = {i \in DOMAIN m.devs : m.devs[i].path \notin m.off}
  BY DEF Listed, Restrict
<1>5. \A i \in DOMAIN Listed(m) : Listed(m)[i] = m.devs[i]
  BY DEF Listed, Restrict
<1>6. IsFiniteSet(DOMAIN Listed(m)) BY <1>3, <1>4, FS_Subset
<1>7. \A i \in DOMAIN m.devs : m.devs[i] \in Device BY <1>1
<1> QED BY <1>2, <1>4, <1>5, <1>6, <1>7

(* What is borrowed is the only offset the settings name, when they name   *)
(* the device and no other.                                                *)
LEMMA BorrowedFacts ==
  ASSUME NEW d \in Device, NEW m \in Machine
  PROVE  /\ Borrowed(d, m) \in {0, m.cmd.offset, m.init.offset} /\ Borrowed(d, m) \in Nat
         /\ d.uuid # 0 =>
              (Borrowed(d, m) # 0 <=>
                 /\ m.fstab
                 /\ \E o \in {m.cmd.offset, m.init.offset} \ {0} :
                      {m.cmd.offset, m.init.offset} \subseteq {0, o}
                 /\ d.uuid \in {m.cmd.uuid, m.init.uuid}
                 /\ {m.cmd.uuid, m.init.uuid} \subseteq {0, ByPath, d.uuid})
<1> DEFINE uuids   == {UuidOf(m.cmd), UuidOf(m.init)} \ {0}
           offsets == {m.cmd.offset, m.init.offset} \ {0}
<1>1. /\ m.cmd.offset \in Nat /\ m.init.offset \in Nat
      /\ m.cmd.uuid \in Nat /\ m.init.uuid \in Nat
      /\ d.uuid \in Nat \ {ByPath} /\ ByPath \in Nat \ {0}
  BY DEF Machine, Setting, Device, ByPath
<1>2. Cardinality(offsets) = 1 <=> \E o : offsets = {o}
  <2>1. \A o : Cardinality({o}) = 1 BY FS_Singleton
  <2>2. IsFiniteSet({m.cmd.offset, m.init.offset})
    <3>1. IsFiniteSet({m.cmd.offset}) BY FS_Singleton
    <3> QED BY <3>1, FS_AddElement
  <2>3. IsFiniteSet(offsets) BY <2>2, FS_Subset
  <2>4. Cardinality(offsets) = 1 => \E o : offsets = {o} BY <2>3, FS_Singleton
  <2> QED BY <2>1, <2>4
<1>3. d.uuid # 0 => (uuids = {d.uuid} <=>
        d.uuid \in {m.cmd.uuid, m.init.uuid} /\ {m.cmd.uuid, m.init.uuid} \subseteq {0, ByPath, d.uuid})
  BY <1>1 DEF UuidOf
<1>4. Borrowed(d, m) = IF m.fstab /\ d.uuid # 0 /\ uuids = {d.uuid} /\ Cardinality(offsets) = 1
                       THEN CHOOSE o \in offsets : TRUE ELSE 0
  BY DEF Borrowed
<1>5. ASSUME Cardinality(offsets) = 1
      PROVE  (CHOOSE o \in offsets : TRUE) \in offsets
  BY <1>2, <1>5
<1>6. offsets \subseteq Nat \ {0} BY <1>1
<1>7. (\E o : offsets = {o}) <=>
        \E o \in {m.cmd.offset, m.init.offset} \ {0} : {m.cmd.offset, m.init.offset} \subseteq {0, o}
  OBVIOUS
<1> DEFINE One == \E o \in {m.cmd.offset, m.init.offset} \ {0} :
                     {m.cmd.offset, m.init.offset} \subseteq {0, o}
           Named == /\ d.uuid \in {m.cmd.uuid, m.init.uuid}
                    /\ {m.cmd.uuid, m.init.uuid} \subseteq {0, ByPath, d.uuid}
<1>8. Cardinality(offsets) = 1 <=> One BY <1>2, <1>7
<1>9. d.uuid # 0 => (uuids = {d.uuid} <=> Named) BY <1>3
<1>10. Cardinality(offsets) = 1 => (CHOOSE o \in offsets : TRUE) \in Nat \ {0} BY <1>5, <1>6
<1>11. /\ Borrowed(d, m) \in {0} \cup offsets /\ Borrowed(d, m) \in Nat
       /\ d.uuid # 0 => (Borrowed(d, m) # 0 <=> m.fstab /\ One /\ Named)
  <2> HIDE DEF uuids, offsets, One, Named
  <2> QED BY <1>4, <1>5, <1>8, <1>9, <1>10
<1> QED BY <1>11

(* What a caller is told of a swap: its UUID and the evidence of           *)
(* encryption depend on the caller, and nothing else does.                 *)
LEMMA ToldFacts ==
  ASSUME NEW d \in Device, NEW root \in BOOLEAN
  PROVE  LET t == Told(d, root)
             u == IF root \/ d.kind # "partition" THEN d.uuid ELSE d.cached
         IN  /\ t \in Device
             /\ t.path = d.path /\ t.kind = d.kind /\ t.size = d.size /\ t.active = d.active
             /\ t.removable = d.removable /\ t.fs = d.fs /\ t.sparse = d.sparse
             /\ t.offset = d.offset /\ t.lsblk = d.lsblk /\ t.mapper = d.mapper
             /\ t.uuid = u /\ (t.readable <=> root \/ d.readable)
             /\ t.dm = IF root THEN d.dm ELSE "none"
             /\ t.crypttab = IF (root \/ ~d.closed) /\ d.named \in {0, u} THEN d.crypttab
                             ELSE "no"
             /\ t.badtab <=> (root \/ ~d.closed) /\ d.badtab
<1> DEFINE u    == IF root \/ d.kind # "partition" THEN d.uuid ELSE d.cached
           open == root \/ ~d.closed
           tab  == IF open /\ d.named \in {0, u} THEN d.crypttab ELSE "no"
           dm   == IF root THEN d.dm ELSE "none"
           bad  == open /\ d.badtab
           read == root \/ d.readable
           t    == [d EXCEPT !.uuid = u, !.dm = dm, !.crypttab = tab, !.badtab = bad,
                             !.readable = read]
<1>1. Told(d, root) = t BY DEF Told, Device
<1>2. /\ u \in Nat \ {ByPath} /\ tab \in {"no", "random", "keyed"}
      /\ dm \in {"none", "others", "this"}
      /\ bad \in BOOLEAN /\ read \in BOOLEAN
  BY DEF Device
<1> HIDE DEF u, tab, dm, bad, read
<1>3. t \in Device BY <1>2 DEF Device
<1>4. /\ t.path = d.path /\ t.kind = d.kind /\ t.size = d.size /\ t.active = d.active
      /\ t.removable = d.removable /\ t.fs = d.fs /\ t.sparse = d.sparse
      /\ t.offset = d.offset /\ t.lsblk = d.lsblk /\ t.mapper = d.mapper
  BY DEF Device
<1>5. t.uuid = u /\ t.readable = read /\ t.dm = dm /\ t.crypttab = tab /\ t.badtab = bad
  BY DEF Device
<1> HIDE DEF t
<1> QED BY <1>1, <1>3, <1>4, <1>5 DEF u, tab, dm, bad, read

(* The map of a swap file gives its offset and its holes, nothing else.    *)
LEMMA MappedFacts ==
  ASSUME NEW d \in Device, NEW m \in Machine
  PROVE  LET e == Mapped(d, m)
         IN  /\ e \in Device
             /\ e.path = d.path /\ e.kind = d.kind /\ e.size = d.size /\ e.active = d.active
             /\ e.removable = d.removable /\ e.uuid = d.uuid /\ e.fs = d.fs
             /\ NoEncryption(e) <=> NoEncryption(d)
             /\ d.kind = "file" /\ d.fs # "other" =>
                  IF d.readable
                  THEN e.offset = d.offset /\ e.sparse = (d.sparse /\ d.fs = "ext4" /\ d.offset # 0)
                  ELSE e.offset = Borrowed(d, m) /\ ~e.sparse
<1>1. Borrowed(d, m) \in Nat BY BorrowedFacts
<1>2. CASE d.kind # "file"
  BY <1>2 DEF Mapped
<1>3. CASE d.kind = "file" /\ d.fs = "other"
  BY <1>3 DEF Mapped, Device, NoEncryption
<1>4. CASE d.kind = "file" /\ d.fs # "other" /\ d.readable
  BY <1>4 DEF Mapped, Device, NoEncryption
<1>5. CASE d.kind = "file" /\ d.fs # "other" /\ ~d.readable
  BY <1>1, <1>5 DEF Mapped, Device, NoEncryption
<1> QED BY <1>2, <1>3, <1>4, <1>5

(* A probe changes what the caller is not told, and the offset and the     *)
(* holes of a swap file.                                                   *)
LEMMA ProbedFacts ==
  ASSUME NEW d \in Device, NEW m \in Machine, NEW root \in BOOLEAN
  PROVE  LET e == Probed(d, m, root)
         IN  /\ e \in Device
             /\ e.path = d.path /\ e.kind = d.kind /\ e.size = d.size /\ e.active = d.active
             /\ e.removable = d.removable /\ e.fs = d.fs
             /\ e.uuid = IF root \/ d.kind # "partition" THEN d.uuid ELSE d.cached
             /\ d.kind = "file" /\ d.fs # "other" =>
                  IF root \/ d.readable
                  THEN e.offset = d.offset /\ e.sparse = (d.sparse /\ d.fs = "ext4" /\ d.offset # 0)
                  ELSE e.offset = Borrowed(d, m) /\ ~e.sparse
<1> DEFINE t == Told(d, root)
<1>1. /\ t \in Device
      /\ t.path = d.path /\ t.kind = d.kind /\ t.size = d.size /\ t.active = d.active
      /\ t.removable = d.removable /\ t.fs = d.fs /\ t.sparse = d.sparse /\ t.offset = d.offset
      /\ t.uuid = IF root \/ d.kind # "partition" THEN d.uuid ELSE d.cached
      /\ (t.readable <=> root \/ d.readable)
  BY ToldFacts
<1>2. Probed(d, m, root) = Mapped(t, m) BY DEF Probed
<1> HIDE DEF t
<1>3. ASSUME d.kind = "file" PROVE Borrowed(t, m) = Borrowed(d, m)
  <2> DEFINE uuids   == {UuidOf(m.cmd), UuidOf(m.init)} \ {0}
             offsets == {m.cmd.offset, m.init.offset} \ {0}
             From(u) == IF m.fstab /\ u # 0 /\ uuids = {u} /\ Cardinality(offsets) = 1
                        THEN CHOOSE o \in offsets : TRUE ELSE 0
  <2>1. t.uuid = d.uuid BY <1>1, <1>3
  <2>2. Borrowed(t, m) = From(t.uuid) BY Zenon DEF Borrowed
  <2>3. Borrowed(d, m) = From(d.uuid) BY Zenon DEF Borrowed
  <2> HIDE DEF From
  <2> QED BY <2>1, <2>2, <2>3
<1>4. LET e == Mapped(t, m)
      IN  /\ e \in Device
          /\ e.path = t.path /\ e.kind = t.kind /\ e.size = t.size /\ e.active = t.active
          /\ e.removable = t.removable /\ e.uuid = t.uuid /\ e.fs = t.fs
          /\ t.kind = "file" /\ t.fs # "other" =>
               IF t.readable
               THEN e.offset = t.offset /\ e.sparse = (t.sparse /\ t.fs = "ext4" /\ t.offset # 0)
               ELSE e.offset = Borrowed(t, m) /\ ~e.sparse
  BY <1>1, MappedFacts
<1>5. t.readable <=> root \/ d.readable BY <1>1
<1> QED BY <1>1, <1>2, <1>3, <1>4, <1>5

(* The detector calls a swap valid exactly when what the caller was told   *)
(* of it is safe.                                                          *)
LEMMA ProbedSafe ==
  ASSUME NEW d \in Device, NEW m \in Machine, NEW root \in BOOLEAN
  PROVE  Class(Probed(d, m, root), m.ram) = "valid_option" <=> Safe(Told(d, root), m)
<1> DEFINE e == Probed(d, m, root)
           t == Told(d, root)
<1>1. m.ram \in Nat BY DEF Machine
<1>2. t \in Device /\ e = Mapped(t, m) BY ToldFacts DEF Probed
<1> HIDE DEF e, t
<1>3. /\ e \in Device
      /\ e.path = t.path /\ e.kind = t.kind /\ e.size = t.size /\ e.active = t.active
      /\ e.removable = t.removable /\ e.uuid = t.uuid /\ e.fs = t.fs
      /\ NoEncryption(e) <=> NoEncryption(t)
      /\ t.kind = "file" /\ t.fs # "other" =>
           IF t.readable
           THEN e.offset = t.offset /\ e.sparse = (t.sparse /\ t.fs = "ext4" /\ t.offset # 0)
           ELSE e.offset = Borrowed(t, m) /\ ~e.sparse
  BY <1>2, MappedFacts
<1>4. t.uuid # 0 => (Borrowed(t, m) # 0 <=>
                 /\ m.fstab
                 /\ \E o \in {m.cmd.offset, m.init.offset} \ {0} :
                      {m.cmd.offset, m.init.offset} \subseteq {0, o}
                 /\ t.uuid \in {m.cmd.uuid, m.init.uuid}
                 /\ {m.cmd.uuid, m.init.uuid} \subseteq {0, ByPath, t.uuid})
  BY <1>2, BorrowedFacts
<1>5. ASSUME t.kind = "file", t.fs \in {"ext4", "btrfs"}, t.uuid # 0
      PROVE  (~e.sparse /\ e.offset # 0) <=> OffsetKnown(t, m)
  <2>1. CASE t.readable BY <1>3, <1>5, <2>1 DEF OffsetKnown
  <2>2. CASE ~t.readable BY <1>3, <1>4, <1>5, <2>2 DEF OffsetKnown
  <2> QED BY <2>1, <2>2
<1>6. Class(e, m.ram) = "valid_option" <=>
           /\ e.kind \in {"partition", "file"} /\ e.active /\ ~e.removable
           /\ e.size >= m.ram /\ e.uuid # 0 /\ NoEncryption(e)
           /\ e.kind = "file" => e.fs \in {"ext4", "btrfs"} /\ ~e.sparse /\ e.offset # 0
  BY <1>1, <1>3, ValidClass
<1>7. Class(e, m.ram) = "valid_option" <=> Safe(t, m)
  BY <1>3, <1>5, <1>6 DEF Safe
<1> QED BY <1>7 DEF e, t

(* What is safe as the user was told has no encryption that root would     *)
(* find, if crypttab is open and blkid's cache right; it is not on a       *)
(* mapper if it is a partition.                                            *)
LEMMA SafeAsTold ==
  ASSUME NEW d \in Device, NEW m, NEW root \in BOOLEAN, Safe(Told(d, root), m)
  PROVE  /\ root \/ (~d.closed /\ (d.kind = "file" \/ d.cached = d.uuid)) =>
              NoEncryption(Told(d, TRUE)) /\ Told(d, root).uuid = d.uuid
         /\ ~root /\ d.kind = "partition" => ~d.mapper
<1> DEFINE t == Told(d, root)
           r == Told(d, TRUE)
           u == IF root \/ d.kind # "partition" THEN d.uuid ELSE d.cached
<1>1. NoEncryption(t) /\ t.kind \in {"partition", "file"} BY DEF Safe
<1>2. ASSUME NEW b \in BOOLEAN
      PROVE  LET x == Told(d, b)
                 v == IF b \/ d.kind # "partition" THEN d.uuid ELSE d.cached
             IN  /\ x.kind = d.kind /\ x.lsblk = d.lsblk /\ x.mapper = d.mapper /\ x.uuid = v
                 /\ x.dm = IF b THEN d.dm ELSE "none"
                 /\ x.crypttab = IF (b \/ ~d.closed) /\ d.named \in {0, v} THEN d.crypttab
                                 ELSE "no"
                 /\ x.badtab <=> (b \/ ~d.closed) /\ d.badtab
  BY ToldFacts
<1>3. /\ r.kind = d.kind /\ r.lsblk = d.lsblk /\ r.mapper = d.mapper /\ r.dm = d.dm
      /\ r.crypttab = IF d.named \in {0, d.uuid} THEN d.crypttab ELSE "no"
      /\ r.badtab <=> d.badtab
  BY <1>2
<1>6. /\ t.kind = d.kind /\ t.lsblk = d.lsblk /\ t.mapper = d.mapper /\ t.uuid = u
      /\ t.dm = IF root THEN d.dm ELSE "none"
      /\ t.crypttab = IF (root \/ ~d.closed) /\ d.named \in {0, u} THEN d.crypttab ELSE "no"
      /\ t.badtab <=> (root \/ ~d.closed) /\ d.badtab
  BY <1>2
<1> HIDE DEF t, r
<1>4. ~root /\ d.kind = "partition" => ~d.mapper BY <1>1, <1>6 DEF NoEncryption
<1>5. ASSUME root \/ (~d.closed /\ (d.kind = "file" \/ d.cached = d.uuid))
      PROVE  NoEncryption(r) /\ t.uuid = d.uuid
  <2>1. u = d.uuid BY <1>1, <1>6, <1>5
  <2>2. r.crypttab = "no" /\ ~r.lsblk
    BY <1>1, <1>6, <1>3, <1>5, <2>1 DEF NoEncryption
  <2>3. ASSUME r.mapper PROVE ~r.badtab /\ (r.kind = "partition" => r.dm = "others")
    <3>1. t.mapper BY <1>6, <1>3, <2>3
    <3>2. ~t.badtab /\ (t.kind = "partition" => t.dm = "others")
      BY <1>1, <3>1 DEF NoEncryption
    <3>3. ~d.badtab BY <1>6, <1>5, <3>2
    <3>4. r.kind = "partition" => root
      BY <1>6, <1>3, <3>2
    <3> QED BY <1>6, <1>3, <3>2, <3>3, <3>4
  <2> QED BY <1>6, <2>1, <2>2, <2>3 DEF NoEncryption
<1> QED BY <1>4, <1>5 DEF t, r

(* A profile lists the swaps in use, each as it was probed.                *)
LEMMA ProfileFacts ==
  ASSUME NEW m \in Machine, NEW root \in BOOLEAN
  PROVE  LET p == ProfileOf(m, root)
         IN  /\ DOMAIN p.devs = DOMAIN Listed(m) /\ Swaps(p.devs)
             /\ p.status = Status(p.devs, m.ram) /\ p.ram = m.ram
             /\ \A i \in DOMAIN p.devs :
                  /\ p.devs[i] = Probed(m.devs[i], m, root)
                  /\ m.devs[i] \in Device /\ i \in DOMAIN m.devs
                  /\ m.devs[i].path \notin m.off
                  /\ Selectable(p.status[i]) <=>
                       Safe(Told(m.devs[i], root), m)
<1> DEFINE p == ProfileOf(m, root)
<1>1. /\ p.devs = [i \in DOMAIN Listed(m) |-> Probed(Listed(m)[i], m, root)]
      /\ p.status = Status(p.devs, m.ram) /\ p.ram = m.ram
  BY DEF ProfileOf
<1>2. m.ram \in Nat BY DEF Machine
<1> HIDE DEF p
<1>3. \A i \in DOMAIN p.devs : /\ p.devs[i] = Probed(m.devs[i], m, root)
                               /\ m.devs[i] \in Device /\ i \in DOMAIN m.devs
                               /\ m.devs[i].path \notin m.off
  BY <1>1, ListedFacts
<1>4. DOMAIN p.devs = DOMAIN Listed(m) BY <1>1
<1>5. \A i \in DOMAIN p.devs : p.devs[i] \in Device BY <1>3, ProbedFacts
<1>6. Swaps(p.devs)
  BY <1>1, <1>4, <1>5, ListedFacts DEF Swaps
<1>7. ASSUME NEW i \in DOMAIN p.devs
      PROVE  Selectable(p.status[i]) <=> Safe(Told(m.devs[i], root), m)
  <2>1. Selectable(p.status[i]) <=> Class(p.devs[i], m.ram) = "valid_option"
    BY <1>1, <1>2, <1>6, SelectableIsValid
  <2>2. Class(Probed(m.devs[i], m, root), m.ram) = "valid_option"
          <=> Safe(Told(m.devs[i], root), m)
    BY <1>3, ProbedSafe
  <2> QED BY <1>3, <2>1, <2>2
<1>8. /\ DOMAIN p.devs = DOMAIN Listed(m) /\ Swaps(p.devs)
      /\ p.status = Status(p.devs, m.ram) /\ p.ram = m.ram
      /\ \A i \in DOMAIN p.devs :
           /\ p.devs[i] = Probed(m.devs[i], m, root)
           /\ m.devs[i] \in Device /\ i \in DOMAIN m.devs /\ m.devs[i].path \notin m.off
           /\ Selectable(p.status[i]) <=> Safe(Told(m.devs[i], root), m)
  BY <1>1, <1>3, <1>4, <1>6, <1>7
<1> QED BY <1>8 DEF p

-----------------------------------------------------------------------------
(* Sizes *)

(* A swap file that is accepted has at least one page.                     *)
LEMMA SnappedFacts ==
  ASSUME NEW s \in Nat, Accepts(s)
  PROVE  Snapped(s) \in Nat /\ Snapped(s) >= 1
<1>1. MiB \in Nat \ {0} /\ GiB \in Nat \ {0} /\ GiB % MiB = 0
  BY UnitAssumption
<1>2. GiB >= MiB
  BY <1>1, Z3
<1>3. s >= MiB BY <1>1, <1>2 DEF Accepts, MinSwap
<1>4. s \div MiB \in Nat /\ s \div MiB >= 1
  BY <1>1, <1>3, Z3
<1> QED BY <1>1, <1>4 DEF Snapped

LEMMA SuggestedAreNat ==
  ASSUME NEW ram \in Nat, NEW s \in ToSet(SuggestedSizes(ram))
  PROVE  s \in Nat
<1>1. GiB \in Nat \ {0} BY UnitAssumption
<1>2. ram \div GiB \in Nat /\ ram % GiB \in Nat BY <1>1
<1>3. RamGiB(ram) \in Nat BY <1>2 DEF RamGiB, Rounded
<1>4. RamGiB(ram) * GiB \in Nat BY <1>1, <1>3
<1> DEFINE r == RamGiB(ram) * GiB
<1>5. r \in Nat BY <1>4
<1>6. SuggestedSizes(ram) \in {<<>>, <<r, r + 2 * GiB, 3 * r>>, <<r, r + 2 * GiB, 2 * r>>}
  BY DEF SuggestedSizes
<1> HIDE DEF r
<1>7. ToSet(SuggestedSizes(ram)) \subseteq {r, r + 2 * GiB, 3 * r, 2 * r}
  BY <1>6 DEF ToSet
<1> QED BY <1>1, <1>5, <1>7

-----------------------------------------------------------------------------
(* The machine *)

LEMMA NewFileFacts ==
  ASSUME NEW m \in Machine, NEW size \in Nat, size >= 1, NEW o \in Offsets,
         m.free >= size
  PROVE  WithNewFile(m, size, o) \in Machine
<1> DEFINE old   == {i \in DOMAIN m.devs : m.devs[i].path = "/swap.img"}
           at    == IF old = {} THEN Len(m.devs) + 1 ELSE CHOOSE i \in old : TRUE
           fresh == [path |-> "/swap.img", kind |-> "file", active |-> TRUE,
                     removable |-> FALSE, uuid |-> m.rootUuid, cached |-> 0, fs |-> m.root,
                     crypttab |-> "no", named |-> 0, closed |-> FALSE, lsblk |-> FALSE,
                     mapper |-> FALSE, dm |-> "none", badtab |-> FALSE, size |-> 0,
                     offset |-> 0, sparse |-> FALSE, readable |-> FALSE]
           base  == IF old = {} THEN fresh ELSE m.devs[at]
           new   == [base EXCEPT !.size = size - 1, !.offset = o, !.sparse = FALSE,
                                 !.readable = FALSE]
           devs  == IF old = {} THEN Append(m.devs, new) ELSE [m.devs EXCEPT ![at] = new]
<1>1. WithNewFile(m, size, o) = [m EXCEPT !.devs = devs, !.real = size, !.free = @ - size]
  <2>1. WithNewFile(m, size, o) =
          [m EXCEPT !.devs = IF old = {} THEN Append(@, new) ELSE [@ EXCEPT ![at] = new],
                    !.real = size, !.free = @ - size]
    BY DEF WithNewFile
  <2> QED BY <2>1 DEF Machine
<1>2. m.devs \in Seq(Device) /\ m.free \in Nat BY DEF Machine
<1>3. o \in Nat BY ChoiceAssumption
<1>4. size - 1 \in Nat OBVIOUS
<1>5. fresh \in Device
  <2>1. m.rootUuid \in Nat \ {ByPath} /\ m.root \in {"ext4", "btrfs", "other"}
    BY DEF Machine
  <2>2. "/swap.img" \in Paths BY PathAssumption
  <2>3. 0 \in Nat \ {ByPath} BY DEF ByPath
  <2> QED BY <2>1, <2>2, <2>3 DEF Device
<1>6. base \in Device
  <2>1. CASE old = {} BY <1>5, <2>1
  <2>2. CASE old # {}
    <3>1. at \in DOMAIN m.devs BY <2>2
    <3> QED BY <1>2, <2>2, <3>1
  <2> QED BY <2>1, <2>2
<1> HIDE DEF fresh, base
<1>7. new \in Device BY <1>3, <1>4, <1>6 DEF Device
<1> HIDE DEF new
<1>8. devs \in Seq(Device) BY <1>2, <1>7
<1> HIDE DEF devs
<1>9. m.free - size \in Nat BY <1>2
<1> QED BY <1>1, <1>8, <1>9 DEF Machine

-----------------------------------------------------------------------------
(* The inductive invariant *)

(* The plan is one that build_plan returns.                                *)
PlanInv ==
  plan # None => /\ plan \in Plan
                 /\ plan.kind = "request" => plan.path = "/swap.img" /\ plan.size >= 1

(* The wizard's profile is that of the machine when it looked.             *)
SeenInv == seen # None => asOf \in Machine /\ seen = ProfileOf(asOf, FALSE)

(* What was accepted is what is there: once the helper has decided, the    *)
(* machine and the plan stay.                                              *)
OutcomeInv ==
  outcome # None => /\ DOMAIN outcome = {"accepted", "path", "uuid", "offset"}
                    /\ WrittenIsLive

Inv ==
  /\ machine \in Machine /\ changes \in 0..MaxChanges
  /\ SeenInv /\ PlanInv /\ OutcomeInv

LEMMA InitInv == Init => Inv
BY MachineAssumption, ChoiceAssumption
DEF Init, Inv, SeenInv, PlanInv, OutcomeInv

(* What is written names a swap that is in use, safe and really there.     *)
NamesLive(a, m) ==
  \E d \in ToSet(m.devs) :
    /\ d.path = a.path /\ d.path \notin m.off
    /\ Safe(Told(d, TRUE), m)
    /\ a.uuid = d.uuid
    /\ a.offset = IF d.kind = "file" THEN d.offset ELSE 0

(* A swap that TargetOk lets through for root is live.                     *)
LEMMA TakenIsLive ==
  ASSUME NEW m \in Machine, NEW i \in DOMAIN ProfileOf(m, TRUE).devs,
         TargetOk(ProfileOf(m, TRUE), i)
  PROVE  LET e == ProfileOf(m, TRUE).devs[i]
         IN  Accepted(e).path = e.path /\ NamesLive(Accepted(e), m)
<1> DEFINE p == ProfileOf(m, TRUE)
           d == m.devs[i]
           e == p.devs[i]
<1>1. /\ e = Probed(d, m, TRUE) /\ d \in Device /\ i \in DOMAIN m.devs /\ d.path \notin m.off
      /\ Selectable(p.status[i]) <=> Safe(Told(d, TRUE), m)
  BY ProfileFacts
<1>2. Safe(Told(d, TRUE), m) BY <1>1 DEF TargetOk
<1>3. d.kind = "file" => d.fs # "other"
  <2>1. Told(d, TRUE).kind = d.kind /\ Told(d, TRUE).fs = d.fs BY <1>1, ToldFacts
  <2> QED BY <1>2, <2>1 DEF Safe
<1>4. /\ e.path = d.path /\ e.kind = d.kind /\ e.uuid = d.uuid
      /\ d.kind = "file" => e.offset = d.offset
  <2> HIDE DEF d, e
  <2> QED BY <1>1, <1>3, ProbedFacts
<1>5. d \in ToSet(m.devs) BY <1>1 DEF ToSet
<1> HIDE DEF d
<1>6. /\ Accepted(e).path = e.path /\ Accepted(e).uuid = e.uuid
      /\ Accepted(e).offset = IF e.kind = "file" THEN e.offset ELSE 0
  BY DEF Accepted
<1> HIDE DEF e, p
<1>7. Accepted(e).path = e.path /\ NamesLive(Accepted(e), m)
  BY <1>1, <1>2, <1>4, <1>5, <1>6 DEF NamesLive
<1> QED BY <1>7 DEF e, p

LEMMA CheckStep == ASSUME Inv, Check PROVE Inv'
<1>1. machine \in Machine /\ machine' = machine /\ asOf' = machine
      /\ seen' = ProfileOf(machine, FALSE) /\ plan' = None
      /\ outcome = None /\ outcome' = outcome /\ changes' = changes
  BY DEF Inv, Check
<1>2. SeenInv' BY <1>1 DEF SeenInv
<1>3. PlanInv' BY <1>1 DEF PlanInv
<1>4. OutcomeInv' BY <1>1 DEF OutcomeInv
<1> QED BY <1>1, <1>2, <1>3, <1>4 DEF Inv

LEMMA PlanTargetStep == ASSUME Inv, PlanTarget PROVE Inv'
<1>1. PICK i \in DOMAIN seen.devs :
        /\ Selectable(seen.status[i])
        /\ plan' = [kind |-> seen.devs[i].kind, path |-> seen.devs[i].path,
                    uuid |-> seen.devs[i].uuid, offset |-> seen.devs[i].offset,
                    size |-> seen.devs[i].size, ok |-> TargetOk(seen, i)]
  BY DEF PlanTarget
<1>2. seen # None /\ outcome = None /\ UNCHANGED <<machine, seen, outcome, changes, asOf>>
  BY DEF PlanTarget
<1>3. asOf \in Machine /\ seen = ProfileOf(asOf, FALSE) BY <1>2 DEF Inv, SeenInv
<1>4. /\ Swaps(seen.devs) /\ seen.status = Status(seen.devs, asOf.ram)
  BY <1>3, ProfileFacts
<1>5. asOf.ram \in Nat BY <1>3 DEF Machine
<1>6. seen.devs[i] \in Device BY <1>4 DEF Swaps
<1>7. Class(seen.devs[i], asOf.ram) = "valid_option" BY <1>1, <1>4, <1>5, SelectableIsValid
<1>8. seen.devs[i].kind \in {"partition", "file"} BY <1>5, <1>6, <1>7, ValidClass
<1>9. TargetOk(seen, i) \in BOOLEAN BY DEF TargetOk
<1>10. PlanInv'
  BY <1>1, <1>6, <1>8, <1>9 DEF PlanInv, Plan, Device
<1>11. SeenInv' BY <1>2 DEF Inv, SeenInv
<1>12. OutcomeInv' BY <1>2 DEF OutcomeInv
<1> QED BY <1>2, <1>10, <1>11, <1>12 DEF Inv

LEMMA PlanFileStep == ASSUME Inv, PlanFile PROVE Inv'
<1>1. PICK s \in Sizes \cup ToSet(SuggestedSizes(seen.ram)) :
        /\ Accepts(s)
        /\ plan' = [kind |-> "request", path |-> "/swap.img", uuid |-> 0, offset |-> 0,
                    size |-> Snapped(s), ok |-> FileOk(seen, Snapped(s))]
  BY DEF PlanFile
<1>2. seen # None /\ outcome = None /\ UNCHANGED <<machine, seen, outcome, changes, asOf>>
  BY DEF PlanFile
<1>3. asOf \in Machine /\ seen = ProfileOf(asOf, FALSE) BY <1>2 DEF Inv, SeenInv
<1>4. seen.ram \in Nat
  <2>1. seen.ram = asOf.ram BY <1>3, ProfileFacts
  <2> QED BY <1>3, <2>1 DEF Machine
<1>5. s \in Nat BY <1>4, SuggestedAreNat, ChoiceAssumption
<1>6. Snapped(s) \in Nat /\ Snapped(s) >= 1 BY <1>1, <1>5, SnappedFacts
<1>7. FileOk(seen, Snapped(s)) \in BOOLEAN BY DEF FileOk
<1>8. PlanInv'
  BY <1>1, <1>6, <1>7, PathAssumption DEF PlanInv, Plan
<1>9. SeenInv' BY <1>2 DEF Inv, SeenInv
<1>10. OutcomeInv' BY <1>2 DEF OutcomeInv
<1> QED BY <1>2, <1>8, <1>9, <1>10 DEF Inv

(* _validate_target_live takes a swap that its own probe lets through.     *)
LEMMA ValidateTargetStep == ASSUME Inv, ValidateTarget PROVE Inv'
<1> DEFINE p    == ProfileOf(machine, TRUE)
           live == Matches(p, plan.path, plan.kind)
           i    == CHOOSE j \in live : TRUE
<1>1. outcome = None /\ outcome' = Validated(machine, plan)
      /\ UNCHANGED <<machine, seen, plan, changes, asOf>>
  BY DEF ValidateTarget
<1>2. machine \in Machine BY DEF Inv
<1>3. outcome' = IF live # {} /\ TargetOk(p, i) /\ p.devs[i].uuid = plan.uuid
                    /\ (p.devs[i].kind = "file" => p.devs[i].offset = plan.offset)
                 THEN Accepted(p.devs[i]) ELSE Refused
  BY <1>1 DEF Validated
<1>4. DOMAIN outcome' = {"accepted", "path", "uuid", "offset"}
  BY <1>3 DEF Accepted, Refused
<1>5. WrittenIsLive'
  <2>1. CASE outcome' = Refused BY <2>1 DEF WrittenIsLive, Refused
  <2>2. CASE outcome' # Refused
    <3>1. live # {} /\ TargetOk(p, i) /\ outcome' = Accepted(p.devs[i]) BY <1>3, <2>2
    <3>2. i \in DOMAIN p.devs /\ p.devs[i].path = plan.path BY <3>1 DEF Matches
    <3> HIDE DEF i, live
    <3>3. outcome'.path = plan.path /\ NamesLive(outcome', machine)
      BY <1>2, <3>1, <3>2, TakenIsLive
    <3> QED BY <1>1, <3>3 DEF WrittenIsLive, NamesLive
  <2> QED BY <2>1, <2>2
<1>6. OutcomeInv' BY <1>4, <1>5 DEF OutcomeInv
<1>7. SeenInv' /\ PlanInv' BY <1>1 DEF Inv, SeenInv, PlanInv
<1> QED BY <1>1, <1>6, <1>7 DEF Inv

(* _select_live_swapfile_target looks at the machine as it has become.     *)
LEMMA EnsureFileStep == ASSUME Inv, EnsureFile PROVE Inv'
<1>1. /\ plan # None /\ plan.kind = "request" /\ outcome = None
      /\ UNCHANGED <<seen, plan, changes, asOf>>
  BY DEF EnsureFile
<1>2. machine \in Machine BY DEF Inv
<1>3. plan.path = "/swap.img" /\ plan.size \in Nat /\ plan.size >= 1
  BY <1>1 DEF Inv, PlanInv, Plan
<1>4. SeenInv' /\ PlanInv' BY <1>1 DEF Inv, SeenInv, PlanInv
<1>5. CASE outcome' = Refused /\ UNCHANGED machine
  <2>1. OutcomeInv' BY <1>5 DEF OutcomeInv, WrittenIsLive, Refused
  <2> QED BY <1>1, <1>4, <1>5, <2>1 DEF Inv
<1>6. CASE ~(outcome' = Refused /\ UNCHANGED machine)
  <2>1. PreflightPasses(machine.free, machine.real, plan.size)
    BY <1>6 DEF EnsureFile
  <2>2. PICK o \in Offsets :
          /\ machine' = [IF machine.real = plan.size THEN machine
                         ELSE WithNewFile(machine, plan.size, o)
                           EXCEPT !.fstab = TRUE, !.off = @ \ {"/swap.img"}]
          /\ outcome' = Selected(machine')
    BY <1>6 DEF EnsureFile
  <2> DEFINE m == IF machine.real = plan.size THEN machine
                  ELSE WithNewFile(machine, plan.size, o)
  <2>3. m \in Machine
    <3>1. CASE machine.real = plan.size BY <1>2, <3>1
    <3>2. CASE machine.real # plan.size
      <4>1. machine.free \in Nat /\ GiB \in Nat BY <1>2, UnitAssumption DEF Machine
      <4>2. machine.free >= plan.size
        BY <1>3, <2>1, <3>2, <4>1 DEF PreflightPasses, Reserve
      <4>3. WithNewFile(machine, plan.size, o) \in Machine
        BY <1>2, <1>3, <4>2, NewFileFacts
      <4> QED BY <3>2, <4>3
    <3> QED BY <3>1, <3>2
  <2>4. machine' = [m EXCEPT !.fstab = TRUE, !.off = @ \ {"/swap.img"}] BY <2>2
  <2> HIDE DEF m
  <2>5. machine' \in Machine BY <2>3, <2>4 DEF Machine
  <2> DEFINE p     == ProfileOf(machine', TRUE)
             files == Matches(p, "/swap.img", "file")
             i     == CHOOSE j \in files : TRUE
  <2>6. outcome' = IF files # {} /\ TargetOk(p, i) THEN Accepted(p.devs[i]) ELSE Refused
    BY <2>2 DEF Selected
  <2>7. DOMAIN outcome' = {"accepted", "path", "uuid", "offset"}
    BY <2>6 DEF Accepted, Refused
  <2>8. WrittenIsLive'
    <3>1. CASE outcome' = Refused BY <3>1 DEF WrittenIsLive, Refused
    <3>2. CASE outcome' # Refused
      <4>1. files # {} /\ TargetOk(p, i) /\ outcome' = Accepted(p.devs[i]) BY <2>6, <3>2
      <4>2. i \in DOMAIN p.devs /\ p.devs[i].path = "/swap.img" BY <4>1 DEF Matches
      <4> HIDE DEF i, files
      <4>3. outcome'.path = "/swap.img" /\ NamesLive(outcome', machine')
        BY <2>5, <4>1, <4>2, TakenIsLive
      <4> QED BY <1>1, <1>3, <4>3 DEF WrittenIsLive, NamesLive
    <3> QED BY <3>1, <3>2
  <2>9. OutcomeInv' BY <2>7, <2>8 DEF OutcomeInv
  <2> QED BY <1>1, <1>4, <2>5, <2>9 DEF Inv
<1> QED BY <1>5, <1>6

(* Others change the machine only before the helper has decided.           *)
LEMMA ChangeStep == ASSUME Inv, NEW m \in Machine, Change(m) PROVE Inv'
<1>1. outcome = None /\ machine' = m /\ changes < MaxChanges /\ changes' = changes + 1
      /\ UNCHANGED <<seen, plan, outcome, asOf>>
  BY DEF Change
<1>2. changes' \in 0..MaxChanges BY <1>1, ChoiceAssumption DEF Inv
<1>3. SeenInv' /\ PlanInv' /\ OutcomeInv' BY <1>1 DEF Inv, SeenInv, PlanInv, OutcomeInv
<1> QED BY <1>1, <1>2, <1>3 DEF Inv

LEMMA OthersStep ==
  ASSUME Inv, Recreate \/ Reformat \/ SwapOff \/ FillDisk
  PROVE  Inv'
<1>1. machine \in Machine /\ machine.devs \in Seq(Device) BY DEF Inv, Machine
<1>2. CASE Recreate
  <2>1. PICK i \in DOMAIN machine.devs, o \in Offsets :
          Change([machine EXCEPT !.devs[i].offset = o])
    BY <1>2 DEF Recreate
  <2>2. machine.devs[i] \in Device /\ o \in Nat BY <1>1, ChoiceAssumption
  <2> DEFINE d == [machine.devs[i] EXCEPT !.offset = o]
  <2>3. d \in Device BY <2>2 DEF Device
  <2>4. [machine EXCEPT !.devs[i].offset = o] = [machine EXCEPT !.devs = [machine.devs EXCEPT ![i] = d]]
    BY <1>1 DEF Machine
  <2> HIDE DEF d
  <2>5. [machine.devs EXCEPT ![i] = d] \in Seq(Device) BY <1>1, <2>3
  <2>6. [machine EXCEPT !.devs[i].offset = o] \in Machine BY <1>1, <2>4, <2>5 DEF Machine
  <2> QED BY <2>1, <2>6, ChangeStep
<1>3. CASE Reformat
  <2>1. PICK i \in DOMAIN machine.devs : Change([machine EXCEPT !.devs[i].uuid = 8])
    BY <1>3 DEF Reformat
  <2>2. machine.devs[i] \in Device BY <1>1
  <2> DEFINE d == [machine.devs[i] EXCEPT !.uuid = 8]
  <2>3. d \in Device BY <2>2 DEF Device, ByPath
  <2>4. [machine EXCEPT !.devs[i].uuid = 8] = [machine EXCEPT !.devs = [machine.devs EXCEPT ![i] = d]]
    BY <1>1 DEF Machine
  <2> HIDE DEF d
  <2>5. [machine.devs EXCEPT ![i] = d] \in Seq(Device) BY <1>1, <2>3
  <2>6. [machine EXCEPT !.devs[i].uuid = 8] \in Machine BY <1>1, <2>4, <2>5 DEF Machine
  <2> QED BY <2>1, <2>6, ChangeStep
<1>4. CASE SwapOff
  <2>1. PICK d \in ToSet(machine.devs) : Change([machine EXCEPT !.off = @ \cup {d.path}])
    BY <1>4 DEF SwapOff
  <2>2. d.path \in Paths
    <3>1. PICK i \in DOMAIN machine.devs : d = machine.devs[i] BY DEF ToSet
    <3>2. machine.devs[i] \in Device BY <1>1
    <3> QED BY <3>1, <3>2 DEF Device
  <2>3. [machine EXCEPT !.off = @ \cup {d.path}] \in Machine BY <1>1, <2>2 DEF Machine
  <2> QED BY <2>1, <2>3, ChangeStep
<1>5. CASE FillDisk
  <2>1. [machine EXCEPT !.free = 0] \in Machine BY <1>1 DEF Machine
  <2> QED BY <1>5, <2>1, ChangeStep DEF FillDisk
<1> QED BY <1>2, <1>3, <1>4, <1>5

LEMMA NextInv == Inv /\ [Next]_vars => Inv'
<1> SUFFICES ASSUME Inv, [Next]_vars PROVE Inv'
  OBVIOUS
<1>1. CASE UNCHANGED vars
  BY <1>1 DEF vars, Inv, SeenInv, PlanInv, OutcomeInv, WrittenIsLive
<1>2. CASE Next
  BY <1>2, CheckStep, PlanTargetStep, PlanFileStep, ValidateTargetStep, EnsureFileStep,
     OthersStep DEF Next
<1> QED BY <1>1, <1>2

LEMMA Invariance == Spec => []Inv
BY InitInv, NextInv, PTL DEF Spec

-----------------------------------------------------------------------------
(* The theorems *)

(* Every profile, plan and decision holds what the code's objects hold.    *)
THEOREM TypeCorrect == Spec => []TypeOK
<1>1. ASSUME Inv PROVE TypeOK
  <2>1. ASSUME seen # None
        PROVE  /\ asOf \in Machine /\ seen.devs \in [DOMAIN seen.devs -> Device]
               /\ seen.status \in [DOMAIN seen.devs ->
                    {"recommended", "valid_option", "warning_option", "blocked"}]
    <3>1. asOf \in Machine /\ seen = ProfileOf(asOf, FALSE) BY <1>1, <2>1 DEF Inv, SeenInv
    <3>2. Swaps(seen.devs) /\ seen.status = Status(seen.devs, asOf.ram) BY <3>1, ProfileFacts
    <3>3. asOf.ram \in Nat BY <3>1 DEF Machine
    <3>4. \A i \in DOMAIN seen.devs : seen.status[i] \in
            {"recommended", "valid_option", "warning_option", "blocked"}
      BY <3>2, <3>3, SelectableIsValid
    <3>5. seen.status = [i \in DOMAIN seen.devs |-> seen.status[i]] BY <3>2 DEF Status
    <3> QED BY <3>1, <3>2, <3>4, <3>5 DEF Swaps
  <2> QED BY <1>1, <2>1 DEF Inv, PlanInv, OutcomeInv, TypeOK
<1> QED BY <1>1, Invariance, PTL

(* Whatever machine is looked at, the detector offers exactly the swaps    *)
(* that meet every condition of its table (services/swap_detector.py).     *)
THEOREM DecisionTableCorrect == Spec => []DecisionTable
<1>1. ASSUME Inv PROVE DecisionTable
  <2> SUFFICES ASSUME seen # None, NEW i \in DOMAIN Listed(asOf)
               PROVE  Selectable(seen.status[i]) <=> Safe(Told(Listed(asOf)[i], FALSE), asOf)
    BY DEF DecisionTable
  <2>1. asOf \in Machine /\ seen = ProfileOf(asOf, FALSE) BY <1>1 DEF Inv, SeenInv
  <2>2. asOf.devs[i] \in Device /\ Listed(asOf)[i] = asOf.devs[i] BY <2>1, ListedFacts
  <2>3. Selectable(seen.status[i]) <=> Safe(Told(asOf.devs[i], FALSE), asOf)
    BY <2>1, ProfileFacts
  <2> QED BY <2>2, <2>3
<1> QED BY <1>1, Invariance, PTL

(* However many swaps there are, one of those offered is recommended, and  *)
(* none of its kind is larger (services/swap_detector.py, max and the      *)
(* order of the kinds).                                                    *)
THEOREM OneRecommendedCorrect == Spec => []OneRecommended
<1>1. ASSUME Inv, seen # None PROVE OneRecommended
  <2> DEFINE offered == {i \in DOMAIN seen.devs : Selectable(seen.status[i])}
             best    == {i \in offered : seen.status[i] = "recommended"}
             ram     == asOf.ram
             r       == RecommendedOf(seen.devs, ram)
             P       == Valid(seen.devs, ram, "partition")
             F       == Valid(seen.devs, ram, "file")
  <2>1. asOf \in Machine /\ seen = ProfileOf(asOf, FALSE) BY <1>1 DEF Inv, SeenInv
  <2>2. Swaps(seen.devs) /\ seen.status = Status(seen.devs, ram) BY <2>1, ProfileFacts
  <2>3. ram \in Nat BY <2>1 DEF Machine
  <2>4. \A i \in DOMAIN seen.devs :
          /\ Selectable(seen.status[i]) <=> Class(seen.devs[i], ram) = "valid_option"
          /\ seen.status[i] = "recommended" <=> i = r
    BY <2>2, <2>3, SelectableIsValid
  <2>5. \A i \in DOMAIN seen.devs :
          /\ seen.devs[i].size \in Nat
          /\ Class(seen.devs[i], ram) = "valid_option" => seen.devs[i].kind \in {"partition", "file"}
    BY <2>2, <2>3, ValidClass DEF Swaps, Device
  <2>6. offered = P \cup F BY <2>4, <2>5 DEF Valid
  <2>7. /\ \A i \in P : i \in DOMAIN seen.devs /\ seen.devs[i].kind = "partition"
        /\ \A i \in F : i \in DOMAIN seen.devs /\ seen.devs[i].kind = "file"
    BY DEF Valid
  <2>8. 0 \notin DOMAIN seen.devs BY <2>2 DEF Swaps
  <2>9. \/ r = 0 /\ P = {} /\ F = {}
        \/ r \in P /\ \A j \in P : seen.devs[j].size <= seen.devs[r].size
        \/ r \in F /\ P = {} /\ \A j \in F : seen.devs[j].size <= seen.devs[r].size
    BY <2>2, <2>3, RecommendedFacts
  <2>10. best = {i \in offered : i = r} BY <2>4
  <2> HIDE DEF offered, best, r, P, F, ram
  <2>11. offered # {} => best = {r} BY <2>6, <2>9, <2>10
  <2>12. offered = {} => best = {} BY <2>10
  <2>13. offered # {} <=> Cardinality(best) = 1
    BY <2>11, <2>12, FS_Singleton, FS_EmptySet
  <2>14. ASSUME NEW i \in best, NEW j \in offered
         PROVE  \/ seen.devs[i].kind = seen.devs[j].kind /\ seen.devs[i].size >= seen.devs[j].size
                \/ seen.devs[i].kind = "partition" /\ seen.devs[j].kind = "file"
    <3>1. i = r BY <2>10
    <3> QED BY <2>5, <2>6, <2>7, <2>9, <3>1
  <2> QED BY <2>13, <2>14 DEF OneRecommended, offered, best
<1>2. ASSUME Inv PROVE OneRecommended BY <1>1, <1>2 DEF OneRecommended
<1> QED BY <1>2, Invariance, PTL

(* What the helper accepts is live and safe, for every machine, whatever   *)
(* changed between the three looks at it                                   *)
(* (backend/privileged_helper.py, _validate_target_live and                *)
(* _select_live_swapfile_target).                                          *)
THEOREM WrittenIsLiveCorrect == Spec => []WrittenIsLive
<1>1. Inv => WrittenIsLive BY DEF Inv, OutcomeInv, WrittenIsLive
<1> QED BY <1>1, Invariance, PTL

(* Every machine that verifies would resume (cli.py, verify_json).         *)
THEOREM VerifiedResumesCorrect == Spec => []VerifiedResumes
<1>1. ASSUME Inv PROVE VerifiedResumes
  <2> SUFFICES ASSUME NEW root \in BOOLEAN, Verified(machine, root)
               PROVE  \E d \in ToSet(Listed(machine)) :
                        /\ Safe(Told(d, root), machine)
                        /\ {machine.cmd.uuid, machine.init.uuid} = {Told(d, root).uuid}
                        /\ d.kind = "partition" => machine.cmd.offset = 0 /\ machine.init.offset = 0
                        /\ d.kind = "file" => /\ root \/ d.readable => machine.cmd.offset = d.offset
                                             /\ Begins(machine.cmd.offset, machine.init.offset)
                        /\ root \/ (~d.closed /\ (d.kind = "file" \/ d.cached = d.uuid)) =>
                             NoEncryption(Told(d, TRUE)) /\ Told(d, root).uuid = d.uuid
    BY DEF VerifiedResumes
  <2> DEFINE p == ProfileOf(machine, root)
             i == RecommendedOf(p.devs, p.ram)
             d == machine.devs[i]
             e == p.devs[i]
             t == Told(d, root)
  <2>1. machine \in Machine BY <1>1 DEF Inv
  <2>2. i # 0 /\ Errors(e, machine) = {} BY DEF Verified
  <2>3. p.ram = machine.ram /\ p.ram \in Nat BY <2>1, ProfileFacts DEF Machine
  <2>4. DOMAIN p.devs = DOMAIN Listed(machine) /\ Swaps(p.devs)
        /\ p.status = Status(p.devs, p.ram)
    BY <2>1, <2>3, ProfileFacts
  <2> HIDE DEF p
  <2>5. i \in DOMAIN p.devs
    BY <2>2, <2>3, <2>4, RecommendedFacts DEF Valid
  <2>6. Selectable(p.status[i]) BY <2>4, <2>5 DEF Status, Selectable
  <2> HIDE DEF i
  <2>7. /\ e = Probed(d, machine, root) /\ d \in Device
        /\ Selectable(p.status[i]) <=> Safe(t, machine)
    BY <2>1, <2>5, ProfileFacts DEF p
  <2>8. Safe(t, machine) BY <2>6, <2>7
  <2>9. d \in ToSet(Listed(machine))
    <3>1. Listed(machine)[i] = d BY <2>1, <2>4, <2>5, ListedFacts
    <3> QED BY <2>4, <2>5, <3>1 DEF ToSet
  <2> HIDE DEF d, e
  <2>10. /\ t.kind = d.kind /\ t.fs = d.fs
         /\ t.uuid = IF root \/ d.kind # "partition" THEN d.uuid ELSE d.cached
    BY <2>7, ToldFacts
  <2>11. root \/ (~d.closed /\ (d.kind = "file" \/ d.cached = d.uuid)) =>
           NoEncryption(Told(d, TRUE)) /\ t.uuid = d.uuid
    BY <2>7, <2>8, SafeAsTold
  <2> HIDE DEF t
  <2>12. t.kind \in {"partition", "file"} /\ t.uuid \in Nat \ {0}
         /\ (t.kind = "file" => t.fs # "other")
    <3>1. t \in Device BY <2>7, ToldFacts DEF t
    <3> QED BY <2>8, <3>1 DEF Safe, Device
  <2>13. /\ e.kind = d.kind /\ e.uuid = t.uuid
         /\ d.kind = "file" /\ (root \/ d.readable) => e.offset = d.offset
    BY <2>1, <2>7, <2>10, <2>12, ProbedFacts
  <2>14. /\ UuidOf(machine.cmd) = e.uuid /\ machine.init.uuid = e.uuid
         /\ machine.cmd.offset = IF e.kind = "file" THEN e.offset ELSE 0
         /\ IF e.kind = "file" THEN Begins(e.offset, machine.init.offset)
            ELSE machine.init.offset = 0
    <3>1. "uuid" \notin Errors(e, machine) /\ "offset" \notin Errors(e, machine)
          /\ "initramfs" \notin Errors(e, machine)
      BY <2>2
    <3> QED BY <3>1 DEF Errors
  <2>15. machine.cmd.uuid = t.uuid BY <2>12, <2>13, <2>14 DEF UuidOf
  <2>16. /\ {machine.cmd.uuid, machine.init.uuid} = {t.uuid}
         /\ d.kind = "partition" => machine.cmd.offset = 0 /\ machine.init.offset = 0
         /\ d.kind = "file" => /\ root \/ d.readable => machine.cmd.offset = d.offset
                              /\ Begins(machine.cmd.offset, machine.init.offset)
    BY <2>10, <2>12, <2>13, <2>14, <2>15
  <2> QED BY <2>8, <2>9, <2>11, <2>16 DEF t
<1> QED BY <1>1, Invariance, PTL

-----------------------------------------------------------------------------
(* From the plan back to the machine it was made for *)

(* A target plan is made from a swap that can be selected, a request only  *)
(* passes when it fits.                                                    *)
TargetPlan(i) ==
  LET d == seen.devs[i]
  IN  [kind |-> d.kind, path |-> d.path, uuid |-> d.uuid, offset |-> d.offset,
       size |-> d.size, ok |-> TargetOk(seen, i)]

TracedPlan ==
  plan # None =>
    /\ seen # None
    /\ plan.kind = "request" /\ plan.ok => FileOk(seen, plan.size)
    /\ plan.kind # "request" =>
         \E i \in DOMAIN seen.devs : Selectable(seen.status[i]) /\ plan = TargetPlan(i)

(* What others cannot change: which swaps there are, of what kind, on what *)
(* filesystem, on a mapper or not, who can read them, and fstab.           *)
Kin(m, n) ==
  /\ DOMAIN m.devs = DOMAIN n.devs /\ m.fstab = n.fstab
  /\ \A i \in DOMAIN m.devs :
       /\ m.devs[i].path = n.devs[i].path /\ m.devs[i].kind = n.devs[i].kind
       /\ m.devs[i].fs = n.devs[i].fs /\ m.devs[i].readable = n.devs[i].readable
       /\ m.devs[i].mapper = n.devs[i].mapper

KinInv == seen # None => Sound(asOf) /\ (outcome = None => Kin(asOf, machine))

(* A file that only root can read is accepted only if fstab names it, as   *)
(* the user sees its offset nowhere else, and a partition only for a plan  *)
(* of the partition, and if it is not on a mapper, of which the user is    *)
(* not told what it is.                                                    *)
ListedInv ==
  (outcome # None /\ outcome.accepted) =>
    \A i \in DOMAIN machine.devs :
      machine.devs[i].path = outcome.path =>
        /\ machine.devs[i].kind = "file" /\ ~machine.devs[i].readable => machine.fstab
        /\ machine.devs[i].kind = "partition" =>
             plan.kind = "partition" /\ ~machine.devs[i].mapper

LinkInv ==
  Inv /\ Sound(machine) /\ TracedPlan /\ KinInv /\ ListedInv /\ RefusedForAReason

LEMMA LinkInit == Init => LinkInv
BY InitInv, MachineAssumption
DEF Init, LinkInv, TracedPlan, KinInv, ListedInv, RefusedForAReason

(* Root finds safe what the user was told is safe, and where the user was  *)
(* told, if none of the three things RefusedForAReason names is the case.  *)
LEMMA ProbesAgree ==
  ASSUME NEW d \in Device, NEW m \in Machine, Safe(Told(d, FALSE), m),
         d.kind = "file" /\ ~d.readable =>
           ~(d.sparse /\ d.fs = "ext4") /\ d.offset = Probed(d, m, FALSE).offset,
         d.kind = "partition" => d.cached = d.uuid,
         d.closed => NoEncryption(Told(d, TRUE))
  PROVE  /\ Safe(Told(d, TRUE), m)
         /\ Probed(d, m, TRUE).uuid = Probed(d, m, FALSE).uuid
         /\ d.kind = "file" => Probed(d, m, TRUE).offset = Probed(d, m, FALSE).offset
<1> DEFINE t == Told(d, FALSE)
           r == Told(d, TRUE)
           e == Probed(d, m, FALSE)
           f == Probed(d, m, TRUE)
<1>0. ASSUME NEW b \in BOOLEAN
      PROVE  LET x == Told(d, b)
             IN  /\ x.kind = d.kind /\ x.size = d.size /\ x.active = d.active /\ x.fs = d.fs
                 /\ x.removable = d.removable /\ x.sparse = d.sparse /\ x.offset = d.offset
                 /\ x.readable <=> b \/ d.readable
                 /\ x.uuid = IF b \/ d.kind # "partition" THEN d.uuid ELSE d.cached
  BY ToldFacts
<1>1. /\ t.kind = d.kind /\ t.size = d.size /\ t.active = d.active /\ t.fs = d.fs
      /\ t.removable = d.removable /\ t.sparse = d.sparse /\ t.offset = d.offset
      /\ t.readable <=> d.readable
      /\ t.uuid = IF d.kind # "partition" THEN d.uuid ELSE d.cached
  BY <1>0
<1>2. /\ r.kind = d.kind /\ r.size = d.size /\ r.active = d.active /\ r.fs = d.fs
      /\ r.removable = d.removable /\ r.sparse = d.sparse /\ r.offset = d.offset
      /\ r.readable /\ r.uuid = d.uuid
  BY <1>0
<1>3. e \in Device /\ e.kind = d.kind /\ m.ram \in Nat BY ProbedFacts DEF Machine
<1>4. d.kind = "file" => e.offset # 0
  <2>1. Class(e, m.ram) = "valid_option" BY ProbedSafe
  <2> HIDE DEF e
  <2> QED BY <1>3, <2>1, ValidClass
<1>5. f.uuid = d.uuid /\ e.uuid = IF d.kind # "partition" THEN d.uuid ELSE d.cached
  BY ProbedFacts
<1>6. d.kind = "file" /\ d.fs # "other" =>
        /\ f.offset = d.offset
        /\ d.readable => e.offset = d.offset
  BY ProbedFacts
<1>7. /\ t.kind \in {"partition", "file"} /\ t.active /\ ~t.removable /\ t.size >= m.ram
      /\ t.uuid # 0 /\ (t.kind = "file" => t.fs \in {"ext4", "btrfs"} /\ OffsetKnown(t, m))
  BY DEF Safe
<1>8. NoEncryption(r)
  <2>1. CASE d.closed BY <2>1
  <2>2. CASE ~d.closed
    <3>1. d.kind = "file" \/ d.cached = d.uuid BY <1>1, <1>7
    <3> QED BY <2>2, <3>1, SafeAsTold
  <2> QED BY <2>1, <2>2
<1>9. d.kind = "file" => d.offset = e.offset
  BY <1>1, <1>6, <1>7
<1> HIDE DEF t, r, e, f
<1>10. d.kind = "file" => OffsetKnown(r, m)
  <2> SUFFICES ASSUME d.kind = "file" PROVE OffsetKnown(r, m)
    OBVIOUS
  <2>1. r.offset # 0 BY <1>2, <1>4, <1>9
  <2>2. r.fs = "ext4" => ~r.sparse
    <3>1. CASE d.readable BY <1>1, <1>2, <1>7, <3>1 DEF OffsetKnown
    <3>2. CASE ~d.readable BY <1>2, <3>2
    <3> QED BY <3>1, <3>2
  <2> QED BY <1>2, <2>1, <2>2 DEF OffsetKnown
<1>11. Safe(r, m) BY <1>1, <1>2, <1>7, <1>8, <1>10 DEF Safe
<1>12. f.uuid = e.uuid /\ (d.kind = "file" => f.offset = e.offset)
  BY <1>1, <1>5, <1>6, <1>7, <1>9
<1> QED BY <1>11, <1>12 DEF r, e, f

(* A probe leaves a swap its place, its name and its size.                 *)
LEMMA SamePlace ==
  ASSUME NEW m \in Machine, NEW root \in BOOLEAN, NEW i \in DOMAIN ProfileOf(m, root).devs
  PROVE  /\ i \in DOMAIN m.devs /\ m.devs[i] \in Device
         /\ ProfileOf(m, root).devs[i] = Probed(m.devs[i], m, root)
         /\ ProfileOf(m, root).devs[i].path = m.devs[i].path
         /\ ProfileOf(m, root).devs[i].kind = m.devs[i].kind
         /\ ProfileOf(m, root).devs[i].size = m.devs[i].size
         /\ root \/ m.devs[i].kind # "partition" =>
              ProfileOf(m, root).devs[i].uuid = m.devs[i].uuid
<1> DEFINE p == ProfileOf(m, root)
           d == m.devs[i]
<1>1. d \in Device /\ i \in DOMAIN m.devs /\ p.devs[i] = Probed(d, m, root) BY ProfileFacts
<1> HIDE DEF d, p
<1>2. /\ Probed(d, m, root).path = d.path /\ Probed(d, m, root).kind = d.kind
      /\ Probed(d, m, root).size = d.size
      /\ root \/ d.kind # "partition" => Probed(d, m, root).uuid = d.uuid
  BY <1>1, ProbedFacts
<1>3. /\ p.devs[i].path = d.path /\ p.devs[i].kind = d.kind
      /\ p.devs[i].size = d.size
      /\ root \/ d.kind # "partition" => p.devs[i].uuid = d.uuid
  BY <1>1, <1>2
<1> QED BY <1>1, <1>3 DEF d, p

(* No two swaps of a profile have the same path.                           *)
LEMMA OnlyMatch ==
  ASSUME NEW m \in Machine, Sound(m), NEW root \in BOOLEAN
  PROVE  \A i, k \in DOMAIN ProfileOf(m, root).devs :
           ProfileOf(m, root).devs[i].path = ProfileOf(m, root).devs[k].path => i = k
<1> SUFFICES ASSUME NEW i \in DOMAIN ProfileOf(m, root).devs,
                    NEW k \in DOMAIN ProfileOf(m, root).devs,
                    ProfileOf(m, root).devs[i].path = ProfileOf(m, root).devs[k].path
             PROVE  i = k
  OBVIOUS
<1>1. i \in DOMAIN m.devs /\ k \in DOMAIN m.devs /\ m.devs[i].path = m.devs[k].path
  BY SamePlace
<1> QED BY <1>1 DEF Sound

LEMMA CheckLink == ASSUME LinkInv, Check PROVE LinkInv'
<1>1. Inv' BY CheckStep DEF LinkInv
<1>2. /\ machine' = machine /\ asOf' = machine /\ plan' = None /\ outcome = None /\ outcome' = outcome
  BY DEF Check
<1>3. Kin(machine, machine) BY DEF Kin
<1> QED BY <1>1, <1>2, <1>3 DEF LinkInv, TracedPlan, KinInv, ListedInv, RefusedForAReason

LEMMA PlanLink == ASSUME LinkInv, PlanTarget \/ PlanFile PROVE LinkInv'
<1>1. Inv' BY PlanTargetStep, PlanFileStep DEF LinkInv
<1>2. /\ outcome = None /\ seen # None /\ UNCHANGED <<machine, seen, outcome, asOf>>
  BY DEF PlanTarget, PlanFile
<1>3. TracedPlan'
  <2>1. CASE PlanTarget
    <3>1. PICK i \in DOMAIN seen.devs : Selectable(seen.status[i]) /\ plan' = TargetPlan(i)
      BY <2>1 DEF PlanTarget, TargetPlan
    <3>2. plan'.kind # "request"
      <4>1. asOf \in Machine /\ seen = ProfileOf(asOf, FALSE) BY <1>2 DEF LinkInv, Inv, SeenInv
      <4>2. Swaps(seen.devs) BY <4>1, ProfileFacts
      <4>3. seen.devs[i].kind # "request" BY <4>2 DEF Swaps, Device
      <4> QED BY <3>1, <4>3 DEF TargetPlan
    <3>3. TargetPlan(i)' = TargetPlan(i) BY <1>2 DEF TargetPlan, TargetOk
    <3> QED BY <1>2, <3>1, <3>2, <3>3 DEF TracedPlan
  <2>2. CASE PlanFile
    <3>1. PICK n \in {Snapped(s) : s \in Sizes \cup ToSet(SuggestedSizes(seen.ram))} :
            plan' = [kind |-> "request", path |-> "/swap.img", uuid |-> 0, offset |-> 0,
                     size |-> n, ok |-> FileOk(seen, n)]
      BY <2>2 DEF PlanFile
    <3> QED BY <1>2, <3>1 DEF TracedPlan
  <2> QED BY <2>1, <2>2
<1> QED BY <1>1, <1>2, <1>3 DEF LinkInv, KinInv, ListedInv, RefusedForAReason

LEMMA OthersLink == ASSUME LinkInv, Recreate \/ Reformat \/ SwapOff \/ FillDisk PROVE LinkInv'
<1>1. Inv' BY OthersStep DEF LinkInv
<1>2. outcome = None /\ outcome' = outcome /\ UNCHANGED <<seen, plan, asOf>>
  BY DEF Recreate, Reformat, SwapOff, FillDisk, Change
<1>3. machine \in Machine /\ machine.devs \in Seq(Device) /\ Sound(machine)
  BY DEF LinkInv, Inv, Machine
<1>4. Sound(machine') /\ Kin(machine, machine')
  <2>1. ASSUME NEW i \in DOMAIN machine.devs, NEW d, machine' = [machine EXCEPT !.devs[i] = d],
               d.path = machine.devs[i].path, d.kind = machine.devs[i].kind,
               d.fs = machine.devs[i].fs, d.readable = machine.devs[i].readable,
               d.removable = machine.devs[i].removable, d.size = machine.devs[i].size,
               d.mapper = machine.devs[i].mapper
        PROVE  Sound(machine') /\ Kin(machine, machine')
    <3>1. machine'.devs = [machine.devs EXCEPT ![i] = d]
          /\ machine'.root = machine.root /\ machine'.real = machine.real
          /\ machine'.fstab = machine.fstab
      BY <1>3, <2>1 DEF Machine
    <3>2. DOMAIN machine'.devs = DOMAIN machine.devs
          /\ \A j \in DOMAIN machine.devs : machine'.devs[j] = IF j = i THEN d ELSE machine.devs[j]
      BY <1>3, <3>1
    <3> QED BY <1>3, <2>1, <3>1, <3>2 DEF Sound, Kin
  <2>2. CASE Recreate
    <3>1. PICK i \in DOMAIN machine.devs, o \in Offsets :
            machine' = [machine EXCEPT !.devs[i].offset = o]
      BY <2>2 DEF Recreate, Change
    <3> DEFINE d == [machine.devs[i] EXCEPT !.offset = o]
    <3>2. machine' = [machine EXCEPT !.devs[i] = d] BY <1>3, <3>1
    <3>3. machine.devs[i] \in Device BY <1>3
    <3>4. /\ d.path = machine.devs[i].path /\ d.kind = machine.devs[i].kind
          /\ d.fs = machine.devs[i].fs /\ d.readable = machine.devs[i].readable
          /\ d.removable = machine.devs[i].removable /\ d.size = machine.devs[i].size
          /\ d.mapper = machine.devs[i].mapper
      BY <3>3 DEF Device
    <3> HIDE DEF d
    <3> QED BY <2>1, <3>2, <3>4
  <2>3. CASE Reformat
    <3>1. PICK i \in DOMAIN machine.devs : machine' = [machine EXCEPT !.devs[i].uuid = 8]
      BY <2>3 DEF Reformat, Change
    <3> DEFINE d == [machine.devs[i] EXCEPT !.uuid = 8]
    <3>2. machine' = [machine EXCEPT !.devs[i] = d] BY <1>3, <3>1
    <3>3. machine.devs[i] \in Device BY <1>3
    <3>4. /\ d.path = machine.devs[i].path /\ d.kind = machine.devs[i].kind
          /\ d.fs = machine.devs[i].fs /\ d.readable = machine.devs[i].readable
          /\ d.removable = machine.devs[i].removable /\ d.size = machine.devs[i].size
          /\ d.mapper = machine.devs[i].mapper
      BY <3>3 DEF Device
    <3> HIDE DEF d
    <3> QED BY <2>1, <3>2, <3>4
  <2>4. CASE SwapOff \/ FillDisk
    <3>1. machine' = [machine EXCEPT !.free = 0]
          \/ \E d : machine' = [machine EXCEPT !.off = @ \cup {d}]
      BY <2>4 DEF SwapOff, FillDisk, Change
    <3>2. machine'.devs = machine.devs /\ machine'.root = machine.root
          /\ machine'.real = machine.real /\ machine'.fstab = machine.fstab
      BY <1>3, <3>1 DEF Machine
    <3> QED BY <1>3, <3>2 DEF Sound, Kin
  <2> QED BY <2>2, <2>3, <2>4
<1>5. KinInv'
  <2>1. ASSUME Kin(asOf, machine) PROVE Kin(asOf, machine')
    BY <1>4, <2>1 DEF Kin
  <2> QED BY <1>2, <2>1 DEF LinkInv, KinInv
<1>6. TracedPlan' BY <1>2 DEF LinkInv, TracedPlan, TargetPlan
<1> QED BY <1>1, <1>2, <1>4, <1>5, <1>6 DEF LinkInv, ListedInv, RefusedForAReason

(* Whatever the helper decides, it has decided.                            *)
LEMMA RefusedOrAccepted ==
  /\ Refused # None
  /\ \A d \in Device : Accepted(d) # None
<1>1. Refused \in [accepted : BOOLEAN, path : Paths \cup {""}, uuid : Nat, offset : Nat]
  BY DEF Refused
<1>2. ASSUME NEW d \in Device
      PROVE  Accepted(d) \in [accepted : BOOLEAN, path : Paths \cup {""}, uuid : Nat, offset : Nat]
  BY DEF Accepted, Device
<1> QED BY <1>1, <1>2, NoneAssumption

LEMMA DecidedByValidate == ASSUME Inv, ValidateTarget PROVE outcome' # None
<1> DEFINE p    == ProfileOf(machine, TRUE)
           live == Matches(p, plan.path, plan.kind)
           j    == CHOOSE k \in live : TRUE
<1>1. outcome' = Refused \/ (live # {} /\ outcome' = Accepted(p.devs[j]))
  <2>1. outcome' = IF live # {} /\ TargetOk(p, j) /\ p.devs[j].uuid = plan.uuid
                      /\ (p.devs[j].kind = "file" => p.devs[j].offset = plan.offset)
                   THEN Accepted(p.devs[j]) ELSE Refused
    BY DEF ValidateTarget, Validated
  <2> HIDE DEF p, live, j
  <2> QED BY <2>1
<1>2. live # {} => j \in DOMAIN p.devs BY DEF Matches
<1>3. Swaps(p.devs)
  <2>1. machine \in Machine BY DEF Inv
  <2> QED BY <2>1, ProfileFacts
<1> HIDE DEF p, live, j
<1>4. live # {} => p.devs[j] \in Device BY <1>2, <1>3 DEF Swaps
<1> QED BY <1>1, <1>4, RefusedOrAccepted

LEMMA DecidedByEnsure == ASSUME Inv, EnsureFile PROVE outcome' # None
<1>1. outcome' = Refused \/ outcome' = Selected(machine') BY DEF EnsureFile
<1>2. machine' \in Machine BY EnsureFileStep DEF Inv
<1> DEFINE p     == ProfileOf(machine', TRUE)
           files == Matches(p, "/swap.img", "file")
           i     == CHOOSE k \in files : TRUE
<1>3. Selected(machine') = Refused \/ (files # {} /\ Selected(machine') = Accepted(p.devs[i]))
  <2>1. Selected(machine') = IF files # {} /\ TargetOk(p, i) THEN Accepted(p.devs[i]) ELSE Refused
    BY DEF Selected
  <2> HIDE DEF p, files, i
  <2> QED BY <2>1
<1>4. files # {} => i \in DOMAIN p.devs BY DEF Matches
<1>5. Swaps(p.devs) BY <1>2, ProfileFacts
<1> HIDE DEF p, files, i
<1>6. files # {} => p.devs[i] \in Device BY <1>4, <1>5 DEF Swaps
<1> QED BY <1>1, <1>3, <1>6, RefusedOrAccepted

(* A safe swap whose settings do not conflict may be taken.                *)
LEMMA SafeIsTaken ==
  ASSUME NEW m \in Machine, m.stack, NEW i \in DOMAIN ProfileOf(m, TRUE).devs,
         Safe(Told(m.devs[i], TRUE), m),
         NoConflict(ProfileOf(m, TRUE), ProfileOf(m, TRUE).devs[i])
  PROVE  TargetOk(ProfileOf(m, TRUE), i)
<1> DEFINE p == ProfileOf(m, TRUE)
<1>1. /\ p.stack = m.stack /\ p.ram = m.ram /\ m.ram \in Nat /\ Swaps(p.devs)
      /\ p.status = Status(p.devs, m.ram)
  BY ProfileFacts DEF ProfileOf, Machine
<1>2. Selectable(p.status[i]) BY ProfileFacts
<1>3. RecommendedOf(p.devs, p.ram) # 0
  <2> HIDE DEF p
  <2>1. i \in DOMAIN p.devs BY DEF p
  <2>2. Class(p.devs[i], p.ram) = "valid_option" BY <1>1, <1>2, <2>1, SelectableIsValid
  <2>3. p.devs[i] \in Device BY <1>1, <2>1 DEF Swaps
  <2>4. p.devs[i].kind \in {"partition", "file"} BY <1>1, <2>2, <2>3, ValidClass
  <2>5. i \in Valid(p.devs, p.ram, p.devs[i].kind) BY <2>1, <2>2 DEF Valid
  <2>6. Valid(p.devs, p.ram, "partition") # {} \/ Valid(p.devs, p.ram, "file") # {}
    BY <2>4, <2>5
  <2>7. RecommendedOf(p.devs, p.ram)
          \in Valid(p.devs, p.ram, "partition") \cup Valid(p.devs, p.ram, "file")
    BY <1>1, <2>6, RecommendedFacts
  <2> QED BY <1>1, <2>7 DEF Valid, Swaps
<1> QED BY <1>1, <1>2, <1>3 DEF TargetOk

(* _validate_target_live: a refusal has its reason, and a file that is     *)
(* accepted was one the user could see the offset of.                      *)
LEMMA ValidateLink == ASSUME LinkInv, ValidateTarget PROVE LinkInv'
<1> DEFINE p    == ProfileOf(machine, TRUE)
           live == Matches(p, plan.path, plan.kind)
           j    == CHOOSE k \in live : TRUE
<1>1. Inv' BY ValidateTargetStep DEF LinkInv
<1>2. /\ plan # None /\ plan.ok /\ plan.kind # "request" /\ outcome = None
      /\ UNCHANGED <<machine, seen, plan, asOf>>
  BY DEF ValidateTarget
<1>3. /\ machine \in Machine /\ Sound(machine) /\ seen # None
      /\ asOf \in Machine /\ Sound(asOf) /\ Kin(asOf, machine) /\ seen = ProfileOf(asOf, FALSE)
  BY <1>2 DEF LinkInv, Inv, SeenInv, TracedPlan, KinInv
<1>4. PICK i \in DOMAIN seen.devs : Selectable(seen.status[i]) /\ plan = TargetPlan(i)
  BY <1>2 DEF LinkInv, TracedPlan
<1>5. /\ plan.path = seen.devs[i].path /\ plan.kind = seen.devs[i].kind
      /\ plan.uuid = seen.devs[i].uuid /\ plan.offset = seen.devs[i].offset
      /\ TargetOk(seen, i)
  BY <1>2, <1>4 DEF TargetPlan
<1>6. outcome' = IF live # {} /\ TargetOk(p, j) /\ p.devs[j].uuid = plan.uuid
                    /\ (p.devs[j].kind = "file" => p.devs[j].offset = plan.offset)
                 THEN Accepted(p.devs[j]) ELSE Refused
  BY DEF ValidateTarget, Validated
<1>7. outcome' # None BY <1>1, DecidedByValidate DEF LinkInv
<1>8. /\ i \in DOMAIN asOf.devs /\ asOf.devs[i] \in Device
      /\ seen.devs[i] = Probed(asOf.devs[i], asOf, FALSE)
      /\ Safe(Told(asOf.devs[i], FALSE), asOf)
      /\ DOMAIN seen.devs = DOMAIN Listed(asOf)
  BY <1>3, <1>4, ProfileFacts
<1>9. seen.devs[i].path = asOf.devs[i].path /\ seen.devs[i].kind = asOf.devs[i].kind
  BY <1>3, <1>4, SamePlace
<1>10. ListedInv'
  <2> SUFFICES ASSUME outcome'.accepted, NEW k \in DOMAIN machine.devs,
                      machine.devs[k].path = outcome'.path
               PROVE  /\ machine.devs[k].kind = "file" /\ ~machine.devs[k].readable => machine.fstab
                      /\ machine.devs[k].kind = "partition" =>
                           plan.kind = "partition" /\ ~machine.devs[k].mapper
    BY <1>2 DEF ListedInv
  <2>1. outcome'.path = plan.path
    BY <1>1, <1>2, <1>7 DEF Inv, OutcomeInv, WrittenIsLive
  <2>2. k = i
    <3>1. i \in DOMAIN machine.devs /\ machine.devs[i].path = asOf.devs[i].path
      BY <1>3, <1>8 DEF Kin
    <3>2. machine.devs[k].path = machine.devs[i].path BY <1>5, <1>9, <2>1, <3>1
    <3> QED BY <1>3, <3>1, <3>2 DEF Sound
  <2> DEFINE d == asOf.devs[i]
             t == Told(d, FALSE)
  <2>3. /\ machine.devs[k].kind = d.kind /\ machine.devs[k].mapper = d.mapper
        /\ machine.devs[k].readable = d.readable /\ machine.fstab = asOf.fstab
    BY <1>3, <1>8, <2>2 DEF Kin
  <2>4. t.kind = d.kind /\ (t.readable <=> d.readable)
    <3>1. ASSUME NEW b \in BOOLEAN
          PROVE  Told(d, b).kind = d.kind /\ (Told(d, b).readable <=> b \/ d.readable)
      BY <1>8, ToldFacts
    <3> QED BY <3>1
  <2>5. d.kind = "partition" => ~d.mapper BY <1>8, SafeAsTold
  <2> HIDE DEF t
  <2>6. d.kind = "file" /\ ~d.readable => asOf.fstab
    BY <1>8, <2>4 DEF Safe, OffsetKnown, t
  <2> QED BY <1>5, <1>9, <2>3, <2>5, <2>6
<1>11. RefusedForAReason'
  <2> SUFFICES ASSUME ~outcome'.accepted, machine = asOf,
                      ~ \E d \in ToSet(machine.devs) :
                          /\ d.path = plan.path /\ d.kind = plan.kind
                          /\ \/ /\ d.kind = "file" /\ ~d.readable
                                /\ (d.sparse /\ d.fs = "ext4") \/ d.offset # plan.offset
                             \/ d.kind = "partition" /\ d.cached # d.uuid
                             \/ d.closed /\ ~NoEncryption(Told(d, TRUE))
               PROVE  FALSE
    BY <1>2 DEF RefusedForAReason
  <2> DEFINE d == machine.devs[i]
  <2>1. d \in ToSet(machine.devs) /\ d \in Device BY <1>8 DEF ToSet
  <2>2. /\ d.kind = "file" /\ ~d.readable =>
             ~(d.sparse /\ d.fs = "ext4") /\ d.offset = Probed(d, machine, FALSE).offset
        /\ d.kind = "partition" => d.cached = d.uuid
        /\ d.closed => NoEncryption(Told(d, TRUE))
    BY <1>5, <1>8, <1>9, <2>1
  <2>3. /\ Safe(Told(d, TRUE), machine)
        /\ Probed(d, machine, TRUE).uuid = seen.devs[i].uuid
        /\ d.kind = "file" => Probed(d, machine, TRUE).offset = seen.devs[i].offset
    <3>1. seen.devs[i] = Probed(d, machine, FALSE) /\ Safe(Told(d, FALSE), machine)
      BY <1>8
    <3> HIDE DEF d
    <3> QED BY <1>3, <2>1, <2>2, <3>1, ProbesAgree
  <2>4. /\ DOMAIN p.devs = DOMAIN seen.devs
        /\ p.stack = seen.stack /\ p.cmd = seen.cmd /\ p.init = seen.init
        /\ machine.stack = seen.stack
    BY <1>3 DEF ProfileOf
  <2> HIDE DEF p, j
  <2>5. /\ i \in DOMAIN p.devs /\ p.devs[i] = Probed(d, machine, TRUE)
        /\ p.devs[i].path = d.path /\ p.devs[i].kind = d.kind
    BY <1>3, <1>4, <2>4, SamePlace DEF p
  <2>6. /\ p.devs[i].path = plan.path /\ p.devs[i].kind = plan.kind
        /\ p.devs[i].uuid = plan.uuid
        /\ plan.kind = "file" => p.devs[i].offset = plan.offset
    BY <1>5, <1>9, <2>3, <2>5
  <2>7. live = {i}
    <3>1. i \in live BY <2>5, <2>6 DEF Matches
    <3>2. \A k \in DOMAIN p.devs : p.devs[k].path = p.devs[i].path => k = i
      BY <1>3, <2>5, OnlyMatch DEF p
    <3> QED BY <2>6, <3>1, <3>2 DEF Matches
  <2>8. TargetOk(p, i)
    <3>1. seen.stack /\ NoConflict(seen, seen.devs[i]) BY <1>5 DEF TargetOk
    <3>2. NoConflict(p, p.devs[i])
      BY <1>5, <2>4, <2>6, <3>1 DEF NoConflict
    <3>3. machine.stack BY <2>4, <3>1
    <3> QED BY <1>3, <2>3, <2>5, <3>2, <3>3, SafeIsTaken DEF p
  <2>9. j = i BY <2>7 DEF j
  <2>10. outcome' = Accepted(p.devs[i]) BY <1>6, <2>6, <2>7, <2>8, <2>9
  <2> QED BY <2>10 DEF Accepted
<1>12. KinInv' BY <1>2, <1>3, <1>7 DEF KinInv
<1>13. TracedPlan' BY <1>2 DEF LinkInv, TracedPlan, TargetPlan
<1> QED BY <1>1, <1>2, <1>3, <1>10, <1>11, <1>12, <1>13 DEF LinkInv

(* The new file takes the place of the old one, and is a sound swap.       *)
LEMMA NewFileSound ==
  ASSUME NEW m \in Machine, Sound(m), NEW size \in Nat, size >= 1, NEW o \in Offsets
  PROVE  LET n == WithNewFile(m, size, o)
         IN  /\ Sound(n) /\ n.root = m.root /\ n.real = size /\ n.ram = m.ram
             /\ n.stack = m.stack /\ n.cmd = m.cmd /\ n.init = m.init
             /\ \E k \in DOMAIN n.devs : /\ n.devs[k].path = "/swap.img"
                                        /\ n.devs[k].offset = o /\ ~n.devs[k].sparse
<1> DEFINE old   == {i \in DOMAIN m.devs : m.devs[i].path = "/swap.img"}
           at    == IF old = {} THEN Len(m.devs) + 1 ELSE CHOOSE i \in old : TRUE
           fresh == [path |-> "/swap.img", kind |-> "file", active |-> TRUE,
                     removable |-> FALSE, uuid |-> m.rootUuid, cached |-> 0, fs |-> m.root,
                     crypttab |-> "no", named |-> 0, closed |-> FALSE, lsblk |-> FALSE,
                     mapper |-> FALSE, dm |-> "none", badtab |-> FALSE, size |-> 0,
                     offset |-> 0, sparse |-> FALSE, readable |-> FALSE]
           base  == IF old = {} THEN fresh ELSE m.devs[at]
           new   == [base EXCEPT !.size = size - 1, !.offset = o, !.sparse = FALSE,
                                 !.readable = FALSE]
           devs  == IF old = {} THEN Append(m.devs, new) ELSE [m.devs EXCEPT ![at] = new]
           n     == WithNewFile(m, size, o)
<1>1. WithNewFile(m, size, o) = [m EXCEPT !.devs = devs, !.real = size, !.free = @ - size]
  <2>1. WithNewFile(m, size, o) =
          [m EXCEPT !.devs = IF old = {} THEN Append(@, new) ELSE [@ EXCEPT ![at] = new],
                    !.real = size, !.free = @ - size]
    BY DEF WithNewFile
  <2> QED BY <2>1 DEF Machine
<1>2. m.devs \in Seq(Device) BY DEF Machine
<1>3. /\ new.path = "/swap.img" /\ new.kind = "file" /\ ~new.removable /\ new.fs = m.root
      /\ new.size + 1 = size /\ new.offset = o /\ ~new.sparse
  <2>1. size - 1 + 1 = size OBVIOUS
  <2>2. CASE old = {} BY <2>1, <2>2
  <2>3. CASE old # {}
    <3>1. at \in DOMAIN m.devs /\ m.devs[at].path = "/swap.img" BY <2>3
    <3>2. /\ base = m.devs[at] /\ base \in Device BY <1>2, <2>3, <3>1
    <3>3. base.path = "/swap.img" /\ base.kind = "file" /\ ~base.removable /\ base.fs = m.root
      BY <3>1, <3>2 DEF Sound
    <3> HIDE DEF base
    <3> QED BY <2>1, <3>2, <3>3 DEF Device
  <2> QED BY <2>2, <2>3
<1> HIDE DEF new
<1>4. /\ at \in DOMAIN devs /\ devs[at] = new
      /\ \A i \in DOMAIN devs : i # at => i \in DOMAIN m.devs /\ devs[i] = m.devs[i]
      /\ \A i \in DOMAIN devs : i # at => m.devs[i].path # "/swap.img"
  <2>1. CASE old = {}
    <3>1. at = Len(m.devs) + 1 /\ devs = Append(m.devs, new) BY <2>1
    <3>2. /\ DOMAIN m.devs = 1..Len(m.devs) /\ Len(m.devs) \in Nat
          /\ DOMAIN devs = 1..(Len(m.devs) + 1) /\ devs[Len(m.devs) + 1] = new
          /\ \A i \in 1..Len(m.devs) : devs[i] = m.devs[i]
      BY <1>2, <3>1
    <3>3. \A i \in DOMAIN m.devs : m.devs[i].path # "/swap.img" BY <2>1
    <3> HIDE DEF devs, at, old
    <3> QED BY <3>1, <3>2, <3>3
  <2>2. CASE old # {}
    <3>1. at \in old /\ devs = [m.devs EXCEPT ![at] = new] BY <2>2
    <3>2. at \in DOMAIN m.devs /\ m.devs[at].path = "/swap.img" BY <3>1
    <3>3. \A i \in DOMAIN m.devs : m.devs[i].path = "/swap.img" => i = at BY <3>2 DEF Sound
    <3> HIDE DEF devs, at, old
    <3> QED BY <1>2, <3>1, <3>2, <3>3
  <2> QED BY <2>1, <2>2
<1> HIDE DEF devs, at
<1>5. /\ n.devs = devs /\ n.root = m.root /\ n.real = size /\ n.ram = m.ram
      /\ n.stack = m.stack /\ n.cmd = m.cmd /\ n.init = m.init
  BY <1>1 DEF Machine
<1> HIDE DEF n
<1>6. Sound(n)
  <2>1. \A i \in DOMAIN devs : devs[i].path = "/swap.img" => i = at BY <1>4
  <2>2. ASSUME NEW i \in DOMAIN devs, NEW j \in DOMAIN devs, devs[i].path = devs[j].path
        PROVE  i = j
    <3>1. CASE i = at \/ j = at BY <1>3, <1>4, <2>1, <2>2, <3>1
    <3>2. CASE i # at /\ j # at BY <1>4, <2>2, <3>2 DEF Sound
    <3> QED BY <3>1, <3>2
  <2> QED BY <1>3, <1>4, <1>5, <2>1, <2>2 DEF Sound
<1>7. \E k \in DOMAIN n.devs : /\ n.devs[k].path = "/swap.img"
                              /\ n.devs[k].offset = o /\ ~n.devs[k].sparse
  BY <1>3, <1>4, <1>5
<1> QED BY <1>5, <1>6, <1>7 DEF n

(* _ensure_managed_swap_file refuses, or leaves a sound machine with a     *)
(* swap file of the size it was asked for.                                 *)
LEMMA EnsureCases ==
  ASSUME Inv, Sound(machine), EnsureFile
  PROVE  /\ plan # None /\ plan.kind = "request" /\ plan.ok /\ outcome = None
         /\ UNCHANGED <<seen, plan, asOf>>
         /\ \/ /\ outcome' = Refused /\ machine' = machine
               /\ machine.root # "ext4"
                  \/ ~PreflightPasses(machine.free, machine.real, plan.size)
            \/ /\ outcome' = Selected(machine')
               /\ Sound(machine') /\ machine'.fstab /\ "/swap.img" \notin machine'.off
               /\ machine.root = "ext4" /\ machine'.root = "ext4"
               /\ machine'.ram = machine.ram /\ machine'.stack = machine.stack
               /\ machine'.cmd = machine.cmd /\ machine'.init = machine.init
               /\ IF machine.real = plan.size THEN machine'.devs = machine.devs
                  ELSE \E k \in DOMAIN machine'.devs :
                         /\ machine'.devs[k].path = "/swap.img"
                         /\ machine'.devs[k].offset # 0 /\ ~machine'.devs[k].sparse
<1>1. /\ plan # None /\ plan.kind = "request" /\ plan.ok /\ outcome = None
      /\ UNCHANGED <<seen, plan, asOf>>
  BY DEF EnsureFile
<1>2. machine \in Machine /\ plan.size \in Nat /\ plan.size >= 1
  BY <1>1 DEF Inv, PlanInv, Plan
<1>3. CASE machine.root # "ext4" \/ ~PreflightPasses(machine.free, machine.real, plan.size)
  BY <1>1, <1>3 DEF EnsureFile
<1>4. CASE machine.root = "ext4" /\ PreflightPasses(machine.free, machine.real, plan.size)
  <2>1. PICK o \in Offsets :
          /\ machine' = [IF machine.real = plan.size THEN machine
                         ELSE WithNewFile(machine, plan.size, o)
                           EXCEPT !.fstab = TRUE, !.off = @ \ {"/swap.img"}]
          /\ outcome' = Selected(machine')
    BY <1>4 DEF EnsureFile
  <2> DEFINE m == IF machine.real = plan.size THEN machine
                  ELSE WithNewFile(machine, plan.size, o)
  <2>2. m \in Machine
    <3>1. CASE machine.real = plan.size BY <1>2, <3>1
    <3>2. CASE machine.real # plan.size
      <4>1. machine.free \in Nat /\ GiB \in Nat BY <1>2, UnitAssumption DEF Machine
      <4>2. machine.free >= plan.size
        BY <1>2, <1>4, <3>2, <4>1 DEF PreflightPasses, Reserve
      <4> QED BY <1>2, <3>2, <4>2, NewFileFacts
    <3> QED BY <3>1, <3>2
  <2>3. /\ Sound(m) /\ m.root = machine.root /\ m.ram = machine.ram /\ m.stack = machine.stack
        /\ m.cmd = machine.cmd /\ m.init = machine.init
        /\ IF machine.real = plan.size THEN m.devs = machine.devs
           ELSE \E k \in DOMAIN m.devs : /\ m.devs[k].path = "/swap.img"
                                         /\ m.devs[k].offset # 0 /\ ~m.devs[k].sparse
    <3>1. CASE machine.real = plan.size BY <3>1
    <3>2. CASE machine.real # plan.size
      <4>1. m = WithNewFile(machine, plan.size, o) BY <3>2
      <4>2. o # 0 BY ChoiceAssumption
      <4> HIDE DEF m
      <4> QED BY <1>2, <3>2, <4>1, <4>2, NewFileSound
    <3> QED BY <3>1, <3>2
  <2>4. machine' = [m EXCEPT !.fstab = TRUE, !.off = @ \ {"/swap.img"}] BY <2>1
  <2> HIDE DEF m
  <2>5. /\ machine'.devs = m.devs /\ machine'.root = m.root /\ machine'.real = m.real
        /\ machine'.ram = m.ram /\ machine'.stack = m.stack /\ machine'.cmd = m.cmd
        /\ machine'.init = m.init /\ machine'.fstab /\ "/swap.img" \notin machine'.off
    BY <2>2, <2>4 DEF Machine
  <2>6. Sound(machine') BY <2>3, <2>5 DEF Sound
  <2> QED BY <1>1, <1>4, <2>1, <2>3, <2>5, <2>6
<1> QED BY <1>1, <1>3, <1>4

LEMMA EnsureLink == ASSUME LinkInv, EnsureFile PROVE LinkInv'
<1>1. Inv' BY EnsureFileStep DEF LinkInv
<1>2. Sound(machine) /\ Inv BY DEF LinkInv
<1>3. /\ plan # None /\ plan.kind = "request" /\ outcome = None
      /\ UNCHANGED <<seen, plan, asOf>>
      /\ Sound(machine')
      /\ outcome' = Refused \/ machine'.fstab
  BY <1>2, EnsureCases
<1>4. outcome' # None BY <1>2, DecidedByEnsure
<1>5. KinInv' BY <1>3, <1>4 DEF LinkInv, KinInv
<1>6. TracedPlan' BY <1>3 DEF LinkInv, TracedPlan, TargetPlan
<1>7. ListedInv'
  <2>1. CASE outcome' = Refused
    <3>1. ~outcome'.accepted BY <2>1 DEF Refused
    <3> QED BY <3>1 DEF ListedInv
  <2>2. CASE outcome' # Refused
    <3> SUFFICES ASSUME outcome'.accepted, NEW i \in DOMAIN machine'.devs,
                        machine'.devs[i].path = outcome'.path
                 PROVE  machine'.devs[i].kind = "file"
      BY <1>3, <2>2 DEF ListedInv
    <3>1. outcome'.path = plan'.path
      BY <1>1, <1>4 DEF Inv, OutcomeInv, WrittenIsLive
    <3>2. plan'.path = "/swap.img" BY <1>1, <1>3 DEF Inv, PlanInv
    <3> QED BY <1>3, <3>1, <3>2 DEF Sound
  <2> QED BY <2>1, <2>2
<1>8. RefusedForAReason' BY <1>3 DEF RefusedForAReason
<1> QED BY <1>1, <1>3, <1>5, <1>6, <1>7, <1>8 DEF LinkInv

LEMMA NextLink == LinkInv /\ [Next]_vars => LinkInv'
<1> SUFFICES ASSUME LinkInv, [Next]_vars PROVE LinkInv'
  OBVIOUS
<1>1. CASE UNCHANGED vars
  <2>1. Inv' BY NextInv DEF LinkInv
  <2> QED BY <1>1, <2>1
      DEF vars, LinkInv, TracedPlan, TargetPlan, KinInv, ListedInv, RefusedForAReason
<1>2. CASE Next
  BY <1>2, CheckLink, PlanLink, ValidateLink, EnsureLink, OthersLink DEF Next
<1> QED BY <1>1, <1>2

LEMMA LinkInvariance == Spec => []LinkInv
BY LinkInit, NextLink, PTL DEF Spec

(* A target plan that can be applied is refused on an unchanged machine    *)
(* only where the user was told less than root: for a file the user cannot *)
(* read, whose offset was borrowed wrongly or which has holes only root    *)
(* can see, for a partition blkid's cache knows by another UUID, and for a *)
(* swap that a closed crypttab says something of (_validate_target_live).  *)
THEOREM RefusedForAReasonCorrect == Spec => []RefusedForAReason
BY LinkInvariance, PTL DEF LinkInv

-----------------------------------------------------------------------------
(* What was accepted verifies *)

LEMMA BeginsItself == ASSUME NEW o \in Nat PROVE Begins(o, o)
<1>1. 10^0 = 1 OBVIOUS
<1>2. o \div 10^0 = o BY <1>1
<1> QED BY <1>2 DEF Begins

(* What root is told of a swap *)
AsRoot(d) == Told(d, TRUE)

(* The same swap with another entry in blkid's cache *)
Recached(d, e) == e = [d EXCEPT !.cached = e.cached]

(* A swap that root may take stays safe, for root and for a user who is    *)
(* told its UUID, when the settings become its own.                        *)
LEMMA SafeWhenSet ==
  ASSUME NEW m \in Machine, NEW d \in Device, Safe(AsRoot(d), m),
         d.kind = "file" /\ ~d.readable => m.fstab,
         NEW e \in Device, Recached(d, e),
         NEW root \in BOOLEAN,
         ~root /\ d.kind = "partition" => ~d.mapper /\ e.cached = d.uuid,
         NEW n \in Machine, n.ram = m.ram, n.fstab = m.fstab, n.cmd = n.init,
         n.cmd.uuid = d.uuid, n.cmd.offset = IF d.kind = "file" THEN d.offset ELSE 0
  PROVE  Safe(Told(e, root), n) /\ Told(e, root).uuid = d.uuid
<1> DEFINE r == Told(d, TRUE)
           t == Told(e, root)
<1>2. /\ e.kind = d.kind /\ e.active = d.active /\ e.removable = d.removable
      /\ e.size = d.size /\ e.uuid = d.uuid /\ e.fs = d.fs /\ e.offset = d.offset
      /\ e.sparse = d.sparse /\ e.readable = d.readable
      /\ e.crypttab = d.crypttab /\ e.named = d.named /\ e.lsblk = d.lsblk
      /\ e.mapper = d.mapper /\ e.dm = d.dm /\ e.badtab = d.badtab
  BY DEF Device, Recached
<1>3. ASSUME NEW x \in Device, NEW b \in BOOLEAN
      PROVE  LET y == Told(x, b)
                 v == IF b \/ x.kind # "partition" THEN x.uuid ELSE x.cached
             IN  /\ y.kind = x.kind /\ y.active = x.active /\ y.removable = x.removable
                 /\ y.size = x.size /\ y.fs = x.fs /\ y.offset = x.offset
                 /\ y.sparse = x.sparse /\ (y.readable <=> b \/ x.readable)
                 /\ y.uuid = v /\ y.lsblk = x.lsblk /\ y.mapper = x.mapper
                 /\ y.dm = IF b THEN x.dm ELSE "none"
                 /\ x.named \in {0, v} \/ y.crypttab = "no"
                 /\ y.crypttab \in {x.crypttab, "no"}
                 /\ (b /\ x.named \in {0, v}) => y.crypttab = x.crypttab
                 /\ y.badtab => x.badtab
                 /\ b => (y.badtab <=> x.badtab)
  BY ToldFacts
<1>4. /\ r.kind = d.kind /\ r.active = d.active /\ r.removable = d.removable
      /\ r.size = d.size /\ r.uuid = d.uuid /\ r.fs = d.fs /\ r.offset = d.offset
      /\ r.sparse = d.sparse /\ r.readable
      /\ r.lsblk = d.lsblk /\ r.mapper = d.mapper /\ r.dm = d.dm
      /\ (d.named \in {0, d.uuid} => r.crypttab = d.crypttab)
      /\ r.badtab <=> d.badtab
  BY <1>3
<1>5. /\ t.kind = d.kind /\ t.active = d.active /\ t.removable = d.removable
      /\ t.size = d.size /\ t.fs = d.fs /\ t.offset = d.offset /\ t.sparse = d.sparse
      /\ t.readable <=> root \/ d.readable
      /\ t.uuid = IF root \/ d.kind # "partition" THEN d.uuid ELSE e.cached
      /\ t.lsblk = d.lsblk /\ t.mapper = d.mapper /\ t.dm = IF root THEN d.dm ELSE "none"
      /\ t.badtab => d.badtab
      /\ d.named \in {0, t.uuid} \/ t.crypttab = "no"
      /\ t.crypttab \in {d.crypttab, "no"}
  BY <1>2, <1>3
<1> HIDE DEF r, t
<1>6. Safe(r, m) BY Zenon DEF r, AsRoot
<1>7. r.kind \in {"partition", "file"} /\ NoEncryption(r) BY <1>6 DEF Safe
<1>8. t.uuid = d.uuid BY <1>4, <1>5, <1>7
<1>9. NoEncryption(t)
  <2>1. t.crypttab = "no" BY <1>4, <1>5, <1>7, <1>8 DEF NoEncryption
  <2>2. ~t.lsblk BY <1>4, <1>5, <1>7 DEF NoEncryption
  <2>3. ASSUME t.mapper PROVE ~t.badtab /\ (t.kind = "partition" => t.dm = "others")
    <3>1. ~d.badtab /\ (d.kind = "partition" => d.dm = "others")
      BY <1>4, <1>5, <1>7, <2>3 DEF NoEncryption
    <3>2. d.kind = "partition" => root BY <1>5, <2>3
    <3> QED BY <1>5, <3>1, <3>2
  <2> QED BY <2>1, <2>2, <2>3 DEF NoEncryption
<1>10. d.kind = "file" => d.offset # 0 /\ (d.fs = "ext4" => ~d.sparse)
  BY <1>4, <1>6 DEF Safe, OffsetKnown
<1>11. ASSUME d.kind = "file" PROVE OffsetKnown(t, n)
  <2>1. CASE t.readable BY <1>5, <1>10, <1>11, <2>1 DEF OffsetKnown
  <2>2. CASE ~t.readable
    <3>1. n.fstab BY <1>5, <1>11, <2>2
    <3>2. n.cmd.offset = d.offset /\ n.init.offset = d.offset /\ n.init.uuid = d.uuid
      BY <1>11
    <3> QED BY <1>8, <1>10, <1>11, <2>2, <3>1, <3>2 DEF OffsetKnown
  <2> QED BY <2>1, <2>2
<1>12. Safe(t, n) BY <1>4, <1>5, <1>6, <1>8, <1>9, <1>11 DEF Safe
<1> QED BY <1>8, <1>12 DEF t

(* A reboot changes the settings and blkid's cache.                        *)
LEMMA RebootedFacts ==
  ASSUME NEW m \in Machine, NEW set \in Setting, NEW known \in BOOLEAN
  PROVE  LET n == Rebooted(m, set, known)
         IN  /\ n \in Machine /\ (Sound(m) => Sound(n))
             /\ n.off = m.off /\ n.ram = m.ram /\ n.fstab = m.fstab
             /\ n.cmd = set /\ n.init = set /\ DOMAIN n.devs = DOMAIN m.devs
             /\ \A i \in DOMAIN m.devs :
                  /\ Recached(m.devs[i], n.devs[i])
                  /\ n.devs[i] \in Device
                  /\ known => n.devs[i].cached = m.devs[i].uuid
<1> DEFINE Again(i) == [m.devs[i] EXCEPT !.cached = IF known THEN m.devs[i].uuid ELSE 0]
           devs == [i \in DOMAIN m.devs |-> Again(i)]
           n    == Rebooted(m, set, known)
<1>1. m.devs \in Seq(Device) BY DEF Machine
<1>2. \A i \in DOMAIN m.devs : m.devs[i] \in Device BY <1>1
<1>3. \A i \in DOMAIN m.devs :
        /\ Again(i) \in Device
        /\ Again(i).path = m.devs[i].path /\ Again(i).kind = m.devs[i].kind
        /\ Again(i).removable = m.devs[i].removable /\ Again(i).fs = m.devs[i].fs
        /\ Again(i).size = m.devs[i].size
        /\ Recached(m.devs[i], Again(i))
        /\ known => Again(i).cached = m.devs[i].uuid
  <2> SUFFICES ASSUME NEW i \in DOMAIN m.devs
               PROVE  /\ Again(i) \in Device
                      /\ Again(i).path = m.devs[i].path /\ Again(i).kind = m.devs[i].kind
                      /\ Again(i).removable = m.devs[i].removable
                      /\ Again(i).fs = m.devs[i].fs /\ Again(i).size = m.devs[i].size
                      /\ Recached(m.devs[i], Again(i))
                      /\ known => Again(i).cached = m.devs[i].uuid
    OBVIOUS
  <2> DEFINE d == m.devs[i]
             c == IF known THEN d.uuid ELSE 0
  <2>1. d \in Device BY <1>2
  <2>2. c \in Nat \ {ByPath} BY <2>1 DEF Device, ByPath
  <2>3. known => c = d.uuid OBVIOUS
  <2> HIDE DEF d, c
  <2>4. LET e == [d EXCEPT !.cached = c]
        IN  /\ e \in Device /\ e.path = d.path /\ e.kind = d.kind
            /\ e.removable = d.removable /\ e.fs = d.fs /\ e.size = d.size
            /\ e.cached = c /\ Recached(d, e)
    BY <2>1, <2>2 DEF Device, Recached
  <2>5. LET e == [d EXCEPT !.cached = c] IN known => e.cached = d.uuid BY <2>3, <2>4
  <2> QED BY <2>4, <2>5 DEF d, c
<1>4. n = [m EXCEPT !.cmd = set, !.init = set, !.devs = devs] BY DEF Rebooted
<1> HIDE DEF Again, n
<1>5. devs \in Seq(Device) BY <1>1, <1>3
<1>6. DOMAIN devs = DOMAIN m.devs /\ \A i \in DOMAIN m.devs : devs[i] = Again(i)
  OBVIOUS
<1> HIDE DEF devs
<1>7. /\ n \in Machine /\ n.devs = devs /\ n.off = m.off /\ n.ram = m.ram
      /\ n.fstab = m.fstab /\ n.cmd = set /\ n.init = set
      /\ n.root = m.root /\ n.real = m.real
  BY <1>4, <1>5 DEF Machine
<1>8. Sound(m) => Sound(n) BY <1>3, <1>6, <1>7 DEF Sound
<1>9. \A i \in DOMAIN m.devs : n.devs[i] = Again(i) BY <1>6, <1>7
<1> QED BY <1>3, <1>6, <1>7, <1>8, <1>9 DEF n

(* Then the errors about it are none.                                      *)
LEMMA NoErrorsWhenSet ==
  ASSUME NEW n \in Machine, NEW root \in BOOLEAN, NEW k \in DOMAIN ProfileOf(n, root).devs,
         Selectable(ProfileOf(n, root).status[k]), n.cmd = n.init,
         n.cmd.uuid = ProfileOf(n, root).devs[k].uuid,
         n.cmd.offset = IF n.devs[k].kind = "file" THEN n.devs[k].offset ELSE 0
  PROVE  Errors(ProfileOf(n, root).devs[k], n) = {}
<1> DEFINE p == ProfileOf(n, root)
           d == n.devs[k]
           e == p.devs[k]
<1>1. /\ d \in Device /\ e = Probed(d, n, root) /\ e.path = d.path /\ e.kind = d.kind
      /\ e \in Device
  <2>1. d \in Device /\ e = Probed(d, n, root) /\ e.path = d.path /\ e.kind = d.kind
    BY SamePlace
  <2> HIDE DEF d, e
  <2> QED BY <2>1, ProbedFacts
<1>2. Class(e, n.ram) = "valid_option"
  <2>1. Swaps(p.devs) /\ p.status = Status(p.devs, n.ram) /\ n.ram \in Nat
    BY ProfileFacts DEF Machine
  <2> HIDE DEF e, d
  <2>2. Class(p.devs[k], n.ram) = "valid_option" BY <2>1, SelectableIsValid
  <2> QED BY <2>2 DEF e
<1>3. e.kind = "file" => e.offset = d.offset
  <2>1. SUFFICES ASSUME d.kind = "file" PROVE e.offset = d.offset
    BY <1>1
  <2> HIDE DEF d, e, p
  <2>2. e \in Device /\ n.ram \in Nat /\ e.fs = d.fs
    BY <1>1, ProbedFacts DEF Machine
  <2>3. e.fs \in {"ext4", "btrfs"} /\ e.offset # 0
    BY <1>1, <1>2, <2>1, <2>2, ValidClass
  <2>4. IF root \/ d.readable THEN e.offset = d.offset ELSE e.offset = Borrowed(d, n)
    BY <1>1, <2>1, <2>2, <2>3, ProbedFacts
  <2>5. Borrowed(d, n) \in {0, n.cmd.offset} BY <1>1, BorrowedFacts
  <2>6. n.cmd.offset = d.offset BY <2>1 DEF d
  <2> QED BY <2>3, <2>4, <2>5, <2>6
<1>4. \E a \in ToSet(Listed(n)) : a.path = e.path
  <2>1. k \in DOMAIN Listed(n) /\ Listed(n)[k] = d BY ProfileFacts, ListedFacts
  <2>2. Listed(n)[k] \in ToSet(Listed(n)) BY <2>1 DEF ToSet
  <2> QED BY <1>1, <2>1, <2>2
<1>5. UuidOf(n.cmd) = e.uuid BY <1>1 DEF UuidOf, Device
<1>6. n.cmd.offset = IF e.kind = "file" THEN e.offset ELSE 0 BY <1>1, <1>3
<1>7. IF e.kind = "file" THEN Begins(e.offset, n.init.offset) ELSE n.init.offset = 0
  <2>1. n.cmd.offset \in Nat BY DEF Machine, Setting
  <2> HIDE DEF e
  <2> QED BY <1>6, <2>1, BeginsItself
<1>8. n.init.uuid = e.uuid BY <1>1
<1> HIDE DEF e
<1>9. Errors(e, n) = {} BY <1>4, <1>5, <1>6, <1>7, <1>8 DEF Errors
<1> QED BY <1>9 DEF e

(* What the helper accepted verifies after a reboot on which nothing else  *)
(* has changed: for root, for the user of a swap file and, of a partition, *)
(* for the user whose blkid has it in its cache, unless another swap is    *)
(* recommended (verify_json).                                              *)
THEOREM AcceptedVerifiesCorrect == Spec => []AcceptedVerifies
<1>1. ASSUME LinkInv PROVE AcceptedVerifies
  <2> SUFFICES ASSUME outcome # None, outcome.accepted, NEW root \in BOOLEAN,
                      NEW known \in BOOLEAN, root \/ known \/ plan.kind # "partition"
               PROVE  LET m == Rebooted(machine, [uuid |-> outcome.uuid,
                                                  offset |-> outcome.offset], known)
                          p == ProfileOf(m, root)
                          i == RecommendedOf(p.devs, p.ram)
                      IN  Verified(m, root) \/ (i # 0 /\ p.devs[i].path # outcome.path)
    BY DEF AcceptedVerifies
  <2> DEFINE set == [uuid |-> outcome.uuid, offset |-> outcome.offset]
             m   == Rebooted(machine, set, known)
  <2>1. machine \in Machine /\ machine.devs \in Seq(Device) /\ Sound(machine)
    BY <1>1 DEF LinkInv, Inv, Machine
  <2>2. PICK k \in DOMAIN machine.devs :
          /\ machine.devs[k].path = outcome.path /\ machine.devs[k].path \notin machine.off
          /\ Safe(Told(machine.devs[k], TRUE), machine)
          /\ outcome.uuid = machine.devs[k].uuid
          /\ outcome.offset = IF machine.devs[k].kind = "file" THEN machine.devs[k].offset ELSE 0
    BY <1>1 DEF LinkInv, Inv, OutcomeInv, WrittenIsLive, ToSet
  <2> DEFINE d == machine.devs[k]
             e == m.devs[k]
  <2>3. d \in Device BY <2>1
  <2>4. /\ d.kind = "file" /\ ~d.readable => machine.fstab
        /\ d.kind = "partition" => plan.kind = "partition" /\ ~d.mapper
    BY <1>1, <2>2 DEF LinkInv, ListedInv
  <2>5. set \in Setting
    <3>1. d.uuid \in Nat /\ d.offset \in Nat BY <2>3 DEF Device
    <3> QED BY <2>2, <3>1 DEF Setting
  <2>6. /\ m \in Machine /\ Sound(m) /\ m.off = machine.off /\ m.ram = machine.ram
        /\ m.fstab = machine.fstab /\ m.cmd = set /\ m.init = set
        /\ k \in DOMAIN m.devs /\ Recached(d, e) /\ e \in Device
        /\ known => e.cached = d.uuid
    <3> HIDE DEF set
    <3> QED BY <2>1, <2>5, RebootedFacts
  <2>7. set.uuid = d.uuid /\ set.offset = IF d.kind = "file" THEN d.offset ELSE 0
    BY <2>2
  <2>8. ~root /\ d.kind = "partition" => ~d.mapper /\ e.cached = d.uuid
    <3> HIDE DEF d, e
    <3> QED BY <2>4, <2>6
  <2>9. e.path = d.path /\ e.kind = d.kind /\ e.offset = d.offset
    <3> HIDE DEF d, e
    <3> QED BY <2>3, <2>6 DEF Device, Recached
  <2> DEFINE p == ProfileOf(m, root)
             i == RecommendedOf(p.devs, p.ram)
  <2> HIDE DEF m, set
  <2>10. Safe(Told(e, root), m) /\ Told(e, root).uuid = d.uuid
    <3>1. Safe(AsRoot(d), machine) BY <2>2, Zenon DEF AsRoot
    <3>2. /\ m \in Machine /\ m.ram = machine.ram /\ m.fstab = machine.fstab
          /\ m.cmd = m.init /\ m.cmd.uuid = d.uuid
          /\ m.cmd.offset = IF d.kind = "file" THEN d.offset ELSE 0
      BY <2>6, <2>7
    <3>3. d.kind = "file" /\ ~d.readable => machine.fstab BY <2>4
    <3> HIDE DEF d, e
    <3> QED BY <2>1, <2>3, <2>6, <2>8, <3>1, <3>2, <3>3, SafeWhenSet
  <2> HIDE DEF e
  <2>11. k \in DOMAIN p.devs
    <3>1. k \in DOMAIN Listed(m) BY <2>2, <2>6, <2>9 DEF Listed, Restrict, e
    <3> QED BY <2>6, <3>1, ProfileFacts
  <2>12. Selectable(p.status[k]) /\ p.devs[k] = Probed(e, m, root)
    BY <2>6, <2>10, <2>11, ProfileFacts DEF e
  <2>13. i # 0 /\ i \in DOMAIN p.devs
    <3>1. Swaps(p.devs) /\ p.status = Status(p.devs, p.ram) /\ p.ram = m.ram /\ m.ram \in Nat
      BY <2>6, ProfileFacts DEF Machine
    <3> HIDE DEF p, i
    <3>2. Class(p.devs[k], p.ram) = "valid_option"
      BY <2>11, <2>12, <3>1, SelectableIsValid
    <3>3. p.devs[k] \in Device BY <2>11, <3>1 DEF Swaps
    <3>4. p.devs[k].kind \in {"partition", "file"} BY <3>1, <3>2, <3>3, ValidClass
    <3>5. k \in Valid(p.devs, p.ram, p.devs[k].kind) BY <2>11, <3>2 DEF Valid
    <3>6. Valid(p.devs, p.ram, "partition") # {} \/ Valid(p.devs, p.ram, "file") # {}
      BY <3>4, <3>5
    <3>7. i \in Valid(p.devs, p.ram, "partition") \cup Valid(p.devs, p.ram, "file")
      <4>1. p.ram \in Nat BY <3>1
      <4> QED BY <3>1, <3>6, <4>1, RecommendedFacts DEF i
    <3> QED BY <3>1, <3>7 DEF Valid, Swaps
  <2>14. CASE p.devs[i].path # outcome.path BY <2>13, <2>14 DEF m, set
  <2>15. CASE p.devs[i].path = outcome.path
    <3>1. p.devs[k].path = outcome.path BY <2>2, <2>6, <2>9, <2>11, SamePlace DEF e
    <3>2. i = k
      <4> HIDE DEF i
      <4> QED BY <2>6, <2>11, <2>13, <2>15, <3>1, OnlyMatch
    <3>3. p.devs[k].uuid = d.uuid
      <4>1. e \in Device /\ (root \/ e.kind # "partition" => e.uuid = Told(e, root).uuid)
            /\ (~root /\ e.kind = "partition" => e.cached = Told(e, root).uuid)
        BY <2>6, ToldFacts DEF e
      <4>2. Probed(e, m, root).uuid = IF root \/ e.kind # "partition" THEN e.uuid ELSE e.cached
        BY <2>6, <4>1, ProbedFacts
      <4> HIDE DEF p, d
      <4> QED BY <2>10, <2>12, <4>1, <4>2
    <3> HIDE DEF i
    <3>4. Errors(p.devs[k], m) = {}
      <4>1. /\ m \in Machine /\ m.cmd = m.init /\ m.cmd.uuid = p.devs[k].uuid
            /\ m.cmd.offset = IF m.devs[k].kind = "file" THEN m.devs[k].offset ELSE 0
        BY <2>6, <2>7, <2>9, <3>3 DEF e
      <4> HIDE DEF d
      <4> QED BY <2>11, <2>12, <4>1, NoErrorsWhenSet
    <3>5. Verified(m, root) BY <2>13, <3>2, <3>4 DEF Verified, i
    <3> QED BY <3>5 DEF m, set
  <2> QED BY <2>14, <2>15
<1> QED BY <1>1, LinkInvariance, PTL

-----------------------------------------------------------------------------
(* The room for a new file *)

(* What swapon shows of the swap file is its size without the header page. *)
LEMMA ShownFacts ==
  ASSUME NEW m \in Machine, Sound(m), NEW root \in BOOLEAN
  PROVE  Shown(ProfileOf(m, root)) = 0 \/ Shown(ProfileOf(m, root)) + 1 = m.real
<1> DEFINE p     == ProfileOf(m, root)
           files == Matches(p, "/swap.img", "file")
           i     == CHOOSE k \in files : TRUE
<1>1. CASE files = {} BY <1>1 DEF Shown
<1>2. CASE files # {}
  <2>1. i \in DOMAIN p.devs /\ p.devs[i].path = "/swap.img" BY <1>2 DEF Matches
  <2>2. Shown(p) = p.devs[i].size BY <1>2 DEF Shown
  <2> HIDE DEF i, files
  <2>3. i \in DOMAIN m.devs /\ m.devs[i].path = "/swap.img" /\ p.devs[i].size = m.devs[i].size
    BY <2>1, SamePlace
  <2>4. m.devs[i].size + 1 = m.real BY <2>3 DEF Sound
  <2> QED BY <2>2, <2>3, <2>4
<1> QED BY <1>1, <1>2

LEMMA RoomForThePlan == ASSUME LinkInv PROVE PlannedFileFits
<1> SUFFICES ASSUME plan # None, plan.ok, plan.kind = "request", outcome = None,
                    machine = asOf, machine.real # plan.size, machine.real # plan.size + 1
             PROVE  machine.free >= plan.size + Reserve
  BY DEF PlannedFileFits, PreflightPasses
<1>1. /\ seen # None /\ FileOk(seen, plan.size) /\ machine \in Machine /\ Sound(machine)
      /\ seen = ProfileOf(machine, FALSE) /\ plan.size \in Nat /\ plan.size >= 1
  BY DEF LinkInv, TracedPlan, Inv, SeenInv, PlanInv, Plan
<1> DEFINE shown == Shown(seen)
<1>2. Fits(seen.ram, machine.free, shown, plan.size)
  BY <1>1 DEF FileOk, ProfileOf
<1>3. shown = 0 \/ shown + 1 = machine.real BY <1>1, ShownFacts
<1> HIDE DEF shown
<1>4. shown # plan.size BY <1>1, <1>3
<1>5. Allocation(shown, plan.size) = plan.size BY <1>4 DEF Allocation
<1> QED BY <1>1, <1>2, <1>5 DEF Fits

(* The room the plan finds for the swap file is also found by the helper   *)
(* on an unchanged machine, whatever the swap file that is there, unless   *)
(* that is longer by exactly its header page                               *)
(* (_preflight_swapfile_free_space).                                       *)
THEOREM PlannedFileFitsCorrect == Spec => []PlannedFileFits
BY RoomForThePlan, LinkInvariance, PTL

(* What NewFileRefused excuses, said of the machine with the new file.     *)
LEMMA NewFileTaken ==
  ASSUME NEW m \in Machine, Sound(m), m.stack, m.root = "ext4",
         NEW i \in DOMAIN ProfileOf(m, TRUE).devs, m.devs[i].path = "/swap.img",
         m.devs[i].size >= m.ram, NoEncryption(Told(m.devs[i], TRUE)), m.devs[i].active,
         m.devs[i].uuid # 0, m.devs[i].offset # 0, ~m.devs[i].sparse,
         {m.cmd.uuid} \subseteq {0, ByPath, m.devs[i].uuid},
         {m.cmd.offset} \subseteq {0, m.devs[i].offset},
         m.init \in {[uuid |-> 0, offset |-> 0],
                     [uuid |-> m.devs[i].uuid, offset |-> m.devs[i].offset]}
  PROVE  TargetOk(ProfileOf(m, TRUE), i)
<1> DEFINE p == ProfileOf(m, TRUE)
           d == m.devs[i]
           e == p.devs[i]
<1>1. /\ d \in Device /\ i \in DOMAIN m.devs /\ e = Probed(d, m, TRUE)
      /\ e.uuid = d.uuid /\ e.kind = d.kind
  BY SamePlace
<1>2. d.kind = "file" /\ ~d.removable /\ d.fs = "ext4" BY <1>1 DEF Sound
<1>3. Safe(Told(d, TRUE), m)
  <2> DEFINE r == Told(d, TRUE)
  <2>1. ASSUME NEW b \in BOOLEAN
        PROVE  LET x == Told(d, b)
               IN  /\ x.kind = d.kind /\ x.size = d.size /\ x.active = d.active /\ x.fs = d.fs
                   /\ x.removable = d.removable /\ x.sparse = d.sparse /\ x.offset = d.offset
                   /\ x.readable <=> b \/ d.readable
                   /\ x.uuid = IF b \/ d.kind # "partition" THEN d.uuid ELSE d.cached
    BY <1>1, ToldFacts
  <2>2. /\ r.kind = d.kind /\ r.size = d.size /\ r.active = d.active /\ r.fs = d.fs
        /\ r.removable = d.removable /\ r.sparse = d.sparse /\ r.offset = d.offset
        /\ r.readable /\ r.uuid = d.uuid
    BY <2>1
  <2>3. NoEncryption(r) OBVIOUS
  <2> HIDE DEF r
  <2>4. Safe(r, m) BY <1>2, <2>2, <2>3 DEF Safe, OffsetKnown
  <2> QED BY <2>4 DEF r
<1>4. e.offset = d.offset
  <2> HIDE DEF d, e, p
  <2> QED BY <1>1, <1>2, ProbedFacts
<1>5. NoConflict(p, e)
  <2>1. p.cmd = m.cmd /\ p.init = m.init BY DEF ProfileOf
  <2>2. UuidOf(m.cmd) \in {0, d.uuid} BY DEF UuidOf
  <2> HIDE DEF d, e, p
  <2>3. m.cmd.offset \in {0, d.offset} BY DEF d
  <2>4. m.init \in {[uuid |-> 0, offset |-> 0], [uuid |-> d.uuid, offset |-> d.offset]}
    BY DEF d
  <2> QED BY <1>1, <1>2, <1>4, <2>1, <2>2, <2>3, <2>4 DEF NoConflict
<1> QED BY <1>3, <1>5, SafeIsTaken

(* The new file of a plan that can be applied is refused on an unchanged   *)
(* machine only for the reasons NewFileRefused names                       *)
(* (_select_live_swapfile_target).                                         *)
THEOREM NewFileRefusedCorrect == Spec => NewFileRefused
<1> DEFINE Reasons ==
       \/ machine.root # "ext4"
       \/ machine.real = plan.size + 1 /\ machine.free < plan.size + Reserve
       \/ machine.real = plan.size /\ \A d \in ToSet(machine.devs) : d.path # "/swap.img"
       \/ \E d \in ToSet(machine'.devs) :
            /\ d.path = "/swap.img"
            /\ \/ d.size < machine.ram \/ ~NoEncryption(Told(d, TRUE)) \/ ~d.active \/ d.uuid = 0
               \/ machine.real = plan.size /\ (d.offset = 0 \/ d.sparse)
               \/ ~({machine.cmd.uuid} \subseteq {0, ByPath, d.uuid})
               \/ ~({machine.cmd.offset} \subseteq {0, d.offset})
               \/ machine.init \notin {[uuid |-> 0, offset |-> 0],
                                       [uuid |-> d.uuid, offset |-> d.offset]}
           Refusal == /\ plan # None /\ plan.kind = "request" /\ outcome = None
                      /\ outcome' = Refused /\ machine = asOf
<1>1. ASSUME LinkInv, LinkInv', [Next]_vars, Refusal PROVE Reasons
  <2>1. outcome' # outcome BY <1>1, RefusedOrAccepted
  <2>2. EnsureFile
    BY <1>1, <2>1
    DEF Next, vars, Check, PlanTarget, PlanFile, ValidateTarget,
        Recreate, Reformat, SwapOff, FillDisk, Change
  <2>3. Inv /\ Sound(machine) /\ machine' \in Machine BY <1>1 DEF LinkInv, Inv
  <2>4. plan.ok BY <2>2, <2>3, EnsureCases
  <2>5. CASE machine.root # "ext4" \/ ~PreflightPasses(machine.free, machine.real, plan.size)
    <3>1. PlannedFileFits BY <1>1, RoomForThePlan
    <3>2. PreflightPasses(machine.free, machine.real, plan.size)
            \/ machine.real = plan.size + 1
      BY <1>1, <2>4, <3>1 DEF PlannedFileFits
    <3>3. CASE machine.root # "ext4" BY <3>3
    <3>4. CASE ~PreflightPasses(machine.free, machine.real, plan.size)
      <4>1. machine.free \in Nat /\ plan.size \in Nat /\ Reserve \in Nat
        BY <1>1, <2>3, UnitAssumption DEF Machine, Inv, PlanInv, Plan, Reserve
      <4>2. ~(machine.free >= plan.size + Reserve) BY <3>4 DEF PreflightPasses
      <4>3. machine.free < plan.size + Reserve BY <4>1, <4>2
      <4> QED BY <3>2, <3>4, <4>3
    <3> QED BY <2>5, <3>3, <3>4
  <2>6. CASE machine.root = "ext4" /\ PreflightPasses(machine.free, machine.real, plan.size)
    <3>1. /\ outcome' = Selected(machine')
          /\ Sound(machine') /\ machine'.fstab /\ "/swap.img" \notin machine'.off
          /\ machine'.root = "ext4"
          /\ machine'.ram = machine.ram /\ machine'.stack = machine.stack
          /\ machine'.cmd = machine.cmd /\ machine'.init = machine.init
          /\ IF machine.real = plan.size THEN machine'.devs = machine.devs
             ELSE \E k \in DOMAIN machine'.devs :
                    /\ machine'.devs[k].path = "/swap.img"
                    /\ machine'.devs[k].offset # 0 /\ ~machine'.devs[k].sparse
      BY <2>2, <2>3, <2>6, EnsureCases
    <3> DEFINE p     == ProfileOf(machine', TRUE)
               files == Matches(p, "/swap.img", "file")
               i     == CHOOSE k \in files : TRUE
    <3>2. Selected(machine') = IF files # {} /\ TargetOk(p, i) THEN Accepted(p.devs[i]) ELSE Refused
      BY DEF Selected
    <3>3. files = {} \/ ~TargetOk(p, i)
      <4>1. Accepted(p.devs[i]).accepted /\ ~Refused.accepted BY DEF Accepted, Refused
      <4> QED BY <1>1, <3>1, <3>2, <4>1
    <3>4. machine.stack
      <4>1. FileOk(seen, plan.size) /\ seen # None BY <1>1, <2>4 DEF LinkInv, TracedPlan
      <4>2. seen = ProfileOf(machine, FALSE) BY <1>1, <4>1 DEF LinkInv, Inv, SeenInv
      <4> QED BY <4>1, <4>2 DEF FileOk, ProfileOf
    <3>5. CASE files = {}
      <4>1. \A k \in DOMAIN machine'.devs : machine'.devs[k].path # "/swap.img"
        <5> SUFFICES ASSUME NEW k \in DOMAIN machine'.devs, machine'.devs[k].path = "/swap.img"
                     PROVE  FALSE
          OBVIOUS
        <5>1. machine'.devs[k].kind = "file" BY <3>1 DEF Sound
        <5>2. k \in DOMAIN Listed(machine') BY <3>1 DEF Listed, Restrict
        <5>3. k \in DOMAIN p.devs BY <2>3, <5>2, ProfileFacts
        <5>4. p.devs[k].path = "/swap.img" /\ p.devs[k].kind = "file"
          BY <2>3, <5>1, <5>3, SamePlace
        <5> QED BY <3>5, <5>3, <5>4 DEF Matches
      <4>2. machine.real = plan.size /\ machine'.devs = machine.devs BY <3>1, <4>1
      <4> QED BY <4>1, <4>2 DEF ToSet
    <3>6. CASE files # {}
      <4>1. i \in DOMAIN p.devs /\ p.devs[i].path = "/swap.img" BY <3>6 DEF Matches
      <4>2. ~TargetOk(p, i) BY <3>3, <3>6
      <4> HIDE DEF i, files
      <4> DEFINE d == machine'.devs[i]
      <4>3. i \in DOMAIN machine'.devs /\ d.path = "/swap.img" /\ d \in Device
        BY <2>3, <4>1, SamePlace
      <4>4. d \in ToSet(machine'.devs) BY <4>3 DEF ToSet
      <4> SUFFICES ASSUME d.size >= machine.ram, NoEncryption(Told(d, TRUE)), d.active, d.uuid # 0,
                          machine.real = plan.size => d.offset # 0 /\ ~d.sparse,
                          {machine.cmd.uuid} \subseteq {0, ByPath, d.uuid},
                          {machine.cmd.offset} \subseteq {0, d.offset},
                          machine.init \in {[uuid |-> 0, offset |-> 0],
                                            [uuid |-> d.uuid, offset |-> d.offset]}
                   PROVE  FALSE
        <5>1. d.size \in Nat /\ machine.ram \in Nat /\ d.sparse \in BOOLEAN
          BY <2>3, <4>3 DEF Device, Inv, Machine
        <5>2. d.size >= machine.ram \/ d.size < machine.ram BY <5>1
        <5> HIDE DEF d
        <5> QED BY <4>3, <4>4, <5>2, Zenon
      <4>5. d.offset # 0 /\ ~d.sparse
        <5>1. CASE machine.real = plan.size BY <5>1
        <5>2. CASE machine.real # plan.size
          <6>1. PICK k \in DOMAIN machine'.devs :
                  /\ machine'.devs[k].path = "/swap.img"
                  /\ machine'.devs[k].offset # 0 /\ ~machine'.devs[k].sparse
            BY <3>1, <5>2
          <6>2. k = i BY <3>1, <4>3, <6>1 DEF Sound
          <6> QED BY <6>1, <6>2
        <5> QED BY <5>1, <5>2
      <4>6. TargetOk(p, i) BY <2>3, <3>1, <3>4, <4>1, <4>3, <4>5, NewFileTaken
      <4> QED BY <4>2, <4>6
    <3> QED BY <3>5, <3>6
  <2> QED BY <2>5, <2>6
<1>2. LinkInv /\ LinkInv' /\ [Next]_vars => [Refusal => Reasons]_vars BY <1>1
<1> QED BY <1>2, LinkInvariance, PTL DEF Spec, NewFileRefused
=============================================================================
