--------------------------- MODULE MCSystemCheck ---------------------------
(* Families of machines, each with all the values of the facts one part of *)
(* the decision turns on.                                                  *)
EXTENDS SystemCheckProperties

NoSetting == [uuid |-> 0, offset |-> 0]

Plain(path, kind, size) ==
  [path |-> path, kind |-> kind, size |-> size, active |-> TRUE, removable |-> FALSE,
   uuid |-> 1, cached |-> 1, fs |-> "ext4", sparse |-> FALSE, offset |-> 0,
   readable |-> TRUE, crypttab |-> "no", named |-> 0, closed |-> FALSE, lsblk |-> FALSE,
   mapper |-> FALSE, dm |-> "none", badtab |-> FALSE]

SwapImg(size, offset) == [Plain("/swap.img", "file", size) EXCEPT !.uuid = 3, !.offset = offset]

With(devs) ==
  [devs |-> devs, off |-> {}, ram |-> 8, free |-> 40, root |-> "ext4", rootUuid |-> 3,
   real |-> 0, fstab |-> FALSE, stack |-> TRUE, cmd |-> NoSetting, init |-> NoSetting]

(* One partition: every fact about it *)
Partitions ==
  {With(<<[Plain("/dev/sda2", "partition", size) EXCEPT
             !.active = a, !.removable = r, !.uuid = u, !.cached = u, !.crypttab = c, !.lsblk = l,
             !.mapper = e.mapper, !.dm = e.dm, !.badtab = b]>>) :
     size \in {7, 8}, a \in BOOLEAN, r \in BOOLEAN, u \in {0, 1},
     c \in {"no", "random", "keyed"}, l \in BOOLEAN, b \in BOOLEAN,
     e \in {[mapper |-> FALSE, dm |-> "others"], [mapper |-> TRUE, dm |-> "none"],
            [mapper |-> TRUE, dm |-> "others"], [mapper |-> TRUE, dm |-> "this"]}}

(* One file: every fact about it, with no resume setting *)
Files ==
  {[With(<<[SwapImg(size, o) EXCEPT
              !.fs = fs, !.sparse = s, !.readable = r, !.uuid = u,
              !.crypttab = e.crypttab, !.mapper = e.mapper, !.badtab = e.badtab]>>)
      EXCEPT !.root = fs, !.rootUuid = u, !.real = size + 1, !.fstab = TRUE] :
     size \in {7, 9}, o \in {0, 5}, fs \in {"ext4", "btrfs", "other"}, s \in BOOLEAN,
     r \in BOOLEAN, u \in {0, 3},
     e \in {[crypttab |-> "no", mapper |-> FALSE, badtab |-> TRUE],
            [crypttab |-> "no", mapper |-> TRUE, badtab |-> FALSE],
            [crypttab |-> "no", mapper |-> TRUE, badtab |-> TRUE],
            [crypttab |-> "keyed", mapper |-> TRUE, badtab |-> TRUE]}}

Settings == {NoSetting, [uuid |-> 3, offset |-> 5], [uuid |-> 3, offset |-> 6],
             [uuid |-> 3, offset |-> 56],
             [uuid |-> 3, offset |-> 0], [uuid |-> 1, offset |-> 0],
             [uuid |-> 0, offset |-> 5], [uuid |-> ByPath, offset |-> 0]}

(* A partition and a file of which the user is told less than root: an old *)
(* or no UUID, a crypttab that is closed or goes by the UUID, a mapper     *)
NotTold ==
  {[With(<<[Plain("/dev/sda2", "partition", 8) EXCEPT
              !.uuid = u, !.cached = k, !.crypttab = c, !.named = n, !.closed = h,
              !.mapper = e.mapper, !.dm = e.dm, !.badtab = e.badtab]>>)
      EXCEPT !.cmd = [uuid |-> s, offset |-> 0], !.init = [uuid |-> s, offset |-> 0]] :
     u \in {0, 1}, k \in {0, 1, 7}, c \in {"no", "keyed"}, n \in {0, 1, 7}, h \in BOOLEAN,
     s \in {0, 1, 7},
     e \in {[mapper |-> FALSE, dm |-> "none", badtab |-> FALSE],
            [mapper |-> TRUE, dm |-> "others", badtab |-> FALSE],
            [mapper |-> TRUE, dm |-> "others", badtab |-> TRUE],
            [mapper |-> TRUE, dm |-> "this", badtab |-> FALSE]}}
  \cup
  {[With(<<[SwapImg(9, 5) EXCEPT !.crypttab = c, !.named = n, !.closed = h, !.readable = r,
                                 !.mapper = m, !.badtab = b]>>)
      EXCEPT !.real = 10, !.fstab = TRUE, !.cmd = s, !.init = s] :
     c \in {"no", "random"}, n \in {0, 3, 7}, h \in BOOLEAN, r \in BOOLEAN, m \in BOOLEAN,
     b \in BOOLEAN, s \in {NoSetting, [uuid |-> 3, offset |-> 5]}}

(* One file, and every resume setting its offset may be taken from *)
Configured ==
  {[With(<<[SwapImg(9, 5) EXCEPT !.sparse = s, !.readable = r]>>)
      EXCEPT !.real = 10, !.fstab = f, !.cmd = c, !.init = i] :
     s \in BOOLEAN, r \in BOOLEAN, f \in BOOLEAN, c \in Settings, i \in Settings}

(* Several swaps to choose from, with zram in front, and settings that     *)
(* point to one of them *)
SeveralSwaps ==
  {[With(<<Plain("/dev/zram0", "zram", 9)>> \o devs)
      EXCEPT !.real = 10, !.cmd = c, !.init = c, !.stack = k] :
     devs \in {<<Plain("/dev/sda2", "partition", 8), SwapImg(9, 5)>>,
               <<SwapImg(9, 5), Plain("/dev/sda2", "partition", 8)>>,
               <<Plain("/dev/sda2", "partition", 8), SwapImg(9, 5),
                 [Plain("/dev/sdb1", "partition", 9) EXCEPT !.uuid = 2]>>},
     c \in {NoSetting, [uuid |-> 1, offset |-> 0], [uuid |-> 3, offset |-> 5]},
     k \in BOOLEAN}

(* No swap, a swap file or a file that is not a swap, of a size that is    *)
(* asked for, a page more or another, and room for a new one or not        *)
Rooms ==
  {[With(IF real = 0 \/ ~formatted THEN <<>> ELSE <<SwapImg(real - 1, 5)>>)
      EXCEPT !.real = real, !.free = free, !.ram = ram, !.fstab = real # 0] :
     real \in {0, 6, 8, 9, 10, 16}, formatted \in BOOLEAN,
     free \in {0, 11, 12, 13, 15, 16, 20, 40}, ram \in {7, 8}}

MCMachines == Partitions \cup Files \cup NotTold \cup Configured \cup SeveralSwaps \cup Rooms
=============================================================================
