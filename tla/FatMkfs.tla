------------------------------ MODULE FatMkfs ------------------------------
(***************************************************************************)
(* Making a FAT volume, finding it again and the FATFS object that         *)
(* describes it: f_mkfs(), create_partition(), check_fs(), find_volume(),  *)
(* mount_volume(), f_mount(), validate().                                  *)
(* Source: fatfs/src/ff.c.  Sectors of one size, one drive; 32 bits are    *)
(* not exceeded but where it is said.  CHS fields, volume serial number    *)
(* and boot code are left out: nothing reads them.                         *)
(***************************************************************************)
EXTENDS Integers, Sequences, FiniteSets

CONSTANTS
  FF_MAX_SS,    \* bytes of a sector
  Drives       \* what is explored: [size, block, before, options, calls]

VARIABLES
  drive,     \* one of Drives; block: the answer to GET_BLOCK_SIZE, 0 if none
  sectors,   \* what is on it: [from, len, what], the latest last
  fatfs,     \* the FATFS object that f_mount() registered
  opened,    \* a FIL opened on it: the object's id then, and the formats then
  formats,   \* formats that have written something
  outcome,   \* how the last call ended
  volumeOps

mkfsVars == <<drive, sectors, fatfs, opened, formats, outcome, volumeOps>>

-----------------------------------------------------------------------------
(* What a sector holds.                                                     *)

Zeros == [kind |-> "zeros"]
Foreign == [kind |-> "foreign"]           \* no signature
Mbr(starts) == [kind |-> "mbr", starts |-> starts]
FatHead(type) == [kind |-> "fat", type |-> type]
FsInfo(free) == [kind |-> "fsinfo", free |-> free]

Sector(disk, s) ==
  LET covering == {i \in DOMAIN disk : disk[i].from <= s /\ s < disk[i].from + disk[i].len}
  IN IF covering = {} THEN Foreign
     ELSE disk[CHOOSE i \in covering : \A k \in covering : k <= i].what

(* The range was written as one, and nothing of it since.                   *)
Filled_(disk, from, len, what) ==
  \/ len = 0
  \/ \E i \in DOMAIN disk :
       /\ disk[i].what = what /\ disk[i].from <= from /\ from + len <= disk[i].from + disk[i].len
       /\ \A k \in (i + 1)..Len(disk) : disk[k].from >= from + len \/ disk[k].from + disk[k].len <= from

-----------------------------------------------------------------------------
(* mount_volume(): is it a volume, and what does it look like?              *)

MAX_FAT12 == 4085
MAX_FAT16 == 65525
MAX_FAT32 == 268435445
Dirents == FF_MAX_SS \div 32
UpTo(n, unit) == (n + unit - 1) \div unit
IsPower2(n) == \E k \in 0..15 : n = 2^k

IsFatVbr(s) ==
  /\ s.kind = "vbr"
  /\ \/ s.fat32
     \/ /\ s.BytsPerSec = FF_MAX_SS /\ IsPower2(s.SecPerClus) /\ s.RsvdSecCnt # 0
        /\ s.NumFATs \in 1..2 /\ s.RootEntCnt # 0 /\ (s.TotSec16 >= 128 \/ s.TotSec32 >= 65536)
        /\ s.FATSz16 # 0

(* 0: a FAT volume, 2: something with a boot signature, 3: without, 4: the  *)
(* sector cannot be read.                                                   *)
check_fs(bad, s) ==
  IF s \in bad THEN 4
  ELSE IF IsFatVbr(Sector(sectors, s)) THEN 0
  ELSE IF Sector(sectors, s).kind \in {"vbr", "mbr"} THEN 2 ELSE 3

StLba(s) == IF s.kind = "mbr" THEN s.starts ELSE <<0, 0, 0, 0>>

(* Sector 0 is the volume, or the first of four partitions that is one; an  *)
(* unreadable partition is passed over like an unused one.                  *)
find_volume(bad) ==
  LET starts == StLba(Sector(sectors, 0))
      Slot(i) == IF starts[i] = 0 THEN 3 ELSE check_fs(bad, starts[i])
      volumes == {i \in 1..4 : Slot(i) < 2}
      first == check_fs(bad, 0)
      i == IF volumes = {} THEN 4 ELSE CHOOSE v \in volumes : \A w \in volumes : v <= w
  IN IF first # 2 THEN [fmt |-> first, at |-> 0] ELSE [fmt |-> Slot(i), at |-> starts[i]]

FatType(nclst) ==
  IF nclst <= MAX_FAT12 THEN "FAT12" ELSE IF nclst <= MAX_FAT16 THEN "FAT16"
  ELSE IF nclst <= MAX_FAT32 THEN "FAT32" ELSE "none"

FatBytes(type, entries) ==
  CASE type = "FAT32" -> entries * 4 [] type = "FAT16" -> entries * 2
    [] type = "FAT12" -> ((entries * 3) \div 2) + (entries % 2) [] OTHER -> 0

NoVolume == [type |-> "none"]

(* The FATFS object's picture of the volume at bsect.                       *)
Analyze(v, bsect) ==
  LET fsize == IF v.FATSz16 # 0 THEN v.FATSz16 ELSE v.FATSz32
      fasize == fsize * v.NumFATs
      tsect == IF v.TotSec16 # 0 THEN v.TotSec16 ELSE v.TotSec32
      sysect == v.RsvdSecCnt + fasize + v.RootEntCnt \div Dirents
      nclst == (tsect - sysect) \div v.SecPerClus
      type == FatType(nclst)
      dirbase == IF type = "FAT32" THEN v.RootClus ELSE bsect + v.RsvdSecCnt + fasize
  IN IF /\ v.BytsPerSec = FF_MAX_SS /\ v.NumFATs \in 1..2 /\ IsPower2(v.SecPerClus)
        /\ v.RootEntCnt % Dirents = 0 /\ v.RsvdSecCnt # 0
        /\ tsect >= sysect /\ nclst # 0 /\ type # "none"
        /\ (type = "FAT32" <=> v.RootEntCnt = 0)
        /\ fsize >= UpTo(FatBytes(type, nclst + 2), FF_MAX_SS)
     THEN [type |-> type, fsize |-> fsize, n_fats |-> v.NumFATs, csize |-> v.SecPerClus,
           n_rootdir |-> v.RootEntCnt, n_fatent |-> nclst + 2, volbase |-> bsect,
           fatbase |-> bsect + v.RsvdSecCnt, database |-> bsect + sysect, dirbase |-> dirbase, tsect |-> tsect]
     ELSE NoVolume

Unknown == -1

(* FSInfo is believed when it is where it should be.                        *)
FreeClusters(bad, v, g) ==
  LET s == Sector(sectors, g.volbase + 1)
  IN IF g.type = "FAT32" /\ v.FSInfo = 1 /\ g.volbase + 1 \notin bad /\ s.kind = "fsinfo"
     THEN s.free ELSE Unknown

(* [res, g, free] of an attempt to mount while the bad sectors fail.        *)
Mounting(bad) ==
  LET found == find_volume(bad)
      v == Sector(sectors, found.at)
      g == Analyze(v, found.at)
      Fails_(res) == [res |-> res, g |-> NoVolume, free |-> Unknown]
  IN IF found.fmt = 4 THEN Fails_("DISK_ERR")
     ELSE IF found.fmt >= 2 \/ g = NoVolume THEN Fails_("NO_FILESYSTEM")
     ELSE [res |-> "OK", g |-> g, free |-> FreeClusters(bad, v, g)]

-----------------------------------------------------------------------------
(* f_mkfs().                                                                *)

N_SEC_TRACK == 63

OrElse(n, right, default) == IF right THEN n ELSE default

(* What the options come to on a drive.                                     *)
Plan(o) ==
  LET blk == OrElse(o.align, o.align # 0, drive.block)
      au == OrElse(o.au, o.au <= 16777216 /\ (o.au = 0 \/ \E k \in 0..24 : o.au = 2^k), 0) \div FF_MAX_SS
      base == IF "SFD" \notin o.fmt /\ drive.size > N_SEC_TRACK THEN N_SEC_TRACK ELSE 0
  IN [blk |-> OrElse(blk, blk # 0 /\ IsPower2(blk), 1),
      n_fat |-> OrElse(o.n_fat, o.n_fat \in 1..2, 1),
      n_root |-> OrElse(o.n_root, o.n_root \in 1..32768 /\ o.n_root % Dirents = 0, 512),
      au |-> IF au > 128 THEN 128 ELSE au,
      base |-> base, vol |-> drive.size - base, may |-> o.fmt \intersect {"FAT", "FAT32"},
      sfd |-> "SFD" \in o.fmt]

cst == <<1, 4, 16, 64, 256, 512>>
cst32 == <<1, 2, 4, 8, 16, 32>>
AutoUnit(table, n) == 2 ^ Cardinality({i \in DOMAIN table : table[i] <= n})

(* A count of clusters that went below zero in 32 bits: more than any FAT.  *)
Wrapped == 2^25

MutGap(p, type, data) == 0

(* Sectors that are given up so that the data begin at an erase block.      *)
Gap(p, type, data) == UpTo(data, p.blk) * p.blk - data

(* One pass of the loop: the layout with clusters of au sectors (0: as the  *)
(* table has it), begun as type.                                            *)
Layout(p, au, begun) ==
  LET pau == IF au # 0 THEN au
             ELSE IF begun = "FAT32" THEN AutoUnit(cst32, p.vol \div 131072)
             ELSE AutoUnit(cst, p.vol \div 4096)
      guess == p.vol \div pau
      type == IF begun = "FAT16" /\ guess <= MAX_FAT12 THEN "FAT12" ELSE begun
      bytes == CASE type = "FAT32" -> guess * 4 + 8 [] type = "FAT16" -> guess * 2 + 4
                 [] OTHER -> (guess * 3 + 1) \div 2 + 3
      fat == UpTo(bytes, FF_MAX_SS)
      rsv == IF type = "FAT32" THEN 32 ELSE 1
      dir == IF type = "FAT32" THEN 0 ELSE p.n_root \div Dirents
      data == p.base + rsv + fat * p.n_fat + dir
      gap == Gap(p, type, data)
      odd == gap % p.n_fat
      system == rsv + fat * p.n_fat + dir + gap
  IN [pau |-> pau, type |-> type, guess |-> guess,
      rsv |-> rsv + (IF type = "FAT32" THEN gap ELSE odd),
      fat |-> fat + (IF type = "FAT32" THEN 0 ELSE (gap - odd) \div p.n_fat),
      dir |-> dir,
      room |-> p.vol >= data + pau * 16 - p.base,
      clst |-> IF p.vol < system THEN Wrapped \div pau ELSE (p.vol - system) \div pau]

Aborted == [type |-> "none"]

(* The loop: other clusters, or FAT32, when their number does not fit.      *)
Laid(p) ==
  LET laid[au \in 0..128, begun \in {"FAT16", "FAT32"}] ==
        LET l == Layout(p, au, begun)
        IN CASE \/ begun = "FAT32" /\ l.guess \notin (MAX_FAT16 + 1)..MAX_FAT32
                \/ ~l.room
                \/ l.type = "FAT12" /\ l.clst > MAX_FAT12 -> Aborted
             [] l.room /\ l.type = "FAT32" /\ l.guess > MAX_FAT16 /\ l.clst <= MAX_FAT16 ->
                  IF au = 0 /\ l.pau \div 2 # 0 THEN laid[l.pau \div 2, "FAT32"] ELSE Aborted
             [] l.room /\ l.type = "FAT16" /\ l.clst > MAX_FAT16 ->
                  IF au = 0 /\ l.pau * 2 <= 64 THEN laid[l.pau * 2, "FAT16"]
                  ELSE IF "FAT32" \in p.may THEN laid[au, "FAT32"]
                  ELSE IF au = 0 /\ l.pau * 2 <= 128 THEN laid[l.pau * 2, "FAT16"] ELSE Aborted
             [] l.room /\ l.type = "FAT16" /\ l.clst <= MAX_FAT12 ->
                  IF au = 0 /\ l.pau * 2 <= 128 THEN laid[l.pau * 2, "FAT16"] ELSE Aborted
             [] OTHER -> l
  IN laid[p.au, IF "FAT" \in p.may THEN "FAT16" ELSE "FAT32"]

Vbr(p, l) ==
  LET is32 == l.type = "FAT32"
  IN [kind |-> "vbr", fat32 |-> is32, BytsPerSec |-> FF_MAX_SS, SecPerClus |-> l.pau % 256,
      RsvdSecCnt |-> l.rsv % 65536, NumFATs |-> p.n_fat,
      RootEntCnt |-> IF is32 THEN 0 ELSE p.n_root % 65536,
      TotSec16 |-> IF p.vol < 65536 THEN p.vol ELSE 0, TotSec32 |-> IF p.vol < 65536 THEN 0 ELSE p.vol,
      FATSz16 |-> IF is32 THEN 0 ELSE l.fat % 65536, FATSz32 |-> IF is32 THEN l.fat ELSE 0,
      RootClus |-> 2, FSInfo |-> IF is32 THEN 1 ELSE 0]

Put(from, len, what, checked) == [from |-> from, len |-> len, what |-> what, checked |-> checked]

(* What is written and in which order; the failure of some goes unnoticed.  *)
Writes(p, l) ==
  LET vbr == Vbr(p, l)
      fatbase == p.base + l.rsv
      Fat(i) == <<Put(fatbase + i * l.fat, 1, FatHead(l.type), TRUE),
                  Put(fatbase + i * l.fat + 1, l.fat - 1, Zeros, TRUE)>>
      rootdir == fatbase + p.n_fat * l.fat
  IN <<Put(p.base, 1, vbr, TRUE)>>
     \o (IF l.type = "FAT32"
         THEN <<Put(p.base + 6, 1, vbr, FALSE), Put(p.base + 7, 1, FsInfo(l.clst - 1), FALSE),
                Put(p.base + 1, 1, FsInfo(l.clst - 1), FALSE)>>
         ELSE <<>>)
     \o Fat(0) \o (IF p.n_fat = 2 THEN Fat(1) ELSE <<>>)
     \o <<Put(rootdir, IF l.type = "FAT32" THEN l.pau ELSE l.dir, Zeros, TRUE)>>
     \o (IF p.sfd THEN <<>> ELSE <<Put(0, 1, Mbr(<<p.base, 0, 0, 0>>), TRUE)>>)

OnDrive(puts) == [i \in DOMAIN puts |-> [from |-> puts[i].from, len |-> puts[i].len, what |-> puts[i].what]]
Skip(puts, i) == SubSeq(puts, 1, i - 1) \o SubSeq(puts, i + 1, Len(puts))

-----------------------------------------------------------------------------
(* Calls.                                                                   *)

NotMounted == [g |-> NoVolume, id |-> 0, free |-> Unknown]
Mounted(id, m) == [g |-> m.g, id |-> id, free |-> m.free]
NoFil == [id |-> 0, formats |-> 0]

Result_(op, res) == [op |-> op, res |-> res, clean |-> TRUE, plan |-> <<>>, laid |-> Aborted]

MkfsInit ==
  /\ drive \in Drives
  /\ sectors = drive.before /\ fatfs = NotMounted /\ opened = NoFil /\ formats = 0
  /\ outcome = Result_("none", "OK") /\ volumeOps = 0

Called == volumeOps < drive.calls /\ volumeOps' = volumeOps + 1 /\ UNCHANGED drive

(* disk_status(), disk_initialize(): the card may be gone, or locked.       *)
DriveStates == {"ready", "NOINIT", "PROTECT"}

(* Before the volume is thought of: the drive, the buffer.  At any of       *)
(* these f_mkfs() has forgotten the mounted volume.                         *)
MkfsRefused ==
  \E res \in {"NOT_READY", "WRITE_PROTECTED", "NOT_ENOUGH_CORE", "DISK_ERR"} :
     /\ outcome' = [Result_("mkfs", res) EXCEPT !.clean = FALSE]
     /\ UNCHANGED <<sectors, formats>>

(* A write fails (the i-th), or the sync at the end, or nothing.            *)
MkfsWrites(p, l) ==
  \E puts \in {Writes(p, l)} : \E i \in 0..(Len(puts) + 1) :
     LET seen == i = Len(puts) + 1 \/ (i > 0 /\ puts[i].checked)
         done == IF i = 0 THEN puts ELSE IF seen THEN SubSeq(puts, 1, i - 1) ELSE Skip(puts, i)
     IN /\ sectors' = sectors \o OnDrive(done)
        /\ formats' = formats + 1
        /\ outcome' = [op |-> "mkfs", res |-> IF seen THEN "DISK_ERR" ELSE "OK", clean |-> i = 0,
                       plan |-> <<p>>, laid |-> l]

Mkfs ==
  /\ Called
  /\ fatfs' = [fatfs EXCEPT !.g = NoVolume]
  /\ UNCHANGED opened
  /\ \/ MkfsRefused
     \/ \E o \in drive.options : \E p \in {Plan(o)} :
          IF p.vol < 128 \/ p.may = {}
          THEN /\ outcome' = [Result_("mkfs", IF p.vol < 128 THEN "ABORTED" ELSE "INVALID_PARAMETER")
                                EXCEPT !.plan = <<p>>]
               /\ UNCHANGED <<sectors, formats>>
          ELSE \E l \in {Laid(p)} :
                 IF l = Aborted
                 THEN /\ outcome' = [Result_("mkfs", "ABORTED") EXCEPT !.plan = <<p>>]
                      /\ UNCHANGED <<sectors, formats>>
                 ELSE MkfsWrites(p, l)

(* One of the sectors mount_volume() reads may fail.                        *)
BadSectors == {{}, {0}} \union {{s} : s \in {StLba(Sector(sectors, 0))[k] : k \in 1..4}}
                        \union {{find_volume({}).at + 1}}

(* mount_volume() on an object that is not valid.                           *)
Remount(op, writing) ==
  \E state \in DriveStates :
    IF state = "NOINIT" \/ (state = "PROTECT" /\ writing)
    THEN /\ outcome' = [Result_(op, IF state = "NOINIT" THEN "NOT_READY" ELSE "WRITE_PROTECTED")
                          EXCEPT !.clean = FALSE]
         /\ fatfs' = [fatfs EXCEPT !.g = NoVolume]
    ELSE \E bad \in BadSectors : \E m \in {Mounting(bad)} :
           /\ outcome' = [Result_(op, m.res) EXCEPT !.clean = bad = {}]
           /\ fatfs' = IF m.res = "OK" THEN Mounted(fatfs.id + 1, m) ELSE [fatfs EXCEPT !.g = NoVolume]

(* f_mount(fs, path, 1).                                                    *)
Mount == Called /\ Remount("mount", FALSE) /\ UNCHANGED <<sectors, opened, formats>>

(* f_open() of the directory or of a file: mount_volume() and an object     *)
(* that remembers the mount.                                                *)
Access(writing) ==
  /\ Called /\ UNCHANGED <<sectors, formats>>
  /\ \/ /\ fatfs.g # NoVolume
        /\ \/ outcome' = Result_("access", "OK")
           \/ writing /\ outcome' = [Result_("access", "WRITE_PROTECTED") EXCEPT !.clean = FALSE]
        /\ UNCHANGED fatfs
     \/ (* not valid, or the card is no longer initialised *) Remount("access", writing)
  /\ opened' = IF outcome'.res = "OK" THEN [id |-> fatfs'.id, formats |-> formats] ELSE opened

MkfsNext == Mkfs \/ Mount \/ Access(TRUE) \/ Access(FALSE)

-----------------------------------------------------------------------------
(* Properties.                                                              *)

(* validate(): the file opened may still be used.                           *)
StillValid == fatfs.g # NoVolume /\ opened.id = fatfs.id

(* What is laid out lies within the volume and the drive, each part behind  *)
(* the one before, and the table has an entry for every cluster.            *)
FitsItself(g) ==
  /\ g.fatbase > g.volbase
  /\ g.database = g.fatbase + g.fsize * g.n_fats + g.n_rootdir \div Dirents
  /\ g.database + (g.n_fatent - 2) * g.csize <= g.volbase + g.tsect
  /\ g.fsize * FF_MAX_SS >= FatBytes(g.type, g.n_fatent)
  /\ g.type = FatType(g.n_fatent - 2)

Empty_(g) ==
  /\ \A i \in 0..(g.n_fats - 1) :
       /\ Sector(sectors, g.fatbase + i * g.fsize) = FatHead(g.type)
       /\ Filled_(sectors, g.fatbase + i * g.fsize + 1, g.fsize - 1, Zeros)
  /\ IF g.type = "FAT32" THEN Filled_(sectors, g.database + (g.dirbase - 2) * g.csize, g.csize, Zeros)
     ELSE Filled_(sectors, g.dirbase, g.n_rootdir \div Dirents, Zeros)

(* What f_mkfs() made is found again with the type and number of clusters   *)
(* it decided on, lies inside the drive, aligned and with the cluster size  *)
(* that was asked for, is empty and, with every write done, counts its free *)
(* clusters right: f_mkfs() against mount_volume() (ff.c:6347, 3585).       *)
MountsAsMade(p, l, clean) ==
  LET m == Mounting({})
      g == m.g
  IN /\ m.res = "OK" /\ g.type = l.type /\ g.n_fatent = l.clst + 2 /\ g.csize = l.pau
     /\ FitsItself(g) /\ Empty_(g)
     /\ g.volbase + g.tsect <= drive.size
     /\ g.database % p.blk = 0
     /\ (p.au # 0 => g.csize = p.au) /\ g.n_fats = p.n_fat
     /\ (clean /\ g.type = "FAT32" => m.free = g.n_fatent - 3)

Plan_ == outcome.plan[1]

(* f_mkfs() makes what can be found again, unless the alignment leaves no   *)
(* cluster; it refuses nothing that is large enough when the choice is its  *)
(* own; a mounted object describes what is on the drive; no file opened     *)
(* before a format is valid after it; a volume that begins at sector 0 is   *)
(* never taken for no file system because a sector cannot be read, which    *)
(* would have it formatted (ff.c:6043, 3461, 3695).                         *)
FormatRight ==
  /\ outcome.op = "mkfs" /\ outcome.res = "OK" /\ outcome.laid.clst # 0
       => MountsAsMade(Plan_, outcome.laid, outcome.clean)
  /\ outcome.op = "mkfs" /\ outcome.res = "ABORTED"
       => \/ Plan_.vol < 128 \/ Plan_.may # {"FAT", "FAT32"} \/ Plan_.au # 0
          \/ Plan_.vol < 2 * Plan_.blk + Plan_.n_root \div Dirents
  /\ fatfs.g # NoVolume =>
       fatfs.g = Analyze(Sector(sectors, fatfs.g.volbase), fatfs.g.volbase) /\ FitsItself(fatfs.g)
  /\ StillValid => opened.formats = formats
  /\ outcome.res = "NO_FILESYSTEM" /\ IsFatVbr(Sector(sectors, 0)) => Analyze(Sector(sectors, 0), 0) = NoVolume
=============================================================================
