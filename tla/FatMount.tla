------------------------------ MODULE FatMount ------------------------------
(***************************************************************************)
(* Which medium is behind which drive: mounting and unmounting FAT volumes *)
(* on flash with wear levelling, on raw flash and on the SD card, side by  *)
(* side, each step of which may fail.                                      *)
(* Source: fatfs/vfs/vfs_fat_spiflash.c, fatfs/diskio/diskio.c,            *)
(* diskio_wl.c, diskio_rawflash.c, with what they call of vfs_fat.c, ff.c  *)
(* and sd_spi_driver/diskio_sd_spi.c.  The wear levelling layer, the flash *)
(* and its partition table are external.  One caller; what is written is   *)
(* the number of the write.                                                *)
(***************************************************************************)
EXTENDS Integers, FiniteSets

CONSTANTS
  NumVolumes, \* FF_VOLUMES, a decimal digit for each
  Partitions, \* of the flash
  Paths,      \* base paths
  Card,       \* the SD card, no partition
  Nobody,     \* no partition
  MaxMounts, MaxWrites

ASSUME MountConstants ==
  NumVolumes \in 1..10 /\ Card \notin Partitions /\ Nobody \notin Partitions \union {Card}

VARIABLES
  impls,       \* s_impls: the kind of driver
  wl_handles,  \* ff_wl_handles
  raw_handles, \* ff_raw_handles
  s_fat_ctxs,  \* s_fat_ctxs: [path, fat_drive, id]
  FatFs_,      \* FatFs: the id of the context whose FATFS object it is, or 0
  wl,          \* wl[h]: the partition the wear levelling's instance h is on
  content,     \* content[x]: what is on x
  mounted_,    \* what the caller has mounted: [kind, path, on, handle]
  stray,       \* instances that a failed mount has left behind
  acked,       \* acked[x]: the last write to x that succeeded, if none failed since
  mounts, writes

mountVars == <<impls, wl_handles, raw_handles, s_fat_ctxs, FatFs_, wl, content, mounted_, stray, acked, mounts, writes>>

Pdrvs == 0..(NumVolumes - 1)
WL_INVALID_HANDLE == 0
Instances == 1..NumVolumes + 1
NoImpl == "NULL"
NoDrive == 255
Media_ == Partitions \union {Card}
Spoilt == -1

MountInit ==
  /\ impls = [d \in Pdrvs |-> NoImpl] /\ wl_handles = [d \in Pdrvs |-> WL_INVALID_HANDLE]
  /\ raw_handles = [d \in Pdrvs |-> Nobody] /\ s_fat_ctxs = {} /\ FatFs_ = [d \in Pdrvs |-> 0]
  /\ wl = [h \in Instances |-> Nobody] /\ content = [x \in Media_ |-> 0] /\ mounted_ = {} /\ stray = {}
  /\ acked = content /\ mounts = 0 /\ writes = 0

Least(S) == CHOOSE x \in S : \A y \in S : x <= y
FirstOr(S, none) == IF S = {} THEN none ELSE Least(S)

MutGetDrive == 0

ff_diskio_get_drive == FirstOr({d \in Pdrvs : impls[d] = NoImpl}, NoDrive)

ff_diskio_get_pdrv_wl(h) == FirstOr({d \in Pdrvs : wl_handles[d] = h}, NoDrive)
ff_diskio_get_pdrv_raw(p) == FirstOr({d \in Pdrvs : raw_handles[d] = p}, NoDrive)

(* The drivers' tables after ff_diskio_register(), which puts the drive's   *)
(* driver in the place of the one before, and with it a handle for it.      *)
ff_diskio_register(pdrv, kind) == [impls EXCEPT ![pdrv] = kind]

ff_diskio_register_wl_partition(pdrv, h) ==
  [impls |-> ff_diskio_register(pdrv, "wl"), wl |-> [wl_handles EXCEPT ![pdrv] = h], raw |-> raw_handles]

ff_diskio_register_raw_partition(pdrv, p) ==
  [impls |-> ff_diskio_register(pdrv, "raw"), wl |-> wl_handles, raw |-> [raw_handles EXCEPT ![pdrv] = p]]

sd_spi_diskio_register(pdrv) ==
  [impls |-> ff_diskio_register(pdrv, "sd"), wl |-> wl_handles, raw |-> raw_handles]

ff_diskio_clear_pdrv_wl(h) ==
  [d \in Pdrvs |-> IF wl_handles[d] = h THEN WL_INVALID_HANDLE ELSE wl_handles[d]]

(* The digit FatFs is given for a drive, and the drive it finds by it.      *)
get_ldnumber(digit) == IF digit \in 0..9 /\ digit < NumVolumes THEN digit ELSE -1

(* esp_vfs_fat_unregister_path().                                           *)
LessOne(path) == {c \in s_fat_ctxs : c.path # path}
ContextOf(path) == CHOOSE c \in s_fat_ctxs : c.path = path
prepend_drive_to_path(path) == ContextOf(path).fat_drive

KeptAt == UNCHANGED <<content, acked, writes>>
BeginMount == mounts < MaxMounts /\ mounts' = mounts + 1 /\ KeptAt

-----------------------------------------------------------------------------
(* The end every mount has: context, f_mount() and, on flash with wear      *)
(* levelling, a format between two attempts.  A failure takes the context   *)
(* and the driver away again; f_mount() has set FatFs[] before it fails.    *)
Registered(d, m, tables) ==
  /\ impls' = tables.impls
  /\ s_fat_ctxs' = s_fat_ctxs \union {[path |-> m.path, fat_drive |-> d, id |-> mounts + 1]}
  /\ FatFs_' = [FatFs_ EXCEPT ![get_ldnumber(d)] = mounts + 1]
  /\ mounted_' = mounted_ \union {m}
  /\ UNCHANGED stray

(* failed: "register", "mount" (or the format).                             *)
Undone(d, m, failed) ==
  /\ impls' = ff_diskio_register(d, NoImpl)
  /\ FatFs_' = IF failed = "mount" THEN [FatFs_ EXCEPT ![get_ldnumber(d)] = mounts + 1] ELSE FatFs_
  /\ stray' = IF m.kind = "wl" THEN stray \union {m.handle} ELSE stray
  /\ UNCHANGED <<s_fat_ctxs, mounted_>>

RegisterAndMount(d, m, tables) ==
  /\ wl_handles' = tables.wl /\ raw_handles' = tables.raw
  /\ \/ Cardinality(s_fat_ctxs) < NumVolumes /\ Registered(d, m, tables)
     \/ \E failed \in {"register", "mount"} : Undone(d, m, failed)

(* A path and a medium are mounted once at a time.                          *)
UnusedDrive(path, x) == \A m \in mounted_ : m.path # path /\ m.on # x

(* esp_vfs_fat_spiflash_mount(); without a drive the instance stays.        *)
MountFlash(path, p) ==
  /\ BeginMount /\ UnusedDrive(path, p)
  /\ \E h \in Instances :
       /\ wl[h] = Nobody /\ \A k \in Instances : wl[k] = Nobody => h <= k
       /\ wl' = [wl EXCEPT ![h] = p]
       /\ \E d \in {ff_diskio_get_drive} :
            IF d = NoDrive
            THEN stray' = stray \union {h}
                 /\ UNCHANGED <<impls, wl_handles, raw_handles, s_fat_ctxs, FatFs_, mounted_>>
            ELSE RegisterAndMount(d, [kind |-> "wl", path |-> path, on |-> p, handle |-> h],
                                  ff_diskio_register_wl_partition(d, h))

(* The caller's part: a partition that was mounted raw gets no later drive  *)
(* than it had, or its old place would be taken for it.                     *)
NoOldPlace(p, d) == \A k \in Pdrvs : raw_handles[k] = p => d <= k

(* esp_vfs_fat_rawflash_mount().                                            *)
MountRaw(path, p) ==
  /\ BeginMount /\ UnusedDrive(path, p)
  /\ \E d \in {ff_diskio_get_drive} :
       /\ d # NoDrive /\ NoOldPlace(p, d)
       /\ RegisterAndMount(d, [kind |-> "raw", path |-> path, on |-> p, handle |-> WL_INVALID_HANDLE],
                           ff_diskio_register_raw_partition(d, p))
  /\ UNCHANGED wl

(* esp_vfs_fat_sd_spi_mount() on drive 0, which storage_init() takes.       *)
MountSd(path) ==
  /\ BeginMount /\ UnusedDrive(path, Card) /\ impls[0] = NoImpl
  /\ RegisterAndMount(0, [kind |-> "sd", path |-> path, on |-> Card, handle |-> WL_INVALID_HANDLE],
                      sd_spi_diskio_register(0))
  /\ UNCHANGED wl

-----------------------------------------------------------------------------
(* f_mount(0, drv, 0), the driver and the context go.                       *)
ReleaseAll(d, m) ==
  /\ FatFs_' = [FatFs_ EXCEPT ![get_ldnumber(d)] = 0]
  /\ impls' = ff_diskio_register(d, NoImpl)
  /\ s_fat_ctxs' = LessOne(m.path)
  /\ mounted_' = mounted_ \ {m}
  /\ UNCHANGED <<stray, mounts>> /\ KeptAt

(* esp_vfs_fat_spiflash_unmount(), _rawflash_unmount(), _sd_spi_unmount().  *)
UnmountFlash(m) ==
  /\ m.kind = "wl"
  /\ \E d \in {ff_diskio_get_pdrv_wl(m.handle)} \ {NoDrive} : ReleaseAll(d, m)
  /\ wl_handles' = ff_diskio_clear_pdrv_wl(m.handle)
  /\ wl' = [wl EXCEPT ![m.handle] = Nobody]
  /\ UNCHANGED raw_handles

UnmountRaw(m) ==
  /\ m.kind = "raw"
  /\ \E d \in {ff_diskio_get_pdrv_raw(m.on)} \ {NoDrive} : ReleaseAll(d, m)
  /\ UNCHANGED <<wl_handles, raw_handles, wl>>

UnmountSd(m) ==
  /\ m.kind = "sd" /\ ReleaseAll(0, m)
  /\ UNCHANGED <<wl_handles, raw_handles, wl>>

-----------------------------------------------------------------------------
(* disk_write() on the drive of a mounted path: it goes to whatever the     *)
(* drive's table says.                                                      *)
MediumBehind(d) ==
  CASE impls[d] = "wl" -> IF wl_handles[d] = WL_INVALID_HANDLE THEN Nobody ELSE wl[wl_handles[d]]
    [] impls[d] = "raw" -> raw_handles[d]
    [] impls[d] = "sd" -> Card
    [] OTHER -> Nobody

MayWrite(d) == impls[d] \in {"wl", "sd"} \* ff_raw_write() refuses

(* ff_wl_write() erases before it writes: when it fails in between, neither *)
(* the old nor the new is there.                                            *)
DiskWrite(m) ==
  /\ writes < MaxWrites /\ writes' = writes + 1
  /\ \E d \in {get_ldnumber(prepend_drive_to_path(m.path))} \ {-1} : \E x \in {MediumBehind(d)} \ {Nobody} :
       \/ MayWrite(d) /\ content' = [content EXCEPT ![x] = writes + 1] /\ acked' = [acked EXCEPT ![m.on] = writes + 1]
       \/ MayWrite(d) /\ content' = [content EXCEPT ![x] = Spoilt] /\ acked' = [acked EXCEPT ![m.on] = Spoilt]
       \/ UNCHANGED <<content, acked>>
  /\ UNCHANGED <<impls, wl_handles, raw_handles, s_fat_ctxs, FatFs_, wl, mounted_, stray, mounts>>

MountNext ==
  \/ \E path \in Paths, p \in Partitions : MountFlash(path, p) \/ MountRaw(path, p)
  \/ \E path \in Paths : MountSd(path)
  \/ \E m \in mounted_ : UnmountFlash(m) \/ UnmountRaw(m) \/ UnmountSd(m) \/ DiskWrite(m)

-----------------------------------------------------------------------------
(* What is mounted is there, each path on a drive of its own with the right *)
(* driver in front of the right medium, whatever was mounted, unmounted and *)
(* given up before; what is written under one path is on its medium and     *)
(* changes no other; but for the wear levelling of failed mounts, nothing   *)
(* is left when all is unmounted (vfs_fat_spiflash.c:29-208, diskio.c:29).  *)
MountsApart ==
  /\ \A m \in mounted_ : \E c \in s_fat_ctxs :
       \E d \in {get_ldnumber(c.fat_drive)} \ {-1} :
         c.path = m.path /\ FatFs_[d] = c.id /\ impls[d] = m.kind /\ MediumBehind(d) = m.on
  /\ Cardinality(s_fat_ctxs) = Cardinality(mounted_)
  /\ Cardinality({d \in Pdrvs : impls[d] # NoImpl}) = Cardinality(mounted_)
  /\ \A h \in Instances : wl[h] # Nobody <=> h \in stray \union {m.handle : m \in mounted_}
  /\ content = acked
=============================================================================
