------------------------------- MODULE SdSpi -------------------------------
(***************************************************************************)
(* The SD card driver: mounting and unmounting with all their steps, the   *)
(* disk functions FatFs calls, and the password functions another task may *)
(* call meanwhile, all under the mutex of the SPI bus.                     *)
(* Source: sd_spi_driver/diskio_sd_spi.c, with what it relies on of        *)
(* fatfs/src/ff.c (f_mount) and main/storage.c.                            *)
(*                                                                         *)
(* The card is external: it answers a command, or not; it takes a block,   *)
(* refuses it, or stays busy.  A card that waits for blocks of a transfer  *)
(* answers no other command.                                               *)
(* Abstracted: the clock, the ticks of the timeouts, and what SdLayout is  *)
(* about: the bytes of commands and answers, their checksums, the geometry *)
(* that ioctl() reports.                                                   *)
(***************************************************************************)
EXTENDS Naturals, Sequences, FiniteSets

CONSTANTS
  Cards,     \* the cards: [kind, locked, pwd], kind "block", "byte" or "mmc"
  Passwords, \* what callers pass
  Configured,\* what CONFIG_SMART_AP_SD_PASSWORD may be
  NoPassword,
  LastSector,\* the card's sectors are 0..LastSector
  MaxCalls   \* bound: calls of the disk and password functions

ASSUME SdConstants ==
  /\ \A c \in Cards : c.kind \in {"block", "byte", "mmc"} /\ c.locked \in BOOLEAN
                      /\ c.pwd \in Passwords \union {NoPassword} /\ (c.locked => c.pwd # NoPassword)
  /\ NoPassword \notin Passwords /\ Configured \subseteq Passwords \union {NoPassword}
  /\ LastSector \in Nat /\ MaxCalls \in Nat

VARIABLES
  card,     \* the card: one of Cards, with its sectors and the transfer it is in
  conf_pwd, \* sd_spi_config_t.password
  bus,      \* s_spi_mutex: "NULL", "free" or its holder; with it goes s_hw_initialized
  disk,     \* the disk functions are registered, and CS is an output
  vfs_path, \* the base path is registered
  noinit, protect, \* Stat
  CardType,
  sdpc,     \* where esp_vfs_fat_sd_spi_mount(), _unmount() is
  call,     \* per caller: what it does and how far it is
  calls,
  answer_lost, \* history: the card did something and its answer was lost
  stalled,     \* history: the card stayed busy beyond SD_WAIT_READY_MS
  written_ok   \* history: what the last successful write put on each sector

sdVars == <<card, conf_pwd, bus, disk, vfs_path, noinit, protect, CardType, sdpc, call, calls,
            answer_lost, stalled, written_ok>>
driver == <<bus, disk, vfs_path, noinit, protect, CardType, sdpc>>
past == <<answer_lost, stalled, written_ok>>

Callers == {"fatfs", "admin"}
Sectors == 0..LastSector
(* What a sector holds is the number of the call that wrote it. *)
Unknown == MaxCalls + 1
Erased == 0
Resting == [at |-> "idle", op |-> "none", sector |-> 0, left |-> 0, buff |-> <<>>, pwd |-> NoPassword, ok |-> FALSE]

SdInit ==
  /\ \E c \in Cards : card = [kind |-> c.kind, locked |-> c.locked, pwd |-> c.pwd,
                              data |-> [s \in Sectors |-> Erased], transfer |-> "none"]
  /\ conf_pwd \in Configured
  /\ bus = "NULL" /\ disk = FALSE /\ vfs_path = FALSE /\ noinit = TRUE /\ protect = FALSE
  /\ CardType = "none" /\ sdpc = "off" /\ call = [c \in Callers |-> Resting] /\ calls = 0
  /\ answer_lost = FALSE /\ stalled = FALSE /\ written_ok = [s \in Sectors |-> Erased]

MutAddress(s) == s

(* What the driver puts into a command for a sector, and what the card makes *)
(* of it.                                                                    *)
Address(s) == IF CardType = "block" THEN s ELSE s * 512

Meant(a) == IF card.kind = "block" THEN a ELSE a \div 512

---------------------------------------------------------------------------
(* esp_vfs_fat_sd_spi_mount(): the bus, the disk, the path. *)
BusInit ==
  /\ sdpc = "off" /\ calls = 0
  /\ \/ bus' = "free" /\ sdpc' = "register"
     \/ UNCHANGED bus /\ sdpc' = "failed"
  /\ UNCHANGED <<card, conf_pwd, disk, vfs_path, noinit, protect, CardType, call, calls, past>>

RegisterDisk ==
  /\ sdpc = "register" /\ bus = "free" /\ disk' = TRUE /\ sdpc' = "path"
  /\ UNCHANGED <<card, conf_pwd, bus, vfs_path, noinit, protect, CardType, call, calls, past>>

RegisterPath ==
  /\ sdpc = "path"
  /\ \/ vfs_path' = TRUE /\ sdpc' = "mount"
     \/ UNCHANGED vfs_path /\ sdpc' = "undo_disk"
  /\ UNCHANGED <<card, conf_pwd, bus, disk, noinit, protect, CardType, call, calls, past>>

(* f_mount(fs, drv, 1): mount_volume() with mode 0, on the card c with the    *)
(* driver's status s.  "init", "status" and "read" are faults: no answer to   *)
(* the initialization, to CMD13 in it, and to the reading of the boot sector. *)
MountMode == 0
(* What the CMD13 that ends the initialization says. *)
LockSeen(c, fault) == c.locked /\ fault # "status"

Initialized(c, s, fault) ==
  IF ~s.noinit \/ fault = "init" THEN s
  ELSE [noinit |-> FALSE, protect |-> s.protect \/ LockSeen(c, fault), type |-> c.kind]
MountOnce(c, s, fault) ==
  LET t == Initialized(c, s, fault)
  IN [stat |-> t,
      res |-> IF t.noinit THEN "NOT_READY"
              ELSE IF MountMode # 0 /\ t.protect THEN "WRITE_PROTECTED"
              ELSE IF c.locked \/ fault = "read" THEN "DISK_ERR" ELSE "OK"]

(* A card that f_mount() finds write protected is unlocked with the password *)
(* of the configuration, and mounted again.                                  *)
Mount ==
  /\ sdpc = "mount"
  /\ \E fault \in {"none", "init", "status", "read"} :
       LET once == MountOnce(card, [noinit |-> noinit, protect |-> protect, type |-> CardType], fault)
           opens == once.res = "WRITE_PROTECTED" /\ conf_pwd = card.pwd /\ conf_pwd # NoPassword
           open == [card EXCEPT !.locked = FALSE]
           last == IF opens THEN MountOnce(open, [once.stat EXCEPT !.protect = FALSE], fault) ELSE once
       IN /\ noinit' = last.stat.noinit /\ protect' = last.stat.protect /\ CardType' = last.stat.type
          /\ card' = IF opens THEN open ELSE card
          /\ sdpc' = IF last.res = "OK" THEN "mounted" ELSE "undo_path"
          /\ answer_lost' = (answer_lost \/ fault # "none")
  /\ UNCHANGED <<conf_pwd, bus, disk, vfs_path, call, calls, stalled, written_ok>>

(* f_mount(NULL), once nobody uses the file system any more (FileServing). *)
UnmountCard ==
  /\ sdpc = "mounted" /\ \A c \in Callers : call[c].at = "idle"
  /\ sdpc' = "undo_path"
  /\ UNCHANGED <<card, conf_pwd, bus, disk, vfs_path, noinit, protect, CardType, call, calls, past>>

(* The way back, taken by a failed mount from where it stands. *)
UndoPath ==
  /\ sdpc = "undo_path" /\ vfs_path' = FALSE /\ sdpc' = "undo_disk"
  /\ UNCHANGED <<card, conf_pwd, bus, disk, noinit, protect, CardType, call, calls, past>>

UndoDisk ==
  /\ sdpc = "undo_disk" /\ bus = "free"
  /\ disk' = FALSE /\ noinit' = TRUE /\ protect' = FALSE /\ CardType' = "none" /\ sdpc' = "undo_bus"
  /\ UNCHANGED <<card, conf_pwd, bus, vfs_path, call, calls, past>>

UndoBus ==
  /\ sdpc = "undo_bus" /\ bus = "free" /\ bus' = "NULL" /\ sdpc' = "failed"
  /\ UNCHANGED <<card, conf_pwd, disk, vfs_path, noinit, protect, CardType, call, calls, past>>

---------------------------------------------------------------------------
(* The disk functions and the password functions. *)

(* FatFs reads or writes sectors s..s+n-1; Stat is looked at before the mutex *)
(* is taken.                                                                  *)
CallDisk ==
  /\ sdpc = "mounted" /\ call["fatfs"].at = "idle" /\ calls < MaxCalls /\ calls' = calls + 1
  /\ \E op \in {"read", "write", "trim"}, s \in Sectors, n \in 1..(LastSector + 1) :
       /\ s + n - 1 \in Sectors
       /\ ~noinit /\ (op = "write" => ~protect) /\ (op = "trim" => CardType # "mmc")
       /\ call' = [call EXCEPT !["fatfs"] =
            [Resting EXCEPT !.at = "want", !.op = op, !.sector = s, !.left = n,
                            !.buff = IF op = "write" THEN [k \in 1..n |-> calls'] ELSE <<>>]]
  /\ UNCHANGED <<card, conf_pwd, driver, past>>

CallPassword ==
  /\ sdpc = "mounted" /\ call["admin"].at = "idle" /\ calls < MaxCalls /\ calls' = calls + 1
  /\ \E op \in {"unlock", "lock", "set", "clear", "erase"}, p \in Passwords :
       call' = [call EXCEPT !["admin"] = [Resting EXCEPT !.at = "want", !.op = op, !.pwd = p]]
  /\ UNCHANGED <<card, conf_pwd, driver, past>>

Acquire(c) ==
  /\ call[c].at = "want" /\ bus = "free" /\ bus' = c
  /\ call' = [call EXCEPT ![c].at = IF c = "fatfs" THEN "command" ELSE "password"]
  /\ UNCHANGED <<card, conf_pwd, disk, vfs_path, noinit, protect, CardType, sdpc, calls, past>>

AcquireExpires(c) ==
  /\ call[c].at = "want" /\ bus \notin {"free", c}
  /\ call' = [call EXCEPT ![c] = Resting]
  /\ UNCHANGED <<card, conf_pwd, driver, calls, past>>

(* select_card(): the card is ready within half a second, or not.           *)
Selected == BOOLEAN

Accepts(ok) == ok /\ card.transfer = "none" /\ ~card.locked

(* CTRL_TRIM: CMD32, CMD33 and CMD38 erase what lies between two addresses. *)
Trimmed(f) ==
  [s \in Sectors |-> IF s \in Meant(Address(f.sector))..Meant(Address(f.sector + f.left - 1))
                     THEN Erased ELSE card.data[s]]

(* CMD17, CMD18, CMD24 or CMD25, or the commands of a trim. *)
Command ==
  LET f == call["fatfs"]
      multi == f.left > 1 /\ f.op # "trim"
  IN /\ f.at = "command"
     /\ \E ok \in Selected :
          /\ call' = [call EXCEPT !["fatfs"].at =
                        IF ~Accepts(ok) THEN "release" ELSE IF f.op = "trim" THEN "release" ELSE "block",
                      !["fatfs"].ok = Accepts(ok) /\ f.op = "trim"]
          /\ card' = IF ~Accepts(ok) THEN card
                     ELSE IF f.op = "trim" THEN [card EXCEPT !.data = Trimmed(f)]
                     ELSE [card EXCEPT !.transfer = IF multi THEN f.op ELSE "none"]
     /\ written_ok' = IF f.op = "read" THEN written_ok
                      ELSE [s \in Sectors |-> IF s \in f.sector..(f.sector + f.left - 1) THEN Unknown
                                              ELSE written_ok[s]]
     /\ UNCHANGED <<conf_pwd, driver, calls, answer_lost, stalled>>

(* One block: its token and CRC are right, or the transfer ends. *)
TransferBlock ==
  LET f == call["fatfs"]
      n == Meant(Address(f.sector)) + (IF f.op = "read" THEN Len(f.buff) ELSE Len(f.buff) - f.left)
      multi == card.transfer # "none"
      more == [f EXCEPT !.left = @ - 1, !.buff = IF f.op = "read" THEN Append(@, card.data[n]) ELSE @,
                        !.at = IF f.left > 1 THEN "block" ELSE IF multi THEN "stop" ELSE "release",
                        !.ok = f.left = 1]
  IN /\ f.at = "block"
     /\ \/ /\ call' = [call EXCEPT !["fatfs"] = more]
           /\ card' = IF f.op = "write" THEN [card EXCEPT !.data[n] = f.buff[1]] ELSE card
        \/ /\ call' = [call EXCEPT !["fatfs"].at = IF multi THEN "stop" ELSE "release"]
           /\ UNCHANGED card
     /\ UNCHANGED <<conf_pwd, driver, calls, past>>

(* CMD12, or the stop token once the card is ready. *)
Stop ==
  /\ call["fatfs"].at = "stop"
  /\ \/ /\ card' = [card EXCEPT !.transfer = "none"]
        /\ call' = [call EXCEPT !["fatfs"].at = "release"] /\ UNCHANGED stalled
     \/ /\ call["fatfs"].op = "write" /\ stalled' = TRUE
        /\ call' = [call EXCEPT !["fatfs"].at = "release", !["fatfs"].ok = FALSE] /\ UNCHANGED card
  /\ UNCHANGED <<conf_pwd, driver, calls, answer_lost, written_ok>>

(* sd_do_lock_unlock_locked(): what the card makes of CMD42; <<>> is a refusal. *)
Lock42(op, p) ==
  LET right == card.pwd = p
  IN CASE op = "unlock" /\ right -> <<[card EXCEPT !.locked = FALSE]>>
       [] op = "lock" /\ right -> <<[card EXCEPT !.locked = TRUE]>>
       [] op = "set" /\ card.pwd = NoPassword -> <<[card EXCEPT !.pwd = p]>>
       [] op = "clear" /\ right -> <<[card EXCEPT !.pwd = NoPassword, !.locked = FALSE]>>
       [] op = "erase" /\ card.locked ->
            <<[card EXCEPT !.pwd = NoPassword, !.locked = FALSE, !.data = [s \in Sectors |-> Erased]]>>
       [] OTHER -> <<>>

(* What sd_spi_unlock(), _lock() and _force_erase() make of Stat. *)
StatAfter(op) == IF op \in {"unlock", "erase"} THEN FALSE ELSE IF op = "lock" THEN TRUE ELSE protect

(* The command is refused, or carried out; its result in R2 may be lost. *)
Password ==
  LET f == call["admin"]
      done == Lock42(f.op, f.pwd)
  IN /\ f.at = "password"
     /\ call' = [call EXCEPT !["admin"].at = "release"]
     /\ \/ UNCHANGED <<card, protect, answer_lost, written_ok>>
        \/ /\ done # <<>> /\ card.transfer = "none"
           /\ card' = done[1]
           /\ \/ protect' = StatAfter(f.op) /\ UNCHANGED answer_lost
              \/ answer_lost' = TRUE /\ UNCHANGED protect
           /\ written_ok' = IF f.op = "erase" THEN [s \in Sectors |-> Erased] ELSE written_ok
     /\ UNCHANGED <<conf_pwd, bus, disk, vfs_path, noinit, CardType, sdpc, calls, stalled>>

(* deselect(), xSemaphoreGive(), and the result. *)
Release(c) ==
  LET f == call[c]
      n == Len(f.buff)
  IN /\ f.at = "release" /\ bus' = (IF bus = c THEN "free" ELSE bus)
     /\ call' = [call EXCEPT ![c] = Resting]
     /\ written_ok' = IF ~f.ok \/ f.op = "read" THEN written_ok
                      ELSE [s \in Sectors |->
                             IF f.op = "trim" /\ s \in f.sector..(f.sector + f.left - 1) THEN Erased
                             ELSE IF f.op = "write" /\ s \in f.sector..(f.sector + n - 1) THEN f.buff[1]
                             ELSE written_ok[s]]
     /\ UNCHANGED <<card, conf_pwd, disk, vfs_path, noinit, protect, CardType, sdpc, calls,
                    answer_lost, stalled>>

SdNext ==
  \/ BusInit \/ RegisterDisk \/ RegisterPath \/ Mount \/ UnmountCard \/ UndoPath \/ UndoDisk \/ UndoBus
  \/ CallDisk \/ CallPassword \/ Command \/ TransferBlock \/ Stop \/ Password
  \/ \E c \in Callers : Acquire(c) \/ AcquireExpires(c) \/ Release(c)

SdSpec == SdInit /\ [][SdNext]_sdVars

---------------------------------------------------------------------------
(* A read that succeeds delivers what the last successful write put there,  *)
(* whatever kind of card it is, however the sectors were grouped and        *)
(* whoever used the bus in between (diskio_sd_spi.c:591-681).               *)
ReadBack ==
  LET f == call["fatfs"]
  IN f.at = "release" /\ f.op = "read" /\ f.ok =>
       \A k \in DOMAIN f.buff : written_ok[f.sector + k - 1] \in {Unknown, f.buff[k]}

(* Nobody leaves the bus with the card in the middle of a transfer, where   *)
(* it would take the next command for data, unless the card was still busy  *)
(* when the stop token was due (lines 624-626, 668-671).                    *)
CardLeftIdle == bus = "free" /\ ~stalled => card.transfer = "none"

(* As long as no answer of the card was lost, Stat says of a locked card    *)
(* that it is write protected (lines 548-558, 939-1051).                    *)
LockKnown == bus = "free" /\ ~noinit /\ ~answer_lost /\ card.locked => protect

(* A mount that failed, and an unmount, leave nothing behind: no bus, no    *)
(* disk function, no path, and a driver that will initialize the next card  *)
(* (lines 1200-1288).                                                       *)
NothingLeft == sdpc = "failed" => bus = "NULL" /\ ~disk /\ ~vfs_path /\ noinit

(* "If the card is locked, f_mount returns FR_WRITE_PROTECTED.  With a       *)
(* password in config it is unlocked automatically and f_mount repeated"     *)
(* (translated from diskio_sd_spi.h): with the right password and a card     *)
(* that answers, the mount succeeds.                                         *)
LockedCardMounted ==
  sdpc = "undo_path" /\ calls = 0 /\ ~answer_lost => ~(card.locked /\ conf_pwd = card.pwd)

(* What the driver tells FatFs is true, of the data and of the lock, and     *)
(* what it is done with it leaves clean, the card and the tables.            *)
SdRight == ReadBack /\ LockKnown /\ CardLeftIdle /\ NothingLeft
=============================================================================
