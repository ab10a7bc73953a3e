--------------------------- MODULE Storage_proofs ---------------------------
(***************************************************************************)
(* Proofs about where files come from: the driver of the SD card, the      *)
(* serving of a file while the storage comes and goes, which medium is     *)
(* behind which path, and the times of files.                              *)
(***************************************************************************)
EXTENDS SdSpi, FileServing, FatMount, FatTimes, SequenceTheorems, FiniteSetTheorems, Induction, TLAPS

-----------------------------------------------------------------------------
(* The driver of the SD card. *)

Kinds == {"block", "byte", "mmc"}
CardRec ==
  [kind : Kinds, locked : BOOLEAN, pwd : Passwords \union {NoPassword},
   data : [Sectors -> Nat], transfer : {"none", "read", "write"}]

Calling ==
  [at : {"idle", "want", "command", "block", "stop", "password", "release"},
   op : {"none", "read", "write", "trim", "unlock", "lock", "set", "clear", "erase"},
   sector : Sectors, left : Nat, buff : Seq(Nat), pwd : Passwords \union {NoPassword}, ok : BOOLEAN]

MountStages ==
  {"off", "register", "path", "mount", "mounted", "undo_path", "undo_disk", "undo_bus", "failed"}

SdTypeOK ==
  /\ card \in CardRec
  /\ bus \in {"NULL", "free"} \union Callers
  /\ disk \in BOOLEAN /\ vfs_path \in BOOLEAN /\ noinit \in BOOLEAN /\ protect \in BOOLEAN
  /\ CardType \in {"none"} \union Kinds
  /\ sdpc \in MountStages
  /\ call \in [Callers -> Calling] /\ calls \in Nat
  /\ answer_lost \in BOOLEAN /\ stalled \in BOOLEAN /\ written_ok \in [Sectors -> Nat]

(* What stands at each stage of mounting and unmounting. *)
StagesRight ==
  /\ sdpc \in {"off", "failed"} => bus = "NULL"
  /\ sdpc \in {"off", "register", "undo_bus", "failed"} => ~disk
  /\ sdpc \notin {"mount", "mounted", "undo_path"} => ~vfs_path
  /\ sdpc \in {"off", "register", "path", "mount", "undo_bus", "failed"} => noinit
  /\ sdpc = "mounted" => ~noinit
  /\ ~noinit => CardType = card.kind
  /\ sdpc # "mounted" => \A c \in Callers : call[c].at = "idle"

(* Whoever is at work on the card holds the bus; only a transfer of FatFs   *)
(* keeps the card busy.                                                     *)
BusHeld ==
  /\ call["fatfs"].at # "password" /\ call["admin"].at \in {"idle", "want", "password", "release"}
  /\ ~call["admin"].ok
  /\ \A c \in Callers : call[c].at \notin {"idle", "want"} => bus = c
  /\ card.transfer # "none" /\ ~stalled => call["fatfs"].at \in {"block", "stop"}

StatRight == ~noinit /\ ~answer_lost /\ card.locked => protect

(* The sectors that a call of FatFs is about are the card's. *)
Within(f) ==
  CASE f.op = "read" -> f.sector + Len(f.buff) + f.left <= LastSector + 1
    [] f.op = "write" -> f.sector + Len(f.buff) <= LastSector + 1 /\ f.left <= Len(f.buff)
                         /\ \A k \in 1 .. Len(f.buff) : f.buff[k] = f.buff[1]
    [] OTHER -> f.sector + f.left <= LastSector + 1

Asked_(f) ==
  f.at # "idle" =>
    /\ f.op \in {"read", "write", "trim"} /\ Within(f)
    /\ f.at \in {"want", "command"} =>
         f.left > 0 /\ ~f.ok /\ (f.op = "read" => Len(f.buff) = 0) /\ (f.op = "write" => Len(f.buff) = f.left)
    /\ f.at = "block" => f.left > 0 /\ f.op # "trim" /\ ~f.ok
    /\ f.at = "stop" => f.op # "trim"

(* What a call has done so far is on the card, and nothing is promised of   *)
(* the sectors that a write is about.                                       *)
Progress(f) ==
  f.at \in {"block", "stop", "release"} =>
    /\ f.op = "read" => \A k \in 1 .. Len(f.buff) : f.buff[k] = card.data[f.sector + k - 1]
    /\ f.op = "write" =>
         /\ f.ok => f.left = 0
         /\ \A k \in 1 .. (Len(f.buff) - f.left) : card.data[f.sector + k - 1] = f.buff[1]
         /\ \A k \in 1 .. Len(f.buff) : written_ok[f.sector + k - 1] = Unknown
    /\ f.op = "trim" /\ f.ok => \A s \in f.sector .. (f.sector + f.left - 1) : card.data[s] = Erased

DataRight ==
  /\ \A s \in Sectors : written_ok[s] \in {Unknown, card.data[s]}
  /\ Asked_(call["fatfs"]) /\ Progress(call["fatfs"])

SdInv == SdTypeOK /\ StagesRight /\ BusHeld /\ StatRight /\ DataRight

LEMMA AddressMeant ==
  ASSUME NEW s \in Sectors, CardType = card.kind
  PROVE  Meant(Address(s)) = s
<1>1. s \in Nat /\ (s * 512) \div 512 = s
  BY SdConstants DEF Sectors
<1> QED
  BY <1>1 DEF Meant, Address

LEMMA RestingTyped == Resting \in Calling /\ Resting.at = "idle" /\ ~Resting.ok
<1>1. 0 \in Sectors /\ <<>> \in Seq(Nat)
  BY SdConstants DEF Sectors
<1> QED
  BY <1>1 DEF Resting, Calling

LEMMA SdInitially == SdInit => SdInv
<1> SUFFICES ASSUME SdInit PROVE SdInv
  OBVIOUS
<1>1. PICK c \in Cards : card = [kind |-> c.kind, locked |-> c.locked, pwd |-> c.pwd,
                                 data |-> [s \in Sectors |-> Erased], transfer |-> "none"]
  BY DEF SdInit
<1>2. card \in CardRec /\ card.transfer = "none" /\ \A s \in Sectors : card.data[s] = Erased
  <2>1. c.kind \in Kinds /\ c.locked \in BOOLEAN /\ c.pwd \in Passwords \union {NoPassword}
    BY SdConstants DEF Kinds
  <2>2. [s \in Sectors |-> Erased] \in [Sectors -> Nat]
    BY DEF Erased
  <2> QED
    BY <1>1, <2>1, <2>2 DEF CardRec
<1>3. call \in [Callers -> Calling] /\ \A d \in Callers : call[d] = Resting
  BY RestingTyped DEF SdInit
<1>4. "fatfs" \in Callers /\ "admin" \in Callers
  BY DEF Callers
<1>5. SdTypeOK
  BY <1>2, <1>3 DEF SdInit, SdTypeOK, MountStages, Erased
<1>6. StagesRight /\ BusHeld /\ StatRight
  BY <1>2, <1>3, <1>4, RestingTyped DEF SdInit, StagesRight, BusHeld, StatRight
<1>7. DataRight
  BY <1>2, <1>3, <1>4, RestingTyped DEF SdInit, DataRight, Asked_, Progress
<1> QED
  BY <1>5, <1>6, <1>7 DEF SdInv

(* Mounting and unmounting touch neither a call nor the data. *)
LEMMA MountFacts ==
  ASSUME SdInv, Mount
  PROVE  /\ card' = card
         /\ noinit' \in BOOLEAN /\ protect' \in BOOLEAN /\ CardType' \in {"none"} \union Kinds
         /\ sdpc' \in {"mounted", "undo_path"} /\ answer_lost' \in BOOLEAN
         /\ sdpc' = "mounted" => ~noinit'
         /\ ~noinit' => CardType' = card.kind
         /\ ~noinit' /\ ~answer_lost' /\ card.locked => protect'
<1> DEFINE start == [noinit |-> noinit, protect |-> protect, type |-> CardType]
           once(fault) == MountOnce(card, start, fault)
<1>1. PICK fault \in {"none", "init", "status", "read"} :
        LET opens == once(fault).res = "WRITE_PROTECTED" /\ conf_pwd = card.pwd /\ conf_pwd # NoPassword
            open == [card EXCEPT !.locked = FALSE]
            last == IF opens THEN MountOnce(open, [once(fault).stat EXCEPT !.protect = FALSE], fault) ELSE once(fault)
        IN /\ noinit' = last.stat.noinit /\ protect' = last.stat.protect /\ CardType' = last.stat.type
           /\ card' = IF opens THEN open ELSE card
           /\ sdpc' = IF last.res = "OK" THEN "mounted" ELSE "undo_path"
           /\ answer_lost' = (answer_lost \/ fault # "none")
  BY DEF Mount
<1> DEFINE t == Initialized(card, start, fault)
<1>2. once(fault).stat = t /\ once(fault).res # "WRITE_PROTECTED" /\ (once(fault).res = "OK" => ~t.noinit)
  BY DEF MountOnce, MountMode
<1>3. noinit' = t.noinit /\ protect' = t.protect /\ CardType' = t.type /\ card' = card
  BY <1>1, <1>2
<1>4. sdpc' = (IF once(fault).res = "OK" THEN "mounted" ELSE "undo_path")
      /\ answer_lost' = (answer_lost \/ fault # "none")
  BY <1>1, <1>2
<1>5. /\ noinit \in BOOLEAN /\ protect \in BOOLEAN /\ CardType \in {"none"} \union Kinds
      /\ card.kind \in Kinds /\ card.locked \in BOOLEAN /\ noinit /\ answer_lost \in BOOLEAN
  BY DEF SdInv, SdTypeOK, CardRec, StagesRight, Mount
<1>6. /\ t.noinit \in BOOLEAN /\ t.protect \in BOOLEAN /\ t.type \in {"none"} \union Kinds
      /\ ~t.noinit => t.type = card.kind
      /\ ~t.noinit /\ fault # "status" /\ card.locked => t.protect
  BY <1>5 DEF Initialized, LockSeen
<1> HIDE DEF t, once
<1> QED
  BY <1>2, <1>3, <1>4, <1>5, <1>6

LEMMA MountingKeeps ==
  ASSUME SdInv,
         BusInit \/ RegisterDisk \/ RegisterPath \/ Mount \/ UnmountCard \/ UndoPath \/ UndoDisk \/ UndoBus
  PROVE  SdInv'
<1>1. UNCHANGED <<card, call, calls, written_ok, stalled>>
  BY MountFacts DEF BusInit, RegisterDisk, RegisterPath, Mount, UnmountCard, UndoPath, UndoDisk, UndoBus, past
<1>2. DataRight'
  BY <1>1 DEF SdInv, DataRight, Asked_, Progress, Within, Unknown, Sectors
<1>3. "fatfs" \in Callers /\ "admin" \in Callers
  BY DEF Callers
<1>4. \A c \in Callers : call[c].at = "idle"
  BY DEF SdInv, StagesRight, BusInit, RegisterDisk, RegisterPath, Mount, UnmountCard, UndoPath, UndoDisk, UndoBus
<1>5. BusHeld'
  BY <1>1, <1>3, <1>4 DEF SdInv, BusHeld
<1>6. CASE Mount
  <2>1. SdTypeOK'
    BY <1>1, <1>6, MountFacts DEF SdInv, SdTypeOK, MountStages, Mount
  <2>2. StagesRight'
    BY <1>1, <1>4, <1>6, MountFacts DEF SdInv, StagesRight, Mount
  <2>3. StatRight'
    BY <1>1, <1>6, MountFacts DEF StatRight
  <2> QED
    BY <1>2, <1>5, <2>1, <2>2, <2>3 DEF SdInv
<1>7. CASE ~Mount
  <2>1. BusInit \/ RegisterDisk \/ RegisterPath \/ UnmountCard \/ UndoPath \/ UndoDisk \/ UndoBus
    BY <1>7
  <2>2. SdTypeOK'
    BY <1>1, <2>1 DEF SdInv, SdTypeOK, MountStages, BusInit, RegisterDisk, RegisterPath, UnmountCard,
                      UndoPath, UndoDisk, UndoBus, past
  <2>3. StagesRight'
    BY <1>1, <1>4, <2>1 DEF SdInv, StagesRight, BusInit, RegisterDisk, RegisterPath, UnmountCard,
                            UndoPath, UndoDisk, UndoBus
  <2>4. StatRight'
    BY <1>1, <2>1 DEF SdInv, StatRight, BusInit, RegisterDisk, RegisterPath, UnmountCard,
                      UndoPath, UndoDisk, UndoBus, past
  <2> QED
    BY <1>2, <1>5, <2>2, <2>3, <2>4 DEF SdInv
<1> QED
  BY <1>6, <1>7

LEMMA SectorsAre == LastSector \in Nat /\ Sectors \subseteq Nat /\ \A s \in Nat : s \in Sectors <=> s <= LastSector
BY SdConstants DEF Sectors

(* A call goes on only while the card is mounted. *)
LEMMA Busy == ASSUME SdInv, NEW c \in Callers, call[c].at # "idle" PROVE sdpc = "mounted" /\ ~noinit
BY DEF SdInv, StagesRight

LEMMA CallersAre == Callers = {"fatfs", "admin"} /\ "fatfs" \in Callers /\ "admin" \in Callers /\ "fatfs" # "admin"
BY DEF Callers

(* A call that is begun, given up or returned from leaves the card alone. *)
LEMMA CallDiskKeeps == ASSUME SdInv, CallDisk PROVE SdInv'
<1>1. PICK op \in {"read", "write", "trim"}, s \in Sectors, n \in 1 .. (LastSector + 1) :
        /\ s + n - 1 \in Sectors
        /\ call' = [call EXCEPT !["fatfs"] =
             [Resting EXCEPT !.at = "want", !.op = op, !.sector = s, !.left = n,
                             !.buff = IF op = "write" THEN [k \in 1 .. n |-> calls'] ELSE <<>>]]
  BY DEF CallDisk
<1> DEFINE b == IF op = "write" THEN [k \in 1 .. n |-> calls'] ELSE <<>>
<1>2. calls \in Nat /\ calls' \in Nat /\ LastSector \in Nat /\ n \in Nat /\ n > 0
  BY SdConstants DEF SdInv, SdTypeOK, CallDisk
<1>3. /\ b \in Seq(Nat) /\ (op = "write" => Len(b) = n /\ \A k \in 1 .. Len(b) : b[k] = b[1])
      /\ (op # "write" => Len(b) = 0)
  BY <1>2
<1> HIDE DEF b
<1> DEFINE f == [Resting EXCEPT !.at = "want", !.op = op, !.sector = s, !.left = n, !.buff = b]
<1>4. call' = [call EXCEPT !["fatfs"] = f]
  BY <1>1 DEF b
<1>5. /\ f \in Calling /\ f.at = "want" /\ f.op = op /\ f.sector = s /\ f.left = n /\ f.buff = b
      /\ ~f.ok
  BY <1>2, <1>3, RestingTyped DEF Calling
<1> HIDE DEF f
<1>6. call \in [Callers -> Calling]
  BY DEF SdInv, SdTypeOK
<1>7. call'["fatfs"] = f /\ call'["admin"] = call["admin"] /\ call' \in [Callers -> Calling]
  BY <1>4, <1>5, <1>6, CallersAre
<1>8. s + n <= LastSector + 1
  BY <1>1, <1>2 DEF Sectors
<1>9. UNCHANGED <<card, conf_pwd, driver, past>> /\ sdpc = "mounted"
  BY DEF CallDisk
<1>10. SdTypeOK'
  BY <1>2, <1>7, <1>9 DEF SdInv, SdTypeOK, driver, past
<1>11. StagesRight'
  BY <1>9 DEF SdInv, StagesRight, driver
<1>12. BusHeld'
  <2>1. card.transfer # "none" => stalled
    BY DEF SdInv, BusHeld, CallDisk
  <2> QED
    BY <1>5, <1>7, <1>9, <2>1, CallersAre DEF SdInv, BusHeld, driver, past
<1>13. StatRight'
  BY <1>9 DEF SdInv, StatRight, driver, past
<1>14. Within(f)
  BY <1>2, <1>3, <1>5, <1>8 DEF Within, Sectors
<1>15. Asked_(f)
  BY <1>2, <1>3, <1>5, <1>14 DEF Asked_
<1>16. DataRight'
  BY <1>5, <1>7, <1>9, <1>15 DEF SdInv, DataRight, Asked_, Progress, Within, past, Unknown
<1> QED
  BY <1>10, <1>11, <1>12, <1>13, <1>16 DEF SdInv

LEMMA CallPasswordKeeps == ASSUME SdInv, CallPassword PROVE SdInv'
<1>1. PICK op \in {"unlock", "lock", "set", "clear", "erase"}, p \in Passwords :
        call' = [call EXCEPT !["admin"] = [Resting EXCEPT !.at = "want", !.op = op, !.pwd = p]]
  BY DEF CallPassword
<1> DEFINE f == [Resting EXCEPT !.at = "want", !.op = op, !.pwd = p]
<1>2. call' = [call EXCEPT !["admin"] = f]
  BY <1>1
<1>3. f \in Calling /\ f.at = "want" /\ ~f.ok
  BY RestingTyped DEF Calling
<1> HIDE DEF f
<1>4. call \in [Callers -> Calling]
  BY DEF SdInv, SdTypeOK
<1>5. call'["admin"] = f /\ call'["fatfs"] = call["fatfs"] /\ call' \in [Callers -> Calling]
  BY <1>2, <1>3, <1>4, CallersAre
<1>6. UNCHANGED <<card, conf_pwd, driver, past>> /\ sdpc = "mounted"
  BY DEF CallPassword
<1>7. SdTypeOK'
  BY <1>5, <1>6 DEF SdInv, SdTypeOK, driver, past, CallPassword
<1>8. StagesRight'
  BY <1>6 DEF SdInv, StagesRight, driver
<1>9. BusHeld'
  BY <1>3, <1>5, <1>6, CallersAre DEF SdInv, BusHeld, driver, past
<1>10. StatRight'
  BY <1>6 DEF SdInv, StatRight, driver, past
<1>11. DataRight'
  BY <1>5, <1>6 DEF SdInv, DataRight, Asked_, Progress, Within, past, Unknown
<1> QED
  BY <1>7, <1>8, <1>9, <1>10, <1>11 DEF SdInv

LEMMA AcquireKeeps == ASSUME SdInv, NEW c \in Callers, Acquire(c) PROVE SdInv'
<1> DEFINE at == IF c = "fatfs" THEN "command" ELSE "password"
           f == [call[c] EXCEPT !.at = at]
<1>1. call \in [Callers -> Calling] /\ call' = [call EXCEPT ![c] = f]
  BY DEF SdInv, SdTypeOK, Acquire
<1>2. f \in Calling /\ f.at = at /\ f.op = call[c].op /\ f.sector = call[c].sector /\ f.left = call[c].left
      /\ f.buff = call[c].buff /\ f.ok = call[c].ok
  <2>1. call[c] \in Calling
    BY <1>1
  <2> QED
    BY <2>1 DEF Calling
<1> HIDE DEF f
<1>3. call' \in [Callers -> Calling] /\ call'[c] = f /\ \A d \in Callers \ {c} : call'[d] = call[d]
  BY <1>1, <1>2
<1>4. /\ UNCHANGED <<card, disk, vfs_path, noinit, protect, CardType, sdpc, calls, past>>
      /\ call[c].at = "want" /\ bus = "free" /\ bus' = c /\ sdpc = "mounted"
  BY Busy DEF Acquire
<1>5. SdTypeOK'
  BY <1>3, <1>4 DEF SdInv, SdTypeOK, past
<1>6. StagesRight'
  BY <1>4 DEF SdInv, StagesRight, Callers
<1>7. \A d \in Callers : call[d].at \in {"idle", "want"}
  BY <1>4 DEF SdInv, BusHeld, Callers
<1>8. BusHeld'
  <2>1. card.transfer # "none" => stalled
    BY <1>7, CallersAre DEF SdInv, BusHeld
  <2>2. \A d \in Callers \ {c} : call'[d].at \in {"idle", "want"}
    BY <1>3, <1>7
  <2> QED
    BY <1>2, <1>3, <1>4, <1>7, <2>1, <2>2, CallersAre DEF SdInv, BusHeld, past
<1>9. StatRight'
  BY <1>4 DEF SdInv, StatRight, past
<1>10. DataRight'
  <2>1. CASE c = "fatfs"
    BY <1>2, <1>3, <1>4, <2>1 DEF SdInv, DataRight, Asked_, Progress, Within, past, Unknown
  <2>2. CASE c # "fatfs"
    BY <1>3, <1>4, <2>2, CallersAre DEF SdInv, DataRight, Asked_, Progress, Within, past, Unknown
  <2> QED
    BY <2>1, <2>2
<1> QED
  BY <1>5, <1>6, <1>8, <1>9, <1>10 DEF SdInv

(* A caller that rests again. *)
LEMMA RestKeeps ==
  ASSUME SdInv, NEW c \in Callers, call[c].at # "idle", call' = [call EXCEPT ![c] = Resting],
         UNCHANGED <<card, disk, vfs_path, noinit, protect, CardType, sdpc, calls, answer_lost, stalled>>,
         bus' \in {"free", bus}, bus' = "free" => call[c].at = "release" \/ bus = "free",
         call[c].at \in {"want", "release"},
         written_ok' \in [Sectors -> Nat], \A s \in Sectors : written_ok'[s] \in {Unknown, card.data[s]},
         c # "fatfs" => UNCHANGED written_ok
  PROVE  SdInv'
<1>1. call \in [Callers -> Calling] /\ sdpc = "mounted"
  BY Busy DEF SdInv, SdTypeOK
<1>2. call' \in [Callers -> Calling] /\ call'[c] = Resting /\ \A d \in Callers \ {c} : call'[d] = call[d]
  BY <1>1, RestingTyped
<1>3. SdTypeOK'
  BY <1>2 DEF SdInv, SdTypeOK
<1>4. StagesRight'
  BY <1>1 DEF SdInv, StagesRight
<1>5. BusHeld'
  <2>1. card.transfer # "none" /\ ~stalled => c # "fatfs"
    BY DEF SdInv, BusHeld
  <2>2. \A d \in Callers \ {c} : call'[d].at \notin {"idle", "want"} => bus' = d
    <3> SUFFICES ASSUME NEW d \in Callers \ {c}, call'[d].at \notin {"idle", "want"} PROVE bus' = d
      OBVIOUS
    <3>1. bus = d
      BY <1>2 DEF SdInv, BusHeld
    <3>2. bus # "free"
      BY <3>1, CallersAre
    <3>3. call[c].at = "release" => bus = c
      BY DEF SdInv, BusHeld
    <3> QED
      BY <3>1, <3>2, <3>3
  <2>3. Resting.at = "idle" /\ ~Resting.ok
    BY RestingTyped
  <2>4. /\ call'["fatfs"].at # "password" /\ call'["admin"].at \in {"idle", "want", "password", "release"}
        /\ ~call'["admin"].ok
    BY <1>2, <2>3, CallersAre DEF SdInv, BusHeld
  <2>5. card'.transfer # "none" /\ ~stalled' => call'["fatfs"].at \in {"block", "stop"}
    BY <1>2, <2>1, CallersAre DEF SdInv, BusHeld
  <2> QED
    BY <1>2, <2>2, <2>3, <2>4, <2>5 DEF BusHeld
<1>6. StatRight'
  BY DEF SdInv, StatRight
<1>7. DataRight'
  <2>1. CASE c = "fatfs"
    <3>1. call'["fatfs"].at = "idle"
      BY <1>2, <2>1, RestingTyped
    <3> QED
      BY <3>1 DEF DataRight, Asked_, Progress, Unknown
  <2>2. CASE c # "fatfs"
    <3>1. call'["fatfs"] = call["fatfs"] /\ UNCHANGED <<written_ok, card>>
      BY <1>2, <2>2, CallersAre
    <3> QED
      BY <3>1 DEF SdInv, DataRight, Asked_, Progress, Within, Unknown
  <2> QED
    BY <2>1, <2>2
<1> QED
  BY <1>3, <1>4, <1>5, <1>6, <1>7 DEF SdInv

LEMMA ExpiresKeeps == ASSUME SdInv, NEW c \in Callers, AcquireExpires(c) PROVE SdInv'
<1>1. /\ call[c].at = "want" /\ bus # "free" /\ call' = [call EXCEPT ![c] = Resting]
      /\ UNCHANGED <<card, conf_pwd, bus, disk, vfs_path, noinit, protect, CardType, sdpc, calls,
                     answer_lost, stalled, written_ok>>
  BY DEF AcquireExpires, driver, past
<1>2. written_ok \in [Sectors -> Nat] /\ \A s \in Sectors : written_ok[s] \in {Unknown, card.data[s]}
  BY DEF SdInv, SdTypeOK, DataRight
<1> QED
  BY <1>1, <1>2, RestKeeps

(* What a returned call has achieved is what the card holds. *)
LEMMA ReleaseKeeps == ASSUME SdInv, NEW c \in Callers, Release(c) PROVE SdInv'
<1> DEFINE f == call[c]
           n == Len(f.buff)
           put(s) == IF f.op = "trim" /\ s \in f.sector .. (f.sector + f.left - 1) THEN Erased
                     ELSE IF f.op = "write" /\ s \in f.sector .. (f.sector + n - 1) THEN f.buff[1]
                     ELSE written_ok[s]
<1>1. /\ f.at = "release" /\ bus' = (IF bus = c THEN "free" ELSE bus) /\ call' = [call EXCEPT ![c] = Resting]
      /\ written_ok' = (IF ~f.ok \/ f.op = "read" THEN written_ok ELSE [s \in Sectors |-> put(s)])
      /\ UNCHANGED <<card, conf_pwd, disk, vfs_path, noinit, protect, CardType, sdpc, calls, answer_lost, stalled>>
  BY DEF Release
<1>2. written_ok \in [Sectors -> Nat] /\ \A s \in Sectors : written_ok[s] \in {Unknown, card.data[s]}
  BY DEF SdInv, SdTypeOK, DataRight
<1>3. card.data \in [Sectors -> Nat] /\ f \in Calling
  BY DEF SdInv, SdTypeOK, CardRec
<1>4. CASE ~f.ok \/ f.op = "read"
  BY <1>1, <1>2, <1>4, RestKeeps
<1>5. CASE f.ok /\ f.op # "read"
  <2>1. c = "fatfs" /\ Asked_(f) /\ Progress(f)
    BY <1>5, CallersAre DEF SdInv, BusHeld, DataRight
  <2>2. f.op \in {"write", "trim"}
    BY <1>1, <1>5, <2>1 DEF Asked_
  <2>3. \A s \in Sectors : put(s) \in Nat /\ put(s) \in {Unknown, card.data[s]}
    <3> TAKE s \in Sectors
    <3>1. s \in Nat /\ f.sector \in Nat /\ f.left \in Nat /\ n \in Nat /\ written_ok[s] \in Nat /\ card.data[s] \in Nat
      <4>1. f.sector \in Sectors /\ f.left \in Nat /\ f.buff \in Seq(Nat)
        BY <1>3 DEF Calling
      <4>2. written_ok[s] \in Nat /\ card.data[s] \in Nat
        BY <1>2, <1>3
      <4>3. n \in Nat
        BY <4>1
      <4>4. s \in Nat /\ f.sector \in Nat
        BY <4>1, SectorsAre
      <4> QED
        BY <4>1, <4>2, <4>3, <4>4
    <3>2. CASE f.op = "trim" /\ s \in f.sector .. (f.sector + f.left - 1)
      <4>1. card.data[s] = Erased
        BY <1>1, <1>5, <2>1, <3>2 DEF Progress
      <4> QED
        BY <3>2, <4>1 DEF Erased
    <3>3. CASE f.op = "write" /\ s \in f.sector .. (f.sector + n - 1)
      <4>1. f.left = 0 /\ \A k \in 1 .. (n - f.left) : card.data[f.sector + k - 1] = f.buff[1]
        BY <1>1, <1>5, <2>1, <3>3 DEF Progress
      <4>2. PICK k \in 1 .. n : s = f.sector + k - 1
        <5>1. s - f.sector + 1 \in 1 .. n /\ s = f.sector + (s - f.sector + 1) - 1
          BY <3>1, <3>3, SMTT(30)
        <5> QED
          BY <5>1
      <4>3. n - f.left = n
        BY <3>1, <4>1
      <4>4. card.data[s] = f.buff[1]
        BY <4>1, <4>2, <4>3
      <4> QED
        BY <3>1, <3>3, <4>4
    <3>4. CASE ~(f.op = "trim" /\ s \in f.sector .. (f.sector + f.left - 1))
               /\ ~(f.op = "write" /\ s \in f.sector .. (f.sector + n - 1))
      BY <1>2, <3>1, <3>4
    <3> QED
      BY <3>2, <3>3, <3>4
  <2> HIDE DEF put
  <2>4. written_ok' = [s \in Sectors |-> put(s)]
    BY <1>1, <1>5
  <2>5. written_ok' \in [Sectors -> Nat] /\ \A s \in Sectors : written_ok'[s] \in {Unknown, card.data[s]}
    BY <2>3, <2>4
  <2> QED
    BY <1>1, <2>1, <2>5, RestKeeps
<1> QED
  BY <1>4, <1>5

(* A step of FatFs's call while it holds the bus: what is left to show is   *)
(* what became of the data.                                                 *)
LEMMA WorkKeeps ==
  ASSUME SdInv, NEW f \in Calling, call' = [call EXCEPT !["fatfs"] = f],
         call["fatfs"].at \in {"command", "block", "stop"}, f.at \in {"block", "stop", "release"},
         UNCHANGED <<driver, calls, answer_lost>>, stalled' \in BOOLEAN,
         card' \in CardRec, card'.kind = card.kind, card'.locked = card.locked,
         card'.transfer # "none" /\ ~stalled' => f.at \in {"block", "stop"},
         written_ok' \in [Sectors -> Nat],
         \A s \in Sectors : written_ok'[s] \in {Unknown, card'.data[s]},
         Asked_(f), call'["fatfs"] = f => Progress(call["fatfs"])'
  PROVE  SdInv'
<1>1. call \in [Callers -> Calling] /\ sdpc = "mounted"
  BY Busy, CallersAre DEF SdInv, SdTypeOK
<1>2. call' \in [Callers -> Calling] /\ call'["fatfs"] = f /\ call'["admin"] = call["admin"]
  BY <1>1, CallersAre
<1>3. SdTypeOK'
  BY <1>2 DEF SdInv, SdTypeOK, driver
<1>4. StagesRight'
  BY <1>1 DEF SdInv, StagesRight, driver
<1>5. BusHeld'
  BY <1>2, CallersAre DEF SdInv, BusHeld, driver
<1>6. StatRight'
  BY DEF SdInv, StatRight, driver
<1>7. DataRight'
  BY <1>2 DEF DataRight, Unknown
<1> QED
  BY <1>3, <1>4, <1>5, <1>6, <1>7 DEF SdInv

LEMMA CallIs ==
  ASSUME SdInv
  PROVE  /\ call \in [Callers -> Calling] /\ call["fatfs"] \in Calling
         /\ \A x, y : [call EXCEPT !["fatfs"].at = x, !["fatfs"].ok = y]
                        = [call EXCEPT !["fatfs"] = [call["fatfs"] EXCEPT !.at = x, !.ok = y]]
         /\ card \in CardRec /\ card.data \in [Sectors -> Nat] /\ written_ok \in [Sectors -> Nat]
<1>1. call \in [Callers -> Calling] /\ card \in CardRec /\ written_ok \in [Sectors -> Nat]
  BY DEF SdInv, SdTypeOK
<1>2. call["fatfs"] \in Calling /\ card.data \in [Sectors -> Nat]
  BY <1>1, CallersAre DEF CardRec
<1> QED
  BY <1>1, <1>2, CallersAre

(* The sectors of a trim are those it was asked for. *)
LEMMA TrimmedFacts ==
  ASSUME SdInv, NEW f \in Calling, f.sector + f.left <= LastSector + 1, f.left > 0, CardType = card.kind
  PROVE  /\ Trimmed(f) \in [Sectors -> Nat]
         /\ \A s \in Sectors : Trimmed(f)[s] = IF s \in f.sector .. (f.sector + f.left - 1)
                                              THEN Erased ELSE card.data[s]
<1>1. f.sector \in Sectors /\ f.left \in Nat /\ card.data \in [Sectors -> Nat]
  BY CallIs DEF Calling
<1>2. f.sector + f.left - 1 \in Sectors
  BY <1>1, SectorsAre DEF Sectors
<1>3. Meant(Address(f.sector)) = f.sector /\ Meant(Address(f.sector + f.left - 1)) = f.sector + f.left - 1
  BY <1>1, <1>2, AddressMeant
<1> QED
  BY <1>1, <1>3 DEF Trimmed, Erased

LEMMA CommandKeeps == ASSUME SdInv, Command PROVE SdInv'
<1> DEFINE f == call["fatfs"]
           multi == f.left > 1 /\ f.op # "trim"
<1>1. PICK ok \in Selected :
        /\ call' = [call EXCEPT !["fatfs"].at =
                       IF ~Accepts(ok) THEN "release" ELSE IF f.op = "trim" THEN "release" ELSE "block",
                     !["fatfs"].ok = Accepts(ok) /\ f.op = "trim"]
        /\ card' = IF ~Accepts(ok) THEN card
                   ELSE IF f.op = "trim" THEN [card EXCEPT !.data = Trimmed(f)]
                   ELSE [card EXCEPT !.transfer = IF multi THEN f.op ELSE "none"]
  BY DEF Command
<1> DEFINE at == IF ~Accepts(ok) THEN "release" ELSE IF f.op = "trim" THEN "release" ELSE "block"
           done == Accepts(ok) /\ f.op = "trim"
           g == [f EXCEPT !.at = at, !.ok = done]
           put(s) == IF s \in f.sector .. (f.sector + f.left - 1) THEN Unknown ELSE written_ok[s]
<1>2. /\ f.at = "command" /\ UNCHANGED <<driver, calls, answer_lost, stalled>>
      /\ written_ok' = IF f.op = "read" THEN written_ok ELSE [s \in Sectors |-> put(s)]
  BY DEF Command
<1>3. call' = [call EXCEPT !["fatfs"] = g]
  BY <1>1, CallIs
<1>4. /\ f \in Calling /\ f.at \in {"command"} /\ CardType = card.kind
      /\ card.data \in [Sectors -> Nat] /\ written_ok \in [Sectors -> Nat] /\ card \in CardRec
      /\ f.sector \in Sectors /\ f.left \in Nat /\ f.buff \in Seq(Nat) /\ Len(f.buff) \in Nat
  <2>1. f \in Calling /\ CardType = card.kind
    BY <1>2, CallIs, Busy, CallersAre DEF SdInv, StagesRight
  <2>2. f.sector \in Sectors /\ f.left \in Nat /\ f.buff \in Seq(Nat)
    BY <2>1 DEF Calling
  <2>3. Len(f.buff) \in Nat
    BY <2>2
  <2> HIDE DEF f
  <2> QED
    BY <1>2, <2>1, <2>2, <2>3, CallIs
<1>5. /\ f.op \in {"read", "write", "trim"} /\ Within(f) /\ f.left > 0 /\ ~f.ok
      /\ (f.op = "read" => Len(f.buff) = 0) /\ (f.op = "write" => Len(f.buff) = f.left)
  BY <1>2, <1>4 DEF SdInv, DataRight, Asked_
<1>6. f.sector + f.left <= LastSector + 1
  BY <1>4, <1>5, SectorsAre DEF Within
<1>7. done \in BOOLEAN /\ at \in {"release", "block"} /\ (done => f.op = "trim" /\ at = "release") /\ (f.op = "trim" => at = "release")
  BY <1>1 DEF Accepts
<1>8. /\ g \in Calling /\ g.at = at /\ g.ok = done /\ g.op = f.op /\ g.sector = f.sector /\ g.left = f.left
      /\ g.buff = f.buff
  BY <1>4, <1>7 DEF Calling
<1>9. /\ card' \in CardRec /\ card'.kind = card.kind /\ card'.locked = card.locked
      /\ card'.transfer # "none" /\ ~stalled => at = "block"
      /\ card'.data = IF done THEN Trimmed(f) ELSE card.data
  <2>1. CASE ~Accepts(ok)
    <3>1. card.transfer = "none" \/ stalled
      BY <1>2 DEF SdInv, BusHeld
    <3> QED
      BY <1>1, <1>4, <2>1, <3>1
  <2>2. CASE Accepts(ok) /\ f.op = "trim"
    <3>1. Trimmed(f) \in [Sectors -> Nat]
      BY <1>4, <1>5, <1>6, TrimmedFacts
    <3>2. card' = [card EXCEPT !.data = Trimmed(f)] /\ card.transfer = "none"
      BY <1>1, <2>2 DEF Accepts
    <3> QED
      BY <1>4, <2>2, <3>1, <3>2 DEF CardRec
  <2>3. CASE Accepts(ok) /\ f.op # "trim"
    <3> DEFINE t == IF multi THEN f.op ELSE "none"
    <3>1. card' = [card EXCEPT !.transfer = t] /\ t \in {"none", "read", "write"}
      BY <1>1, <1>5, <2>3
    <3> HIDE DEF t
    <3> QED
      BY <1>4, <2>3, <3>1 DEF CardRec
  <2> QED
    BY <2>1, <2>2, <2>3
<1>10. /\ written_ok' \in [Sectors -> Nat]
       /\ \A s \in Sectors : written_ok'[s] = IF f.op = "read" THEN written_ok[s] ELSE put(s)
  <2>1. Unknown \in Nat
    BY SdConstants DEF Unknown
  <2> QED
    BY <1>2, <1>4, <2>1
<1>11. \A s \in Sectors : written_ok'[s] \in {Unknown, card'.data[s]}
  <2> TAKE s \in Sectors
  <2>1. written_ok[s] \in {Unknown, card.data[s]}
    BY DEF SdInv, DataRight
  <2>2. CASE done
    <3>1. card'.data[s] = IF s \in f.sector .. (f.sector + f.left - 1) THEN Erased ELSE card.data[s]
      BY <1>4, <1>5, <1>6, <1>9, <2>2, TrimmedFacts
    <3>2. written_ok'[s] = put(s)
      BY <1>7, <1>10, <2>2
    <3> QED
      BY <2>1, <3>1, <3>2
  <2>3. CASE ~done
    BY <1>9, <1>10, <2>1, <2>3
  <2> QED
    BY <2>2, <2>3
<1>12. Asked_(g)
  <2>1. Within(g)
    BY <1>5, <1>8 DEF Within
  <2> HIDE DEF f, g, at, done
  <2>2. g.at = "block" => g.op # "trim" /\ ~g.ok
    BY <1>5, <1>7, <1>8
  <2> QED
    BY <1>5, <1>7, <1>8, <2>1, <2>2 DEF Asked_
<1>13. ASSUME call'["fatfs"] = g PROVE Progress(call["fatfs"])'
  <2>1. f.op = "read" => \A k \in 1 .. Len(f.buff) : f.buff[k] = card'.data[f.sector + k - 1]
    BY <1>5
  <2>2. f.op = "write" =>
          /\ done => f.left = 0
          /\ \A k \in 1 .. (Len(f.buff) - f.left) : card'.data[f.sector + k - 1] = f.buff[1]
          /\ \A k \in 1 .. Len(f.buff) : written_ok'[f.sector + k - 1] = Unknown
    <3> SUFFICES ASSUME f.op = "write", NEW k \in 1 .. Len(f.buff) PROVE written_ok'[f.sector + k - 1] = Unknown
      BY <1>4, <1>5, <1>7
    <3>1. f.sector + k - 1 \in Sectors /\ f.sector + k - 1 \in f.sector .. (f.sector + f.left - 1)
      <4>1. f.sector \in Nat /\ Len(f.buff) = f.left
        BY <1>4, <1>5, SectorsAre
      <4> HIDE DEF f
      <4>2. k \in Nat /\ k >= 1 /\ k <= f.left /\ f.left \in Nat
        BY <1>4, <4>1
      <4> QED
        BY <1>6, <4>1, <4>2, SectorsAre DEF Sectors
    <3> QED
      BY <1>10, <3>1
  <2>3. f.op = "trim" /\ done => \A s \in f.sector .. (f.sector + f.left - 1) : card'.data[s] = Erased
    <3> SUFFICES ASSUME f.op = "trim", done, NEW s \in f.sector .. (f.sector + f.left - 1)
                 PROVE  card'.data[s] = Erased
      OBVIOUS
    <3>1. s \in Sectors
      BY <1>4, <1>6, SectorsAre, SMTT(30) DEF Sectors
    <3> QED
      BY <1>4, <1>5, <1>6, <1>9, <3>1, TrimmedFacts
  <2> HIDE DEF f, g, at, done
  <2> QED
    BY <1>8, <1>13, <2>1, <2>2, <2>3 DEF Progress, Unknown
<1> HIDE DEF g, at, done, put
<1>14. f.at \in {"command", "block", "stop"} /\ g.at \in {"block", "stop", "release"}
  BY <1>2, <1>7, <1>8
<1>15. card'.transfer # "none" /\ ~stalled' => g.at \in {"block", "stop"}
  BY <1>2, <1>8, <1>9
<1>16. stalled' \in BOOLEAN
  BY <1>2 DEF SdInv, SdTypeOK
<1> HIDE DEF f
<1> QED
  BY <1>2, <1>3, <1>8, <1>9, <1>10, <1>11, <1>12, <1>13, <1>14, <1>15, <1>16, WorkKeeps DEF f

(* Where the next block goes. *)
Place(f) == f.sector + (IF f.op = "read" THEN Len(f.buff) ELSE Len(f.buff) - f.left)

LEMMA BlockFacts ==
  ASSUME SdInv, NEW f, f = call["fatfs"], f.at = "block"
  PROVE  /\ f \in Calling /\ f.sector \in Nat /\ f.sector \in Sectors /\ f.left \in Nat /\ f.left > 0
         /\ f.buff \in Seq(Nat) /\ Len(f.buff) \in Nat /\ f.op \in {"read", "write"} /\ ~f.ok
         /\ f.op = "read" => f.sector + Len(f.buff) + f.left <= LastSector + 1
         /\ f.op = "write" => f.sector + Len(f.buff) <= LastSector + 1 /\ f.left <= Len(f.buff)
                              /\ \A k \in 1 .. Len(f.buff) : f.buff[k] = f.buff[1]
         /\ Place(f) \in Sectors /\ Meant(Address(f.sector)) = f.sector
         /\ Within(f) /\ Progress(f)
<1>1. f \in Calling /\ Asked_(f) /\ Progress(f)
  BY CallIs DEF SdInv, DataRight
<1>2. f.op \in {"read", "write"} /\ Within(f) /\ f.left > 0 /\ ~f.ok
  BY <1>1 DEF Asked_
<1>3. f.sector \in Sectors /\ f.sector \in Nat /\ f.left \in Nat /\ f.buff \in Seq(Nat)
  BY <1>1, SectorsAre DEF Calling
<1>4. Len(f.buff) \in Nat
  BY <1>3
<1>5. /\ f.op = "read" => f.sector + Len(f.buff) + f.left <= LastSector + 1
      /\ f.op = "write" => f.sector + Len(f.buff) <= LastSector + 1 /\ f.left <= Len(f.buff)
                           /\ \A k \in 1 .. Len(f.buff) : f.buff[k] = f.buff[1]
  BY <1>2 DEF Within
<1>6. Place(f) \in Sectors
  <2>1. LastSector \in Nat
    BY SectorsAre
  <2>2. Place(f) \in Nat /\ Place(f) <= LastSector
    <3>1. CASE f.op = "read"
      BY <1>2, <1>3, <1>4, <1>5, <2>1, <3>1, SMTT(30) DEF Place
    <3>2. CASE f.op = "write"
      <4>1. f.sector + Len(f.buff) <= LastSector + 1 /\ f.left <= Len(f.buff) /\ f.left > 0
        BY <1>2, <1>5, <3>2
      <4>2. Place(f) = f.sector + (Len(f.buff) - f.left)
        BY <3>2 DEF Place
      <4> QED
        BY <1>3, <1>4, <2>1, <4>1, <4>2, SMTT(30)
    <3> QED
      BY <1>2, <3>1, <3>2
  <2> QED
    BY <2>1, <2>2, SectorsAre
<1>7. Meant(Address(f.sector)) = f.sector
  BY <1>3, AddressMeant, Busy, CallersAre DEF SdInv, StagesRight
<1> QED
  BY <1>1, <1>2, <1>3, <1>4, <1>5, <1>6, <1>7

LEMMA BlockKeeps == ASSUME SdInv, TransferBlock PROVE SdInv'
<1> DEFINE f == call["fatfs"]
           n == Meant(Address(f.sector)) + (IF f.op = "read" THEN Len(f.buff) ELSE Len(f.buff) - f.left)
           multi == card.transfer # "none"
           buff == IF f.op = "read" THEN Append(f.buff, card.data[n]) ELSE f.buff
           at == IF f.left > 1 THEN "block" ELSE IF multi THEN "stop" ELSE "release"
           last == f.left = 1
           more == [f EXCEPT !.left = f.left - 1, !.buff = buff, !.at = at, !.ok = last]
           given == IF multi THEN "stop" ELSE "release"
           less == [f EXCEPT !.at = given]
<1>1. f.at = "block" /\ UNCHANGED <<conf_pwd, driver, calls, past>>
  BY DEF TransferBlock
<1>2. /\ f \in Calling /\ f.sector \in Nat /\ f.sector \in Sectors /\ f.left \in Nat /\ f.left > 0
      /\ f.buff \in Seq(Nat) /\ Len(f.buff) \in Nat /\ f.op \in {"read", "write"} /\ ~f.ok
      /\ f.op = "read" => f.sector + Len(f.buff) + f.left <= LastSector + 1
      /\ f.op = "write" => f.sector + Len(f.buff) <= LastSector + 1 /\ f.left <= Len(f.buff)
                           /\ \A k \in 1 .. Len(f.buff) : f.buff[k] = f.buff[1]
      /\ Place(f) \in Sectors /\ Meant(Address(f.sector)) = f.sector /\ Within(f) /\ Progress(f)
  BY <1>1, BlockFacts
<1>3. n = Place(f) /\ n \in Sectors
  BY <1>2 DEF Place
<1>4. card \in CardRec /\ card.data \in [Sectors -> Nat] /\ written_ok \in [Sectors -> Nat]
      /\ call \in [Callers -> Calling] /\ stalled \in BOOLEAN
  BY CallIs DEF SdInv, SdTypeOK
<1>5. (call' = [call EXCEPT !["fatfs"] = more]
        /\ card' = IF f.op = "write" THEN [card EXCEPT !.data[n] = f.buff[1]] ELSE card)
      \/ (call' = [call EXCEPT !["fatfs"].at = given] /\ UNCHANGED card)
  BY DEF TransferBlock
<1>6. \A s \in Sectors : written_ok[s] \in {Unknown, card.data[s]}
  BY DEF SdInv, DataRight
<1>7. CASE call' = [call EXCEPT !["fatfs"].at = given] /\ UNCHANGED card
  <2>1. call' = [call EXCEPT !["fatfs"] = less]
    BY <1>4, <1>7, CallersAre
  <2>2. given \in {"stop", "release"}
    OBVIOUS
  <2> HIDE DEF given
  <2>3. /\ less \in Calling /\ less.at = given /\ less.op = f.op /\ less.sector = f.sector
        /\ less.left = f.left /\ less.buff = f.buff /\ less.ok = f.ok
    BY <1>2, <2>2 DEF Calling
  <2> HIDE DEF f, less
  <2>4. Within(less)
    BY <1>2, <2>3 DEF Within
  <2>5. Asked_(less)
    BY <1>2, <2>2, <2>3, <2>4 DEF Asked_
  <2>6. ASSUME call'["fatfs"] = less PROVE Progress(call["fatfs"])'
    <3>1. /\ f.op = "read" => \A k \in 1 .. Len(f.buff) : f.buff[k] = card.data[f.sector + k - 1]
          /\ f.op = "write" =>
               /\ \A k \in 1 .. (Len(f.buff) - f.left) : card.data[f.sector + k - 1] = f.buff[1]
               /\ \A k \in 1 .. Len(f.buff) : written_ok[f.sector + k - 1] = Unknown
      BY <1>1, <1>2 DEF Progress, f
    <3>2. card' = card /\ written_ok' = written_ok
      BY <1>1, <1>7 DEF past
    <3> QED
      BY <1>2, <2>3, <2>6, <3>1, <3>2 DEF Progress, Unknown
  <2>7. card'.transfer # "none" /\ ~stalled' => less.at \in {"block", "stop"}
    BY <1>7, <2>3 DEF given
  <2>8. call["fatfs"].at \in {"command", "block", "stop"} /\ less.at \in {"block", "stop", "release"}
    BY <1>1, <2>2, <2>3 DEF f
  <2>9. UNCHANGED <<driver, calls, answer_lost, stalled, written_ok, card>>
    BY <1>1, <1>7 DEF past
  <2> QED
    BY <1>4, <1>6, <2>1, <2>3, <2>5, <2>6, <2>7, <2>8, <2>9, WorkKeeps
<1>8. CASE call' = [call EXCEPT !["fatfs"] = more]
           /\ card' = IF f.op = "write" THEN [card EXCEPT !.data[n] = f.buff[1]] ELSE card
  <2>1. /\ buff \in Seq(Nat) /\ Len(buff) = (IF f.op = "read" THEN Len(f.buff) + 1 ELSE Len(f.buff))
        /\ f.op = "read" => buff[Len(f.buff) + 1] = card.data[n]
        /\ f.op # "read" => buff = f.buff
        /\ \A k \in 1 .. Len(f.buff) : buff[k] = f.buff[k]
    <3>1. card.data[n] \in Nat
      BY <1>3, <1>4
    <3> HIDE DEF n, f
    <3> QED
      BY <1>2, <3>1
  <2>2. at \in {"block", "stop", "release"} /\ last \in BOOLEAN /\ f.left - 1 \in Nat
        /\ (at = "block" <=> ~last)
    BY <1>2
  <2> HIDE DEF buff, at, last
  <2>3. /\ more \in Calling /\ more.at = at /\ more.op = f.op /\ more.sector = f.sector
        /\ more.left = f.left - 1 /\ more.buff = buff /\ more.ok = last
    BY <1>2, <2>1, <2>2 DEF Calling
  <2> HIDE DEF f, more, n
  <2>4. Within(more)
    <3>1. CASE f.op = "read"
      <4>1. f.sector + Len(f.buff) + f.left <= LastSector + 1 /\ Len(buff) = Len(f.buff) + 1
        BY <1>2, <2>1, <3>1
      <4>2. f.sector + Len(buff) + (f.left - 1) <= LastSector + 1
        BY <1>2, <4>1, SectorsAre
      <4> QED
        BY <2>3, <3>1, <4>2 DEF Within
    <3>2. CASE f.op = "write"
      BY <1>2, <2>1, <2>3, <3>2 DEF Within
    <3> QED
      BY <1>2, <3>1, <3>2
  <2>5. Asked_(more)
    <3>1. more.at = "block" => more.left > 0 /\ ~more.ok
      <4>1. ~last => f.left - 1 > 0
        BY <1>2 DEF last
      <4> QED
        BY <2>2, <2>3, <4>1
    <3> QED
      BY <1>2, <2>2, <2>3, <2>4, <3>1 DEF Asked_
  <2>6. /\ card' \in CardRec /\ card'.kind = card.kind /\ card'.locked = card.locked
        /\ card'.transfer = card.transfer
        /\ card'.data = IF f.op = "write" THEN [card.data EXCEPT ![n] = f.buff[1]] ELSE card.data
    <3>1. CASE f.op = "write"
      <4>1. f.buff[1] \in Nat
        BY <1>2, <3>1
      <4> DEFINE d == [card.data EXCEPT ![n] = f.buff[1]]
      <4>2. d \in [Sectors -> Nat]
        BY <1>3, <1>4, <4>1
      <4>3. card' = [card EXCEPT !.data = d]
        BY <1>8, <3>1
      <4> HIDE DEF d
      <4>4. card' \in CardRec /\ card'.kind = card.kind /\ card'.locked = card.locked
            /\ card'.transfer = card.transfer /\ card'.data = d
        BY <1>4, <4>2, <4>3 DEF CardRec
      <4> QED
        BY <3>1, <4>4 DEF d
    <3>2. CASE f.op # "write"
      BY <1>4, <1>8, <3>2
    <3> QED
      BY <3>1, <3>2
  <2>7. f.op = "write" => written_ok[n] = Unknown
    <3> SUFFICES ASSUME f.op = "write" PROVE written_ok[n] = Unknown
      OBVIOUS
    <3>1. \A k \in 1 .. Len(f.buff) : written_ok[f.sector + k - 1] = Unknown
      BY <1>1, <1>2 DEF Progress, f
    <3>2. Len(f.buff) - f.left + 1 \in 1 .. Len(f.buff) /\ n = f.sector + (Len(f.buff) - f.left + 1) - 1
      <4>1. n = f.sector + (Len(f.buff) - f.left)
        BY <1>3 DEF Place
      <4>2. f.left <= Len(f.buff) /\ f.left > 0 /\ f.left \in Nat /\ Len(f.buff) \in Nat /\ f.sector \in Nat
        BY <1>2
      <4> QED
        BY <4>1, <4>2, SMTT(30)
    <3> QED
      BY <3>1, <3>2
  <2>8. \A s \in Sectors : written_ok[s] \in {Unknown, card'.data[s]}
    BY <1>3, <1>4, <1>6, <2>6, <2>7
  <2>9. f.op = "read" => \A k \in 1 .. Len(buff) : buff[k] = card'.data[f.sector + k - 1]
    <3> SUFFICES ASSUME f.op = "read", NEW k \in 1 .. (Len(f.buff) + 1)
                 PROVE  buff[k] = card'.data[f.sector + k - 1]
      BY <2>1
    <3>1. card'.data = card.data
      BY <2>6
    <3>2. CASE k \in 1 .. Len(f.buff)
      <4>1. f.buff[k] = card.data[f.sector + k - 1]
        BY <1>1, <1>2, <3>2 DEF Progress, f
      <4> QED
        BY <2>1, <3>1, <3>2, <4>1
    <3>3. CASE k = Len(f.buff) + 1
      <4>1. f.sector + k - 1 = n
        BY <1>2, <1>3, <3>3 DEF Place
      <4>2. buff[k] = card.data[n]
        BY <2>1, <3>3
      <4> QED
        BY <3>1, <4>1, <4>2
    <3>4. k \in 1 .. Len(f.buff) \/ k = Len(f.buff) + 1
      BY <1>2, <2>1
    <3> QED
      BY <3>2, <3>3, <3>4
  <2>10. f.op = "write" => \A k \in 1 .. (Len(buff) - (f.left - 1)) : card'.data[f.sector + k - 1] = buff[1]
    <3> SUFFICES ASSUME f.op = "write", NEW k \in 1 .. (Len(f.buff) - f.left + 1)
                 PROVE  card'.data[f.sector + k - 1] = buff[1]
      <4>1. f.op = "write" => Len(buff) - (f.left - 1) = Len(f.buff) - f.left + 1
        BY <1>2, <2>1
      <4> QED
        BY <4>1
    <3>1. buff = f.buff /\ card'.data = [card.data EXCEPT ![n] = f.buff[1]]
      <4>1. buff = f.buff
        BY <2>1
      <4>2. card'.data = [card.data EXCEPT ![n] = f.buff[1]]
        BY <2>6
      <4> QED
        BY <4>1, <4>2
    <3>2. k \in Nat /\ k >= 1 /\ k <= Len(f.buff) - f.left + 1
      BY <1>2, <3>1
    <3>3. f.sector + k - 1 \in Sectors
      <4>1. f.sector + Len(f.buff) <= LastSector + 1 /\ f.left > 0
        BY <1>2
      <4>2. f.sector \in Nat /\ f.left \in Nat /\ Len(f.buff) \in Nat /\ LastSector \in Nat
        BY <1>2, SectorsAre
      <4>3. f.sector + k - 1 \in Nat /\ f.sector + k - 1 <= LastSector
        BY <3>2, <4>1, <4>2, SMTT(30)
      <4> QED
        BY <4>3, SectorsAre
    <3>4. CASE f.sector + k - 1 = n
      BY <1>4, <3>1, <3>3, <3>4
    <3>5. CASE f.sector + k - 1 # n
      <4>1. k \in 1 .. (Len(f.buff) - f.left)
        <5>1. n = f.sector + (Len(f.buff) - f.left)
          BY <1>3 DEF Place
        <5>2. f.sector \in Nat /\ f.left \in Nat /\ Len(f.buff) \in Nat
          BY <1>2
        <5> QED
          BY <3>2, <3>5, <5>1, <5>2
      <4>2. card.data[f.sector + k - 1] = f.buff[1]
        BY <1>1, <1>2, <4>1 DEF Progress, f
      <4> QED
        BY <1>4, <3>1, <3>3, <3>5, <4>2
    <3> QED
      BY <3>4, <3>5
  <2>11. f.op = "write" => \A k \in 1 .. Len(buff) : written_ok[f.sector + k - 1] = Unknown
    BY <1>1, <1>2, <2>1 DEF Progress, f
  <2>12. written_ok' = written_ok /\ stalled' = stalled
    BY <1>1 DEF past
  <2>13. ASSUME call'["fatfs"] = more PROVE Progress(call["fatfs"])'
    <3>1. last => f.left - 1 = 0
      BY <1>2 DEF last
    <3> QED
      BY <1>2, <2>3, <2>9, <2>10, <2>11, <2>12, <2>13, <3>1 DEF Progress, Unknown
  <2>14. card'.transfer # "none" /\ ~stalled' => more.at \in {"block", "stop"}
    BY <2>3, <2>6 DEF at
  <2>15. call["fatfs"].at \in {"command", "block", "stop"} /\ more.at \in {"block", "stop", "release"}
    BY <1>1, <2>2, <2>3 DEF f
  <2>16. UNCHANGED <<driver, calls, answer_lost>>
    BY <1>1 DEF past
  <2> QED
    BY <1>4, <1>8, <2>3, <2>5, <2>6, <2>8, <2>12, <2>13, <2>14, <2>15, <2>16, WorkKeeps
<1> HIDE DEF f, n, more, given
<1> QED
  BY <1>5, <1>7, <1>8

LEMMA StopKeeps == ASSUME SdInv, Stop PROVE SdInv'
<1> DEFINE f == call["fatfs"]
           ended == [f EXCEPT !.at = "release"]
           failed == [f EXCEPT !.at = "release", !.ok = FALSE]
<1>1. f.at = "stop" /\ UNCHANGED <<conf_pwd, driver, calls, answer_lost, written_ok>>
  BY DEF Stop
<1>2. /\ f \in Calling /\ call \in [Callers -> Calling] /\ card \in CardRec /\ written_ok \in [Sectors -> Nat]
      /\ stalled \in BOOLEAN
  BY CallIs DEF SdInv, SdTypeOK
<1>3. \A s \in Sectors : written_ok[s] \in {Unknown, card.data[s]}
  BY DEF SdInv, DataRight
<1>4. f.op \in {"read", "write"} /\ Within(f) /\ Progress(f)
  BY <1>1 DEF SdInv, DataRight, Asked_
<1>5. /\ f.op = "read" => \A k \in 1 .. Len(f.buff) : f.buff[k] = card.data[f.sector + k - 1]
      /\ f.op = "write" =>
           /\ f.ok => f.left = 0
           /\ \A k \in 1 .. (Len(f.buff) - f.left) : card.data[f.sector + k - 1] = f.buff[1]
           /\ \A k \in 1 .. Len(f.buff) : written_ok[f.sector + k - 1] = Unknown
  BY <1>1, <1>4 DEF Progress
<1>6. /\ ended \in Calling /\ ended.at = "release" /\ ended.op = f.op /\ ended.sector = f.sector
      /\ ended.left = f.left /\ ended.buff = f.buff /\ ended.ok = f.ok
  BY <1>2 DEF Calling
<1>7. /\ failed \in Calling /\ failed.at = "release" /\ failed.op = f.op /\ failed.sector = f.sector
      /\ failed.left = f.left /\ failed.buff = f.buff /\ ~failed.ok
  BY <1>2 DEF Calling
<1>8. \/ /\ card' = [card EXCEPT !.transfer = "none"]
         /\ call' = [call EXCEPT !["fatfs"] = ended] /\ UNCHANGED stalled
      \/ stalled' = TRUE /\ call' = [call EXCEPT !["fatfs"] = failed] /\ UNCHANGED card
  BY <1>2, CallIs, CallersAre DEF Stop
<1>9. /\ card' \in CardRec /\ card'.kind = card.kind /\ card'.locked = card.locked /\ card'.data = card.data
      /\ stalled' \in BOOLEAN /\ (card'.transfer # "none" => stalled')
  <2>1. CASE card' = [card EXCEPT !.transfer = "none"] /\ UNCHANGED stalled
    BY <1>2, <2>1 DEF CardRec
  <2>2. CASE stalled' = TRUE /\ UNCHANGED card
    BY <1>2, <2>2
  <2> QED
    BY <1>8, <2>1, <2>2
<1>10. call["fatfs"].at \in {"command", "block", "stop"}
  BY <1>1
<1> HIDE DEF f, ended, failed
<1>11. \A g : /\ g.at = "release" /\ g.op = f.op /\ g.sector = f.sector /\ g.left = f.left /\ g.buff = f.buff
              /\ g.ok = f.ok \/ ~g.ok
              => Asked_(g) /\ (call'["fatfs"] = g => Progress(call["fatfs"])')
  <2> SUFFICES ASSUME NEW g, g.at = "release", g.op = f.op, g.sector = f.sector, g.left = f.left,
                      g.buff = f.buff, g.ok = f.ok \/ ~g.ok
               PROVE  Asked_(g) /\ (call'["fatfs"] = g => Progress(call["fatfs"])')
    OBVIOUS
  <2>1. Within(g)
    BY <1>4 DEF Within
  <2>2. Asked_(g)
    BY <1>4, <2>1 DEF Asked_
  <2>3. ASSUME call'["fatfs"] = g PROVE Progress(call["fatfs"])'
    BY <1>1, <1>4, <1>5, <1>9, <2>3 DEF Progress, Unknown
  <2> QED
    BY <2>2, <2>3
<1>12. written_ok' = written_ok /\ UNCHANGED <<driver, calls, answer_lost>>
  BY <1>1
<1>13. CASE call' = [call EXCEPT !["fatfs"] = ended]
  <2>1. Asked_(ended) /\ (call'["fatfs"] = ended => Progress(call["fatfs"])')
    BY <1>6, <1>11
  <2>2. ended.at \in {"block", "stop", "release"}
    BY <1>6
  <2> QED
    BY <1>2, <1>3, <1>6, <1>9, <1>10, <1>12, <1>13, <2>1, <2>2, WorkKeeps
<1>14. CASE call' = [call EXCEPT !["fatfs"] = failed]
  <2>1. Asked_(failed) /\ (call'["fatfs"] = failed => Progress(call["fatfs"])')
    BY <1>7, <1>11
  <2>2. failed.at \in {"block", "stop", "release"}
    BY <1>7
  <2> QED
    BY <1>2, <1>3, <1>7, <1>9, <1>10, <1>12, <1>14, <2>1, <2>2, WorkKeeps
<1> QED
  BY <1>8, <1>13, <1>14

(* What CMD42 makes of the card: only a forced erase changes its data. *)
LEMMA Lock42Facts ==
  ASSUME SdInv, NEW op, NEW p \in Passwords \union {NoPassword}, Lock42(op, p) # <<>>
  PROVE  LET c == Lock42(op, p)[1]
         IN /\ c \in CardRec /\ c.kind = card.kind /\ c.transfer = card.transfer
            /\ op \in {"unlock", "clear", "erase"} => ~c.locked
            /\ op \notin {"unlock", "clear", "erase", "lock"} => c.locked = card.locked
            /\ c.data = IF op = "erase" THEN [s \in Sectors |-> Erased] ELSE card.data
<1> DEFINE right == card.pwd = p
           unlocked == [card EXCEPT !.locked = FALSE]
           locked == [card EXCEPT !.locked = TRUE]
           guarded == [card EXCEPT !.pwd = p]
           cleared == [card EXCEPT !.pwd = NoPassword, !.locked = FALSE]
           blank == [s \in Sectors |-> Erased]
           erased == [card EXCEPT !.pwd = NoPassword, !.locked = FALSE, !.data = blank]
<1>1. card \in CardRec /\ blank \in [Sectors -> Nat]
  BY CallIs DEF Erased
<1>2. \/ op = "unlock" /\ right /\ Lock42(op, p) = <<unlocked>>
      \/ op = "lock" /\ right /\ Lock42(op, p) = <<locked>>
      \/ op = "set" /\ card.pwd = NoPassword /\ Lock42(op, p) = <<guarded>>
      \/ op = "clear" /\ right /\ Lock42(op, p) = <<cleared>>
      \/ op = "erase" /\ card.locked /\ Lock42(op, p) = <<erased>>
  BY DEF Lock42
<1>3. unlocked \in CardRec /\ unlocked.kind = card.kind /\ unlocked.transfer = card.transfer
      /\ unlocked.data = card.data /\ ~unlocked.locked
  BY <1>1 DEF CardRec
<1>4. locked \in CardRec /\ locked.kind = card.kind /\ locked.transfer = card.transfer
      /\ locked.data = card.data
  BY <1>1 DEF CardRec
<1>5. guarded \in CardRec /\ guarded.kind = card.kind /\ guarded.transfer = card.transfer
      /\ guarded.data = card.data /\ guarded.locked = card.locked
  BY <1>1 DEF CardRec
<1>6. cleared \in CardRec /\ cleared.kind = card.kind /\ cleared.transfer = card.transfer
      /\ cleared.data = card.data /\ ~cleared.locked
  BY <1>1 DEF CardRec
<1> HIDE DEF blank
<1>7. erased \in CardRec /\ erased.kind = card.kind /\ erased.transfer = card.transfer
      /\ erased.data = blank /\ ~erased.locked
  BY <1>1 DEF CardRec
<1> HIDE DEF unlocked, locked, guarded, cleared, erased
<1>8. CASE op = "unlock" /\ Lock42(op, p) = <<unlocked>>
  BY <1>3, <1>8
<1>9. CASE op = "lock" /\ Lock42(op, p) = <<locked>>
  BY <1>4, <1>9
<1>10. CASE op = "set" /\ Lock42(op, p) = <<guarded>>
  BY <1>5, <1>10
<1>11. CASE op = "clear" /\ Lock42(op, p) = <<cleared>>
  BY <1>6, <1>11
<1>12. CASE op = "erase" /\ Lock42(op, p) = <<erased>>
  BY <1>7, <1>12 DEF blank
<1> QED
  BY <1>2, <1>8, <1>9, <1>10, <1>11, <1>12

LEMMA PasswordKeeps == ASSUME SdInv, Password PROVE SdInv'
<1> DEFINE a == call["admin"]
           done == Lock42(a.op, a.pwd)
           b == [a EXCEPT !.at = "release"]
<1>1. /\ a.at = "password" /\ call' = [call EXCEPT !["admin"].at = "release"]
      /\ UNCHANGED <<conf_pwd, bus, disk, vfs_path, noinit, CardType, sdpc, calls, stalled>>
  BY DEF Password
<1>2. \/ UNCHANGED <<card, protect, answer_lost, written_ok>>
      \/ /\ done # <<>> /\ card.transfer = "none" /\ card' = done[1]
         /\ \/ protect' = StatAfter(a.op) /\ UNCHANGED answer_lost
            \/ answer_lost' = TRUE /\ UNCHANGED protect
         /\ written_ok' = IF a.op = "erase" THEN [s \in Sectors |-> Erased] ELSE written_ok
  BY DEF Password
<1>3. a \in Calling /\ call \in [Callers -> Calling] /\ card \in CardRec /\ written_ok \in [Sectors -> Nat]
      /\ card.data \in [Sectors -> Nat] /\ protect \in BOOLEAN /\ answer_lost \in BOOLEAN
  BY CallIs, CallersAre DEF SdInv, SdTypeOK
<1>4. b \in Calling /\ b.at = "release" /\ b.ok = a.ok
  BY <1>3 DEF Calling
<1>5. call' \in [Callers -> Calling] /\ call'["admin"] = b /\ call'["fatfs"] = call["fatfs"]
  BY <1>1, <1>3, <1>4, CallersAre
<1>6. bus = "admin" /\ call["fatfs"].at \in {"idle", "want"} /\ ~a.ok /\ sdpc = "mounted" /\ ~noinit
  BY <1>1, Busy, CallersAre DEF SdInv, BusHeld
<1>7. \A s \in Sectors : written_ok[s] \in {Unknown, card.data[s]}
  BY DEF SdInv, DataRight
<1> HIDE DEF b
<1>8. /\ card' \in CardRec /\ card'.kind = card.kind /\ card'.transfer = card.transfer
      /\ protect' \in BOOLEAN /\ answer_lost' \in BOOLEAN /\ written_ok' \in [Sectors -> Nat]
      /\ \A s \in Sectors : written_ok'[s] \in {Unknown, card'.data[s]}
      /\ ~answer_lost' /\ card'.locked => protect'
  <2>1. CASE UNCHANGED <<card, protect, answer_lost, written_ok>>
    BY <1>3, <1>6, <1>7, <2>1 DEF SdInv, StatRight, Unknown
  <2>2. CASE ~UNCHANGED <<card, protect, answer_lost, written_ok>>
    <3>1. /\ done # <<>> /\ card' = done[1]
          /\ \/ protect' = StatAfter(a.op) /\ UNCHANGED answer_lost
             \/ answer_lost' = TRUE /\ UNCHANGED protect
          /\ written_ok' = IF a.op = "erase" THEN [s \in Sectors |-> Erased] ELSE written_ok
      BY <1>2, <2>2
    <3>2. a.pwd \in Passwords \union {NoPassword}
      BY <1>3 DEF Calling
    <3>3. /\ card' \in CardRec /\ card'.kind = card.kind /\ card'.transfer = card.transfer
          /\ a.op \in {"unlock", "clear", "erase"} => ~card'.locked
          /\ a.op \notin {"unlock", "clear", "erase", "lock"} => card'.locked = card.locked
          /\ card'.data = IF a.op = "erase" THEN [s \in Sectors |-> Erased] ELSE card.data
      BY <3>1, <3>2, Lock42Facts
    <3> HIDE DEF a, done
    <3>4. protect' \in BOOLEAN /\ answer_lost' \in BOOLEAN
      BY <1>3, <3>1 DEF StatAfter
    <3>5. written_ok' \in [Sectors -> Nat] /\ \A s \in Sectors : written_ok'[s] \in {Unknown, card'.data[s]}
      <4>1. CASE a.op = "erase"
        BY <3>1, <3>3, <4>1 DEF Erased
      <4>2. CASE a.op # "erase"
        BY <1>3, <1>7, <3>1, <3>3, <4>2
      <4> QED
        BY <4>1, <4>2
    <3>6. ~answer_lost' /\ card'.locked => protect'
      <4> SUFFICES ASSUME ~answer_lost', card'.locked PROVE protect'
        OBVIOUS
      <4>1. protect' = StatAfter(a.op) /\ ~answer_lost
        BY <3>1
      <4>2. a.op \notin {"unlock", "clear", "erase"}
        BY <3>3
      <4>3. CASE a.op = "lock"
        BY <4>1, <4>3 DEF StatAfter
      <4>4. CASE a.op # "lock"
        <5>1. card.locked
          BY <3>3, <4>2, <4>4
        <5>2. protect
          BY <1>6, <4>1, <5>1 DEF SdInv, StatRight
        <5> QED
          BY <4>1, <4>2, <4>4, <5>2 DEF StatAfter
      <4> QED
        BY <4>3, <4>4
    <3> QED
      BY <3>3, <3>4, <3>5, <3>6
  <2> QED
    BY <2>1, <2>2
<1> HIDE DEF done
<1>9. SdTypeOK'
  BY <1>1, <1>5, <1>8 DEF SdInv, SdTypeOK
<1>10. StagesRight'
  BY <1>1, <1>6, <1>8 DEF SdInv, StagesRight
<1>11. BusHeld'
  <2>1. card.transfer # "none" /\ ~stalled => FALSE
    BY <1>6 DEF SdInv, BusHeld
  <2> QED
    BY <1>1, <1>4, <1>5, <1>6, <1>8, <2>1, CallersAre DEF SdInv, BusHeld
<1>12. StatRight'
  BY <1>8 DEF StatRight
<1>13. DataRight'
  BY <1>5, <1>6, <1>8 DEF SdInv, DataRight, Asked_, Progress, Within, Unknown
<1> QED
  BY <1>9, <1>10, <1>11, <1>12, <1>13 DEF SdInv

LEMMA SdStepKeeps == SdInv /\ [SdNext]_sdVars => SdInv'
<1> SUFFICES ASSUME SdInv, [SdNext]_sdVars PROVE SdInv'
  OBVIOUS
<1>1. CASE UNCHANGED sdVars
  BY <1>1 DEF sdVars, SdInv, SdTypeOK, StagesRight, BusHeld, StatRight, DataRight, Asked_, Progress, Within,
              CardRec, Calling, Unknown, Sectors
<1>2. CASE SdNext
  BY <1>2, MountingKeeps, CallDiskKeeps, CallPasswordKeeps, CommandKeeps, BlockKeeps, StopKeeps, PasswordKeeps,
     AcquireKeeps, ExpiresKeeps, ReleaseKeeps DEF SdNext
<1> QED
  BY <1>1, <1>2

LEMMA SdInvSuffices == SdInv => SdRight
<1> SUFFICES ASSUME SdInv PROVE SdRight
  OBVIOUS
<1>1. ReadBack
  <2> SUFFICES ASSUME NEW f, f = call["fatfs"], f.at = "release", f.op = "read"
               PROVE  \A k \in DOMAIN f.buff : written_ok[f.sector + k - 1] \in {Unknown, f.buff[k]}
    BY DEF ReadBack
  <2>1. f \in Calling /\ Within(f) /\ Progress(f)
    BY CallIs DEF SdInv, DataRight, Asked_
  <2>2. f.sector \in Sectors /\ f.left \in Nat /\ f.buff \in Seq(Nat)
    BY <2>1 DEF Calling
  <2>3. Len(f.buff) \in Nat /\ DOMAIN f.buff = 1 .. Len(f.buff) /\ f.sector \in Nat /\ LastSector \in Nat
    <3>1. \A s \in Seq(Nat) : Len(s) \in Nat /\ DOMAIN s = 1 .. Len(s)
      OBVIOUS
    <3>2. f.sector \in Nat /\ LastSector \in Nat
      BY <2>2, SectorsAre
    <3> QED
      BY <2>2, <3>1, <3>2
  <2>4. f.sector + Len(f.buff) + f.left <= LastSector + 1
    BY <2>1 DEF Within
  <2>5. \A k \in 1 .. Len(f.buff) : f.sector + k - 1 \in Nat /\ f.sector + k - 1 <= LastSector
    <3>1. \A s, n, l, m \in Nat : s + n + l <= m + 1 => \A k \in 1 .. n : s + k - 1 \in Nat /\ s + k - 1 <= m
      OBVIOUS
    <3> QED
      BY <2>2, <2>3, <2>4, <3>1
  <2>6. \A k \in 1 .. Len(f.buff) : f.sector + k - 1 \in Sectors
    BY <2>5, SectorsAre
  <2>7. \A k \in 1 .. Len(f.buff) : f.buff[k] = card.data[f.sector + k - 1]
    BY <2>1 DEF Progress
  <2> QED
    BY <2>3, <2>6, <2>7 DEF SdInv, DataRight
<1>2. LockKnown
  BY DEF SdInv, StatRight, LockKnown
<1>3. CardLeftIdle
  <2>1. bus = "free" => call["fatfs"].at \in {"idle", "want"}
    BY CallersAre DEF SdInv, BusHeld
  <2> QED
    BY <2>1 DEF SdInv, BusHeld, CardLeftIdle
<1>4. NothingLeft
  BY DEF SdInv, StagesRight, NothingLeft
<1> QED
  BY <1>1, <1>2, <1>3, <1>4 DEF SdRight

(* What the driver of the SD card tells FatFs is true: a read that succeeds  *)
(* delivers what the last successful write put there, a locked card is known *)
(* as write protected, the bus is left with the card out of any transfer and *)
(* a mount that failed leaves nothing; for cards of every kind and size.     *)
THEOREM CardToldTruly == SdSpec => []SdRight
<1>1. SdInit => SdInv
  BY SdInitially
<1>2. SdInv /\ [SdNext]_sdVars => SdInv'
  BY SdStepKeeps
<1>3. SdInv => SdRight
  BY SdInvSuffices
<1> QED
  BY <1>1, <1>2, <1>3, PTL DEF SdSpec

-----------------------------------------------------------------------------
(* The serving of files while the storage and the servers come and go. *)

PartKinds == {"200", "chunk", "short", "cut", "end", "404", "302", "200 empty", "beep"}
Parts == PartKinds \X Nat

NoEnd(s) == s \in Seq(Parts) /\ \A i \in 1 .. Len(s) : s[i] # Part("end")

(* The head and the first k chunks: what is out when k chunks were sent. *)
ChunksTo(k) == [i \in 1 .. k |-> <<"chunk", i>>]
Body(k) == IF k = 0 THEN <<>> ELSE <<Part("200")>> \o ChunksTo(k)

(* storage_init() comes before the orchestrator, storage_deinit() after it;  *)
(* in between the flags are those of the media and one is mounted.           *)
Booting == mpc[1] \in {"mount", "flag", "check", "fatal"}
StorageStages ==
  ({"mount", "flag", "unmount", "unflag"} \X Media)
  \union {<<"check", "">>, <<"fatal", "">>, <<"ready", "">>, <<"end", "">>}

StoreInv ==
  /\ setup \in Setups /\ vol \in [Media -> BOOLEAN] /\ flag \in [Media -> BOOLEAN]
  /\ mpc \in StorageStages
  /\ opc \in {"boot", "idle", "register", "announce", "stop", "stop, exit", "done"}
  /\ running \in BOOLEAN /\ closing \in BOOLEAN /\ lost \in BOOLEAN
  /\ web \in {"off", "bare", "up"}
  /\ \A m \in Media : vol[m] => m \in uses
  /\ Booting => opc = "boot"
  /\ opc = "boot" => Booting /\ web = "off" /\ ~closing /\ ~lost
  /\ mpc[1] \in {"mount", "check", "ready"} => flag = vol
  /\ mpc[1] = "flag" => vol = [flag EXCEPT ![mpc[2]] = TRUE]
  /\ mpc[1] = "ready" => \E m \in Media : vol[m]
  /\ mpc[1] \in {"unmount", "unflag", "end"} => opc = "done"
  /\ opc # "idle" => ~running
  /\ opc \in {"idle", "done"} /\ ~running => web = "off" \/ lost
  /\ web = "off" => hpc = "idle"

HandlerStages ==
  {"idle", "no handler", "handler", "open", "open second", "not found", "read", "bits", "send", "ferror",
   "close", "last", "done"}
Reading == {"read", "bits", "send", "ferror", "close"}

(* What was sent at each stage of a request, and what the file is at. *)
Sent ==
  /\ hpc \in {"idle", "no handler", "handler", "open", "open second", "not found"} =>
       out = <<>> /\ fd = NoFile /\ ret = "ok"
  /\ hpc \in Reading =>
       /\ fd \in [medium : Media, next : Nat \ {0}, error : BOOLEAN]
       /\ (~lost => vol[fd.medium]) /\ fd.next <= Length[path.name] + 1
  /\ hpc \in {"last", "done"} => fd = NoFile
  /\ hpc \in Reading \union {"last"} => NoEnd(out)
  /\ hpc \in {"read", "bits", "send", "ferror", "last"} => ret = "ok"
  /\ hpc \in {"read", "ferror"} /\ ~fd.error => out = Body(fd.next - 1)
  /\ hpc = "ferror" /\ ~fd.error => fd.next = Length[path.name] + 1
  /\ hpc \in {"bits", "send"} =>
       IF fd.error THEN chunk = Part("short")
       ELSE fd.next > 1 /\ chunk = <<"chunk", fd.next - 1>> /\ out = Body(fd.next - 2)
  /\ hpc = "close" => IF ret = "ok" THEN ~fd.error /\ out = Body(Length[path.name])
                      ELSE fd.error \/ excuse # "none"
  /\ hpc = "last" => out = Body(Length[path.name])

RequestInv ==
  /\ hpc \in HandlerStages /\ path \in [medium : Media \union {"other"}, name : DOMAIN Length]
  /\ rq \in Requests \union {NoRequest} /\ out \in Seq(Parts) /\ ret \in {"ok", "fail"}
  /\ hpc # "idle" /\ Stopping => excuse # "none"
  /\ hpc \in {"open", "open second"} /\ rq.kind = "file" => path = rq.file
  /\ hpc = "open second" /\ ~lost => ~Present(path.medium, path.name)
  /\ PresentMeansFound
  /\ Sent
  /\ hpc = "done" => EndMeansWhole /\ EveryRequestAnswered

FileInv == StoreInv /\ RequestInv

LEMMA StageParts ==
  ASSUME NEW s
  PROVE  /\ s \in StorageStages =>
              \/ s[1] \in {"mount", "flag", "unmount", "unflag"} /\ s[2] \in Media /\ s = <<s[1], s[2]>>
              \/ s \in {<<"check", "">>, <<"fatal", "">>, <<"ready", "">>, <<"end", "">>}
         /\ \A a \in {"mount", "flag", "unmount", "unflag"}, m \in Media : <<a, m>> \in StorageStages
<1>1. \A t \in {"mount", "flag", "unmount", "unflag"} \X Media :
        t[1] \in {"mount", "flag", "unmount", "unflag"} /\ t[2] \in Media /\ t = <<t[1], t[2]>>
  OBVIOUS
<1>2. \A a \in {"mount", "flag", "unmount", "unflag"}, m \in Media :
        <<a, m>> \in {"mount", "flag", "unmount", "unflag"} \X Media
  OBVIOUS
<1> HIDE DEF Media
<1> QED
  BY <1>1, <1>2 DEF StorageStages

(* What is still to come is not yet among the parts of an answer. *)
LEMMA PartsAre ==
  /\ \A k \in PartKinds : Part(k) \in Parts /\ (k # "end" => Part(k) # Part("end"))
  /\ \A i \in Nat : <<"chunk", i>> \in Parts /\ <<"chunk", i>> # Part("end")
<1>1. \A k \in PartKinds, i \in Nat : <<k, i>> \in PartKinds \X Nat /\ <<k, i>>[1] = k
  OBVIOUS
<1>2. "chunk" \in PartKinds /\ "end" \in PartKinds /\ 0 \in Nat
  BY DEF PartKinds
<1>3. \A k \in PartKinds : Part(k) \in Parts /\ Part(k)[1] = k
  BY <1>1, <1>2 DEF Part, Parts
<1>4. \A i \in Nat : <<"chunk", i>> \in Parts /\ <<"chunk", i>>[1] = "chunk"
  BY <1>1, <1>2 DEF Parts
<1>5. Part("end")[1] = "end" /\ "chunk" # "end"
  BY <1>2, <1>3
<1> QED
  BY <1>3, <1>4, <1>5

LEMMA NoEndJoined ==
  ASSUME NEW s, NEW t, NoEnd(s), NoEnd(t)
  PROVE  NoEnd(s \o t)
<1>1. s \in Seq(Parts) /\ t \in Seq(Parts) /\ Len(s) \in Nat /\ Len(t) \in Nat
  BY DEF NoEnd
<1>2. /\ s \o t \in Seq(Parts) /\ Len(s \o t) = Len(s) + Len(t)
      /\ \A i \in 1 .. Len(s) + Len(t) : (s \o t)[i] = IF i <= Len(s) THEN s[i] ELSE t[i - Len(s)]
  BY <1>1, ConcatProperties
<1>3. ASSUME NEW i \in 1 .. Len(s) + Len(t) PROVE (s \o t)[i] # Part("end")
  <2>1. CASE i <= Len(s)
    BY <1>1, <1>2, <2>1 DEF NoEnd
  <2>2. CASE ~(i <= Len(s))
    <3>1. i - Len(s) \in 1 .. Len(t)
      BY <1>1, <2>2
    <3> QED
      BY <1>2, <2>2, <3>1 DEF NoEnd
  <2> QED
    BY <2>1, <2>2
<1> QED
  BY <1>2, <1>3 DEF NoEnd

LEMMA NoEndSmall == NoEnd(<<>>) /\ \A p \in Parts : p # Part("end") => NoEnd(<<p>>)
BY DEF NoEnd

LEMMA ChunksFacts ==
  ASSUME NEW k \in Nat
  PROVE  ChunksTo(k) \in Seq(Parts) /\ NoEnd(ChunksTo(k)) /\ ChunksTo(k + 1) = ChunksTo(k) \o <<<<"chunk", k + 1>>>>
<1> DEFINE c == <<"chunk", k + 1>>
<1>1. \A j \in Nat : ChunksTo(j) \in Seq(Parts) /\ Len(ChunksTo(j)) = j /\ \A i \in 1 .. j : ChunksTo(j)[i] = <<"chunk", i>>
  BY PartsAre DEF ChunksTo
<1>2. NoEnd(ChunksTo(k))
  <2>1. ASSUME NEW i \in 1 .. k PROVE ChunksTo(k)[i] # Part("end")
    <3>1. ChunksTo(k)[i] = <<"chunk", i>> /\ i \in Nat
      BY <1>1
    <3> QED
      BY <3>1, PartsAre
  <2>2. ChunksTo(k) \in Seq(Parts) /\ Len(ChunksTo(k)) = k
    BY <1>1
  <2> QED
    BY <2>1, <2>2 DEF NoEnd
<1>3. c \in Parts /\ <<c>> \in Seq(Parts)
  BY PartsAre
<1> HIDE DEF c
<1>4. /\ ChunksTo(k) \o <<c>> \in Seq(Parts) /\ Len(ChunksTo(k) \o <<c>>) = k + 1
      /\ \A i \in 1 .. k + 1 : (ChunksTo(k) \o <<c>>)[i] = IF i <= k THEN ChunksTo(k)[i] ELSE c
  <2>1. Append(ChunksTo(k), c) = ChunksTo(k) \o <<c>>
    BY <1>1, <1>3, AppendIsConcat
  <2>2. /\ Append(ChunksTo(k), c) \in Seq(Parts) /\ Len(Append(ChunksTo(k), c)) = k + 1
        /\ \A i \in 1 .. k : Append(ChunksTo(k), c)[i] = ChunksTo(k)[i]
        /\ Append(ChunksTo(k), c)[k + 1] = c
    <3>1. ChunksTo(k) \in Seq(Parts) /\ Len(ChunksTo(k)) = k
      BY <1>1
    <3> QED
      BY <1>3, <3>1, AppendProperties
  <2>3. \A i \in 1 .. k + 1 : i \in 1 .. k \/ i = k + 1
    OBVIOUS
  <2> QED
    BY <2>1, <2>2, <2>3
<1>5. \A i \in 1 .. k + 1 : ChunksTo(k + 1)[i] = (ChunksTo(k) \o <<c>>)[i]
  <2> TAKE i \in 1 .. k + 1
  <2>1. ChunksTo(k + 1)[i] = <<"chunk", i>>
    BY DEF ChunksTo
  <2>2. CASE i <= k
    <3>1. i \in 1 .. k
      BY <2>2
    <3>2. ChunksTo(k)[i] = <<"chunk", i>>
      BY <1>1, <3>1
    <3> QED
      BY <1>4, <2>1, <2>2, <3>2
  <2>3. CASE i = k + 1
    <3>1. ~(i <= k) /\ c = <<"chunk", i>>
      BY <2>3 DEF c
    <3> QED
      BY <1>4, <2>1, <3>1
  <2>4. i <= k \/ i = k + 1
    OBVIOUS
  <2> QED
    BY <2>2, <2>3, <2>4
<1>6. ChunksTo(k + 1) = ChunksTo(k) \o <<c>>
  <2>1. ChunksTo(k + 1) \in Seq(Parts) /\ Len(ChunksTo(k + 1)) = k + 1
    BY <1>1
  <2> QED
    BY <1>4, <1>5, <2>1, SeqEqual
<1> QED
  BY <1>1, <1>2, <1>6 DEF c

(* One chunk more, and the end behind the last one; the head goes first. *)
Head_(s) == IF s = <<>> THEN <<Part("200")>> ELSE <<>>

LEMMA BodyFacts ==
  ASSUME NEW k \in Nat
  PROVE  /\ Body(k) \in Seq(Parts) /\ NoEnd(Body(k))
         /\ Body(k) \o Head_(Body(k)) = <<Part("200")>> \o ChunksTo(k)
         /\ Body(k) \o Head_(Body(k)) \o <<<<"chunk", k + 1>>>> = Body(k + 1)
<1> DEFINE h == <<Part("200")>>
<1>1. h \in Seq(Parts) /\ NoEnd(h) /\ h # <<>> /\ Len(h) = 1
  <2>1. Part("200") \in Parts /\ Part("200") # Part("end")
    <3>1. "200" \in PartKinds /\ "200" # "end"
      BY DEF PartKinds
    <3> QED
      BY <3>1, PartsAre
  <2> QED
    BY <2>1, NoEndSmall
<1> HIDE DEF h
<1>2. ChunksTo(k) \in Seq(Parts) /\ NoEnd(ChunksTo(k)) /\ ChunksTo(k + 1) = ChunksTo(k) \o <<<<"chunk", k + 1>>>>
      /\ ChunksTo(k + 1) \in Seq(Parts)
  <2>1. k + 1 \in Nat
    OBVIOUS
  <2>2. \A j \in Nat : ChunksTo(j) \in Seq(Parts) /\ NoEnd(ChunksTo(j)) /\ ChunksTo(j + 1) = ChunksTo(j) \o <<<<"chunk", j + 1>>>>
    BY ChunksFacts
  <2> QED
    BY <2>1, <2>2
<1>3. h \o ChunksTo(k) \in Seq(Parts) /\ NoEnd(h \o ChunksTo(k)) /\ h \o ChunksTo(k) # <<>>
  <2>1. Len(h \o ChunksTo(k)) = 1 + Len(ChunksTo(k)) /\ Len(ChunksTo(k)) \in Nat
    <3>1. h \in Seq(Parts) /\ ChunksTo(k) \in Seq(Parts) /\ Len(h) = 1
      BY <1>1, <1>2
    <3>2. Len(ChunksTo(k)) \in Nat
      BY <3>1
    <3> QED
      <4>1. Len(h \o ChunksTo(k)) = Len(h) + Len(ChunksTo(k))
        BY <3>1, ConcatProperties
      <4> QED
        BY <3>1, <3>2, <4>1
  <2>2. NoEnd(h \o ChunksTo(k))
    BY <1>1, <1>2, NoEndJoined
  <2>3. Len(<<>>) = 0
    OBVIOUS
  <2> QED
    BY <2>1, <2>2, <2>3 DEF NoEnd
<1>4. Body(k) = IF k = 0 THEN <<>> ELSE h \o ChunksTo(k)
  BY DEF Body, h
<1>5. Body(k) \in Seq(Parts) /\ NoEnd(Body(k))
  BY <1>3, <1>4, NoEndSmall
<1>6. Body(k) \o Head_(Body(k)) = h \o ChunksTo(k)
  <2>1. CASE k = 0
    <3>1. ChunksTo(0) = <<>>
      BY DEF ChunksTo
    <3>2. Body(k) = <<>> /\ Head_(Body(k)) = h
      BY <1>4, <2>1 DEF Head_, h
    <3> QED
      BY <1>1, <2>1, <3>1, <3>2, ConcatEmptySeq
  <2>2. CASE k # 0
    <3>1. Body(k) = h \o ChunksTo(k) /\ Head_(Body(k)) = <<>>
      BY <1>3, <1>4, <2>2 DEF Head_
    <3> QED
      BY <1>3, <3>1, ConcatEmptySeq
  <2> QED
    BY <2>1, <2>2
<1>7. (h \o ChunksTo(k)) \o <<<<"chunk", k + 1>>>> = h \o ChunksTo(k + 1)
  <2> DEFINE c == <<"chunk", k + 1>>
  <2>1. c \in Parts
    BY PartsAre
  <2> HIDE DEF c
  <2>2. <<c>> \in Seq(Parts) /\ h \in Seq(Parts) /\ ChunksTo(k) \in Seq(Parts)
    BY <1>1, <1>2, <2>1
  <2>3. (h \o ChunksTo(k)) \o <<c>> = h \o (ChunksTo(k) \o <<c>>)
    BY <2>2, ConcatAssociative
  <2> QED
    BY <1>2, <2>3 DEF c
<1>8. Body(k + 1) = h \o ChunksTo(k + 1)
  BY DEF Body, h
<1> QED
  BY <1>5, <1>6, <1>7, <1>8 DEF h

(* Whatever the storage and the orchestrator do, a request is where it was;  *)
(* its media are touched only when nobody stops its server any more.         *)
LEMMA RequestKept ==
  ASSUME RequestInv, UNCHANGED <<setup, requests, hpc, rq, path, fd, chunk, ret, out>>,
         excuse' \in {excuse, "stopping"}, hpc # "idle" /\ Stopping' => excuse' # "none",
         hpc # "idle" => vol' = vol \/ lost', lost => lost'
  PROVE  RequestInv'
<1>1. /\ (hpc \in HandlerStages /\ path \in [medium : Media \union {"other"}, name : DOMAIN Length])'
      /\ (rq \in Requests \union {NoRequest} /\ out \in Seq(Parts) /\ ret \in {"ok", "fail"})'
      /\ (hpc # "idle" /\ Stopping => excuse # "none")'
      /\ (hpc \in {"open", "open second"} /\ rq.kind = "file" => path = rq.file)'
  BY DEF RequestInv
<1>2. (hpc = "open second" /\ ~lost => ~Present(path.medium, path.name))'
  BY DEF RequestInv, Present
<1>3. PresentMeansFound'
  BY DEF RequestInv, PresentMeansFound, OnAMedium, Present
<1>4. Sent'
  BY DEF RequestInv, Sent, Reading
<1>5. (hpc = "done" => EndMeansWhole /\ EveryRequestAnswered)'
  BY DEF RequestInv, EndMeansWhole, EveryRequestAnswered
<1> QED
  BY <1>1, <1>2, <1>3, <1>4, <1>5 DEF RequestInv

(* Out of service: before the orchestrator, or when it is done. *)
LEMMA OutOfService ==
  ASSUME StoreInv
  PROVE  /\ (opc = "boot" => hpc = "idle") /\ (opc = "done" /\ ~lost => web = "off" /\ hpc = "idle")
         /\ (web # "off" \/ hpc # "idle") /\ ~lost => mpc = <<"ready", "">>
<1>1. opc = "boot" => hpc = "idle" /\ web = "off"
  BY DEF StoreInv
<1>2. opc = "done" /\ ~lost => web = "off" /\ hpc = "idle"
  BY DEF StoreInv
<1>3. ASSUME web # "off" \/ hpc # "idle", ~lost PROVE mpc = <<"ready", "">>
  <2>1. opc \notin {"boot", "done"}
    BY <1>1, <1>2, <1>3
  <2>2. mpc[1] \notin {"mount", "flag", "check", "fatal", "unmount", "unflag", "end"}
    BY <2>1 DEF StoreInv, Booting
  <2>3. mpc \in StorageStages
    BY DEF StoreInv
  <2>4. <<"check", "">>[1] = "check" /\ <<"fatal", "">>[1] = "fatal" /\ <<"end", "">>[1] = "end"
    OBVIOUS
  <2> QED
    BY <2>2, <2>3, <2>4, StageParts
<1> QED
  BY <1>1, <1>2, <1>3

LEMMA StageIs ==
  ASSUME NEW a, NEW m
  PROVE  <<a, m>>[1] = a /\ <<a, m>>[2] = m
OBVIOUS

LEMMA StorageKeeps == ASSUME FileInv, StorageStep PROVE FileInv'
<1>1. UNCHANGED <<setup, running, closing, web, lost, starts, reqVars>>
  BY DEF StorageStep, StorageMount, SetMounted, Unmount, ClearMounted, StorageCheck, FreeProc, orchVars
<1>2. UNCHANGED <<requests, hpc, rq, path, fd, chunk, ret, out, excuse>>
  BY <1>1 DEF reqVars
<1>3. /\ setup \in Setups /\ vol \in [Media -> BOOLEAN] /\ flag \in [Media -> BOOLEAN] /\ lost \in BOOLEAN
      /\ \A m \in Media : vol[m] => m \in uses
  BY DEF FileInv, StoreInv
<1>4. "spiffs" \in Media /\ "sd" \in Media /\ Media = {"spiffs", "sd"}
  BY DEF Media
<1>5. \A m \in Media : AfterMount(m) \in StorageStages /\ AfterMount(m)[1] \in {"mount", "check"}
  BY <1>4, StageIs, StageParts DEF AfterMount, StorageStages
<1>6. StoreInv' /\ (vol' # vol => hpc = "idle" \/ lost)
  <2>1. ASSUME NEW m \in Media, StorageMount(m) PROVE StoreInv' /\ (vol' # vol => hpc = "idle" \/ lost)
    <3>1. mpc = <<"mount", m>> /\ mpc[1] = "mount" /\ UNCHANGED <<flag, opc>>
      BY <2>1, StageIs DEF StorageMount, orchVars
    <3>2. opc = "boot" /\ web = "off" /\ ~closing /\ ~lost /\ hpc = "idle" /\ flag = vol
      BY <3>1 DEF FileInv, StoreInv, Booting
    <3>3. mpc' \in {AfterMount(m), <<"flag", m>>, <<"fatal", "">>} /\ (mpc' = <<"flag", m>> \/ vol' = vol)
          /\ (mpc' = <<"flag", m>> => m \in uses /\ vol' = [vol EXCEPT ![m] = TRUE])
      <4>1. mpc' = <<"flag", m>> => mpc'[1] = "flag"
        BY StageIs
      <4>2. <<"fatal", "">>[1] = "fatal"
        BY StageIs
      <4> QED
        BY <1>5, <2>1, <4>1, <4>2 DEF StorageMount
    <3>4. mpc' \in StorageStages /\ mpc'[1] \in {"mount", "check", "flag", "fatal"} /\ (mpc'[1] = "flag" => mpc' = <<"flag", m>> /\ mpc'[2] = m)
      <4>1. <<"flag", m>> \in StorageStages /\ <<"fatal", "">> \in StorageStages
        BY StageParts DEF StorageStages
      <4>2. <<"flag", m>>[1] = "flag" /\ <<"flag", m>>[2] = m /\ <<"fatal", "">>[1] = "fatal"
        BY StageIs
      <4> QED
        BY <1>5, <3>3, <4>1, <4>2
    <3>5. mpc'[1] # "flag" => vol' = vol
      <4>1. mpc' = <<"flag", m>> => mpc'[1] = "flag"
        BY StageIs
      <4> QED
        BY <3>3, <4>1
    <3>6. vol' \in [Media -> BOOLEAN] /\ (\A k \in Media : vol'[k] => k \in uses')
      BY <1>1, <1>3, <3>3 DEF uses
    <3> QED
      BY <1>1, <1>2, <3>1, <3>2, <3>3, <3>4, <3>5, <3>6 DEF FileInv, StoreInv, Booting
  <2>2. ASSUME NEW m \in Media, SetMounted(m) PROVE StoreInv' /\ vol' = vol
    <3>1. mpc = <<"flag", m>> /\ mpc[1] = "flag" /\ mpc[2] = m /\ UNCHANGED <<vol, opc>>
          /\ flag' = [flag EXCEPT ![m] = TRUE] /\ mpc' = AfterMount(m)
      BY <2>2, StageIs DEF SetMounted, orchVars
    <3>2. opc = "boot" /\ vol = [flag EXCEPT ![m] = TRUE]
      BY <3>1 DEF FileInv, StoreInv, Booting
    <3>3. flag' = vol'
      BY <3>1, <3>2
    <3>4. mpc' \in StorageStages /\ mpc'[1] \in {"mount", "check"}
      BY <1>5, <3>1
    <3> QED
      BY <1>1, <1>2, <1>3, <3>1, <3>2, <3>3, <3>4 DEF FileInv, StoreInv, Booting, uses
  <2>3. ASSUME StorageCheck PROVE StoreInv' /\ vol' = vol
    <3>1. mpc = <<"check", "">> /\ mpc[1] = "check" /\ UNCHANGED <<vol, flag>>
      BY <2>3, StageIs DEF StorageCheck
    <3>2. opc = "boot" /\ flag = vol
      BY <3>1 DEF FileInv, StoreInv, Booting
    <3>3. CASE AnyMounted
      <4>1. mpc' = <<"ready", "">> /\ opc' = "idle"
        BY <2>3, <3>3 DEF StorageCheck
      <4>2. mpc'[1] = "ready" /\ mpc' \in StorageStages
        BY <4>1, StageIs DEF StorageStages
      <4>3. \E m \in Media : vol[m]
        BY <3>2, <3>3 DEF AnyMounted
      <4> QED
        BY <1>1, <1>2, <1>3, <3>1, <3>2, <4>1, <4>2, <4>3 DEF FileInv, StoreInv, Booting, uses
    <3>4. CASE ~AnyMounted
      <4>1. mpc' = <<"fatal", "">> /\ opc' = opc
        BY <2>3, <3>4 DEF StorageCheck
      <4>2. mpc'[1] = "fatal" /\ mpc' \in StorageStages
        BY <4>1, StageIs DEF StorageStages
      <4> QED
        BY <1>1, <1>2, <1>3, <3>1, <3>2, <4>1, <4>2 DEF FileInv, StoreInv, Booting, uses
    <3> QED
      BY <3>3, <3>4
  <2>4. ASSUME NEW m \in Media, Unmount(m) PROVE StoreInv' /\ (vol' # vol => hpc = "idle" \/ lost)
    <3>1. mpc = <<"unmount", m>> /\ mpc[1] = "unmount" /\ UNCHANGED <<flag, opc>>
          /\ vol' = [vol EXCEPT ![m] = vol[m] /\ ~flag[m]] /\ mpc' = <<"unflag", m>>
      BY <2>4, StageIs DEF Unmount, orchVars
    <3>2. opc = "done"
      BY <3>1 DEF FileInv, StoreInv
    <3>3. vol' \in [Media -> BOOLEAN] /\ \A k \in Media : vol'[k] => vol[k]
      BY <1>3, <3>1
    <3>4. mpc' \in StorageStages /\ mpc'[1] = "unflag"
      BY <3>1, StageIs, StageParts
    <3>5. ~lost => hpc = "idle"
      BY <3>2, OutOfService DEF FileInv
    <3> QED
      BY <1>1, <1>2, <1>3, <3>1, <3>2, <3>3, <3>4, <3>5 DEF FileInv, StoreInv, Booting, uses
  <2>5. ASSUME NEW m \in Media, ClearMounted(m) PROVE StoreInv' /\ vol' = vol
    <3>1. mpc = <<"unflag", m>> /\ mpc[1] = "unflag" /\ UNCHANGED <<vol, opc>>
          /\ flag' = [flag EXCEPT ![m] = FALSE] /\ mpc' = IF m = "sd" THEN <<"unmount", "spiffs">> ELSE <<"end", "">>
      BY <2>5, StageIs DEF ClearMounted, orchVars
    <3>2. opc = "done"
      BY <3>1 DEF FileInv, StoreInv
    <3>3. flag' \in [Media -> BOOLEAN]
      BY <1>3, <3>1
    <3>4. mpc' \in StorageStages /\ mpc'[1] \in {"unmount", "end"}
      <4>1. <<"unmount", "spiffs">> \in StorageStages /\ <<"end", "">> \in StorageStages
        BY <1>4, StageParts DEF StorageStages
      <4>2. <<"unmount", "spiffs">>[1] = "unmount" /\ <<"end", "">>[1] = "end"
        BY StageIs
      <4> QED
        BY <3>1, <4>1, <4>2
    <3> QED
      BY <1>1, <1>2, <1>3, <3>1, <3>2, <3>3, <3>4 DEF FileInv, StoreInv, Booting, uses
  <2>6. ASSUME FreeProc PROVE StoreInv' /\ vol' = vol
    <3>1. opc = "done" /\ mpc' = <<"unmount", "sd">> /\ UNCHANGED <<vol, flag, opc>>
      BY <2>6 DEF FreeProc, orchVars
    <3>2. mpc' \in StorageStages /\ mpc'[1] = "unmount"
      BY <1>4, <3>1, StageIs, StageParts
    <3> QED
      BY <1>1, <1>2, <1>3, <3>1, <3>2 DEF FileInv, StoreInv, Booting, uses
  <2> QED
    BY <2>1, <2>2, <2>3, <2>4, <2>5, <2>6 DEF StorageStep
<1>7. Stopping' = Stopping
  BY <1>1 DEF Stopping
<1>8. hpc # "idle" /\ Stopping => excuse # "none"
  BY DEF FileInv, RequestInv
<1> QED
  BY <1>1, <1>2, <1>6, <1>7, <1>8, RequestKept DEF FileInv

(* The orchestrator starts and stops the server of a storage that is there. *)
LEMMA OrchestratorKeeps == ASSUME FileInv, OrchestratorStep \/ Shutdown PROVE FileInv'
<1>1. UNCHANGED <<storeVars, requests, hpc, rq, path, fd, chunk, ret, out>>
  BY DEF OrchestratorStep, StartServer, RegisterHandlers, Announce, StopServers, StopWebServer,
         OrchestratorExit, Shutdown, reqVars
<1>2. UNCHANGED <<setup, vol, flag, mpc, requests, hpc, rq, path, fd, chunk, ret, out>>
  BY <1>1 DEF storeVars
<1>3. StoreInv' /\ (lost => lost')
  <2>1. CASE StartServer
    <3>1. opc = "idle" /\ ~running /\ UNCHANGED <<running, closing, lost>> /\ opc' \in {"register", "announce"}
          /\ web' \in {"bare", web} /\ (web' = "off" => web = "off" /\ hpc = "idle")
      BY <2>1 DEF StartServer, FileInv, StoreInv
    <3> QED
      BY <1>2, <3>1 DEF FileInv, StoreInv, Booting, uses
  <2>2. CASE RegisterHandlers
    BY <1>2, <2>2 DEF RegisterHandlers, FileInv, StoreInv, Booting, uses
  <2>3. CASE Announce
    BY <1>2, <2>3 DEF Announce, FileInv, StoreInv, Booting, uses
  <2>4. CASE StopServers
    BY <1>2, <2>4 DEF StopServers, FileInv, StoreInv, Booting, uses
  <2>5. CASE StopWebServer
    <3>1. opc \in {"stop", "stop, exit"} /\ opc' \in {"idle", "done"} /\ UNCHANGED <<running, closing>> /\ ~running
      BY <2>5 DEF StopWebServer, AfterStop, FileInv, StoreInv
    <3>2. web' \in {"off", web} /\ (web' = "off" \/ lost') /\ (lost => lost') /\ lost' \in BOOLEAN
          /\ (web' = "off" => hpc = "idle")
      <4>1. lost \in BOOLEAN /\ web \in {"off", "bare", "up"} /\ (web = "off" => hpc = "idle")
        BY DEF FileInv, StoreInv
      <4>2. \/ hpc = "idle" /\ web' = "off" /\ lost' = lost
            \/ lost' = TRUE /\ web' = web
            \/ (web = "off" \/ lost) /\ web' = web /\ lost' = lost
        BY <2>5 DEF StopWebServer, ServerStops
      <4>3. CASE lost' = TRUE /\ web' = web
        <5>1. lost' /\ lost' \in BOOLEAN
          BY <4>3
        <5> QED
          BY <4>1, <4>3, <5>1
      <4>4. CASE lost' = lost
        BY <4>1, <4>2, <4>4
      <4> QED
        BY <4>2, <4>3, <4>4
    <3>3. ~Booting
      BY <3>1 DEF FileInv, StoreInv
    <3> QED
      BY <1>2, <3>1, <3>2, <3>3 DEF FileInv, StoreInv, Booting, uses
  <2>6. CASE OrchestratorExit
    BY <1>2, <2>6 DEF OrchestratorExit, FileInv, StoreInv, Booting, uses
  <2>7. CASE Shutdown
    <3>1. opc # "boot"
      <4>1. mpc[1] = "ready"
        BY <2>7, StageIs DEF Shutdown
      <4> QED
        BY <4>1 DEF FileInv, StoreInv, Booting
    <3> QED
      BY <1>2, <2>7, <3>1 DEF Shutdown, FileInv, StoreInv, Booting, uses
  <2> QED
    BY <2>1, <2>2, <2>3, <2>4, <2>5, <2>6, <2>7 DEF OrchestratorStep
<1>4. excuse' \in {excuse, "stopping"} /\ (hpc # "idle" /\ Stopping' => excuse' # "none")
  <2>1. hpc # "idle" /\ Stopping => excuse # "none"
    BY DEF FileInv, RequestInv
  <2>2. CASE StopServers \/ Shutdown
    BY <2>2 DEF StopServers, Shutdown, Excuse
  <2>3. CASE StartServer \/ RegisterHandlers \/ Announce \/ StopWebServer \/ OrchestratorExit
    <3>1. excuse' = excuse /\ closing' = closing /\ (running => running')
      <4>1. running' = running \/ running' = TRUE
        BY <2>3 DEF StartServer, RegisterHandlers, Announce, StopWebServer, OrchestratorExit
      <4>2. running => running'
        BY <4>1
      <4>3. excuse' = excuse /\ closing' = closing
        BY <2>3 DEF StartServer, RegisterHandlers, Announce, StopWebServer, OrchestratorExit, reqVars
      <4> QED
        BY <4>2, <4>3
    <3> QED
      BY <2>1, <3>1 DEF Stopping
  <2> QED
    BY <2>2, <2>3 DEF OrchestratorStep
<1> QED
  BY <1>2, <1>3, <1>4, RequestKept DEF FileInv

(* A handler leaves the storage and the orchestrator alone. *)
LEMMA HandlerFrame ==
  ASSUME FileInv, UNCHANGED <<storeVars, orchVars>>, web # "off"
  PROVE  StoreInv' /\ Stopping' = Stopping /\ UNCHANGED <<setup, vol, flag, mpc, lost>>
BY DEF FileInv, StoreInv, storeVars, orchVars, Stopping, Booting, uses

LEMMA NextRequestKeeps == ASSUME FileInv, NextRequest PROVE FileInv'
<1>1. StoreInv' /\ Stopping' = Stopping /\ UNCHANGED <<setup, vol, flag, mpc, lost>>
  BY HandlerFrame DEF NextRequest
<1>2. /\ hpc = "idle" /\ hpc' \in {"no handler", "handler"} /\ rq' \in Requests
      /\ UNCHANGED <<path, fd, chunk, ret, out>> /\ excuse' = IF Stopping THEN "not announced" ELSE "none"
  BY DEF NextRequest
<1>3. Sent'
  BY <1>2 DEF FileInv, RequestInv, Sent, Reading
<1>4. RequestInv'
  BY <1>1, <1>2, <1>3 DEF FileInv, RequestInv, PresentMeansFound, HandlerStages
<1> QED
  BY <1>1, <1>4 DEF FileInv

LEMMA FirstAppended ==
  ASSUME NEW S, NEW p \in S
  PROVE  Append(<<>>, p) = <<p>>
<1>1. <<>> \in Seq(S) /\ <<p>> \in Seq(S)
  OBVIOUS
<1>2. Append(<<>>, p) = <<>> \o <<p>>
  BY <1>1, AppendIsConcat
<1> QED
  BY <1>1, <1>2, ConcatEmptySeq

(* What httpd_resp_send() leaves behind. *)
LEMMA RespSendFacts ==
  ASSUME NEW status \in {"404", "302", "200 empty", "beep"}, RespSend(status, "done"), out = <<>>
  PROVE  /\ hpc' = "done" /\ out' \in Seq(Parts) /\ NoEnd(out')
         /\ (out' = <<Part(status)>> /\ excuse' = excuse) \/ excuse' = "send"
<1>1. \A k \in {"cut", status} : Append(<<>>, Part(k)) = <<Part(k)>> /\ Part(k) \in Parts /\ Part(k) # Part("end")
  <2>1. \A k \in {"cut", status} : k \in PartKinds /\ k # "end"
    BY DEF PartKinds
  <2>2. \A k \in {"cut", status} : Part(k) \in Parts /\ Part(k) # Part("end")
    BY <2>1, PartsAre
  <2>3. \A p \in Parts : Append(<<>>, p) = <<p>>
    BY FirstAppended
  <2> QED
    BY <2>2, <2>3
<1>2. NoEnd(<<>>) /\ \A k \in {"cut", status} : NoEnd(<<Part(k)>>)
  BY <1>1, NoEndSmall
<1> QED
  BY <1>1, <1>2 DEF RespSend, NoEnd

(* A request that ends with a small answer, or without one. *)
LEMMA AnsweredKeeps ==
  ASSUME FileInv, hpc # "idle", UNCHANGED <<storeVars, orchVars, hVars, path, fd, chunk, ret>>, out = <<>>, fd = NoFile,
         hpc' = "done", NoEnd(out'), excuse' # "none" \/ excuse' = excuse,
         excuse' # "none" \/ out' \in {<<Part("404")>>, <<Part("302")>>, <<Part("200 empty")>>, <<Part("beep")>>}
  PROVE  FileInv'
<1>1. StoreInv' /\ Stopping' = Stopping /\ UNCHANGED <<setup, vol, flag, mpc, lost>>
  BY HandlerFrame DEF FileInv, StoreInv
<1>2. UNCHANGED <<requests, rq, path, fd, chunk, ret>>
  BY DEF hVars
<1>3. Sent'
  BY <1>2 DEF Sent, Reading
<1>4. EndMeansWhole' /\ EveryRequestAnswered'
  BY DEF EndMeansWhole, EveryRequestAnswered, NoEnd
<1>5. RequestInv'
  BY <1>1, <1>2, <1>3, <1>4 DEF FileInv, RequestInv, PresentMeansFound, HandlerStages, NoEnd
<1> QED
  BY <1>1, <1>5 DEF FileInv

LEMMA SmallAnswersKeep ==
  ASSUME FileInv, NoHandler \/ Malformed \/ AnswerBeep \/ AnswerHead \/ AnswerRedirect \/ NotFound
  PROVE  FileInv'
<1>1. hpc \in {"no handler", "handler", "not found"} /\ out = <<>> /\ fd = NoFile /\ hpc # "idle"
  BY DEF NoHandler, Malformed, AnswerBeep, AnswerHead, AnswerRedirect, NotFound, FileInv, RequestInv, Sent
<1>2. UNCHANGED <<storeVars, orchVars, hVars, path, fd, chunk, ret>>
  BY DEF NoHandler, Malformed, AnswerBeep, AnswerHead, AnswerRedirect, NotFound, HandlerVars
<1>3. CASE Malformed
  <2>1. hpc' = "done" /\ out' = <<>> /\ excuse' # "none"
    BY <1>1, <1>3 DEF Malformed
  <2> QED
    BY <1>1, <1>2, <2>1, NoEndSmall, AnsweredKeeps
<1>4. CASE ~Malformed
  <2>1. PICK status \in {"404", "302", "200 empty", "beep"} : RespSend(status, "done")
    BY <1>4 DEF NoHandler, AnswerBeep, AnswerHead, AnswerRedirect, NotFound
  <2>2. /\ hpc' = "done" /\ NoEnd(out')
        /\ (out' = <<Part(status)>> /\ excuse' = excuse) \/ excuse' = "send"
    BY <1>1, <2>1, RespSendFacts
  <2> QED
    BY <1>1, <1>2, <2>2, AnsweredKeeps
<1> QED
  BY <1>3, <1>4

(* The way to the file: whatever is found missing is missing.               *)
LEMMA PathKnown ==
  ASSUME FileInv
  PROVE  /\ rq \in Requests \union {NoRequest} /\ rq.file \in [medium : Media \union {"other"}, name : DOMAIN Length]
         /\ path \in [medium : Media \union {"other"}, name : DOMAIN Length]
         /\ \A m \in Media \union {"other"} : File(m, "index") \in [medium : Media \union {"other"}, name : DOMAIN Length]
         /\ \A m, f : Present(m, f) => m \in Media /\ vol[m] /\ f \in DOMAIN Length /\ Length[f] \in Nat
<1>1. \A m \in Media \union {"other"} : File(m, "index") \in [medium : Media \union {"other"}, name : DOMAIN Length]
  BY FileConstants DEF File
<1>2. NoRequest.file = File("other", "index")
  BY DEF NoRequest, NoPath
<1>3. rq \in Requests \union {NoRequest}
  BY DEF FileInv, RequestInv
<1>4. rq.file \in [medium : Media \union {"other"}, name : DOMAIN Length]
  BY <1>1, <1>2, <1>3, FileConstants DEF IsRequest
<1>5. \A m, f : Present(m, f) => m \in Media /\ vol[m] /\ f \in DOMAIN Length /\ Length[f] \in Nat
  <2>1. setup.files \in [Media -> SUBSET DOMAIN Length]
    BY FileConstants DEF FileInv, StoreInv
  <2> QED
    BY <2>1, FileConstants DEF Present
<1> QED
  BY <1>1, <1>3, <1>4, <1>5 DEF FileInv, RequestInv

LEMMA ChoosePathKeeps == ASSUME FileInv, ChoosePath PROVE FileInv'
<1>1. /\ hpc = "handler" /\ hpc' = "open" /\ path' = (IF rq.kind = "page" THEN File(CaptivePath, "index") ELSE rq.file)
      /\ UNCHANGED <<storeVars, orchVars, hVars, fd, chunk, ret, out, excuse>>
  BY DEF ChoosePath, HandlerVars
<1>2. StoreInv' /\ Stopping' = Stopping /\ UNCHANGED <<setup, vol, flag, mpc, lost, requests, rq>>
  BY <1>1, HandlerFrame DEF FileInv, StoreInv, hVars
<1>3. path' \in [medium : Media \union {"other"}, name : DOMAIN Length] /\ (rq.kind = "file" => path' = rq.file)
  <2>1. CaptivePath \in Media \union {"other"}
    BY DEF CaptivePath, Media
  <2> QED
    BY <1>1, <2>1, PathKnown
<1>4. Sent'
  BY <1>1, <1>2 DEF FileInv, RequestInv, Sent, Reading
<1>5. RequestInv'
  BY <1>1, <1>2, <1>3, <1>4 DEF FileInv, RequestInv, PresentMeansFound, HandlerStages
<1> QED
  BY <1>2, <1>5 DEF FileInv

LEMMA OpenedFacts ==
  ASSUME NEW m \in Media
  PROVE  /\ Opened(m) \in [medium : Media, next : Nat \ {0}, error : BOOLEAN]
         /\ Opened(m).medium = m /\ Opened(m).next = 1 /\ ~Opened(m).error
<1>1. 1 \in Nat \ {0} /\ FALSE \in BOOLEAN
  OBVIOUS
<1> QED
  BY <1>1 DEF Opened

LEMMA FirstPlace == \A n \in Nat : 1 <= n + 1 /\ 1 - 1 = 0
OBVIOUS

LEMMA FoundKeeps ==
  ASSUME FileInv, hpc \in {"open", "open second"}, hpc' = "read", NEW m \in Media, fd' = Opened(m),
         vol[m], Length[path'.name] \in Nat, path' \in [medium : Media \union {"other"}, name : DOMAIN Length],
         UNCHANGED <<storeVars, orchVars, hVars, chunk, ret, out, excuse>>
  PROVE  FileInv'
<1>1. StoreInv' /\ Stopping' = Stopping /\ UNCHANGED <<setup, vol, flag, mpc, lost, requests, rq>>
  BY HandlerFrame DEF FileInv, StoreInv, hVars
<1>2. m \in Media /\ vol[m] /\ Length[path'.name] \in Nat
  OBVIOUS
<1>3. /\ fd' \in [medium : Media, next : Nat \ {0}, error : BOOLEAN] /\ fd'.medium = m /\ fd'.next = 1 /\ ~fd'.error
  BY OpenedFacts
<1>4. out' = <<>> /\ NoEnd(out') /\ out' = Body(0) /\ ret' = "ok"
  BY NoEndSmall DEF FileInv, RequestInv, Sent, Body
<1>5. fd'.next <= Length[path'.name] + 1 /\ fd'.next - 1 = 0
  <2>1. fd'.next = 1
    BY <1>3
  <2> QED
    BY <1>2, <2>1, FirstPlace
<1>6. Sent'
  BY <1>1, <1>2, <1>3, <1>4, <1>5 DEF Sent, Reading
<1>7. RequestInv'
  BY <1>1, <1>6 DEF FileInv, RequestInv, PresentMeansFound, HandlerStages
<1> QED
  BY <1>1, <1>7 DEF FileInv

(* While a server may read, a file that is neither where it was asked for   *)
(* nor, from the first medium, on the second one, is on no medium.          *)
LEMMA MissingIsMissing ==
  ASSUME FileInv, hpc # "idle", ~lost, rq.kind = "file", path = rq.file, ~Present(path.medium, path.name),
         ~Fallback \/ ~Present(Secondary, path.name)
  PROVE  ~OnAMedium
<1>1. flag = vol /\ vol \in [Media -> BOOLEAN] /\ \A m \in Media : vol[m] => m \in uses
  <2>1. mpc = <<"ready", "">>
    BY OutOfService DEF FileInv
  <2>2. mpc[1] = "ready"
    BY <2>1, StageIs
  <2> QED
    BY <2>2 DEF FileInv, StoreInv
<1>2. SUFFICES ASSUME path.medium = "sd", vol["sd"], Present("spiffs", path.name) PROVE FALSE
  BY DEF OnAMedium
<1>3. vol["spiffs"] /\ "spiffs" \in Media /\ "sd" \in Media
  BY <1>2, PathKnown DEF Media
<1>4. uses = Media
  <2>1. uses \subseteq Media
    BY FileConstants DEF FileInv, StoreInv, uses
  <2> QED
    BY <1>1, <1>2, <1>3, <2>1 DEF Media
<1>5. HasSecondary /\ PrimaryPath = "sd"
  BY <1>1, <1>2, <1>3, <1>4 DEF HasSecondary, PrimaryPath
<1> QED
  BY <1>2, <1>5 DEF Fallback, Secondary

LEMMA MissedKeeps ==
  ASSUME FileInv, hpc \in {"open", "open second"}, hpc' \in {"open second", "not found"}, fd' = NoFile,
         hpc' = "open second" => ~Present(path.medium, path.name),
         hpc' = "not found" /\ ~lost => ~Present(path.medium, path.name) /\ (~Fallback \/ ~Present(Secondary, path.name)),
         UNCHANGED <<storeVars, orchVars, hVars, path, chunk, ret, out, excuse>>
  PROVE  FileInv'
<1>1. StoreInv' /\ Stopping' = Stopping /\ UNCHANGED <<setup, vol, flag, mpc, lost, requests, rq>>
  BY HandlerFrame DEF FileInv, StoreInv, hVars
<1>2. Sent'
  BY <1>1 DEF FileInv, RequestInv, Sent, Reading
<1>3. PresentMeansFound'
  <2>1. rq.kind = "file" => path = rq.file
    BY DEF FileInv, RequestInv
  <2>2. hpc' = "not found" /\ rq.kind = "file" /\ ~lost => ~OnAMedium
    BY <2>1, MissingIsMissing
  <2> QED
    BY <1>1, <2>2 DEF PresentMeansFound, OnAMedium, Present
<1>4. (hpc = "open second" /\ ~lost => ~Present(path.medium, path.name))'
  BY <1>1 DEF Present
<1>5. RequestInv'
  BY <1>1, <1>2, <1>3, <1>4 DEF FileInv, RequestInv, HandlerStages
<1> QED
  BY <1>1, <1>5 DEF FileInv

LEMMA OpenKeeps == ASSUME FileInv, OpenFile \/ OpenSecond PROVE FileInv'
<1>1. CASE OpenFile
  <2>1. hpc = "open" /\ UNCHANGED <<storeVars, orchVars, hVars, path, chunk, ret, out, excuse>>
    BY <1>1 DEF OpenFile, HandlerVars
  <2>2. CASE Present(path.medium, path.name)
    <3>1. fd' = Opened(path.medium) /\ hpc' = "read" /\ path' = path
      BY <1>1, <2>1, <2>2 DEF OpenFile
    <3>2. path.medium \in Media /\ vol[path.medium] /\ Length[path'.name] \in Nat
      BY <2>2, <3>1, PathKnown
    <3>3. path' \in [medium : Media \union {"other"}, name : DOMAIN Length]
      BY <3>1, PathKnown
    <3> QED
      BY <2>1, <3>1, <3>2, <3>3, FoundKeeps
  <2>3. CASE ~Present(path.medium, path.name)
    <3>1. fd' = NoFile /\ hpc' = IF Fallback THEN "open second" ELSE "not found"
      BY <1>1, <2>3 DEF OpenFile
    <3> QED
      BY <2>1, <2>3, <3>1, MissedKeeps
  <2> QED
    BY <2>2, <2>3
<1>2. CASE OpenSecond
  <2>1. hpc = "open second" /\ UNCHANGED <<storeVars, orchVars, hVars, chunk, ret, out, excuse>>
    BY <1>2 DEF OpenSecond, HandlerVars
  <2>2. CASE Present(Secondary, path.name)
    <3>1. fd' = Opened(Secondary) /\ hpc' = "read" /\ path' = [path EXCEPT !.medium = Secondary]
      BY <1>2, <2>2 DEF OpenSecond
    <3>2. path' \in [medium : Media \union {"other"}, name : DOMAIN Length] /\ path'.name = path.name
      BY <3>1, PathKnown DEF Secondary, Media
    <3>3. Secondary \in Media /\ vol[Secondary] /\ Length[path'.name] \in Nat
      BY <2>2, <3>2, PathKnown
    <3> QED
      BY <2>1, <3>1, <3>2, <3>3, FoundKeeps
  <2>3. CASE ~Present(Secondary, path.name)
    <3>1. fd' = fd /\ path' = path /\ hpc' = "not found" /\ fd = NoFile
      BY <1>2, <2>1, <2>3 DEF OpenSecond, FileInv, RequestInv, Sent
    <3>2. ~lost => ~Present(path.medium, path.name)
      BY <2>1 DEF FileInv, RequestInv
    <3> QED
      BY <2>1, <2>3, <3>1, <3>2, MissedKeeps
  <2> QED
    BY <2>2, <2>3
<1> QED
  BY <1>1, <1>2

FileRec == [medium : Media, next : Nat \ {0}, error : BOOLEAN]

(* What is known of the file while it is read. *)
LEMMA ReadingFacts ==
  ASSUME FileInv, hpc \in Reading
  PROVE  /\ fd \in FileRec /\ fd.medium \in Media /\ fd.next \in Nat /\ fd.next >= 1 /\ fd.error \in BOOLEAN
         /\ (~lost => vol[fd.medium]) /\ fd.next <= Length[path.name] + 1
         /\ Length[path.name] \in Nat /\ NoEnd(out) /\ hpc # "idle" /\ web # "off"
<1>1. fd \in FileRec /\ (~lost => vol[fd.medium]) /\ fd.next <= Length[path.name] + 1 /\ NoEnd(out)
  BY DEF FileInv, RequestInv, Sent, FileRec
<1>2. fd.medium \in Media /\ fd.next \in Nat \ {0} /\ fd.error \in BOOLEAN
  BY <1>1 DEF FileRec
<1>3. path.name \in DOMAIN Length
  BY DEF FileInv, RequestInv
<1>4. hpc # "idle" /\ web # "off"
  BY DEF FileInv, StoreInv, Reading
<1> QED
  BY <1>1, <1>2, <1>3, <1>4, FileConstants

(* A step of the reading: what is left to show is where the answer is.      *)
LEMMA ReadingKeeps ==
  ASSUME FileInv, hpc \in Reading, hpc' \in Reading, UNCHANGED <<storeVars, orchVars, hVars, path>>,
         fd' \in FileRec, fd'.medium = fd.medium, fd'.next <= Length[path.name] + 1,
         NoEnd(out'), ret' \in {"ok", "fail"}, excuse' = excuse \/ excuse' # "none",
         hpc' \in {"read", "bits", "send", "ferror"} => ret' = "ok",
         hpc' \in {"read", "ferror"} /\ ~fd'.error => out' = Body(fd'.next - 1),
         hpc' = "ferror" /\ ~fd'.error => fd'.next = Length[path.name] + 1,
         hpc' \in {"bits", "send"} =>
           IF fd'.error THEN chunk' = Part("short")
           ELSE fd'.next > 1 /\ chunk' = <<"chunk", fd'.next - 1>> /\ out' = Body(fd'.next - 2),
         hpc' = "close" => IF ret' = "ok" THEN ~fd'.error /\ out' = Body(Length[path.name])
                           ELSE fd'.error \/ excuse' # "none"
  PROVE  FileInv'
<1>1. web # "off" /\ (~lost => vol[fd.medium]) /\ hpc # "idle"
  BY ReadingFacts
<1>2. StoreInv' /\ Stopping' = Stopping /\ UNCHANGED <<setup, vol, flag, mpc, lost, requests, rq, path>>
  BY <1>1, HandlerFrame DEF hVars
<1>3. Sent'
  BY <1>1, <1>2 DEF Sent, Reading, FileRec
<1>4. hpc' \notin {"idle", "open", "open second", "not found", "done"} /\ hpc' \in HandlerStages /\ out' \in Seq(Parts)
  BY DEF Reading, HandlerStages, NoEnd
<1>5. RequestInv'
  BY <1>1, <1>2, <1>3, <1>4 DEF FileInv, RequestInv, PresentMeansFound
<1> QED
  BY <1>2, <1>5 DEF FileInv

LEMMA ReadChunkKeeps == ASSUME FileInv, ReadChunk PROVE FileInv'
<1>1. /\ hpc = "read" /\ UNCHANGED <<storeVars, orchVars, hVars, path, ret, out, excuse>> /\ hpc \in Reading
      /\ ret = "ok" /\ (~fd.error => out = Body(fd.next - 1))
  BY DEF ReadChunk, HandlerVars, FileInv, RequestInv, Sent, Reading
<1>2. /\ fd \in FileRec /\ fd.next \in Nat /\ fd.next >= 1 /\ fd.error \in BOOLEAN /\ fd.medium \in Media
      /\ fd.next <= Length[path.name] + 1 /\ Length[path.name] \in Nat /\ NoEnd(out)
  BY <1>1, ReadingFacts
<1>3. NoEnd(out') /\ ret' = "ok" /\ ret' \in {"ok", "fail"} /\ excuse' = excuse
  BY <1>1, <1>2
<1>4. CASE ~fd.error /\ fd.next <= Length[path.name] /\ chunk' = <<"chunk", fd.next>>
           /\ fd' = [fd EXCEPT !.next = @ + 1] /\ hpc' = "bits"
  <2>1. fd' \in FileRec /\ fd'.medium = fd.medium /\ fd'.next = fd.next + 1 /\ ~fd'.error
    <3>1. fd.next + 1 \in Nat \ {0}
      BY <1>2
    <3> QED
      BY <1>2, <1>4, <3>1 DEF FileRec
  <2>2. fd'.next - 1 = fd.next /\ fd'.next - 2 = fd.next - 1 /\ fd'.next > 1 /\ fd'.next <= Length[path.name] + 1
    BY <1>2, <1>4, <2>1
  <2>3. hpc' \in Reading
    BY <1>4 DEF Reading
  <2>4. chunk' = <<"chunk", fd'.next - 1>> /\ out' = Body(fd'.next - 2)
    BY <1>1, <1>4, <2>2
  <2> QED
    BY <1>1, <1>3, <1>4, <2>1, <2>2, <2>3, <2>4, ReadingKeeps
<1>5. CASE ~fd.error /\ fd.next <= Length[path.name] /\ fd' = [fd EXCEPT !.error = TRUE]
           /\ ((chunk' = Part("short") /\ hpc' = "bits") \/ hpc' = "ferror")
  <2>1. fd' \in FileRec /\ fd'.medium = fd.medium /\ fd'.next = fd.next /\ fd'.error
    BY <1>2, <1>5 DEF FileRec
  <2>2. hpc' \in Reading /\ hpc' \notin {"read", "send", "close"}
    BY <1>5 DEF Reading
  <2>3. fd'.next <= Length[path.name] + 1
    BY <1>2, <2>1
  <2> QED
    BY <1>1, <1>3, <1>5, <2>1, <2>2, <2>3, ReadingKeeps
<1>6. CASE (fd.error \/ fd.next > Length[path.name]) /\ hpc' = "ferror" /\ fd' = fd
  <2>1. hpc' \in Reading /\ hpc' \notin {"read", "bits", "send", "close"}
    BY <1>6 DEF Reading
  <2>2. ~fd.error => fd.next = Length[path.name] + 1
    BY <1>2, <1>6
  <2> QED
    BY <1>1, <1>2, <1>3, <1>6, <2>1, <2>2, ReadingKeeps
<1> QED
  BY <1>4, <1>5, <1>6 DEF ReadChunk

LEMMA CheckKeeps == ASSUME FileInv, CheckBits \/ CheckError PROVE FileInv'
<1>1. hpc \in {"bits", "ferror"} /\ hpc \in Reading /\ UNCHANGED <<storeVars, orchVars, hVars, path, fd, chunk, out, excuse>>
  BY DEF CheckBits, CheckError, HandlerVars, Reading
<1>2. /\ fd \in FileRec /\ fd.next \in Nat /\ fd.error \in BOOLEAN /\ fd.next <= Length[path.name] + 1
      /\ Length[path.name] \in Nat /\ NoEnd(out) /\ hpc # "idle"
  BY <1>1, ReadingFacts
<1>3. ret = "ok" /\ (hpc # "idle" /\ Stopping => excuse # "none")
  BY <1>1 DEF FileInv, RequestInv, Sent
<1>4. CASE CheckBits
  <2>1. hpc = "bits"
        /\ IF fd.error THEN chunk = Part("short")
           ELSE fd.next > 1 /\ chunk = <<"chunk", fd.next - 1>> /\ out = Body(fd.next - 2)
    BY <1>4 DEF CheckBits, FileInv, RequestInv, Sent
  <2>2. CASE Stopping
    <3>1. ret' = "fail" /\ hpc' = "close" /\ excuse # "none"
      BY <1>2, <1>3, <1>4, <2>2 DEF CheckBits
    <3>2. hpc' \in Reading
      BY <3>1 DEF Reading
    <3> QED
      BY <1>1, <1>2, <3>1, <3>2, ReadingKeeps
  <2>3. CASE ~Stopping
    <3>1. ret' = "ok" /\ hpc' = "send"
      BY <1>3, <1>4, <2>3 DEF CheckBits
    <3>2. hpc' \in Reading
      BY <3>1 DEF Reading
    <3> QED
      BY <1>1, <1>2, <2>1, <3>1, <3>2, ReadingKeeps
  <2> QED
    BY <2>2, <2>3
<1>5. CASE CheckError
  <2>1. hpc = "ferror" /\ hpc' = "close" /\ ret' = (IF fd.error THEN "fail" ELSE "ok")
    BY <1>3, <1>5 DEF CheckError, ReadFailed
  <2>2. ~fd.error => out = Body(fd.next - 1) /\ fd.next = Length[path.name] + 1
    BY <2>1 DEF FileInv, RequestInv, Sent
  <2>3. ~fd.error => out = Body(Length[path.name])
    <3>1. fd.next = Length[path.name] + 1 => fd.next - 1 = Length[path.name]
      BY <1>2
    <3> QED
      BY <2>2, <3>1
  <2>4. hpc' \in Reading
    BY <2>1 DEF Reading
  <2> QED
    BY <1>1, <1>2, <2>1, <2>3, <2>4, ReadingKeeps
<1> QED
  BY <1>4, <1>5

(* What httpd_resp_send_chunk() adds to an answer that has not ended.        *)
LEMMA ChunkFailed ==
  ASSUME NoEnd(out), out' \in {out, out \o (IF out = <<>> THEN <<Part("200")>> ELSE <<>>) \o <<Part("cut")>>}
  PROVE  NoEnd(out')
<1> DEFINE head == IF out = <<>> THEN <<Part("200")>> ELSE <<>>
           cut == <<Part("cut")>>
<1>1. "200" \in PartKinds /\ "cut" \in PartKinds /\ "200" # "end" /\ "cut" # "end"
  BY DEF PartKinds
<1>2. NoEnd(head) /\ NoEnd(cut)
  BY <1>1, PartsAre, NoEndSmall
<1>3. out' = out \/ out' = (out \o head) \o cut
  OBVIOUS
<1> HIDE DEF head, cut
<1>4. NoEnd(out \o head)
  BY <1>2, NoEndJoined
<1>5. NoEnd((out \o head) \o cut)
  BY <1>2, <1>4, NoEndJoined
<1> QED
  BY <1>3, <1>5

LEMMA SendChunkKeeps == ASSUME FileInv, SendChunk PROVE FileInv'
<1>1. hpc = "send" /\ hpc \in Reading /\ UNCHANGED <<storeVars, orchVars, hVars, path, fd, chunk>>
  BY DEF SendChunk, HandlerVars, Reading
<1>2. /\ fd \in FileRec /\ fd.next \in Nat /\ fd.error \in BOOLEAN /\ fd.next <= Length[path.name] + 1
      /\ NoEnd(out) /\ out \in Seq(Parts)
  BY <1>1, ReadingFacts DEF NoEnd
<1>3. ret = "ok" /\ IF fd.error THEN chunk = Part("short")
                   ELSE fd.next > 1 /\ chunk = <<"chunk", fd.next - 1>> /\ out = Body(fd.next - 2)
  BY <1>1 DEF FileInv, RequestInv, Sent
<1> DEFINE head == IF out = <<>> THEN <<Part("200")>> ELSE <<>>
<1>4. \/ out' = out \o head \o <<chunk>> /\ hpc' = "read" /\ ret' = ret /\ excuse' = excuse
      \/ out' \in {out, out \o head \o <<Part("cut")>>} /\ hpc' = "close" /\ ret' = "fail" /\ excuse' = "send"
  BY DEF SendChunk, Chunk
<1>5. CASE out' \in {out, out \o head \o <<Part("cut")>>} /\ hpc' = "close" /\ ret' = "fail" /\ excuse' = "send"
  <2>1. NoEnd(out')
    BY <1>2, <1>5, ChunkFailed
  <2>2. hpc' \in Reading
    BY <1>5 DEF Reading
  <2> QED
    BY <1>1, <1>2, <1>5, <2>1, <2>2, ReadingKeeps
<1>6. CASE out' = out \o head \o <<chunk>> /\ hpc' = "read" /\ ret' = ret /\ excuse' = excuse
  <2>1. CASE fd.error
    <3>1. "short" \in PartKinds /\ "short" # "end" /\ "200" \in PartKinds /\ "200" # "end"
      BY DEF PartKinds
    <3>2. NoEnd(head) /\ NoEnd(<<chunk>>)
      BY <1>3, <2>1, <3>1, PartsAre, NoEndSmall
    <3>3. out' = (out \o head) \o <<chunk>>
      BY <1>6
    <3> HIDE DEF head
    <3>4. NoEnd(out \o head)
      BY <1>2, <3>2, NoEndJoined
    <3>5. NoEnd(out')
      BY <3>2, <3>3, <3>4, NoEndJoined
    <3>6. hpc' \in Reading
      BY <1>6 DEF Reading
    <3> QED
      BY <1>1, <1>2, <1>3, <1>6, <2>1, <3>5, <3>6, ReadingKeeps
  <2>2. CASE ~fd.error
    <3> DEFINE k == fd.next - 2
    <3>1. k \in Nat /\ k + 1 = fd.next - 1
      BY <1>2, <1>3, <2>2
    <3>2. out = Body(k) /\ chunk = <<"chunk", k + 1>> /\ head = Head_(out)
      BY <1>3, <2>2, <3>1 DEF Head_
    <3> HIDE DEF k, head
    <3>3. out' = Body(k + 1) /\ NoEnd(Body(k + 1))
      <4>1. Body(k) \o Head_(Body(k)) \o <<<<"chunk", k + 1>>>> = Body(k + 1)
        BY <3>1, BodyFacts
      <4>2. k + 1 \in Nat
        BY <3>1
      <4>3. NoEnd(Body(k + 1))
        BY <4>2, BodyFacts
      <4> QED
        BY <1>6, <3>2, <4>1, <4>3
    <3>4. hpc' \in Reading
      BY <1>6 DEF Reading
    <3> QED
      BY <1>1, <1>2, <1>3, <1>6, <2>2, <3>1, <3>3, <3>4, ReadingKeeps
  <2> QED
    BY <2>1, <2>2
<1> QED
  BY <1>4, <1>5, <1>6

(* The whole of a file is its head, its chunks and the end. *)
LEMMA WholeIs ==
  ASSUME NEW f, Length[f] \in Nat
  PROVE  Body(Length[f]) \o Head_(Body(Length[f])) \o <<Part("end")>> = Whole(f)
<1>1. Body(Length[f]) \o Head_(Body(Length[f])) = <<Part("200")>> \o ChunksTo(Length[f])
  BY BodyFacts
<1> QED
  BY <1>1 DEF Whole, ChunksTo

(* A request that is over, its file closed. *)
LEMMA OverKeeps ==
  ASSUME FileInv, hpc \notin {"idle", "done"}, hpc' \in {"last", "done"},
         UNCHANGED <<storeVars, orchVars, hVars, path, ret>>,
         fd' = NoFile, out' \in Seq(Parts), excuse' = excuse \/ excuse' # "none",
         hpc' = "last" => ret = "ok" /\ out' = Body(Length[path.name]) /\ NoEnd(out'),
         hpc' = "done" => NoEnd(out') \/ out' = Whole(path.name),
         hpc' = "done" /\ excuse' = "none" => out' = Whole(path.name)
  PROVE  FileInv'
<1>1. StoreInv' /\ Stopping' = Stopping /\ UNCHANGED <<setup, vol, flag, mpc, lost, requests, rq, path>>
  BY HandlerFrame DEF FileInv, StoreInv, hVars
<1>2. Sent'
  BY <1>1 DEF Sent, Reading
<1>3. hpc' = "done" => EndMeansWhole' /\ EveryRequestAnswered'
  <2>1. Whole(path.name)' = Whole(path.name)
    BY <1>1 DEF Whole, Part
  <2> QED
    BY <1>1, <2>1 DEF EndMeansWhole, EveryRequestAnswered, NoEnd
<1>4. RequestInv'
  BY <1>1, <1>2, <1>3 DEF FileInv, RequestInv, PresentMeansFound, HandlerStages
<1> QED
  BY <1>1, <1>4 DEF FileInv

LEMMA CloseFileKeeps == ASSUME FileInv, CloseFile PROVE FileInv'
<1>1. /\ hpc = "close" /\ hpc \in Reading /\ fd' = NoFile /\ hpc' = AfterFile
      /\ excuse' = (IF fd.error /\ excuse = "none" THEN "read" ELSE excuse)
      /\ UNCHANGED <<storeVars, orchVars, hVars, path, chunk, ret, out>>
  BY DEF CloseFile, HandlerVars, Reading
<1>2. NoEnd(out) /\ out \in Seq(Parts) /\ fd.error \in BOOLEAN
  BY <1>1, ReadingFacts DEF NoEnd
<1>3. ret \in {"ok", "fail"} /\ IF ret = "ok" THEN ~fd.error /\ out = Body(Length[path.name])
                             ELSE fd.error \/ excuse # "none"
  BY <1>1 DEF FileInv, RequestInv, Sent
<1>4. CASE ret = "ok"
  <2>1. hpc' = "last" /\ out' = Body(Length[path.name]) /\ NoEnd(out')
    BY <1>1, <1>2, <1>3, <1>4 DEF AfterFile
  <2> QED
    BY <1>1, <1>2, <1>4, <2>1, OverKeeps
<1>5. CASE ret # "ok"
  <2>1. hpc' = "done" /\ excuse' # "none" /\ NoEnd(out')
    BY <1>1, <1>2, <1>3, <1>5 DEF AfterFile
  <2> QED
    BY <1>1, <1>2, <2>1, OverKeeps
<1> QED
  BY <1>4, <1>5

LEMMA LastChunkKeeps == ASSUME FileInv, LastChunk PROVE FileInv'
<1>1. hpc = "last" /\ UNCHANGED <<storeVars, orchVars, hVars, path, fd, chunk, ret>>
  BY DEF LastChunk, HandlerVars
<1>2. out = Body(Length[path.name]) /\ NoEnd(out) /\ fd = NoFile /\ Length[path.name] \in Nat
  <2>1. path.name \in DOMAIN Length
    BY DEF FileInv, RequestInv
  <2> QED
    BY <1>1, <2>1, FileConstants DEF FileInv, RequestInv, Sent
<1> DEFINE head == IF out = <<>> THEN <<Part("200")>> ELSE <<>>
<1>3. \/ out' = out \o head \o <<Part("end")>> /\ hpc' = "done" /\ excuse' = excuse
      \/ out' \in {out, out \o head \o <<Part("cut")>>} /\ hpc' = "done" /\ excuse' = "send"
  BY DEF LastChunk, Chunk
<1>4. CASE out' = out \o head \o <<Part("end")>> /\ hpc' = "done" /\ excuse' = excuse
  <2>1. out' = Whole(path.name)
    BY <1>2, <1>4, WholeIs DEF Head_
  <2>2. out' \in Seq(Parts)
    <3>1. out \in Seq(Parts) /\ head \in Seq(Parts) /\ <<Part("end")>> \in Seq(Parts)
      <4>1. "200" \in PartKinds /\ "end" \in PartKinds
        BY DEF PartKinds
      <4>2. Part("200") \in Parts /\ Part("end") \in Parts
        BY <4>1, PartsAre
      <4> QED
        BY <1>2, <4>2 DEF NoEnd
    <3>2. out' = (out \o head) \o <<Part("end")>>
      BY <1>4
    <3> HIDE DEF head
    <3>3. out \o head \in Seq(Parts)
      BY <3>1, ConcatProperties
    <3> QED
      BY <3>1, <3>2, <3>3, ConcatProperties
  <2> QED
    BY <1>1, <1>2, <1>4, <2>1, <2>2, OverKeeps
<1>5. CASE out' \in {out, out \o head \o <<Part("cut")>>} /\ hpc' = "done" /\ excuse' = "send"
  <2>1. NoEnd(out') /\ out' \in Seq(Parts)
    BY <1>2, <1>5, ChunkFailed DEF NoEnd
  <2> QED
    BY <1>1, <1>2, <1>5, <2>1, OverKeeps
<1> QED
  BY <1>3, <1>4, <1>5

LEMMA EndRequestKeeps == ASSUME FileInv, EndRequest PROVE FileInv'
<1>1. /\ hpc = "done" /\ hpc' = "idle" /\ UNCHANGED <<storeVars, orchVars, requests, fd>> /\ rq' = NoRequest
      /\ path' = NoPath /\ ret' = "ok" /\ out' = <<>> /\ excuse' = "none"
  BY DEF EndRequest
<1>2. web # "off" /\ fd = NoFile
  BY <1>1 DEF FileInv, StoreInv, RequestInv, Sent
<1>3. StoreInv' /\ UNCHANGED <<setup, vol, flag, mpc, lost>>
  BY <1>1, <1>2, HandlerFrame
<1>4. path' \in [medium : Media \union {"other"}, name : DOMAIN Length]
  BY <1>1, PathKnown DEF NoPath
<1>5. Sent'
  BY <1>1, <1>2 DEF Sent, Reading
<1>6. out' \in Seq(Parts)
  BY <1>1, NoEndSmall DEF NoEnd
<1>7. RequestInv'
  BY <1>1, <1>3, <1>4, <1>5, <1>6 DEF RequestInv, PresentMeansFound, HandlerStages
<1> QED
  BY <1>3, <1>7 DEF FileInv

LEMMA FileInitially == FileInit => FileInv
<1> SUFFICES ASSUME FileInit PROVE FileInv
  OBVIOUS
<1>1. vol \in [Media -> BOOLEAN] /\ (\A m \in Media : ~vol[m]) /\ flag = vol
  BY DEF FileInit
<1>2. mpc \in StorageStages /\ mpc[1] = "mount"
  BY StageIs, StageParts DEF FileInit, Media
<1>3. StoreInv
  BY <1>1, <1>2 DEF FileInit, StoreInv, Booting
<1>4. path \in [medium : Media \union {"other"}, name : DOMAIN Length]
  BY FileConstants DEF FileInit, NoPath, File
<1>5. out \in Seq(Parts)
  BY NoEndSmall DEF FileInit, NoEnd
<1>6. RequestInv
  BY <1>4, <1>5 DEF FileInit, RequestInv, Sent, Reading, PresentMeansFound, HandlerStages
<1> QED
  BY <1>3, <1>6 DEF FileInv

LEMMA FileStepKeeps == FileInv /\ [FileNext]_fileVars => FileInv'
<1> SUFFICES ASSUME FileInv, [FileNext]_fileVars PROVE FileInv'
  OBVIOUS
<1>1. CASE UNCHANGED fileVars
  <2>1. UNCHANGED <<setup, vol, flag, mpc, opc, running, closing, web, lost, starts,
                    requests, hpc, rq, path, fd, chunk, ret, out, excuse>>
    BY <1>1 DEF fileVars, storeVars, orchVars, reqVars
  <2>2. StoreInv'
    BY <2>1 DEF FileInv, StoreInv, Booting, uses
  <2>3. hpc # "idle" /\ Stopping' => excuse' # "none"
    BY <2>1 DEF FileInv, RequestInv, Stopping
  <2>4. RequestInv'
    BY <2>1, <2>3, RequestKept DEF FileInv
  <2> QED
    BY <2>2, <2>4 DEF FileInv
<1>2. CASE FileNext
  BY <1>2, NextRequestKeeps, StorageKeeps, OrchestratorKeeps, SmallAnswersKeep, ChoosePathKeeps, OpenKeeps,
     ReadChunkKeeps, CheckKeeps, SendChunkKeeps, CloseFileKeeps, LastChunkKeeps, EndRequestKeeps
  DEF FileNext, HandlerStep
<1> QED
  BY <1>1, <1>2

LEMMA FileInvSuffices == FileInv => ServingRight
<1> SUFFICES ASSUME FileInv PROVE ServingRight
  OBVIOUS
<1>1. EndMeansWhole
  <2>1. CASE hpc \in Reading \union {"last"}
    <3>1. NoEnd(out)
      BY <2>1 DEF FileInv, RequestInv, Sent
    <3> QED
      BY <3>1 DEF EndMeansWhole, NoEnd
  <2>2. CASE hpc = "done"
    BY <2>2 DEF FileInv, RequestInv
  <2>3. CASE hpc \notin Reading \union {"last", "done"}
    <3>1. out = <<>>
      BY <2>3 DEF FileInv, RequestInv, Sent, Reading, HandlerStages
    <3> QED
      BY <3>1, NoEndSmall DEF EndMeansWhole, NoEnd
  <2> QED
    BY <2>1, <2>2, <2>3
<1>2. EveryRequestAnswered
  BY DEF FileInv, RequestInv, EveryRequestAnswered
<1>3. PresentMeansFound
  BY DEF FileInv, RequestInv
<1>4. MediaWhileServing
  <2> SUFFICES ASSUME web # "off" \/ hpc # "idle", ~lost
               PROVE  flag = vol /\ (\E m \in Media : vol[m]) /\ (fd # NoFile => vol[fd.medium])
    BY DEF MediaWhileServing
  <2>1. mpc[1] = "ready"
    <3>1. mpc = <<"ready", "">>
      BY OutOfService DEF FileInv
    <3> QED
      BY <3>1, StageIs
  <2>2. fd # NoFile => hpc \in Reading
    BY DEF FileInv, RequestInv, Sent, Reading, HandlerStages
  <2>3. hpc \in Reading => vol[fd.medium]
    BY DEF FileInv, RequestInv, Sent
  <2> QED
    BY <2>1, <2>2, <2>3 DEF FileInv, StoreInv
<1> QED
  BY <1>1, <1>2, <1>3, <1>4 DEF ServingRight

(* What a client of the web server is told is true: the end of a file goes   *)
(* out behind all of it, each request has its answer, only what is on no     *)
(* medium is called missing, and the media stay as long as the server that   *)
(* reads from them; for all media, files and lengths, and however storage,   *)
(* servers and shutdown are timed.                                           *)
THEOREM ServingIsRight == FileSpec => []ServingRight
<1>1. FileInit => FileInv
  BY FileInitially
<1>2. FileInv /\ [FileNext]_fileVars => FileInv'
  BY FileStepKeeps
<1>3. FileInv => ServingRight
  BY FileInvSuffices
<1> QED
  BY <1>1, <1>2, <1>3, PTL DEF FileSpec

-----------------------------------------------------------------------------
(* Flash partitions and the card, mounted side by side.  Paths, contexts,   *)
(* drives and media are paired one to one; of what earlier mounts left in   *)
(* the tables, nothing names a handle or a place that is taken again.       *)

MountSpec == MountInit /\ [][MountNext]_mountVars

MountRec ==
  [kind : {"wl", "raw", "sd"}, path : Paths, on : Media_, handle : {WL_INVALID_HANDLE} \union Instances]
MountCtx == [path : Paths, fat_drive : Pdrvs, id : Nat]
UsedDrives == {d \in Pdrvs : impls[d] # NoImpl}

MountTypeOK ==
  /\ impls \in [Pdrvs -> {NoImpl, "wl", "raw", "sd"}]
  /\ wl_handles \in [Pdrvs -> {WL_INVALID_HANDLE} \union Instances]
  /\ raw_handles \in [Pdrvs -> Partitions \union {Nobody}]
  /\ s_fat_ctxs \subseteq MountCtx /\ IsFiniteSet(s_fat_ctxs)
  /\ FatFs_ \in [Pdrvs -> Nat]
  /\ wl \in [Instances -> Partitions \union {Nobody}]
  /\ content \in [Media_ -> Int] /\ acked = content
  /\ mounted_ \subseteq MountRec /\ IsFiniteSet(mounted_) /\ stray \subseteq Instances
  /\ mounts \in Nat /\ writes \in Nat

Paired ==
  /\ \A m, n \in mounted_ : m.path = n.path \/ m.on = n.on => m = n
  /\ \A c, e \in s_fat_ctxs : c.path = e.path \/ c.fat_drive = e.fat_drive => c = e
  /\ \A c \in s_fat_ctxs : \E m \in mounted_ : m.path = c.path
  /\ \A m \in mounted_ : \E c \in s_fat_ctxs : c.path = m.path
  /\ \A d \in Pdrvs : d \in UsedDrives <=> \E c \in s_fat_ctxs : c.fat_drive = d

Counted ==
  /\ Cardinality(s_fat_ctxs) = Cardinality(mounted_)
  /\ Cardinality(UsedDrives) = Cardinality(mounted_)

(* Drive d serves mount m, and would be found for it. *)
DriveOf(m, d) ==
  /\ impls[d] = m.kind
  /\ m.kind = "wl" => /\ wl_handles[d] = m.handle /\ m.handle \in Instances \ stray /\ wl[m.handle] = m.on
                      /\ \A k \in Pdrvs : wl_handles[k] = m.handle => k = d
  /\ m.kind = "raw" => raw_handles[d] = m.on /\ \A k \in Pdrvs : raw_handles[k] = m.on => d <= k
  /\ m.kind = "sd" => d = 0 /\ m.on = Card
  /\ m.kind # "wl" => m.handle = WL_INVALID_HANDLE
  /\ m.kind # "sd" => m.on \in Partitions

DrivesRight ==
  \A m \in mounted_, c \in s_fat_ctxs :
    c.path = m.path => FatFs_[c.fat_drive] = c.id /\ DriveOf(m, c.fat_drive)

HandlesRight ==
  /\ \A h \in Instances : wl[h] # Nobody <=> h \in stray \union {m.handle : m \in mounted_}
  /\ \A d \in Pdrvs : wl_handles[d] # WL_INVALID_HANDLE => wl[wl_handles[d]] # Nobody

MountInv == MountTypeOK /\ Paired /\ Counted /\ DrivesRight /\ HandlesRight

LEMMA DriveNumbers ==
  /\ Pdrvs \subseteq Nat /\ NoDrive \notin Pdrvs /\ 0 \in Pdrvs
  /\ \A d \in Pdrvs : get_ldnumber(d) = d /\ d # -1
  /\ WL_INVALID_HANDLE \notin Instances /\ IsFiniteSet(Pdrvs)
<1>1. NumVolumes \in Nat /\ 1 <= NumVolumes /\ NumVolumes <= 10
  BY MountConstants
<1>2. IsFiniteSet(Pdrvs)
  BY <1>1, FS_Interval DEF Pdrvs
<1> QED
  BY <1>1, <1>2 DEF Pdrvs, NoDrive, get_ldnumber, WL_INVALID_HANDLE, Instances

LEMMA FirstIs ==
  ASSUME NEW S, S \subseteq Nat, NEW none
  PROVE  /\ S # {} => FirstOr(S, none) \in S /\ \A y \in S : FirstOr(S, none) <= y
         /\ S = {} => FirstOr(S, none) = none
<1>1. CASE S = {}
  BY <1>1 DEF FirstOr
<1>2. CASE S # {}
  <2>1. \E x \in S : \A y \in S : x <= y
    BY <1>2, LeastExists
  <2>2. Least(S) \in S /\ \A y \in S : Least(S) <= y
    BY <2>1 DEF Least
  <2> QED
    BY <1>2, <2>2 DEF FirstOr
<1> QED
  BY <1>1, <1>2

LEMMA UsedFinite == MountTypeOK => IsFiniteSet(UsedDrives)
  BY DriveNumbers, FS_Subset DEF UsedDrives

(* What a mount does before f_mount(): the driver's tables have a place for *)
(* it, on a drive that was free.                                            *)
Placed(d, m) ==
  /\ d \in Pdrvs /\ impls[d] = NoImpl /\ m \in MountRec /\ UnusedDrive(m.path, m.on)
  /\ wl_handles' = IF m.kind = "wl" THEN [wl_handles EXCEPT ![d] = m.handle] ELSE wl_handles
  /\ raw_handles' = IF m.kind = "raw" THEN [raw_handles EXCEPT ![d] = m.on] ELSE raw_handles
  /\ wl' = IF m.kind = "wl" THEN [wl EXCEPT ![m.handle] = m.on] ELSE wl
  /\ m.kind = "wl" => m.handle \in Instances /\ wl[m.handle] = Nobody /\ m.on \in Partitions
  /\ m.kind = "raw" => m.on \in Partitions /\ \A k \in Pdrvs : raw_handles[k] = m.on => d <= k
  /\ m.kind = "sd" => d = 0 /\ m.on = Card
  /\ m.kind # "wl" => m.handle = WL_INVALID_HANDLE
  /\ mounts' = mounts + 1 /\ UNCHANGED <<content, acked, writes>>

(* The other mounts do not notice. *)
LEMMA OthersServed ==
  ASSUME MountInv, NEW d, NEW m, Placed(d, m), NEW n \in mounted_, NEW c \in s_fat_ctxs, c.path = n.path,
         impls'[c.fat_drive] = impls[c.fat_drive], stray' \subseteq stray \union {m.handle}
  PROVE  DriveOf(n, c.fat_drive)'
<1>1. c.fat_drive \in Pdrvs /\ c.fat_drive # d /\ DriveOf(n, c.fat_drive) /\ n.path # m.path /\ n.on # m.on
  BY DEF MountInv, MountTypeOK, MountCtx, Paired, UsedDrives, DrivesRight, Placed, UnusedDrive
<1>2. \A k \in Pdrvs : k # d => wl_handles'[k] = wl_handles[k] /\ raw_handles'[k] = raw_handles[k]
  BY DEF Placed, MountInv, MountTypeOK
<1>3. CASE n.kind = "wl"
  <2>1. n.handle \in Instances /\ n.handle \notin stray /\ wl[n.handle] = n.on /\ n.on \in Partitions
    BY <1>1, <1>3 DEF DriveOf
  <2>2. n.handle # m.handle /\ wl'[n.handle] = wl[n.handle] /\ n.handle \notin stray'
    BY <2>1, MountConstants, DriveNumbers DEF Placed, MountInv, MountTypeOK
  <2>3. \A k \in Pdrvs : wl_handles'[k] = n.handle => k = c.fat_drive
    <3>1. wl_handles'[d] # n.handle
      BY <1>1, <1>3, <2>2 DEF Placed, MountInv, MountTypeOK, DriveOf
    <3> QED
      BY <1>1, <1>2, <1>3, <3>1 DEF DriveOf
  <2> QED
    BY <1>1, <1>2, <1>3, <2>1, <2>2, <2>3 DEF DriveOf
<1>4. CASE n.kind = "raw"
  <2>1. raw_handles'[d] # n.on \/ raw_handles'[d] = raw_handles[d]
    BY <1>1 DEF Placed, MountInv, MountTypeOK
  <2> QED
    BY <1>1, <1>2, <1>4, <2>1 DEF DriveOf
<1>5. CASE n.kind \notin {"wl", "raw"}
  BY <1>1, <1>5 DEF DriveOf
<1> QED
  BY <1>3, <1>4, <1>5

LEMMA PlacedTypes ==
  ASSUME MountInv, NEW d, NEW m, Placed(d, m)
  PROVE  /\ wl_handles' \in [Pdrvs -> {WL_INVALID_HANDLE} \union Instances]
         /\ raw_handles' \in [Pdrvs -> Partitions \union {Nobody}]
         /\ wl' \in [Instances -> Partitions \union {Nobody}]
         /\ content' \in [Media_ -> Int] /\ acked' = content' /\ mounts' \in Nat /\ writes' \in Nat
  BY DEF Placed, MountInv, MountTypeOK

LEMMA HandlesPlaced ==
  ASSUME MountInv, NEW d, NEW m, Placed(d, m),
         stray' \union {n.handle : n \in mounted_'} =
           stray \union {n.handle : n \in mounted_} \union (IF m.kind = "wl" THEN {m.handle} ELSE {}) \/
         stray' \union {n.handle : n \in mounted_'} =
           stray \union {n.handle : n \in mounted_} \union {m.handle}
  PROVE  HandlesRight'
<1> DEFINE Taken == stray \union {n.handle : n \in mounted_}
           Now == stray' \union {n.handle : n \in mounted_'}
<1>1. ASSUME NEW h \in Instances PROVE wl'[h] # Nobody <=> h \in Now
  <2>1. wl[h] # Nobody <=> h \in Taken
    BY DEF MountInv, HandlesRight
  <2>2. h \in Now <=> h \in Taken \/ (m.kind = "wl" /\ h = m.handle)
    <3>1. m.kind # "wl" => m.handle # h
      BY DriveNumbers DEF Placed
    <3> HIDE DEF Taken, Now
    <3>2. Now = Taken \union (IF m.kind = "wl" THEN {m.handle} ELSE {}) \/ Now = Taken \union {m.handle}
      BY DEF Now, Taken
    <3> QED
      BY <3>1, <3>2
  <2>3. wl'[h] # Nobody <=> wl[h] # Nobody \/ (m.kind = "wl" /\ h = m.handle)
    BY MountConstants DEF Placed, MountInv, MountTypeOK
  <2> QED
    BY <2>1, <2>2, <2>3
<1>2. ASSUME NEW k \in Pdrvs, wl_handles'[k] # WL_INVALID_HANDLE PROVE wl'[wl_handles'[k]] # Nobody
  <2>1. CASE m.kind = "wl" /\ k = d
    BY <2>1, MountConstants DEF Placed, MountInv, MountTypeOK
  <2>2. CASE ~(m.kind = "wl" /\ k = d)
    <3>1. wl_handles'[k] = wl_handles[k] /\ wl[wl_handles[k]] # Nobody /\ wl_handles[k] \in Instances
      BY <1>2, <2>2 DEF Placed, MountInv, MountTypeOK, HandlesRight
    <3> QED
      BY <3>1, MountConstants DEF Placed, MountInv, MountTypeOK
  <2> QED
    BY <2>1, <2>2
<1> QED
  BY <1>1, <1>2 DEF HandlesRight

LEMMA MountFails ==
  ASSUME MountInv, NEW d, NEW m, Placed(d, m), NEW failed, Undone(d, m, failed)
  PROVE  MountInv'
<1>1. d \in Pdrvs /\ d \notin UsedDrives /\ impls' = impls /\ get_ldnumber(d) = d
  BY DriveNumbers DEF Placed, Undone, MountInv, MountTypeOK, ff_diskio_register, NoImpl, UsedDrives
<1>2. FatFs_' \in [Pdrvs -> Nat] /\ \A k \in Pdrvs : k # d => FatFs_'[k] = FatFs_[k]
  BY <1>1 DEF Undone, MountInv, MountTypeOK
<1>3. stray' \subseteq Instances /\ stray' \subseteq stray \union {m.handle}
  BY DEF Undone, Placed, MountInv, MountTypeOK
<1>4. MountTypeOK'
  BY <1>1, <1>2, <1>3, PlacedTypes DEF MountInv, MountTypeOK, Undone
<1>5. Paired' /\ Counted'
  BY <1>1 DEF MountInv, Paired, Counted, Undone, UsedDrives
<1>6. DrivesRight'
  <2> SUFFICES ASSUME NEW n \in mounted_, NEW c \in s_fat_ctxs, c.path = n.path
               PROVE  FatFs_'[c.fat_drive] = c.id /\ DriveOf(n, c.fat_drive)'
    BY DEF DrivesRight, Undone
  <2>1. c.fat_drive \in Pdrvs /\ c.fat_drive # d /\ FatFs_[c.fat_drive] = c.id
    BY <1>1 DEF MountInv, MountTypeOK, MountCtx, Paired, DrivesRight
  <2> QED
    BY <1>1, <1>2, <1>3, <2>1, OthersServed
<1>7. HandlesRight'
  BY HandlesPlaced DEF Undone
<1> QED
  BY <1>4, <1>5, <1>6, <1>7 DEF MountInv

LEMMA MountWorks ==
  ASSUME MountInv, NEW d, NEW m, Placed(d, m), NEW tables, tables.impls = ff_diskio_register(d, m.kind),
         Registered(d, m, tables)
  PROVE  MountInv'
<1> DEFINE ctx == [path |-> m.path, fat_drive |-> d, id |-> mounts + 1]
<1>1. /\ d \in Pdrvs /\ d \notin UsedDrives /\ get_ldnumber(d) = d /\ m \in MountRec
      /\ m.kind \in {"wl", "raw", "sd"} /\ m.kind # NoImpl
      /\ mounts + 1 \in Nat /\ ctx \in MountCtx
  BY DriveNumbers DEF Placed, MountInv, MountTypeOK, MountRec, MountCtx, NoImpl, UsedDrives
<1>2. /\ impls' = [impls EXCEPT ![d] = m.kind] /\ FatFs_' = [FatFs_ EXCEPT ![d] = mounts + 1]
      /\ s_fat_ctxs' = s_fat_ctxs \union {ctx} /\ mounted_' = mounted_ \union {m} /\ stray' = stray
  BY <1>1 DEF Registered, ff_diskio_register
<1>3. ctx.path = m.path /\ ctx.fat_drive = d /\ ctx.id = mounts + 1
  OBVIOUS
<1> HIDE DEF ctx
<1>4. m \notin mounted_ /\ ctx \notin s_fat_ctxs
      /\ (\A n \in mounted_ : n.path # m.path /\ n.on # m.on)
      /\ (\A c \in s_fat_ctxs : c.path # m.path /\ c.fat_drive # d)
  BY <1>1, <1>3 DEF Placed, UnusedDrive, MountInv, Paired
<1>5. UsedDrives' = UsedDrives \union {d}
  BY <1>1, <1>2 DEF UsedDrives, MountInv, MountTypeOK
<1>6. MountTypeOK'
  <2>1. IsFiniteSet(s_fat_ctxs') /\ IsFiniteSet(mounted_')
    BY <1>2, FS_AddElement DEF MountInv, MountTypeOK
  <2>2. impls' \in [Pdrvs -> {NoImpl, "wl", "raw", "sd"}] /\ FatFs_' \in [Pdrvs -> Nat]
    BY <1>1, <1>2 DEF MountInv, MountTypeOK
  <2>3. s_fat_ctxs' \subseteq MountCtx /\ mounted_' \subseteq MountRec /\ stray' \subseteq Instances
    BY <1>1, <1>2 DEF MountInv, MountTypeOK
  <2> QED
    BY <2>1, <2>2, <2>3, PlacedTypes DEF MountTypeOK
<1>7. Paired'
  <2>1. \A n, l \in mounted_' : n.path = l.path \/ n.on = l.on => n = l
    BY <1>2, <1>4 DEF MountInv, Paired
  <2>2. \A c, e \in s_fat_ctxs' : c.path = e.path \/ c.fat_drive = e.fat_drive => c = e
    BY <1>2, <1>3, <1>4 DEF MountInv, Paired
  <2>3. \A c \in s_fat_ctxs' : \E n \in mounted_' : n.path = c.path
    BY <1>2, <1>3 DEF MountInv, Paired
  <2>4. \A n \in mounted_' : \E c \in s_fat_ctxs' : c.path = n.path
    BY <1>2, <1>3 DEF MountInv, Paired
  <2>5. \A k \in Pdrvs : k \in UsedDrives' <=> \E c \in s_fat_ctxs' : c.fat_drive = k
    BY <1>2, <1>3, <1>5 DEF MountInv, Paired
  <2> QED
    BY <2>1, <2>2, <2>3, <2>4, <2>5 DEF Paired
<1>8. Counted'
  <2>1. IsFiniteSet(s_fat_ctxs) /\ IsFiniteSet(mounted_) /\ IsFiniteSet(UsedDrives)
    BY UsedFinite DEF MountInv, MountTypeOK
  <2>2. Cardinality(s_fat_ctxs') = Cardinality(s_fat_ctxs) + 1
    BY <1>2, <1>4, <2>1, FS_AddElement
  <2>3. Cardinality(mounted_') = Cardinality(mounted_) + 1
    BY <1>2, <1>4, <2>1, FS_AddElement
  <2>4. Cardinality(UsedDrives') = Cardinality(UsedDrives) + 1
    BY <1>1, <1>5, <2>1, FS_AddElement
  <2> QED
    BY <2>2, <2>3, <2>4 DEF MountInv, Counted
<1>9. DrivesRight'
  <2> SUFFICES ASSUME NEW n \in mounted_', NEW c \in s_fat_ctxs', c.path = n.path
               PROVE  FatFs_'[c.fat_drive] = c.id /\ DriveOf(n, c.fat_drive)'
    BY DEF DrivesRight
  <2>1. CASE n \in mounted_ /\ c \in s_fat_ctxs
    <3>1. c.fat_drive \in Pdrvs /\ c.fat_drive # d /\ FatFs_[c.fat_drive] = c.id
      BY <1>4, <2>1 DEF MountInv, MountTypeOK, MountCtx, DrivesRight
    <3>2. impls'[c.fat_drive] = impls[c.fat_drive] /\ FatFs_'[c.fat_drive] = FatFs_[c.fat_drive]
      BY <1>2, <3>1 DEF MountInv, MountTypeOK
    <3> QED
      BY <1>2, <2>1, <3>1, <3>2, OthersServed
  <2>2. CASE n = m /\ c = ctx
    <3>1. FatFs_'[d] = mounts + 1 /\ impls'[d] = m.kind
      BY <1>1, <1>2 DEF MountInv, MountTypeOK
    <3>2. CASE m.kind = "wl"
      <4>1. /\ wl_handles' = [wl_handles EXCEPT ![d] = m.handle] /\ wl' = [wl EXCEPT ![m.handle] = m.on]
            /\ m.handle \in Instances /\ m.on \in Partitions /\ wl[m.handle] = Nobody
        BY <3>2 DEF Placed
      <4>2. m.handle \notin stray /\ \A k \in Pdrvs : wl_handles[k] # m.handle
        BY <4>1, DriveNumbers DEF MountInv, HandlesRight
      <4>3. wl_handles'[d] = m.handle /\ wl'[m.handle] = m.on /\ \A k \in Pdrvs : wl_handles'[k] = m.handle => k = d
        BY <1>1, <4>1, <4>2 DEF MountInv, MountTypeOK
      <4> QED
        BY <1>2, <1>3, <2>2, <3>1, <3>2, <4>1, <4>2, <4>3 DEF DriveOf
    <3>3. CASE m.kind = "raw"
      <4>1. /\ raw_handles' = [raw_handles EXCEPT ![d] = m.on] /\ m.on \in Partitions
            /\ m.handle = WL_INVALID_HANDLE /\ \A k \in Pdrvs : raw_handles[k] = m.on => d <= k
        BY <3>3 DEF Placed
      <4>2. raw_handles'[d] = m.on /\ \A k \in Pdrvs : k # d => raw_handles'[k] = raw_handles[k]
        BY <1>1, <4>1 DEF MountInv, MountTypeOK
      <4>3. \A k \in Pdrvs : raw_handles'[k] = m.on => d <= k
        BY <1>1, <4>1, <4>2, DriveNumbers
      <4> QED
        BY <1>3, <2>2, <3>1, <3>3, <4>1, <4>2, <4>3 DEF DriveOf
    <3>4. CASE m.kind = "sd"
      BY <1>3, <2>2, <3>1, <3>4 DEF DriveOf, Placed
    <3> QED
      BY <1>1, <1>3, <2>2, <3>1, <3>2, <3>3, <3>4
  <2>3. (n \in mounted_ /\ c \in s_fat_ctxs) \/ (n = m /\ c = ctx)
    BY <1>2, <1>3, <1>4
  <2> QED
    BY <2>1, <2>2, <2>3
<1>10. HandlesRight'
  <2>1. {n.handle : n \in mounted_'} = {n.handle : n \in mounted_} \union {m.handle}
    BY <1>2
  <2>2. stray' \union {n.handle : n \in mounted_'} =
          stray \union {n.handle : n \in mounted_} \union {m.handle}
    BY <1>2, <2>1
  <2> QED
    BY <2>2, HandlesPlaced
<1> QED
  BY <1>6, <1>7, <1>8, <1>9, <1>10 DEF MountInv

(* The drive that an unmount looks up is the one that serves the mount.     *)
LEMMA DriveFound ==
  ASSUME MountInv, NEW m \in mounted_
  PROVE  \E c \in s_fat_ctxs :
           /\ c.path = m.path /\ c.fat_drive \in Pdrvs /\ c.fat_drive \in UsedDrives
           /\ FatFs_[c.fat_drive] = c.id /\ DriveOf(m, c.fat_drive)
           /\ ContextOf(m.path) = c
           /\ m.kind = "wl" => ff_diskio_get_pdrv_wl(m.handle) = c.fat_drive
           /\ m.kind = "raw" => ff_diskio_get_pdrv_raw(m.on) = c.fat_drive
<1>1. PICK c \in s_fat_ctxs : c.path = m.path
  BY DEF MountInv, Paired
<1>2. c.fat_drive \in Pdrvs /\ c.fat_drive \in UsedDrives /\ FatFs_[c.fat_drive] = c.id /\ DriveOf(m, c.fat_drive)
  BY <1>1 DEF MountInv, MountTypeOK, MountCtx, Paired, DrivesRight
<1>3. ContextOf(m.path) = c
  BY <1>1 DEF ContextOf, MountInv, Paired
<1>4. CASE m.kind = "wl"
  <2> DEFINE S == {k \in Pdrvs : wl_handles[k] = m.handle}
  <2>1. S = {c.fat_drive}
    BY <1>2, <1>4 DEF DriveOf
  <2>2. S \subseteq Nat /\ S # {}
    BY <2>1, DriveNumbers
  <2>3. FirstOr(S, NoDrive) \in S
    BY <2>2, FirstIs
  <2> QED
    BY <1>1, <1>2, <1>3, <1>4, <2>1, <2>3 DEF ff_diskio_get_pdrv_wl
<1>5. CASE m.kind = "raw"
  <2> DEFINE S == {k \in Pdrvs : raw_handles[k] = m.on}
  <2>1. c.fat_drive \in S /\ \A k \in S : c.fat_drive <= k
    BY <1>2, <1>5 DEF DriveOf
  <2>2. S \subseteq Nat /\ S # {}
    BY <2>1, DriveNumbers
  <2>3. FirstOr(S, NoDrive) \in S /\ \A k \in S : FirstOr(S, NoDrive) <= k
    BY <2>2, FirstIs
  <2>4. FirstOr(S, NoDrive) = c.fat_drive
    BY <2>1, <2>2, <2>3
  <2> QED
    BY <1>1, <1>2, <1>3, <1>5, <2>4 DEF ff_diskio_get_pdrv_raw
<1>6. CASE m.kind \notin {"wl", "raw"}
  BY <1>1, <1>2, <1>3, <1>6
<1> QED
  BY <1>4, <1>5, <1>6

LEMMA MountReleased ==
  ASSUME MountInv, NEW m \in mounted_, NEW c \in s_fat_ctxs, c.path = m.path, ReleaseAll(c.fat_drive, m),
         UNCHANGED raw_handles,
         IF m.kind = "wl"
         THEN wl_handles' = ff_diskio_clear_pdrv_wl(m.handle) /\ wl' = [wl EXCEPT ![m.handle] = Nobody]
         ELSE UNCHANGED <<wl_handles, wl>>
  PROVE  MountInv'
<1> DEFINE d == c.fat_drive
<1>1. /\ d \in Pdrvs /\ d \in UsedDrives /\ DriveOf(m, d) /\ get_ldnumber(d) = d
      /\ m \in MountRec /\ m.kind \in {"wl", "raw", "sd"}
  BY DriveNumbers DEF MountInv, MountTypeOK, MountCtx, Paired, DrivesRight, MountRec
<1>2. /\ FatFs_' = [FatFs_ EXCEPT ![d] = 0] /\ impls' = [impls EXCEPT ![d] = NoImpl]
      /\ mounted_' = mounted_ \ {m} /\ stray' = stray /\ mounts' = mounts
      /\ content' = content /\ acked' = acked /\ writes' = writes
  BY <1>1 DEF ReleaseAll, ff_diskio_register, KeptAt
<1>3. s_fat_ctxs' = s_fat_ctxs \ {c}
  <2>1. s_fat_ctxs' = {e \in s_fat_ctxs : e.path # m.path}
    BY DEF ReleaseAll, LessOne
  <2>2. \A e \in s_fat_ctxs : e.path = m.path <=> e = c
    BY DEF MountInv, Paired
  <2> QED
    BY <2>1, <2>2
<1>4. UsedDrives' = UsedDrives \ {d}
  BY <1>1, <1>2 DEF UsedDrives, MountInv, MountTypeOK
<1>5. /\ \A k \in Pdrvs : k # d => impls'[k] = impls[k] /\ FatFs_'[k] = FatFs_[k]
      /\ \A k \in Pdrvs : wl_handles'[k] = wl_handles[k] \/ (m.kind = "wl" /\ wl_handles[k] = m.handle)
  <2>1. \A k \in Pdrvs : k # d => impls'[k] = impls[k] /\ FatFs_'[k] = FatFs_[k]
    BY <1>1, <1>2 DEF MountInv, MountTypeOK
  <2>2. \A k \in Pdrvs : wl_handles'[k] = wl_handles[k] \/ (m.kind = "wl" /\ wl_handles[k] = m.handle)
    BY DEF ff_diskio_clear_pdrv_wl
  <2> QED
    BY <2>1, <2>2
<1>6. \A k \in Pdrvs : wl_handles'[k] = wl_handles[k] \/ wl_handles'[k] = WL_INVALID_HANDLE
  BY DEF ff_diskio_clear_pdrv_wl
<1>7. MountTypeOK'
  <2>1. IsFiniteSet(s_fat_ctxs') /\ IsFiniteSet(mounted_')
    BY <1>2, <1>3, FS_RemoveElement DEF MountInv, MountTypeOK
  <2>2. impls' \in [Pdrvs -> {NoImpl, "wl", "raw", "sd"}] /\ FatFs_' \in [Pdrvs -> Nat]
    BY <1>1, <1>2 DEF MountInv, MountTypeOK
  <2>3. wl_handles' \in [Pdrvs -> {WL_INVALID_HANDLE} \union Instances]
    BY DEF ff_diskio_clear_pdrv_wl, MountInv, MountTypeOK
  <2>4. wl' \in [Instances -> Partitions \union {Nobody}]
    BY DEF MountInv, MountTypeOK
  <2> QED
    BY <1>2, <1>3, <2>1, <2>2, <2>3, <2>4 DEF MountInv, MountTypeOK
<1>8. Paired'
  <2>1. \A n, l \in mounted_' : n.path = l.path \/ n.on = l.on => n = l
    BY <1>2 DEF MountInv, Paired
  <2>2. \A e, f \in s_fat_ctxs' : e.path = f.path \/ e.fat_drive = f.fat_drive => e = f
    BY <1>3 DEF MountInv, Paired
  <2>3. \A e \in s_fat_ctxs' : \E n \in mounted_' : n.path = e.path
    BY <1>2, <1>3 DEF MountInv, Paired
  <2>4. \A n \in mounted_' : \E e \in s_fat_ctxs' : e.path = n.path
    BY <1>2, <1>3 DEF MountInv, Paired
  <2>5. \A k \in Pdrvs : k \in UsedDrives' <=> \E e \in s_fat_ctxs' : e.fat_drive = k
    BY <1>3, <1>4 DEF MountInv, Paired
  <2> QED
    BY <2>1, <2>2, <2>3, <2>4, <2>5 DEF Paired
<1>9. Counted'
  <2>1. IsFiniteSet(s_fat_ctxs) /\ IsFiniteSet(mounted_) /\ IsFiniteSet(UsedDrives)
    BY UsedFinite DEF MountInv, MountTypeOK
  <2>2. Cardinality(s_fat_ctxs') = Cardinality(s_fat_ctxs) - 1
    BY <1>3, <2>1, FS_RemoveElement
  <2>3. Cardinality(mounted_') = Cardinality(mounted_) - 1
    BY <1>2, <2>1, FS_RemoveElement
  <2>4. Cardinality(UsedDrives') = Cardinality(UsedDrives) - 1
    BY <1>1, <1>4, <2>1, FS_RemoveElement
  <2> QED
    BY <2>2, <2>3, <2>4 DEF MountInv, Counted
<1>10. ASSUME NEW n \in mounted_', NEW e \in s_fat_ctxs', e.path = n.path
       PROVE  FatFs_'[e.fat_drive] = e.id /\ DriveOf(n, e.fat_drive)'
  <2>1. n \in mounted_ /\ n # m /\ e \in s_fat_ctxs /\ e # c /\ e.fat_drive \in Pdrvs /\ e.fat_drive # d
    BY <1>2, <1>3 DEF MountInv, MountTypeOK, MountCtx, Paired
  <2>2. FatFs_[e.fat_drive] = e.id /\ DriveOf(n, e.fat_drive)
    BY <1>10, <2>1 DEF MountInv, DrivesRight
  <2>3. impls'[e.fat_drive] = impls[e.fat_drive] /\ FatFs_'[e.fat_drive] = FatFs_[e.fat_drive]
    BY <1>5, <2>1
  <2>4. CASE n.kind = "wl"
    <3>1. n.handle \in Instances \ stray /\ wl[n.handle] = n.on /\ wl_handles[e.fat_drive] = n.handle
          /\ \A k \in Pdrvs : wl_handles[k] = n.handle => k = e.fat_drive
      BY <2>2, <2>4 DEF DriveOf
    <3>2. m.kind = "wl" => m.handle # n.handle
      BY <1>1, <2>1, <3>1 DEF DriveOf
    <3>3. wl'[n.handle] = n.on
      BY <3>1, <3>2 DEF MountInv, MountTypeOK
    <3>4. wl_handles'[e.fat_drive] = n.handle
      BY <1>5, <2>1, <3>1, <3>2
    <3>5. \A k \in Pdrvs : wl_handles'[k] = n.handle => k = e.fat_drive
      BY <1>6, <3>1, DriveNumbers
    <3> QED
      BY <1>2, <2>2, <2>3, <2>4, <3>1, <3>3, <3>4, <3>5 DEF DriveOf
  <2>5. CASE n.kind # "wl"
    BY <2>2, <2>3, <2>5 DEF DriveOf
  <2> QED
    BY <2>3, <2>2, <2>4, <2>5
<1>11. HandlesRight'
  <2>1. ASSUME NEW h \in Instances
        PROVE  wl'[h] # Nobody <=> h \in stray' \union {n.handle : n \in mounted_'}
    <3>1. wl[h] # Nobody <=> h \in stray \/ \E n \in mounted_ : n.handle = h
      BY DEF MountInv, HandlesRight
    <3>2. CASE m.kind = "wl" /\ h = m.handle
      <4>1. wl'[h] = Nobody /\ h \notin stray /\ wl[h] = m.on /\ m.on \in Partitions
        BY <1>1, <3>2 DEF DriveOf, MountInv, MountTypeOK
      <4>2. \A n \in mounted_ : n.handle = h => n = m
        <5> SUFFICES ASSUME NEW n \in mounted_, n.handle = h PROVE n = m
          OBVIOUS
        <5>1. n.kind = "wl" /\ wl[h] = n.on
          <6>1. \E e \in s_fat_ctxs : DriveOf(n, e.fat_drive)
            BY DriveFound
          <6> QED
            BY <6>1, DriveNumbers DEF DriveOf
        <5>2. n.on = m.on
          BY <4>1, <5>1
        <5>3. \A k, l \in mounted_ : k.on = l.on => k = l
          BY DEF MountInv, Paired
        <5> QED
          BY <5>2, <5>3
      <4> QED
        BY <1>2, <4>1, <4>2
    <3>3. CASE m.kind = "wl" /\ h # m.handle
      <4>1. wl'[h] = wl[h]
        BY <3>3 DEF MountInv, MountTypeOK
      <4> QED
        BY <1>2, <3>1, <3>3, <4>1
    <3>4. CASE m.kind # "wl"
      <4>1. m.handle # h /\ wl' = wl
        BY <1>1, <3>4, DriveNumbers DEF DriveOf
      <4> QED
        BY <1>2, <3>1, <4>1
    <3> QED
      BY <3>2, <3>3, <3>4
  <2>2. ASSUME NEW k \in Pdrvs, wl_handles'[k] # WL_INVALID_HANDLE PROVE wl'[wl_handles'[k]] # Nobody
    <3>1. wl_handles'[k] = wl_handles[k] /\ wl[wl_handles[k]] # Nobody
      BY <1>6, <2>2 DEF MountInv, HandlesRight
    <3>2. m.kind = "wl" => wl_handles'[k] # m.handle
      BY <1>1, DriveNumbers DEF ff_diskio_clear_pdrv_wl, DriveOf
    <3>3. wl \in [Instances -> Partitions \union {Nobody}] /\ wl_handles[k] \in Instances
      BY <2>2, <3>1 DEF MountInv, MountTypeOK
    <3>4. wl' = wl \/ (m.kind = "wl" /\ wl' = [wl EXCEPT ![m.handle] = Nobody])
      OBVIOUS
    <3> QED
      BY <3>1, <3>2, <3>3, <3>4
  <2> QED
    BY <2>1, <2>2 DEF HandlesRight
<1> QED
  BY <1>7, <1>8, <1>9, <1>10, <1>11 DEF MountInv, DrivesRight

(* The medium behind the drive of a mounted path is the one mounted there.  *)
LEMMA MediumIsMounted ==
  ASSUME MountInv, NEW m \in mounted_, NEW d, DriveOf(m, d)
  PROVE  MediumBehind(d) = m.on
<1>1. m.kind \in {"wl", "raw", "sd"}
  BY DEF MountInv, MountTypeOK, MountRec
<1> QED
  BY <1>1, DriveNumbers DEF DriveOf, MediumBehind

LEMMA WriteKeeps ==
  ASSUME MountInv, NEW m \in mounted_, DiskWrite(m)
  PROVE  MountInv'
<1>1. get_ldnumber(prepend_drive_to_path(m.path)) \in Pdrvs
      /\ MediumBehind(get_ldnumber(prepend_drive_to_path(m.path))) = m.on
  <2>1. PICK c \in s_fat_ctxs : c.fat_drive \in Pdrvs /\ DriveOf(m, c.fat_drive) /\ ContextOf(m.path) = c
    BY DriveFound
  <2> QED
    BY <2>1, DriveNumbers, MediumIsMounted DEF prepend_drive_to_path
<1>2. content' \in [Media_ -> Int] /\ acked' = content' /\ writes' \in Nat
  BY <1>1 DEF DiskWrite, MountInv, MountTypeOK, Spoilt
<1>3. UNCHANGED <<impls, wl_handles, raw_handles, s_fat_ctxs, FatFs_, wl, mounted_, stray, mounts>>
  BY DEF DiskWrite
<1> QED
  BY <1>2, <1>3 DEF MountInv, MountTypeOK, Paired, Counted, UsedDrives, DrivesRight, DriveOf, HandlesRight

LEMMA MountKeeps ==
  ASSUME MountInv, NEW d, NEW m, Placed(d, m), NEW tables, tables.impls = ff_diskio_register(d, m.kind),
         Registered(d, m, tables) \/ \E failed \in {"register", "mount"} : Undone(d, m, failed)
  PROVE  MountInv'
  BY MountWorks, MountFails

LEMMA MountFlashKeeps ==
  ASSUME MountInv, NEW base \in Paths, NEW p \in Partitions, MountFlash(base, p)
  PROVE  MountInv'
<1>1. PICK h \in Instances :
        /\ wl[h] = Nobody /\ wl' = [wl EXCEPT ![h] = p]
        /\ \E d \in {ff_diskio_get_drive} :
             IF d = NoDrive
             THEN stray' = stray \union {h}
                  /\ UNCHANGED <<impls, wl_handles, raw_handles, s_fat_ctxs, FatFs_, mounted_>>
             ELSE RegisterAndMount(d, [kind |-> "wl", path |-> base, on |-> p, handle |-> h],
                                   ff_diskio_register_wl_partition(d, h))
  BY DEF MountFlash
<1>2. BeginMount /\ UnusedDrive(base, p)
  BY DEF MountFlash
<1>3. h # WL_INVALID_HANDLE /\ p # Nobody
  BY DriveNumbers, MountConstants
<1> DEFINE d == ff_diskio_get_drive
           m == [kind |-> "wl", path |-> base, on |-> p, handle |-> h]
           tables == ff_diskio_register_wl_partition(d, h)
<1>4. CASE d = NoDrive
  <2>1. /\ stray' = stray \union {h} /\ wl' = [wl EXCEPT ![h] = p]
        /\ UNCHANGED <<impls, wl_handles, raw_handles, s_fat_ctxs, FatFs_, mounted_>>
        /\ mounts' = mounts + 1 /\ UNCHANGED <<content, acked, writes>>
    BY <1>1, <1>2, <1>4 DEF BeginMount, KeptAt
  <2>2. MountTypeOK'
    BY <2>1 DEF MountInv, MountTypeOK
  <2>3. Paired' /\ Counted'
    BY <2>1 DEF MountInv, Paired, Counted, UsedDrives
  <2>4. ASSUME NEW n \in mounted_, NEW c \in s_fat_ctxs, DriveOf(n, c.fat_drive)
        PROVE  DriveOf(n, c.fat_drive)'
    <3>1. n.kind = "wl" => n.handle \in Instances /\ wl[n.handle] = n.on /\ n.on \in Partitions /\ n.handle # h
      BY <1>1, <2>4, MountConstants DEF DriveOf
    <3>2. n.kind = "wl" => wl'[n.handle] = n.on
      BY <2>1, <3>1 DEF MountInv, MountTypeOK
    <3> QED
      BY <2>1, <2>4, <3>1, <3>2 DEF DriveOf
  <2>5. DrivesRight'
    BY <2>1, <2>4 DEF MountInv, DrivesRight
  <2>6. \A k \in Instances : wl'[k] # Nobody <=> wl[k] # Nobody \/ k = h
    BY <1>3, <2>1 DEF MountInv, MountTypeOK
  <2>7. \A k \in Instances : wl'[k] # Nobody <=> k \in stray' \union {n.handle : n \in mounted_'}
    BY <2>1, <2>6 DEF MountInv, HandlesRight
  <2>8. \A k \in Pdrvs : wl_handles'[k] # WL_INVALID_HANDLE => wl'[wl_handles'[k]] # Nobody
    BY <2>1, <2>6 DEF MountInv, MountTypeOK, HandlesRight
  <2> QED
    BY <2>2, <2>3, <2>5, <2>7, <2>8 DEF MountInv, HandlesRight
<1>5. CASE d # NoDrive
  <2>1. RegisterAndMount(d, m, tables)
    BY <1>1, <1>5
  <2>2. d \in Pdrvs /\ impls[d] = NoImpl
    <3> DEFINE S == {k \in Pdrvs : impls[k] = NoImpl}
    <3>1. S \subseteq Nat /\ S # {}
      BY <1>5, DriveNumbers, FirstIs DEF ff_diskio_get_drive
    <3> QED
      BY <3>1, FirstIs DEF ff_diskio_get_drive
  <2>3. tables.impls = ff_diskio_register(d, "wl") /\ tables.wl = [wl_handles EXCEPT ![d] = h] /\ tables.raw = raw_handles
    BY DEF ff_diskio_register_wl_partition
  <2>4. m.kind = "wl" /\ m.path = base /\ m.on = p /\ m.handle = h /\ m \in MountRec
    BY DEF MountRec, Media_
  <2> HIDE DEF m, d, tables
  <2>5. Placed(d, m)
    BY <1>1, <1>2, <2>1, <2>2, <2>3, <2>4 DEF Placed, RegisterAndMount, BeginMount, KeptAt
  <2> QED
    BY <2>1, <2>3, <2>4, <2>5, MountKeeps DEF RegisterAndMount
<1> QED
  BY <1>4, <1>5

LEMMA MountRawKeeps ==
  ASSUME MountInv, NEW base \in Paths, NEW p \in Partitions, MountRaw(base, p)
  PROVE  MountInv'
<1> DEFINE d == ff_diskio_get_drive
           m == [kind |-> "raw", path |-> base, on |-> p, handle |-> WL_INVALID_HANDLE]
           tables == ff_diskio_register_raw_partition(d, p)
<1>1. /\ BeginMount /\ UnusedDrive(base, p) /\ d # NoDrive /\ NoOldPlace(p, d)
      /\ RegisterAndMount(d, m, tables) /\ UNCHANGED wl
  BY DEF MountRaw
<1>2. d \in Pdrvs /\ impls[d] = NoImpl
  <2> DEFINE S == {k \in Pdrvs : impls[k] = NoImpl}
  <2>1. S \subseteq Nat /\ S # {}
    BY <1>1, DriveNumbers, FirstIs DEF ff_diskio_get_drive
  <2> QED
    BY <2>1, FirstIs DEF ff_diskio_get_drive
<1>3. tables.impls = ff_diskio_register(d, "raw") /\ tables.wl = wl_handles /\ tables.raw = [raw_handles EXCEPT ![d] = p]
  BY DEF ff_diskio_register_raw_partition
<1>4. m.kind = "raw" /\ m.path = base /\ m.on = p /\ m.handle = WL_INVALID_HANDLE /\ m \in MountRec
  BY DEF MountRec, Media_
<1> HIDE DEF m, d, tables
<1>5. Placed(d, m)
  BY <1>1, <1>2, <1>3, <1>4 DEF Placed, RegisterAndMount, BeginMount, KeptAt, NoOldPlace
<1> QED
  BY <1>1, <1>3, <1>4, <1>5, MountKeeps DEF RegisterAndMount

LEMMA MountSdKeeps ==
  ASSUME MountInv, NEW base \in Paths, MountSd(base)
  PROVE  MountInv'
<1> DEFINE m == [kind |-> "sd", path |-> base, on |-> Card, handle |-> WL_INVALID_HANDLE]
           tables == sd_spi_diskio_register(0)
<1>1. /\ BeginMount /\ UnusedDrive(base, Card) /\ impls[0] = NoImpl
      /\ RegisterAndMount(0, m, tables) /\ UNCHANGED wl
  BY DEF MountSd
<1>2. tables.impls = ff_diskio_register(0, "sd") /\ tables.wl = wl_handles /\ tables.raw = raw_handles
  BY DEF sd_spi_diskio_register
<1>3. m.kind = "sd" /\ m.path = base /\ m.on = Card /\ m.handle = WL_INVALID_HANDLE /\ m \in MountRec
  BY DEF MountRec, Media_
<1> HIDE DEF m, tables
<1>4. Placed(0, m)
  BY <1>1, <1>2, <1>3, DriveNumbers DEF Placed, RegisterAndMount, BeginMount, KeptAt
<1> QED
  BY <1>1, <1>2, <1>3, <1>4, MountKeeps DEF RegisterAndMount

LEMMA UnmountKeeps ==
  ASSUME MountInv, NEW m \in mounted_, UnmountFlash(m) \/ UnmountRaw(m) \/ UnmountSd(m)
  PROVE  MountInv'
<1>1. PICK c \in s_fat_ctxs :
        /\ c.path = m.path /\ c.fat_drive \in Pdrvs /\ DriveOf(m, c.fat_drive)
        /\ m.kind = "wl" => ff_diskio_get_pdrv_wl(m.handle) = c.fat_drive
        /\ m.kind = "raw" => ff_diskio_get_pdrv_raw(m.on) = c.fat_drive
  BY DriveFound
<1>2. ReleaseAll(c.fat_drive, m)
  BY <1>1 DEF UnmountFlash, UnmountRaw, UnmountSd, DriveOf
<1>3. UNCHANGED raw_handles
  BY DEF UnmountFlash, UnmountRaw, UnmountSd
<1>4. IF m.kind = "wl"
      THEN wl_handles' = ff_diskio_clear_pdrv_wl(m.handle) /\ wl' = [wl EXCEPT ![m.handle] = Nobody]
      ELSE UNCHANGED <<wl_handles, wl>>
  BY DEF UnmountFlash, UnmountRaw, UnmountSd
<1> QED
  BY <1>1, <1>2, <1>3, <1>4, MountReleased

LEMMA MountStepKeeps == MountInv /\ [MountNext]_mountVars => MountInv'
<1> SUFFICES ASSUME MountInv, [MountNext]_mountVars PROVE MountInv'
  OBVIOUS
<1>1. CASE UNCHANGED mountVars
  BY <1>1 DEF mountVars, MountInv, MountTypeOK, Paired, Counted, UsedDrives, DrivesRight, DriveOf, HandlesRight
<1>2. CASE MountNext
  BY <1>2, MountFlashKeeps, MountRawKeeps, MountSdKeeps, UnmountKeeps, WriteKeeps DEF MountNext
<1> QED
  BY <1>1, <1>2

LEMMA MountInitially == MountInit => MountInv
<1> SUFFICES ASSUME MountInit PROVE MountInv
  OBVIOUS
<1>1. UsedDrives = {}
  BY DEF MountInit, UsedDrives
<1>2. MountTypeOK
  BY FS_EmptySet DEF MountInit, MountTypeOK, WL_INVALID_HANDLE
<1>3. Paired /\ DrivesRight /\ HandlesRight
  BY <1>1 DEF MountInit, Paired, DrivesRight, HandlesRight
<1> QED
  BY <1>1, <1>2, <1>3 DEF MountInit, MountInv, Counted

LEMMA MountInvSuffices == MountInv => MountsApart
<1> SUFFICES ASSUME MountInv PROVE MountsApart
  OBVIOUS
<1>1. ASSUME NEW m \in mounted_
      PROVE  \E c \in s_fat_ctxs : \E d \in {get_ldnumber(c.fat_drive)} \ {-1} :
               c.path = m.path /\ FatFs_[d] = c.id /\ impls[d] = m.kind /\ MediumBehind(d) = m.on
  <2>1. PICK c \in s_fat_ctxs :
          c.path = m.path /\ c.fat_drive \in Pdrvs /\ FatFs_[c.fat_drive] = c.id /\ DriveOf(m, c.fat_drive)
    BY DriveFound
  <2>2. get_ldnumber(c.fat_drive) = c.fat_drive /\ c.fat_drive # -1
    BY <2>1, DriveNumbers
  <2>3. impls[c.fat_drive] = m.kind /\ MediumBehind(c.fat_drive) = m.on
    BY <2>1, MediumIsMounted DEF DriveOf
  <2> QED
    BY <2>1, <2>2, <2>3
<1> QED
  BY <1>1 DEF MountsApart, MountInv, MountTypeOK, Counted, UsedDrives, HandlesRight

(* Each path that is mounted leads to the medium mounted there and changes   *)
(* no other, for up to the ten drives a digit can name, any paths and        *)
(* partitions, and whatever failed and was unmounted before.                 *)
THEOREM MountsStayApart == MountSpec => []MountsApart
<1>1. MountInit => MountInv
  BY MountInitially
<1>2. MountInv /\ [MountNext]_mountVars => MountInv'
  BY MountStepKeeps
<1>3. MountInv => MountsApart
  BY MountInvSuffices
<1> QED
  BY <1>1, <1>2, <1>3, PTL DEF MountSpec

-----------------------------------------------------------------------------
(* The times of files: two words of an entry, from the clock to stat(). *)

TimesSpec == TimesInit /\ [][TimesNext]_timesVars

MomentSet == [year : Int, mon : 1..12, mday : 1..31, hour : 0..23, min : 0..59, sec : 0..59]

LEMMA MomentsEqual ==
  ASSUME NEW f \in MomentSet, NEW g \in MomentSet,
         f.year = g.year, f.mon = g.mon, f.mday = g.mday, f.hour = g.hour, f.min = g.min, f.sec = g.sec
  PROVE  f = g
BY DEF MomentSet

(* The stamp of a moment is read as that moment, rounded down. *)
LEMMA StampRead ==
  ASSUME NEW m, IsMoment(m)
  PROVE  /\ MomentOf(get_fattime(m)) = Shown(m)
         /\ get_fattime(m)[1] # 0
<1> DEFINE y == (IF m.year < 1980 THEN 0 ELSE m.year - 1980) % 128
<1>1. /\ m.year \in Int /\ m.mon \in 1 .. 12 /\ m.mday \in 1 .. 31
      /\ m.hour \in 0 .. 23 /\ m.min \in 0 .. 59 /\ m.sec \in 0 .. 59
  BY DEF IsMoment
<1>2. y \in 0 .. 127 /\ 1980 + y = ShownYear(m)
  BY <1>1 DEF ShownYear
<1> HIDE DEF y
<1>3. get_fattime(m) = <<y * 512 + m.mon * 32 + m.mday, (m.hour * 2048 + m.min * 32 + m.sec \div 2) % 65536>>
  BY DEF get_fattime, DateWord, fat_date, fat_time, y
<1>4. get_fattime(m)[1] = y * 512 + m.mon * 32 + m.mday
  BY <1>3
<1>5. get_fattime(m)[2] = (m.hour * 2048 + m.min * 32 + m.sec \div 2) % 65536
  BY <1>3
<1>6. /\ get_fattime(m)[1] \div 512 = y /\ (get_fattime(m)[1] \div 32) % 16 = m.mon
      /\ get_fattime(m)[1] % 32 = m.mday /\ get_fattime(m)[1] # 0
  <2> DEFINE mon == m.mon
             mday == m.mday
             d == get_fattime(m)[1]
  <2>1. mon \in 1 .. 12 /\ mday \in 1 .. 31 /\ d = y * 512 + mon * 32 + mday
    BY <1>1, <1>4
  <2> HIDE DEF mon, mday, d
  <2>2. d \div 512 = y /\ d # 0
    BY <1>2, <2>1
  <2>3. d \div 32 = 16 * y + mon /\ d % 32 = mday
    BY <1>2, <2>1
  <2>4. (16 * y + mon) % 16 = mon
    BY <1>2, <2>1
  <2> QED
    BY <2>2, <2>3, <2>4 DEF mon, mday, d
<1>7. /\ get_fattime(m)[2] \div 2048 = m.hour /\ (get_fattime(m)[2] \div 32) % 64 = m.min
      /\ 2 * (get_fattime(m)[2] % 32) = 2 * (m.sec \div 2)
  <2> DEFINE hour == m.hour
             min == m.min
             half == m.sec \div 2
             t == get_fattime(m)[2]
  <2>1. hour \in 0 .. 23 /\ min \in 0 .. 59 /\ half \in 0 .. 29 /\ t = (hour * 2048 + min * 32 + half) % 65536
    BY <1>1, <1>5
  <2> HIDE DEF hour, min, half, t
  <2>2. t = hour * 2048 + min * 32 + half
    BY <2>1
  <2>3. t \div 2048 = hour
    BY <2>1, <2>2
  <2>4. t \div 32 = 64 * hour + min /\ t % 32 = half
    BY <2>1, <2>2
  <2>5. (64 * hour + min) % 64 = min
    BY <2>1
  <2> QED
    BY <2>3, <2>4, <2>5 DEF hour, min, half, t
<1> DEFINE st == get_fattime(m)
<1> HIDE DEF st
<1>8. MomentOf(st) = [year |-> st[1] \div 512 + 1980, mon |-> (st[1] \div 32) % 16, mday |-> st[1] % 32,
                      hour |-> st[2] \div 2048, min |-> (st[2] \div 32) % 64, sec |-> 2 * (st[2] % 32)]
  BY DEF MomentOf
<1>9. st[1] \div 512 + 1980 = ShownYear(m)
  BY <1>2, <1>6 DEF st
<1>10. MomentOf(st) = [year |-> ShownYear(m), mon |-> m.mon, mday |-> m.mday,
                       hour |-> m.hour, min |-> m.min, sec |-> 2 * (m.sec \div 2)]
  BY <1>8, <1>9, <1>6, <1>7 DEF st
<1>11. Shown(m) = [year |-> ShownYear(m), mon |-> m.mon, mday |-> m.mday,
                   hour |-> m.hour, min |-> m.min, sec |-> 2 * (m.sec \div 2)]
  <2> DEFINE sec == 2 * (m.sec \div 2)
             year == ShownYear(m)
             f == [m EXCEPT !.year = year, !.sec = sec]
             g == [year |-> year, mon |-> m.mon, mday |-> m.mday, hour |-> m.hour, min |-> m.min, sec |-> sec]
  <2>1. Shown(m) = f
    BY DEF Shown
  <2>2. year \in Int /\ sec \in 0 .. 59 /\ m \in MomentSet
    BY <1>1, <1>2 DEF IsMoment, MomentSet
  <2> HIDE DEF sec, year
  <2>3. /\ f \in MomentSet
        /\ f.year = year /\ f.mon = m.mon /\ f.mday = m.mday /\ f.hour = m.hour /\ f.min = m.min /\ f.sec = sec
    BY <2>2 DEF MomentSet
  <2>4. /\ g \in MomentSet
        /\ g.year = year /\ g.mon = m.mon /\ g.mday = m.mday /\ g.hour = m.hour /\ g.min = m.min /\ g.sec = sec
    BY <2>2, <1>1 DEF MomentSet
  <2> HIDE DEF f, g
  <2>5. f = g
    BY <2>3, <2>4, MomentsEqual
  <2> QED
    BY <2>1, <2>5 DEF g, sec, year
<1> QED
  BY <1>6, <1>10, <1>11 DEF st

LEMMA ShownMoment == ASSUME NEW m, IsMoment(m) PROVE IsMoment(Shown(m))
<1>1. m.year \in Int /\ m.sec \in 0 .. 59
  BY DEF IsMoment
<1>2. ShownYear(m) \in Int /\ 2 * (m.sec \div 2) \in 0 .. 59
  BY <1>1 DEF ShownYear
<1> QED
  BY <1>2 DEF IsMoment, Shown

(* Later() is the order of the fields, the first that differs decides. *)
Lex(a, b) ==
  \/ a.year > b.year
  \/ a.year = b.year /\ a.mon > b.mon
  \/ a.year = b.year /\ a.mon = b.mon /\ a.mday > b.mday
  \/ a.year = b.year /\ a.mon = b.mon /\ a.mday = b.mday /\ a.hour > b.hour
  \/ a.year = b.year /\ a.mon = b.mon /\ a.mday = b.mday /\ a.hour = b.hour /\ a.min > b.min
  \/ /\ a.year = b.year /\ a.mon = b.mon /\ a.mday = b.mday /\ a.hour = b.hour /\ a.min = b.min
     /\ a.sec > b.sec

LEMMA LaterIsLex == ASSUME NEW a, NEW b, Later(a, b) PROVE Lex(a, b)
<1> DEFINE At(x) == <<x.year, x.mon, x.mday, x.hour, x.min, x.sec>>
           first == {i \in 1 .. 6 : At(a)[i] # At(b)[i]}
<1>1. PICK i \in first : (\A j \in first : i <= j) /\ At(a)[i] > At(b)[i]
  BY DEF Later
<1>2. \A j \in 1 .. 6 : j < i => At(a)[j] = At(b)[j]
  BY <1>1
<1>3. \A x : /\ At(x)[1] = x.year /\ At(x)[2] = x.mon /\ At(x)[3] = x.mday
             /\ At(x)[4] = x.hour /\ At(x)[5] = x.min /\ At(x)[6] = x.sec
  OBVIOUS
<1> DEFINE p == At(a)
           q == At(b)
<1> HIDE DEF p, q
<1>4. i \in 1 .. 6 /\ p[i] > q[i] /\ \A j \in 1 .. 6 : j < i => p[j] = q[j]
  BY <1>1, <1>2 DEF p, q
<1>5. /\ p[1] = a.year /\ p[2] = a.mon /\ p[3] = a.mday /\ p[4] = a.hour /\ p[5] = a.min /\ p[6] = a.sec
      /\ q[1] = b.year /\ q[2] = b.mon /\ q[3] = b.mday /\ q[4] = b.hour /\ q[5] = b.min /\ q[6] = b.sec
  BY <1>3 DEF p, q
<1> HIDE DEF first
<1>6. i = 1 \/ i = 2 \/ i = 3 \/ i = 4 \/ i = 5 \/ i = 6
  BY <1>4
<1> QED
  BY <1>4, <1>5, <1>6 DEF Lex

(* Rounding keeps the order. *)
LEMMA RoundingKeepsOrder ==
  ASSUME NEW a, NEW b, IsMoment(a), IsMoment(b), InRange(a), InRange(b), Later(a, b)
  PROVE  ~Later(Shown(b), Shown(a))
<1> SUFFICES ASSUME Later(Shown(b), Shown(a)) PROVE FALSE
  OBVIOUS
<1>1. Lex(a, b) /\ Lex(Shown(b), Shown(a))
  BY LaterIsLex
<1>2. ShownYear(a) = a.year /\ ShownYear(b) = b.year
  BY DEF ShownYear, InRange
<1>3. /\ Shown(a).year = a.year /\ Shown(a).mon = a.mon /\ Shown(a).mday = a.mday
      /\ Shown(a).hour = a.hour /\ Shown(a).min = a.min /\ Shown(a).sec = 2 * (a.sec \div 2)
      /\ Shown(b).year = b.year /\ Shown(b).mon = b.mon /\ Shown(b).mday = b.mday
      /\ Shown(b).hour = b.hour /\ Shown(b).min = b.min /\ Shown(b).sec = 2 * (b.sec \div 2)
  BY <1>2 DEF Shown, IsMoment
<1>4. /\ a.year \in Int /\ a.mon \in Int /\ a.mday \in Int /\ a.hour \in Int /\ a.min \in Int /\ a.sec \in Int
      /\ b.year \in Int /\ b.mon \in Int /\ b.mday \in Int /\ b.hour \in Int /\ b.min \in Int /\ b.sec \in Int
  BY DEF IsMoment
<1>5. b.sec < a.sec => ~(2 * (b.sec \div 2) > 2 * (a.sec \div 2))
  BY <1>4
<1> QED
  BY <1>1, <1>3, <1>4, <1>5 DEF Lex

-----------------------------------------------------------------------------
Stamps == {get_fattime(m) : m \in Moments}
TimedEntry == [dir : BOOLEAN, crt : Stamps, mod : Stamps]

(* Every time on the disk is the stamp of a moment, and the one last set.   *)
TimesInv ==
  /\ clock \in Moments
  /\ DOMAIN meant = Exist /\ DOMAIN opened \subseteq Exist
  /\ \A n \in Exist : /\ meant[n] \in Moments /\ entries[n] \in TimedEntry
                      /\ entries[n].mod = get_fattime(meant[n])

LEMMA LessFacts ==
  ASSUME NEW f, NEW x
  PROVE  DOMAIN Less(f, x) = DOMAIN f \ {x} /\ \A y \in DOMAIN f \ {x} : Less(f, x)[y] = f[y]
BY DEF Less

(* An object's entry is written with the stamp of the moment it is meant to have. *)
LEMMA StampKeeps ==
  ASSUME TimesInv, NEW n, NEW m \in Moments, NEW e \in TimedEntry, e.mod = get_fattime(m),
         entries' = PutFor(entries, n, e), meant' = PutFor(meant, n, m), clock' \in Moments,
         DOMAIN opened' \subseteq Exist \union {n}
  PROVE  TimesInv'
<1> DEFINE after == PutFor(entries, n, e)
           means == PutFor(meant, n, m)
<1>1. /\ DOMAIN after = DOMAIN entries \union {n} /\ after[n] = e
      /\ \A x \in DOMAIN entries : x # n => after[x] = entries[x]
  BY DEF PutFor
<1>2. /\ DOMAIN means = DOMAIN meant \union {n} /\ means[n] = m
      /\ \A x \in DOMAIN meant : x # n => means[x] = meant[x]
  BY DEF PutFor
<1>3. entries' = after /\ meant' = means
  OBVIOUS
<1> HIDE DEF after, means
<1>4. Exist' = Exist \union {n} /\ DOMAIN meant' = Exist'
  BY <1>1, <1>2, <1>3 DEF TimesInv, Exist
<1>5. ASSUME NEW x \in Exist'
      PROVE  meant'[x] \in Moments /\ entries'[x] \in TimedEntry /\ entries'[x].mod = get_fattime(meant'[x])
  <2>1. CASE x = n
    BY <2>1, <1>1, <1>2, <1>3
  <2>2. CASE x # n
    BY <1>1, <1>2, <1>3, <1>4, <1>5, <2>2 DEF TimesInv, Exist
  <2> QED
    BY <2>1, <2>2
<1>6. DOMAIN opened' \subseteq Exist'
  BY <1>4
<1>7. TimedEntry' = TimedEntry /\ Moments' = Moments
  BY DEF TimedEntry, Stamps
<1> QED
  BY <1>4, <1>5, <1>6, <1>7 DEF TimesInv

LEMMA EntryKept ==
  ASSUME NEW e \in TimedEntry, NEW s \in Stamps
  PROVE  [e EXCEPT !.mod = s] \in TimedEntry /\ [e EXCEPT !.mod = s].mod = s
BY DEF TimedEntry

LEMMA StampedIs ==
  ASSUME NEW m \in Moments
  PROVE  get_fattime(m) \in Stamps /\ IsMoment(m) /\ get_fattime(m)[1] # 0
BY TimesConstants, StampRead DEF Stamps

LEMMA NewEntry ==
  ASSUME NEW m \in Moments, NEW d \in BOOLEAN
  PROVE  LET e == [dir |-> d, crt |-> get_fattime(m), mod |-> get_fattime(m)]
         IN e \in TimedEntry /\ e.mod = get_fattime(m)
BY StampedIs DEF TimedEntry

LEMMA SyncKeeps ==
  ASSUME TimesInv, NEW n, n \in DOMAIN opened, TimedSync(n), clock' = clock, DOMAIN opened' \subseteq DOMAIN opened
  PROVE  TimesInv'
<1>1. CASE opened[n]
  <2> DEFINE e == [entries[n] EXCEPT !.mod = get_fattime(clock)]
  <2>1. n \in Exist /\ entries[n] \in TimedEntry /\ clock \in Moments /\ DOMAIN opened \subseteq Exist
    BY DEF TimesInv
  <2>2. e \in TimedEntry /\ e.mod = get_fattime(clock)
    BY <2>1, EntryKept, StampedIs
  <2>3. entries' = PutFor(entries, n, e) /\ meant' = PutFor(meant, n, clock)
    BY <1>1 DEF TimedSync, Stamped
  <2> HIDE DEF e
  <2> QED
    BY <2>1, <2>2, <2>3, StampKeeps
<1>2. CASE ~opened[n]
  BY <1>2 DEF TimedSync, TimesInv, Exist, TimedEntry, Stamps
<1> QED
  BY <1>1, <1>2

LEMMA CreateKeeps ==
  ASSUME TimesInv, NEW n, TimedCreate(n) \/ TimedMkdir(n)
  PROVE  TimesInv'
<1>1. PICK d \in BOOLEAN : Stamped(n, [dir |-> d, crt |-> get_fattime(clock), mod |-> get_fattime(clock)])
  BY DEF TimedCreate, TimedMkdir
<1> DEFINE e == [dir |-> d, crt |-> get_fattime(clock), mod |-> get_fattime(clock)]
<1>2. clock \in Moments /\ clock' = clock /\ DOMAIN opened \subseteq Exist
  BY DEF TimedCreate, TimedMkdir, TimesInv
<1>3. e \in TimedEntry /\ e.mod = get_fattime(clock)
  BY <1>2, NewEntry
<1>4. entries' = PutFor(entries, n, e) /\ meant' = PutFor(meant, n, clock)
  BY <1>1 DEF Stamped
<1>5. DOMAIN opened' \subseteq Exist \union {n}
  BY <1>2 DEF TimedCreate, TimedMkdir, PutFor
<1> HIDE DEF e
<1> QED
  BY <1>2, <1>3, <1>4, <1>5, StampKeeps

LEMMA UtimeKeeps ==
  ASSUME TimesInv, NEW n, NEW m \in Moments, TimedUtime(n, m)
  PROVE  TimesInv'
<1>1. m.year \in Int /\ m.year >= 1980
  BY StampedIs DEF TimedUtime, IsMoment
<1>2. <<DateWord(fat_date(m.year - 1980, m)), fat_time(m)>> = get_fattime(m)
  BY <1>1 DEF get_fattime
<1> DEFINE e == [entries[n] EXCEPT !.mod = get_fattime(m)]
<1>3. n \in Exist /\ entries[n] \in TimedEntry /\ DOMAIN opened \subseteq Exist /\ clock' \in Moments /\ opened' = opened
  BY DEF TimedUtime, TimesInv
<1>4. e \in TimedEntry /\ e.mod = get_fattime(m)
  BY <1>3, EntryKept, StampedIs
<1>5. entries' = [entries EXCEPT ![n] = e] /\ meant' = PutFor(meant, n, m)
  <2> DEFINE st == <<DateWord(fat_date(m.year - 1980, m)), fat_time(m)>>
  <2>1. st = get_fattime(m) /\ st[1] # 0
    BY <1>2, StampedIs
  <2>2. entries' = [entries EXCEPT ![n] = f_utime(@, st)] /\ meant' = PutFor(meant, n, m)
    BY DEF TimedUtime
  <2> HIDE DEF st
  <2>3. f_utime(entries[n], st) = e
    BY <2>1 DEF f_utime
  <2> HIDE DEF e
  <2> QED
    BY <2>2, <2>3
<1> HIDE DEF e
<1>6. entries' = PutFor(entries, n, e)
  BY <1>3, <1>5 DEF PutFor, Exist
<1> QED
  BY <1>3, <1>4, <1>5, <1>6, StampKeeps

(* The entry goes under its new name with the moment it stands for. *)
LEMMA RenameKeeps ==
  ASSUME TimesInv, NEW n, NEW to, TimedRename(n, to)
  PROVE  TimesInv'
<1> DEFINE fewer == Less(entries, n)
           means == Less(meant, n)
<1>1. /\ n \in Exist /\ to \notin Exist /\ n \notin DOMAIN opened
      /\ entries' = PutFor(fewer, to, entries[n]) /\ meant' = PutFor(means, to, meant[n])
      /\ clock' = clock /\ opened' = opened
  BY DEF TimedRename
<1>2. DOMAIN fewer = Exist \ {n} /\ \A x \in Exist \ {n} : fewer[x] = entries[x]
  BY LessFacts DEF Exist
<1>3. DOMAIN means = Exist \ {n} /\ \A x \in Exist \ {n} : means[x] = meant[x]
  BY LessFacts DEF TimesInv
<1> HIDE DEF fewer, means
<1>4. /\ DOMAIN entries' = (Exist \ {n}) \union {to} /\ entries'[to] = entries[n]
      /\ \A x \in Exist \ {n} : entries'[x] = entries[x]
  BY <1>1, <1>2 DEF PutFor
<1>5. /\ DOMAIN meant' = (Exist \ {n}) \union {to} /\ meant'[to] = meant[n]
      /\ \A x \in Exist \ {n} : meant'[x] = meant[x]
  BY <1>1, <1>3 DEF PutFor
<1>6. DOMAIN opened' \subseteq Exist'
  BY <1>1, <1>4 DEF TimesInv, Exist
<1>7. ASSUME NEW x \in Exist'
      PROVE  meant'[x] \in Moments /\ entries'[x] \in TimedEntry /\ entries'[x].mod = get_fattime(meant'[x])
  <2>1. CASE x = to
    BY <2>1, <1>1, <1>4, <1>5 DEF TimesInv
  <2>2. CASE x # to
    <3>1. x \in Exist \ {n}
      BY <1>4, <1>7, <2>2 DEF Exist
    <3> QED
      BY <3>1, <1>4, <1>5 DEF TimesInv
  <2> QED
    BY <2>1, <2>2
<1>8. TimedEntry' = TimedEntry /\ Moments' = Moments
  BY DEF TimedEntry, Stamps
<1>9. DOMAIN meant' = Exist' /\ clock' \in Moments
  BY <1>1, <1>4, <1>5 DEF TimesInv, Exist
<1> QED
  BY <1>6, <1>7, <1>8, <1>9 DEF TimesInv

(* Nothing is written: files are opened and written to, the clock goes on or starts again. *)
LEMMA NothingStamped ==
  ASSUME TimesInv, UNCHANGED <<entries, meant>>, clock' \in Moments, DOMAIN opened' \subseteq Exist
  PROVE  TimesInv'
BY DEF TimesInv, Exist, TimedEntry, Stamps

LEMMA TimesStepKeeps == TimesInv /\ [TimesNext]_timesVars => TimesInv'
<1> SUFFICES ASSUME TimesInv, [TimesNext]_timesVars PROVE TimesInv'
  OBVIOUS
<1>0. clock \in Moments /\ DOMAIN opened \subseteq Exist
  BY DEF TimesInv
<1>1. ASSUME NEW n \in TimedNames, TimedCreate(n) \/ TimedMkdir(n) PROVE TimesInv'
  BY <1>1, CreateKeeps
<1>2. ASSUME NEW n \in TimedNames, TimedOpen(n) PROVE TimesInv'
  <2>1. DOMAIN opened' \subseteq Exist
    BY <1>0, <1>2 DEF TimedOpen, PutFor
  <2> QED
    BY <1>0, <1>2, <2>1, NothingStamped DEF TimedOpen
<1>3. ASSUME NEW n \in TimedNames, TimedWrite(n) PROVE TimesInv'
  BY <1>0, <1>3, NothingStamped DEF TimedWrite
<1>4. ASSUME NEW n \in TimedNames, TimedFsync(n) PROVE TimesInv'
  BY <1>4, SyncKeeps DEF TimedFsync
<1>5. ASSUME NEW n \in TimedNames, TimedClose(n) PROVE TimesInv'
  BY <1>5, SyncKeeps, LessFacts DEF TimedClose
<1>6. ASSUME NEW n \in TimedNames, NEW to \in TimedNames, TimedRename(n, to) PROVE TimesInv'
  BY <1>6, RenameKeeps
<1>7. ASSUME NEW n \in TimedNames, NEW m \in Moments, TimedUtime(n, m) PROVE TimesInv'
  BY <1>7, UtimeKeeps
<1>8. ASSUME ClockRestarts PROVE TimesInv'
  <2>1. DOMAIN NoneMade = {}
    BY DEF NoneMade
  <2> QED
    BY <1>8, <2>1, NothingStamped DEF ClockRestarts
<1>9. ASSUME TimeGoesOn PROVE TimesInv'
  BY <1>0, <1>9, NothingStamped DEF TimeGoesOn
<1>10. CASE UNCHANGED timesVars
  BY <1>0, <1>10, NothingStamped DEF timesVars
<1> QED
  BY <1>1, <1>2, <1>3, <1>4, <1>5, <1>6, <1>7, <1>8, <1>9, <1>10 DEF TimesNext

LEMMA TimesInvSuffices == TimesInv => TimesRight
<1> SUFFICES ASSUME TimesInv PROVE TimesRight
  OBVIOUS
<1>1. ASSUME NEW n \in Exist
      PROVE  /\ IsMoment(meant[n]) /\ MomentOf(entries[n].mod) = Shown(meant[n])
             /\ IsMoment(MomentOf(entries[n].mod)) /\ IsMoment(MomentOf(entries[n].crt))
  <2>1. IsMoment(meant[n]) /\ entries[n].mod = get_fattime(meant[n]) /\ entries[n].crt \in Stamps
    BY <1>1, StampedIs DEF TimesInv, TimedEntry
  <2>2. PICK m \in Moments : entries[n].crt = get_fattime(m)
    BY <2>1 DEF Stamps
  <2> QED
    BY <2>1, <2>2, StampedIs, StampRead, ShownMoment
<1>2. ASSUME NEW n \in Exist, NEW o \in Exist, InRange(meant[n]), InRange(meant[o]), Later(meant[n], meant[o])
      PROVE  ~Later(MomentOf(entries[o].mod), MomentOf(entries[n].mod))
  BY <1>1, <1>2, RoundingKeepsOrder
<1> QED
  BY <1>1, <1>2 DEF TimesRight

(* stat() shows of every file the moment it was last stamped with.          *)
THEOREM TimesShownTruly == TimesSpec => []TimesRight
<1>1. TimesInit => TimesInv
  BY DEF TimesInit, TimesInv, NoneMade, Exist
<1> QED
  BY <1>1, TimesStepKeeps, TimesInvSuffices, PTL DEF TimesSpec
=============================================================================
