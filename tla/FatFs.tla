------------------------------- MODULE FatFs -------------------------------
(***************************************************************************)
(* Sequences of calls on a FAT volume: what the caller gets, what is on    *)
(* the disk.  One disk operation may fail anywhere in a call, and the      *)
(* power may go after any write.  Calls do not overlap (lock_volume()).    *)
(* Source: fatfs/src/ff.c, the API.                                        *)
(* What callers must not do is not done: use a file through two objects,   *)
(* remove or rename an open one (FF_FS_LOCK is 0), move a directory into   *)
(* itself.                                                                 *)
(***************************************************************************)
EXTENDS FatFile, Integers

CONSTANTS
  Volumes, \* what is on the disk, and the calls made: [g, start, calls, max, faults]
  Handles

VARIABLES
  volume, \* one of Volumes
  fatfs,    \* the FATFS and the disk
  fil,    \* fil[h]: a file object
  desc,   \* fil[h] as the caller sees it: [path, pos]
  tree,   \* what the calls should have made of the volume: path -> [kind, data]
  synced, \* the part of the tree that must be on the disk
  doubt,  \* the paths a failed call was about
  done,   \* the call just made: [op, paths, res, may, got, want, short]
  failed, \* a disk operation has failed
  fat_calls

fatVars == <<volume, fatfs, fil, desc, tree, synced, doubt, done, failed, fat_calls>>

Elements(s) == {s[i] : i \in DOMAIN s}
DirOf(s) == SubSeq(s, 1, Len(s) - 1)
Under(p, q) == Len(q) >= Len(p) /\ SubSeq(q, 1, Len(p)) = p
Minus(f, S) == [p \in DOMAIN f \ S |-> f[p]]
With(f, p, x) == [q \in DOMAIN f \union {p} |-> IF q = p THEN x ELSE f[q]]
FileOf(data) == [kind |-> "file", data |-> data]
Directory == [kind |-> "dir", data |-> <<>>]
Anything == 0 \* a unit of a file that was never written

---------------------------------------------------------------------------
(* What the sectors say, read without FatFs. *)
FatOf(d, c) == d[fatbase + c \div SS][(c % SS) + 1][1]

RECURSIVE ChainOf(_, _, _, _)
ChainOf(g, d, c, seen) ==
  IF c \notin 2..(n_fatent(g) - 1) \/ c \in seen THEN <<>>
  ELSE <<c>> \o ChainOf(g, d, FatOf(d, c), seen \union {c})

Terminated(g, d, c) == LET ch == ChainOf(g, d, c, {}) IN ch # <<>> => FatOf(d, Final(ch)) >= n_fatent(g)

RECURSIVE CellsOf(_, _, _)
CellsOf(g, d, ch) ==
  IF ch = <<>> THEN <<>> ELSE Cells(d, clst2sect(g, Head(ch)), g.csize) \o CellsOf(g, d, Tail(ch))

Entries(g, d, c) ==
  IF c = 0 /\ ~g.fat32 THEN Cells(d, rootbase(g), g.rootdir \div SS)
  ELSE CellsOf(g, d, ChainOf(g, d, IF c = 0 THEN 2 ELSE c, {}))

(* The entries that count: before the end, the long name whole. *)
Listed(cells) ==
  {cells[i] : i \in {i \in DOMAIN cells :
     /\ cells[i][1] \in {"file", "dir"} /\ \A j \in 1..i : cells[j] # Zero
     /\ i > Lfn[cells[i][2]]
     /\ \A j \in 1..Lfn[cells[i][2]] :
          cells[i - j] = <<"lfn", cells[i][2], j, IF j = Lfn[cells[i][2]] THEN 1 ELSE 0>>}}

RECURSIVE Objects(_, _, _, _)
Objects(g, d, c, at) ==
  LET here == {[path |-> Append(at, e[2]), kind |-> e[1], clus |-> e[3], size |-> e[4]] : e \in Listed(Entries(g, d, c))}
  IN here \union (IF Len(at) = 2 THEN {}
                  ELSE UNION {Objects(g, d, o.clus, o.path) : o \in {x \in here : x.kind = "dir"}})

Data(g, d, o) == LET cells == CellsOf(g, d, ChainOf(g, d, o.clus, {})) IN SubSeq(cells, 1, Lowest(o.size, Len(cells)))

Shows(cells, data) ==
  Len(cells) = Len(data) /\ \A k \in DOMAIN data : data[k] # Anything => cells[k] = Unit(data[k])

Holds(g, d, objects, p, x) ==
  \E o \in objects : o.path = p /\ o.kind = x.kind /\ (x.kind = "file" => Shows(Data(g, d, o), x.data))

(* The disk as it would be with the window and the open files written back. *)
Seen ==
  [s \in DOMAIN fatfs.disk |->
     LET dirty == {h \in Handles : fil[h].fs /\ fil[h].dirty /\ fil[h].sect = s}
     IN IF fatfs.wflag /\ fatfs.winsect = s THEN fatfs.win
        ELSE IF dirty # {} THEN fil[CHOOSE h \in dirty : TRUE].buf ELSE fatfs.disk[s]]

SeenObjects ==
  {LET hs == {h \in Handles : fil[h].fs /\ desc[h].path = o.path}
   IN IF hs = {} THEN o ELSE LET f == fil[CHOOSE h \in hs : TRUE] IN [o EXCEPT !.clus = f.sclust, !.size = f.size]
   : o \in Objects(fatfs.g, Seen, 0, <<>>)}

Free(g, d) == {c \in 2..(n_fatent(g) - 1) : FatOf(d, c) = 0}

---------------------------------------------------------------------------
(* A formatted volume, filled by FatFs itself; file number i is full of i. *)
Formatted(g) ==
  LET fat(c) == IF c < 2 \/ (g.fat32 /\ c = 2) THEN EOC ELSE 0
  IN [s \in VolumeSectors(g) |-> [k \in 1..SS |->
        IF s \in fatbase..(rootbase(g) - 1) THEN <<fat(((s - fatbase) % fsize(g)) * SS + k - 1)>>
        ELSE IF s = 1 /\ k = 1 THEN <<"fsinfo", "", g.clusters - 1, 2>> ELSE Zero]]

RECURSIVE Prepared(_, _, _)
Prepared(v, start, i) ==
  IF i > Len(start) THEN v
  ELSE LET p == start[i][1]
           n == start[i][2]
       IN Prepared(IF n = -1 THEN f_mkdir(v, p) ELSE f_close(f_write(f_open(v, p, {"WRITE", "CREATE_NEW"}), i, n)),
                   start, i + 1)

Settled(v) ==
  [v EXCEPT !.res = "OK", !.val = 0, !.out = <<>>, !.io = 0, !.late = FALSE, !.fp = NoFil,
            !.dp = [sclust |-> 0, dptr |-> 0, sect |-> 0, clust |-> 0, blk |-> NoBlock, attr |-> ""]]

NothingDone == [op |-> "none", paths |-> {}, res |-> "OK", may |-> {"OK"}, got |-> {}, want |-> {}, short |-> FALSE]

FatInit ==
  /\ volume \in Volumes
  /\ fatfs = [Settled(Prepared(mount_volume(volume.g, Formatted(volume.g)), volume.start, 1)) EXCEPT !.trace = <<>>]
  /\ fil = [h \in Handles |-> NoFil] /\ desc = [h \in Handles |-> [path |-> <<>>, pos |-> 0]]
  /\ tree = [p \in {volume.start[i][1] : i \in DOMAIN volume.start} |->
               LET i == CHOOSE i \in DOMAIN volume.start : volume.start[i][1] = p
               IN IF volume.start[i][2] = -1 THEN Directory ELSE FileOf([k \in 1..volume.start[i][2] |-> i])]
  /\ synced = tree /\ doubt = {} /\ done = NothingDone /\ failed = FALSE /\ fat_calls = 0

Calls(op) == {c \in volume.calls : fat_calls < volume.max /\ c.op = op}

(* The disk operation that fails in a call; 0: none does. *)
Tries == {[io |-> 0, late |-> FALSE]} \union (IF failed THEN {} ELSE [io : 1..volume.faults, late : BOOLEAN])

Begin(try) == [fatfs EXCEPT !.io = try.io, !.late = try.late, !.trace = <<>>]

On(try, f) == [Begin(try) EXCEPT !.fp = f]

(* What a call leaves behind; t and s are the trees if it succeeds.  A result *)
(* the caller could not foresee puts in doubt what the call was about.        *)
Finish(op, paths, try, v, may, t, s, got, want, short) ==
  LET ok == v.res = "OK"
      odd == v.res \notin may
  IN /\ try.io # 0 => v.io = 0
     /\ fatfs' = Settled(v)
     /\ tree' = IF ok THEN t ELSE tree
     /\ synced' = IF ok THEN s ELSE IF odd THEN Minus(synced, paths) ELSE synced
     /\ doubt' = IF odd THEN doubt \union paths ELSE doubt
     /\ done' = [op |-> op, paths |-> paths, res |-> v.res, may |-> may,
                  got |-> IF ok THEN got ELSE want, want |-> want, short |-> ok /\ short]
     /\ failed' = (failed \/ try.io # 0) /\ fat_calls' = fat_calls + 1 /\ UNCHANGED volume

IsDir(p) == p = <<>> \/ (p \in DOMAIN tree /\ tree[p].kind = "dir")
Open(p) == \E h \in Handles : fil[h].fs /\ desc[h].path = p
Clean(p) == ~\E q \in doubt : Under(q, p) \/ Under(p, q)
Idle(p) == Clean(p) /\ ~\E h \in Handles : fil[h].fs /\ Under(p, desc[h].path)
Missing(p) == IF IsDir(DirOf(p)) THEN "NO_FILE" ELSE "NO_PATH"

(* A new entry may not find room: the static root is full, or the disk. *)
Room(p, clusters) ==
  LET cells == Entries(fatfs.g, Seen, 0)
      n == Lfn[Final(p)]
      fits == \E i \in 1..(Len(cells) - n) : \A j \in i..(i + n) : cells[j][1] \in {"zero", "gone"}
  IN IF Len(p) = 1 /\ ~fatfs.g.fat32 THEN fits /\ Cardinality(Free(fatfs.g, Seen)) >= clusters
     ELSE Cardinality(Free(fatfs.g, Seen)) > clusters + n \div SS
MayEnter(p, clusters) == IF Room(p, clusters) THEN {"OK"} ELSE {"OK", "DENIED"}

FOpen ==
  \E h \in Handles, c \in Calls("open"), try \in Tries :
    LET p == c.path
        known == p \in DOMAIN tree
        empties == ~known \/ "CREATE_ALWAYS" \in c.mode
        may == IF ~known THEN IF Creates(c.mode) /\ IsDir(DirOf(p)) THEN MayEnter(p, 0) ELSE {Missing(p)}
               ELSE IF "CREATE_NEW" \in c.mode THEN {"EXIST"}
               ELSE IF tree[p].kind = "file" THEN {"OK"}
               ELSE IF Creates(c.mode) THEN {"DENIED"} ELSE {"NO_FILE"}
        data == IF empties THEN <<>> ELSE tree[p].data
    IN /\ ~fil[h].fs /\ ~Open(p) /\ Clean(p) /\ \A g \in Handles : g < h => fil[g].fs
       /\ \E v \in {f_open(Begin(try), p, c.mode)} :
            /\ Finish("open", {p}, try, v, may, With(tree, p, FileOf(data)), IF empties THEN Minus(synced, {p}) ELSE synced,
                      {}, {}, FALSE)
            /\ fil' = [fil EXCEPT ![h] = v.fp]
            /\ desc' = [desc EXCEPT ![h] = IF ~v.fp.fs THEN @ ELSE
                          [path |-> p, pos |-> IF "SEEKEND" \in c.mode THEN Len(data) ELSE 0]]

(* A call on an open file that nothing has happened to. *)
Usable(h, m) == fil[h].fs /\ desc[h].path \notin doubt /\ m \subseteq fil[h].mode
Content(h) == tree[desc[h].path].data
Become(h, data) == With(tree, desc[h].path, FileOf(data))
Unsynced(h) == Minus(synced, {desc[h].path})
Left(h, v, pos) == fil' = [fil EXCEPT ![h] = v.fp] /\ desc' = [desc EXCEPT ![h].pos = pos]

FRead ==
  \E h \in Handles, c \in Calls("read"), try \in Tries :
    LET n == Lowest(c.n, Len(Content(h)) - desc[h].pos)
    IN /\ Usable(h, {"READ"})
       /\ \E v \in {f_read(On(try, fil[h]), c.n)} :
            /\ Finish("read", {desc[h].path}, try, v, {"OK"}, tree, synced, v.out,
                      SubSeq(Content(h), desc[h].pos + 1, desc[h].pos + n), FALSE)
            /\ Left(h, v, desc[h].pos + n)

FWrite ==
  \E h \in Handles, c \in Calls("write"), try \in Tries :
    LET k == 10 + fat_calls
        pos == desc[h].pos
        old == Content(h)
    IN /\ Usable(h, {"WRITE"})
       /\ \E v \in {f_write(On(try, fil[h]), k, c.n)} :
            LET n == v.fp.fptr - fil[h].fptr
                data == [j \in 1..(IF pos + n > Len(old) THEN pos + n ELSE Len(old)) |->
                           IF j \in (pos + 1)..(pos + n) THEN k ELSE old[j]]
            IN /\ Finish("write", {desc[h].path}, try, v, {"OK"}, Become(h, data), Unsynced(h), {}, {}, n # c.n)
               /\ Left(h, v, pos + n)

FSeek ==
  \E h \in Handles, c \in Calls("seek"), try \in Tries :
    LET old == Content(h)
        want == IF c.n > Len(old) /\ "WRITE" \notin fil[h].mode THEN Len(old) ELSE c.n
    IN /\ Usable(h, {}) /\ c.n # desc[h].pos
       /\ \E v \in {f_lseek(On(try, fil[h]), c.n)} :
            LET pos == IF v.fp.fptr < want THEN v.fp.fptr ELSE want
                data == [j \in 1..(IF pos > Len(old) THEN pos ELSE Len(old)) |-> IF j <= Len(old) THEN old[j] ELSE Anything]
            IN /\ Finish("seek", {desc[h].path}, try, v, {"OK"}, Become(h, data), IF data = old THEN synced ELSE Unsynced(h),
                         {}, {}, pos # want)
               /\ Left(h, v, pos)

FTruncate ==
  \E h \in Handles, c \in Calls("truncate"), try \in Tries :
    LET cut == desc[h].pos < Len(Content(h))
    IN /\ Usable(h, {"WRITE"})
       /\ \E v \in {f_truncate(On(try, fil[h]))} :
            /\ Finish("truncate", {desc[h].path}, try, v, {"OK"}, Become(h, SubSeq(Content(h), 1, desc[h].pos)),
                      IF cut THEN Unsynced(h) ELSE synced, {}, {}, FALSE)
            /\ Left(h, v, desc[h].pos)

(* Also for a file that an operation failed on: nothing is known of it then. *)
Keep(h) == IF desc[h].path \in doubt THEN synced ELSE With(synced, desc[h].path, FileOf(Content(h)))

FSync ==
  \E h \in Handles, c \in Calls("sync"), try \in Tries :
    /\ fil[h].fs /\ fil[h].modified
    /\ \E v \in {f_sync(On(try, fil[h]))} :
         /\ Finish("sync", {desc[h].path}, try, v, {"OK"}, tree, Keep(h), {}, {}, FALSE)
         /\ Left(h, v, desc[h].pos)

FClose ==
  \E h \in Handles, c \in Calls("close"), try \in Tries :
    /\ fil[h].fs
    /\ \E v \in {f_close(On(try, fil[h]))} :
         /\ Finish("close", {desc[h].path}, try, v, {"OK"}, tree, Keep(h), {}, {}, FALSE)
         /\ fil' = [fil EXCEPT ![h] = v.fp]
         /\ desc' = [desc EXCEPT ![h] = IF v.fp.fs THEN @ ELSE [path |-> <<>>, pos |-> 0]]

FUnlink ==
  \E c \in Calls("unlink"), try \in Tries :
    LET p == c.path
        may == IF p \notin DOMAIN tree THEN {Missing(p)}
               ELSE IF \E q \in DOMAIN tree \ {p} : Under(p, q) THEN {"DENIED"} ELSE {"OK"}
    IN /\ Idle(p)
       /\ \E v \in {f_unlink(Begin(try), p)} :
            /\ Finish("unlink", {p}, try, v, may, Minus(tree, {p}), Minus(synced, {p}), {}, {}, FALSE)
            /\ UNCHANGED <<fil, desc>>

FMkdir ==
  \E c \in Calls("mkdir"), try \in Tries :
    LET p == c.path
        may == IF p \in DOMAIN tree THEN {"EXIST"} ELSE IF IsDir(DirOf(p)) THEN MayEnter(p, 1) ELSE {"NO_PATH"}
    IN /\ Clean(p) /\ ~Open(p)
       /\ \E v \in {f_mkdir(Begin(try), p)} :
            /\ Finish("mkdir", {p}, try, v, may, With(tree, p, Directory), With(synced, p, Directory), {}, {}, FALSE)
            /\ UNCHANGED <<fil, desc>>

(* Everything at p or below is now at q or below. *)
Moved(f, p, q) ==
  LET new(x) == IF Under(p, x) THEN q \o SubSeq(x, Len(p) + 1, Len(x)) ELSE x
  IN [y \in {new(x) : x \in DOMAIN f} |-> f[CHOOSE x \in DOMAIN f : new(x) = y]]

FRename ==
  \E c \in Calls("rename"), try \in Tries :
    LET p == c.path
        q == c.to
        may == IF p \notin DOMAIN tree THEN {Missing(p)} ELSE IF q \in DOMAIN tree THEN {"EXIST"}
               ELSE IF IsDir(DirOf(q)) THEN MayEnter(q, 0) ELSE {"NO_PATH"}
    IN /\ Idle(p) /\ Idle(q) /\ ~Under(p, q)
       /\ \E v \in {f_rename(Begin(try), p, q)} :
            /\ Finish("rename", {p, q} \union {x \in DOMAIN tree \union DOMAIN Moved(tree, p, q) : Under(p, x) \/ Under(q, x)},
                      try, v, may, Moved(tree, p, q), Moved(synced, p, q), {}, {}, FALSE)
            /\ UNCHANGED <<fil, desc>>

FStat ==
  \E c \in Calls("stat"), try \in Tries :
    /\ Clean(c.path)
    /\ Finish("stat", {}, try, f_stat(Begin(try), c.path),
              IF c.path \in DOMAIN tree THEN {"OK"} ELSE {Missing(c.path)}, tree, synced, {}, {}, FALSE)
    /\ UNCHANGED <<fil, desc>>

FList ==
  \E c \in Calls("list"), try \in Tries :
    /\ doubt = {}
    /\ \E v \in {ListDir(Begin(try), c.path)} :
         /\ Finish("list", {}, try, v, IF IsDir(c.path) THEN {"OK"} ELSE {"NO_PATH"}, tree, synced, Elements(v.out),
                   {Final(p) : p \in {q \in DOMAIN tree : DirOf(q) = c.path}}, FALSE)
         /\ UNCHANGED <<fil, desc>>

FGetFree ==
  \E c \in Calls("free"), try \in Tries :
    /\ \E v \in {f_getfree(Begin(try))} :
         /\ Finish("free", {}, try, v, {"OK"}, tree, synced, {v.val}, {Cardinality(Free(fatfs.g, Seen))}, FALSE)
         /\ UNCHANGED <<fil, desc>>

FatNext ==
  \/ FOpen \/ FRead \/ FWrite \/ FSeek \/ FTruncate \/ FSync \/ FClose
  \/ FUnlink \/ FMkdir \/ FRename \/ FStat \/ FList \/ FGetFree

FatSpec == FatInit /\ [][FatNext]_fatVars

---------------------------------------------------------------------------
(* Every call gives the result the calls before it imply, and nothing else  *)
(* but FR_DISK_ERR once the disk has failed: no name is missed or taken     *)
(* twice, no room denied while there is some (ff.c:3799-5371).              *)
ResultsRight ==
  fat_calls > 0 =>
  /\ done.res \in done.may \union (IF failed THEN {"DISK_ERR"} ELSE {})
  /\ done.short => Free(fatfs.g, Seen) = {}

(* A read delivers what was last written to each place of the file, whether  *)
(* it is in the file's buffer or on the disk; a directory lists its names;   *)
(* the count of free clusters is right (ff.c:3996-4087, 4811, 4939).         *)
ReadsRight ==
  /\ done.op = "read" /\ done.res = "OK" => Shows(done.got, done.want)
  /\ done.op = "list" \/ (done.op = "free" /\ ~failed) => done.got = done.want

(* All files that no failed call was about are there, with their content,   *)
(* under the names the calls gave them, and nothing else is.                *)
TreeKept ==
  fat_calls > 0 =>
  LET os == SeenObjects
  IN /\ \A p \in DOMAIN tree : Clean(p) => Holds(fatfs.g, Seen, os, p, tree[p])
     /\ \A o \in os : o.path \in DOMAIN tree \/ ~Clean(o.path)

(* No cluster belongs to two files, chains end and are as long as the file;  *)
(* without a failure no cluster is lost, the count is right and the two      *)
(* copies of the table agree (ff.c:1254-1632).                               *)
FatSound ==
  fat_calls > 0 =>
  LET g == fatfs.g
      d == Seen
      os == {o \in SeenObjects : o.clus # 0}
      root == IF g.fat32 THEN Elements(ChainOf(g, d, 2, {})) ELSE {}
      of(o) == Elements(ChainOf(g, d, o.clus, {}))
  IN /\ \A o \in os : Clean(o.path) => Terminated(g, d, o.clus) /\ o.size <= Cardinality(of(o)) * g.csize * SS
     /\ \A o, x \in os : o # x /\ (Clean(o.path) \/ Clean(x.path)) => of(o) \cap of(x) = {}
     /\ \A o \in os : of(o) \cap root = {}
     /\ ~failed =>
          /\ UNION {of(o) : o \in os} \union root = (2..(n_fatent(g) - 1)) \ Free(g, d)
          /\ Counted(fatfs) => fatfs.free = Cardinality(Free(g, d))
          /\ g.fats = 2 => \A s \in Fat1(g) : fatfs.disk[s] = fatfs.disk[s + fsize(g)]

(* Wherever in a call the power goes, the files the call is not about are    *)
(* on the disk as they were last synchronized, and a file that is being      *)
(* renamed is there under one name at least (ff.c:5333-5365).                *)
PowerMayGo ==
  fat_calls > 0 =>
  LET g == fatfs.g
  IN \A i \in DOMAIN fatfs.trace :
       LET d == fatfs.trace[i]
           os == Objects(g, d, 0, <<>>)
       IN /\ \A p \in DOMAIN synced \ done.paths : Holds(g, d, os, p, synced[p])
          /\ done.op = "rename" =>
               \A p \in done.paths \cap DOMAIN tree :
                 tree[p].kind = "file" => \E q \in done.paths : Holds(g, d, os, q, tree[p])

(* What f_sync(), f_close() and the functions on names reported done is on   *)
(* the disk, whatever FatFs still keeps in its buffers (ff.c:4218-4325).     *)
SyncedIsOnDisk ==
  fat_calls > 0 =>
  LET os == Objects(fatfs.g, fatfs.disk, 0, <<>>)
  IN \A p \in DOMAIN synced : Holds(fatfs.g, fatfs.disk, os, p, synced[p])

(* Results, data and directories are those of the calls, whatever FatFs      *)
(* keeps in its window and in the files' buffers, and the table is sound.    *)
FatRight == ResultsRight /\ ReadsRight /\ TreeKept /\ FatSound

(* The same of the disk as a power cut, now or in the last call, leaves it.  *)
PowerSafe == PowerMayGo /\ SyncedIsOnDisk
=============================================================================
