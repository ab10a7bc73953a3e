----------------------------- MODULE FatVolume -----------------------------
(***************************************************************************)
(* FatFs below its API: the sector window, the allocation table, the       *)
(* directories.  Every operator takes the state of a volume and returns it *)
(* with the result in "res" and "val", as the C function of that name does *)
(* to its FATFS; a DIR object is the field "dp".                           *)
(* Source: fatfs/src/ff.c, FAT16 and FAT32.                                *)
(*                                                                         *)
(* A sector has SS cells; an entry of the table, a directory entry and a   *)
(* unit of data take one each.                                             *)
(* Abstracted: FAT12, attributes and times, what an 8.3 name made for a    *)
(* long name looks like (it is unique), case and characters of names.      *)
(***************************************************************************)
EXTENDS Naturals, Sequences, FiniteSets

CONSTANTS
  SS,   \* cells of a sector
  Lfn   \* Lfn[name]: the long-name entries a name needs

ASSUME VolumeConstants == SS \in Nat \ {0, 1} /\ \A n \in DOMAIN Lfn : Lfn[n] \in Nat

(* Cells of the table are <<x>>; of directories and data: kind, name, cluster *)
(* or order, size.                                                           *)
Zero == <<"zero", "", 0, 0>>
Gone == <<"gone", "", 0, 0>>
Unit(k) == <<"unit", "", k, 0>>

Big == 99     \* 0xFFFFFFFF: an error, or a count that is not known
EOC == 88     \* the end of a chain: beyond every cluster number
NoSect == 77  \* (LBA_t)0 - 1: the window holds no sector
NoBlock == 66 \* blk_ofs: the object has no long name

(* A file object that is not open. *)
NoFil == [fs |-> FALSE, dir_sect |-> 0, dir_ptr |-> 0, sclust |-> 0, size |-> 0, fptr |-> 0, clust |-> 0,
           sect |-> 0, buf |-> [k \in 1..SS |-> Zero], dirty |-> FALSE, modified |-> FALSE, mode |-> {}, err |-> "OK"]

(* A geometry g: [fat32, csize, clusters, rootdir, fats]. *)
n_fatent(g) == g.clusters + 2
fatbase == 2
fsize(g) == (n_fatent(g) + SS - 1) \div SS
rootbase(g) == fatbase + fsize(g) * g.fats
database(g) == rootbase(g) + g.rootdir \div SS
VolumeSectors(g) == 0..(database(g) + g.clusters * g.csize - 1)
clst2sect(g, c) == database(g) + g.csize * (c - 2)
Fat1(g) == fatbase..(fatbase + fsize(g) - 1)

Res(v, r) == [v EXCEPT !.res = r]
Ok(v) == Res(v, "OK")
Then(v, Next(_)) == IF v.res = "OK" THEN Next(v) ELSE v
Given(v, Next(_)) == Next(v)
Instead(v, r, s) == IF v.res = r THEN Res(v, s) ELSE v

---------------------------------------------------------------------------
(* The disk: v.io counts down to an operation that fails; a write that      *)
(* fails may have been carried out (v.late).  v.trace collects what the     *)
(* disk held after each write of a call.                                    *)
Io(v) == [v EXCEPT !.io = IF @ = 0 THEN 0 ELSE @ - 1, !.res = IF v.io = 1 THEN "DISK_ERR" ELSE "OK"]

Put(v, s, sector) == [v EXCEPT !.disk[s] = sector, !.trace = Append(@, [v.disk EXCEPT ![s] = sector])]

disk_write(v, s, sector) ==
  LET w == Io(v) IN IF w.res = "OK" \/ v.late THEN Put(w, s, sector) ELSE w

sync_window(v) ==
  IF ~v.wflag THEN Ok(v)
  ELSE Then(disk_write(v, v.winsect, v.win), LAMBDA w :
         IF v.g.fats = 2 /\ v.winsect \in Fat1(v.g)
         THEN Ok(disk_write([w EXCEPT !.wflag = FALSE], v.winsect + fsize(v.g), v.win))
         ELSE [w EXCEPT !.wflag = FALSE])

move_window(v, s) ==
  IF s = v.winsect THEN Ok(v)
  ELSE Then(sync_window(v), LAMBDA w :
         LET r == Io(w)
         IN IF r.res = "OK" THEN [r EXCEPT !.win = r.disk[s], !.winsect = s] ELSE [r EXCEPT !.winsect = NoSect])

MutSyncFs(v) == Ok(v)

(* With FAT32 the FSInfo sector is written, too, and an error ignored. *)
sync_fs(v) ==
  Then(sync_window(v), LAMBDA w :
    LET info == [k \in 1..SS |-> IF k = 1 THEN <<"fsinfo", "", w.free, w.last>> ELSE Zero]
        u == [w EXCEPT !.fsi = 0]
    IN Io(IF w.fsi # 1 THEN w
          ELSE IF w.g.fat32 THEN disk_write([u EXCEPT !.win = info, !.winsect = 1], 1, info) ELSE u))

---------------------------------------------------------------------------
(* The allocation table. *)
get_fat(v, c) ==
  IF c \notin 2..(n_fatent(v.g) - 1) THEN [Ok(v) EXCEPT !.val = 1]
  ELSE LET w == move_window(v, fatbase + c \div SS)
       IN [w EXCEPT !.val = IF w.res = "OK" THEN w.win[(c % SS) + 1][1] ELSE Big]

put_fat(v, c, x) ==
  IF c \notin 2..(n_fatent(v.g) - 1) THEN Res(v, "INT_ERR")
  ELSE Then(move_window(v, fatbase + c \div SS), LAMBDA w : [w EXCEPT !.win[(c % SS) + 1] = <<x>>, !.wflag = TRUE])

Counted(v) == v.free <= v.g.clusters

OneMoreFree(v) == IF v.free < v.g.clusters THEN [v EXCEPT !.free = @ + 1, !.fsi = IF @ = 0 THEN 1 ELSE @] ELSE v

RECURSIVE FreeFrom(_, _)
FreeFrom(v, c) ==
  Then(get_fat(v, c), LAMBDA w :
    IF w.val = 0 THEN w ELSE IF w.val = 1 THEN Res(w, "INT_ERR")
    ELSE Then(put_fat(w, c, 0), LAMBDA u :
           IF w.val < n_fatent(v.g) THEN FreeFrom(OneMoreFree(u), w.val) ELSE OneMoreFree(u)))

remove_chain(v, c, p) ==
  IF c \notin 2..(n_fatent(v.g) - 1) THEN Res(v, "INT_ERR")
  ELSE Then(IF p = 0 THEN Ok(v) ELSE put_fat(v, p, EOC), LAMBDA w : FreeFrom(w, c))

(* The search of create_chain() behind cluster n, up to scl. *)
RECURSIVE SearchFree(_, _, _)
SearchFree(v, n, scl) ==
  LET m == IF n + 1 >= n_fatent(v.g) THEN 2 ELSE n + 1
  IN IF n + 1 >= n_fatent(v.g) /\ 2 > scl THEN [Ok(v) EXCEPT !.val = 0]
     ELSE Then(get_fat(v, m), LAMBDA w :
            IF w.val = 0 THEN [w EXCEPT !.val = m] ELSE IF w.val = 1 THEN Res(w, "INT_ERR")
            ELSE IF m = scl THEN [w EXCEPT !.val = 0] ELSE SearchFree(w, m, scl))

(* A stretched chain goes on in the next cluster if that is free. *)
FindFree(v, c, scl) ==
  LET n == IF scl + 1 >= n_fatent(v.g) THEN 2 ELSE scl + 1
  IN IF c = 0 THEN SearchFree(v, scl, scl)
     ELSE Then(get_fat(v, n), LAMBDA w :
            IF w.val = 0 THEN [w EXCEPT !.val = n] ELSE IF w.val = 1 THEN Res(w, "INT_ERR")
            ELSE LET from == IF w.last \in 2..(n_fatent(v.g) - 1) THEN w.last ELSE scl
                 IN SearchFree(w, from, from))

TakeCluster(v, c, n) ==
  Then(Then(put_fat(v, n, EOC), LAMBDA w : IF c = 0 THEN w ELSE put_fat(w, c, n)), LAMBDA w :
    LET counts == Counted(w) /\ w.free > 0
    IN [w EXCEPT !.last = n, !.free = IF counts THEN @ - 1 ELSE @,
                 !.fsi = IF counts /\ @ = 0 THEN 1 ELSE @, !.val = n])

(* val: the cluster behind c, or a new one; 0: the disk is full. *)
create_chain(v, c) ==
  LET Stretch(w, scl) ==
        IF w.free = 0 THEN [w EXCEPT !.val = 0]
        ELSE Then(FindFree(w, c, scl), LAMBDA u : IF u.val = 0 THEN u ELSE TakeCluster(u, c, u.val))
  IN IF c = 0 THEN Stretch(Ok(v), IF v.last = 0 \/ v.last >= n_fatent(v.g) THEN 1 ELSE v.last)
     ELSE Then(get_fat(v, c), LAMBDA w :
            IF w.val < 2 THEN Res(w, "INT_ERR")
            ELSE IF w.val < n_fatent(v.g) THEN w ELSE Stretch(w, c))
---------------------------------------------------------------------------
(* Directories.  A DIR object dp: [sclust, dptr, sect, clust, blk, attr]. *)
DirEntry(v) == v.win[(v.dp.dptr % SS) + 1]
ld_clust(v) == DirEntry(v)[3]

SetEntry(v, e) == [v EXCEPT !.win[(v.dp.dptr % SS) + 1] = e, !.wflag = TRUE]

RECURSIVE Clear(_, _, _)
Clear(v, s, n) == IF n = 0 THEN Ok(v) ELSE Then(disk_write(v, s, v.win), LAMBDA w : Clear(w, s + 1, n - 1))

MutDirClear(v, c) ==
  Then(sync_window(v), LAMBDA w :
    Clear([w EXCEPT !.winsect = clst2sect(v.g, c), !.win = [k \in 1..SS |-> Zero]], clst2sect(v.g, c), v.g.csize + 1))

dir_clear(v, c) ==
  Then(sync_window(v), LAMBDA w :
    Clear([w EXCEPT !.winsect = clst2sect(v.g, c), !.win = [k \in 1..SS |-> Zero]], clst2sect(v.g, c), v.g.csize))

RECURSIVE Follow(_, _, _)
Follow(v, c, ofs) ==
  IF ofs < v.g.csize * SS
  THEN [Ok(v) EXCEPT !.dp.clust = c, !.dp.sect = clst2sect(v.g, c) + ofs \div SS]
  ELSE Then(get_fat(v, c), LAMBDA w :
         IF w.val \in 2..(n_fatent(v.g) - 1) THEN Follow(w, w.val, ofs - v.g.csize * SS) ELSE Res(w, "INT_ERR"))

dir_sdi(v, ofs) ==
  LET c == IF v.dp.sclust = 0 /\ v.g.fat32 THEN 2 ELSE v.dp.sclust
      w == [v EXCEPT !.dp.dptr = ofs]
  IN IF c # 0 THEN Follow(w, c, ofs)
     ELSE IF ofs >= v.g.rootdir THEN Res(w, "INT_ERR")
     ELSE [Ok(w) EXCEPT !.dp.clust = 0, !.dp.sect = rootbase(v.g) + ofs \div SS]

dir_next(v, stretch) ==
  LET ofs == v.dp.dptr + 1
      At(w) == [w EXCEPT !.dp.dptr = ofs]
      In(w, c) == [At(w) EXCEPT !.dp.clust = c, !.dp.sect = clst2sect(v.g, c)]
      End(w) == [Res(w, "NO_FILE") EXCEPT !.dp.sect = 0]
      n == [v EXCEPT !.dp.sect = @ + 1]
  IN IF v.dp.sect = 0 THEN Res(v, "NO_FILE")
     ELSE IF ofs % SS # 0 THEN Ok(At(v))
     ELSE IF v.dp.clust = 0 THEN IF ofs >= v.g.rootdir THEN End(v) ELSE Ok(At(n))
     ELSE IF (ofs \div SS) % v.g.csize # 0 THEN Ok(At(n))
     ELSE Then(get_fat(n, v.dp.clust), LAMBDA w :
            IF w.val <= 1 THEN Res(w, "INT_ERR")
            ELSE IF w.val < n_fatent(v.g) THEN In(w, w.val)
            ELSE IF ~stretch THEN End(w)
            ELSE Then(create_chain(w, v.dp.clust), LAMBDA u :
                   IF u.val = 0 THEN Res(u, "DENIED")
                   ELSE Then(dir_clear(u, u.val), LAMBDA x : In(x, u.val))))

RECURSIVE AllocFrom(_, _, _)
AllocFrom(v, found, n) ==
  Then(move_window(v, v.dp.sect), LAMBDA w :
    LET f == IF DirEntry(w)[1] \in {"zero", "gone"} THEN found + 1 ELSE 0
    IN IF f = n THEN w ELSE Then(dir_next(w, TRUE), LAMBDA u : AllocFrom(u, f, n)))

dir_alloc(v, n) ==
  Instead(Then(dir_sdi(v, 0), LAMBDA u : AllocFrom(u, 0, n)), "NO_FILE", "DENIED")

(* The long-name entries seen so far: [left, name, blk], left as in "ord". *)
NoLfn == [left |-> 255, name |-> "", blk |-> NoBlock]

AfterLfn(v, seen, e) ==
  LET s == IF e[4] = 1 THEN [left |-> e[3], name |-> e[2], blk |-> v.dp.dptr] ELSE seen
  IN [s EXCEPT !.left = IF e[3] = s.left /\ e[2] = s.name THEN @ - 1 ELSE 255]

Complete(seen, e) == seen.left = 0 /\ seen.name = e[2]

RECURSIVE FindFrom(_, _, _)
FindFrom(v, name, seen) ==
  Then(move_window(v, v.dp.sect), LAMBDA w :
    LET e == DirEntry(w)
        s == IF e[1] # "lfn" THEN NoLfn
             ELSE [AfterLfn(w, seen, e) EXCEPT !.left = IF e[2] = name THEN @ ELSE 255]
    IN IF e[1] = "zero" THEN Res(w, "NO_FILE")
       ELSE IF e[1] \notin {"gone", "lfn"} /\ e[2] = name /\ (Complete(seen, e) \/ Lfn[name] = 0)
            THEN [w EXCEPT !.dp.blk = seen.blk, !.dp.attr = e[1]]
       ELSE Then(dir_next(w, FALSE), LAMBDA u : FindFrom(u, name, s)))

dir_find(v, name) == Then(dir_sdi(v, 0), LAMBDA w : FindFrom(w, name, NoLfn))

RECURSIVE ReadFrom(_, _)
ReadFrom(v, seen) ==
  Then(move_window(v, v.dp.sect), LAMBDA w :
    LET e == DirEntry(w)
        s == IF e[1] = "lfn" THEN AfterLfn(w, seen, e) ELSE NoLfn
    IN CASE e[1] = "zero" -> Res(w, "NO_FILE")
         [] e[1] \in {"gone", "dot", "lfn"} -> Then(dir_next(w, FALSE), LAMBDA u : ReadFrom(u, s))
         [] OTHER -> [w EXCEPT !.dp.attr = e[1], !.dp.blk = IF Complete(seen, e) THEN seen.blk ELSE NoBlock])

dir_read(v) ==
  Given(IF v.dp.sect = 0 THEN Res(v, "NO_FILE") ELSE ReadFrom(v, NoLfn), LAMBDA w :
    IF w.res = "OK" THEN w ELSE [w EXCEPT !.dp.sect = 0])

(* The long-name entries n..1, the last piece of the name first. *)
RECURSIVE PutLfn(_, _, _)
PutLfn(v, name, n) ==
  IF n = 0 THEN Ok(v)
  ELSE Then(move_window(v, v.dp.sect), LAMBDA w :
         Then(dir_next(SetEntry(w, <<"lfn", name, n, IF n = Lfn[name] THEN 1 ELSE 0>>), FALSE), LAMBDA u :
           PutLfn(u, name, n - 1)))

(* A name that needs a made-up short one is looked for first. *)
Collides(v, name) ==
  IF Lfn[name] = 0 THEN Ok(v)
  ELSE Instead(dir_find(v, name), "NO_FILE", "OK")

dir_register(v, name) ==
  Then(Collides(v, name), LAMBDA w :
  Then(dir_alloc(w, Lfn[name] + 1), LAMBDA u :
  Then(IF Lfn[name] = 0 THEN u
       ELSE Then(dir_sdi(u, u.dp.dptr - Lfn[name]), LAMBDA x : PutLfn(x, name, Lfn[name])), LAMBDA x :
  Then(move_window(x, x.dp.sect), LAMBDA y : SetEntry(y, <<"file", name, 0, 0>>)))))

RECURSIVE RemoveTo(_, _)
RemoveTo(v, last) ==
  Then(move_window(v, v.dp.sect), LAMBDA w :
    LET d == SetEntry(w, Gone)
    IN IF d.dp.dptr >= last THEN d ELSE Then(dir_next(d, FALSE), LAMBDA u : RemoveTo(u, last)))

dir_remove(v) ==
  Instead(Then(IF v.dp.blk = NoBlock THEN Ok(v) ELSE dir_sdi(v, v.dp.blk), LAMBDA u : RemoveTo(u, v.dp.dptr)),
          "NO_FILE", "INT_ERR")

(* The directory entry of a path, in the window, or NO_FILE for its last     *)
(* name and NO_PATH for another.                                             *)
RECURSIVE FollowFrom(_, _)
FollowFrom(v, path) ==
  Given(dir_find(v, Head(path)), LAMBDA w :
    IF Len(path) = 1 THEN w
    ELSE Then(Instead(w, "NO_FILE", "NO_PATH"), LAMBDA u :
           IF u.dp.attr # "dir" THEN Res(u, "NO_PATH")
           ELSE FollowFrom([u EXCEPT !.dp.sclust = ld_clust(u)], Tail(path))))

follow_path(v, path) == FollowFrom([v EXCEPT !.dp.sclust = 0], path)
---------------------------------------------------------------------------
(* A volume as f_mount() finds it, with the given sectors; "fp" and "out" are *)
(* the file object and the buffer of a call.                                 *)
mount_volume(g, disk) ==
  LET info == disk[1][1]
  IN [g |-> g, disk |-> disk, win |-> disk[IF g.fat32 THEN 1 ELSE 0], winsect |-> IF g.fat32 THEN 1 ELSE 0,
      wflag |-> FALSE, free |-> IF g.fat32 THEN info[3] ELSE Big, last |-> IF g.fat32 THEN info[4] ELSE Big,
      fsi |-> IF g.fat32 THEN 0 ELSE 128, io |-> 0, late |-> FALSE, res |-> "OK", val |-> 0, trace |-> <<>>, out |-> <<>>, fp |-> NoFil,
      dp |-> [sclust |-> 0, dptr |-> 0, sect |-> 0, clust |-> 0, blk |-> NoBlock, attr |-> ""]]
=============================================================================
