------------------------------ MODULE FatFile ------------------------------
(***************************************************************************)
(* The API functions of FatFs, as operators on a volume (FatVolume).       *)
(* Source: fatfs/src/ff.c, from validate() on, with a buffer per file.     *)
(***************************************************************************)
EXTENDS FatVolume

Lowest(a, b) == IF a < b THEN a ELSE b
Final(s) == s[Len(s)]

---------------------------------------------------------------------------
(* The file functions, on the file object v.fp. *)
validate(v) == IF v.fp.fs THEN Ok(v) ELSE Res(v, "INVALID_OBJECT")
Allowed(v, m) ==
  Then(Then(validate(v), LAMBDA w : Res(w, w.fp.err)), LAMBDA w : IF m \in w.fp.mode THEN w ELSE Res(w, "DENIED"))
Abort(w) == IF w.res = "OK" THEN w ELSE [w EXCEPT !.fp.err = w.res]

WriteBack(v) ==
  IF ~v.fp.dirty THEN Ok(v)
  ELSE Then(disk_write(v, v.fp.sect, v.fp.buf), LAMBDA w : [w EXCEPT !.fp.dirty = FALSE])

Load(v, s) == Then(Io(v), LAMBDA w : [w EXCEPT !.fp.buf = w.disk[s]])

OffsetInCluster(v) == (v.fp.fptr \div SS) % v.g.csize
SectorAt(v) == clst2sect(v.g, v.fp.clust) + OffsetInCluster(v)
InChain(v, c) == c \in 2..(n_fatent(v.g) - 1)

(* The cluster of the read pointer, at a cluster's boundary. *)
ClusterToRead(v) ==
  IF OffsetInCluster(v) # 0 THEN Ok(v)
  ELSE Then(IF v.fp.fptr = 0 THEN [Ok(v) EXCEPT !.val = v.fp.sclust] ELSE get_fat(v, v.fp.clust), LAMBDA w :
         IF InChain(w, w.val) THEN [w EXCEPT !.fp.clust = w.val] ELSE Res(w, "INT_ERR"))

RECURSIVE Cells(_, _, _)
Cells(disk, s, n) == IF n = 0 THEN <<>> ELSE disk[s] \o Cells(disk, s + 1, n - 1)

(* VolumeSectors from s on as the file has them: its buffer may be newer. *)
WithCache(v, s, cells) ==
  [k \in DOMAIN cells |-> IF v.fp.dirty /\ s + (k - 1) \div SS = v.fp.sect THEN v.fp.buf[((k - 1) % SS) + 1] ELSE cells[k]]

RECURSIVE ReadLoop(_, _)
ReadLoop(v, n) ==
  LET Copied(w) ==
        LET k == Lowest(SS - (w.fp.fptr % SS), n)
            from == w.fp.fptr % SS
        IN ReadLoop([w EXCEPT !.out = @ \o SubSeq(w.fp.buf, from + 1, from + k), !.fp.fptr = @ + k], n - k)
  IN IF n = 0 THEN Ok(v)
     ELSE IF v.fp.fptr % SS # 0 THEN Copied(v)
     ELSE Then(ClusterToRead(v), LAMBDA w :
            LET s == SectorAt(w)
                cc == Lowest(n \div SS, w.g.csize - OffsetInCluster(w))
            IN IF cc > 0
               THEN Then(Io(w), LAMBDA u :
                      ReadLoop([u EXCEPT !.out = @ \o WithCache(u, s, Cells(u.disk, s, cc)), !.fp.fptr = @ + cc * SS],
                               n - cc * SS))
               ELSE Then(IF w.fp.sect = s THEN w ELSE Then(WriteBack(w), LAMBDA u : Load(u, s)), LAMBDA u :
                      Copied([u EXCEPT !.fp.sect = s])))

f_read(v, n) ==
  Then(Allowed(v, "READ"), LAMBDA w : Abort(ReadLoop(w, Lowest(n, w.fp.size - w.fp.fptr))))

ClusterToWrite(v) ==
  IF OffsetInCluster(v) # 0 THEN [Ok(v) EXCEPT !.val = v.fp.clust]
  ELSE Then(IF v.fp.fptr # 0 THEN create_chain(v, v.fp.clust)
            ELSE IF v.fp.sclust = 0 THEN create_chain(v, 0) ELSE [Ok(v) EXCEPT !.val = v.fp.sclust], LAMBDA w :
         IF w.val = 0 THEN w
         ELSE [w EXCEPT !.fp.clust = w.val, !.fp.sclust = IF @ = 0 THEN w.val ELSE @])

Advance(v, k) ==
  LET to == v.fp.fptr + k IN [v EXCEPT !.fp.fptr = to, !.fp.size = IF to > @ THEN to ELSE @]

RECURSIVE PutAll(_, _, _, _)
PutAll(v, s, n, sector) == IF n = 0 THEN v ELSE PutAll(Put(v, s, sector), s + 1, n - 1, sector)

(* n units of k; v.val = 0 when the disk got full. *)
RECURSIVE WriteLoop(_, _, _)
WriteLoop(v, k, n) ==
  LET full == [j \in 1..SS |-> Unit(k)]
      Fitted(w) ==
        LET m == Lowest(SS - (w.fp.fptr % SS), n)
            at == w.fp.fptr % SS
        IN WriteLoop(Advance([w EXCEPT !.fp.buf = [j \in 1..SS |-> IF j \in (at + 1)..(at + m) THEN Unit(k) ELSE @[j]],
                                       !.fp.dirty = TRUE], m), k, n - m)
  IN IF n = 0 THEN Ok(v)
     ELSE IF v.fp.fptr % SS # 0 THEN Fitted(v)
     ELSE Then(ClusterToWrite(v), LAMBDA c :
          IF c.val = 0 THEN c
          ELSE Then(WriteBack(c), LAMBDA w :
            LET s == SectorAt(w)
                cc == Lowest(n \div SS, w.g.csize - OffsetInCluster(w))
                stale == w.fp.sect \in s..(s + cc - 1)
            IN IF cc > 0
               THEN LET u == Io(w)
                        x == IF u.res = "OK" \/ w.late THEN PutAll(u, s, cc, full) ELSE u
                    IN Then(x, LAMBDA y :
                         WriteLoop(Advance([y EXCEPT !.fp.buf = IF stale THEN full ELSE @,
                                                     !.fp.dirty = @ /\ ~stale], cc * SS), k, n - cc * SS))
               ELSE Then(IF w.fp.sect # s /\ w.fp.fptr < w.fp.size THEN Load(w, s) ELSE w, LAMBDA u :
                      Fitted([u EXCEPT !.fp.sect = s]))))

f_write(v, k, n) ==
  Then(Allowed(v, "WRITE"), LAMBDA w :
    Then(Abort(WriteLoop(w, k, n)), LAMBDA u : [u EXCEPT !.fp.modified = TRUE]))

f_sync(v) ==
  Then(validate(v), LAMBDA w :
    IF ~w.fp.modified THEN w
    ELSE Then(WriteBack(w), LAMBDA x : Then(move_window(x, x.fp.dir_sect), LAMBDA y :
           LET e == [y.win[y.fp.dir_ptr + 1] EXCEPT ![3] = y.fp.sclust, ![4] = y.fp.size]
           IN [sync_fs([y EXCEPT !.win[y.fp.dir_ptr + 1] = e, !.wflag = TRUE]) EXCEPT !.fp.modified = FALSE])))

f_close(v) == Then(f_sync(v), LAMBDA w : [w EXCEPT !.fp = NoFil])

(* The clusters to an offset, from cluster c; a file open for writing grows. *)
RECURSIVE SeekLoop(_, _, _)
SeekLoop(v, c, ofs) ==
  LET bcs == v.g.csize * SS
      there == [Ok(v) EXCEPT !.fp.fptr = @ + ofs, !.val = IF ofs % SS = 0 THEN 0 ELSE clst2sect(v.g, c) + ofs \div SS]
      next == [v EXCEPT !.fp.fptr = @ + bcs]
  IN IF ofs <= bcs THEN there
     ELSE Then(IF "WRITE" \in v.fp.mode THEN create_chain(next, c) ELSE get_fat(next, c), LAMBDA w :
            IF w.val = 0 /\ "WRITE" \in v.fp.mode THEN w
            ELSE IF ~InChain(w, w.val) THEN Res(w, "INT_ERR")
            ELSE SeekLoop([w EXCEPT !.fp.clust = w.val], w.val, ofs - bcs))

SeekFrom(v, target, old) ==
  LET bcs == v.g.csize * SS
      base == ((old - 1) \div bcs) * bcs
  IN IF target = 0 THEN [Ok(v) EXCEPT !.val = 0]
     ELSE IF old > 0 /\ (target - 1) \div bcs >= (old - 1) \div bcs
     THEN SeekLoop([v EXCEPT !.fp.fptr = base], v.fp.clust, target - base)
     ELSE Then(IF v.fp.sclust = 0 THEN create_chain(v, 0) ELSE [Ok(v) EXCEPT !.val = v.fp.sclust], LAMBDA w :
            LET u == [w EXCEPT !.fp.sclust = w.val, !.fp.clust = w.val]
            IN IF w.val = 0 THEN u ELSE SeekLoop(u, w.val, target))

f_lseek(v, ofs) ==
  Then(Then(validate(v), LAMBDA w : Res(w, w.fp.err)), LAMBDA w :
    LET target == IF ofs > w.fp.size /\ "WRITE" \notin w.fp.mode THEN w.fp.size ELSE ofs
        grown(u) == IF u.fp.fptr > u.fp.size THEN [u EXCEPT !.fp.size = u.fp.fptr, !.fp.modified = TRUE] ELSE u
    IN Abort(Then(SeekFrom([w EXCEPT !.fp.fptr = 0], target, w.fp.fptr), LAMBDA u :
         LET s == u.val
         IN IF u.fp.fptr % SS = 0 \/ s = u.fp.sect THEN grown(u)
            ELSE Then(WriteBack(grown(u)), LAMBDA x : Then(Load(x, s), LAMBDA y : [y EXCEPT !.fp.sect = s])))))

f_truncate(v) ==
  Then(Allowed(v, "WRITE"), LAMBDA w :
    IF w.fp.fptr >= w.fp.size THEN w
    ELSE LET cut == IF w.fp.fptr = 0 THEN [remove_chain(w, w.fp.sclust, 0) EXCEPT !.fp.sclust = 0]
                    ELSE Then(get_fat(w, w.fp.clust), LAMBDA u :
                           IF u.val = 1 THEN Res(u, "INT_ERR")
                           ELSE IF u.val < n_fatent(u.g) THEN remove_chain(u, u.val, u.fp.clust) ELSE u)
         IN Abort(Then([cut EXCEPT !.fp.size = cut.fp.fptr, !.fp.modified = TRUE], WriteBack)))
---------------------------------------------------------------------------
(* The functions on names. *)
Creates(mode) == mode \cap {"CREATE_NEW", "CREATE_ALWAYS", "OPEN_ALWAYS"} # {}

(* The entry in the window becomes an empty file; its clusters are freed, *)
(* and looked at first for the next file.                                 *)
Emptied(v) ==
  LET c == ld_clust(v)
      s == v.winsect
      w == SetEntry(v, <<"file", DirEntry(v)[2], 0, 0>>)
  IN IF c = 0 THEN w
     ELSE Then(remove_chain(w, c, 0), LAMBDA u : [move_window(u, s) EXCEPT !.last = c - 1])

(* The last cluster of a file of that size. *)
RECURSIVE LastCluster(_, _, _)
LastCluster(v, c, size) ==
  IF size <= v.g.csize * SS THEN [Ok(v) EXCEPT !.val = c]
  ELSE Then(get_fat(v, c), LAMBDA w :
         IF w.val <= 1 THEN Res(w, "INT_ERR") ELSE LastCluster(w, w.val, size - v.g.csize * SS))

AtEnd(v) ==
  Then(LastCluster(v, v.fp.sclust, v.fp.size), LAMBDA w :
    LET ofs == ((w.fp.size - 1) % (w.g.csize * SS)) + 1
        s == clst2sect(w.g, w.val) + ofs \div SS
        u == [w EXCEPT !.fp.fptr = w.fp.size, !.fp.clust = w.val]
    IN IF ofs % SS = 0 THEN u ELSE Load([u EXCEPT !.fp.sect = s], s))

f_open(v, path, mode) ==
  LET Entry(found) == \* the entry, a new one if need be
        IF ~Creates(mode)
        THEN Then(found, LAMBDA w : IF w.dp.attr = "dir" THEN Res(w, "NO_FILE") ELSE w)
        ELSE IF found.res = "NO_FILE" THEN dir_register(found, Final(path))
        ELSE Then(found, LAMBDA w :
               IF "CREATE_NEW" \in mode THEN Res(w, "EXIST") ELSE IF w.dp.attr = "dir" THEN Res(w, "DENIED") ELSE w)
      Opened(w, new) ==
        LET e == DirEntry(w)
            u == [w EXCEPT !.fp = [NoFil EXCEPT !.fs = TRUE, !.mode = mode, !.modified = new, !.dir_sect = w.winsect,
                                     !.dir_ptr = w.dp.dptr % SS, !.sclust = e[3], !.size = e[4]]]
        IN IF "SEEKEND" \in mode /\ e[4] > 0 THEN AtEnd(u) ELSE u
      OpenedAs(found) ==
        LET new == Creates(mode) /\ (found.res = "NO_FILE" \/ "CREATE_ALWAYS" \in mode)
        IN Then(Then(Entry(found), LAMBDA w : IF new THEN Emptied(w) ELSE w), LAMBDA w : Opened(w, new))
  IN Given(Given(follow_path(v, path), OpenedAs), LAMBDA w : IF w.res = "OK" THEN w ELSE [w EXCEPT !.fp = NoFil])

f_unlink(v, path) ==
  Then(follow_path(v, path), LAMBDA w :
    LET c == ld_clust(w)
        empty == IF w.dp.attr # "dir" THEN w
                 ELSE [Then(dir_sdi([w EXCEPT !.dp.sclust = c], 0), dir_read) EXCEPT
                         !.res = CASE @ = "OK" -> "DENIED" [] @ = "NO_FILE" -> "OK" [] OTHER -> @]
    IN Then(empty, LAMBDA x :
       Then(dir_remove([x EXCEPT !.dp = w.dp]), LAMBDA y :
       Then(IF c = 0 THEN y ELSE remove_chain(y, c, 0), sync_fs))))

f_mkdir(v, path) ==
  LET Entered(n, c) ==
        Then(Then(IF c = 0 THEN Res(n, "DENIED") ELSE n, LAMBDA u : dir_clear(u, c)), LAMBDA u :
          dir_register([u EXCEPT !.win[1] = <<"dot", "", c, 0>>, !.win[2] = <<"dot", "", u.dp.sclust, 0>>,
                                 !.wflag = TRUE], Final(path)))
      Settle(u, c) ==
        IF u.res = "OK" THEN sync_fs(SetEntry(u, <<"dir", Final(path), c, 0>>)) ELSE Res(remove_chain(u, c, 0), u.res)
  IN Given(follow_path(v, path), LAMBDA w :
       IF w.res = "OK" THEN Res(w, "EXIST")
       ELSE IF w.res # "NO_FILE" THEN w
       ELSE Then(create_chain(w, 0), LAMBDA n : Settle(Entered(n, n.val), n.val)))

f_rename(v, from, to) ==
  Then(follow_path(v, from), LAMBDA w :
    LET e == DirEntry(w)
        Same(free) == free.res = "OK" /\ free.dp.sclust = w.dp.sclust /\ free.dp.dptr = w.dp.dptr
    IN Given(follow_path(w, to), LAMBDA free :
       IF free.res # "NO_FILE" /\ ~Same(free)
       THEN Instead(free, "OK", "EXIST")
       ELSE Then(Then(dir_register(free, Final(to)), LAMBDA u : SetEntry(u, [e EXCEPT ![2] = Final(to)])), LAMBDA u :
            Then(IF e[1] # "dir" \/ u.dp.sclust = w.dp.sclust THEN u
                 ELSE Then(move_window(u, clst2sect(u.g, e[3])), LAMBDA x :
                        IF x.win[2][1] # "dot" THEN x
                        ELSE [x EXCEPT !.win[2][3] = u.dp.sclust, !.wflag = TRUE]), LAMBDA x :
            Then(dir_remove([x EXCEPT !.dp = w.dp]), sync_fs)))))

f_stat(v, path) == follow_path(v, path)

(* f_opendir() and f_readdir() until the end of the directory. *)
RECURSIVE ReadAll(_)
ReadAll(v) ==
  LET After(u) == dir_next([u EXCEPT !.out = Append(@, DirEntry(u)[2])], FALSE)
      OrEnd(w, P(_)) == IF w.res = "NO_FILE" THEN Ok(w) ELSE Then(w, P)
  IN OrEnd(dir_read(v), LAMBDA u : OrEnd(After(u), ReadAll))

ListDir(v, path) ==
  LET w == IF path = <<>> THEN [Ok(v) EXCEPT !.dp.sclust = 0]
           ELSE Then(follow_path(v, path), LAMBDA u :
                  IF u.dp.attr = "dir" THEN [u EXCEPT !.dp.sclust = ld_clust(u)] ELSE Res(u, "NO_PATH"))
  IN Then(Instead(Then(w, LAMBDA u : dir_sdi(u, 0)), "NO_FILE", "NO_PATH"), ReadAll)

RECURSIVE CountFree(_, _)
CountFree(v, c) ==
  IF c = n_fatent(v.g) THEN Ok(v)
  ELSE Then(move_window(v, fatbase + c \div SS), LAMBDA w :
         CountFree(IF w.win[(c % SS) + 1] = <<0>> THEN [w EXCEPT !.val = @ + 1] ELSE w, c + 1))

(* The entries 0 and 1 are never 0. *)
f_getfree(v) ==
  IF Counted(v) THEN [Ok(v) EXCEPT !.val = v.free]
  ELSE Then(CountFree([v EXCEPT !.val = 0], 0), LAMBDA w :
         [w EXCEPT !.free = w.val, !.fsi = IF @ = 0 THEN 1 ELSE @])
=============================================================================
