---------------------------- MODULE MCFiles ----------------------------
(* The volumes and the programs of calls on them that are explored.         *)
EXTENDS FatFs, VfsFat, TLC

-----------------------------------------------------------------------------
(* Volumes with one difficulty each: a full disk, a long name, a moved       *)
(* directory, files that grow into each other, a disk that fails.            *)

MCLfn == [a |-> 0, b |-> 0, long |-> 1, d |-> 0]

Fat16(csize, clusters, rootdir, fats) ==
  [fat32 |-> FALSE, csize |-> csize, clusters |-> clusters, rootdir |-> rootdir, fats |-> fats]
Fat32(csize, clusters) == [fat32 |-> TRUE, csize |-> csize, clusters |-> clusters, rootdir |-> 0, fats |-> 1]

On_(op, p) == [op |-> op, path |-> p, to |-> p, mode |-> {}, n |-> 0]
OpenAs(p, m) == [On_("open", p) EXCEPT !.mode = m]
Count(op, n) == [On_(op, <<>>) EXCEPT !.n = n]
Move(p, q) == [On_("rename", p) EXCEPT !.to = q]
Simple(ops) == {On_(op, <<>>) : op \in ops}
RW == {"READ", "WRITE"}

A == <<"a">>
B == <<"b">>
D == <<"d">>
Long == <<"long">>

Rewrite ==
  [g |-> Fat16(2, 4, 4, 2), start |-> <<<<A, 3>>, <<B, 1>>>>, max |-> 5, faults |-> 0,
   calls |-> {OpenAs(A, RW), OpenAs(B, RW \union {"CREATE_ALWAYS"})}
             \union {Count("write", n) : n \in {1, 4}} \union {Count("read", 5)} \union {Count("seek", n) : n \in {0, 2, 7}}
             \union Simple({"truncate", "close", "free"})]

Renames ==
  [g |-> Fat32(1, 7), start |-> <<<<D, -1>>, <<<<"d", "a">>, 2>>, <<A, 1>>>>, max |-> 5, faults |-> 0,
   calls |-> {OpenAs(Long, {"WRITE", "CREATE_NEW"}), Move(<<"d", "a">>, Long), Move(D, B), Move(Long, <<"b", "long">>),
              On_("mkdir", <<"d", "long">>), On_("unlink", A), On_("unlink", Long), On_("unlink", <<"d", "a">>),
              On_("unlink", D), On_("list", D), On_("list", <<>>), On_("stat", <<"b", "a">>)}
             \union Simple({"close", "free"})]

Full ==
  [g |-> Fat16(1, 4, 4, 1), start |-> <<<<D, -1>>, <<B, 3>>>>, max |-> 4, faults |-> 0,
   calls |-> {OpenAs(A, {"WRITE", "OPEN_ALWAYS", "SEEKEND"}), OpenAs(Long, {"WRITE", "CREATE_ALWAYS"}),
              OpenAs(<<"d", "a">>, {"WRITE", "CREATE_NEW"}), On_("unlink", B), On_("unlink", A), On_("mkdir", Long),
              On_("mkdir", <<"d", "b">>), Move(B, Long), Count("write", 3), Count("seek", 5), On_("list", <<>>)}
             \union Simple({"close", "free"})]

FaultyData ==
  [g |-> Fat16(1, 6, 4, 2), start |-> <<<<A, 3>>, <<B, 2>>>>, max |-> 5, faults |-> 6,
   calls |-> {OpenAs(A, RW), OpenAs(B, {"WRITE", "CREATE_ALWAYS"}), Count("write", 3), Count("seek", 2), Count("read", 3)}
             \union Simple({"sync", "close", "truncate"})]

FaultyNames ==
  [g |-> Fat32(1, 8), start |-> <<<<D, -1>>, <<<<"d", "a">>, 2>>, <<A, 1>>, <<Long, 3>>>>, max |-> 4, faults |-> 9,
   calls |-> {Move(Long, <<"d", "long">>), Move(<<"d", "a">>, B), Move(D, B), On_("mkdir", <<"d", "b">>), On_("unlink", Long),
              On_("unlink", A), On_("list", <<>>), On_("list", D), On_("stat", B), OpenAs(A, RW), Count("read", 1)}
             \union Simple({"close", "free"})]

Unused == [g |-> Fat16(1, 1, 2, 1), start |-> <<>>, max |-> 0, faults |-> 0, calls |-> {}]

MCVolumes == {Unused, Rewrite, Renames, Full, FaultyData, FaultyNames}

-----------------------------------------------------------------------------
(* Two tasks' calls: on descriptors of their own, on a shared one, on names *)
(* and streams, on contexts.                                                *)

OpenIt(n, flags) == [op |-> "open", n |-> n, flags |-> flags]
WriteIt(fd, x) == [op |-> "write", fd |-> fd, x |-> x]
ReadIt(fd, k) == [op |-> "read", fd |-> fd, k |-> k]
PreadIt(fd, k, ofs) == [op |-> "pread", fd |-> fd, k |-> k, ofs |-> ofs]
PwriteIt(fd, x, ofs) == [op |-> "pwrite", fd |-> fd, x |-> x, ofs |-> ofs]
SeekIt(fd, from, ofs) == [op |-> "lseek", fd |-> fd, from |-> from, ofs |-> ofs]
OnIt(op, fd) == [op |-> op, fd |-> fd]
NameIt(op, n, m) == [op |-> op, n |-> n, m |-> m]
CutIt(n, k) == [op |-> "truncate", n |-> n, k |-> k]
StreamIt(op, ofs) == [op |-> op, ofs |-> ofs]
PathIt(op, p) == [op |-> op, path |-> p]

Mine == -1
OnDisk == (1 :> <<5, 6>>) @@ (2 :> Absent) @@ (3 :> <<7>>)
Case(a, b) == [files |-> OnDisk, calls |-> ("t1" :> a) @@ ("t2" :> b)]

Owners == Case(<<OpenIt(1, {"RDWR", "APPEND"}), ReadIt(Mine, 1), WriteIt(Mine, <<8>>), ReadIt(Mine, 1), OnIt("close", Mine)>>,
               <<OpenIt(3, {"RDONLY", "APPEND"}), WriteIt(Mine, <<1>>), OpenIt(2, {"RDWR", "CREAT", "EXCL"}), PwriteIt(Mine, <<9, 9>>, 1), WriteIt(Mine, <<1>>), OnIt("fsync", Mine)>>)

Places_ == Case(<<OpenIt(1, {"RDWR"}), ReadIt(Mine, 1), PwriteIt(Mine, <<8, 8>>, 3), PreadIt(Mine, 2, 0), SeekIt(Mine, "CUR", 2),
                  WriteIt(Mine, <<4>>), SeekIt(Mine, "END", -1), WriteIt(Mine, <<3>>)>>,
                <<OpenIt(2, {"RDONLY", "CREAT"}), OpenIt(3, {"WRONLY", "CREAT", "TRUNC"}), SeekIt(Mine, "SET", 1),
                  PreadIt(Mine, 1, 0), OnIt("close", Mine), CutIt(3, 0), CutIt(3, 2)>>)

Shared == Case(<<OpenIt(1, {"RDWR", "APPEND"}), PreadIt(Mine, 1, 0), WriteIt(Mine, <<8>>), OnIt("close", Mine)>>,
               <<OpenIt(3, {"RDONLY"}), ReadIt(0, 1), SeekIt(0, "SET", 0), WriteIt(0, <<9>>), OnIt("close", Mine)>>)

Names_ == Case(<<NameIt("link", 1, 2), NameIt("link", 1, 2), CutIt(1, 1), NameIt("access", 2, 2), NameIt("utime", 1, 1)>>,
               <<NameIt("stat", 3, 3), CutIt(3, 0), NameIt("unlink", 3, 3), NameIt("mkdir", 3, 3), OpenIt(3, {"RDONLY"}), NameIt("rmdir", 3, 3)>>)

Stream == Case(<<StreamIt("opendir", 0), StreamIt("readdir", 0), StreamIt("readdir", 0), StreamIt("seekdir", 1), StreamIt("readdir", 0),
                 StreamIt("readdir", 0), StreamIt("seekdir", 3), StreamIt("seekdir", 0), StreamIt("closedir", 0)>>,
               <<StreamIt("readdir", 0), NameIt("rename", 1, 3), StreamIt("opendir", 0), NameIt("rename", 1, 2), StreamIt("readdir", 0)>>)

Contexts_ == Case(<<PathIt("register", "/sd"), PathIt("register", "/sd"), PathIt("register", "/a"), PathIt("register", "/b"),
                    PathIt("unregister", "/sd"), PathIt("unregister", "/sd"), PathIt("register", "/b")>>, <<>>)

MCPrograms == {Owners, Places_, Shared, Names_, Stream, Contexts_}
=============================================================================
