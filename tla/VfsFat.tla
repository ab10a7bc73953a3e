------------------------------- MODULE VfsFat -------------------------------
(***************************************************************************)
(* The POSIX face of a FAT volume: descriptors, the context's lock, the    *)
(* directory streams, the contexts of the volumes.  Tasks make calls at    *)
(* the same time; a call is a sequence of FatFs calls, each atomic under   *)
(* the volume's mutex, and one of them may fail with FR_DISK_ERR.          *)
(* Source: fatfs/vfs/vfs_fat.c.                                            *)
(* A file's name is its place in the directory.  FatFs is what FatFs.tla   *)
(* shows it to be.                                                         *)
(***************************************************************************)
EXTENDS Integers, FiniteSets, Sequences

CONSTANTS
  Programs, \* what the tasks call: [files, calls]
  MaxFiles, \* the descriptors of a context
  FF_VOLUMES,
  CopyUnit  \* what vfs_fat_link() copies at a time: fs.csize

Tasks == {"t1", "t2"}
Fds == 0..(MaxFiles - 1)
Places == 1..3

VARIABLES
  program,  \* one of Programs
  left,     \* the calls each task has yet to make
  frame,    \* frame[t]: where task t is in its call
  lock,     \* who holds fat_ctx->lock, or "free"
  files,    \* the FILs of the context's descriptors
  o_append,
  mine,     \* mine[t]: the descriptor open() gave to t
  dirs,     \* dirs[t]: the stream opendir() gave to t
  store,    \* store[n]: the content of the file at place n, or Absent
  memory,   \* what is allocated: <<what, whose>>
  contexts, \* s_fat_ctxs: the base path of each, or "NULL"
  mounted,  \* the paths the VFS layer knows
  vret,     \* vret[t]: what t's last call returned
  trouble,  \* an allocation or FatFs call has failed: {"disk", "memory"}
  posix,    \* the files and descriptors as POSIX has them: [disk, pos]
  mixed     \* calls on one descriptor, or a directory's change and its reading, have overlapped,
            \* or a file was opened or removed while it was open

vfsVars == <<program, left, frame, lock, files, o_append, mine, dirs, store, memory, contexts,
             mounted, vret, trouble, posix, mixed>>

Absent == <<-1>>
Dir_ == <<-2>>

(* What tasks may ask for, the flags that creat() and fopen() use, and what *)
(* is on the volume.                                                        *)
PosixCalls ==
  [op : {"open"}, n : Places, flags : SUBSET {"RDONLY", "WRONLY", "RDWR", "CREAT", "EXCL", "TRUNC", "APPEND"}]
  \union [op : {"write"}, fd : Int, x : Seq(Nat)] \union [op : {"read"}, fd : Int, k : Nat]
  \union [op : {"pread"}, fd : Int, k : Nat, ofs : Nat] \union [op : {"pwrite"}, fd : Int, x : Seq(Nat), ofs : Nat]
  \union [op : {"lseek"}, fd : Int, from : {"SET", "CUR", "END"}, ofs : Int] \union [op : {"close", "fsync"}, fd : Int]
  \union [op : {"stat", "access", "utime", "unlink", "rmdir", "rename", "mkdir", "link"}, n : Places, m : Places]
  \union [op : {"truncate"}, n : Places, k : Nat]
  \union [op : {"opendir", "readdir", "seekdir", "closedir"}, ofs : Nat]
  \union [op : {"register", "unregister"}, path : STRING \ {"NULL"}]

ASSUME VfsConstants ==
  /\ MaxFiles \in Nat \ {0} /\ FF_VOLUMES \in Nat /\ CopyUnit \in Nat \ {0}
  /\ \A p \in Programs :
       p.files \in [Places -> {Absent, Dir_} \union Seq(Nat)] /\ p.calls \in [Tasks -> Seq(PosixCalls)]

NoFIL == [fs |-> FALSE, n |-> 0, pos |-> 0, err |-> FALSE, mode |-> {}]
NoDIR == [open |-> FALSE, at |-> 0, offset |-> 0]
Idle_ == [at |-> "idle", fd |-> 0, keep |-> 0, res |-> "OK", got |-> <<>>, size |-> 0, in |-> NoFIL, out |-> NoFIL]

VfsInit ==
  /\ program \in Programs
  /\ left = program.calls /\ frame = [t \in Tasks |-> Idle_] /\ lock = "free"
  /\ files = [fd \in Fds |-> NoFIL] /\ o_append = [fd \in Fds |-> FALSE]
  /\ mine = [t \in Tasks |-> 0] /\ dirs = [t \in Tasks |-> NoDIR]
  /\ store = program.files /\ memory = {} /\ contexts = [i \in 1..FF_VOLUMES |-> "NULL"] /\ mounted = {}
  /\ vret = [t \in Tasks |-> "none"] /\ trouble = {} /\ mixed = FALSE
  /\ posix = [disk |-> program.files, pos |-> [fd \in Fds |-> 0]]

-----------------------------------------------------------------------------
(* FatFs, as FatFs.tla has it: each call gives [res, fil, disk, got].       *)

Done(res, f, d, got) == [res |-> res, fil |-> f, disk |-> d, got |-> got]
Refused(res, f) == Done(res, f, store, <<>>)
FillFrom(n) == [i \in 1..n |-> 0]
LesserOf(a, b) == IF a < b THEN a ELSE b

Overwrite(s, pos, x) ==
  [i \in 1..(IF Len(s) > pos + Len(x) THEN Len(s) ELSE pos + Len(x)) |->
     IF i \in (pos + 1)..(pos + Len(x)) THEN x[i - pos] ELSE IF i <= Len(s) THEN s[i] ELSE 0]

OpenedFor(n, mode) ==
  LET there == store[n] # Absent
      creates == mode \cap {"CREATE_NEW", "CREATE_ALWAYS", "OPEN_ALWAYS"} # {}
      f == [fs |-> TRUE, n |-> n, pos |-> 0, err |-> FALSE, mode |-> mode]
  IN IF there /\ "CREATE_NEW" \in mode THEN Refused("EXIST", NoFIL)
     ELSE IF store[n] = Dir_ THEN Refused(IF creates THEN "DENIED" ELSE "NO_FILE", NoFIL)
     ELSE IF ~there /\ ~creates THEN Refused("NO_FILE", NoFIL)
     ELSE Done("OK", f, IF there /\ "CREATE_ALWAYS" \notin mode THEN store ELSE [store EXCEPT ![n] = <<>>], <<>>)

(* A FIL that was closed meanwhile, had an error, or is not open for this.  *)
Denied(f, a) ==
  IF ~f.fs THEN "INVALID_OBJECT" ELSE IF f.err THEN "DISK_ERR" ELSE IF a \in f.mode THEN "OK" ELSE "DENIED"

ReadFrom_(f, k) ==
  IF Denied(f, "READ") # "OK" THEN Refused(Denied(f, "READ"), f)
  ELSE LET to == LesserOf(f.pos + k, Len(store[f.n]))
       IN Done("OK", [f EXCEPT !.pos = to], store, SubSeq(store[f.n], f.pos + 1, to))

WriteTo(f, x) ==
  IF Denied(f, "WRITE") # "OK" THEN Refused(Denied(f, "WRITE"), f)
  ELSE Done("OK", [f EXCEPT !.pos = @ + Len(x)], [store EXCEPT ![f.n] = Overwrite(@, f.pos, x)], x)

(* Past the end the file grows, or the end is as far as it goes. *)
SeekTo(f, ofs) ==
  LET size == Len(store[f.n])
  IN IF ~f.fs \/ f.err THEN Refused(Denied(f, "READ"), f)
     ELSE IF "WRITE" \in f.mode /\ ofs > size
       THEN Done("OK", [f EXCEPT !.pos = ofs], [store EXCEPT ![f.n] = @ \o FillFrom(ofs - size)], <<>>)
     ELSE Done("OK", [f EXCEPT !.pos = LesserOf(ofs, size)], store, <<>>)

CutHere(f) == Done("OK", f, [store EXCEPT ![f.n] = SubSeq(@, 1, LesserOf(f.pos, Len(@)))], <<>>)

(* What a call may come to; a failure while data is moved stays in the FIL. *)
Ends(r, f) == {r} \union (IF "disk" \in trouble \/ r.res # "OK" THEN {} ELSE {Done("DISK_ERR", [f EXCEPT !.err = f.fs], store, <<>>)})

fresult_to_errno ==
  [r \in {"OK", "DISK_ERR", "NO_FILE", "DENIED", "EXIST", "INVALID_OBJECT"} |->
     CASE r = "OK" -> "0" [] r = "DISK_ERR" -> "EIO" [] r = "NO_FILE" -> "ENOENT"
       [] r = "DENIED" -> "EACCES" [] r = "EXIST" -> "EEXIST" [] r = "INVALID_OBJECT" -> "EBADF"]

fat_mode_conv(m) ==
  {a \in {"READ", "WRITE"} : "RDWR" \in m \/ (IF a = "READ" THEN "RDONLY" ELSE "WRONLY") \in m}
  \union {IF {"CREAT", "EXCL"} \subseteq m THEN "CREATE_NEW"
          ELSE IF {"CREAT", "TRUNC"} \subseteq m THEN "CREATE_ALWAYS"
          ELSE IF "APPEND" \in m THEN "OPEN_ALWAYS" ELSE "OPEN_EXISTING"}

-----------------------------------------------------------------------------
(* How a call goes on. *)

Call(t) == Head(left[t])
CallBegins(t, op) == frame[t].at = "idle" /\ left[t] # <<>> /\ Call(t).op = op
At(t, op, at) == frame[t].at = at /\ Call(t).op = op
FdOf(t) == IF Call(t).fd = -1 THEN mine[t] ELSE Call(t).fd
Valid(t) == FdOf(t) \in Fds /\ files[FdOf(t)].fs

Goto_(t, f) == frame' = [frame EXCEPT ![t] = f]
TakeLock(t) == lock = "free" /\ lock' = t
GiveLock(t) == lock = t /\ lock' = "free"

Return(t, r) ==
  /\ left' = [left EXCEPT ![t] = Tail(@)] /\ vret' = [vret EXCEPT ![t] = r]
  /\ Goto_(t, Idle_)

Fails(t, res) == Return(t, fresult_to_errno[res])
Trouble(res) == trouble' = trouble \union (IF res = "DISK_ERR" THEN {"disk"} ELSE {})
Means(p) == posix' = p
PutFil(fd, r) == files' = [files EXCEPT ![fd] = r.fil] /\ store' = r.disk

(* A single call on a descriptor, or one in the middle of which another's is. *)
OnFd == {"write", "read", "pread", "pwrite", "lseek", "close", "fsync"}
Overlaps(t, fd) == \E u \in Tasks \ {t} : frame[u].at # "idle" /\ Call(u).op \in OnFd /\ frame[u].fd = fd
Mixes(b) == mixed' = (mixed \/ b)

(* FatFs, without FF_FS_LOCK, leaves it to its callers to open a file once  *)
(* and not to remove an open one (ffconf.h:444-449).                        *)
OpenAlready(n) ==
  \/ \E fd \in Fds : files[fd].fs /\ files[fd].n = n
  \/ \E t \in Tasks : \E f \in {frame[t].in, frame[t].out} : f.fs /\ f.n = n

Streaming == \E t \in Tasks : dirs[t].open

Contexts == <<contexts, mounted>>
Streams_ == <<mine, dirs>>

(* The VFS layer refuses a descriptor or a stream that is not open. *)
Refuse(t) ==
  /\ frame[t].at = "idle" /\ left[t] # <<>>
  /\ \/ Call(t).op \in OnFd /\ ~Valid(t)
     \/ Call(t).op \in {"readdir", "seekdir", "closedir"} /\ ~dirs[t].open
  /\ Return(t, "EBADF")
  /\ UNCHANGED <<program, lock, files, o_append, Streams_, store, memory, Contexts, trouble, posix, mixed>>

-----------------------------------------------------------------------------
(* vfs_fat_open(): the descriptor is chosen and filled under the lock. *)

get_next_fd == {fd \in Fds : ~files[fd].fs /\ \A x \in 0..(fd - 1) : files[x].fs}

OpenStart(t) ==
  /\ CallBegins(t, "open") /\ lock = "free"
  /\ IF get_next_fd = {} THEN Return(t, "ENFILE") /\ UNCHANGED lock
     ELSE \E fd \in get_next_fd :
            TakeLock(t) /\ Goto_(t, [Idle_ EXCEPT !.at = "f_open", !.fd = fd]) /\ UNCHANGED <<left, vret>>
  /\ UNCHANGED <<program, files, o_append, Streams_, store, memory, Contexts, trouble, posix, mixed>>

OpenPath(t) ==
  /\ At(t, "open", "f_open") /\ GiveLock(t)
  /\ LET c == Call(t)
         fd == frame[t].fd
     IN \E r \in Ends(OpenedFor(c.n, fat_mode_conv(c.flags)), NoFIL) :
          /\ PutFil(fd, r) /\ Trouble(r.res)
          /\ IF r.res = "OK"
               THEN /\ o_append' = [o_append EXCEPT ![fd] = "APPEND" \in c.flags]
                    /\ Return(t, "fd") /\ mine' = [mine EXCEPT ![t] = fd]
                    /\ Means([disk |-> [posix.disk EXCEPT ![c.n] =
                                          IF @ = Absent \/ {"CREAT", "TRUNC"} \subseteq c.flags THEN <<>> ELSE @],
                              pos |-> [posix.pos EXCEPT ![fd] = 0]])
               ELSE Fails(t, r.res) /\ mine' = [mine EXCEPT ![t] = -1] /\ UNCHANGED <<o_append, posix>>
          /\ Mixes((Streaming /\ store' # store) \/ (r.res = "OK" /\ OpenAlready(c.n)))
  /\ UNCHANGED <<program, dirs, memory, Contexts>>

(* f_close(), and file_cleanup() whatever it returns. *)
Close(t) ==
  /\ CallBegins(t, "close") /\ Valid(t) /\ lock = "free"
  /\ LET fd == FdOf(t)
     IN \E r \in Ends(Done("OK", NoFIL, store, <<>>), files[fd]) :
          /\ files' = [files EXCEPT ![fd] = NoFIL]
          /\ Fails(t, r.res) /\ Trouble(r.res) /\ Mixes(Overlaps(t, fd))
  /\ UNCHANGED <<program, lock, o_append, Streams_, store, memory, Contexts, posix>>

Fsync(t) ==
  /\ CallBegins(t, "fsync") /\ Valid(t) /\ lock = "free"
  /\ \E r \in Ends(Done("OK", files[FdOf(t)], store, <<>>), files[FdOf(t)]) : Fails(t, r.res) /\ Trouble(r.res)
  /\ UNCHANGED <<program, lock, files, o_append, Streams_, store, memory, Contexts, posix, mixed>>

-----------------------------------------------------------------------------
(* vfs_fat_write(), vfs_fat_read(), vfs_fat_lseek(): without the lock. *)

WriteStart(t) ==
  /\ CallBegins(t, "write") /\ Valid(t)
  /\ LET fd == FdOf(t)
     IN /\ Goto_(t, [Idle_ EXCEPT !.at = IF o_append[fd] THEN "end" ELSE "write", !.fd = fd,
                                  !.keep = Len(store[files[fd].n])])
        /\ Mixes(Overlaps(t, fd))
  /\ UNCHANGED <<program, left, lock, files, o_append, Streams_, store, memory, Contexts, vret, trouble, posix>>

WriteSeeks(t) ==
  /\ At(t, "write", "end")
  /\ LET fd == frame[t].fd
     IN \E r \in Ends(SeekTo(files[fd], frame[t].keep), files[fd]) :
          /\ PutFil(fd, r) /\ Trouble(r.res)
          /\ IF r.res = "OK" THEN Goto_(t, [frame[t] EXCEPT !.at = "write"]) /\ UNCHANGED <<left, vret>>
                            ELSE Fails(t, r.res)
  /\ UNCHANGED <<program, lock, o_append, Streams_, memory, Contexts, posix, mixed>>

(* POSIX, except that a refused append leaves the position at the end. *)
Written(fd, x) ==
  LET n == files[fd].n
      at == IF o_append[fd] THEN Len(posix.disk[n]) ELSE posix.pos[fd]
  IN [disk |-> [posix.disk EXCEPT ![n] = Overwrite(@, at, x)], pos |-> [posix.pos EXCEPT ![fd] = at + Len(x)]]
Unwritten(fd) ==
  IF o_append[fd] THEN [posix EXCEPT !.pos[fd] = Len(posix.disk[files[fd].n])] ELSE posix

Write(t) ==
  /\ At(t, "write", "write")
  /\ LET fd == frame[t].fd
     IN \E r \in Ends(WriteTo(files[fd], Call(t).x), files[fd]) :
          /\ PutFil(fd, r) /\ Trouble(r.res) /\ Fails(t, r.res)
          /\ Means(IF mixed THEN posix ELSE IF r.res = "OK" THEN Written(fd, Call(t).x) ELSE Unwritten(fd))
  /\ UNCHANGED <<program, lock, o_append, Streams_, memory, Contexts, mixed>>

Read(t) ==
  /\ CallBegins(t, "read") /\ Valid(t)
  /\ LET fd == FdOf(t)
         n == files[fd].n
     IN \E r \in Ends(ReadFrom_(files[fd], Call(t).k), files[fd]) :
          /\ PutFil(fd, r) /\ Trouble(r.res) /\ Fails(t, r.res) /\ Mixes(Overlaps(t, fd))
          /\ Means(IF r.res = "OK" /\ ~mixed
                     THEN [posix EXCEPT !.pos[fd] = LesserOf(@ + Call(t).k, Len(posix.disk[n]))] ELSE posix)
  /\ UNCHANGED <<program, lock, o_append, Streams_, memory, Contexts>>

(* The place asked for, also where the file is shorter. *)
Sought(from, pos, size) == CASE from = "SET" -> 0 [] from = "CUR" -> pos [] from = "END" -> size

LseekStart(t) ==
  /\ CallBegins(t, "lseek") /\ Valid(t)
  /\ LET fd == FdOf(t)
         f == files[fd]
         to == Sought(Call(t).from, f.pos, Len(store[f.n])) + Call(t).ofs
     IN /\ to >= 0 \* no caller seeks to a place before the file
        /\ Goto_(t, [Idle_ EXCEPT !.at = "lseek", !.fd = fd, !.keep = to])
        /\ Mixes(Overlaps(t, fd))
  /\ UNCHANGED <<program, left, lock, files, o_append, Streams_, store, memory, Contexts, vret, trouble, posix>>

(* A seek in POSIX, except that the file grows at once, or stops the seek. *)
Grown(p, f, fd, to) ==
  IF "WRITE" \in f.mode
    THEN [p EXCEPT !.disk[f.n] = IF to > Len(@) THEN @ \o FillFrom(to - Len(@)) ELSE @, !.pos[fd] = to]
    ELSE [p EXCEPT !.pos[fd] = LesserOf(to, Len(p.disk[f.n]))]

Lseek(t) ==
  /\ At(t, "lseek", "lseek")
  /\ LET fd == frame[t].fd
         f == files[fd]
         to == Sought(Call(t).from, posix.pos[fd], Len(posix.disk[f.n])) + Call(t).ofs
     IN \E r \in Ends(SeekTo(f, frame[t].keep), f) :
          /\ PutFil(fd, r) /\ Trouble(r.res) /\ Fails(t, r.res)
          /\ Means(IF r.res = "OK" /\ ~mixed THEN Grown(posix, f, fd, to) ELSE posix)
  /\ UNCHANGED <<program, lock, o_append, Streams_, memory, Contexts, mixed>>

-----------------------------------------------------------------------------
(* vfs_fat_pread(), vfs_fat_pwrite(): there and back, under the lock, which *)
(* vfs_fat_read() and the others above do not take.                         *)

Positional == {"pread", "pwrite"}

PositionalStart(t) ==
  /\ \E op \in Positional : CallBegins(t, op)
  /\ Valid(t) /\ TakeLock(t)
  /\ LET fd == FdOf(t)
     IN Goto_(t, [Idle_ EXCEPT !.at = "there", !.fd = fd, !.keep = files[fd].pos]) /\ Mixes(Overlaps(t, fd))
  /\ UNCHANGED <<program, left, files, o_append, Streams_, store, memory, Contexts, vret, trouble, posix>>

PositionalSeeks(t) ==
  /\ frame[t].at = "there"
  /\ LET fd == frame[t].fd
     IN \E r \in Ends(SeekTo(files[fd], Call(t).ofs), files[fd]) :
          /\ PutFil(fd, r) /\ Trouble(r.res)
          /\ IF r.res = "OK" THEN Goto_(t, [frame[t] EXCEPT !.at = "move"]) /\ UNCHANGED <<lock, left, vret>>
                            ELSE GiveLock(t) /\ Fails(t, r.res)
  /\ UNCHANGED <<program, o_append, Streams_, memory, Contexts, posix, mixed>>

PositionalMoves(t) ==
  /\ frame[t].at = "move"
  /\ LET fd == frame[t].fd
         f == files[fd]
     IN \E r \in Ends(IF Call(t).op = "pread" THEN ReadFrom_(f, Call(t).k) ELSE WriteTo(f, Call(t).x), f) :
          /\ PutFil(fd, r) /\ Trouble(r.res)
          /\ Goto_(t, [frame[t] EXCEPT !.at = "back", !.res = r.res, !.got = r.got])
  /\ UNCHANGED <<program, left, lock, o_append, Streams_, memory, Contexts, vret, posix, mixed>>

MutPositionalReturns(t) ==
  /\ frame[t].at = "back" /\ GiveLock(t) /\ Fails(t, frame[t].res)
  /\ Means(IF frame[t].res # "OK" \/ mixed \/ Call(t).op = "pread" THEN posix
            ELSE [posix EXCEPT !.disk[files[frame[t].fd].n] = Overwrite(@, Call(t).ofs, Call(t).x)])
  /\ UNCHANGED <<program, files, o_append, Streams_, store, memory, Contexts, trouble, mixed>>

PositionalReturns(t) ==
  /\ frame[t].at = "back" /\ GiveLock(t)
  /\ LET fd == frame[t].fd
         f == files[fd]
         c == Call(t)
         there == [Grown(posix, f, fd, c.ofs) EXCEPT !.pos[fd] = posix.pos[fd]]
     IN \E r \in Ends(SeekTo(f, frame[t].keep), f) :
          /\ PutFil(fd, r) /\ Trouble(r.res)
          /\ Fails(t, IF frame[t].res # "OK" THEN frame[t].res ELSE r.res)
          /\ Means(IF mixed THEN posix
                   ELSE IF frame[t].res # "OK" \/ c.op = "pread" THEN there
                   ELSE [there EXCEPT !.disk[f.n] = Overwrite(@, c.ofs, c.x)])
  /\ UNCHANGED <<program, o_append, Streams_, memory, Contexts, mixed>>

-----------------------------------------------------------------------------
(* Calls on names: one FatFs call under the lock.                           *)

NameOps == {"stat", "access", "utime", "unlink", "rmdir", "rename", "mkdir"}

Named(c, d) ==
  LET no(res) == [res |-> res, disk |-> d]
      ok(e) == [res |-> "OK", disk |-> e]
  IN IF c.op = "mkdir" THEN IF d[c.n] # Absent THEN no("EXIST") ELSE ok([d EXCEPT ![c.n] = Dir_])
     ELSE IF d[c.n] = Absent THEN no("NO_FILE")
     ELSE IF c.op \in {"unlink", "rmdir"} THEN ok([d EXCEPT ![c.n] = Absent])
     ELSE IF c.op = "rename"
       THEN IF d[c.m] # Absent THEN no("EXIST") ELSE ok([d EXCEPT ![c.m] = d[c.n], ![c.n] = Absent])
     ELSE ok(d)

NameCall(t) ==
  /\ \E op \in NameOps : CallBegins(t, op)
  /\ lock = "free"
  /\ LET c == Call(t)
     IN \E r \in {Named(c, store)} \union
               (IF "disk" \in trouble THEN {} ELSE {[res |-> "DISK_ERR", disk |-> store]}) :
          /\ store' = r.disk /\ Trouble(r.res) /\ Mixes(r.disk # store /\ (Streaming \/ OpenAlready(c.n)))
          /\ IF c.op = "access" /\ r.res # "OK" THEN Return(t, "ENOENT") ELSE Fails(t, r.res)
          /\ Means(IF r.res = "OK" THEN [posix EXCEPT !.disk = Named(c, @).disk] ELSE posix)
  /\ UNCHANGED <<program, lock, files, o_append, Streams_, memory, Contexts>>

(* Which of the allocations in a call come back NULL: at most one.          *)
Short(S) == {{}} \union (IF "memory" \in trouble THEN {} ELSE {{x} : x \in S})
OutOfMemory == trouble' = trouble \union {"memory"}

-----------------------------------------------------------------------------
(* Directory streams: the lock is only taken to open one.                   *)

Opendir(t) ==
  /\ CallBegins(t, "opendir") /\ lock = "free" /\ ~dirs[t].open
  /\ \E s \in Short({"dir"}) :
       IF s # {} THEN Return(t, "ENOMEM") /\ OutOfMemory /\ UNCHANGED <<dirs, memory>>
       ELSE \E r \in Ends(Done("OK", NoFIL, store, <<>>), NoFIL) :
              /\ Fails(t, r.res) /\ Trouble(r.res)
              /\ IF r.res = "OK" THEN /\ dirs' = [dirs EXCEPT ![t] = [NoDIR EXCEPT !.open = TRUE]]
                                     /\ memory' = memory \union {<<"dir", t>>}
                               ELSE UNCHANGED <<dirs, memory>>
  /\ UNCHANGED <<program, lock, files, o_append, mine, store, Contexts, posix, mixed>>

Following(at) == {n \in Places : n > at /\ store[n] # Absent}
End == 4
NextOf(at) == IF Following(at) = {} THEN End ELSE CHOOSE n \in Following(at) : \A m \in Following(at) : n <= m

Readdir(t) ==
  /\ CallBegins(t, "readdir") /\ dirs[t].open
  /\ LET n == NextOf(dirs[t].at)
     IN \E r \in Ends(Done("OK", NoFIL, store, <<>>), NoFIL) :
          /\ Fails(t, r.res) /\ Trouble(r.res)
          /\ IF r.res # "OK" THEN UNCHANGED dirs
             ELSE dirs' = [dirs EXCEPT ![t].at = n, ![t].offset = IF n = End THEN @ ELSE @ + 1]
  /\ UNCHANGED <<program, lock, files, o_append, mine, store, memory, Contexts, posix, mixed>>

SeekdirStart(t) ==
  /\ CallBegins(t, "seekdir") /\ dirs[t].open
  /\ \E r \in Ends(Done("OK", NoFIL, store, <<>>), NoFIL) :
       IF Call(t).ofs < dirs[t].offset /\ r.res # "OK" THEN Fails(t, r.res) /\ Trouble(r.res) /\ UNCHANGED dirs
       ELSE /\ r.res = "OK" /\ UNCHANGED <<left, vret, trouble>>
            /\ dirs' = IF Call(t).ofs < dirs[t].offset THEN [dirs EXCEPT ![t] = [NoDIR EXCEPT !.open = TRUE]] ELSE dirs
            /\ Goto_(t, [Idle_ EXCEPT !.at = "seek"])
  /\ UNCHANGED <<program, lock, files, o_append, mine, store, memory, Contexts, posix, mixed>>

(* The offset counts what f_readdir() was called for, past the end too. *)
Seekdir(t) ==
  /\ At(t, "seekdir", "seek")
  /\ IF dirs[t].offset >= Call(t).ofs THEN Fails(t, "OK") /\ UNCHANGED <<dirs, trouble>>
     ELSE \E r \in Ends(Done("OK", NoFIL, store, <<>>), NoFIL) :
            /\ Trouble(r.res)
            /\ IF r.res # "OK" THEN Fails(t, r.res) /\ UNCHANGED dirs
               ELSE /\ dirs' = [dirs EXCEPT ![t].at = NextOf(@), ![t].offset = @ + 1]
                    /\ UNCHANGED <<left, vret, frame>>
  /\ UNCHANGED <<program, lock, files, o_append, mine, store, memory, Contexts, posix, mixed>>

Closedir(t) ==
  /\ CallBegins(t, "closedir") /\ dirs[t].open
  /\ \E r \in Ends(Done("OK", NoFIL, store, <<>>), NoFIL) : Fails(t, r.res) /\ Trouble(r.res)
  /\ dirs' = [dirs EXCEPT ![t] = NoDIR] /\ memory' = memory \ {<<"dir", t>>}
  /\ UNCHANGED <<program, lock, files, o_append, mine, store, Contexts, posix, mixed>>

-----------------------------------------------------------------------------
(* vfs_fat_link() copies: the lock is let go before the copying begins, and *)
(* a failed f_open() leaves the FILs allocated (labels fail1 and fail2).    *)

Linking == {"pf1", "pf2", "buf"}
Own(t, S) == {<<x, t>> : x \in S}

LinkStart(t) ==
  /\ CallBegins(t, "link") /\ lock = "free"
  /\ \E s \in Short(Linking) :
       IF s # {} THEN Return(t, "ENOMEM") /\ OutOfMemory /\ UNCHANGED <<lock, memory>>
       ELSE /\ TakeLock(t) /\ Goto_(t, [Idle_ EXCEPT !.at = "open1"])
            /\ memory' = memory \union Own(t, Linking) /\ UNCHANGED <<left, vret, trouble>>
  /\ UNCHANGED <<program, files, o_append, Streams_, store, Contexts, posix, mixed>>

Leaks(res) == trouble' = trouble \union {"link"} \union (IF res = "DISK_ERR" THEN {"disk"} ELSE {})

LinkOpensFirst(t) ==
  /\ At(t, "link", "open1")
  /\ \E r \in Ends(OpenedFor(Call(t).n, {"READ", "OPEN_EXISTING"}), NoFIL) :
       IF r.res = "OK"
         THEN /\ Goto_(t, [frame[t] EXCEPT !.at = "open2", !.in = r.fil]) /\ Mixes(OpenAlready(Call(t).n))
              /\ UNCHANGED <<left, vret, lock, memory, trouble>>
         ELSE GiveLock(t) /\ Fails(t, r.res) /\ memory' = memory \ Own(t, {"buf"}) /\ Leaks(r.res) /\ UNCHANGED mixed
  /\ UNCHANGED <<program, files, o_append, Streams_, store, Contexts, posix>>

LinkOpensSecond(t) ==
  /\ At(t, "link", "open2") /\ GiveLock(t)
  /\ \E r \in Ends(OpenedFor(Call(t).m, {"WRITE", "CREATE_NEW"}), NoFIL) :
       /\ store' = r.disk /\ Mixes(Streaming /\ r.disk # store)
       /\ IF r.res = "OK"
            THEN /\ Goto_(t, [frame[t] EXCEPT !.at = "read", !.out = r.fil, !.size = Len(store[Call(t).n])])
                 /\ UNCHANGED <<left, vret, memory, trouble>>
            ELSE Fails(t, r.res) /\ memory' = memory \ Own(t, {"buf", "pf1"}) /\ Leaks(r.res)
  /\ UNCHANGED <<program, files, o_append, Streams_, Contexts, posix>>

LinkReads(t) ==
  /\ At(t, "link", "read") /\ frame[t].size > 0
  /\ LET f == frame[t]
         k == LesserOf(f.size, CopyUnit)
     IN \E r \in Ends(ReadFrom_(f.in, k), f.in) :
          /\ Goto_(t, IF r.res = "OK" /\ Len(r.got) = k THEN [f EXCEPT !.at = "write", !.in = r.fil, !.got = r.got]
                      ELSE [f EXCEPT !.at = "close", !.res = "DISK_ERR"])
          /\ Trouble(r.res)
  /\ UNCHANGED <<program, left, lock, files, o_append, Streams_, store, memory, Contexts, vret, posix, mixed>>

LinkWrites(t) ==
  /\ At(t, "link", "write")
  /\ LET f == frame[t]
     IN \E r \in Ends(WriteTo(f.out, f.got), f.out) :
          /\ store' = r.disk /\ Trouble(r.res)
          /\ Goto_(t, IF r.res = "OK" THEN [f EXCEPT !.at = "read", !.out = r.fil, !.size = @ - Len(f.got), !.got = <<>>]
                      ELSE [f EXCEPT !.at = "close", !.res = r.res])
  /\ UNCHANGED <<program, left, lock, files, o_append, Streams_, memory, Contexts, vret, posix, mixed>>

(* What f_close() of the copy returns is not looked at. *)
LinkCloses(t) ==
  /\ At(t, "link", "close") \/ (At(t, "link", "read") /\ frame[t].size = 0)
  /\ \E r \in Ends(Done("OK", NoFIL, store, <<>>), NoFIL) : Trouble(r.res)
  /\ Fails(t, frame[t].res) /\ memory' = memory \ Own(t, Linking)
  /\ Means(IF frame[t].res = "OK" THEN [posix EXCEPT !.disk[Call(t).m] = posix.disk[Call(t).n]] ELSE posix)
  /\ UNCHANGED <<program, lock, files, o_append, Streams_, store, Contexts, mixed>>

-----------------------------------------------------------------------------
(* vfs_fat_truncate(): its own FIL; the lock covers all but the close.      *)

TruncateStart(t) ==
  /\ CallBegins(t, "truncate") /\ lock = "free"
  /\ \E s \in Short({"file"}) :
       IF s # {} THEN Return(t, "ENOMEM") /\ OutOfMemory /\ UNCHANGED <<lock, memory, mixed>>
       ELSE \E r \in Ends(OpenedFor(Call(t).n, {"WRITE"}), NoFIL) :
              /\ Trouble(r.res)
              /\ IF r.res # "OK" THEN Fails(t, r.res) /\ UNCHANGED <<lock, memory, mixed>>
                 ELSE /\ memory' = memory \union {<<"file", t>>} /\ Mixes(OpenAlready(Call(t).n)) /\ UNCHANGED <<left, vret>>
                      /\ IF Len(store[Call(t).n]) < Call(t).k
                           THEN Goto_(t, [Idle_ EXCEPT !.at = "close", !.res = "EPERM"]) /\ UNCHANGED lock
                           ELSE TakeLock(t) /\ Goto_(t, [Idle_ EXCEPT !.at = "seek", !.in = r.fil])
  /\ UNCHANGED <<program, files, o_append, Streams_, store, Contexts, posix>>

TruncateSeeks(t) ==
  /\ At(t, "truncate", "seek")
  /\ \E r \in Ends(SeekTo(frame[t].in, Call(t).k), frame[t].in) :
       /\ Trouble(r.res)
       /\ IF r.res = "OK" THEN Goto_(t, [frame[t] EXCEPT !.at = "cut", !.in = r.fil]) /\ UNCHANGED lock
          ELSE GiveLock(t) /\ Goto_(t, [frame[t] EXCEPT !.at = "close", !.res = r.res])
  /\ UNCHANGED <<program, left, files, o_append, Streams_, store, memory, Contexts, vret, posix, mixed>>

TruncateCuts(t) ==
  /\ At(t, "truncate", "cut") /\ GiveLock(t)
  /\ \E r \in Ends(CutHere(frame[t].in), frame[t].in) :
       store' = r.disk /\ Trouble(r.res) /\ Goto_(t, [frame[t] EXCEPT !.at = "close", !.res = r.res])
  /\ UNCHANGED <<program, left, files, o_append, Streams_, memory, Contexts, vret, posix, mixed>>

TruncateCloses(t) ==
  /\ At(t, "truncate", "close")
  /\ \E r \in Ends(Done("OK", NoFIL, store, <<>>), NoFIL) :
       /\ Trouble(r.res)
       /\ IF r.res # "OK" THEN Fails(t, r.res)
          ELSE IF frame[t].res = "EPERM" THEN Return(t, "EPERM") ELSE Fails(t, frame[t].res)
  /\ memory' = memory \ {<<"file", t>>}
  /\ Means(IF frame[t].res = "OK" THEN [posix EXCEPT !.disk[Call(t).n] = SubSeq(@, 1, Call(t).k)] ELSE posix)
  /\ UNCHANGED <<program, lock, files, o_append, Streams_, store, Contexts, mixed>>

-----------------------------------------------------------------------------
(* The contexts of the volumes, by base path: storage_init() and the others *)
(* register one after another.                                              *)

find_context_index_by_path(p) == {i \in 1..FF_VOLUMES : contexts[i] = p}
find_unused_context_index == {i \in find_context_index_by_path("NULL") : \A j \in 1..(i - 1) : contexts[j] # "NULL"}

AddContext(t) ==
  /\ CallBegins(t, "register")
  /\ LET p == Call(t).path
     IN IF find_context_index_by_path(p) # {}
          THEN Return(t, "INVALID_STATE") /\ UNCHANGED <<contexts, mounted, memory, trouble>>
        ELSE IF find_unused_context_index = {}
          THEN Return(t, "NO_MEM") /\ UNCHANGED <<contexts, mounted, memory, trouble>>
        ELSE \E s \in Short({"ctx", "o_append", "vfs"}), i \in find_unused_context_index :
               IF s # {} THEN Return(t, "NO_MEM") /\ OutOfMemory /\ UNCHANGED <<contexts, mounted, memory>>
               ELSE /\ contexts' = [contexts EXCEPT ![i] = p] /\ mounted' = mounted \union {p}
                    /\ memory' = memory \union {<<"ctx", p>>, <<"o_append", p>>}
                    /\ Return(t, "0") /\ UNCHANGED trouble
  /\ UNCHANGED <<program, lock, files, o_append, Streams_, store, posix, mixed>>

DropContext(t) ==
  /\ CallBegins(t, "unregister")
  /\ LET p == Call(t).path
     IN IF find_context_index_by_path(p) = {} THEN Return(t, "INVALID_STATE") /\ UNCHANGED <<contexts, mounted, memory>>
        ELSE /\ Return(t, "0") /\ mounted' = mounted \ {p}
             /\ memory' = memory \ {<<"ctx", p>>, <<"o_append", p>>}
             /\ contexts' = [i \in 1..FF_VOLUMES |-> IF i \in find_context_index_by_path(p) THEN "NULL" ELSE contexts[i]]
  /\ UNCHANGED <<program, lock, files, o_append, Streams_, store, trouble, posix, mixed>>

OnDescriptor(t) ==
  OpenStart(t) \/ OpenPath(t) \/ Close(t) \/ Fsync(t) \/ WriteStart(t) \/ WriteSeeks(t) \/ Write(t)
  \/ Read(t) \/ LseekStart(t) \/ Lseek(t) \/ PositionalStart(t) \/ PositionalSeeks(t)
  \/ PositionalMoves(t) \/ PositionalReturns(t) \/ Refuse(t)

OnName(t) ==
  NameCall(t) \/ LinkStart(t) \/ LinkOpensFirst(t) \/ LinkOpensSecond(t) \/ LinkReads(t) \/ LinkWrites(t)
  \/ LinkCloses(t) \/ TruncateStart(t) \/ TruncateSeeks(t) \/ TruncateCuts(t) \/ TruncateCloses(t)

OnStream(t) == Opendir(t) \/ Readdir(t) \/ SeekdirStart(t) \/ Seekdir(t) \/ Closedir(t)

VfsNext == \E t \in Tasks : OnDescriptor(t) \/ OnName(t) \/ OnStream(t) \/ AddContext(t) \/ DropContext(t)
VfsSpec == VfsInit /\ [][VfsNext]_vfsVars

-----------------------------------------------------------------------------

VfsTypeOK ==
  /\ lock \in Tasks \union {"free"} /\ mixed \in BOOLEAN /\ trouble \subseteq {"disk", "memory", "link"}
  /\ mine \in [Tasks -> -1..(MaxFiles - 1)] /\ DOMAIN store = Places
  /\ \A fd \in Fds : files[fd].fs => files[fd].n \in Places

AllIdle == \A t \in Tasks : frame[t].at = "idle"

(* No two open() give the same descriptor, even at the same time, and one   *)
(* that an open() is about to give is free (vfs_fat.c:208-216, 293-323).    *)
DescriptorsOwned ==
  /\ \A t, u \in Tasks : t # u /\ frame[t].at = "f_open" /\ Call(t).op = "open" =>
       ~files[frame[t].fd].fs /\ ~(frame[u].at = "f_open" /\ frame[u].fd = frame[t].fd)
  /\ lock = "free" <=> \A t \in Tasks : frame[t].at \notin {"f_open", "there", "move", "back", "open1", "open2", "cut"}
                         /\ ~(frame[t].at = "seek" /\ Call(t).op = "truncate")

(* As long as no descriptor is used by two tasks at once and no file is     *)
(* opened twice or removed while open, the files and the positions are      *)
(* those POSIX asks for: pread() and pwrite() leave the position, an        *)
(* appended record is at the end, a link is a whole copy; but a refused     *)
(* append leaves the position at the end (vfs_fat.c:325-500, 577-643,       *)
(* 830-904).                                                                *)
LikePosix ==
  AllIdle /\ ~mixed /\ "disk" \notin trouble =>
    /\ store = posix.disk
    /\ \A fd \in Fds : files[fd].fs => files[fd].pos = posix.pos[fd]

(* A stream's offset is its place: seekdir() to what telldir() said, after  *)
(* any other calls, finds the same entry (vfs_fat.c:739-769).               *)
StreamPlaced ==
  ~mixed /\ "disk" \notin trouble =>
    \A t \in Tasks : dirs[t].open =>
      LET before == {n \in Places : n <= dirs[t].at /\ store[n] # Absent}
      IN IF dirs[t].at = End THEN dirs[t].offset >= Cardinality(before) ELSE dirs[t].offset = Cardinality(before)

(* Between calls nothing is allocated but open streams and contexts, which  *)
(* are in the table under one path each, as the VFS layer knows them;       *)
(* except for a link() whose files could not be opened (lines 117-206,      *)
(* 577-643, 660-696, 830-904).                                              *)
NothingHeld ==
  AllIdle /\ "link" \notin trouble =>
    /\ memory = {<<"dir", t>> : t \in {u \in Tasks : dirs[u].open}}
                 \union {<<x, p>> : x \in {"ctx", "o_append"}, p \in mounted}
    /\ mounted = {contexts[i] : i \in 1..FF_VOLUMES} \ {"NULL"}
    /\ \A i, j \in 1..FF_VOLUMES : contexts[i] = contexts[j] => i = j \/ contexts[i] = "NULL"

(* The face shows what is behind it. *)
VfsRight == VfsTypeOK /\ DescriptorsOwned /\ LikePosix /\ StreamPlaced /\ NothingHeld
=============================================================================
