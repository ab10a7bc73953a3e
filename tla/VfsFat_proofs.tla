----------------------------- MODULE VfsFat_proofs -----------------------------
(***************************************************************************)
(* VfsFat: whatever the tasks call, in whatever order their steps come.    *)
(***************************************************************************)
EXTENDS VfsFat, FiniteSetTheorems, SequenceTheorems, TLAPS

(* What a task is in the middle of, for each call. *)
Fits(at, op) ==
  \/ at = "f_open" /\ op = "open"
  \/ at \in {"end", "write"} /\ op = "write"
  \/ at = "lseek" /\ op = "lseek"
  \/ at \in {"there", "move", "back"} /\ op \in Positional
  \/ at \in {"open1", "open2", "read", "write", "close"} /\ op = "link"
  \/ at \in {"seek", "cut", "close"} /\ op = "truncate"
  \/ at = "seek" /\ op = "seekdir"
InCall(t) == frame[t].at = "idle" \/ (left[t] # <<>> /\ Fits(frame[t].at, Call(t).op))

Results == {"OK", "DISK_ERR", "NO_FILE", "DENIED", "EXIST", "INVALID_OBJECT"}
Texts == Seq(Int)
Ats == {"idle", "f_open", "end", "write", "lseek", "there", "move", "back", "open1", "open2", "read", "close", "seek", "cut"}
Modes == {"READ", "WRITE", "CREATE_NEW", "CREATE_ALWAYS", "OPEN_ALWAYS", "OPEN_EXISTING"}
FILs == [fs : BOOLEAN, n : {0} \union Places, pos : Nat, err : BOOLEAN, mode : SUBSET Modes]
IsFil(f) == f \in FILs /\ (f.fs => f.n \in Places)
WritingAt(at) == at \in {"end", "write"}
Copied(f) == WritingAt(f.at) => Len(f.got) <= f.size
Frames == {f \in [at : Ats, fd : Fds, keep : Nat, res : Results \union {"EPERM"}, got : Texts, size : Nat,
                  in : FILs, out : FILs] : IsFil(f.in) /\ IsFil(f.out) /\ Copied(f)}

Shapes ==
  /\ left \in [Tasks -> Seq(PosixCalls)] /\ frame \in [Tasks -> Frames]
  /\ files \in [Fds -> {f \in FILs : IsFil(f)}] /\ o_append \in [Fds -> BOOLEAN]
  /\ lock \in Tasks \union {"free"} /\ mixed \in BOOLEAN /\ trouble \subseteq {"disk", "memory", "link"}
  /\ mine \in [Tasks -> -1 .. (MaxFiles - 1)] /\ store \in [Places -> Texts]
  /\ dirs \in [Tasks -> [open : BOOLEAN, at : 0 .. 4, offset : Nat]]
  /\ \A t \in Tasks : InCall(t)

(* Who is in a section of the lock, and that what an open() is about to give is free. *)
Locked(t) ==
  \/ frame[t].at \in {"f_open", "there", "move", "back", "open1", "open2", "cut"}
  \/ frame[t].at = "seek" /\ Call(t).op = "truncate"
LockKept ==
  /\ \A t \in Tasks : lock = t <=> Locked(t)
  /\ \A t \in Tasks : frame[t].at = "f_open" => ~files[frame[t].fd].fs

(* What a task in the middle of a call has allocated. *)
Holds(t) ==
  IF frame[t].at = "idle" THEN {}
  ELSE IF Call(t).op = "link" THEN Own(t, Linking)
  ELSE IF Call(t).op = "truncate" THEN {<<"file", t>>} ELSE {}
Its(t) == Holds(t) \union (IF dirs[t].open THEN {<<"dir", t>>} ELSE {})
OfContexts(x) == \E p \in mounted : x = <<"ctx", p>> \/ x = <<"o_append", p>>
MemoryKept ==
  /\ "link" \notin trouble => \A x : x \in memory <=> OfContexts(x) \/ \E t \in Tasks : x \in Its(t)
  /\ DOMAIN contexts = 1 .. FF_VOLUMES
  /\ mounted = {contexts[i] : i \in 1 .. FF_VOLUMES} \ {"NULL"}
  /\ \A i, j \in 1 .. FF_VOLUMES : contexts[i] = contexts[j] => i = j \/ contexts[i] = "NULL"

(* The FILs there are: the descriptors' and those of link() and truncate(). *)
Holders == ({"fd"} \X Fds) \union ({"in", "out"} \X Tasks)
Fil(h) == IF h[1] = "fd" THEN files[h[2]] ELSE IF h[1] = "in" THEN frame[h[2]].in ELSE frame[h[2]].out
Using(t) == frame[t].at # "idle" /\ Call(t).op \in OnFd
On(t) == files[frame[t].fd]

Sound(f) == ~f.err /\ store[f.n] \in Seq(Nat) /\ f.pos <= Len(store[f.n])

(* A file that pread() or pwrite() has made longer by seeking. *)
Longer(s, f, to) == IF "WRITE" \in f.mode /\ to > Len(s) THEN s \o FillFrom(to - Len(s)) ELSE s

(* A file that is ahead of its image, in the middle of a call. *)
Changing(t, n) ==
  \/ Using(t) /\ frame[t].at \in {"move", "back"} /\ n = On(t).n
  \/ frame[t].at \in {"read", "write", "close"} /\ Call(t).op = "link" /\ n = Call(t).m
  \/ frame[t].at = "close" /\ Call(t).op = "truncate" /\ frame[t].res = "OK" /\ n = Call(t).n
(* A position that is. *)
Moving(t, fd) ==
  /\ Using(t) /\ frame[t].fd = fd
  /\ frame[t].at \in {"move", "back"} \/ (frame[t].at = "write" /\ o_append[fd])

UsesWell(t) ==
  LET f == frame[t]
      c == Call(t)
      fil == On(t)
      pos == posix.pos[f.fd]
      was == posix.disk[fil.n]
      is == store[fil.n]
      long == Longer(was, fil, c.ofs)
  IN /\ f.at = "end" => o_append[f.fd] /\ f.keep = Len(is)
     /\ f.at = "write" /\ o_append[f.fd] => fil.pos = Len(is)
     /\ f.at = "lseek" => f.keep = Sought(c.from, pos, Len(was)) + c.ofs
     /\ f.at = "there" => f.keep = pos
     /\ f.at \in {"move", "back"} => f.keep = pos /\ f.keep <= Len(was)
     /\ f.at = "move" => is = long /\ ("WRITE" \in fil.mode => fil.pos = c.ofs)
     /\ f.at = "back" => is = IF f.res = "OK" /\ c.op = "pwrite" THEN Overwrite(long, c.ofs, c.x) ELSE long

LinksWell(t) ==
  LET f == frame[t]
      c == Call(t)
  IN /\ f.at \in {"open1", "open2", "read", "write"} => f.res = "OK"
     /\ f.at = "open2" => f.in.fs /\ f.in.n = c.n /\ f.in.pos = 0 /\ "READ" \in f.in.mode
     /\ f.at \in {"read", "write"} =>
          /\ f.in.fs /\ f.in.n = c.n /\ "READ" \in f.in.mode /\ f.out.fs /\ f.out.n = c.m /\ "WRITE" \in f.out.mode
          /\ f.out.pos <= Len(store[c.n]) /\ store[c.m] = SubSeq(store[c.n], 1, f.out.pos)
          /\ f.size = Len(store[c.n]) - f.out.pos
     /\ f.at = "read" => f.in.pos = f.out.pos
     /\ f.at = "write" => /\ f.in.pos = f.out.pos + Len(f.got) /\ f.in.pos <= Len(store[c.n])
                          /\ f.got = SubSeq(store[c.n], f.out.pos + 1, f.in.pos)
     /\ f.at # "close"

CutsWell(t) ==
  LET f == frame[t]
      c == Call(t)
  IN /\ f.at \in {"seek", "cut"} => f.in.fs /\ f.in.n = c.n /\ c.k <= Len(store[c.n])
     /\ f.at = "cut" => f.in.pos = c.k
     /\ f.at = "close" /\ f.res = "OK" =>
          /\ f.in.fs /\ f.in.n = c.n /\ c.k <= Len(posix.disk[c.n]) /\ store[c.n] = SubSeq(posix.disk[c.n], 1, c.k)

TaskWell(t) ==
  frame[t].at # "idle" =>
    /\ Using(t) => On(t).fs /\ UsesWell(t)
    /\ Call(t).op = "link" => LinksWell(t)
    /\ Call(t).op = "truncate" => CutsWell(t)

Images == [disk : [Places -> Texts], pos : [Fds -> Nat]]
Clean == ~mixed /\ "disk" \notin trouble
Agreed ==
  /\ posix \in Images
  /\ \A h \in Holders : Fil(h).fs => Sound(Fil(h))
  /\ \A g, h \in Holders : Fil(g).fs /\ Fil(h).fs /\ Fil(g).n = Fil(h).n => g = h
  /\ \A t, u \in Tasks : t # u /\ Using(t) /\ Using(u) => frame[t].fd # frame[u].fd
  /\ \A t \in Tasks : TaskWell(t)
  /\ \A n \in Places : (\A t \in Tasks : ~Changing(t, n)) => posix.disk[n] = store[n]
  /\ \A fd \in Fds : files[fd].fs /\ (\A t \in Tasks : ~Moving(t, fd)) => posix.pos[fd] = files[fd].pos
  /\ \A n \in Places : store[n] \in {Absent, Dir_} \union Seq(Nat)

VfsInv == Shapes /\ LockKept /\ MemoryKept /\ StreamPlaced /\ (Clean => Agreed)

-----------------------------------------------------------------------------
(* Texts: what writing, growing and cutting make of them. *)

LEMMA FillIs == ASSUME NEW n \in Nat PROVE FillFrom(n) \in Seq(Nat) /\ Len(FillFrom(n)) = n
<1>1. FillFrom(n) \in [1 .. n -> Nat]
  BY DEF FillFrom
<1>2. FillFrom(n) \in Seq(Nat)
  BY <1>1, IsASeq DEF FillFrom
<1>3. DOMAIN FillFrom(n) = 1 .. n
  BY <1>1
<1> QED
  BY <1>2, <1>3, LenProperties

Overlaid(o, s, pos, x, S) ==
  /\ o \in Seq(S) /\ Len(s) <= Len(o) /\ pos + Len(x) <= Len(o)
  /\ Len(s) <= pos + Len(x) => Len(o) = pos + Len(x)
  /\ \A i \in (pos + 1) .. (pos + Len(x)) : o[i] = x[i - pos]
  /\ \A i \in 1 .. Len(s) : i <= pos => o[i] = s[i]

LEMMA OverwriteIs ==
  ASSUME NEW S, 0 \in S, NEW s \in Seq(S), NEW x \in Seq(S), NEW pos \in Nat
  PROVE  Overlaid(Overwrite(s, pos, x), s, pos, x, S)
<1> DEFINE m == IF Len(s) > pos + Len(x) THEN Len(s) ELSE pos + Len(x)
           at(i) == IF i \in (pos + 1) .. (pos + Len(x)) THEN x[i - pos] ELSE IF i <= Len(s) THEN s[i] ELSE 0
           o == [i \in 1 .. m |-> at(i)]
<1>1. Len(s) \in Nat /\ Len(x) \in Nat /\ m \in Nat /\ m >= Len(s) /\ m >= pos + Len(x)
  BY LenProperties
<1>2. ASSUME NEW i \in 1 .. m PROVE at(i) \in S
  <2>1. CASE i \in (pos + 1) .. (pos + Len(x))
    <3>1. i - pos \in 1 .. Len(x)
      BY <1>1, <2>1
    <3> QED
      BY <2>1, <3>1, ElementOfSeq
  <2>2. CASE ~(i \in (pos + 1) .. (pos + Len(x))) /\ i <= Len(s)
    <3>1. i \in 1 .. Len(s)
      BY <1>1, <2>2
    <3> QED
      BY <2>2, <3>1, ElementOfSeq
  <2> QED
    BY <2>1, <2>2
<1>3. o \in Seq(S) /\ Len(o) = m
  <2>1. o \in Seq(S)
    BY <1>1, <1>2, IsASeq
  <2>2. DOMAIN o = 1 .. m
    OBVIOUS
  <2> QED
    BY <1>1, <2>1, <2>2, LenProperties
<1>4. Overwrite(s, pos, x) = o
  BY DEF Overwrite
<1>5. \A i \in (pos + 1) .. (pos + Len(x)) : o[i] = x[i - pos]
  <2> TAKE i \in (pos + 1) .. (pos + Len(x))
  <2>1. i \in 1 .. m
    BY <1>1
  <2> QED
    BY <2>1
<1>6. \A i \in 1 .. Len(s) : i <= pos => o[i] = s[i]
  <2> TAKE i \in 1 .. Len(s)
  <2> HAVE i <= pos
  <2>1. i \in 1 .. m /\ ~(i \in (pos + 1) .. (pos + Len(x))) /\ i <= Len(s)
    BY <1>1
  <2> QED
    BY <2>1
<1>7. Len(s) <= pos + Len(x) => Len(o) = pos + Len(x)
  BY <1>1, <1>3
<1> HIDE DEF o
<1> QED
  BY <1>1, <1>3, <1>4, <1>5, <1>6, <1>7 DEF Overlaid

LEMMA LongerIs ==
  ASSUME NEW S, Nat \subseteq S, NEW s \in Seq(S), NEW f, NEW to \in Nat
  PROVE  /\ Longer(s, f, to) \in Seq(S) /\ Len(s) <= Len(Longer(s, f, to))
         /\ "WRITE" \in f.mode => to <= Len(Longer(s, f, to))
<1>1. Len(s) \in Nat
  BY LenProperties
<1>2. CASE "WRITE" \in f.mode /\ to > Len(s)
  <2> DEFINE n == to - Len(s)
             z == FillFrom(n)
  <2>1. n \in Nat /\ Len(s) + n = to
    BY <1>1, <1>2
  <2> HIDE DEF n
  <2>2. z \in Seq(Nat) /\ Len(z) = n
    BY <2>1, FillIs
  <2>3. z \in Seq(S)
    BY <2>2, SeqMonotonic
  <2> HIDE DEF z
  <2>4. s \o z \in Seq(S) /\ Len(s \o z) = Len(s) + Len(z)
    BY <2>3, ConcatProperties
  <2>5. Longer(s, f, to) = s \o z
    BY <1>2 DEF Longer, z, n
  <2> QED
    BY <1>1, <2>1, <2>2, <2>4, <2>5
<1>3. CASE ~("WRITE" \in f.mode /\ to > Len(s))
  BY <1>1, <1>3 DEF Longer
<1> QED
  BY <1>2, <1>3

LEMMA SubSeqIs ==
  ASSUME NEW S, NEW s \in Seq(S), NEW a \in Nat, NEW b \in Nat, a <= b, b <= Len(s)
  PROVE  /\ SubSeq(s, a + 1, b) \in Seq(S) /\ Len(SubSeq(s, a + 1, b)) = b - a
         /\ \A i \in 1 .. (b - a) : SubSeq(s, a + 1, b)[i] = s[a + i]
<1>1. Len(s) \in Nat
  BY LenProperties
<1>2. a + 1 \in 1 .. Len(s) + 1 /\ b \in (a + 1) - 1 .. Len(s)
  BY <1>1
<1>3. \A i \in a + 1 .. b : i \in 1 .. Len(s)
  BY <1>1
<1>4. \A i \in a + 1 .. b : s[i] \in S
  BY <1>3, ElementOfSeq
<1> QED
  BY <1>1, <1>2, <1>4, SubSeqProperties

(* A cut text is a text; cut where it ends, it is itself. *)
LEMMA CutIs ==
  ASSUME NEW S, NEW s \in Seq(S), NEW k \in Nat, k <= Len(s)
  PROVE  /\ SubSeq(s, 1, k) \in Seq(S) /\ Len(SubSeq(s, 1, k)) = k
         /\ \A i \in 1 .. k : SubSeq(s, 1, k)[i] = s[i]
         /\ k = Len(s) => SubSeq(s, 1, k) = s
<1> DEFINE c == SubSeq(s, 1, k)
<1>1. c \in Seq(S) /\ Len(c) = k /\ \A i \in 1 .. k : c[i] = s[i]
  <2>1. 0 \in Nat /\ 0 <= k /\ 0 + 1 = 1 /\ k - 0 = k /\ \A i \in 1 .. k : 0 + i = i
    OBVIOUS
  <2> QED
    BY <2>1, SubSeqIs
<1> HIDE DEF c
<1>2. k = Len(s) => c = s
  BY <1>1, SeqEqual
<1> QED
  BY <1>1, <1>2 DEF c

(* A piece appended to the copy of what comes before it. *)
LEMMA CopyGoesOn ==
  ASSUME NEW s \in Seq(Nat), NEW a \in Nat, NEW b \in Nat, a <= b, b <= Len(s)
  PROVE  Overwrite(SubSeq(s, 1, a), a, SubSeq(s, a + 1, b)) = SubSeq(s, 1, b)
<1> DEFINE p == SubSeq(s, 1, a)
           q == SubSeq(s, a + 1, b)
           o == Overwrite(p, a, q)
           w == SubSeq(s, 1, b)
<1>0. Len(s) \in Nat /\ a <= Len(s)
  BY LenProperties
<1>1. p \in Seq(Nat) /\ Len(p) = a /\ \A i \in 1 .. a : p[i] = s[i]
  BY <1>0, CutIs
<1>2. q \in Seq(Nat) /\ Len(q) = b - a /\ \A i \in 1 .. (b - a) : q[i] = s[a + i]
  BY SubSeqIs
<1>3. w \in Seq(Nat) /\ Len(w) = b /\ \A i \in 1 .. b : w[i] = s[i]
  BY CutIs
<1> HIDE DEF p, q, w
<1>4. Overlaid(o, p, a, q, Nat)
  <2>1. 0 \in Nat
    OBVIOUS
  <2> QED
    BY <1>1, <1>2, <2>1, OverwriteIs
<1> HIDE DEF o
<1>5. Len(o) = b
  BY <1>1, <1>2, <1>4 DEF Overlaid
<1>6. ASSUME NEW i \in 1 .. b PROVE o[i] = w[i]
  <2>1. CASE i <= a
    <3>1. i \in 1 .. a
      BY <2>1
    <3> QED
      BY <1>1, <1>3, <1>4, <2>1, <3>1 DEF Overlaid
  <2>2. CASE i > a
    <3>1. i - a \in 1 .. (b - a) /\ a + (i - a) = i /\ i \in (a + 1) .. (a + Len(q))
      BY <1>2, <2>2
    <3> QED
      BY <1>2, <1>3, <1>4, <3>1 DEF Overlaid
  <2> QED
    BY <2>1, <2>2
<1>7. o = w
  BY <1>3, <1>4, <1>5, <1>6, SeqEqual DEF Overlaid
<1> QED
  BY <1>7 DEF o, p, q, w

-----------------------------------------------------------------------------
(* Calls, and what the calls of FatFs come to. *)

LEMMA CallsHave ==
  ASSUME NEW c \in PosixCalls
  PROVE  /\ c.op = "open" => c.n \in Places
         /\ c.op \in {"write", "pwrite"} => c.x \in Seq(Nat)
         /\ c.op \in {"read", "pread", "truncate"} => c.k \in Nat
         /\ c.op \in {"pread", "pwrite"} => c.ofs \in Nat
         /\ c.op = "lseek" => c.ofs \in Int /\ c.from \in {"SET", "CUR", "END"}
         /\ c.op \in NameOps \union {"link"} => c.n \in Places /\ c.m \in Places
         /\ c.op = "truncate" => c.n \in Places
         /\ c.op \in {"readdir", "seekdir", "opendir", "closedir"} => c.ofs \in Nat
         /\ c.op \in {"register", "unregister"} => c.path # "NULL"
BY DEF PosixCalls, NameOps

LEMMA CallIs ==
  ASSUME Shapes, NEW t \in Tasks, left[t] # <<>>
  PROVE  Call(t) \in PosixCalls /\ Tail(left[t]) \in Seq(PosixCalls)
<1>1. left[t] \in Seq(PosixCalls)
  BY DEF Shapes
<1> QED
  BY <1>1, HeadTailProperties DEF Call

IsOutcome(r) == r.res \in Results /\ IsFil(r.fil) /\ r.disk \in [Places -> Texts] /\ r.got \in Texts

LEMMA DoneHas ==
  ASSUME NEW res, NEW f, NEW d, NEW got
  PROVE  Done(res, f, d, got).res = res /\ Done(res, f, d, got).fil = f /\ Done(res, f, d, got).disk = d
         /\ Done(res, f, d, got).got = got
BY DEF Done

LEMMA EmptyText == <<>> \in Texts
BY EmptySeq DEF Texts

LEMMA RefusedIs ==
  ASSUME NEW res \in Results, NEW f, IsFil(f), store \in [Places -> Texts]
  PROVE  IsOutcome(Refused(res, f))
BY EmptyText DEF IsOutcome, Refused, Done

LEMMA NoFILIs == IsFil(NoFIL) /\ NoFIL.fs = FALSE
BY DEF IsFil, FILs, NoFIL

(* A disk error leaves all as it was, but in an open FIL. *)
LEMMA EndsAre ==
  ASSUME NEW r0, NEW f, NEW r \in Ends(r0, f)
  PROVE  \/ r = r0
         \/ /\ "disk" \notin trouble /\ r0.res = "OK" /\ r.res = "DISK_ERR"
            /\ r.fil = [f EXCEPT !.err = f.fs] /\ r.disk = store /\ r.got = <<>>
BY DEF Ends, Done

LEMMA ErrorIs ==
  ASSUME NEW f, IsFil(f)
  PROVE  LET e == [f EXCEPT !.err = f.fs] IN IsFil(e) /\ e.fs = f.fs /\ e.n = f.n /\ e.pos = f.pos /\ e.mode = f.mode
BY DEF IsFil, FILs

LEMMA EndsWell ==
  ASSUME NEW r0, NEW f, NEW r \in Ends(r0, f), IsOutcome(r0), IsFil(f), store \in [Places -> Texts]
  PROVE  IsOutcome(r) /\ (r.res = "OK" => r = r0) /\ (r # r0 => r.res = "DISK_ERR" /\ r.disk = store)
<1>1. CASE r = r0
  BY <1>1
<1>2. CASE r # r0
  <2>1. r.res = "DISK_ERR" /\ r.fil = [f EXCEPT !.err = f.fs] /\ r.disk = store /\ r.got = <<>>
    BY <1>2, EndsAre
  <2>2. IsFil(r.fil)
    BY <2>1, ErrorIs
  <2> QED
    BY <1>2, <2>1, <2>2, EmptyText DEF IsOutcome, Results
<1> QED
  BY <1>1, <1>2

LEMMA DoneIs ==
  ASSUME NEW res \in Results, NEW f, IsFil(f), NEW d \in [Places -> Texts], NEW got \in Texts
  PROVE  IsOutcome(Done(res, f, d, got))
BY DEF IsOutcome, Done

LEMMA OpenedIs ==
  ASSUME store \in [Places -> Texts], NEW n \in Places, NEW mode \in SUBSET Modes
  PROVE  LET r == OpenedFor(n, mode)
         IN /\ IsOutcome(r)
            /\ r.res # "OK" => r.fil = NoFIL /\ r.disk = store
            /\ r.res # "DISK_ERR"
            /\ r.res = "OK" => /\ r.fil.fs /\ r.fil.n = n /\ r.fil.pos = 0 /\ ~r.fil.err /\ r.fil.mode = mode
                               /\ store[n] # Dir_
                               /\ r.disk = IF store[n] # Absent /\ "CREATE_ALWAYS" \notin mode THEN store
                                           ELSE [store EXCEPT ![n] = <<>>]
                               /\ "CREATE_NEW" \in mode => store[n] = Absent
                               /\ store[n] = Absent => mode \cap {"CREATE_NEW", "CREATE_ALWAYS", "OPEN_ALWAYS"} # {}
<1> DEFINE f == [fs |-> TRUE, n |-> n, pos |-> 0, err |-> FALSE, mode |-> mode]
           d == IF store[n] # Absent /\ "CREATE_ALWAYS" \notin mode THEN store ELSE [store EXCEPT ![n] = <<>>]
           creates == mode \cap {"CREATE_NEW", "CREATE_ALWAYS", "OPEN_ALWAYS"} # {}
<1>1. IsFil(f) /\ f.fs /\ f.n = n /\ f.pos = 0 /\ ~f.err /\ f.mode = mode
  BY DEF IsFil, FILs
<1>2. d \in [Places -> Texts]
  BY EmptyText
<1> HIDE DEF f, d
<1>3. IsOutcome(Done("OK", f, d, <<>>))
  <2>1. "OK" \in Results
    BY DEF Results
  <2> QED
    BY <1>1, <1>2, <2>1, EmptyText, DoneIs
<1>4. \A res \in {"EXIST", "DENIED", "NO_FILE"} : IsOutcome(Refused(res, NoFIL)) /\ Refused(res, NoFIL) = Done(res, NoFIL, store, <<>>)
  BY RefusedIs, NoFILIs DEF Results, Refused
<1> USE DEF f, d
<1>5. OpenedFor(n, mode) = IF store[n] # Absent /\ "CREATE_NEW" \in mode THEN Refused("EXIST", NoFIL)
     ELSE IF store[n] = Dir_ THEN Refused(IF creates THEN "DENIED" ELSE "NO_FILE", NoFIL)
     ELSE IF ~(store[n] # Absent) /\ ~creates THEN Refused("NO_FILE", NoFIL)
     ELSE Done("OK", f, d, <<>>)
  BY DEF OpenedFor
<1> HIDE DEF f, d, creates
<1>6. \/ \E res \in {"EXIST", "DENIED", "NO_FILE"} : OpenedFor(n, mode) = Refused(res, NoFIL)
      \/ /\ OpenedFor(n, mode) = Done("OK", f, d, <<>>) /\ store[n] # Dir_
         /\ ("CREATE_NEW" \in mode => store[n] = Absent) /\ (store[n] = Absent => creates)
  BY <1>5
<1>7. CASE \E res \in {"EXIST", "DENIED", "NO_FILE"} : OpenedFor(n, mode) = Refused(res, NoFIL)
  <2>1. PICK res \in {"EXIST", "DENIED", "NO_FILE"} : OpenedFor(n, mode) = Refused(res, NoFIL)
    BY <1>7
  <2>2. OpenedFor(n, mode).res = res /\ OpenedFor(n, mode).fil = NoFIL /\ OpenedFor(n, mode).disk = store
    BY <2>1, <1>4, DoneHas
  <2> QED
    BY <1>4, <2>1, <2>2
<1>8. CASE /\ OpenedFor(n, mode) = Done("OK", f, d, <<>>) /\ store[n] # Dir_
           /\ ("CREATE_NEW" \in mode => store[n] = Absent) /\ (store[n] = Absent => creates)
  <2>1. OpenedFor(n, mode).res = "OK" /\ OpenedFor(n, mode).fil = f /\ OpenedFor(n, mode).disk = d
    BY <1>8, DoneHas
  <2> QED
    BY <1>1, <1>3, <1>8, <2>1 DEF d, creates
<1> QED
  BY <1>6, <1>7, <1>8

LEMMA DeniedIs == ASSUME NEW f, NEW a PROVE Denied(f, a) \in Results /\ (Denied(f, a) = "OK" => f.fs /\ ~f.err /\ a \in f.mode)
                                             /\ (f.fs /\ ~f.err => Denied(f, a) \in {"OK", "DENIED"})
BY DEF Denied, Results

(* The position moves, the file or the mode do not. *)
MovedFil(g, f) == IsFil(g) /\ g.fs = f.fs /\ g.n = f.n /\ g.err = f.err /\ g.mode = f.mode


LEMMA MovedIs ==
  ASSUME NEW f, IsFil(f), NEW p \in Nat
  PROVE  LET g == [f EXCEPT !.pos = p] IN MovedFil(g, f) /\ g.pos = p
BY DEF MovedFil, IsFil, FILs

LEMMA ReadIs ==
  ASSUME store \in [Places -> Texts], NEW f, IsFil(f), NEW k \in Nat
  PROVE  LET r == ReadFrom_(f, k)
         IN /\ IsOutcome(r) /\ r.disk = store /\ MovedFil(r.fil, f)
            /\ r.res # "OK" => r.fil = f /\ r.got = <<>>
            /\ r.res = "OK" => /\ f.fs /\ ~f.err /\ "READ" \in f.mode
                               /\ r.fil.pos = LesserOf(f.pos + k, Len(store[f.n]))
                               /\ r.got = SubSeq(store[f.n], f.pos + 1, LesserOf(f.pos + k, Len(store[f.n])))
            /\ f.fs /\ ~f.err => r.res \in {"OK", "DENIED"}
<1> DEFINE w == Denied(f, "READ")
           to == LesserOf(f.pos + k, Len(store[f.n]))
           got == SubSeq(store[f.n], f.pos + 1, to)
           g == [f EXCEPT !.pos = to]
<1>0. w \in Results /\ (w = "OK" => f.fs /\ ~f.err /\ "READ" \in f.mode) /\ (f.fs /\ ~f.err => w \in {"OK", "DENIED"})
  BY DeniedIs
<1>1. CASE w # "OK"
  <2>1. ReadFrom_(f, k) = Done(w, f, store, <<>>)
    BY <1>1 DEF ReadFrom_, Refused
  <2>2. MovedFil(f, f)
    BY DEF MovedFil
  <2> HIDE DEF w
  <2>3. ReadFrom_(f, k).res = w /\ ReadFrom_(f, k).fil = f /\ ReadFrom_(f, k).disk = store /\ ReadFrom_(f, k).got = <<>>
    BY <2>1, DoneHas
  <2>4. IsOutcome(ReadFrom_(f, k))
    BY <1>0, <2>1, DoneIs, EmptyText
  <2> QED
    BY <1>0, <1>1, <2>2, <2>3, <2>4
<1>2. CASE w = "OK"
  <2>1. ReadFrom_(f, k) = Done("OK", g, store, got)
    BY <1>2 DEF ReadFrom_
  <2>2. f.pos \in Nat /\ f.n \in Places /\ Len(store[f.n]) \in Nat /\ store[f.n] \in Texts
    BY <1>0, <1>2, LenProperties DEF IsFil, FILs, Texts
  <2>3. to \in Nat /\ to <= Len(store[f.n]) /\ to <= f.pos + k
    BY <2>2 DEF LesserOf
  <2>4. MovedFil(g, f) /\ g.pos = to
    BY <2>3, MovedIs
  <2>5. got \in Texts
    <3>1. CASE f.pos <= to
      <4> DEFINE s == store[f.n]
                 b == to
      <4>1. s \in Seq(Int) /\ f.pos \in Nat /\ b \in Nat /\ f.pos <= b /\ b <= Len(s)
        BY <2>2, <2>3, <3>1 DEF Texts
      <4> HIDE DEF s, b
      <4>2. SubSeq(s, f.pos + 1, b) \in Seq(Int)
        BY <4>1, SubSeqIs
      <4> QED
        BY <4>2 DEF s, b, Texts
    <3>2. CASE ~(f.pos <= to)
      <4>1. f.pos + 1 > to
        BY <2>2, <2>3, <3>2
      <4>2. got = <<>>
        BY <2>2, <2>3, <4>1, SubSeqEmpty
      <4> QED
        BY <4>2, EmptyText
    <3> QED
      BY <3>1, <3>2
  <2> HIDE DEF g, got, to
  <2>6. ReadFrom_(f, k).res = "OK" /\ ReadFrom_(f, k).fil = g /\ ReadFrom_(f, k).disk = store /\ ReadFrom_(f, k).got = got
    BY <2>1, DoneHas
  <2>7. IsOutcome(ReadFrom_(f, k))
    <3>1. IsFil(g) /\ "OK" \in Results
      BY <2>4 DEF MovedFil, Results
    <3> QED
      BY <2>1, <2>5, <3>1, DoneIs
  <2> QED
    BY <1>0, <1>2, <2>4, <2>6, <2>7 DEF to, got
<1> QED
  BY <1>1, <1>2

LEMMA TextsHold == Nat \subseteq Int /\ 0 \in Int /\ 0 \in Nat /\ Seq(Nat) \subseteq Texts
BY SeqMonotonic DEF Texts

WriteIsRight(r, f, x) ==
  /\ IsOutcome(r) /\ MovedFil(r.fil, f)
  /\ r.res # "OK" => r.fil = f /\ r.got = <<>> /\ r.disk = store
  /\ r.res = "OK" => /\ f.fs /\ ~f.err /\ "WRITE" \in f.mode /\ r.fil.pos = f.pos + Len(x) /\ r.got = x
                     /\ r.disk = [store EXCEPT ![f.n] = Overwrite(store[f.n], f.pos, x)]
  /\ f.fs /\ ~f.err => r.res \in {"OK", "DENIED"}
  /\ f.fs /\ ~f.err /\ "WRITE" \in f.mode => r.res = "OK"

LEMMA WriteIs ==
  ASSUME store \in [Places -> Texts], NEW f, IsFil(f), NEW x \in Texts
  PROVE  WriteIsRight(WriteTo(f, x), f, x)
<1> DEFINE w == Denied(f, "WRITE")
           o == Overwrite(store[f.n], f.pos, x)
           d == [store EXCEPT ![f.n] = o]
           p == f.pos + Len(x)
           g == [f EXCEPT !.pos = p]
<1>0. w \in Results /\ (w = "OK" => f.fs /\ ~f.err /\ "WRITE" \in f.mode) /\ (f.fs /\ ~f.err => w \in {"OK", "DENIED"})
      /\ (f.fs /\ ~f.err /\ "WRITE" \in f.mode => w = "OK")
  BY DeniedIs DEF Denied
<1>1. CASE w # "OK"
  <2>1. WriteTo(f, x) = Done(w, f, store, <<>>)
    BY <1>1 DEF WriteTo, Refused
  <2>2. MovedFil(f, f)
    BY DEF MovedFil
  <2> HIDE DEF w
  <2>3. WriteTo(f, x).res = w /\ WriteTo(f, x).fil = f /\ WriteTo(f, x).disk = store /\ WriteTo(f, x).got = <<>>
    BY <2>1, DoneHas
  <2>4. IsOutcome(WriteTo(f, x))
    BY <1>0, <2>1, DoneIs, EmptyText
  <2> QED
    BY <1>0, <1>1, <2>2, <2>3, <2>4 DEF WriteIsRight
<1>2. CASE w = "OK"
  <2>2. f.pos \in Nat /\ f.n \in Places /\ store[f.n] \in Texts /\ Len(x) \in Nat
    BY <1>0, <1>2, LenProperties DEF IsFil, FILs, Texts
  <2>3. p \in Nat
    BY <2>2
  <2>1. WriteTo(f, x) = Done("OK", g, d, x)
    BY <1>2 DEF WriteTo
  <2>4. MovedFil(g, f) /\ g.pos = p
    BY <2>3, MovedIs
  <2>5. o \in Texts
    <3> DEFINE s == store[f.n]
    <3>1. s \in Seq(Int) /\ x \in Seq(Int) /\ 0 \in Int
      BY <2>2 DEF Texts
    <3> HIDE DEF s
    <3>2. Overlaid(Overwrite(s, f.pos, x), s, f.pos, x, Int)
      BY <2>2, <3>1, OverwriteIs
    <3> QED
      BY <3>2 DEF s, Overlaid, Texts
  <2> HIDE DEF g, o
  <2>6. d \in [Places -> Texts]
    BY <2>5
  <2>7. WriteTo(f, x).res = "OK" /\ WriteTo(f, x).fil = g /\ WriteTo(f, x).disk = d /\ WriteTo(f, x).got = x
    BY <2>1, DoneHas
  <2>8. IsOutcome(WriteTo(f, x))
    <3>1. IsFil(g) /\ "OK" \in Results
      BY <2>4 DEF MovedFil, Results
    <3> QED
      BY <2>1, <2>6, <3>1, DoneIs
  <2> QED
    BY <1>0, <1>2, <2>4, <2>7, <2>8 DEF o, WriteIsRight
<1> QED
  BY <1>1, <1>2

SeekIsRight(r, f, ofs) ==
  /\ IsOutcome(r) /\ MovedFil(r.fil, f)
  /\ r.res # "OK" => r.fil = f /\ r.disk = store
  /\ r.res = "OK" => /\ f.fs /\ ~f.err
                     /\ r.fil.pos = IF "WRITE" \in f.mode THEN ofs ELSE LesserOf(ofs, Len(store[f.n]))
                     /\ r.disk = [store EXCEPT ![f.n] = Longer(store[f.n], f, ofs)]
  /\ f.fs /\ ~f.err => r.res = "OK"

LEMMA SeekIs ==
  ASSUME store \in [Places -> Texts], NEW f, IsFil(f), NEW ofs \in Nat
  PROVE  SeekIsRight(SeekTo(f, ofs), f, ofs)
<1> DEFINE w == Denied(f, "READ")
           s == store[f.n]
           o == Longer(s, f, ofs)
           p == IF "WRITE" \in f.mode THEN ofs ELSE LesserOf(ofs, Len(s))
           g == [f EXCEPT !.pos = p]
<1>1. CASE ~f.fs \/ f.err
  <2>1. w \in Results /\ w # "OK"
    BY <1>1, DeniedIs
  <2>2. SeekTo(f, ofs) = Done(w, f, store, <<>>)
    BY <1>1 DEF SeekTo, Refused
  <2>3. MovedFil(f, f)
    BY DEF MovedFil
  <2> HIDE DEF w
  <2>4. SeekTo(f, ofs).res = w /\ SeekTo(f, ofs).fil = f /\ SeekTo(f, ofs).disk = store
    BY <2>2, DoneHas
  <2>5. IsOutcome(SeekTo(f, ofs))
    BY <2>1, <2>2, DoneIs, EmptyText
  <2> QED
    BY <1>1, <2>1, <2>3, <2>4, <2>5 DEF SeekIsRight
<1>2. CASE f.fs /\ ~f.err
  <2>1. f.pos \in Nat /\ f.n \in Places /\ s \in Texts /\ Len(s) \in Nat
    BY <1>2, LenProperties DEF IsFil, FILs, Texts
  <2>2. p \in Nat
    BY <2>1 DEF LesserOf
  <2>3. MovedFil(g, f) /\ g.pos = p
    BY <2>2, MovedIs
  <2>4. o \in Texts
    <3>1. s \in Seq(Int) /\ Nat \subseteq Int
      BY <2>1 DEF Texts
    <3> HIDE DEF s
    <3> QED
      BY <3>1, LongerIs DEF Texts
  <2>5. SeekTo(f, ofs) = Done("OK", g, [store EXCEPT ![f.n] = o], <<>>)
    <3>1. CASE "WRITE" \in f.mode /\ ofs > Len(s)
      <4>1. SeekTo(f, ofs) = Done("OK", [f EXCEPT !.pos = ofs], [store EXCEPT ![f.n] = s \o FillFrom(ofs - Len(s))], <<>>)
        BY <1>2, <3>1 DEF SeekTo
      <4>2. p = ofs /\ o = s \o FillFrom(ofs - Len(s))
        BY <3>1 DEF Longer
      <4> QED
        BY <4>1, <4>2
    <3>2. CASE ~("WRITE" \in f.mode /\ ofs > Len(s))
      <4>1. SeekTo(f, ofs) = Done("OK", [f EXCEPT !.pos = LesserOf(ofs, Len(s))], store, <<>>)
        BY <1>2, <3>2 DEF SeekTo
      <4>2. p = LesserOf(ofs, Len(s))
        BY <2>1, <3>2 DEF LesserOf
      <4>3. o = s
        BY <3>2 DEF Longer
      <4>4. [store EXCEPT ![f.n] = s] = store
        BY <2>1
      <4> HIDE DEF p, o
      <4> QED
        BY <4>1, <4>2, <4>3, <4>4
    <3> QED
      BY <3>1, <3>2
  <2> HIDE DEF g, o
  <2> DEFINE d == [store EXCEPT ![f.n] = o]
  <2>6. d \in [Places -> Texts]
    BY <2>4
  <2> HIDE DEF d
  <2>7. SeekTo(f, ofs).res = "OK" /\ SeekTo(f, ofs).fil = g /\ SeekTo(f, ofs).disk = d
    BY <2>5, DoneHas DEF d
  <2>8. IsOutcome(SeekTo(f, ofs))
    <3>1. IsFil(g) /\ "OK" \in Results
      BY <2>3 DEF MovedFil, Results
    <3>2. SeekTo(f, ofs) = Done("OK", g, d, <<>>)
      BY <2>5 DEF d
    <3> QED
      BY <2>6, <3>1, <3>2, DoneIs, EmptyText
  <2> QED
    BY <1>2, <2>3, <2>7, <2>8 DEF d, o, SeekIsRight
<1> QED
  BY <1>1, <1>2

LEMMA CutHereIs ==
  ASSUME store \in [Places -> Texts], NEW f, IsFil(f)
  PROVE  LET r == CutHere(f)
         IN /\ IsOutcome(r) /\ r.fil = f /\ r.res = "OK"
            /\ f.fs => r.disk = [store EXCEPT ![f.n] = SubSeq(store[f.n], 1, LesserOf(f.pos, Len(store[f.n])))]
<1> DEFINE s == store[f.n]
           c == SubSeq(s, 1, LesserOf(f.pos, Len(s)))
           d == [store EXCEPT ![f.n] = c]
<1>1. CutHere(f) = Done("OK", f, d, <<>>)
  BY DEF CutHere
<1>2. d \in [Places -> Texts]
  <2>1. CASE f.n \in Places
    <3>1. s \in Seq(Int) /\ f.pos \in Nat /\ Len(s) \in Nat
      BY <2>1, LenProperties DEF IsFil, FILs, Texts
    <3> DEFINE k == LesserOf(f.pos, Len(s))
    <3>2. k \in Nat /\ k <= Len(s)
      BY <3>1 DEF LesserOf
    <3> HIDE DEF k, s
    <3>3. SubSeq(s, 1, k) \in Seq(Int)
      BY <3>1, <3>2, CutIs
    <3> QED
      BY <2>1, <3>3 DEF k, Texts
  <2>2. CASE f.n \notin Places
    BY <2>2
  <2> QED
    BY <2>1, <2>2
<1> HIDE DEF d
<1>3. CutHere(f).res = "OK" /\ CutHere(f).fil = f /\ CutHere(f).disk = d
  BY <1>1, DoneHas
<1>4. IsOutcome(CutHere(f))
  BY <1>1, <1>2, DoneIs, EmptyText DEF Results
<1> QED
  BY <1>3, <1>4 DEF d

-----------------------------------------------------------------------------
(* A task goes on in its call, or returns. *)

FrameRecords ==
  [at : Ats, fd : Fds, keep : Nat, res : Results \union {"EPERM"}, got : Texts, size : Nat, in : FILs, out : FILs]

LEMMA FramesAre == \A f : f \in Frames <=> f \in FrameRecords /\ IsFil(f.in) /\ IsFil(f.out) /\ Copied(f)
BY DEF Frames, FrameRecords

LEMMA FdsAre == 0 \in Fds /\ Fds \subseteq Nat /\ \A fd \in Fds : fd <= MaxFiles - 1
BY VfsConstants DEF Fds

LEMMA IdleIs == /\ Idle_ \in Frames /\ Idle_.at = "idle" /\ Idle_.in = NoFIL /\ Idle_.out = NoFIL
                /\ Idle_.res = "OK"
<1>1. NoFIL \in FILs
  BY NoFILIs DEF IsFil
<1>2. "idle" \in Ats /\ "OK" \in Results \union {"EPERM"} /\ 0 \in Nat
  BY DEF Ats, Results
<1>3. Idle_ \in FrameRecords /\ Idle_.in = NoFIL /\ Idle_.out = NoFIL /\ Idle_.at = "idle" /\ Idle_.res = "OK"
  BY <1>1, <1>2, EmptyText, FdsAre DEF Idle_, FrameRecords
<1> QED
  BY <1>3, NoFILIs, FramesAre DEF Copied, WritingAt

(* A frame with new fields.  The parts of a step in a call, one by one. *)
LEMMA FrameHas ==
  ASSUME NEW f \in Frames
  PROVE  /\ f.at \in Ats /\ f.fd \in Fds /\ f.keep \in Nat /\ f.res \in Results \union {"EPERM"} /\ f.got \in Texts
         /\ f.size \in Nat /\ IsFil(f.in) /\ IsFil(f.out) /\ Copied(f)
BY DEF Frames

Others(t) == \A u \in Tasks \ {t} : frame'[u] = frame[u] /\ left'[u] = left[u]
CallShapes == left \in [Tasks -> Seq(PosixCalls)] /\ frame \in [Tasks -> Frames] /\ \A t \in Tasks : InCall(t)

LEMMA ReturnStep ==
  ASSUME Shapes, NEW t \in Tasks, left[t] # <<>>, NEW r, Return(t, r)
  PROVE  CallShapes' /\ Others(t) /\ frame'[t] = Idle_
<1>1. left \in [Tasks -> Seq(PosixCalls)] /\ frame \in [Tasks -> Frames] /\ \A u \in Tasks : InCall(u)
  BY DEF Shapes
<1>2. left' = [left EXCEPT ![t] = Tail(left[t])] /\ frame' = [frame EXCEPT ![t] = Idle_]
  BY DEF Return, Goto_
<1>3. Tail(left[t]) \in Seq(PosixCalls)
  BY CallIs
<1>4. left' \in [Tasks -> Seq(PosixCalls)] /\ frame' \in [Tasks -> Frames]
  BY <1>1, <1>2, <1>3, IdleIs
<1>5. frame'[t] = Idle_ /\ \A u \in Tasks \ {t} : frame'[u] = frame[u] /\ left'[u] = left[u]
  BY <1>1, <1>2
<1>6. ASSUME NEW u \in Tasks PROVE InCall(u)'
  <2>1. CASE u = t
    BY <1>5, <2>1, IdleIs DEF InCall
  <2>2. CASE u # t
    BY <1>1, <1>5, <2>2 DEF InCall, Call
  <2> QED
    BY <2>1, <2>2
<1> QED
  BY <1>4, <1>5, <1>6 DEF CallShapes, Others

LEMMA GotoStep ==
  ASSUME Shapes, NEW t \in Tasks, NEW f \in Frames, Goto_(t, f), UNCHANGED left, left[t] # <<>>, Fits(f.at, Call(t).op)
  PROVE  CallShapes' /\ Others(t) /\ frame'[t] = f /\ Call(t)' = Call(t)
<1>1. left \in [Tasks -> Seq(PosixCalls)] /\ frame \in [Tasks -> Frames] /\ \A u \in Tasks : InCall(u)
  BY DEF Shapes
<1>2. frame' = [frame EXCEPT ![t] = f]
  BY DEF Goto_
<1>3. frame' \in [Tasks -> Frames] /\ frame'[t] = f /\ \A u \in Tasks \ {t} : frame'[u] = frame[u]
  BY <1>1, <1>2
<1>4. ASSUME NEW u \in Tasks PROVE InCall(u)'
  <2>1. CASE u = t
    BY <1>3, <2>1 DEF InCall, Call
  <2>2. CASE u # t
    BY <1>1, <1>3, <2>2 DEF InCall, Call
  <2> QED
    BY <2>1, <2>2
<1> QED
  BY <1>1, <1>3, <1>4 DEF CallShapes, Others, Call

LEMMA StayStep ==
  ASSUME Shapes, NEW t \in Tasks, UNCHANGED <<left, frame>>
  PROVE  CallShapes' /\ Others(t) /\ frame'[t] = frame[t] /\ Call(t)' = Call(t)
<1>1. left \in [Tasks -> Seq(PosixCalls)] /\ frame \in [Tasks -> Frames] /\ \A u \in Tasks : InCall(u)
  BY DEF Shapes
<1>2. \A u \in Tasks : InCall(u)'
  BY <1>1 DEF InCall, Call
<1> QED
  BY <1>1, <1>2 DEF CallShapes, Others, Call

(* A call that has begun is there. *)
LEMMA InACall == ASSUME Shapes, NEW t \in Tasks, frame[t].at # "idle" PROVE left[t] # <<>> /\ Fits(frame[t].at, Call(t).op)
BY DEF Shapes, InCall

-----------------------------------------------------------------------------
(* What a step does to the lock, the memory and the streams. *)

LEMMA ShapesStep ==
  ASSUME Shapes, CallShapes', files' \in [Fds -> {f \in FILs : IsFil(f)}], o_append' \in [Fds -> BOOLEAN],
         lock' \in Tasks \union {"free"}, mixed' \in BOOLEAN, trouble' \subseteq {"disk", "memory", "link"},
         mine' \in [Tasks -> -1 .. (MaxFiles - 1)], store' \in [Places -> Texts],
         dirs' \in [Tasks -> [open : BOOLEAN, at : 0 .. 4, offset : Nat]]
  PROVE  Shapes'
BY DEF Shapes, CallShapes

LEMMA TasksAre == "free" \notin Tasks /\ \A t, u, v \in Tasks : t = u \/ u = v \/ t = v
BY DEF Tasks

LEMMA LockStep ==
  ASSUME Shapes, LockKept, NEW t \in Tasks, Others(t),
         lock' = t <=> Locked(t)', \A u \in Tasks \ {t} : lock' = u <=> lock = u,
         frame'[t].at = "f_open" => ~files'[frame'[t].fd].fs,
         \A u \in Tasks \ {t} : lock = u => \A fd \in Fds : files'[fd].fs => files[fd].fs
  PROVE  LockKept'
<1>1. ASSUME NEW u \in Tasks \ {t} PROVE Locked(u)' <=> Locked(u)
  BY DEF Others, Locked, Call
<1>2. \A u \in Tasks : lock' = u <=> Locked(u)'
  BY <1>1 DEF LockKept
<1>3. ASSUME NEW u \in Tasks, frame'[u].at = "f_open" PROVE ~files'[frame'[u].fd].fs
  <2>1. CASE u = t
    BY <1>3, <2>1
  <2>2. CASE u # t
    <3>1. frame'[u] = frame[u] /\ frame[u].at = "f_open" /\ frame[u].fd \in Fds
      BY <1>3, <2>2, FrameHas DEF Others, Shapes
    <3>2. ~files[frame[u].fd].fs /\ lock = u
      BY <3>1 DEF LockKept, Locked
    <3> QED
      BY <2>2, <3>1, <3>2
  <2> QED
    BY <2>1, <2>2
<1> QED
  BY <1>2, <1>3 DEF LockKept

(* A step that leaves the lock and opens no descriptor. *)
LEMMA LockLeft ==
  ASSUME Shapes, LockKept, NEW t \in Tasks, Others(t), UNCHANGED lock, Locked(t)' <=> Locked(t),
         frame'[t].at # "f_open", \A fd \in Fds : files'[fd].fs => files[fd].fs
  PROVE  LockKept'
BY LockStep DEF LockKept

LEMMA LockGiven ==
  ASSUME Shapes, LockKept, NEW t \in Tasks, Others(t), GiveLock(t), ~Locked(t)'
  PROVE  LockKept'
<1>1. lock = t /\ lock' = "free"
  BY DEF GiveLock
<1>2. frame'[t].at # "f_open"
  BY DEF Locked
<1> QED
  BY <1>1, <1>2, LockStep, TasksAre

LEMMA LockTaken ==
  ASSUME Shapes, LockKept, NEW t \in Tasks, Others(t), TakeLock(t), Locked(t)', UNCHANGED files,
         frame'[t].at = "f_open" => ~files[frame'[t].fd].fs
  PROVE  LockKept'
<1>1. lock = "free" /\ lock' = t
  BY DEF TakeLock
<1> QED
  BY <1>1, LockStep, TasksAre

LEMMA ItsApart ==
  ASSUME NEW t \in Tasks, NEW x \in Its(t)
  PROVE  ~OfContexts(x) /\ \A u \in Tasks \ {t} : x \notin Its(u)
<1>1. \A u \in Tasks : \A y \in Its(u) : \E z \in {"dir", "file", "pf1", "pf2", "buf"} : y = <<z, u>>
  BY DEF Its, Holds, Own, Linking
<1> QED
  BY <1>1 DEF OfContexts

LEMMA MemoryStep ==
  ASSUME MemoryKept, NEW t \in Tasks, Others(t), UNCHANGED Contexts, \A u \in Tasks \ {t} : dirs'[u] = dirs[u],
         "link" \in trouble => "link" \in trouble',
         "link" \notin trouble' => memory' = (memory \ Its(t)) \union Its(t)'
  PROVE  MemoryKept'
<1>1. \A u \in Tasks \ {t} : Its(u)' = Its(u)
  BY DEF Others, Its, Holds, Call
<1>2. \A x : OfContexts(x)' <=> OfContexts(x)
  BY DEF OfContexts, Contexts
<1>3. ASSUME "link" \notin trouble', NEW x PROVE x \in memory' <=> OfContexts(x)' \/ \E u \in Tasks : x \in Its(u)'
  <2>1. x \in memory <=> OfContexts(x) \/ \E u \in Tasks : x \in Its(u)
    BY <1>3 DEF MemoryKept
  <2>2. x \in memory' <=> (x \in memory /\ x \notin Its(t)) \/ x \in Its(t)'
    BY <1>3
  <2>3. x \in Its(t) => ~OfContexts(x) /\ \A u \in Tasks \ {t} : x \notin Its(u)
    BY ItsApart
  <2> HIDE DEF OfContexts, Its
  <2> QED
    BY <1>1, <1>2, <2>1, <2>2, <2>3
<1> QED
  BY <1>3 DEF MemoryKept, Contexts

LEMMA ItsHeld ==
  ASSUME MemoryKept, NEW t \in Tasks, "link" \notin trouble
  PROVE  Its(t) \subseteq memory
BY DEF MemoryKept

(* A step in which the task allocates and frees nothing. *)
LEMMA MemoryLeft ==
  ASSUME MemoryKept, NEW t \in Tasks, Others(t), UNCHANGED <<memory, contexts, mounted>>, \A u \in Tasks : dirs'[u].open = dirs[u].open,
         \A u \in Tasks \ {t} : dirs'[u] = dirs[u],
         "link" \in trouble => "link" \in trouble', Holds(t)' = Holds(t)
  PROVE  MemoryKept'
<1>1. Its(t)' = Its(t)
  BY DEF Its
<1>2. "link" \notin trouble' => memory' = (memory \ Its(t)) \union Its(t)'
  BY <1>1, ItsHeld
<1> QED
  BY <1>2, MemoryStep DEF Contexts

Placed(t) ==
  dirs[t].open =>
    LET before == {n \in Places : n <= dirs[t].at /\ store[n] # Absent}
    IN IF dirs[t].at = End THEN dirs[t].offset >= Cardinality(before) ELSE dirs[t].offset = Cardinality(before)

LEMMA StreamIs == StreamPlaced <=> (Clean => \A t \in Tasks : Placed(t))
BY DEF StreamPlaced, Clean, Placed

(* Entries come and go only while no stream is open, or the directory's change is noticed. *)
LEMMA StreamLeft ==
  ASSUME StreamPlaced, Clean' => Clean, UNCHANGED dirs,
         Clean' => ~Streaming \/ \A n \in Places : (store'[n] = Absent <=> store[n] = Absent)
  PROVE  StreamPlaced'
<1>1. ASSUME Clean', NEW t \in Tasks PROVE Placed(t)'
  <2>1. CASE ~Streaming
    BY <2>1 DEF Placed, Streaming
  <2>2. CASE \A n \in Places : (store'[n] = Absent <=> store[n] = Absent)
    <3>1. {n \in Places : n <= dirs[t].at /\ store'[n] # Absent} = {n \in Places : n <= dirs[t].at /\ store[n] # Absent}
      BY <2>2
    <3>2. Placed(t)
      BY <1>1, StreamIs
    <3> QED
      BY <3>1, <3>2 DEF Placed
  <2> QED
    BY <1>1, <2>1, <2>2
<1>2. Clean' => \A t \in Tasks : Placed(t)'
  BY <1>1
<1> QED
  BY <1>2 DEF StreamPlaced, Clean, Placed

LEMMA StreamStep ==
  ASSUME StreamPlaced, Clean' => Clean, UNCHANGED store, NEW t \in Tasks, \A u \in Tasks \ {t} : dirs'[u] = dirs[u],
         Clean' /\ Placed(t) => Placed(t)'
  PROVE  StreamPlaced'
<1>1. ASSUME Clean', NEW u \in Tasks PROVE Placed(u)'
  <2>1. Placed(u)
    BY <1>1, StreamIs
  <2> QED
    BY <1>1, <2>1 DEF Placed
<1>2. Clean' => \A u \in Tasks : Placed(u)'
  BY <1>1
<1> QED
  BY <1>2 DEF StreamPlaced, Clean, Placed

(* Trouble and mixing stay. *)
LEMMA CleanStep == ASSUME trouble \subseteq trouble', mixed => mixed' PROVE Clean' => Clean
BY DEF Clean

-----------------------------------------------------------------------------
(* A step of one task leaves what the others are about alone. *)

Depends(u, n) ==
  \/ Using(u) /\ n = On(u).n
  \/ frame[u].in.fs /\ n = frame[u].in.n
  \/ frame[u].out.fs /\ n = frame[u].out.n

LEMMA TaskKept ==
  ASSUME NEW u \in Tasks, TaskWell(u), frame'[u] = frame[u], left'[u] = left[u],
         Using(u) => On(u)' = On(u) /\ o_append'[frame[u].fd] = o_append[frame[u].fd]
                       /\ posix'.pos[frame[u].fd] = posix.pos[frame[u].fd],
         \A n : Depends(u, n) => store'[n] = store[n] /\ posix'.disk[n] = posix.disk[n]
  PROVE  TaskWell(u)' /\ (\A n : Changing(u, n)' <=> Changing(u, n)) /\ (\A fd : Moving(u, fd)' <=> Moving(u, fd))
         /\ (Using(u)' <=> Using(u))
<1>1. Call(u)' = Call(u)
  BY DEF Call
<1>2. Using(u)' <=> Using(u)
  BY <1>1 DEF Using
<1>3. \A n : Changing(u, n)' <=> Changing(u, n)
  BY <1>1, <1>2 DEF Changing
<1>4. \A fd : Moving(u, fd)' <=> Moving(u, fd)
  BY <1>2 DEF Moving
<1>5. ASSUME Using(u), UsesWell(u) PROVE UsesWell(u)'
  <2>1. store'[On(u).n] = store[On(u).n] /\ posix'.disk[On(u).n] = posix.disk[On(u).n]
    BY <1>5 DEF Depends
  <2>2. On(u)' = On(u)
    BY <1>5
  <2> QED
    BY <1>1, <1>5, <2>1, <2>2 DEF UsesWell
<1>6. ASSUME LinksWell(u) PROVE LinksWell(u)'
  <2>1. CASE frame[u].at \in {"read", "write"}
    <3>1. /\ frame[u].in.fs /\ frame[u].in.n = Call(u).n /\ frame[u].out.fs /\ frame[u].out.n = Call(u).m
      BY <1>6, <2>1 DEF LinksWell
    <3>2. store'[Call(u).n] = store[Call(u).n] /\ store'[Call(u).m] = store[Call(u).m]
      BY <3>1 DEF Depends
    <3> QED
      BY <1>1, <1>6, <3>2 DEF LinksWell
  <2>2. CASE frame[u].at \notin {"read", "write"}
    BY <1>1, <1>6, <2>2 DEF LinksWell
  <2> QED
    BY <2>1, <2>2
<1>7. ASSUME CutsWell(u) PROVE CutsWell(u)'
  <2>1. frame[u].in.fs => store'[frame[u].in.n] = store[frame[u].in.n] /\ posix'.disk[frame[u].in.n] = posix.disk[frame[u].in.n]
    BY DEF Depends
  <2>2. CASE frame[u].in.fs /\ frame[u].in.n = Call(u).n
    <3>1. store'[Call(u).n] = store[Call(u).n] /\ posix'.disk[Call(u).n] = posix.disk[Call(u).n]
      BY <2>1, <2>2
    <3> QED
      BY <1>1, <1>7, <3>1 DEF CutsWell
  <2>3. CASE ~(frame[u].in.fs /\ frame[u].in.n = Call(u).n)
    <3>1. frame[u].at \notin {"seek", "cut"} /\ ~(frame[u].at = "close" /\ frame[u].res = "OK")
      BY <1>7, <2>3 DEF CutsWell
    <3> QED
      BY <3>1 DEF CutsWell
  <2> QED
    BY <2>2, <2>3
<1>8. TaskWell(u)'
  <2>1. frame[u].at # "idle" =>
          /\ Using(u) => On(u).fs /\ UsesWell(u)
          /\ Call(u).op = "link" => LinksWell(u)
          /\ Call(u).op = "truncate" => CutsWell(u)
    BY DEF TaskWell
  <2>2. Using(u) => On(u)' = On(u)
    OBVIOUS
  <2> QED
    BY <1>1, <1>2, <1>5, <1>6, <1>7, <2>1, <2>2 DEF TaskWell
<1> QED
  BY <1>2, <1>3, <1>4, <1>8

LEMMA ChangingDepends ==
  ASSUME NEW u \in Tasks, TaskWell(u), NEW n, Changing(u, n)
  PROVE  Depends(u, n)
<1>1. CASE Using(u) /\ frame[u].at \in {"move", "back"} /\ n = On(u).n
  BY <1>1 DEF Depends
<1>2. CASE frame[u].at \in {"read", "write", "close"} /\ Call(u).op = "link" /\ n = Call(u).m
  BY <1>2 DEF TaskWell, LinksWell, Depends
<1>3. CASE frame[u].at = "close" /\ Call(u).op = "truncate" /\ frame[u].res = "OK" /\ n = Call(u).n
  BY <1>3 DEF TaskWell, CutsWell, Depends
<1> QED
  BY <1>1, <1>2, <1>3 DEF Changing

HoldersOf(t, F) == ({"fd"} \X F) \union ({"in", "out"} \X {t})

LEMMA HolderIs ==
  ASSUME NEW h \in Holders
  PROVE  \/ \E fd \in Fds : h = <<"fd", fd>> /\ Fil(h) = files[fd]
         \/ \E t \in Tasks : h = <<"in", t>> /\ Fil(h) = frame[t].in
         \/ \E t \in Tasks : h = <<"out", t>> /\ Fil(h) = frame[t].out
BY DEF Holders, Fil

LEMMA HoldersAre ==
  /\ \A fd \in Fds : <<"fd", fd>> \in Holders /\ Fil(<<"fd", fd>>) = files[fd]
  /\ \A t \in Tasks : <<"in", t>> \in Holders /\ Fil(<<"in", t>>) = frame[t].in
                      /\ <<"out", t>> \in Holders /\ Fil(<<"out", t>>) = frame[t].out
BY DEF Holders, Fil

LEMMA HolderFil ==
  ASSUME Shapes, NEW h \in Holders
  PROVE  IsFil(Fil(h)) /\ (Fil(h).fs => Fil(h).n \in Places)
<1>1. \A t \in Tasks : frame[t] \in Frames
  BY DEF Shapes
<1>2. \A t \in Tasks : IsFil(frame[t].in) /\ IsFil(frame[t].out)
  BY <1>1, FrameHas
<1>3. \A fd \in Fds : IsFil(files[fd])
  BY DEF Shapes
<1>4. IsFil(Fil(h))
  BY <1>2, <1>3, HolderIs
<1> QED
  BY <1>4 DEF IsFil

StepOk(t, N, F) ==
  /\ \A n \in Places \ N : store'[n] = store[n] /\ posix'.disk[n] = posix.disk[n]
  /\ \A fd \in Fds \ F : files'[fd] = files[fd] /\ o_append'[fd] = o_append[fd] /\ posix'.pos[fd] = posix.pos[fd]
  /\ \A u \in Tasks \ {t} : Using(u) => frame[u].fd \notin F
  /\ \A h \in Holders \ HoldersOf(t, F) : Fil(h).fs => Fil(h).n \notin N
  /\ posix' \in Images

OwnOk(t, N, F) ==
  /\ TaskWell(t)'
  /\ Using(t)' => \A u \in Tasks \ {t} : Using(u) => frame[u].fd # frame'[t].fd
  /\ \A h \in HoldersOf(t, F) : (Fil(h)').fs =>
       /\ Sound(Fil(h))'
       /\ (Fil(h).fs /\ (Fil(h)').n = Fil(h).n) \/ \A g \in Holders : Fil(g).fs => Fil(g).n # (Fil(h)').n
  /\ \A g, h \in HoldersOf(t, F) : (Fil(g)').fs /\ (Fil(h)').fs /\ (Fil(g)').n = (Fil(h)').n => g = h
  /\ \A n \in Places : n \in N \/ Changing(t, n) => Changing(t, n)' \/ posix'.disk[n] = store'[n]
  /\ \A fd \in Fds : fd \in F \/ Moving(t, fd) => Moving(t, fd)' \/ ~files'[fd].fs \/ posix'.pos[fd] = files'[fd].pos
  /\ \A n \in N : store'[n] \in {Absent, Dir_} \union Seq(Nat)

LEMMA AgreedStep ==
  ASSUME Shapes, Agreed, NEW t \in Tasks, Others(t), NEW N \in SUBSET Places, NEW F \in SUBSET Fds,
         StepOk(t, N, F), OwnOk(t, N, F)
  PROVE  Agreed'
<1>1. ASSUME NEW h \in Holders \ HoldersOf(t, F) PROVE Fil(h)' = Fil(h)
  <2>1. CASE \E fd \in Fds : h = <<"fd", fd>>
    <3>1. PICK fd \in Fds : h = <<"fd", fd>>
      BY <2>1
    <3>2. fd \notin F
      BY <1>1, <3>1 DEF HoldersOf
    <3> QED
      BY <3>1, <3>2 DEF Fil, StepOk
  <2>2. CASE \E u \in Tasks : h = <<"in", u>> \/ h = <<"out", u>>
    <3>1. PICK u \in Tasks : h = <<"in", u>> \/ h = <<"out", u>>
      BY <2>2
    <3>2. u # t
      BY <1>1, <3>1 DEF HoldersOf
    <3> QED
      BY <3>1, <3>2 DEF Fil, Others
  <2> QED
    BY <2>1, <2>2 DEF Holders
<1>2. HoldersOf(t, F) \subseteq Holders
  BY DEF HoldersOf, Holders
<1>3. ASSUME NEW u \in Tasks \ {t}, NEW n, Depends(u, n) PROVE store'[n] = store[n] /\ posix'.disk[n] = posix.disk[n]
  <2>1. \E h \in Holders \ HoldersOf(t, F) : Fil(h).fs /\ n = Fil(h).n
    <3>1. CASE Using(u) /\ n = On(u).n
      <4> DEFINE fd == frame[u].fd
      <4>1. fd \in Fds /\ files[fd].fs /\ fd \notin F
        BY <3>1, FrameHas DEF Agreed, TaskWell, On, StepOk, Shapes, Using
      <4>2. <<"fd", fd>> \notin HoldersOf(t, F)
        BY <4>1 DEF HoldersOf
      <4> QED
        BY <3>1, <4>1, <4>2, HoldersAre DEF On
    <3>2. CASE frame[u].in.fs /\ n = frame[u].in.n
      <4>1. <<"in", u>> \notin HoldersOf(t, F)
        BY DEF HoldersOf
      <4> QED
        BY <3>2, <4>1, HoldersAre
    <3>3. CASE frame[u].out.fs /\ n = frame[u].out.n
      <4>1. <<"out", u>> \notin HoldersOf(t, F)
        BY DEF HoldersOf
      <4> QED
        BY <3>3, <4>1, HoldersAre
    <3> QED
      BY <1>3, <3>1, <3>2, <3>3 DEF Depends
  <2>2. n \in Places /\ n \notin N
    BY <2>1, HolderFil DEF StepOk
  <2> QED
    BY <2>2 DEF StepOk
<1>4. ASSUME NEW u \in Tasks \ {t}
      PROVE  TaskWell(u)' /\ (\A n : Changing(u, n)' <=> Changing(u, n)) /\ (\A fd : Moving(u, fd)' <=> Moving(u, fd))
             /\ (Using(u)' <=> Using(u))
  <2>1. TaskWell(u) /\ frame'[u] = frame[u] /\ left'[u] = left[u]
    BY DEF Agreed, Others
  <2>2. Using(u) => On(u)' = On(u) /\ o_append'[frame[u].fd] = o_append[frame[u].fd]
                       /\ posix'.pos[frame[u].fd] = posix.pos[frame[u].fd]
    <3> SUFFICES ASSUME Using(u) PROVE On(u)' = On(u) /\ o_append'[frame[u].fd] = o_append[frame[u].fd]
                       /\ posix'.pos[frame[u].fd] = posix.pos[frame[u].fd]
      OBVIOUS
    <3>1. frame[u].fd \in Fds /\ frame[u].fd \notin F
      BY FrameHas DEF StepOk, Shapes
    <3> QED
      BY <2>1, <3>1 DEF StepOk, On
  <2>3. \A n : Depends(u, n) => store'[n] = store[n] /\ posix'.disk[n] = posix.disk[n]
    BY <1>3
  <2> QED
    BY <2>1, <2>2, <2>3, TaskKept
<1>5. \A u \in Tasks : TaskWell(u)'
  BY <1>4 DEF OwnOk
<1>6. posix' \in Images
  BY DEF StepOk
<1>7. \A h \in Holders : (Fil(h)').fs => Sound(Fil(h))'
  <2> SUFFICES ASSUME NEW h \in Holders, (Fil(h)').fs PROVE Sound(Fil(h))'
    OBVIOUS
  <2>1. CASE h \in HoldersOf(t, F)
    BY <2>1 DEF OwnOk
  <2>2. CASE h \notin HoldersOf(t, F)
    <3>1. Fil(h)' = Fil(h) /\ Fil(h).fs
      BY <1>1, <2>2
    <3>2. Fil(h).n \in Places /\ Fil(h).n \notin N
      BY <2>2, <3>1, HolderFil DEF StepOk
    <3>3. store'[Fil(h).n] = store[Fil(h).n]
      BY <3>2 DEF StepOk
    <3>4. Sound(Fil(h))
      BY <3>1 DEF Agreed
    <3> QED
      BY <3>1, <3>3, <3>4 DEF Sound
  <2> QED
    BY <2>1, <2>2
<1>8. \A g, h \in Holders : (Fil(g)').fs /\ (Fil(h)').fs /\ (Fil(g)').n = (Fil(h)').n => g = h
  <2>1. ASSUME NEW g \in Holders \ HoldersOf(t, F), NEW h \in HoldersOf(t, F), (Fil(g)').fs, (Fil(h)').fs,
               (Fil(g)').n = (Fil(h)').n
        PROVE  FALSE
    <3>1. Fil(g)' = Fil(g) /\ h \in Holders /\ g # h
      BY <1>1, <1>2, <2>1
    <3>2. Fil(h).fs /\ (Fil(h)').n = Fil(h).n
      BY <2>1, <3>1 DEF OwnOk
    <3> QED
      BY <2>1, <3>1, <3>2 DEF Agreed
  <2>2. ASSUME NEW g \in Holders \ HoldersOf(t, F), NEW h \in Holders \ HoldersOf(t, F), (Fil(g)').fs, (Fil(h)').fs,
               (Fil(g)').n = (Fil(h)').n
        PROVE  g = h
    BY <1>1, <2>2 DEF Agreed
  <2>3. ASSUME NEW g \in HoldersOf(t, F), NEW h \in HoldersOf(t, F), (Fil(g)').fs, (Fil(h)').fs,
               (Fil(g)').n = (Fil(h)').n
        PROVE  g = h
    BY <2>3 DEF OwnOk
  <2> QED
    BY <2>1, <2>2, <2>3
<1>9. \A u, v \in Tasks : u # v /\ Using(u)' /\ Using(v)' => frame'[u].fd # frame'[v].fd
  <2>1. \A u \in Tasks \ {t} : (Using(u)' <=> Using(u)) /\ frame'[u] = frame[u]
    BY <1>4 DEF Others
  <2>2. \A u \in Tasks \ {t} : Using(t)' /\ Using(u) => frame[u].fd # frame'[t].fd
    BY DEF OwnOk
  <2>3. \A u, v \in Tasks : u # v /\ Using(u) /\ Using(v) => frame[u].fd # frame[v].fd
    BY DEF Agreed
  <2> QED
    BY <2>1, <2>2, <2>3
<1>10. \A n \in Places : (\A u \in Tasks : ~Changing(u, n)') => posix'.disk[n] = store'[n]
  <2> SUFFICES ASSUME NEW n \in Places, \A u \in Tasks : ~Changing(u, n)' PROVE posix'.disk[n] = store'[n]
    OBVIOUS
  <2>1. CASE n \in N \/ Changing(t, n)
    BY <2>1 DEF OwnOk
  <2>2. CASE ~(n \in N \/ Changing(t, n))
    <3>1. \A u \in Tasks : ~Changing(u, n)
      BY <1>4, <2>2
    <3>2. posix.disk[n] = store[n]
      BY <3>1 DEF Agreed
    <3> QED
      BY <2>2, <3>2 DEF StepOk
  <2> QED
    BY <2>1, <2>2
<1>11. \A fd \in Fds : files'[fd].fs /\ (\A u \in Tasks : ~Moving(u, fd)') => posix'.pos[fd] = files'[fd].pos
  <2> SUFFICES ASSUME NEW fd \in Fds, files'[fd].fs, \A u \in Tasks : ~Moving(u, fd)' PROVE posix'.pos[fd] = files'[fd].pos
    OBVIOUS
  <2>1. CASE fd \in F \/ Moving(t, fd)
    BY <2>1 DEF OwnOk
  <2>2. CASE ~(fd \in F \/ Moving(t, fd))
    <3>1. \A u \in Tasks : ~Moving(u, fd)
      BY <1>4, <2>2
    <3>2. files[fd].fs => posix.pos[fd] = files[fd].pos
      BY <3>1 DEF Agreed
    <3> QED
      BY <2>2, <3>2 DEF StepOk
  <2> QED
    BY <2>1, <2>2
<1>12. \A n \in Places : store'[n] \in {Absent, Dir_} \union Seq(Nat)
  <2> SUFFICES ASSUME NEW n \in Places PROVE store'[n] \in {Absent, Dir_} \union Seq(Nat)
    OBVIOUS
  <2>1. CASE n \in N
    BY <2>1 DEF OwnOk
  <2>2. CASE n \notin N
    BY <2>2 DEF StepOk, Agreed
  <2> QED
    BY <2>1, <2>2
<1> QED
  BY <1>5, <1>6, <1>7, <1>8, <1>9, <1>10, <1>11, <1>12 DEF Agreed


(* A step that changes no file, descriptor or image. *)
LEMMA AgreedQuiet ==
  ASSUME Shapes, Agreed, NEW t \in Tasks, Others(t), UNCHANGED <<files, o_append, store, posix>>,
         TaskWell(t)', Using(t)' => \A u \in Tasks \ {t} : Using(u) => frame[u].fd # frame'[t].fd,
         frame'[t].in = frame[t].in \/ ~frame'[t].in.fs, frame'[t].out = frame[t].out \/ ~frame'[t].out.fs,
         \A n \in Places : Changing(t, n) => Changing(t, n)' \/ posix.disk[n] = store[n],
         \A fd \in Fds : Moving(t, fd) => Moving(t, fd)' \/ ~files[fd].fs \/ posix.pos[fd] = files[fd].pos
  PROVE  Agreed'
<1>1. StepOk(t, {}, {})
  BY DEF StepOk, Agreed
<1>2. \A h \in HoldersOf(t, {}) : h \in Holders /\ ((Fil(h)').fs => Fil(h)' = Fil(h))
  BY DEF HoldersOf, Holders, Fil
<1>3. \A h \in HoldersOf(t, {}) : (Fil(h)').fs =>
       /\ Sound(Fil(h))'
       /\ (Fil(h).fs /\ (Fil(h)').n = Fil(h).n) \/ \A g \in Holders : Fil(g).fs => Fil(g).n # (Fil(h)').n
  BY <1>2 DEF Agreed, Sound
<1>4. \A g, h \in HoldersOf(t, {}) : (Fil(g)').fs /\ (Fil(h)').fs /\ (Fil(g)').n = (Fil(h)').n => g = h
  BY <1>2 DEF Agreed
<1>5. OwnOk(t, {}, {})
  BY <1>3, <1>4 DEF OwnOk
<1> QED
  BY <1>1, <1>5, AgreedStep

(* A step on an open descriptor that nobody else is using. *)
LEMMA AgreedOnFd ==
  ASSUME Shapes, Agreed, NEW t \in Tasks, Others(t), NEW fd \in Fds, files[fd].fs,
         \A u \in Tasks \ {t} : Using(u) => frame[u].fd # fd,
         \A e \in Fds \ {fd} : files'[e] = files[e] /\ posix'.pos[e] = posix.pos[e],
         files'[fd].fs, files'[fd].n = files[fd].n, ~files'[fd].err, UNCHANGED o_append,
         \A m \in Places \ {files[fd].n} : store'[m] = store[m] /\ posix'.disk[m] = posix.disk[m],
         store'[files[fd].n] \in Seq(Nat), files'[fd].pos <= Len(store'[files[fd].n]),
         posix' \in Images,
         frame'[t].in = frame[t].in \/ ~frame'[t].in.fs, frame'[t].out = frame[t].out \/ ~frame'[t].out.fs,
         TaskWell(t)', Using(t)' => frame'[t].fd = fd,
         \A m \in Places : Changing(t, m) => m = files[fd].n, \A e \in Fds : Moving(t, e) => e = fd,
         Changing(t, files[fd].n)' \/ posix'.disk[files[fd].n] = store'[files[fd].n],
         Moving(t, fd)' \/ posix'.pos[fd] = files'[fd].pos
  PROVE  Agreed'
<1> DEFINE n == files[fd].n
           k == <<"fd", fd>>
<1>0. n \in Places /\ k \in Holders /\ Fil(k) = files[fd] /\ Fil(k)' = files'[fd]
  BY HolderFil, HoldersAre DEF Fil
<1>1. \A h \in Holders : Fil(h).fs /\ Fil(h).n = n => h = k
  <2>1. Fil(k).fs /\ Fil(k).n = n
    BY <1>0
  <2>2. \A h \in Holders : Fil(h).fs /\ Fil(k).fs /\ Fil(h).n = Fil(k).n => h = k
    BY <1>0 DEF Agreed
  <2> QED
    BY <2>1, <2>2
<1>2. StepOk(t, {n}, {fd})
  <2>1. k \in HoldersOf(t, {fd})
    BY DEF HoldersOf
  <2> QED
    BY <1>1, <2>1 DEF StepOk
<1>3. \A h \in HoldersOf(t, {fd}) : h \in Holders /\ (h = k \/ ((Fil(h)').fs => Fil(h)' = Fil(h)))
  BY DEF HoldersOf, Holders, Fil
<1>4. ASSUME NEW h \in HoldersOf(t, {fd}), (Fil(h)').fs
      PROVE  Sound(Fil(h))' /\ Fil(h).fs /\ (Fil(h)').n = Fil(h).n
  <2>1. CASE h = k
    BY <1>0, <2>1 DEF Sound
  <2>2. CASE h # k
    <3>1. Fil(h)' = Fil(h) /\ Fil(h).fs /\ h \in Holders
      BY <1>3, <1>4, <2>2
    <3>2. Fil(h).n # n /\ Fil(h).n \in Places
      BY <1>1, <2>2, <3>1, HolderFil
    <3>3. Sound(Fil(h))
      BY <3>1 DEF Agreed
    <3> QED
      BY <3>1, <3>2, <3>3 DEF Sound
  <2> QED
    BY <2>1, <2>2
<1>5. \A g, h \in HoldersOf(t, {fd}) : (Fil(g)').fs /\ (Fil(h)').fs /\ (Fil(g)').n = (Fil(h)').n => g = h
  <2> SUFFICES ASSUME NEW g \in HoldersOf(t, {fd}), NEW h \in HoldersOf(t, {fd}), (Fil(g)').fs, (Fil(h)').fs,
                      (Fil(g)').n = (Fil(h)').n
               PROVE  g = h
    OBVIOUS
  <2>1. Fil(g).fs /\ Fil(h).fs /\ Fil(g).n = Fil(h).n /\ g \in Holders /\ h \in Holders
    BY <1>3, <1>4
  <2>2. \A x, y \in Holders : Fil(x).fs /\ Fil(y).fs /\ Fil(x).n = Fil(y).n => x = y
    BY DEF Agreed
  <2> QED
    BY <2>1, <2>2
<1>6. \A h \in HoldersOf(t, {fd}) : (Fil(h)').fs =>
       /\ Sound(Fil(h))'
       /\ (Fil(h).fs /\ (Fil(h)').n = Fil(h).n) \/ \A g \in Holders : Fil(g).fs => Fil(g).n # (Fil(h)').n
  BY <1>4
<1>7. OwnOk(t, {n}, {fd})
  BY <1>5, <1>6, ZenonT(30) DEF OwnOk
<1> QED
  BY <1>0, <1>2, <1>7, AgreedStep, SMTT(30)

LEMMA Idles ==
  ASSUME NEW t \in Tasks, frame[t].at = "idle"
  PROVE  /\ ~Using(t) /\ Holds(t) = {} /\ ~Locked(t) /\ (\A n : ~Changing(t, n)) /\ (\A fd : ~Moving(t, fd))
         /\ TaskWell(t)
BY DEF Using, Holds, Locked, Changing, Moving, TaskWell

LEMMA Returned ==
  ASSUME NEW t \in Tasks, frame'[t] = Idle_
  PROVE  /\ ~Using(t)' /\ Holds(t)' = {} /\ ~Locked(t)' /\ (\A n : ~Changing(t, n)') /\ (\A fd : ~Moving(t, fd)')
         /\ TaskWell(t)' /\ frame'[t].at = "idle" /\ ~frame'[t].in.fs /\ ~frame'[t].out.fs
BY IdleIs, NoFILIs DEF Using, Holds, Locked, Changing, Moving, TaskWell

LEMMA TroubleStep ==
  ASSUME Shapes, NEW res, Trouble(res)
  PROVE  /\ trouble' \subseteq {"disk", "memory", "link"} /\ trouble \subseteq trouble'
         /\ "link" \in trouble => "link" \in trouble'
         /\ "link" \notin trouble => "link" \notin trouble'
         /\ Clean' => res # "DISK_ERR"
BY DEF Trouble, Clean, Shapes

LEMMA MixesStep == ASSUME Shapes, NEW b \in BOOLEAN, Mixes(b) PROVE mixed' \in BOOLEAN /\ (mixed => mixed') /\ (Clean' => ~b)
BY DEF Mixes, Shapes, Clean

LEMMA VfsInvStep == ASSUME Shapes', LockKept', MemoryKept', StreamPlaced', Clean' => Agreed' PROVE VfsInv'
BY DEF VfsInv

LEMMA FdIs ==
  ASSUME Shapes, NEW t \in Tasks, Valid(t)
  PROVE  FdOf(t) \in Fds /\ files[FdOf(t)].fs /\ IsFil(files[FdOf(t)]) /\ files[FdOf(t)].n \in Places
<1>1. FdOf(t) \in Fds /\ files[FdOf(t)].fs
  BY DEF Valid
<1>2. IsFil(files[FdOf(t)])
  BY <1>1 DEF Shapes
<1> QED
  BY <1>1, <1>2 DEF IsFil

-----------------------------------------------------------------------------
(* The steps, one after the other. *)

(* A call that returns at once and changes no file. *)
LEMMA CallOnly ==
  ASSUME VfsInv, NEW t \in Tasks, frame[t].at = "idle", left[t] # <<>>, NEW r, Return(t, r),
         trouble \subseteq trouble', trouble' \subseteq trouble \union {"disk", "memory"},
         UNCHANGED <<lock, files, o_append, store, posix, mixed, mine>>
  PROVE  /\ CallShapes' /\ Others(t) /\ frame'[t] = Idle_ /\ LockKept' /\ (Clean' => Clean) /\ (Clean' => Agreed')
         /\ Holds(t)' = Holds(t) /\ Holds(t) = {} /\ ("link" \in trouble <=> "link" \in trouble')
         /\ (UNCHANGED dirs => Shapes')
<1>1. Shapes /\ LockKept /\ (Clean => Agreed)
  BY DEF VfsInv
<1>2. CallShapes' /\ Others(t) /\ frame'[t] = Idle_
  BY <1>1, ReturnStep
<1>3. LockKept'
  BY <1>1, <1>2, Idles, Returned, LockLeft
<1>4. Clean' => Clean
  BY CleanStep
<1>5. ASSUME Clean' PROVE Agreed'
  <2>1. Agreed
    BY <1>1, <1>4, <1>5
  <2> QED
    BY <1>1, <1>2, <2>1, Idles, Returned, AgreedQuiet
<1>6. UNCHANGED dirs => Shapes'
  BY <1>1, <1>2, ShapesStep DEF Shapes
<1>7. "link" \in trouble <=> "link" \in trouble'
  OBVIOUS
<1> QED
  BY <1>2, <1>3, <1>4, <1>5, <1>6, <1>7, Idles, Returned

LEMMA CallNothing ==
  ASSUME VfsInv, NEW t \in Tasks, frame[t].at = "idle", left[t] # <<>>, NEW r, Return(t, r),
         trouble \subseteq trouble', trouble' \subseteq trouble \union {"disk", "memory"},
         UNCHANGED <<lock, files, o_append, store, posix, mixed, mine, dirs, memory, contexts, mounted>>
  PROVE  VfsInv'
<1>1. /\ CallShapes' /\ Others(t) /\ frame'[t] = Idle_ /\ LockKept' /\ (Clean' => Clean) /\ (Clean' => Agreed')
      /\ Holds(t)' = Holds(t) /\ ("link" \in trouble <=> "link" \in trouble') /\ Shapes'
  BY CallOnly
<1>2. MemoryKept'
  BY <1>1, MemoryLeft DEF VfsInv
<1>3. StreamPlaced'
  BY <1>1, StreamLeft DEF VfsInv
<1> QED
  BY <1>1, <1>2, <1>3, VfsInvStep

LEMMA RefuseRight == ASSUME VfsInv, NEW t \in Tasks, Refuse(t) PROVE VfsInv'
<1>1. /\ frame[t].at = "idle" /\ left[t] # <<>> /\ Return(t, "EBADF")
      /\ UNCHANGED <<lock, files, o_append, store, posix, mixed, mine, dirs, memory, contexts, mounted, trouble>>
  BY DEF Refuse, Streams_, Contexts
<1> QED
  BY <1>1, CallNothing

LEMMA FsyncRight == ASSUME VfsInv, NEW t \in Tasks, Fsync(t) PROVE VfsInv'
<1>1. PICK r : Fails(t, r.res) /\ Trouble(r.res)
  BY DEF Fsync
<1>2. /\ frame[t].at = "idle" /\ left[t] # <<>> /\ Return(t, fresult_to_errno[r.res])
      /\ UNCHANGED <<lock, files, o_append, store, posix, mixed, mine, dirs, memory, contexts, mounted>>
  BY <1>1 DEF Fsync, Streams_, Contexts, CallBegins, Fails
<1>3. trouble \subseteq trouble' /\ trouble' \subseteq trouble \union {"disk", "memory"}
  BY <1>1 DEF Trouble
<1> QED
  BY <1>2, <1>3, CallNothing

-----------------------------------------------------------------------------
(* The steps on a descriptor. *)

LEMMA AbsentIs == Absent \notin Seq(Nat) /\ Dir_ \notin Seq(Nat) /\ Absent # Dir_ /\ Absent \in Texts /\ Dir_ \in Texts
<1>1. Absent[1] = -1 /\ Len(Absent) = 1 /\ Dir_[1] = -2 /\ Len(Dir_) = 1
  BY DEF Absent, Dir_
<1>2. \A s \in Seq(Nat) : Len(s) = 1 => s[1] \in Nat
  <2> SUFFICES ASSUME NEW s \in Seq(Nat), Len(s) = 1 PROVE s[1] \in Nat
    OBVIOUS
  <2>1. 1 \in 1 .. Len(s)
    OBVIOUS
  <2> QED
    BY <2>1, ElementOfSeq
<1>3. -1 \in Int /\ -2 \in Int /\ -1 \notin Nat /\ -2 \notin Nat
  OBVIOUS
<1>4. Absent \in Texts /\ Dir_ \in Texts
  BY <1>3 DEF Absent, Dir_, Texts
<1> QED
  BY <1>1, <1>2, <1>3, <1>4

(* A step that allocates nothing and opens no stream. *)
LEMMA FaceStep ==
  ASSUME VfsInv, NEW t \in Tasks, CallShapes', Others(t), LockKept', lock' \in Tasks \union {"free"},
         files' \in [Fds -> {f \in FILs : IsFil(f)}], store' \in [Places -> Texts],
         mixed' \in BOOLEAN, mixed => mixed', trouble \subseteq trouble', trouble' \subseteq {"disk", "memory", "link"},
         UNCHANGED <<dirs, memory, contexts, mounted>>, o_append' \in [Fds -> BOOLEAN],
         mine' \in [Tasks -> -1 .. (MaxFiles - 1)], Holds(t)' = Holds(t),
         Clean' => ~Streaming \/ \A n \in Places : (store'[n] = Absent <=> store[n] = Absent),
         Clean' => Agreed'
  PROVE  VfsInv'
<1>1. Shapes /\ MemoryKept /\ StreamPlaced
  BY DEF VfsInv
<1>2. Shapes'
  BY <1>1, ShapesStep DEF Shapes
<1>3. MemoryKept'
  BY <1>1, MemoryLeft
<1>4. Clean' => Clean
  BY CleanStep
<1>5. StreamPlaced'
  BY <1>1, <1>4, StreamLeft
<1> QED
  BY <1>2, <1>3, <1>5, VfsInvStep

LEMMA PutIs ==
  ASSUME Shapes, NEW fd \in Fds, NEW r, IsOutcome(r), PutFil(fd, r)
  PROVE  /\ files' \in [Fds -> {f \in FILs : IsFil(f)}] /\ store' \in [Places -> Texts] /\ store' = r.disk
         /\ files'[fd] = r.fil /\ \A e \in Fds \ {fd} : files'[e] = files[e]
<1>1. files \in [Fds -> {f \in FILs : IsFil(f)}]
  BY DEF Shapes
<1>2. r.fil \in FILs /\ IsFil(r.fil)
  BY DEF IsOutcome, IsFil
<1> QED
  BY <1>1, <1>2 DEF PutFil, IsOutcome

(* Nobody else is about what is behind a descriptor that nobody else uses. *)
LEMMA Alone ==
  ASSUME Shapes, Agreed, NEW t \in Tasks, NEW fd \in Fds, files[fd].fs,
         \A u \in Tasks \ {t} : Using(u) => frame[u].fd # fd
  PROVE  /\ \A u \in Tasks \ {t} : ~Changing(u, files[fd].n) /\ ~Moving(u, fd)
         /\ frame[t].at = "idle" => posix.disk[files[fd].n] = store[files[fd].n] /\ posix.pos[fd] = files[fd].pos
<1>0. files[fd].n \in Places
  BY HoldersAre, HolderFil
<1>1. ASSUME NEW u \in Tasks \ {t}, Depends(u, files[fd].n) PROVE FALSE
  <2>0. \A g, h \in Holders : Fil(g).fs /\ Fil(h).fs /\ Fil(g).n = Fil(h).n => g = h
    BY DEF Agreed
  <2>1. CASE Using(u) /\ files[fd].n = On(u).n
    <3>1. frame[u].fd \in Fds /\ On(u).fs
      BY <2>1, FrameHas, SMTT(30) DEF Shapes, Agreed, TaskWell, Using
    <3>2. <<"fd", frame[u].fd>> = <<"fd", fd>>
      BY <2>0, <2>1, <3>1, HoldersAre, ZenonT(30) DEF On
    <3> QED
      BY <2>1, <3>2
  <2>2. CASE frame[u].in.fs /\ files[fd].n = frame[u].in.n
    <3>1. <<"in", u>> = <<"fd", fd>>
      BY <2>0, <2>2, HoldersAre, ZenonT(30)
    <3> QED
      BY <3>1
  <2>3. CASE frame[u].out.fs /\ files[fd].n = frame[u].out.n
    <3>1. <<"out", u>> = <<"fd", fd>>
      BY <2>0, <2>3, HoldersAre, ZenonT(30)
    <3> QED
      BY <3>1
  <2> QED
    BY <1>1, <2>1, <2>2, <2>3 DEF Depends
<1>2. \A u \in Tasks \ {t} : ~Changing(u, files[fd].n)
  BY <1>1, ChangingDepends DEF Agreed
<1>3. \A u \in Tasks \ {t} : ~Moving(u, fd)
  BY DEF Moving
<1>4. ASSUME frame[t].at = "idle" PROVE posix.disk[files[fd].n] = store[files[fd].n] /\ posix.pos[fd] = files[fd].pos
  <2>1. \A u \in Tasks : ~Changing(u, files[fd].n) /\ ~Moving(u, fd)
    BY <1>2, <1>3, <1>4, Idles
  <2> QED
    BY <1>0, <2>1 DEF Agreed
<1> QED
  BY <1>2, <1>3, <1>4

LEMMA OverlapsNot ==
  ASSUME Shapes, NEW t \in Tasks, NEW fd, Mixes(Overlaps(t, fd))
  PROVE  mixed' \in BOOLEAN /\ (mixed => mixed') /\ (Clean' => \A u \in Tasks \ {t} : Using(u) => frame[u].fd # fd)
<1>1. Overlaps(t, fd) \in BOOLEAN
  BY DEF Overlaps
<1>2. mixed' \in BOOLEAN /\ (mixed => mixed') /\ (Clean' => ~Overlaps(t, fd))
  BY <1>1, MixesStep
<1> QED
  BY <1>2 DEF Overlaps, Using

(* A call on a descriptor that begins and changes nothing. *)
LEMMA BeginsOnFd ==
  ASSUME VfsInv, NEW t \in Tasks, frame[t].at = "idle", left[t] # <<>>, Valid(t), Call(t).op \in OnFd,
         NEW f \in Frames, Goto_(t, f), f.fd = FdOf(t), f.in = NoFIL, f.out = NoFIL, Fits(f.at, Call(t).op),
         f.at \notin {"idle", "f_open"},
         UNCHANGED <<left, files, o_append, mine, dirs, store, memory, contexts, mounted, trouble, posix>>,
         (UNCHANGED lock /\ ~Locked(t)') \/ (TakeLock(t) /\ Locked(t)'),
         Mixes(Overlaps(t, FdOf(t))),
         Agreed /\ (\A u \in Tasks \ {t} : Using(u) => frame[u].fd # FdOf(t)) => UsesWell(t)'
  PROVE  VfsInv'
<1>1. Shapes /\ LockKept /\ (Clean => Agreed)
  BY DEF VfsInv
<1>2. CallShapes' /\ Others(t) /\ frame'[t] = f /\ Call(t)' = Call(t)
  BY <1>1, GotoStep
<1>3. FdOf(t) \in Fds /\ files[FdOf(t)].fs
  BY <1>1, FdIs
<1>4. LockKept'
  <2>1. CASE UNCHANGED lock /\ ~Locked(t)'
    BY <1>1, <1>2, <2>1, Idles, LockLeft
  <2>2. CASE TakeLock(t) /\ Locked(t)'
    BY <1>1, <1>2, <2>2, LockTaken
  <2> QED
    BY <2>1, <2>2
<1>5. lock' \in Tasks \union {"free"}
  BY <1>1 DEF Shapes, TakeLock
<1>6. mixed' \in BOOLEAN /\ (mixed => mixed') /\ (Clean' => \A u \in Tasks \ {t} : Using(u) => frame[u].fd # FdOf(t))
  BY <1>1, OverlapsNot
<1>7. Clean' => Clean
  BY <1>6, CleanStep
<1>8. Holds(t)' = Holds(t)
  BY <1>2 DEF Holds, OnFd
<1>9. ASSUME Clean' PROVE Agreed'
  <2>1. Agreed /\ \A u \in Tasks \ {t} : Using(u) => frame[u].fd # FdOf(t)
    BY <1>1, <1>6, <1>7, <1>9
  <2>2. UsesWell(t)'
    BY <2>1
  <2>3. Using(t)' /\ (On(t)').fs /\ Call(t)'.op \notin {"link", "truncate"}
    BY <1>2, <1>3 DEF Using, On, OnFd
  <2>4. TaskWell(t)'
    BY <2>2, <2>3 DEF TaskWell
  <2>5. ~frame'[t].in.fs /\ ~frame'[t].out.fs /\ frame'[t].fd = FdOf(t)
    BY <1>2, NoFILIs
  <2> QED
    BY <1>1, <1>2, <2>1, <2>4, <2>5, Idles, AgreedQuiet
<1>10. UNCHANGED <<files, store, o_append, mine>>
  OBVIOUS
<1> QED
  BY <1>1, <1>2, <1>4, <1>5, <1>6, <1>8, <1>9, FaceStep DEF Shapes

Starts(f, at, fd, keep) == f = [Idle_ EXCEPT !.at = at, !.fd = fd, !.keep = keep]

LEMMA Started ==
  ASSUME NEW at \in Ats, NEW fd \in Fds, NEW keep \in Nat, NEW f, Starts(f, at, fd, keep)
  PROVE  /\ f \in Frames /\ f.at = at /\ f.fd = fd /\ f.keep = keep /\ f.in = NoFIL /\ f.out = NoFIL /\ f.res = "OK"
<1>1. Idle_ \in FrameRecords /\ IsFil(Idle_.in) /\ IsFil(Idle_.out)
  BY IdleIs, FramesAre
<1>2. f \in FrameRecords
  BY <1>1 DEF FrameRecords, Starts
<1>4. Copied(f)
  <2>1. f.got = <<>> /\ f.size = 0
    BY <1>1 DEF Idle_, FrameRecords, Starts
  <2> QED
    BY <2>1, EmptySeq DEF Copied
<1>3. f.at = at /\ f.fd = fd /\ f.keep = keep /\ f.in = Idle_.in /\ f.out = Idle_.out /\ f.res = Idle_.res
  BY <1>1 DEF FrameRecords, Starts
<1> QED
  BY <1>1, <1>2, <1>3, <1>4, IdleIs, FramesAre

LEMMA WriteStartRight == ASSUME VfsInv, NEW t \in Tasks, WriteStart(t) PROVE VfsInv'
<1> DEFINE fd == FdOf(t)
           k == Len(store[files[fd].n])
           a == IF o_append[fd] THEN "end" ELSE "write"
           f == [Idle_ EXCEPT !.at = a, !.fd = fd, !.keep = k]
<1>1. /\ frame[t].at = "idle" /\ left[t] # <<>> /\ Call(t).op = "write" /\ Valid(t) /\ Goto_(t, f) /\ Mixes(Overlaps(t, fd))
      /\ UNCHANGED <<left, lock, files, o_append, mine, dirs, store, memory, contexts, mounted, trouble, posix>>
  BY DEF WriteStart, CallBegins, Streams_, Contexts
<1>2. Shapes
  BY DEF VfsInv
<1>3. fd \in Fds /\ files[fd].fs /\ files[fd].n \in Places
  BY <1>1, <1>2, FdIs
<1>4. k \in Nat
  BY <1>2, <1>3, LenProperties DEF Shapes, Texts
<1>5. a \in Ats /\ a \in {"end", "write"}
  BY DEF Ats
<1>7. f \in Frames /\ f.at = a /\ f.fd = fd /\ f.keep = k /\ f.in = NoFIL /\ f.out = NoFIL
  <2>1. Starts(f, a, fd, k)
    BY DEF Starts
  <2> HIDE DEF f, a, k, fd
  <2> QED
    BY <1>3, <1>4, <1>5, <2>1, Started
<1> HIDE DEF f
<1>8. frame'[t] = f /\ Call(t)' = Call(t)
  BY <1>1, <1>2, <1>5, <1>7, GotoStep DEF Fits
<1>9. ~Locked(t)'
  BY <1>5, <1>7, <1>8 DEF Locked
<1>10. UsesWell(t)'
  BY <1>1, <1>5, <1>7, <1>8 DEF UsesWell, On
<1> QED
  BY <1>1, <1>5, <1>7, <1>9, <1>10, BeginsOnFd DEF Fits, OnFd

LEMMA SoughtIs ==
  ASSUME NEW from \in {"SET", "CUR", "END"}, NEW pos \in Nat, NEW size \in Nat
  PROVE  Sought(from, pos, size) \in Nat
BY DEF Sought

LEMMA LseekStartRight == ASSUME VfsInv, NEW t \in Tasks, LseekStart(t) PROVE VfsInv'
<1> DEFINE fd == FdOf(t)
           k == Sought(Call(t).from, files[fd].pos, Len(store[files[fd].n])) + Call(t).ofs
           a == "lseek"
           f == [Idle_ EXCEPT !.at = a, !.fd = fd, !.keep = k]
<1>1. /\ frame[t].at = "idle" /\ left[t] # <<>> /\ Call(t).op = a /\ Valid(t) /\ Goto_(t, f) /\ Mixes(Overlaps(t, fd))
      /\ k >= 0
      /\ UNCHANGED <<left, lock, files, o_append, mine, dirs, store, memory, contexts, mounted, trouble, posix>>
  BY DEF LseekStart, CallBegins, Streams_, Contexts
<1>2. Shapes
  BY DEF VfsInv
<1>3. fd \in Fds /\ files[fd].fs /\ files[fd].n \in Places /\ files[fd].pos \in Nat
  BY <1>1, <1>2, FdIs DEF IsFil, FILs
<1>4. k \in Nat
  <2>1. Len(store[files[fd].n]) \in Nat
    BY <1>2, <1>3, LenProperties DEF Shapes, Texts
  <2>2. Call(t).ofs \in Int /\ Call(t).from \in {"SET", "CUR", "END"}
    BY <1>1, <1>2, CallIs, CallsHave
  <2>3. Sought(Call(t).from, files[fd].pos, Len(store[files[fd].n])) \in Nat
    BY <1>3, <2>1, <2>2, SoughtIs
  <2> HIDE DEF fd
  <2> QED
    BY <1>1, <2>2, <2>3
<1>5. a \in Ats
  BY DEF Ats
<1>7. f \in Frames /\ f.at = a /\ f.fd = fd /\ f.keep = k /\ f.in = NoFIL /\ f.out = NoFIL
  <2>1. Starts(f, a, fd, k)
    BY DEF Starts
  <2> HIDE DEF f, a, k, fd
  <2> QED
    BY <1>3, <1>4, <1>5, <2>1, Started
<1> HIDE DEF f
<1>8. frame'[t] = f /\ Call(t)' = Call(t)
  BY <1>1, <1>2, <1>5, <1>7, GotoStep DEF Fits
<1>9. ~Locked(t)'
  BY <1>5, <1>7, <1>8 DEF Locked
<1>10. ASSUME Agreed, \A u \in Tasks \ {t} : Using(u) => frame[u].fd # fd PROVE UsesWell(t)'
  <2>1. posix.disk[files[fd].n] = store[files[fd].n] /\ posix.pos[fd] = files[fd].pos
    BY <1>1, <1>2, <1>3, <1>10, Alone
  <2>2. f.keep = Sought(Call(t).from, posix.pos[fd], Len(posix.disk[files[fd].n])) + Call(t).ofs
    BY <1>7, <2>1
  <2> QED
    BY <1>1, <1>5, <1>7, <1>8, <2>2 DEF UsesWell, On
<1> QED
  BY <1>1, <1>5, <1>7, <1>9, <1>10, BeginsOnFd DEF Fits, OnFd

LEMMA PositionalStartRight == ASSUME VfsInv, NEW t \in Tasks, PositionalStart(t) PROVE VfsInv'
<1> DEFINE fd == FdOf(t)
           k == files[fd].pos
           a == "there"
           f == [Idle_ EXCEPT !.at = a, !.fd = fd, !.keep = k]
<1>1. /\ frame[t].at = "idle" /\ left[t] # <<>> /\ Call(t).op \in Positional /\ Valid(t) /\ Goto_(t, f) /\ TakeLock(t)
      /\ Mixes(Overlaps(t, fd))
      /\ UNCHANGED <<left, files, o_append, mine, dirs, store, memory, contexts, mounted, trouble, posix>>
  BY DEF PositionalStart, CallBegins, Streams_, Contexts
<1>2. Shapes
  BY DEF VfsInv
<1>3. fd \in Fds /\ files[fd].fs /\ files[fd].n \in Places /\ k \in Nat
  BY <1>1, <1>2, FdIs DEF IsFil, FILs
<1>5. a \in Ats
  BY DEF Ats
<1>7. f \in Frames /\ f.at = a /\ f.fd = fd /\ f.keep = k /\ f.in = NoFIL /\ f.out = NoFIL
  <2>1. Starts(f, a, fd, k)
    BY DEF Starts
  <2> HIDE DEF f, a, k, fd
  <2> QED
    BY <1>3, <1>5, <2>1, Started
<1> HIDE DEF f
<1>8. frame'[t] = f /\ Call(t)' = Call(t)
  BY <1>1, <1>2, <1>5, <1>7, GotoStep DEF Fits
<1>9. Locked(t)'
  BY <1>5, <1>7, <1>8 DEF Locked
<1>10. ASSUME Agreed, \A u \in Tasks \ {t} : Using(u) => frame[u].fd # fd PROVE UsesWell(t)'
  <2>1. posix.disk[files[fd].n] = store[files[fd].n] /\ posix.pos[fd] = files[fd].pos
    BY <1>1, <1>2, <1>3, <1>10, Alone
  <2> QED
    BY <1>1, <1>5, <1>7, <1>8, <2>1 DEF UsesWell, On
<1> QED
  BY <1>1, <1>5, <1>7, <1>9, <1>10, BeginsOnFd DEF Fits, OnFd, Positional

(* The image of a step on a descriptor. *)
LEMMA ImageIs ==
  ASSUME posix \in Images
  PROVE  /\ posix.disk \in [Places -> Texts] /\ posix.pos \in [Fds -> Nat]
         /\ posix = [disk |-> posix.disk, pos |-> posix.pos]
BY DEF Images

LEMMA ImageMade ==
  ASSUME NEW d, NEW p, NEW i, i = [disk |-> d, pos |-> p]
  PROVE  /\ i.disk = d /\ i.pos = p
         /\ d \in [Places -> Texts] /\ p \in [Fds -> Nat] => i \in Images
BY DEF Images

LEMMA ImageMoves ==
  ASSUME posix \in Images, NEW fd \in Fds, NEW p \in Nat, posix' = [posix EXCEPT !.pos[fd] = p]
  PROVE  posix' \in Images /\ posix'.disk = posix.disk /\ posix'.pos[fd] = p /\ \A e \in Fds \ {fd} : posix'.pos[e] = posix.pos[e]
<1>1. posix' = [disk |-> posix.disk, pos |-> [posix.pos EXCEPT ![fd] = p]]
  BY ImageIs
<1>2. posix'.disk = posix.disk /\ posix'.pos = [posix.pos EXCEPT ![fd] = p]
  BY <1>1
<1>3. posix' \in Images
  BY <1>1, ImageIs, ImageMade
<1> QED
  BY <1>2, <1>3, ImageIs

LEMMA OpenSound ==
  ASSUME Shapes, Agreed, NEW fd \in Fds, files[fd].fs
  PROVE  /\ store[files[fd].n] \in Seq(Nat) /\ Len(store[files[fd].n]) \in Nat /\ files[fd].pos \in Nat
         /\ files[fd].pos <= Len(store[files[fd].n]) /\ ~files[fd].err /\ files[fd].n \in Places /\ posix \in Images
<1>1. <<"fd", fd>> \in Holders /\ Fil(<<"fd", fd>>) = files[fd]
  BY HoldersAre
<1>2. Sound(files[fd])
  BY <1>1 DEF Agreed
<1>3. IsFil(files[fd]) /\ files[fd].n \in Places
  BY <1>1, HolderFil
<1>4. Len(store[files[fd].n]) \in Nat
  BY <1>2, LenProperties DEF Sound
<1> QED
  BY <1>2, <1>3, <1>4 DEF Sound, IsFil, FILs, Agreed

(* What becomes of the FIL a call was made with. *)
LEMMA FilAfter ==
  ASSUME NEW r0, NEW f, NEW r \in Ends(r0, f), IsOutcome(r0), IsFil(f), MovedFil(r0.fil, f), store \in [Places -> Texts]
  PROVE  /\ IsOutcome(r) /\ (r.res # "DISK_ERR" => r = r0) /\ (r.disk = r0.disk \/ r.disk = store)
         /\ r.fil.fs = f.fs /\ r.fil.n = f.n
<1>1. IsOutcome(r) /\ (r # r0 => r.res = "DISK_ERR" /\ r.disk = store)
  BY EndsWell
<1>2. r = r0 \/ r.fil = [f EXCEPT !.err = f.fs]
  BY EndsAre
<1>3. CASE r = r0
  BY <1>1, <1>3 DEF MovedFil
<1>4. CASE r.fil = [f EXCEPT !.err = f.fs]
  <2> DEFINE e == [f EXCEPT !.err = f.fs]
  <2>1. e.fs = f.fs /\ e.n = f.n
    BY ErrorIs
  <2> QED
    BY <1>1, <1>4, <2>1
<1> QED
  BY <1>2, <1>3, <1>4

(* A step on a descriptor that keeps the FIL's file. *)
LEMMA OnFdStep ==
  ASSUME VfsInv, NEW t \in Tasks, CallShapes', Others(t), NEW fd \in Fds, NEW r, IsOutcome(r), PutFil(fd, r),
         Trouble(r.res), r.fil.fs = files[fd].fs, r.fil.n = files[fd].n, frame'[t].at # "f_open",
         (UNCHANGED lock /\ (Locked(t)' <=> Locked(t))) \/ (GiveLock(t) /\ ~Locked(t)'),
         mixed' \in BOOLEAN, mixed => mixed', Holds(t)' = Holds(t),
         UNCHANGED <<o_append, mine, dirs, memory, contexts, mounted>>,
         Clean' => files[fd].fs /\ \A m \in Places \ {files[fd].n} : r.disk[m] = store[m],
         Clean' => Agreed'
  PROVE  VfsInv'
<1>1. Shapes /\ LockKept /\ (Clean => Agreed)
  BY DEF VfsInv
<1>2. /\ files' \in [Fds -> {f \in FILs : IsFil(f)}] /\ store' \in [Places -> Texts] /\ store' = r.disk
      /\ files'[fd] = r.fil /\ \A e \in Fds \ {fd} : files'[e] = files[e]
  BY <1>1, PutIs
<1>3. \A e \in Fds : files'[e].fs => files[e].fs
  BY <1>2
<1>4. LockKept'
  <2>1. CASE UNCHANGED lock /\ (Locked(t)' <=> Locked(t))
    BY <1>1, <1>3, <2>1, LockLeft
  <2>2. CASE GiveLock(t) /\ ~Locked(t)'
    BY <1>1, <2>2, LockGiven
  <2> QED
    BY <2>1, <2>2
<1>5. lock' \in Tasks \union {"free"}
  BY <1>1 DEF Shapes, GiveLock
<1>6. trouble' \subseteq {"disk", "memory", "link"} /\ trouble \subseteq trouble'
  BY <1>1, TroubleStep
<1>7. Clean' => Clean
  BY <1>6, CleanStep
<1>8. ASSUME Clean' PROVE \A n \in Places : (store'[n] = Absent <=> store[n] = Absent)
  <2>1. Agreed /\ Agreed' /\ files[fd].fs /\ files'[fd].fs /\ files'[fd].n = files[fd].n
    BY <1>1, <1>2, <1>7, <1>8
  <2>2. store[files[fd].n] \in Seq(Nat)
    BY <1>1, <2>1, OpenSound
  <2>3. store'[files[fd].n] \in Seq(Nat)
    <3>1. <<"fd", fd>> \in Holders /\ Fil(<<"fd", fd>>)' = files'[fd]
      BY HoldersAre DEF Fil
    <3>2. Sound(Fil(<<"fd", fd>>))'
      BY <2>1, <3>1 DEF Agreed
    <3> QED
      BY <2>1, <3>1, <3>2 DEF Sound
  <2>4. \A m \in Places \ {files[fd].n} : store'[m] = store[m]
    BY <1>2, <1>8
  <2> QED
    BY <2>2, <2>3, <2>4, AbsentIs
<1> QED
  BY <1>1, <1>2, <1>4, <1>5, <1>6, <1>8, FaceStep DEF Shapes

LEMMA ReadRight == ASSUME VfsInv, NEW t \in Tasks, Read(t) PROVE VfsInv'
<1> DEFINE fd == FdOf(t)
           n == files[fd].n
           k == Call(t).k
           r0 == ReadFrom_(files[fd], k)
<1>1. /\ frame[t].at = "idle" /\ left[t] # <<>> /\ Call(t).op = "read" /\ Valid(t)
      /\ UNCHANGED <<lock, o_append, mine, dirs, memory, contexts, mounted>>
  BY DEF Read, CallBegins, Streams_, Contexts
<1>2. PICK r \in Ends(r0, files[fd]) :
        /\ PutFil(fd, r) /\ Trouble(r.res) /\ Fails(t, r.res) /\ Mixes(Overlaps(t, fd))
        /\ Means(IF r.res = "OK" /\ ~mixed
                   THEN [posix EXCEPT !.pos[fd] = LesserOf(@ + k, Len(posix.disk[n]))] ELSE posix)
  BY DEF Read
<1>3. Shapes /\ (Clean => Agreed)
  BY DEF VfsInv
<1>4. fd \in Fds /\ files[fd].fs /\ IsFil(files[fd]) /\ n \in Places /\ k \in Nat /\ store \in [Places -> Texts]
  BY <1>1, <1>3, FdIs, CallIs, CallsHave DEF Shapes
<1>5. /\ IsOutcome(r0) /\ r0.disk = store /\ MovedFil(r0.fil, files[fd])
      /\ r0.res # "OK" => r0.fil = files[fd]
      /\ r0.res = "OK" => r0.fil.pos = LesserOf(files[fd].pos + k, Len(store[n]))
  BY <1>4, ReadIs
<1>6. IsOutcome(r) /\ (r.res # "DISK_ERR" => r = r0) /\ r.fil.fs = files[fd].fs /\ r.fil.n = n /\ r.disk = store
  <2>1. r \in Ends(r0, files[fd])
    BY <1>2
  <2>2. IsOutcome(r0) /\ MovedFil(r0.fil, files[fd]) /\ IsFil(files[fd]) /\ store \in [Places -> Texts] /\ r0.disk = store
    BY <1>4, <1>5
  <2> HIDE DEF r0, fd
  <2> QED
    BY <2>1, <2>2, FilAfter
<1> HIDE DEF r0, fd, k
<1>7. CallShapes' /\ Others(t) /\ frame'[t] = Idle_
  BY <1>1, <1>2, <1>3, ReturnStep DEF Fails
<1>8. /\ mixed' \in BOOLEAN /\ (mixed => mixed') /\ (Clean' => r.res # "DISK_ERR") /\ (Clean' => Clean)
      /\ (Clean' => \A u \in Tasks \ {t} : Using(u) => frame[u].fd # fd)
  BY <1>2, <1>3, OverlapsNot, TroubleStep, CleanStep
<1>9. /\ files'[fd] = r.fil /\ store' = r.disk /\ \A e \in Fds \ {fd} : files'[e] = files[e]
  BY <1>2, <1>3, <1>4, <1>6, PutIs
<1>10. ASSUME Clean' PROVE Agreed'
  <2>1. Agreed /\ r = r0 /\ ~mixed
    BY <1>3, <1>6, <1>8, <1>10 DEF Clean
  <2>2. posix.disk[n] = store[n] /\ posix.pos[fd] = files[fd].pos
    BY <1>1, <1>3, <1>4, <1>8, <1>10, <2>1, Alone
  <2>3. /\ store[n] \in Seq(Nat) /\ Len(store[n]) \in Nat /\ files[fd].pos <= Len(store[n]) /\ ~files[fd].err
        /\ posix \in Images /\ files[fd].pos \in Nat
    BY <1>3, <1>4, <2>1, OpenSound
  <2>4. r.fil.pos \in Nat /\ r.fil.pos <= Len(store[n]) /\ ~r.fil.err /\ r.fil.fs
    <3>1. LesserOf(files[fd].pos + k, Len(store[n])) \in Nat /\ LesserOf(files[fd].pos + k, Len(store[n])) <= Len(store[n])
      BY <1>4, <2>3 DEF LesserOf
    <3> QED
      BY <1>4, <1>5, <2>1, <2>3, <3>1 DEF MovedFil
  <2>5. /\ posix' \in Images /\ posix'.disk = posix.disk /\ posix'.pos[fd] = r.fil.pos
        /\ \A e \in Fds \ {fd} : posix'.pos[e] = posix.pos[e]
    <3>1. CASE r.res = "OK"
      <4>1. posix' = [posix EXCEPT !.pos[fd] = r.fil.pos]
        BY <1>2, <1>5, <2>1, <2>2, <3>1 DEF Means
      <4> QED
        BY <1>4, <2>3, <2>4, <4>1, ImageMoves
    <3>2. CASE r.res # "OK"
      BY <1>2, <1>5, <2>1, <2>2, <2>3, <3>2 DEF Means
    <3> QED
      BY <3>1, <3>2
  <2> QED
    BY <1>1, <1>3, <1>4, <1>6, <1>7, <1>8, <1>9, <1>10, <2>1, <2>2, <2>3, <2>4, <2>5, Returned, Idles, AgreedOnFd
<1> QED
  BY <1>1, <1>2, <1>3, <1>4, <1>6, <1>7, <1>8, <1>10, Returned, Idles, OnFdStep

-----------------------------------------------------------------------------
(* The steps in the middle of a call on a descriptor. *)

FrameAt(g, f, at) == g = [f EXCEPT !.at = at]

LEMMA FrameAtIs ==
  ASSUME NEW f \in Frames, NEW at \in Ats, WritingAt(at) => WritingAt(f.at), NEW g, FrameAt(g, f, at)
  PROVE  /\ g \in Frames /\ g.at = at /\ g.fd = f.fd /\ g.keep = f.keep /\ g.res = f.res /\ g.got = f.got
         /\ g.size = f.size /\ g.in = f.in /\ g.out = f.out
<1>1. f \in FrameRecords /\ IsFil(f.in) /\ IsFil(f.out) /\ Copied(f)
  BY FramesAre
<1>2. g \in FrameRecords
  BY <1>1 DEF FrameRecords, FrameAt
<1>3. /\ g.at = at /\ g.fd = f.fd /\ g.keep = f.keep /\ g.res = f.res /\ g.got = f.got
      /\ g.size = f.size /\ g.in = f.in /\ g.out = f.out
  BY <1>1 DEF FrameRecords, FrameAt
<1> QED
  BY <1>1, <1>2, <1>3, FramesAre DEF Copied

FrameEnds(g, f, at, res) == g = [f EXCEPT !.at = at, !.res = res]

LEMMA FrameEndsIs ==
  ASSUME NEW f \in Frames, NEW at \in Ats, ~WritingAt(at), NEW res \in Results, NEW g, FrameEnds(g, f, at, res)
  PROVE  /\ g \in Frames /\ g.at = at /\ g.fd = f.fd /\ g.keep = f.keep /\ g.res = res /\ g.got = f.got
         /\ g.size = f.size /\ g.in = f.in /\ g.out = f.out
<1>1. f \in FrameRecords /\ IsFil(f.in) /\ IsFil(f.out) /\ Copied(f)
  BY FramesAre
<1>2. g \in FrameRecords
  BY <1>1 DEF FrameRecords, FrameEnds
<1>3. /\ g.at = at /\ g.fd = f.fd /\ g.keep = f.keep /\ g.res = res /\ g.got = f.got
      /\ g.size = f.size /\ g.in = f.in /\ g.out = f.out
  BY <1>1 DEF FrameRecords, FrameEnds
<1> QED
  BY <1>1, <1>2, <1>3, FramesAre DEF Copied

LEMMA UsingIs ==
  ASSUME VfsInv, NEW t \in Tasks, frame[t].at # "idle", Call(t).op \in OnFd, NEW fd, fd = frame[t].fd
  PROVE  /\ Shapes /\ LockKept /\ (Clean => Agreed) /\ left[t] # <<>> /\ Call(t) \in PosixCalls /\ frame[t] \in Frames
         /\ fd \in Fds /\ IsFil(files[fd]) /\ store \in [Places -> Texts] /\ Fits(frame[t].at, Call(t).op)
         /\ Using(t) /\ Holds(t) = {}
         /\ Clean => /\ files[fd].fs /\ ~files[fd].err /\ UsesWell(t)
                     /\ \A u \in Tasks \ {t} : Using(u) => frame[u].fd # fd
<1>1. Shapes /\ LockKept /\ (Clean => Agreed) /\ Using(t)
  BY DEF VfsInv, Using
<1>2. left[t] # <<>> /\ Call(t) \in PosixCalls /\ frame[t] \in Frames /\ fd \in Fds /\ Fits(frame[t].at, Call(t).op)
  BY <1>1, InACall, CallIs, FrameHas DEF Shapes
<1>3. IsFil(files[fd]) /\ store \in [Places -> Texts]
  BY <1>1, <1>2 DEF Shapes
<1>4. ASSUME Clean PROVE /\ files[fd].fs /\ ~files[fd].err /\ UsesWell(t)
                         /\ \A u \in Tasks \ {t} : Using(u) => frame[u].fd # fd
  <2>1. /\ Agreed /\ files[fd].fs /\ UsesWell(t) /\ \A u \in Tasks \ {t} : Using(u) => frame[u].fd # fd
    BY <1>1, <1>4 DEF Agreed, TaskWell, On
  <2> QED
    BY <1>1, <1>2, <2>1, OpenSound
<1>5. Holds(t) = {}
  BY DEF Holds, OnFd
<1> QED
  BY <1>1, <1>2, <1>3, <1>4, <1>5

(* What a file and its image are while a task is alone with it. *)
LEMMA AloneUsing ==
  ASSUME Shapes, Agreed, NEW t \in Tasks, Using(t), NEW fd \in Fds, fd = frame[t].fd, files[fd].fs,
         \A u \in Tasks \ {t} : Using(u) => frame[u].fd # fd
  PROVE  /\ \A m : Changing(t, m) => m = files[fd].n
         /\ \A e : Moving(t, e) => e = fd
         /\ frame[t].at \notin {"move", "back"} => posix.disk[files[fd].n] = store[files[fd].n]
         /\ ~Moving(t, fd) => posix.pos[fd] = files[fd].pos
<1>1. \A m : Changing(t, m) => m = files[fd].n /\ frame[t].at \in {"move", "back"}
  BY DEF Changing, Using, OnFd, On
<1>2. \A e : Moving(t, e) => e = fd
  BY DEF Moving
<1>3. /\ \A u \in Tasks \ {t} : ~Changing(u, files[fd].n) /\ ~Moving(u, fd)
  BY Alone
<1>4. files[fd].n \in Places
  BY OpenSound
<1> QED
  BY <1>1, <1>2, <1>3, <1>4 DEF Agreed

LEMMA LongerSame == ASSUME NEW s, NEW f, NEW to \in Nat, Len(s) \in Nat, to <= Len(s) PROVE Longer(s, f, to) = s
BY DEF Longer

(* What is left of a FIL, whether the call failed or not. *)
Stays(r, f) == IsOutcome(r) /\ r.fil.fs = f.fs /\ r.fil.n = f.n

SeekGives(r, f, ofs) ==
  /\ r.res = "OK" /\ ~r.fil.err /\ r.fil.mode = f.mode
  /\ r.fil.pos = IF "WRITE" \in f.mode THEN ofs ELSE LesserOf(ofs, Len(store[f.n]))
  /\ r.disk = [store EXCEPT ![f.n] = Longer(store[f.n], f, ofs)]

LEMMA SeekEnds ==
  ASSUME store \in [Places -> Texts], NEW f, IsFil(f), NEW ofs \in Nat, NEW r \in Ends(SeekTo(f, ofs), f)
  PROVE  Stays(r, f) /\ (f.fs /\ ~f.err /\ r.res # "DISK_ERR" => SeekGives(r, f, ofs))
<1> DEFINE r0 == SeekTo(f, ofs)
<1>1. SeekIsRight(r0, f, ofs)
  BY SeekIs
<1>2. r \in Ends(r0, f)
  OBVIOUS
<1> HIDE DEF r0
<1>3. Stays(r, f) /\ (r.res # "DISK_ERR" => r = r0)
  BY <1>1, <1>2, FilAfter DEF Stays, SeekIsRight
<1> QED
  BY <1>1, <1>3 DEF SeekGives, SeekIsRight, MovedFil

WriteGives(r, f, x) ==
  /\ ~r.fil.err /\ r.fil.mode = f.mode
  /\ "WRITE" \in f.mode => r.res = "OK"
  /\ r.res # "OK" => r.fil = f /\ r.disk = store
  /\ r.res = "OK" => r.fil.pos = f.pos + Len(x) /\ r.disk = [store EXCEPT ![f.n] = Overwrite(store[f.n], f.pos, x)]
                      /\ "WRITE" \in f.mode

LEMMA WriteEnds ==
  ASSUME store \in [Places -> Texts], NEW f, IsFil(f), NEW x \in Texts, NEW r \in Ends(WriteTo(f, x), f)
  PROVE  Stays(r, f) /\ (f.fs /\ ~f.err /\ r.res # "DISK_ERR" => WriteGives(r, f, x))
<1> DEFINE r0 == WriteTo(f, x)
<1>1. WriteIsRight(r0, f, x)
  BY WriteIs
<1>2. r \in Ends(r0, f)
  OBVIOUS
<1> HIDE DEF r0
<1>3. Stays(r, f) /\ (r.res # "DISK_ERR" => r = r0)
  BY <1>1, <1>2, FilAfter DEF Stays, WriteIsRight
<1> QED
  BY <1>1, <1>3 DEF WriteGives, WriteIsRight, MovedFil

ReadGives(r, f, k) ==
  /\ ~r.fil.err /\ r.fil.mode = f.mode /\ r.disk = store
  /\ r.res # "OK" => r.fil = f /\ "READ" \notin f.mode
  /\ r.res = "OK" => /\ r.fil.pos = LesserOf(f.pos + k, Len(store[f.n]))
                      /\ r.got = SubSeq(store[f.n], f.pos + 1, LesserOf(f.pos + k, Len(store[f.n])))

LEMMA ReadEnds ==
  ASSUME store \in [Places -> Texts], NEW f, IsFil(f), NEW k \in Nat, NEW r \in Ends(ReadFrom_(f, k), f)
  PROVE  Stays(r, f) /\ r.disk = store /\ (f.fs /\ ~f.err /\ r.res # "DISK_ERR" => ReadGives(r, f, k))
<1> DEFINE r0 == ReadFrom_(f, k)
<1>1. /\ IsOutcome(r0) /\ MovedFil(r0.fil, f) /\ r0.disk = store
      /\ r0.res # "OK" => r0.fil = f
      /\ r0.res = "OK" => /\ r0.fil.pos = LesserOf(f.pos + k, Len(store[f.n]))
                          /\ r0.got = SubSeq(store[f.n], f.pos + 1, LesserOf(f.pos + k, Len(store[f.n])))
  BY ReadIs
<1>2. r0.res # "OK" /\ f.fs /\ ~f.err => "READ" \notin f.mode
  <2>1. Denied(f, "READ") = "OK" => r0.res = "OK"
    BY DEF ReadFrom_, Done
  <2> QED
    BY <2>1 DEF Denied
<1>3. r \in Ends(r0, f)
  OBVIOUS
<1> HIDE DEF r0
<1>4. Stays(r, f) /\ (r.res # "DISK_ERR" => r = r0) /\ r.disk = store
  BY <1>1, <1>3, FilAfter, SMTT(30) DEF Stays
<1> QED
  BY <1>1, <1>2, <1>4 DEF ReadGives, MovedFil

(* A step that keeps the call going, and one with which it is over. *)
LEMMA FdGoesOn ==
  ASSUME VfsInv, NEW t \in Tasks, frame[t].at # "idle", Call(t).op \in OnFd, NEW fd \in Fds, fd = frame[t].fd,
         NEW r, Stays(r, files[fd]), PutFil(fd, r), Trouble(r.res),
         UNCHANGED <<left, lock, o_append, mine, dirs, memory, contexts, mounted, mixed, posix>>,
         NEW g \in Frames, Goto_(t, g), g.at \notin {"idle", "f_open"}, Fits(g.at, Call(t).op),
         g.fd = fd, g.in = frame[t].in, g.out = frame[t].out, Locked(t)' <=> Locked(t),
         NEW n, n = files[fd].n,
         Clean /\ Agreed /\ r.res # "DISK_ERR" =>
           /\ ~r.fil.err /\ \A m \in Places \ {n} : r.disk[m] = store[m]
           /\ r.disk[n] \in Seq(Nat) /\ r.fil.pos <= Len(r.disk[n]) /\ UsesWell(t)'
           /\ g.at \in {"move", "back"} \/ posix.disk[n] = r.disk[n]
           /\ Moving(t, fd)' \/ posix.pos[fd] = r.fil.pos
  PROVE  VfsInv'
<1>1. /\ Shapes /\ LockKept /\ (Clean => Agreed) /\ left[t] # <<>> /\ frame[t] \in Frames
      /\ IsFil(files[fd]) /\ store \in [Places -> Texts] /\ Using(t) /\ Holds(t) = {}
      /\ Clean => files[fd].fs /\ ~files[fd].err /\ UsesWell(t) /\ \A u \in Tasks \ {t} : Using(u) => frame[u].fd # fd
  BY UsingIs, SMTT(30)
<1>2. CallShapes' /\ Others(t) /\ frame'[t] = g /\ Call(t)' = Call(t)
  BY <1>1, GotoStep, SMTT(30)
<1>3. IsOutcome(r) /\ r.fil.fs = files[fd].fs /\ r.fil.n = n
  BY SMTT(30) DEF Stays
<1>4. files'[fd] = r.fil /\ store' = r.disk /\ \A e \in Fds \ {fd} : files'[e] = files[e]
  BY <1>1, <1>3, PutIs, SMTT(30)
<1>5. (Clean' => r.res # "DISK_ERR") /\ (Clean' => Clean)
  BY <1>1, TroubleStep, CleanStep, SMTT(30)
<1>6. Holds(t)' = {}
  BY <1>2, SMTT(30) DEF Holds, OnFd
<1>7. ASSUME Clean' PROVE Agreed' /\ files[fd].fs /\ \A m \in Places \ {n} : r.disk[m] = store[m]
  <2>1. /\ Agreed /\ r.res # "DISK_ERR" /\ files[fd].fs /\ \A u \in Tasks \ {t} : Using(u) => frame[u].fd # fd
    BY <1>1, <1>5, <1>7, SMTT(30)
  <2>2. /\ ~r.fil.err /\ (\A m \in Places \ {n} : r.disk[m] = store[m])
        /\ r.disk[n] \in Seq(Nat) /\ r.fil.pos <= Len(r.disk[n]) /\ UsesWell(t)'
        /\ g.at \in {"move", "back"} \/ posix.disk[n] = r.disk[n]
        /\ Moving(t, fd)' \/ posix.pos[fd] = r.fil.pos
    BY <1>5, <1>7, <2>1, SMTT(30)
  <2>3. (\A m : Changing(t, m) => m = n) /\ (\A e : Moving(t, e) => e = fd) /\ posix \in Images
    BY <1>1, <2>1, AloneUsing, SMTT(30) DEF Agreed
  <2>4. Using(t)' /\ On(t)' = r.fil
    BY <1>2, <1>4, SMTT(30) DEF Using, On
  <2>5. TaskWell(t)'
    BY <1>2, <1>3, <2>1, <2>2, <2>4 DEF TaskWell, OnFd
  <2>6. Changing(t, n)' \/ posix'.disk[n] = store'[n]
    BY <1>2, <1>3, <1>4, <2>2, <2>4, SMTT(30) DEF Changing
  <2>7. Agreed'
    <3>1. \A e \in Fds \ {fd} : posix'.pos[e] = posix.pos[e]
      BY SMTT(30)
    <3>2. \A m \in Places \ {n} : store'[m] = store[m] /\ posix'.disk[m] = posix.disk[m]
      BY <1>4, <2>2, SMTT(30)
    <3>3. files'[fd].fs /\ files'[fd].n = n /\ ~files'[fd].err /\ store'[n] \in Seq(Nat) /\ files'[fd].pos <= Len(store'[n])
      BY <1>3, <1>4, <2>1, <2>2
    <3>4. frame'[t].in = frame[t].in /\ frame'[t].out = frame[t].out /\ frame'[t].fd = fd
      BY <1>2, SMTT(30)
    <3>5. posix' \in Images
      BY <2>3, SMTT(30)
    <3>6. Moving(t, fd)' \/ posix'.pos[fd] = files'[fd].pos
      BY <1>4, <2>2, SMTT(30)
    <3> QED
      BY <1>1, <1>2, <1>4, <2>1, <2>3, <2>5, <2>6, <3>1, <3>2, <3>3, <3>4, <3>5, <3>6, AgreedOnFd, SMTT(30)
  <2> QED
    BY <2>1, <2>2, <2>7, SMTT(30)
<1>8. mixed' \in BOOLEAN
  BY <1>1, SMTT(30) DEF Shapes
<1> QED
  BY <1>1, <1>2, <1>3, <1>6, <1>7, <1>8, OnFdStep

LEMMA FdReturns ==
  ASSUME VfsInv, NEW t \in Tasks, frame[t].at # "idle", Call(t).op \in OnFd, NEW fd \in Fds, fd = frame[t].fd,
         NEW r, Stays(r, files[fd]), PutFil(fd, r), Trouble(r.res), NEW x, Return(t, x),
         UNCHANGED <<o_append, mine, dirs, memory, contexts, mounted, mixed>>,
         (UNCHANGED lock /\ ~Locked(t)) \/ GiveLock(t),
         NEW n, n = files[fd].n,
         Clean /\ Agreed /\ r.res # "DISK_ERR" =>
           /\ ~r.fil.err /\ \A m \in Places \ {n} : r.disk[m] = store[m] /\ posix'.disk[m] = posix.disk[m]
           /\ r.disk[n] \in Seq(Nat) /\ r.fil.pos <= Len(r.disk[n]) /\ posix' \in Images
           /\ \A e \in Fds \ {fd} : posix'.pos[e] = posix.pos[e]
           /\ posix'.disk[n] = r.disk[n] /\ posix'.pos[fd] = r.fil.pos
  PROVE  VfsInv'
<1>1. /\ Shapes /\ LockKept /\ (Clean => Agreed) /\ left[t] # <<>> /\ frame[t] \in Frames
      /\ IsFil(files[fd]) /\ store \in [Places -> Texts] /\ Using(t) /\ Holds(t) = {}
      /\ Clean => files[fd].fs /\ ~files[fd].err /\ UsesWell(t) /\ \A u \in Tasks \ {t} : Using(u) => frame[u].fd # fd
  BY UsingIs, SMTT(30)
<1>2. CallShapes' /\ Others(t) /\ frame'[t] = Idle_
  BY <1>1, ReturnStep, SMTT(30)
<1>3. IsOutcome(r) /\ r.fil.fs = files[fd].fs /\ r.fil.n = n
  BY SMTT(30) DEF Stays
<1>4. files'[fd] = r.fil /\ store' = r.disk /\ \A e \in Fds \ {fd} : files'[e] = files[e]
  BY <1>1, <1>3, PutIs, SMTT(30)
<1>5. (Clean' => r.res # "DISK_ERR") /\ (Clean' => Clean)
  BY <1>1, TroubleStep, CleanStep, SMTT(30)
<1>6. Holds(t)' = {} /\ ~Locked(t)' /\ frame'[t].at # "f_open"
  BY <1>2, Returned, SMTT(30)
<1>7. ASSUME Clean' PROVE Agreed' /\ files[fd].fs /\ \A m \in Places \ {n} : r.disk[m] = store[m]
  <2>1. /\ Agreed /\ r.res # "DISK_ERR" /\ files[fd].fs /\ \A u \in Tasks \ {t} : Using(u) => frame[u].fd # fd
    BY <1>1, <1>5, <1>7, SMTT(30)
  <2>2. /\ ~r.fil.err /\ (\A m \in Places \ {n} : r.disk[m] = store[m] /\ posix'.disk[m] = posix.disk[m])
        /\ r.disk[n] \in Seq(Nat) /\ r.fil.pos <= Len(r.disk[n]) /\ posix' \in Images
        /\ (\A e \in Fds \ {fd} : posix'.pos[e] = posix.pos[e])
        /\ posix'.disk[n] = r.disk[n] /\ posix'.pos[fd] = r.fil.pos
    BY <1>5, <1>7, <2>1, SMTT(30)
  <2>3. (\A m : Changing(t, m) => m = n) /\ (\A e : Moving(t, e) => e = fd)
    BY <1>1, <2>1, AloneUsing
  <2>4. ~Using(t)' /\ TaskWell(t)' /\ ~frame'[t].in.fs /\ ~frame'[t].out.fs
    BY <1>2, Returned, SMTT(30)
  <2>5. Agreed'
    <3>1. \A m \in Places \ {n} : store'[m] = store[m] /\ posix'.disk[m] = posix.disk[m]
      BY <1>4, <2>2, SMTT(30)
    <3>2. files'[fd].fs /\ files'[fd].n = n /\ ~files'[fd].err /\ store'[n] \in Seq(Nat) /\ files'[fd].pos <= Len(store'[n])
      BY <1>3, <1>4, <2>1, <2>2
    <3>3. posix'.pos[fd] = files'[fd].pos /\ posix'.disk[n] = store'[n]
      BY <1>4, <2>2, SMTT(30)
    <3>4. \A e \in Fds \ {fd} : files'[e] = files[e] /\ posix'.pos[e] = posix.pos[e]
      BY <1>4, <2>2, SMTT(30)
    <3>5. posix' \in Images /\ Shapes /\ Others(t)
      BY <1>1, <1>2, <2>2, SMTT(30)
    <3> QED
      BY <2>1, <2>3, <2>4, <3>1, <3>2, <3>3, <3>4, <3>5, AgreedOnFd, SMTT(30)
  <2> QED
    BY <2>1, <2>2, <2>5, SMTT(30)
<1>8. mixed' \in BOOLEAN
  BY <1>1 DEF Shapes
<1> QED
  BY <1>1, <1>2, <1>3, <1>6, <1>7, <1>8, OnFdStep, ZenonT(30)

LEMMA WriteSeeksRight == ASSUME VfsInv, NEW t \in Tasks, WriteSeeks(t) PROVE VfsInv'
<1>1. /\ frame[t].at = "end" /\ Call(t).op = "write" /\ Call(t).op \in OnFd /\ frame[t].at # "idle"
      /\ UNCHANGED <<lock, o_append, mine, dirs, memory, contexts, mounted, posix, mixed>>
  BY DEF WriteSeeks, At, Streams_, Contexts, OnFd
<1>2. PICK fd \in Fds : fd = frame[t].fd
  BY <1>1, UsingIs
<1>3. PICK n : n = files[fd].n
  OBVIOUS
<1>4. PICK k : k = frame[t].keep
  OBVIOUS
<1>5. PICK r \in Ends(SeekTo(files[fd], k), files[fd]) :
        /\ PutFil(fd, r) /\ Trouble(r.res)
        /\ IF r.res = "OK" THEN Goto_(t, [frame[t] EXCEPT !.at = "write"]) /\ UNCHANGED <<left, vret>> ELSE Fails(t, r.res)
  BY <1>2, <1>4 DEF WriteSeeks
<1>6. /\ Shapes /\ (Clean => Agreed) /\ left[t] # <<>> /\ frame[t] \in Frames /\ k \in Nat
      /\ IsFil(files[fd]) /\ store \in [Places -> Texts] /\ Using(t)
      /\ Clean => files[fd].fs /\ ~files[fd].err /\ UsesWell(t) /\ \A u \in Tasks \ {t} : Using(u) => frame[u].fd # fd
  BY <1>1, <1>2, <1>4, UsingIs, FrameHas
<1>7. Stays(r, files[fd]) /\ (files[fd].fs /\ ~files[fd].err /\ r.res # "DISK_ERR" => SeekGives(r, files[fd], k))
  BY <1>6, SeekEnds
<1>8. ASSUME Clean, Agreed, r.res # "DISK_ERR"
      PROVE  /\ r.res = "OK" /\ ~r.fil.err /\ (\A m \in Places \ {n} : r.disk[m] = store[m])
             /\ r.disk[n] \in Seq(Nat) /\ r.fil.pos = Len(r.disk[n]) /\ posix.disk[n] = r.disk[n] /\ o_append[fd]
  <2>1. /\ store[n] \in Seq(Nat) /\ Len(store[n]) \in Nat /\ posix.disk[n] = store[n]
    BY <1>1, <1>2, <1>3, <1>6, <1>8, OpenSound, AloneUsing
  <2>2. o_append[fd] /\ k = Len(store[n])
    BY <1>1, <1>2, <1>3, <1>4, <1>6, <1>8 DEF UsesWell, On
  <2>3. SeekGives(r, files[fd], k)
    BY <1>6, <1>7, <1>8
  <2>4. Longer(store[n], files[fd], k) = store[n]
    BY <1>6, <2>1, <2>2, LongerSame
  <2>5. r.disk = store /\ r.fil.pos = k /\ r.res = "OK" /\ ~r.fil.err
    BY <1>3, <1>6, <2>1, <2>2, <2>3, <2>4, SMTT(30) DEF SeekGives, LesserOf
  <2> QED
    BY <2>1, <2>2, <2>5, SMTT(30)
<1>9. CASE r.res = "OK"
  <2> DEFINE a == "write"
  <2>1. PICK g : FrameAt(g, frame[t], a)
    BY DEF FrameAt
  <2>2. Goto_(t, g) /\ UNCHANGED left
    BY <1>5, <1>9, <2>1 DEF FrameAt
  <2>3. a \in Ats /\ a = "write" /\ WritingAt(frame[t].at)
    BY <1>1 DEF Ats, WritingAt
  <2> HIDE DEF a
  <2>4. /\ g \in Frames /\ g.at = a /\ g.fd = fd /\ g.in = frame[t].in /\ g.out = frame[t].out
    BY <1>2, <1>6, <2>1, <2>3, FrameAtIs
  <2>5. frame'[t] = g /\ Call(t)' = Call(t)
    BY <1>1, <1>6, <2>2, <2>3, <2>4, GotoStep DEF Fits
  <2>6. ~Locked(t) /\ ~Locked(t)'
    BY <1>1, <2>3, <2>4, <2>5 DEF Locked
  <2>7. files'[fd] = r.fil /\ store' = r.disk /\ r.fil.n = n
    BY <1>3, <1>5, <1>6, <1>7, PutIs DEF Stays
  <2>8. ASSUME Clean, Agreed, r.res # "DISK_ERR" PROVE UsesWell(t)' /\ Moving(t, fd)'
    <3>1. r.fil.pos = Len(r.disk[n]) /\ o_append'[fd]
      BY <1>1, <1>8, <2>8
    <3>2. Using(t)' /\ On(t)' = r.fil /\ frame'[t].at = "write" /\ frame'[t].fd = fd
      BY <1>1, <2>3, <2>4, <2>5, <2>7 DEF Using, On
    <3> QED
      BY <2>7, <3>1, <3>2 DEF UsesWell, Moving
  <2>9. Clean /\ Agreed /\ r.res # "DISK_ERR" => r.fil.pos <= Len(r.disk[n])
    BY <1>8, LenProperties, SMTT(30)
  <2> QED
    BY <1>1, <1>2, <1>3, <1>5, <1>7, <1>8, <2>2, <2>3, <2>4, <2>6, <2>8, <2>9, FdGoesOn, SMTT(30) DEF Fits
<1>10. CASE r.res # "OK"
  <2>1. Return(t, fresult_to_errno[r.res])
    BY <1>5, <1>10 DEF Fails
  <2>2. ~Locked(t)
    BY <1>1, SMTT(30) DEF Locked
  <2> QED
    BY <1>1, <1>2, <1>3, <1>5, <1>7, <1>8, <1>10, <2>1, <2>2, FdReturns
<1> QED
  BY <1>9, <1>10

LEMMA WriteRight == ASSUME VfsInv, NEW t \in Tasks, Write(t) PROVE VfsInv'
<1>1. /\ frame[t].at = "write" /\ Call(t).op = "write" /\ Call(t).op \in OnFd /\ frame[t].at # "idle"
      /\ UNCHANGED <<lock, o_append, mine, dirs, memory, contexts, mounted, mixed>>
  BY DEF Write, At, Streams_, Contexts, OnFd
<1>2. PICK fd \in Fds : fd = frame[t].fd
  BY <1>1, UsingIs
<1>3. PICK n : n = files[fd].n
  OBVIOUS
<1>4. PICK x : x = Call(t).x
  OBVIOUS
<1>5. PICK r \in Ends(WriteTo(files[fd], x), files[fd]) :
        /\ PutFil(fd, r) /\ Trouble(r.res) /\ Fails(t, r.res)
        /\ Means(IF mixed THEN posix ELSE IF r.res = "OK" THEN Written(fd, x) ELSE Unwritten(fd))
  BY <1>2, <1>4 DEF Write
<1>6. /\ Shapes /\ (Clean => Agreed) /\ left[t] # <<>> /\ frame[t] \in Frames /\ x \in Seq(Nat) /\ x \in Texts
      /\ IsFil(files[fd]) /\ store \in [Places -> Texts] /\ Using(t)
      /\ Clean => files[fd].fs /\ ~files[fd].err /\ UsesWell(t) /\ \A u \in Tasks \ {t} : Using(u) => frame[u].fd # fd
  BY <1>1, <1>2, <1>4, UsingIs, CallsHave, TextsHold
<1>7. Stays(r, files[fd]) /\ (files[fd].fs /\ ~files[fd].err /\ r.res # "DISK_ERR" => WriteGives(r, files[fd], x))
  BY <1>6, WriteEnds
<1>8. ASSUME Clean, Agreed, r.res # "DISK_ERR"
      PROVE  /\ ~r.fil.err /\ (\A m \in Places \ {n} : r.disk[m] = store[m] /\ posix'.disk[m] = posix.disk[m])
             /\ r.disk[n] \in Seq(Nat) /\ r.fil.pos <= Len(r.disk[n]) /\ posix' \in Images
             /\ (\A e \in Fds \ {fd} : posix'.pos[e] = posix.pos[e])
             /\ posix'.disk[n] = r.disk[n] /\ posix'.pos[fd] = r.fil.pos
  <2>1. /\ store[n] \in Seq(Nat) /\ Len(store[n]) \in Nat /\ posix.disk[n] = store[n] /\ n \in Places
        /\ files[fd].pos \in Nat /\ files[fd].pos <= Len(store[n]) /\ posix \in Images
    BY <1>1, <1>2, <1>3, <1>6, <1>8, OpenSound, AloneUsing, ZenonT(30)
  <2>2. IF o_append[fd] THEN files[fd].pos = Len(posix.disk[n]) ELSE posix.pos[fd] = files[fd].pos
    <3>1. CASE o_append[fd]
      BY <1>1, <1>2, <1>3, <1>6, <1>8, <2>1, <3>1, SMTT(30) DEF UsesWell, On
    <3>2. CASE ~o_append[fd]
      <4>1. ~Moving(t, fd)
        BY <1>1, <3>2 DEF Moving
      <4> QED
        BY <1>2, <1>3, <1>6, <1>8, <3>2, <4>1, AloneUsing, ZenonT(30)
    <3> QED
      BY <3>1, <3>2
  <2>3. WriteGives(r, files[fd], x) /\ ~mixed
    BY <1>6, <1>7, <1>8 DEF Clean
  <2>4. CASE r.res = "OK"
    <3> DEFINE o == Overwrite(store[n], files[fd].pos, x)
    <3>1. Overlaid(o, store[n], files[fd].pos, x, Nat) /\ Len(x) \in Nat
      BY <1>6, <2>1, OverwriteIs, LenProperties
    <3>2. o \in Seq(Nat) /\ files[fd].pos + Len(x) <= Len(o) /\ o \in Texts
      BY <3>1, TextsHold DEF Overlaid
    <3>3. r.disk = [store EXCEPT ![n] = o] /\ r.fil.pos = files[fd].pos + Len(x) /\ ~r.fil.err
      BY <1>3, <2>3, <2>4 DEF WriteGives
    <3>4. posix' = [disk |-> [posix.disk EXCEPT ![n] = o], pos |-> [posix.pos EXCEPT ![fd] = files[fd].pos + Len(x)]]
      <4>1. posix' = Written(fd, x)
        BY <1>5, <2>3, <2>4 DEF Means
      <4>2. (IF o_append[fd] THEN Len(posix.disk[n]) ELSE posix.pos[fd]) = files[fd].pos
        BY <2>2
      <4>3. [posix.disk EXCEPT ![n] = Overwrite(@, files[fd].pos, x)] = [posix.disk EXCEPT ![n] = o]
        BY <2>1
      <4> HIDE DEF o
      <4> QED
        BY <1>3, <4>1, <4>2, <4>3 DEF Written
    <3> HIDE DEF o
    <3>5. /\ posix' \in Images /\ posix'.disk = [posix.disk EXCEPT ![n] = o]
          /\ posix'.pos = [posix.pos EXCEPT ![fd] = files[fd].pos + Len(x)]
      <4>1. /\ [posix.disk EXCEPT ![n] = o] \in [Places -> Texts]
            /\ [posix.pos EXCEPT ![fd] = files[fd].pos + Len(x)] \in [Fds -> Nat]
        BY <2>1, <3>1, <3>2, ImageIs
      <4> QED
        BY <3>4, <4>1, ImageMade
    <3>6. posix.disk \in [Places -> Texts] /\ posix.pos \in [Fds -> Nat]
      BY <2>1, ImageIs
    <3> QED
      BY <1>6, <2>1, <3>2, <3>3, <3>5, <3>6
  <2>5. CASE r.res # "OK"
    <3>1. r.fil = files[fd] /\ r.disk = store /\ ~r.fil.err
      BY <2>3, <2>5 DEF WriteGives
    <3>2. /\ posix' \in Images /\ posix'.disk = posix.disk /\ posix'.pos[fd] = files[fd].pos
          /\ \A e \in Fds \ {fd} : posix'.pos[e] = posix.pos[e]
      <4>1. posix' = Unwritten(fd)
        BY <1>5, <2>3, <2>5 DEF Means
      <4>2. CASE o_append[fd]
        <5>1. posix' = [posix EXCEPT !.pos[fd] = files[fd].pos]
          BY <1>3, <2>2, <4>1, <4>2 DEF Unwritten
        <5> QED
          BY <2>1, <5>1, ImageMoves
      <4>3. CASE ~o_append[fd]
        BY <2>1, <2>2, <4>1, <4>3 DEF Unwritten
      <4> QED
        BY <4>2, <4>3
    <3> QED
      BY <1>3, <2>1, <3>1, <3>2
  <2> QED
    BY <2>4, <2>5, SMTT(30)
<1>9. Return(t, fresult_to_errno[r.res]) /\ ~Locked(t) /\ PutFil(fd, r) /\ Trouble(r.res)
  BY <1>1, <1>5 DEF Fails, Locked
<1> QED
  BY <1>1, <1>2, <1>3, <1>7, <1>8, <1>9, FdReturns

(* A seek, in the image. *)
GrownIsRight(i, f, fd, to) ==
  /\ i \in Images /\ i.disk = [posix.disk EXCEPT ![f.n] = Longer(posix.disk[f.n], f, to)]
  /\ i.pos = [posix.pos EXCEPT ![fd] = IF "WRITE" \in f.mode THEN to ELSE LesserOf(to, Len(posix.disk[f.n]))]

LEMMA GrownIs ==
  ASSUME posix \in Images, NEW f, f.n \in Places, NEW fd \in Fds, NEW to \in Nat
  PROVE  GrownIsRight(Grown(posix, f, fd, to), f, fd, to)
<1> DEFINE n == f.n
           s == posix.disk[n]
           l == Longer(s, f, to)
           p == IF "WRITE" \in f.mode THEN to ELSE LesserOf(to, Len(s))
           d == [posix.disk EXCEPT ![n] = l]
           q == [posix.pos EXCEPT ![fd] = p]
<1>1. /\ posix.disk \in [Places -> Texts] /\ posix.pos \in [Fds -> Nat] /\ posix = [disk |-> posix.disk, pos |-> posix.pos]
  BY ImageIs
<1>2. s \in Seq(Int) /\ Len(s) \in Nat
  BY <1>1, LenProperties DEF Texts
<1>3. l \in Texts
  <2> HIDE DEF s
  <2> QED
    BY <1>2, LongerIs, TextsHold DEF Texts
<1>4. p \in Nat
  BY <1>2 DEF LesserOf
<1>5. Grown(posix, f, fd, to) = [disk |-> d, pos |-> q]
  <2>1. CASE "WRITE" \in f.mode
    <3>1. Grown(posix, f, fd, to) =
            [disk |-> [posix.disk EXCEPT ![n] = IF to > Len(@) THEN @ \o FillFrom(to - Len(@)) ELSE @],
             pos |-> [posix.pos EXCEPT ![fd] = to]]
      BY <1>1, <2>1 DEF Grown
    <3>2. [posix.disk EXCEPT ![n] = IF to > Len(@) THEN @ \o FillFrom(to - Len(@)) ELSE @] = d
      BY <1>1, <2>1 DEF Longer
    <3>3. p = to
      BY <2>1
    <3> HIDE DEF d, p
    <3> QED
      BY <3>1, <3>2, <3>3
  <2>2. CASE "WRITE" \notin f.mode
    <3>1. Grown(posix, f, fd, to) = [disk |-> posix.disk, pos |-> [posix.pos EXCEPT ![fd] = LesserOf(to, Len(s))]]
      BY <1>1, <2>2 DEF Grown
    <3>2. l = s
      BY <2>2 DEF Longer
    <3>3. d = posix.disk /\ p = LesserOf(to, Len(s))
      <4> HIDE DEF l
      <4> QED
        BY <1>1, <2>2, <3>2
    <3> HIDE DEF d, p
    <3> QED
      BY <3>1, <3>3
  <2> QED
    BY <2>1, <2>2
<1>6. d \in [Places -> Texts] /\ q \in [Fds -> Nat]
  <2> HIDE DEF l, p
  <2> QED
    BY <1>1, <1>3, <1>4
<1> DEFINE i == Grown(posix, f, fd, to)
<1>7. i = [disk |-> d, pos |-> q]
  BY <1>5
<1>8. i.disk = d /\ i.pos = q /\ i \in Images
  <2> HIDE DEF i, d, q
  <2> QED
    BY <1>6, <1>7, ImageMade
<1> HIDE DEF i
<1>9. GrownIsRight(i, f, fd, to)
  BY <1>8, SMTT(30) DEF GrownIsRight
<1> QED
  BY <1>9 DEF i

LEMMA LseekRight == ASSUME VfsInv, NEW t \in Tasks, Lseek(t) PROVE VfsInv'
<1>1. /\ frame[t].at = "lseek" /\ Call(t).op = "lseek" /\ Call(t).op \in OnFd /\ frame[t].at # "idle"
      /\ UNCHANGED <<lock, o_append, mine, dirs, memory, contexts, mounted, mixed>>
  BY DEF Lseek, At, Streams_, Contexts, OnFd
<1>2. PICK fd \in Fds : fd = frame[t].fd
  BY <1>1, UsingIs
<1>3. PICK n : n = files[fd].n
  OBVIOUS
<1>4. PICK k, to : k = frame[t].keep /\ to = Sought(Call(t).from, posix.pos[fd], Len(posix.disk[n])) + Call(t).ofs
  BY SMTT(30)
<1>5. PICK r \in Ends(SeekTo(files[fd], k), files[fd]) :
        /\ PutFil(fd, r) /\ Trouble(r.res) /\ Fails(t, r.res)
        /\ Means(IF r.res = "OK" /\ ~mixed THEN Grown(posix, files[fd], fd, to) ELSE posix)
  BY <1>2, <1>3, <1>4 DEF Lseek
<1>6. /\ Shapes /\ (Clean => Agreed) /\ left[t] # <<>> /\ frame[t] \in Frames /\ k \in Nat
      /\ IsFil(files[fd]) /\ store \in [Places -> Texts] /\ Using(t)
      /\ Clean => files[fd].fs /\ ~files[fd].err /\ UsesWell(t) /\ \A u \in Tasks \ {t} : Using(u) => frame[u].fd # fd
  BY <1>1, <1>2, <1>4, UsingIs, FrameHas
<1>7. Stays(r, files[fd]) /\ (files[fd].fs /\ ~files[fd].err /\ r.res # "DISK_ERR" => SeekGives(r, files[fd], k))
  BY <1>6, SeekEnds
<1>8. ASSUME Clean, Agreed, r.res # "DISK_ERR"
      PROVE  /\ ~r.fil.err /\ (\A m \in Places \ {n} : r.disk[m] = store[m] /\ posix'.disk[m] = posix.disk[m])
             /\ r.disk[n] \in Seq(Nat) /\ r.fil.pos <= Len(r.disk[n]) /\ posix' \in Images
             /\ (\A e \in Fds \ {fd} : posix'.pos[e] = posix.pos[e])
             /\ posix'.disk[n] = r.disk[n] /\ posix'.pos[fd] = r.fil.pos
  <2>1. /\ store[n] \in Seq(Nat) /\ Len(store[n]) \in Nat /\ posix.disk[n] = store[n] /\ n \in Places /\ posix \in Images
    BY <1>1, <1>2, <1>3, <1>6, <1>8, OpenSound, AloneUsing, SMTT(30)
  <2>2. k = to
    BY <1>1, <1>2, <1>3, <1>4, <1>6, <1>8 DEF UsesWell, On
  <2>3. SeekGives(r, files[fd], k) /\ ~mixed
    BY <1>6, <1>7, <1>8 DEF Clean
  <2> DEFINE l == Longer(store[n], files[fd], k)
             p == IF "WRITE" \in files[fd].mode THEN k ELSE LesserOf(k, Len(store[n]))
  <2>4. l \in Seq(Nat) /\ l \in Texts /\ p \in Nat /\ p <= Len(l)
    <3>1. l \in Seq(Nat) /\ Len(store[n]) <= Len(l) /\ ("WRITE" \in files[fd].mode => k <= Len(l))
      BY <1>6, <2>1, LongerIs
    <3>2. Len(l) \in Nat
      BY <3>1, LenProperties
    <3> HIDE DEF l
    <3> QED
      BY <1>6, <2>1, <3>1, <3>2, TextsHold DEF LesserOf
  <2>5. posix' = Grown(posix, files[fd], fd, k)
    BY <1>5, <2>2, <2>3 DEF Means, SeekGives
  <2>6. GrownIsRight(posix', files[fd], fd, k)
    BY <1>3, <1>6, <2>1, <2>5, GrownIs
  <2>7. /\ posix' \in Images /\ posix'.disk = [posix.disk EXCEPT ![n] = l] /\ posix'.pos = [posix.pos EXCEPT ![fd] = p]
    BY <1>3, <2>1, <2>6 DEF GrownIsRight
  <2>8. r.disk = [store EXCEPT ![n] = l] /\ r.fil.pos = p /\ ~r.fil.err
    BY <1>3, <2>3 DEF SeekGives
  <2>9. posix.disk \in [Places -> Texts] /\ posix.pos \in [Fds -> Nat]
    BY <2>1, ImageIs
  <2> HIDE DEF l, p
  <2> QED
    BY <1>6, <2>1, <2>4, <2>7, <2>8, <2>9, SMTT(30)
<1>9. Return(t, fresult_to_errno[r.res]) /\ ~Locked(t) /\ PutFil(fd, r) /\ Trouble(r.res)
  BY <1>1, <1>5 DEF Fails, Locked
<1> QED
  BY <1>1, <1>2, <1>3, <1>7, <1>8, <1>9, FdReturns

LEMMA PositionalSeeksRight == ASSUME VfsInv, NEW t \in Tasks, PositionalSeeks(t) PROVE VfsInv'
<1>0. Shapes /\ frame[t].at = "there"
  BY DEF VfsInv, PositionalSeeks
<1>1. /\ Call(t).op \in Positional /\ Call(t).op \in OnFd /\ frame[t].at # "idle"
      /\ UNCHANGED <<o_append, mine, dirs, memory, contexts, mounted, posix, mixed>>
  BY <1>0, InACall DEF PositionalSeeks, Streams_, Contexts, OnFd, Positional, Fits
<1>2. PICK fd \in Fds : fd = frame[t].fd
  BY <1>1, UsingIs
<1>3. PICK n : n = files[fd].n
  OBVIOUS
<1>4. PICK k : k = Call(t).ofs
  OBVIOUS
<1>5. PICK r \in Ends(SeekTo(files[fd], k), files[fd]) :
        /\ PutFil(fd, r) /\ Trouble(r.res)
        /\ IF r.res = "OK" THEN Goto_(t, [frame[t] EXCEPT !.at = "move"]) /\ UNCHANGED <<lock, left, vret>>
           ELSE GiveLock(t) /\ Fails(t, r.res)
  BY <1>2, <1>4 DEF PositionalSeeks
<1>6. /\ Shapes /\ (Clean => Agreed) /\ left[t] # <<>> /\ frame[t] \in Frames /\ k \in Nat /\ frame[t].keep \in Nat
      /\ IsFil(files[fd]) /\ store \in [Places -> Texts] /\ Using(t)
      /\ Clean => files[fd].fs /\ ~files[fd].err /\ UsesWell(t) /\ \A u \in Tasks \ {t} : Using(u) => frame[u].fd # fd
  BY <1>1, <1>2, <1>4, UsingIs, FrameHas, CallsHave DEF Positional
<1>7. Stays(r, files[fd]) /\ (files[fd].fs /\ ~files[fd].err /\ r.res # "DISK_ERR" => SeekGives(r, files[fd], k))
  BY <1>6, SeekEnds
<1>8. ASSUME Clean, Agreed, r.res # "DISK_ERR"
      PROVE  /\ r.res = "OK" /\ ~r.fil.err /\ (\A m \in Places \ {n} : r.disk[m] = store[m])
             /\ r.disk[n] \in Seq(Nat) /\ r.fil.pos <= Len(r.disk[n]) /\ r.fil.mode = files[fd].mode
             /\ r.disk[n] = Longer(posix.disk[n], files[fd], k) /\ ("WRITE" \in files[fd].mode => r.fil.pos = k)
             /\ frame[t].keep = posix.pos[fd] /\ frame[t].keep <= Len(posix.disk[n])
  <2>1. /\ store[n] \in Seq(Nat) /\ Len(store[n]) \in Nat /\ posix.disk[n] = store[n] /\ n \in Places /\ posix \in Images
        /\ files[fd].pos <= Len(store[n])
    BY <1>0, <1>1, <1>2, <1>3, <1>6, <1>8, OpenSound, AloneUsing
  <2>2. frame[t].keep = posix.pos[fd] /\ posix.pos[fd] = files[fd].pos
    <3>1. ~Moving(t, fd)
      BY <1>0 DEF Moving
    <3> QED
      BY <1>0, <1>1, <1>2, <1>6, <1>8, <3>1, AloneUsing DEF UsesWell, On
  <2>3. SeekGives(r, files[fd], k)
    BY <1>6, <1>7, <1>8
  <2> DEFINE l == Longer(store[n], files[fd], k)
             p == IF "WRITE" \in files[fd].mode THEN k ELSE LesserOf(k, Len(store[n]))
  <2>4. l \in Seq(Nat) /\ p <= Len(l)
    <3>1. l \in Seq(Nat) /\ Len(store[n]) <= Len(l) /\ ("WRITE" \in files[fd].mode => k <= Len(l))
      BY <1>6, <2>1, LongerIs
    <3>2. Len(l) \in Nat
      BY <3>1, LenProperties
    <3> HIDE DEF l
    <3> QED
      BY <1>6, <2>1, <3>1, <3>2 DEF LesserOf
  <2>5. r.disk = [store EXCEPT ![n] = l] /\ r.fil.pos = p /\ ~r.fil.err /\ r.res = "OK" /\ r.fil.mode = files[fd].mode
    BY <1>3, <2>3 DEF SeekGives
  <2>6. "WRITE" \in files[fd].mode => p = k
    OBVIOUS
  <2>7. l = Longer(posix.disk[n], files[fd], k)
    BY <2>1, SMTT(30)
  <2> HIDE DEF l, p
  <2> QED
    BY <1>6, <2>1, <2>2, <2>4, <2>5, <2>6, <2>7, SMTT(30)
<1>9. CASE r.res = "OK"
  <2> DEFINE a == "move"
  <2>1. PICK g : FrameAt(g, frame[t], a)
    BY DEF FrameAt
  <2>2. Goto_(t, g) /\ UNCHANGED <<left, lock>>
    BY <1>5, <1>9, <2>1 DEF FrameAt
  <2>3. a \in Ats /\ a = "move" /\ ~WritingAt(a)
    BY DEF Ats, WritingAt
  <2> HIDE DEF a
  <2>4. /\ g \in Frames /\ g.at = a /\ g.fd = fd /\ g.in = frame[t].in /\ g.out = frame[t].out /\ g.keep = frame[t].keep
    BY <1>2, <1>6, <2>1, <2>3, FrameAtIs
  <2>5. frame'[t] = g /\ Call(t)' = Call(t)
    BY <1>1, <1>6, <2>2, <2>3, <2>4, GotoStep DEF Fits
  <2>6. Locked(t) /\ Locked(t)'
    BY <1>0, <2>3, <2>4, <2>5 DEF Locked
  <2>7. files'[fd] = r.fil /\ store' = r.disk /\ r.fil.n = n
    BY <1>3, <1>5, <1>6, <1>7, PutIs DEF Stays
  <2>8. Using(t)' /\ On(t)' = r.fil /\ frame'[t].at = "move" /\ frame'[t].fd = fd /\ frame'[t].keep = frame[t].keep
    BY <1>1, <2>3, <2>4, <2>5, <2>7 DEF Using, On
  <2>9. ASSUME Clean, Agreed, r.res # "DISK_ERR" PROVE UsesWell(t)'
    <3>1. Longer(posix.disk[n], r.fil, k) = Longer(posix.disk[n], files[fd], k)
      BY <1>8, <2>9 DEF Longer
    <3> QED
      BY <1>1, <1>4, <1>8, <2>5, <2>7, <2>8, <2>9, <3>1 DEF UsesWell
  <2>10. Moving(t, fd)'
    BY <2>8 DEF Moving
  <2>11. PutFil(fd, r) /\ Trouble(r.res) /\ g.at \notin {"idle", "f_open"} /\ Fits(g.at, Call(t).op) /\ g.at \in {"move", "back"}
    BY <1>1, <1>5, <2>3, <2>4, SMTT(30) DEF Fits
  <2> QED
    BY <1>1, <1>2, <1>3, <1>7, <1>8, <2>2, <2>4, <2>6, <2>9, <2>10, <2>11, FdGoesOn
<1>10. CASE r.res # "OK"
  <2>1. Return(t, fresult_to_errno[r.res]) /\ GiveLock(t) /\ PutFil(fd, r) /\ Trouble(r.res)
    BY <1>5, <1>10 DEF Fails
  <2> QED
    BY <1>1, <1>2, <1>3, <1>7, <1>8, <1>10, <2>1, FdReturns
<1> QED
  BY <1>9, <1>10

FrameMoved(g, f, res, got) == g = [f EXCEPT !.at = "back", !.res = res, !.got = got]

LEMMA FrameMovedIs ==
  ASSUME NEW f \in Frames, NEW res \in Results, NEW got \in Texts, NEW g, FrameMoved(g, f, res, got)
  PROVE  /\ g \in Frames /\ g.at = "back" /\ g.fd = f.fd /\ g.keep = f.keep /\ g.res = res /\ g.in = f.in /\ g.out = f.out
<1>1. f \in FrameRecords /\ IsFil(f.in) /\ IsFil(f.out)
  BY FramesAre
<1>2. g \in FrameRecords
  <2>1. "back" \in Ats
    BY DEF Ats
  <2> QED
    BY <1>1, <2>1, ZenonT(30) DEF FrameRecords, FrameMoved
<1>3. /\ g.at = "back" /\ g.fd = f.fd /\ g.keep = f.keep /\ g.res = res /\ g.in = f.in /\ g.out = f.out
  BY <1>1 DEF FrameRecords, FrameMoved
<1> QED
  BY <1>1, <1>2, <1>3, FramesAre DEF Copied, WritingAt

LEMMA PositionalMovesRight == ASSUME VfsInv, NEW t \in Tasks, PositionalMoves(t) PROVE VfsInv'
<1>0. Shapes /\ frame[t].at = "move"
  BY DEF VfsInv, PositionalMoves
<1>1. /\ Call(t).op \in Positional /\ Call(t).op \in OnFd /\ frame[t].at # "idle"
      /\ UNCHANGED <<left, lock, o_append, mine, dirs, memory, contexts, mounted, posix, mixed>>
  BY <1>0, InACall DEF PositionalMoves, Streams_, Contexts, OnFd, Positional, Fits
<1>2. PICK fd \in Fds : fd = frame[t].fd
  BY <1>1, UsingIs
<1>3. PICK n, ofs : n = files[fd].n /\ ofs = Call(t).ofs
  OBVIOUS
<1>4. PICK k, x : k = Call(t).k /\ x = Call(t).x
  OBVIOUS
<1>5. PICK r \in Ends(IF Call(t).op = "pread" THEN ReadFrom_(files[fd], k) ELSE WriteTo(files[fd], x), files[fd]) :
        /\ PutFil(fd, r) /\ Trouble(r.res)
        /\ Goto_(t, [frame[t] EXCEPT !.at = "back", !.res = r.res, !.got = r.got])
  BY <1>2, <1>4, Zenon DEF PositionalMoves
<1>6. /\ Shapes /\ (Clean => Agreed) /\ left[t] # <<>> /\ frame[t] \in Frames /\ frame[t].keep \in Nat /\ ofs \in Nat
      /\ (Call(t).op = "pread" => k \in Nat) /\ (Call(t).op = "pwrite" => x \in Seq(Nat) /\ x \in Texts)
      /\ IsFil(files[fd]) /\ store \in [Places -> Texts] /\ Using(t)
      /\ Clean => files[fd].fs /\ ~files[fd].err /\ UsesWell(t) /\ \A u \in Tasks \ {t} : Using(u) => frame[u].fd # fd
  BY <1>1, <1>2, <1>3, <1>4, UsingIs, FrameHas, CallsHave, TextsHold DEF Positional
<1>7. /\ Stays(r, files[fd])
      /\ files[fd].fs /\ ~files[fd].err /\ r.res # "DISK_ERR" =>
           IF Call(t).op = "pread" THEN ReadGives(r, files[fd], k) ELSE WriteGives(r, files[fd], x)
  <2>1. CASE Call(t).op = "pread"
    <3>1. r \in Ends(ReadFrom_(files[fd], k), files[fd])
      BY <2>1
    <3> QED
      BY <1>6, <2>1, <3>1, ReadEnds
  <2>2. CASE Call(t).op = "pwrite"
    <3>1. r \in Ends(WriteTo(files[fd], x), files[fd])
      BY <2>2
    <3> QED
      BY <1>6, <2>2, <3>1, WriteEnds
  <2> QED
    BY <1>1, <2>1, <2>2 DEF Positional
<1>8. ASSUME Clean, Agreed, r.res # "DISK_ERR"
      PROVE  /\ ~r.fil.err /\ (\A m \in Places \ {n} : r.disk[m] = store[m])
             /\ r.disk[n] \in Seq(Nat) /\ r.fil.pos <= Len(r.disk[n]) /\ r.fil.mode = files[fd].mode
             /\ r.disk[n] = IF r.res = "OK" /\ Call(t).op = "pwrite" THEN Overwrite(store[n], ofs, x) ELSE store[n]
             /\ frame[t].keep = posix.pos[fd] /\ frame[t].keep <= Len(posix.disk[n])
             /\ store[n] = Longer(posix.disk[n], files[fd], ofs)
  <2>1. /\ store[n] \in Seq(Nat) /\ Len(store[n]) \in Nat /\ n \in Places
        /\ files[fd].pos \in Nat /\ files[fd].pos <= Len(store[n])
    BY <1>2, <1>3, <1>6, <1>8, OpenSound, SMTT(30)
  <2>2. /\ frame[t].keep = posix.pos[fd] /\ frame[t].keep <= Len(posix.disk[n])
        /\ store[n] = Longer(posix.disk[n], files[fd], ofs) /\ ("WRITE" \in files[fd].mode => files[fd].pos = ofs)
    BY <1>0, <1>2, <1>3, <1>6, <1>8 DEF UsesWell, On
  <2>3. CASE Call(t).op = "pread"
    <3>1. ReadGives(r, files[fd], k)
      BY <1>6, <1>7, <1>8, <2>3
    <3>2. r.fil.pos <= Len(store[n]) /\ r.disk = store /\ ~r.fil.err /\ r.fil.mode = files[fd].mode
      <4>1. LesserOf(files[fd].pos + k, Len(store[n])) <= Len(store[n])
        BY <1>6, <2>1, <2>3 DEF LesserOf
      <4> QED
        BY <1>3, <1>6, <1>8, <2>1, <3>1, <4>1 DEF ReadGives
    <3> QED
      BY <2>1, <2>2, <2>3, <3>2
  <2>4. CASE Call(t).op = "pwrite"
    <3>1. WriteGives(r, files[fd], x)
      BY <1>6, <1>7, <1>8, <2>4
    <3>2. CASE r.res = "OK"
      <4> DEFINE o == Overwrite(store[n], files[fd].pos, x)
      <4>1. Overlaid(o, store[n], files[fd].pos, x, Nat)
        BY <1>6, <2>1, <2>4, OverwriteIs
      <4>2. /\ r.disk = [store EXCEPT ![n] = o] /\ r.fil.pos = files[fd].pos + Len(x) /\ ~r.fil.err
            /\ r.fil.mode = files[fd].mode /\ files[fd].pos = ofs
        BY <1>3, <2>2, <3>1, <3>2 DEF WriteGives
      <4>3. o = Overwrite(store[n], ofs, x)
        BY <4>2
      <4> HIDE DEF o
      <4> QED
        BY <1>6, <2>1, <2>2, <2>4, <3>2, <4>1, <4>2, <4>3 DEF Overlaid
    <3>3. CASE r.res # "OK"
      BY <1>3, <2>1, <2>2, <3>1, <3>3 DEF WriteGives
    <3> QED
      BY <3>2, <3>3
  <2> QED
    BY <1>1, <2>3, <2>4 DEF Positional
<1>9. PICK g : FrameMoved(g, frame[t], r.res, r.got)
  BY DEF FrameMoved
<1>10. Goto_(t, g) /\ PutFil(fd, r) /\ Trouble(r.res)
  BY <1>5, <1>9 DEF FrameMoved
<1>11. /\ g \in Frames /\ g.at = "back" /\ g.fd = fd /\ g.in = frame[t].in /\ g.out = frame[t].out
       /\ g.keep = frame[t].keep /\ g.res = r.res
  <2>1. r.res \in Results /\ r.got \in Texts
    BY <1>7 DEF Stays, IsOutcome
  <2> QED
    BY <1>2, <1>6, <1>9, <2>1, FrameMovedIs
<1>12. frame'[t] = g /\ Call(t)' = Call(t)
  BY <1>1, <1>6, <1>10, <1>11, GotoStep DEF Fits
<1>13. Locked(t) /\ Locked(t)'
  BY <1>0, <1>11, <1>12 DEF Locked
<1>14. files'[fd] = r.fil /\ store' = r.disk /\ r.fil.n = n
  BY <1>3, <1>6, <1>7, <1>10, PutIs DEF Stays
<1>15. /\ Using(t)' /\ On(t)' = r.fil /\ frame'[t].at = "back" /\ frame'[t].fd = fd /\ frame'[t].keep = frame[t].keep
       /\ frame'[t].res = r.res
  BY <1>1, <1>11, <1>12, <1>14 DEF Using, On
<1>16. ASSUME Clean, Agreed, r.res # "DISK_ERR" PROVE UsesWell(t)'
  <2>1. Longer(posix.disk[n], r.fil, ofs) = Longer(posix.disk[n], files[fd], ofs)
    BY <1>8, <1>16 DEF Longer
  <2>2. store'[n] = IF r.res = "OK" /\ Call(t).op = "pwrite"
                      THEN Overwrite(Longer(posix.disk[n], r.fil, ofs), ofs, x) ELSE Longer(posix.disk[n], r.fil, ofs)
    BY <1>8, <1>14, <1>16, <2>1
  <2>3. frame[t].keep = posix.pos[fd] /\ frame[t].keep <= Len(posix.disk[n])
    BY <1>8, <1>16
  <2> QED
    BY <1>1, <1>3, <1>4, <1>12, <1>14, <1>15, <2>2, <2>3 DEF UsesWell
<1>17. Moving(t, fd)'
  BY <1>15 DEF Moving
<1>18. g.at \notin {"idle", "f_open"} /\ Fits(g.at, Call(t).op) /\ g.at \in {"move", "back"}
  BY <1>1, <1>11 DEF Fits
<1> QED
  BY <1>1, <1>2, <1>3, <1>7, <1>8, <1>10, <1>11, <1>13, <1>16, <1>17, <1>18, FdGoesOn, SMTT(30)

(* There and back, in the image. *)
LEMMA ThereIs ==
  ASSUME posix \in Images, NEW f, f.n \in Places, NEW fd \in Fds, NEW to \in Nat
  PROVE  [Grown(posix, f, fd, to) EXCEPT !.pos[fd] = posix.pos[fd]]
           = [disk |-> [posix.disk EXCEPT ![f.n] = Longer(posix.disk[f.n], f, to)], pos |-> posix.pos]
<1> DEFINE d == [posix.disk EXCEPT ![f.n] = Longer(posix.disk[f.n], f, to)]
           p == IF "WRITE" \in f.mode THEN to ELSE LesserOf(to, Len(posix.disk[f.n]))
           q == [posix.pos EXCEPT ![fd] = p]
           i == Grown(posix, f, fd, to)
<1>1. GrownIsRight(i, f, fd, to)
  BY GrownIs
<1>2. i \in Images /\ i.disk = d /\ i.pos = q
  BY <1>1 DEF GrownIsRight
<1>3. posix.pos \in [Fds -> Nat]
  BY ImageIs
<1> HIDE DEF i, d, p
<1>4. [i EXCEPT !.pos[fd] = posix.pos[fd]] = [disk |-> d, pos |-> [q EXCEPT ![fd] = posix.pos[fd]]]
  BY <1>2 DEF Images
<1>5. [q EXCEPT ![fd] = posix.pos[fd]] = posix.pos
  BY <1>3, SMTT(30)
<1> QED
  BY <1>4, <1>5 DEF i, d

LEMMA PositionalReturnsRight == ASSUME VfsInv, NEW t \in Tasks, PositionalReturns(t) PROVE VfsInv'
<1>0. Shapes /\ frame[t].at = "back"
  BY SMTT(30) DEF VfsInv, PositionalReturns
<1>1. /\ Call(t).op \in Positional /\ Call(t).op \in OnFd /\ frame[t].at # "idle" /\ GiveLock(t)
      /\ UNCHANGED <<o_append, mine, dirs, memory, contexts, mounted, mixed>>
  BY <1>0, InACall DEF PositionalReturns, Streams_, Contexts, OnFd, Positional, Fits
<1>2. PICK fd \in Fds : fd = frame[t].fd
  BY <1>1, UsingIs
<1>3. PICK n, ofs : n = files[fd].n /\ ofs = Call(t).ofs
  OBVIOUS
<1>4. PICK k, x : k = frame[t].keep /\ x = Call(t).x
  OBVIOUS
<1> DEFINE there == [Grown(posix, files[fd], fd, ofs) EXCEPT !.pos[fd] = posix.pos[fd]]
<1>5. PICK r \in Ends(SeekTo(files[fd], k), files[fd]) :
        /\ PutFil(fd, r) /\ Trouble(r.res)
        /\ Fails(t, IF frame[t].res # "OK" THEN frame[t].res ELSE r.res)
        /\ Means(IF mixed THEN posix
                 ELSE IF frame[t].res # "OK" \/ Call(t).op = "pread" THEN there
                 ELSE [there EXCEPT !.disk[n] = Overwrite(@, ofs, x)])
  BY <1>2, <1>3, <1>4, Zenon DEF PositionalReturns
<1>6. /\ Shapes /\ (Clean => Agreed) /\ left[t] # <<>> /\ frame[t] \in Frames /\ k \in Nat /\ ofs \in Nat
      /\ (Call(t).op = "pwrite" => x \in Seq(Nat) /\ x \in Texts)
      /\ IsFil(files[fd]) /\ store \in [Places -> Texts] /\ Using(t)
      /\ Clean => files[fd].fs /\ ~files[fd].err /\ UsesWell(t) /\ \A u \in Tasks \ {t} : Using(u) => frame[u].fd # fd
  BY <1>1, <1>2, <1>3, <1>4, UsingIs, FrameHas, CallsHave, TextsHold DEF Positional
<1>7. Stays(r, files[fd]) /\ (files[fd].fs /\ ~files[fd].err /\ r.res # "DISK_ERR" => SeekGives(r, files[fd], k))
  BY <1>6, SeekEnds
<1>8. ASSUME Clean, Agreed, r.res # "DISK_ERR"
      PROVE  /\ ~r.fil.err /\ (\A m \in Places \ {n} : r.disk[m] = store[m] /\ posix'.disk[m] = posix.disk[m])
             /\ r.disk[n] \in Seq(Nat) /\ r.fil.pos <= Len(r.disk[n]) /\ posix' \in Images
             /\ (\A e \in Fds \ {fd} : posix'.pos[e] = posix.pos[e])
             /\ posix'.disk[n] = r.disk[n] /\ posix'.pos[fd] = r.fil.pos
  <2> DEFINE l == Longer(posix.disk[n], files[fd], ofs)
             is == IF frame[t].res = "OK" /\ Call(t).op = "pwrite" THEN Overwrite(l, ofs, x) ELSE l
  <2>1. store[n] \in Seq(Nat) /\ Len(store[n]) \in Nat /\ n \in Places /\ posix \in Images
    BY <1>2, <1>3, <1>6, <1>8, OpenSound, SMTT(30)
  <2>2. k = posix.pos[fd] /\ k <= Len(posix.disk[n]) /\ store[n] = is
    BY <1>0, <1>2, <1>3, <1>4, <1>6, <1>8 DEF UsesWell, On
  <2>3. posix.disk[n] \in Seq(Int) /\ Len(posix.disk[n]) \in Nat /\ posix.disk \in [Places -> Texts] /\ posix.pos \in [Fds -> Nat]
    BY <2>1, ImageIs, LenProperties DEF Texts
  <2>4. l \in Seq(Int) /\ Len(posix.disk[n]) <= Len(l) /\ Len(l) \in Nat
    <3>1. Nat \subseteq Int
      OBVIOUS
    <3>2. l \in Seq(Int) /\ Len(posix.disk[n]) <= Len(l)
      BY <1>6, <2>3, <3>1, LongerIs
    <3> QED
      BY <3>2, LenProperties
  <2>5. k <= Len(is) /\ is \in Texts
    <3>1. CASE frame[t].res = "OK" /\ Call(t).op = "pwrite"
      <4>1. Overlaid(Overwrite(l, ofs, x), l, ofs, x, Int)
        <5>1. 0 \in Int /\ x \in Seq(Int)
          BY <1>6, <3>1 DEF Texts
        <5> HIDE DEF l
        <5> QED
          BY <1>6, <2>4, <5>1, OverwriteIs
      <4> DEFINE o == Overwrite(l, ofs, x)
      <4>2. o \in Seq(Int) /\ Len(l) <= Len(o) /\ is = o
        BY <3>1, <4>1 DEF Overlaid
      <4>3. Len(o) \in Nat
        BY <4>2, LenProperties
      <4> HIDE DEF o, is, l
      <4> QED
        BY <1>6, <2>2, <2>3, <2>4, <4>2, <4>3 DEF Texts
    <3>2. CASE ~(frame[t].res = "OK" /\ Call(t).op = "pwrite")
      <4>1. is = l
        BY <3>2
      <4> HIDE DEF is, l
      <4> QED
        BY <1>6, <2>2, <2>3, <2>4, <4>1 DEF Texts
    <3> QED
      BY <3>1, <3>2
  <2>6. SeekGives(r, files[fd], k) /\ ~mixed
    BY <1>6, <1>7, <1>8 DEF Clean
  <2>7. r.disk = store /\ r.fil.pos = k /\ ~r.fil.err
    <3>1. k <= Len(store[n])
      BY <2>2, <2>5
    <3>2. Longer(store[n], files[fd], k) = store[n]
      BY <1>6, <2>1, <3>1, LongerSame
    <3>3. LesserOf(k, Len(store[n])) = k
      BY <1>6, <2>1, <3>1 DEF LesserOf
    <3> QED
      BY <1>3, <1>6, <2>1, <2>6, <3>2, <3>3 DEF SeekGives
  <2>8. there = [disk |-> [posix.disk EXCEPT ![n] = l], pos |-> posix.pos]
    <3>1. PICK f : f = files[fd]
      OBVIOUS
    <3>2. f.n = n /\ f.n \in Places /\ posix \in Images
      BY <1>3, <2>1, <3>1
    <3>3. [Grown(posix, f, fd, ofs) EXCEPT !.pos[fd] = posix.pos[fd]]
            = [disk |-> [posix.disk EXCEPT ![f.n] = Longer(posix.disk[f.n], f, ofs)], pos |-> posix.pos]
      BY <1>6, <3>2, ThereIs
    <3> QED
      BY <3>1, <3>2, <3>3
  <2>9. posix' = [disk |-> [posix.disk EXCEPT ![n] = is], pos |-> posix.pos]
    <3>1. CASE frame[t].res # "OK" \/ Call(t).op = "pread"
      <4>1. posix' = there
        BY <1>5, <2>6, <3>1 DEF Means
      <4>2. is = l
        BY <3>1
      <4> HIDE DEF there, is, l
      <4> QED
        BY <2>8, <4>1, <4>2
    <3>2. CASE ~(frame[t].res # "OK" \/ Call(t).op = "pread")
      <4>1. posix' = [there EXCEPT !.disk[n] = Overwrite(@, ofs, x)]
        BY <1>5, <2>6, <3>2 DEF Means
      <4>2. is = Overwrite(l, ofs, x)
        BY <1>1, <3>2 DEF Positional
      <4> HIDE DEF there, is, l
      <4>3. posix' = [disk |-> [[posix.disk EXCEPT ![n] = l] EXCEPT ![n] = Overwrite(@, ofs, x)], pos |-> posix.pos]
        BY <2>8, <4>1
      <4>4. [[posix.disk EXCEPT ![n] = l] EXCEPT ![n] = Overwrite(@, ofs, x)] = [posix.disk EXCEPT ![n] = is]
        BY <2>1, <2>3, <4>2
      <4> QED
        BY <4>3, <4>4
    <3> QED
      BY <3>1, <3>2
  <2> HIDE DEF is, l, there
  <2>10. /\ posix' \in Images /\ posix'.disk = [posix.disk EXCEPT ![n] = is] /\ posix'.pos = posix.pos
    <3>1. [posix.disk EXCEPT ![n] = is] \in [Places -> Texts]
      BY <2>3, <2>5
    <3>2. posix' \in Images
      BY <2>3, <2>9, <3>1 DEF Images
    <3> QED
      BY <2>9, <3>2
  <2> QED
    BY <1>6, <2>1, <2>2, <2>3, <2>5, <2>7, <2>10, SMTT(30)
<1>9. PICK y : Return(t, y)
  BY <1>5 DEF Fails
<1>10. PutFil(fd, r) /\ Trouble(r.res)
  BY <1>5
<1> HIDE DEF there
<1> QED
  BY <1>1, <1>2, <1>3, <1>7, <1>8, <1>9, <1>10, FdReturns, SMTT(30)

LEMMA CloseRight == ASSUME VfsInv, NEW t \in Tasks, Close(t) PROVE VfsInv'
<1>1. /\ frame[t].at = "idle" /\ left[t] # <<>> /\ Call(t).op = "close" /\ Valid(t)
      /\ UNCHANGED <<lock, o_append, mine, dirs, store, memory, contexts, mounted, posix>>
  BY DEF Close, CallBegins, Streams_, Contexts
<1>2. PICK fd : fd = FdOf(t)
  OBVIOUS
<1>3. PICK r : files' = [files EXCEPT ![fd] = NoFIL] /\ Fails(t, r.res) /\ Trouble(r.res) /\ Mixes(Overlaps(t, fd))
  BY <1>2 DEF Close
<1>4. Shapes /\ LockKept /\ (Clean => Agreed) /\ fd \in Fds /\ files[fd].fs
  BY <1>1, <1>2, FdIs DEF VfsInv
<1>5. CallShapes' /\ Others(t) /\ frame'[t] = Idle_
  BY <1>1, <1>3, <1>4, ReturnStep DEF Fails
<1>6. /\ files' \in [Fds -> {f \in FILs : IsFil(f)}] /\ files'[fd] = NoFIL /\ \A e \in Fds \ {fd} : files'[e] = files[e]
  <2>1. NoFIL \in FILs /\ IsFil(NoFIL)
    BY NoFILIs DEF IsFil
  <2> QED
    BY <1>3, <1>4, <2>1 DEF Shapes
<1>7. /\ mixed' \in BOOLEAN /\ (mixed => mixed') /\ (Clean' => \A u \in Tasks \ {t} : Using(u) => frame[u].fd # fd)
  BY <1>3, <1>4, OverlapsNot
<1>8. trouble' \subseteq {"disk", "memory", "link"} /\ trouble \subseteq trouble'
  BY <1>3, <1>4, TroubleStep
<1>9. Clean' => Clean
  BY <1>7, <1>8, CleanStep
<1>10. LockKept'
  <2>1. \A e \in Fds : files'[e].fs => files[e].fs
    BY <1>6, NoFILIs
  <2> QED
    BY <1>1, <1>4, <1>5, <2>1, Idles, Returned, LockLeft
<1>11. ASSUME Clean' PROVE Agreed'
  <2>1. Agreed /\ \A u \in Tasks \ {t} : Using(u) => frame[u].fd # fd
    BY <1>4, <1>7, <1>9, <1>11
  <2>2. {} \in SUBSET Places /\ {fd} \in SUBSET Fds
    BY <1>4
  <2>3. StepOk(t, {}, {fd})
    <3>1. posix' \in Images
      BY <1>1, <2>1 DEF Agreed
    <3>2. \A e \in Fds \ {fd} : files'[e] = files[e] /\ o_append'[e] = o_append[e] /\ posix'.pos[e] = posix.pos[e]
      BY <1>1, <1>6
    <3>3. \A n \in Places \ {} : store'[n] = store[n] /\ posix'.disk[n] = posix.disk[n]
      BY <1>1
    <3> QED
      BY <2>1, <3>1, <3>2, <3>3 DEF StepOk
  <2>4. \A h \in HoldersOf(t, {fd}) : ~(Fil(h)').fs
    BY <1>5, <1>6, IdleIs, NoFILIs DEF HoldersOf, Fil
  <2>5. /\ TaskWell(t)' /\ ~Using(t)' /\ (\A n : ~Changing(t, n)) /\ (\A e : ~Moving(t, e))
    BY <1>1, <1>5, Idles, Returned
  <2>6. ~files'[fd].fs
    BY <1>6, NoFILIs
  <2>7. OwnOk(t, {}, {fd})
    BY <2>4, <2>5, <2>6 DEF OwnOk
  <2> QED
    BY <1>4, <1>5, <2>1, <2>2, <2>3, <2>7, AgreedStep
<1>12. Holds(t)' = Holds(t)
  BY <1>1, <1>5, Idles, Returned
<1>13. lock' \in Tasks \union {"free"} /\ store' \in [Places -> Texts] /\ o_append' \in [Fds -> BOOLEAN]
       /\ mine' \in [Tasks -> -1 .. (MaxFiles - 1)] /\ UNCHANGED <<dirs, memory, contexts, mounted, store>>
  BY <1>1, <1>4 DEF Shapes
<1> QED
  BY <1>5, <1>6, <1>7, <1>8, <1>10, <1>11, <1>12, <1>13, FaceStep

-----------------------------------------------------------------------------
(* Opening. *)

LEMMA ModeIs ==
  ASSUME NEW m
  PROVE  /\ fat_mode_conv(m) \in SUBSET Modes
         /\ "CREATE_NEW" \in fat_mode_conv(m) <=> {"CREAT", "EXCL"} \subseteq m
         /\ "CREATE_ALWAYS" \in fat_mode_conv(m) <=> {"CREAT", "TRUNC"} \subseteq m /\ ~({"CREAT", "EXCL"} \subseteq m)
<1> DEFINE e == IF {"CREAT", "EXCL"} \subseteq m THEN "CREATE_NEW"
                ELSE IF {"CREAT", "TRUNC"} \subseteq m THEN "CREATE_ALWAYS"
                ELSE IF "APPEND" \in m THEN "OPEN_ALWAYS" ELSE "OPEN_EXISTING"
           S == {a \in {"READ", "WRITE"} : "RDWR" \in m \/ (IF a = "READ" THEN "RDONLY" ELSE "WRONLY") \in m}
<1>1. fat_mode_conv(m) = S \union {e}
  BY DEF fat_mode_conv
<1>2. S \subseteq {"READ", "WRITE"}
  OBVIOUS
<1>3. /\ e \in {"CREATE_NEW", "CREATE_ALWAYS", "OPEN_ALWAYS", "OPEN_EXISTING"}
      /\ e = "CREATE_NEW" <=> {"CREAT", "EXCL"} \subseteq m
      /\ e = "CREATE_ALWAYS" <=> {"CREAT", "TRUNC"} \subseteq m /\ ~({"CREAT", "EXCL"} \subseteq m)
  OBVIOUS
<1> HIDE DEF e, S
<1>4. "CREATE_NEW" \notin S /\ "CREATE_ALWAYS" \notin S
  BY <1>2
<1>5. S \in SUBSET Modes /\ e \in Modes
  BY <1>2, <1>3 DEF Modes
<1>6. S \union {e} \in SUBSET Modes
  BY <1>5
<1> QED
  BY <1>1, <1>3, <1>4, <1>6

(* A file that no FIL is about is as its image. *)
LEMMA Unheld ==
  ASSUME Shapes, NEW n \in Places, ~OpenAlready(n)
  PROVE  /\ \A h \in Holders : Fil(h).fs => Fil(h).n # n
         /\ Agreed => (\A u \in Tasks : ~Changing(u, n)) /\ posix.disk[n] = store[n]
<1>1. ASSUME NEW h \in Holders, Fil(h).fs PROVE Fil(h).n # n
  BY <1>1, HolderIs DEF OpenAlready
<1>2. ASSUME Agreed, NEW u \in Tasks, Depends(u, n) PROVE FALSE
  <2>1. CASE Using(u) /\ n = On(u).n
    <3>1. frame[u].fd \in Fds /\ files[frame[u].fd].fs
      BY <1>2, <2>1, FrameHas DEF Shapes, Agreed, TaskWell, Using, On
    <3> QED
      BY <2>1, <3>1 DEF OpenAlready, On
  <2>2. CASE frame[u].in.fs /\ n = frame[u].in.n
    BY <2>2 DEF OpenAlready
  <2>3. CASE frame[u].out.fs /\ n = frame[u].out.n
    BY <2>3 DEF OpenAlready
  <2> QED
    BY <1>2, <2>1, <2>2, <2>3 DEF Depends
<1>3. ASSUME Agreed PROVE (\A u \in Tasks : ~Changing(u, n)) /\ posix.disk[n] = store[n]
  <2>1. \A u \in Tasks : ~Changing(u, n)
    BY <1>2, <1>3, ChangingDepends DEF Agreed
  <2> QED
    BY <1>3, <2>1 DEF Agreed
<1> QED
  BY <1>1, <1>3

LEMMA OpenAlreadyIs == ASSUME NEW n PROVE OpenAlready(n) \in BOOLEAN /\ Streaming \in BOOLEAN
BY DEF OpenAlready, Streaming

OpenGives(r, n, mode) ==
  /\ r.res # "OK" => ~r.fil.fs /\ r.disk = store
  /\ r.res = "OK" => /\ r.fil.fs /\ r.fil.n = n /\ r.fil.pos = 0 /\ ~r.fil.err /\ r.fil.mode = mode /\ store[n] # Dir_
                     /\ r.disk = IF store[n] # Absent /\ "CREATE_ALWAYS" \notin mode THEN store
                                 ELSE [store EXCEPT ![n] = <<>>]
                     /\ "CREATE_NEW" \in mode => store[n] = Absent
                     /\ store[n] = Absent => mode \cap {"CREATE_NEW", "CREATE_ALWAYS", "OPEN_ALWAYS"} # {}

LEMMA OpenEnds ==
  ASSUME store \in [Places -> Texts], NEW n \in Places, NEW mode \in SUBSET Modes, NEW r \in Ends(OpenedFor(n, mode), NoFIL)
  PROVE  IsOutcome(r) /\ OpenGives(r, n, mode)
<1> DEFINE r0 == OpenedFor(n, mode)
<1>1. IsOutcome(r0) /\ OpenGives(r0, n, mode)
  BY OpenedIs, NoFILIs DEF OpenGives
<1>2. r \in Ends(r0, NoFIL)
  OBVIOUS
<1> HIDE DEF r0
<1>3. IsOutcome(r) /\ (r # r0 => r.res = "DISK_ERR" /\ r.disk = store)
  BY <1>1, <1>2, EndsWell, NoFILIs
<1>4. r = r0 \/ r.fil = [NoFIL EXCEPT !.err = NoFIL.fs]
  BY <1>2, EndsAre
<1>5. CASE r = r0
  BY <1>1, <1>5
<1>6. CASE r # r0
  <2>1. ~r.fil.fs
    BY <1>4, <1>6 DEF NoFIL
  <2> QED
    BY <1>3, <1>6, <2>1 DEF OpenGives
<1> QED
  BY <1>5, <1>6

LEMMA OpenStartRight == ASSUME VfsInv, NEW t \in Tasks, OpenStart(t) PROVE VfsInv'
<1>1. /\ frame[t].at = "idle" /\ left[t] # <<>> /\ Call(t).op = "open"
      /\ UNCHANGED <<files, o_append, mine, dirs, store, memory, contexts, mounted, trouble, posix, mixed>>
  BY Zenon DEF OpenStart, CallBegins, Streams_, Contexts
<1>2. CASE Return(t, "ENFILE") /\ UNCHANGED lock
  <2> DEFINE r == "ENFILE"
  <2>1. Return(t, r)
    BY <1>2
  <2> HIDE DEF r
  <2> QED
    BY <1>1, <1>2, <2>1, CallNothing
<1>3. ASSUME NEW fd \in get_next_fd, TakeLock(t), Goto_(t, [Idle_ EXCEPT !.at = "f_open", !.fd = fd]), UNCHANGED left
      PROVE  VfsInv'
  <2> DEFINE a == "f_open"
  <2>1. PICK f : f = [Idle_ EXCEPT !.at = a, !.fd = fd]
    OBVIOUS
  <2>2. Goto_(t, f)
    BY <1>3, <2>1
  <2>3. a \in Ats /\ a = "f_open" /\ fd \in Fds /\ ~files[fd].fs
    BY DEF Ats, get_next_fd
  <2> HIDE DEF a
  <2>4. f \in Frames /\ f.at = a /\ f.fd = fd /\ f.in = NoFIL /\ f.out = NoFIL
    <3>1. Idle_ \in FrameRecords /\ Idle_.in = NoFIL /\ Idle_.out = NoFIL
      BY IdleIs, FramesAre
    <3>2. f \in FrameRecords /\ f.at = a /\ f.fd = fd /\ f.in = Idle_.in /\ f.out = Idle_.out
      BY <2>1, <2>3, <3>1 DEF FrameRecords
    <3> QED
      BY <2>3, <3>1, <3>2, NoFILIs, FramesAre DEF Copied, WritingAt
  <2>5. Shapes /\ LockKept /\ (Clean => Agreed)
    BY DEF VfsInv
  <2>6. CallShapes' /\ Others(t) /\ frame'[t] = f /\ Call(t)' = Call(t)
    BY <1>1, <1>3, <2>2, <2>3, <2>4, <2>5, GotoStep DEF Fits
  <2>7. LockKept'
    <3>1. Locked(t)'
      BY <2>3, <2>4, <2>6 DEF Locked
    <3> QED
      BY <1>1, <1>3, <2>3, <2>4, <2>5, <2>6, <3>1, LockTaken
  <2>8. ASSUME Clean' PROVE Agreed'
    <3>1. Agreed
      BY <1>1, <2>5, <2>8 DEF Clean
    <3>2. ~Using(t)' /\ TaskWell(t)'
      BY <1>1, <2>6 DEF Using, TaskWell, OnFd
    <3>3. ~frame'[t].in.fs /\ ~frame'[t].out.fs
      BY <2>4, <2>6, NoFILIs
    <3> QED
      BY <1>1, <2>5, <2>6, <3>1, <3>2, <3>3, Idles, AgreedQuiet
  <2>9. Holds(t)' = Holds(t)
    BY <1>1, <2>6, Idles DEF Holds
  <2>10. lock' \in Tasks \union {"free"} /\ trouble \subseteq trouble'
    BY <1>1, <1>3 DEF TakeLock
  <2> QED
    BY <1>1, <2>5, <2>6, <2>7, <2>8, <2>9, <2>10, FaceStep DEF Shapes
<1> QED
  BY <1>2, <1>3, Zenon DEF OpenStart

(* What is opened, and emptied, is so in the image. *)
LEMMA OpenImage ==
  ASSUME NEW n \in Places, NEW m, NEW r, r.res = "OK", OpenGives(r, n, fat_mode_conv(m)), store \in [Places -> Texts],
         posix \in Images, posix.disk[n] = store[n], NEW d,
         d = [posix.disk EXCEPT ![n] = IF @ = Absent \/ {"CREAT", "TRUNC"} \subseteq m THEN <<>> ELSE @]
  PROVE  /\ d \in [Places -> Texts] /\ d[n] = r.disk[n] /\ (r.disk[n] = <<>> \/ r.disk[n] = store[n])
         /\ r.disk[n] # Absent /\ r.disk[n] # Dir_
         /\ \A i \in Places \ {n} : d[i] = posix.disk[i] /\ r.disk[i] = store[i]
<1>1. posix.disk \in [Places -> Texts]
  BY ImageIs
<1>2. /\ r.disk = IF store[n] # Absent /\ "CREATE_ALWAYS" \notin fat_mode_conv(m) THEN store ELSE [store EXCEPT ![n] = <<>>]
      /\ "CREATE_NEW" \in fat_mode_conv(m) => store[n] = Absent
      /\ store[n] # Dir_
  BY DEF OpenGives
<1>3. <<>> # Absent /\ <<>> # Dir_
  BY AbsentIs, EmptySeq
<1>4. CASE store[n] = Absent \/ {"CREAT", "TRUNC"} \subseteq m
  <2>1. r.disk = [store EXCEPT ![n] = <<>>]
    BY <1>2, <1>4, ModeIs
  <2>2. d = [posix.disk EXCEPT ![n] = <<>>]
    BY <1>1, <1>4
  <2> QED
    BY <1>1, <1>3, <2>1, <2>2, EmptyText
<1>5. CASE ~(store[n] = Absent \/ {"CREAT", "TRUNC"} \subseteq m)
  <2>1. r.disk = store
    BY <1>2, <1>5, ModeIs
  <2>2. d = posix.disk
    BY <1>1, <1>5
  <2> QED
    BY <1>1, <1>2, <1>5, <2>1, <2>2
<1> QED
  BY <1>4, <1>5

LEMMA OpenPathRight == ASSUME VfsInv, NEW t \in Tasks, OpenPath(t) PROVE VfsInv'
<1>1. /\ frame[t].at = "f_open" /\ Call(t).op = "open" /\ GiveLock(t)
      /\ UNCHANGED <<dirs, memory, contexts, mounted>>
  BY DEF OpenPath, At, Contexts
<1>2. PICK fd, n, m : fd = frame[t].fd /\ n = Call(t).n /\ m = Call(t).flags
  OBVIOUS
<1> DEFINE d == [posix.disk EXCEPT ![n] = IF @ = Absent \/ {"CREAT", "TRUNC"} \subseteq m THEN <<>> ELSE @]
<1>3. PICK r \in Ends(OpenedFor(n, fat_mode_conv(m)), NoFIL) :
        /\ PutFil(fd, r) /\ Trouble(r.res)
        /\ IF r.res = "OK"
             THEN /\ o_append' = [o_append EXCEPT ![fd] = "APPEND" \in m]
                  /\ Return(t, "fd") /\ mine' = [mine EXCEPT ![t] = fd]
                  /\ posix' = [disk |-> d, pos |-> [posix.pos EXCEPT ![fd] = 0]]
             ELSE Fails(t, r.res) /\ mine' = [mine EXCEPT ![t] = -1] /\ UNCHANGED <<o_append, posix>>
        /\ Mixes((Streaming /\ store' # store) \/ (r.res = "OK" /\ OpenAlready(n)))
  BY <1>2 DEF OpenPath, Means
<1>4. /\ Shapes /\ LockKept /\ (Clean => Agreed) /\ fd \in Fds /\ left[t] # <<>> /\ n \in Places /\ store \in [Places -> Texts]
      /\ frame[t].at # "idle"
  <2>1. Shapes /\ LockKept /\ (Clean => Agreed)
    BY DEF VfsInv
  <2>2. left[t] # <<>> /\ frame[t] \in Frames /\ Call(t) \in PosixCalls
    BY <1>1, <2>1, InACall, CallIs DEF Shapes
  <2> QED
    BY <1>1, <1>2, <2>1, <2>2, FrameHas, CallsHave DEF Shapes
<1>5. fat_mode_conv(m) \in SUBSET Modes
  BY ModeIs
<1>6. IsOutcome(r) /\ OpenGives(r, n, fat_mode_conv(m))
  BY <1>4, <1>5, OpenEnds
<1>7. /\ PutFil(fd, r) /\ Trouble(r.res) /\ Mixes((Streaming /\ store' # store) \/ (r.res = "OK" /\ OpenAlready(n)))
      /\ \E y : Return(t, y)
      /\ o_append' = (IF r.res = "OK" THEN [o_append EXCEPT ![fd] = "APPEND" \in m] ELSE o_append)
      /\ mine' = [mine EXCEPT ![t] = IF r.res = "OK" THEN fd ELSE -1]
      /\ r.res = "OK" => posix' = [disk |-> d, pos |-> [posix.pos EXCEPT ![fd] = 0]]
      /\ r.res # "OK" => posix' = posix
  <2> HIDE DEF d
  <2> QED
    BY <1>3 DEF Fails
<1> HIDE DEF d
<1>8. CallShapes' /\ Others(t) /\ frame'[t] = Idle_
  BY <1>4, <1>7, ReturnStep
<1>9. /\ files' \in [Fds -> {f \in FILs : IsFil(f)}] /\ store' \in [Places -> Texts] /\ store' = r.disk
      /\ files'[fd] = r.fil /\ \A e \in Fds \ {fd} : files'[e] = files[e]
  BY <1>4, <1>6, <1>7, PutIs
<1>10. /\ mixed' \in BOOLEAN /\ (mixed => mixed')
       /\ Clean' => ~(Streaming /\ store' # store) /\ ~(r.res = "OK" /\ OpenAlready(n))
  <2> DEFINE b == (Streaming /\ store' # store) \/ (r.res = "OK" /\ OpenAlready(n))
  <2>1. b \in BOOLEAN
    BY OpenAlreadyIs
  <2>2. Mixes(b)
    BY <1>7
  <2> HIDE DEF b
  <2>3. mixed' \in BOOLEAN /\ (mixed => mixed') /\ (Clean' => ~b)
    BY <1>4, <2>1, <2>2, MixesStep
  <2> QED
    BY <2>3 DEF b
<1>11. trouble' \subseteq {"disk", "memory", "link"} /\ trouble \subseteq trouble' /\ (Clean' => r.res # "DISK_ERR")
  BY <1>4, <1>7, TroubleStep
<1>12. Clean' => Clean
  BY <1>10, <1>11, CleanStep
<1>13. LockKept'
  BY <1>1, <1>4, <1>8, Returned, LockGiven
<1>14. /\ lock' \in Tasks \union {"free"} /\ o_append' \in [Fds -> BOOLEAN] /\ mine' \in [Tasks -> -1 .. (MaxFiles - 1)]
  <2>1. lock' = "free"
    BY <1>1 DEF GiveLock
  <2>2. o_append' \in [Fds -> BOOLEAN]
    BY <1>4, <1>7 DEF Shapes
  <2>3. MaxFiles \in Nat \ {0} /\ fd \in 0 .. (MaxFiles - 1)
    BY <1>4, VfsConstants DEF Fds
  <2>4. -1 \in -1 .. (MaxFiles - 1) /\ fd \in -1 .. (MaxFiles - 1)
    BY <2>3
  <2>5. mine' \in [Tasks -> -1 .. (MaxFiles - 1)]
    <3>1. mine \in [Tasks -> -1 .. (MaxFiles - 1)]
      BY <1>4 DEF Shapes
    <3> QED
      BY <1>7, <2>4, <3>1
  <2> QED
    BY <2>1, <2>2, <2>5
<1>15. Holds(t)' = Holds(t)
  BY <1>1, <1>8, Returned DEF Holds
<1>16. ~Using(t) /\ (\A i : ~Changing(t, i)) /\ (\A e : ~Moving(t, e)) /\ ~files[fd].fs
  <2>1. ~files[fd].fs
    BY <1>1, <1>2, <1>4 DEF LockKept
  <2> QED
    BY <1>1, <2>1 DEF Using, OnFd, Changing, Moving
<1>17. ASSUME Clean', Agreed PROVE \A u \in Tasks \ {t} : Using(u) => frame[u].fd # fd
  BY <1>16, <1>17 DEF Agreed, TaskWell, On, Using
<1>18. \A h \in HoldersOf(t, {fd}) : (Fil(h)').fs => h = <<"fd", fd>> /\ Fil(h)' = r.fil
  BY <1>8, <1>9, IdleIs, NoFILIs DEF HoldersOf, Fil
<1>19. ~Using(t)' /\ TaskWell(t)'
  BY <1>8, Returned
<1>20. ASSUME Clean' PROVE Agreed'
  <2>1. Agreed /\ r.res # "DISK_ERR" /\ posix \in Images /\ posix.disk \in [Places -> Texts] /\ posix.pos \in [Fds -> Nat]
    BY <1>4, <1>11, <1>12, <1>20, ImageIs DEF Agreed
  <2>2. \A e \in Fds \ {fd} : files'[e] = files[e] /\ o_append'[e] = o_append[e]
    BY <1>4, <1>7, <1>9 DEF Shapes
  <2>3. CASE r.res = "OK"
    <3>1. ~OpenAlready(n)
      BY <1>10, <1>20, <2>3
    <3>2. (\A h \in Holders : Fil(h).fs => Fil(h).n # n) /\ posix.disk[n] = store[n]
      BY <1>4, <2>1, <3>1, Unheld
    <3>3. /\ d \in [Places -> Texts] /\ d[n] = r.disk[n] /\ (r.disk[n] = <<>> \/ r.disk[n] = store[n])
          /\ r.disk[n] # Absent /\ r.disk[n] # Dir_
          /\ \A i \in Places \ {n} : d[i] = posix.disk[i] /\ r.disk[i] = store[i]
      <4>1. d = [posix.disk EXCEPT ![n] = IF @ = Absent \/ {"CREAT", "TRUNC"} \subseteq m THEN <<>> ELSE @]
        BY DEF d
      <4> QED
        BY <1>4, <1>6, <2>1, <2>3, <3>2, <4>1, OpenImage
    <3>4. r.disk[n] \in Seq(Nat) /\ Len(r.disk[n]) \in Nat
      <4>1. store[n] \in {Absent, Dir_} \union Seq(Nat)
        BY <1>4, <2>1 DEF Agreed
      <4>2. r.disk[n] \in Seq(Nat)
        BY <3>3, <4>1, EmptySeq
      <4> QED
        BY <4>2, LenProperties
    <3>5. posix' \in Images /\ posix'.disk = d /\ posix'.pos = [posix.pos EXCEPT ![fd] = 0]
      <4>1. posix' = [disk |-> d, pos |-> [posix.pos EXCEPT ![fd] = 0]]
        BY <1>7, <2>3
      <4>2. [posix.pos EXCEPT ![fd] = 0] \in [Fds -> Nat]
        BY <2>1
      <4>3. posix' \in Images
        BY <3>3, <4>1, <4>2 DEF Images
      <4> QED
        BY <4>1, <4>3
    <3>6. \A e \in Fds : posix'.pos[e] = IF e = fd THEN 0 ELSE posix.pos[e]
      BY <1>4, <2>1, <3>5
    <3>7. StepOk(t, {n}, {fd})
      <4>1. \A i \in Places \ {n} : store'[i] = store[i] /\ posix'.disk[i] = posix.disk[i]
        BY <1>9, <3>3, <3>5
      <4>2. \A e \in Fds \ {fd} : files'[e] = files[e] /\ o_append'[e] = o_append[e] /\ posix'.pos[e] = posix.pos[e]
        BY <2>2, <3>6
      <4>3. \A h \in Holders \ HoldersOf(t, {fd}) : Fil(h).fs => Fil(h).n \notin {n}
        BY <3>2
      <4>4. \A u \in Tasks \ {t} : Using(u) => frame[u].fd \notin {fd}
        BY <1>17, <1>20, <2>1
      <4> QED
        BY <3>5, <4>1, <4>2, <4>3, <4>4 DEF StepOk
    <3>8. r.fil.fs /\ r.fil.n = n /\ r.fil.pos = 0 /\ ~r.fil.err
      BY <1>6, <2>3 DEF OpenGives
    <3>9. OwnOk(t, {n}, {fd})
      <4>1. ASSUME NEW h \in HoldersOf(t, {fd}), (Fil(h)').fs
            PROVE  Sound(Fil(h))' /\ (Fil(h)').n = n
        <5>1. Fil(h)' = r.fil
          BY <1>18, <4>1
        <5> QED
          BY <1>9, <3>4, <3>8, <5>1 DEF Sound
      <4>2. \A g, h \in HoldersOf(t, {fd}) : (Fil(g)').fs /\ (Fil(h)').fs /\ (Fil(g)').n = (Fil(h)').n => g = h
        BY <1>18
      <4>3. posix'.disk[n] = store'[n] /\ store'[n] \in {Absent, Dir_} \union Seq(Nat)
        BY <1>9, <3>3, <3>4, <3>5
      <4>4. posix'.pos[fd] = files'[fd].pos
        BY <1>4, <1>9, <3>6, <3>8
      <4>5. \A h \in HoldersOf(t, {fd}) : (Fil(h)').fs => Sound(Fil(h))' /\ \A g \in Holders : Fil(g).fs => Fil(g).n # (Fil(h)').n
        BY <3>2, <4>1
      <4> QED
        BY <1>16, <1>19, <4>2, <4>3, <4>4, <4>5 DEF OwnOk
    <3> QED
      <4>1. {n} \in SUBSET Places /\ {fd} \in SUBSET Fds
        BY <1>4
      <4> QED
        BY <1>4, <1>8, <2>1, <3>7, <3>9, <4>1, AgreedStep
  <2>4. CASE r.res # "OK"
    <3>1. ~r.fil.fs /\ store' = store /\ posix' = posix
      BY <1>6, <1>7, <1>9, <2>4 DEF OpenGives
    <3>2. StepOk(t, {}, {fd})
      <4>1. \A i \in Places \ {} : store'[i] = store[i] /\ posix'.disk[i] = posix.disk[i]
        BY <3>1
      <4>2. \A e \in Fds \ {fd} : files'[e] = files[e] /\ o_append'[e] = o_append[e] /\ posix'.pos[e] = posix.pos[e]
        BY <2>2, <3>1
      <4>3. \A u \in Tasks \ {t} : Using(u) => frame[u].fd \notin {fd}
        BY <1>17, <1>20, <2>1
      <4> QED
        BY <2>1, <3>1, <4>1, <4>2, <4>3 DEF StepOk
    <3>3. \A h \in HoldersOf(t, {fd}) : ~(Fil(h)').fs
      BY <1>18, <3>1
    <3>4. OwnOk(t, {}, {fd})
      BY <1>9, <1>16, <1>19, <3>1, <3>3 DEF OwnOk
    <3> QED
      <4>1. {} \in SUBSET Places /\ {fd} \in SUBSET Fds
        BY <1>4
      <4> QED
        BY <1>4, <1>8, <2>1, <3>2, <3>4, <4>1, AgreedStep
  <2> QED
    BY <2>3, <2>4
<1>21. Clean' => ~Streaming \/ \A i \in Places : (store'[i] = Absent <=> store[i] = Absent)
  BY <1>10
<1> QED
  BY <1>1, <1>8, <1>9, <1>10, <1>11, <1>13, <1>14, <1>15, <1>20, <1>21, FaceStep

-----------------------------------------------------------------------------
(* The calls on names. *)

Touched(c) ==
  IF c.op \in {"stat", "access", "utime"} THEN {} ELSE IF c.op = "rename" THEN {c.n, c.m} ELSE {c.n}

NameMade(r, c, d) ==
  /\ r.disk \in [Places -> Texts] /\ r.res \in {"OK", "NO_FILE", "EXIST"}
  /\ r.res # "OK" => r.disk = d
  /\ r.res = "OK" =>
       /\ \A i \in Places \ Touched(c) : r.disk[i] = d[i]
       /\ \A i \in Touched(c) : r.disk[i] \in {Absent, Dir_, d[c.n]}
       /\ Touched(c) # {} => r.disk # d
       /\ c.op = "rename" => d[c.m] = Absent

LEMMA NamedIs ==
  ASSUME NEW c, c.op \in NameOps, c.n \in Places, c.m \in Places, NEW d \in [Places -> Texts]
  PROVE  NameMade(Named(c, d), c, d)
<1> DEFINE no(res) == [res |-> res, disk |-> d]
           ok(e) == [res |-> "OK", disk |-> e]
           r == Named(c, d)
<1>1. c.op \in {"stat", "access", "utime", "unlink", "rmdir", "rename", "mkdir"}
  BY DEF NameOps
<1>2. Absent \in Texts /\ Dir_ \in Texts /\ Absent # Dir_
  BY AbsentIs
<1>3. CASE c.op = "mkdir"
  <2>1. Touched(c) = {c.n}
    BY <1>3 DEF Touched
  <2>2. CASE d[c.n] # Absent
    <3>1. r = no("EXIST")
      BY <1>3, <2>2 DEF Named
    <3> QED
      BY <3>1 DEF NameMade
  <2>3. CASE d[c.n] = Absent
    <3>1. r = ok([d EXCEPT ![c.n] = Dir_])
      BY <1>3, <2>3 DEF Named
    <3>2. r.res = "OK" /\ r.disk = [d EXCEPT ![c.n] = Dir_]
      BY <3>1
    <3> HIDE DEF r
    <3>3. r.disk \in [Places -> Texts] /\ r.disk[c.n] = Dir_ /\ \A i \in Places \ {c.n} : r.disk[i] = d[i]
      BY <1>2, <3>2
    <3>4. NameMade(r, c, d)
      BY <1>2, <1>3, <2>1, <2>3, <3>2, <3>3 DEF NameMade
    <3> QED
      BY <3>4 DEF r
  <2> QED
    BY <2>2, <2>3
<1>4. CASE c.op # "mkdir" /\ d[c.n] = Absent
  <2>1. r = no("NO_FILE")
    BY <1>4 DEF Named
  <2> QED
    BY <2>1 DEF NameMade
<1>5. CASE c.op \in {"unlink", "rmdir"} /\ d[c.n] # Absent
  <2>1. Touched(c) = {c.n}
    BY <1>5 DEF Touched
  <2>2. r = ok([d EXCEPT ![c.n] = Absent])
    BY <1>5 DEF Named
  <2>3. r.res = "OK" /\ r.disk = [d EXCEPT ![c.n] = Absent]
    BY <2>2
  <2> HIDE DEF r
  <2>4. r.disk \in [Places -> Texts] /\ r.disk[c.n] = Absent /\ \A i \in Places \ {c.n} : r.disk[i] = d[i]
    BY <1>2, <2>3
  <2>5. NameMade(r, c, d)
    BY <1>5, <2>1, <2>3, <2>4 DEF NameMade
  <2> QED
    BY <2>5 DEF r
<1>6. CASE c.op = "rename" /\ d[c.n] # Absent
  <2>1. Touched(c) = {c.n, c.m}
    BY <1>6 DEF Touched
  <2>2. CASE d[c.m] # Absent
    <3>1. r = no("EXIST")
      BY <1>6, <2>2 DEF Named
    <3> QED
      BY <3>1 DEF NameMade
  <2>3. CASE d[c.m] = Absent
    <3> DEFINE e == [d EXCEPT ![c.m] = d[c.n], ![c.n] = Absent]
    <3>1. r = ok(e)
      BY <1>6, <2>3 DEF Named
    <3>2. r.res = "OK" /\ r.disk = e
      BY <3>1
    <3> HIDE DEF r
    <3>3. e \in [Places -> Texts] /\ e[c.n] = Absent /\ e[c.m] = d[c.n] /\ \A i \in Places \ {c.n, c.m} : e[i] = d[i]
      BY <1>2, <1>6, <2>3
    <3> HIDE DEF e
    <3>4. NameMade(r, c, d)
      BY <1>6, <2>1, <2>3, <3>2, <3>3 DEF NameMade
    <3> QED
      BY <3>4 DEF r
  <2> QED
    BY <2>2, <2>3
<1>7. CASE c.op \in {"stat", "access", "utime"} /\ d[c.n] # Absent
  <2>1. Touched(c) = {}
    BY <1>7 DEF Touched
  <2>2. r = ok(d)
    BY <1>7 DEF Named
  <2>3. r.res = "OK" /\ r.disk = d
    BY <2>2
  <2> HIDE DEF r
  <2>4. NameMade(r, c, d)
    BY <1>7, <2>1, <2>3 DEF NameMade
  <2> QED
    BY <2>4 DEF r
<1> QED
  BY <1>1, <1>3, <1>4, <1>5, <1>6, <1>7

(* Where two disks have the same names, a call does the same to both. *)
LEMMA NamedAgain ==
  ASSUME NEW c, c.op \in NameOps, c.n \in Places, c.m \in Places, NEW d \in [Places -> Texts], NEW e \in [Places -> Texts],
         \A i \in Touched(c) : e[i] = d[i], Named(c, d).res = "OK"
  PROVE  /\ \A i \in Places \ Touched(c) : Named(c, e).disk[i] = e[i]
         /\ \A i \in Touched(c) : Named(c, e).disk[i] = Named(c, d).disk[i]
         /\ Named(c, e).disk \in [Places -> Texts]
<1>1. c.op \in {"stat", "access", "utime", "unlink", "rmdir", "rename", "mkdir"}
  BY DEF NameOps
<1>2. NameMade(Named(c, d), c, d) /\ NameMade(Named(c, e), c, e)
  BY NamedIs
<1>3. CASE c.op = "mkdir"
  <2>1. Touched(c) = {c.n} /\ e[c.n] = d[c.n]
    BY <1>3 DEF Touched
  <2>2. d[c.n] = Absent
    BY <1>3 DEF Named
  <2>3. Named(c, d).disk = [d EXCEPT ![c.n] = Dir_] /\ Named(c, e).disk = [e EXCEPT ![c.n] = Dir_]
    BY <1>3, <2>1, <2>2 DEF Named
  <2> QED
    BY <1>2, <2>1, <2>3 DEF NameMade
<1>4. CASE c.op \in {"unlink", "rmdir"}
  <2>1. Touched(c) = {c.n} /\ e[c.n] = d[c.n]
    BY <1>4 DEF Touched
  <2>2. d[c.n] # Absent
    BY <1>4 DEF Named
  <2>3. Named(c, d).disk = [d EXCEPT ![c.n] = Absent] /\ Named(c, e).disk = [e EXCEPT ![c.n] = Absent]
    BY <1>4, <2>1, <2>2 DEF Named
  <2> QED
    BY <1>2, <2>1, <2>3 DEF NameMade
<1>5. CASE c.op = "rename"
  <2>1. Touched(c) = {c.n, c.m} /\ e[c.n] = d[c.n] /\ e[c.m] = d[c.m]
    BY <1>5 DEF Touched
  <2>2. d[c.n] # Absent /\ d[c.m] = Absent
    BY <1>5 DEF Named
  <2> DEFINE x == [d EXCEPT ![c.m] = d[c.n], ![c.n] = Absent]
             y == [e EXCEPT ![c.m] = e[c.n], ![c.n] = Absent]
  <2>3. Named(c, d).disk = x /\ Named(c, e).disk = y
    BY <1>5, <2>1, <2>2 DEF Named
  <2>4. /\ x[c.n] = Absent /\ y[c.n] = Absent /\ x[c.m] = d[c.n] /\ y[c.m] = e[c.n]
        /\ \A i \in Places \ {c.n, c.m} : y[i] = e[i]
    BY <2>1, <2>2
  <2> HIDE DEF x, y
  <2> QED
    BY <1>2, <2>1, <2>3, <2>4 DEF NameMade
<1>6. CASE c.op \in {"stat", "access", "utime"}
  <2>1. Touched(c) = {}
    BY <1>6 DEF Touched
  <2>2. Named(c, e).disk = e
    BY <1>6 DEF Named
  <2> QED
    BY <1>2, <2>1, <2>2 DEF NameMade
<1> QED
  BY <1>1, <1>3, <1>4, <1>5, <1>6

LEMMA AbsentUnheld ==
  ASSUME Shapes, Agreed, NEW n \in Places, store[n] = Absent
  PROVE  ~OpenAlready(n)
<1>1. \A h \in Holders : Fil(h).fs => store[Fil(h).n] \in Seq(Nat)
  BY DEF Agreed, Sound
<1>2. \A fd \in Fds : files[fd].fs => files[fd].n # n
  BY <1>1, HoldersAre, AbsentIs
<1>3. ASSUME NEW t \in Tasks PROVE \A f \in {frame[t].in, frame[t].out} : f.fs => f.n # n
  <2>1. frame[t].in.fs => frame[t].in.n # n
    <3>1. <<"in", t>> \in Holders /\ Fil(<<"in", t>>) = frame[t].in
      BY HoldersAre
    <3> QED
      BY <1>1, <3>1, AbsentIs
  <2>2. frame[t].out.fs => frame[t].out.n # n
    <3>1. <<"out", t>> \in Holders /\ Fil(<<"out", t>>) = frame[t].out
      BY HoldersAre
    <3> QED
      BY <1>1, <3>1, AbsentIs
  <2> QED
    BY <2>1, <2>2
<1> QED
  BY <1>2, <1>3 DEF OpenAlready

(* A step that changes files that no FIL is about, and their images as much. *)
LEMMA AgreedNames ==
  ASSUME Shapes, Agreed, NEW t \in Tasks, frame[t].at = "idle", Others(t), frame'[t] = Idle_, UNCHANGED <<files, o_append>>,
         NEW N \in SUBSET Places, \A n \in N : ~OpenAlready(n),
         posix' \in Images, posix'.pos = posix.pos,
         \A n \in Places \ N : store'[n] = store[n] /\ posix'.disk[n] = posix.disk[n],
         \A n \in N : posix'.disk[n] = store'[n] /\ store'[n] \in {Absent, Dir_} \union Seq(Nat)
  PROVE  Agreed'
<1>1. \A h \in Holders : Fil(h).fs => Fil(h).n \notin N
  BY Unheld
<1>2. StepOk(t, N, {})
  BY <1>1 DEF StepOk
<1>3. \A h \in HoldersOf(t, {}) : ~(Fil(h)').fs
  BY IdleIs, NoFILIs DEF HoldersOf, Fil
<1>4. OwnOk(t, N, {})
  BY <1>3, Idles, Returned DEF OwnOk
<1> QED
  BY <1>2, <1>4, AgreedStep

LEMMA NameCallRight == ASSUME VfsInv, NEW t \in Tasks, NameCall(t) PROVE VfsInv'
<1>1. /\ frame[t].at = "idle" /\ left[t] # <<>> /\ Call(t).op \in NameOps
      /\ UNCHANGED <<lock, files, o_append, mine, dirs, memory, contexts, mounted>>
  BY DEF NameCall, CallBegins, Streams_, Contexts
<1>2. PICK c : c = Call(t)
  OBVIOUS
<1>3. PICK r \in {Named(c, store)} \union (IF "disk" \in trouble THEN {} ELSE {[res |-> "DISK_ERR", disk |-> store]}) :
        /\ store' = r.disk /\ Trouble(r.res) /\ Mixes(r.disk # store /\ (Streaming \/ OpenAlready(c.n)))
        /\ IF c.op = "access" /\ r.res # "OK" THEN Return(t, "ENOENT") ELSE Fails(t, r.res)
        /\ Means(IF r.res = "OK" THEN [posix EXCEPT !.disk = Named(c, @).disk] ELSE posix)
  BY <1>2 DEF NameCall
<1>4. Shapes /\ LockKept /\ (Clean => Agreed) /\ store \in [Places -> Texts] /\ c.op \in NameOps /\ c.n \in Places /\ c.m \in Places
  BY <1>1, <1>2, CallIs, CallsHave DEF VfsInv, Shapes
<1>5. NameMade(Named(c, store), c, store)
  BY <1>4, NamedIs
<1>6. /\ r.disk \in [Places -> Texts] /\ (r.res # "OK" => r.disk = store) /\ (r.res = "OK" => r = Named(c, store))
  <2>1. r = Named(c, store) \/ (r.res = "DISK_ERR" /\ r.disk = store)
    BY <1>3
  <2> QED
    BY <1>4, <1>5, <2>1 DEF NameMade
<1>7. \E y : Return(t, y)
  BY <1>3 DEF Fails
<1>8. CallShapes' /\ Others(t) /\ frame'[t] = Idle_
  BY <1>1, <1>4, <1>7, ReturnStep
<1>9. /\ mixed' \in BOOLEAN /\ (mixed => mixed')
      /\ Clean' => ~(r.disk # store /\ (Streaming \/ OpenAlready(c.n)))
  <2> DEFINE b == r.disk # store /\ (Streaming \/ OpenAlready(c.n))
  <2>1. b \in BOOLEAN
    BY OpenAlreadyIs
  <2>2. Mixes(b)
    BY <1>3
  <2> HIDE DEF b
  <2>3. mixed' \in BOOLEAN /\ (mixed => mixed') /\ (Clean' => ~b)
    BY <1>4, <2>1, <2>2, MixesStep
  <2> QED
    BY <2>3 DEF b
<1>10. trouble' \subseteq {"disk", "memory", "link"} /\ trouble \subseteq trouble'
  BY <1>3, <1>4, TroubleStep
<1>11. Clean' => Clean
  BY <1>9, <1>10, CleanStep
<1>12. LockKept'
  BY <1>1, <1>4, <1>8, Idles, Returned, LockLeft
<1>13. ASSUME Clean' PROVE Agreed'
  <2>1. Agreed /\ posix \in Images /\ posix.disk \in [Places -> Texts]
    BY <1>4, <1>11, <1>13, ImageIs DEF Agreed
  <2>2. CASE r.res = "OK"
    <3>1. r = Named(c, store) /\ NameMade(r, c, store)
      BY <1>5, <1>6, <2>2
    <3>2. \A i \in Touched(c) : ~OpenAlready(i) /\ i \in Places
      <4>1. Touched(c) # {} => ~OpenAlready(c.n)
        BY <1>9, <1>13, <2>2, <3>1 DEF NameMade
      <4>2. c.op = "rename" => ~OpenAlready(c.m)
        BY <1>4, <2>1, <2>2, <3>1, AbsentUnheld DEF NameMade
      <4> QED
        BY <1>4, <4>1, <4>2 DEF Touched
    <3>3. \A i \in Touched(c) : posix.disk[i] = store[i]
      BY <1>4, <2>1, <3>2, Unheld
    <3> DEFINE e == Named(c, posix.disk).disk
    <3>4. /\ \A i \in Places \ Touched(c) : e[i] = posix.disk[i]
          /\ \A i \in Touched(c) : e[i] = r.disk[i]
          /\ e \in [Places -> Texts]
      BY <1>4, <2>1, <2>2, <3>1, <3>3, NamedAgain
    <3>5. posix' = [posix EXCEPT !.disk = e]
      BY <1>3, <2>2 DEF Means
    <3> HIDE DEF e
    <3>6. posix' \in Images /\ posix'.pos = posix.pos /\ posix'.disk = e
      BY <2>1, <3>4, <3>5 DEF Images
    <3>7. \A i \in Touched(c) : r.disk[i] \in {Absent, Dir_} \union Seq(Nat)
      <4>1. store[c.n] \in {Absent, Dir_} \union Seq(Nat)
        BY <1>4, <2>1 DEF Agreed
      <4> QED
        BY <2>2, <3>1, <4>1 DEF NameMade
    <3>8. \A i \in Places \ Touched(c) : store'[i] = store[i] /\ posix'.disk[i] = posix.disk[i]
      BY <1>3, <2>2, <3>1, <3>4, <3>6 DEF NameMade
    <3>9. \A i \in Touched(c) : posix'.disk[i] = store'[i] /\ store'[i] \in {Absent, Dir_} \union Seq(Nat)
      BY <1>3, <3>4, <3>6, <3>7
    <3>10. Touched(c) \in SUBSET Places
      BY <3>2
    <3> QED
      BY <1>1, <1>4, <1>8, <2>1, <3>2, <3>6, <3>8, <3>9, <3>10, AgreedNames
  <2>3. CASE r.res # "OK"
    <3>1. posix' = posix /\ store' = store
      BY <1>3, <1>6, <2>3 DEF Means
    <3> QED
      BY <1>1, <1>4, <1>8, <2>1, <3>1, Idles, Returned, AgreedQuiet
  <2> QED
    BY <2>2, <2>3
<1>14. Holds(t)' = Holds(t)
  BY <1>1, <1>8, Idles, Returned
<1>15. store' \in [Places -> Texts] /\ (Clean' => ~Streaming \/ \A i \in Places : (store'[i] = Absent <=> store[i] = Absent))
  BY <1>3, <1>6, <1>9
<1> QED
  BY <1>1, <1>4, <1>8, <1>9, <1>10, <1>12, <1>13, <1>14, <1>15, FaceStep DEF Shapes


-----------------------------------------------------------------------------
(* link() and truncate(): calls with FILs of their own. *)

(* A step in which the task takes and frees what it holds in its call. *)
LEMMA OwnStep ==
  ASSUME VfsInv, NEW t \in Tasks, CallShapes', Others(t), LockKept', lock' \in Tasks \union {"free"},
         UNCHANGED <<files, o_append, mine, dirs, contexts, mounted>>, store' \in [Places -> Texts],
         mixed' \in BOOLEAN, mixed => mixed', trouble \subseteq trouble', trouble' \subseteq {"disk", "memory", "link"},
         "link" \notin trouble' => memory' = (memory \ Holds(t)) \union Holds(t)',
         Clean' => ~Streaming \/ \A n \in Places : (store'[n] = Absent <=> store[n] = Absent),
         Clean' => Agreed'
  PROVE  VfsInv'
<1>1. Shapes /\ MemoryKept /\ StreamPlaced
  BY DEF VfsInv
<1>2. Shapes'
  BY <1>1, ShapesStep DEF Shapes
<1>3. Clean' => Clean
  BY CleanStep
<1>4. StreamPlaced'
  BY <1>1, <1>3, StreamLeft
<1> DEFINE D == IF dirs[t].open THEN {<<"dir", t>>} ELSE {}
<1>5. Its(t) = Holds(t) \union D /\ Its(t)' = Holds(t)' \union D
  BY DEF Its
<1>6. \A x \in D : x \notin Holds(t)
  BY DEF Holds, Own, Linking
<1> HIDE DEF D
<1>7. ASSUME "link" \notin trouble' PROVE memory' = (memory \ Its(t)) \union Its(t)'
  <2>1. Its(t) \subseteq memory
    BY <1>1, <1>7, ItsHeld
  <2>2. memory' = (memory \ Holds(t)) \union Holds(t)'
    BY <1>7
  <2> QED
    BY <1>5, <1>6, <2>1, <2>2
<1>8. MemoryKept'
  BY <1>1, <1>7, MemoryStep DEF Contexts
<1> QED
  BY <1>2, <1>4, <1>8, VfsInvStep

(* What is open in a call of the task's own: nobody else is about it. *)
OwnFil(t, f) == f = frame[t].in \/ f = frame[t].out

LEMMA OwnAlone ==
  ASSUME Shapes, Agreed, NEW t \in Tasks, NEW f, OwnFil(t, f), f.fs, NEW n, n = f.n
  PROVE  /\ \A u \in Tasks \ {t} : ~Changing(u, n)
         /\ ~Changing(t, n) => posix.disk[n] = store[n]
         /\ \A h \in Holders \ HoldersOf(t, {}) : Fil(h).fs => Fil(h).n # n
         /\ n \in Places /\ store[n] \in Seq(Nat) /\ Len(store[n]) \in Nat /\ f.pos \in Nat /\ f.pos <= Len(store[n]) /\ ~f.err
         /\ IsFil(f)
<1>1. PICK k \in {<<"in", t>>, <<"out", t>>} : k \in Holders /\ Fil(k) = f
  BY HoldersAre DEF OwnFil
<1>2. \A h \in Holders : Fil(h).fs /\ Fil(h).n = n => h = k
  <2>1. \A g, h \in Holders : Fil(g).fs /\ Fil(h).fs /\ Fil(g).n = Fil(h).n => g = h
    BY DEF Agreed
  <2> QED
    BY <1>1, <2>1
<1>3. k \in HoldersOf(t, {})
  BY DEF HoldersOf
<1>4. ASSUME NEW u \in Tasks \ {t} PROVE ~Depends(u, n)
  <2>1. ~(Using(u) /\ n = On(u).n)
    <3> SUFFICES ASSUME Using(u), n = On(u).n PROVE FALSE
      OBVIOUS
    <3> DEFINE e == frame[u].fd
    <3>1. e \in Fds /\ files[e].fs /\ files[e].n = n
      BY FrameHas DEF Agreed, TaskWell, On, Shapes, Using
    <3>2. <<"fd", e>> \in Holders /\ Fil(<<"fd", e>>) = files[e] /\ <<"fd", e>> # k
      BY <1>1, <3>1, HoldersAre
    <3> QED
      BY <1>2, <3>1, <3>2
  <2>2. <<"in", u>> \in Holders /\ Fil(<<"in", u>>) = frame[u].in /\ <<"in", u>> # k
    <3>1. <<"in", u>> # <<"in", t>> /\ <<"in", u>> # <<"out", t>>
      OBVIOUS
    <3> QED
      BY <3>1, HoldersAre
  <2>3. <<"out", u>> \in Holders /\ Fil(<<"out", u>>) = frame[u].out /\ <<"out", u>> # k
    <3>1. <<"out", u>> # <<"in", t>> /\ <<"out", u>> # <<"out", t>>
      OBVIOUS
    <3> QED
      BY <3>1, HoldersAre
  <2> QED
    BY <1>2, <2>1, <2>2, <2>3 DEF Depends
<1>5. \A u \in Tasks \ {t} : ~Changing(u, n)
  BY <1>4, ChangingDepends DEF Agreed
<1>6. IsFil(f) /\ n \in Places
  BY <1>1, HolderFil
<1>7. Sound(f)
  BY <1>1 DEF Agreed
<1>8. store[n] \in Seq(Nat) /\ f.pos \in Nat /\ f.pos <= Len(store[n]) /\ ~f.err
  BY <1>6, <1>7 DEF Sound, IsFil, FILs
<1>9. Len(store[n]) \in Nat
  BY <1>8, LenProperties
<1>10. ~Changing(t, n) => posix.disk[n] = store[n]
  BY <1>5, <1>6 DEF Agreed
<1> QED
  BY <1>2, <1>3, <1>5, <1>6, <1>8, <1>9, <1>10

(* What such a step must keep for what is in the files to be what POSIX asks for. *)
FilOk(t, g, was) ==
  g.fs => /\ ~g.err /\ store'[g.n] \in Seq(Nat) /\ g.pos <= Len(store'[g.n])
          /\ (was.fs /\ g.n = was.n) \/ \A h \in Holders : Fil(h).fs => Fil(h).n # g.n

LEMMA AgreedOwn ==
  ASSUME Shapes, Agreed, NEW t \in Tasks, Others(t), UNCHANGED <<files, o_append>>, ~Using(t), ~Using(t)',
         posix' \in Images, posix'.pos = posix.pos, NEW N \in SUBSET Places,
         \A n \in Places \ N : store'[n] = store[n] /\ posix'.disk[n] = posix.disk[n],
         \A n \in N : \A h \in Holders \ HoldersOf(t, {}) : Fil(h).fs => Fil(h).n # n,
         \A n \in N : store'[n] \in {Absent, Dir_} \union Seq(Nat),
         TaskWell(t)', NEW in, NEW out, in = frame'[t].in, out = frame'[t].out,
         FilOk(t, in, frame[t].in), FilOk(t, out, frame[t].out), in.fs /\ out.fs => in.n # out.n,
         \A n \in Places : n \in N \/ Changing(t, n) => Changing(t, n)' \/ posix'.disk[n] = store'[n]
  PROVE  Agreed'
<1>1. StepOk(t, N, {})
  BY DEF StepOk
<1>2. ASSUME NEW h \in HoldersOf(t, {})
      PROVE  \/ h = <<"in", t>> /\ Fil(h)' = in /\ Fil(h) = frame[t].in
             \/ h = <<"out", t>> /\ Fil(h)' = out /\ Fil(h) = frame[t].out
  BY DEF HoldersOf, Fil
<1>3. ASSUME NEW h \in HoldersOf(t, {}), (Fil(h)').fs
      PROVE  /\ Sound(Fil(h))'
             /\ (Fil(h).fs /\ (Fil(h)').n = Fil(h).n) \/ \A g \in Holders : Fil(g).fs => Fil(g).n # (Fil(h)').n
  <2>1. CASE h = <<"in", t>> /\ Fil(h)' = in /\ Fil(h) = frame[t].in
    BY <1>3, <2>1, ZenonT(30) DEF FilOk, Sound
  <2>2. CASE h = <<"out", t>> /\ Fil(h)' = out /\ Fil(h) = frame[t].out
    BY <1>3, <2>2 DEF FilOk, Sound
  <2> QED
    BY <1>2, <2>1, <2>2
<1>4. \A g, h \in HoldersOf(t, {}) : (Fil(g)').fs /\ (Fil(h)').fs /\ (Fil(g)').n = (Fil(h)').n => g = h
  BY <1>2
<1>5. \A fd : ~Moving(t, fd) /\ ~Moving(t, fd)'
  BY DEF Moving
<1>6. OwnOk(t, N, {})
  BY <1>3, <1>4, <1>5 DEF OwnOk
<1> QED
  BY <1>1, <1>6, AgreedStep

LEMMA LinkIs ==
  ASSUME VfsInv, NEW t \in Tasks, frame[t].at # "idle", Call(t).op = "link", NEW c, c = Call(t)
  PROVE  /\ Shapes /\ LockKept /\ (Clean => Agreed) /\ left[t] # <<>> /\ c \in PosixCalls /\ c.n \in Places /\ c.m \in Places
         /\ frame[t] \in Frames /\ store \in [Places -> Texts] /\ ~Using(t) /\ Holds(t) = Own(t, Linking)
         /\ Fits(frame[t].at, "link")
         /\ Clean => LinksWell(t)
<1>1. Shapes /\ LockKept /\ (Clean => Agreed)
  BY DEF VfsInv
<1>2. left[t] # <<>> /\ Fits(frame[t].at, Call(t).op) /\ c \in PosixCalls
  BY <1>1, InACall, CallIs
<1>3. c.n \in Places /\ c.m \in Places
  BY <1>2, CallsHave
<1>4. frame[t] \in Frames /\ store \in [Places -> Texts]
  BY <1>1 DEF Shapes
<1>5. ~Using(t) /\ Holds(t) = Own(t, Linking)
  BY DEF Using, OnFd, Holds
<1>6. Clean => LinksWell(t)
  BY <1>1 DEF Agreed, TaskWell
<1> QED
  BY <1>1, <1>2, <1>3, <1>4, <1>5, <1>6

LEMMA LinkFits == \A at : Fits(at, "link") <=> at \in {"open1", "open2", "read", "write", "close"}
BY DEF Fits, Positional

LEMMA CutFits == \A at : Fits(at, "truncate") <=> at \in {"seek", "cut", "close"}
BY DEF Fits, Positional

LEMMA CutOffIs ==
  ASSUME VfsInv, NEW t \in Tasks, frame[t].at # "idle", Call(t).op = "truncate", NEW c, c = Call(t)
  PROVE  /\ Shapes /\ LockKept /\ (Clean => Agreed) /\ left[t] # <<>> /\ c \in PosixCalls /\ c.n \in Places /\ c.k \in Nat
         /\ frame[t] \in Frames /\ store \in [Places -> Texts] /\ ~Using(t) /\ Holds(t) = {<<"file", t>>}
         /\ Fits(frame[t].at, "truncate")
         /\ Clean => CutsWell(t)
<1>1. Shapes /\ LockKept /\ (Clean => Agreed)
  BY DEF VfsInv
<1>2. left[t] # <<>> /\ Fits(frame[t].at, Call(t).op) /\ c \in PosixCalls
  BY <1>1, InACall, CallIs
<1>3. c.n \in Places /\ c.k \in Nat
  BY <1>2, CallsHave
<1>4. frame[t] \in Frames /\ store \in [Places -> Texts]
  BY <1>1 DEF Shapes
<1>5. ~Using(t) /\ Holds(t) = {<<"file", t>>}
  BY DEF Using, OnFd, Holds
<1>6. Clean => CutsWell(t)
  BY <1>1 DEF Agreed, TaskWell
<1> QED
  BY <1>1, <1>2, <1>3, <1>4, <1>5, <1>6


(* The frames of these calls. *)
FrameIn(g, f, at, in) == g = [f EXCEPT !.at = at, !.in = in]
FrameOut(g, f, at, out, size) == g = [f EXCEPT !.at = at, !.out = out, !.size = size]
FrameGot(g, f, at, in, got) == g = [f EXCEPT !.at = at, !.in = in, !.got = got]
FramePut(g, f, at, out, size, got) == g = [f EXCEPT !.at = at, !.out = out, !.size = size, !.got = got]

LEMMA FrameInIs ==
  ASSUME NEW f \in Frames, NEW at \in Ats, NEW in, IsFil(in), ~WritingAt(at), NEW g, FrameIn(g, f, at, in)
  PROVE  /\ g \in Frames /\ g.at = at /\ g.fd = f.fd /\ g.keep = f.keep /\ g.res = f.res /\ g.got = f.got
         /\ g.size = f.size /\ g.in = in /\ g.out = f.out
<1>1. f \in FrameRecords /\ IsFil(f.in) /\ IsFil(f.out) /\ in \in FILs
  BY FramesAre DEF IsFil
<1>2. g \in FrameRecords
  BY <1>1 DEF FrameRecords, FrameIn
<1>3. /\ g.at = at /\ g.fd = f.fd /\ g.keep = f.keep /\ g.res = f.res /\ g.got = f.got
      /\ g.size = f.size /\ g.in = in /\ g.out = f.out
  BY <1>1 DEF FrameRecords, FrameIn
<1> QED
  BY <1>1, <1>2, <1>3, FramesAre DEF Copied

LEMMA FrameOutIs ==
  ASSUME NEW f \in Frames, NEW at \in Ats, NEW out, IsFil(out), NEW size \in Nat, ~WritingAt(at), NEW g, FrameOut(g, f, at, out, size)
  PROVE  /\ g \in Frames /\ g.at = at /\ g.fd = f.fd /\ g.keep = f.keep /\ g.res = f.res /\ g.got = f.got
         /\ g.size = size /\ g.in = f.in /\ g.out = out
<1>1. f \in FrameRecords /\ IsFil(f.in) /\ IsFil(f.out) /\ out \in FILs
  BY FramesAre DEF IsFil
<1>2. g \in FrameRecords
  BY <1>1 DEF FrameRecords, FrameOut
<1>3. /\ g.at = at /\ g.fd = f.fd /\ g.keep = f.keep /\ g.res = f.res /\ g.got = f.got
      /\ g.size = size /\ g.in = f.in /\ g.out = out
  BY <1>1 DEF FrameRecords, FrameOut
<1> QED
  BY <1>1, <1>2, <1>3, FramesAre DEF Copied

LEMMA FrameGotIs ==
  ASSUME NEW f \in Frames, NEW at \in Ats, NEW in, IsFil(in), NEW got \in Texts, Len(got) <= f.size,
         NEW g, FrameGot(g, f, at, in, got)
  PROVE  /\ g \in Frames /\ g.at = at /\ g.fd = f.fd /\ g.keep = f.keep /\ g.res = f.res /\ g.got = got
         /\ g.size = f.size /\ g.in = in /\ g.out = f.out
<1>1. f \in FrameRecords /\ IsFil(f.in) /\ IsFil(f.out) /\ in \in FILs
  BY FramesAre DEF IsFil
<1>2. g \in FrameRecords
  BY <1>1 DEF FrameRecords, FrameGot
<1>3. /\ g.at = at /\ g.fd = f.fd /\ g.keep = f.keep /\ g.res = f.res /\ g.got = got
      /\ g.size = f.size /\ g.in = in /\ g.out = f.out
  BY <1>1 DEF FrameRecords, FrameGot
<1> QED
  BY <1>1, <1>2, <1>3, FramesAre DEF Copied

LEMMA FramePutIs ==
  ASSUME NEW f \in Frames, NEW at \in Ats, NEW out, IsFil(out), NEW size \in Nat, NEW got \in Texts,
         ~WritingAt(at), NEW g, FramePut(g, f, at, out, size, got)
  PROVE  /\ g \in Frames /\ g.at = at /\ g.fd = f.fd /\ g.keep = f.keep /\ g.res = f.res /\ g.got = got
         /\ g.size = size /\ g.in = f.in /\ g.out = out
<1>1. f \in FrameRecords /\ IsFil(f.in) /\ IsFil(f.out) /\ out \in FILs
  BY FramesAre DEF IsFil
<1>2. g \in FrameRecords
  BY <1>1 DEF FrameRecords, FramePut
<1>3. /\ g.at = at /\ g.fd = f.fd /\ g.keep = f.keep /\ g.res = f.res /\ g.got = got
      /\ g.size = size /\ g.in = f.in /\ g.out = out
  BY <1>1 DEF FrameRecords, FramePut
<1> QED
  BY <1>1, <1>2, <1>3, FramesAre DEF Copied

LEMMA LinkStartRight == ASSUME VfsInv, NEW t \in Tasks, LinkStart(t) PROVE VfsInv'
<1>1. /\ frame[t].at = "idle" /\ left[t] # <<>> /\ Call(t).op = "link"
      /\ UNCHANGED <<files, o_append, mine, dirs, store, contexts, mounted, posix, mixed>>
  BY DEF LinkStart, CallBegins, Streams_, Contexts
<1>2. PICK s \in Short(Linking) :
        IF s # {} THEN Return(t, "ENOMEM") /\ OutOfMemory /\ UNCHANGED <<lock, memory>>
        ELSE /\ TakeLock(t) /\ Goto_(t, [Idle_ EXCEPT !.at = "open1"])
             /\ memory' = memory \union Own(t, Linking) /\ UNCHANGED <<left, vret, trouble>>
  BY DEF LinkStart
<1>3. CASE s # {}
  <2>1. Return(t, "ENOMEM") /\ UNCHANGED <<lock, memory>>
    BY <1>2, <1>3
  <2>2. trouble \subseteq trouble' /\ trouble' \subseteq trouble \union {"disk", "memory"}
    BY <1>2, <1>3 DEF OutOfMemory
  <2> QED
    BY <1>1, <2>1, <2>2, CallNothing
<1>4. CASE s = {}
  <2> DEFINE g == [Idle_ EXCEPT !.at = "open1"]
             a == "open1"
  <2>1. /\ TakeLock(t) /\ Goto_(t, g) /\ memory' = memory \union Own(t, Linking) /\ UNCHANGED <<left, trouble>>
    BY <1>2, <1>4
  <2>2. FrameAt(g, Idle_, a) /\ a \in Ats /\ a = "open1" /\ ~WritingAt(a)
    BY DEF FrameAt, Ats, WritingAt
  <2> HIDE DEF g, a
  <2>3. g \in Frames /\ g.at = "open1" /\ g.res = "OK" /\ g.in = NoFIL /\ g.out = NoFIL
    BY <2>2, IdleIs, FrameAtIs
  <2>4. Shapes /\ LockKept /\ (Clean => Agreed)
    BY DEF VfsInv
  <2>5. Fits(g.at, Call(t).op)
    BY <1>1, <2>3 DEF Fits
  <2>6. CallShapes' /\ Others(t) /\ frame'[t] = g /\ Call(t)' = Call(t)
    BY <1>1, <2>1, <2>3, <2>4, <2>5, GotoStep
  <2>7. Locked(t)' /\ ~Using(t)' /\ ~Using(t) /\ Holds(t) = {} /\ Holds(t)' = Own(t, Linking)
        /\ (\A n : ~Changing(t, n)) /\ (\A fd : ~Moving(t, fd))
    <3>1. ~Using(t) /\ Holds(t) = {} /\ (\A n : ~Changing(t, n)) /\ (\A fd : ~Moving(t, fd))
      BY <1>1, Idles
    <3>2. Locked(t)' /\ ~Using(t)'
      BY <1>1, <2>3, <2>6 DEF Locked, Using, OnFd
    <3>3. Holds(t)' = Own(t, Linking)
      BY <1>1, <2>3, <2>6 DEF Holds
    <3> QED
      BY <3>1, <3>2, <3>3
  <2>8. LockKept' /\ lock' \in Tasks
    BY <1>1, <2>1, <2>3, <2>4, <2>6, <2>7, LockTaken DEF TakeLock
  <2>9. TaskWell(t)'
    <3>1. LinksWell(t)'
      BY <2>3, <2>6 DEF LinksWell
    <3> QED
      BY <1>1, <2>6, <2>7, <3>1 DEF TaskWell
  <2>10. ASSUME Clean' PROVE Agreed'
    <3>1. Agreed
      BY <1>1, <2>1, <2>4, <2>10 DEF Clean
    <3> QED
      BY <1>1, <2>3, <2>4, <2>6, <2>7, <2>9, <3>1, NoFILIs, AgreedQuiet
  <2>11. store \in [Places -> Texts] /\ mixed \in BOOLEAN /\ trouble \subseteq {"disk", "memory", "link"}
    BY <2>4 DEF Shapes
  <2> QED
    BY <1>1, <2>1, <2>6, <2>7, <2>8, <2>10, <2>11, OwnStep
<1> QED
  BY <1>3, <1>4

(* A call that returns, with FILs of the task's own forgotten. *)
LEMMA OwnReturns ==
  ASSUME VfsInv, NEW t \in Tasks, frame[t].at # "idle", left[t] # <<>>, ~Using(t), NEW x, Return(t, x),
         (UNCHANGED lock /\ ~Locked(t)) \/ GiveLock(t),
         UNCHANGED <<files, o_append, mine, dirs, store, contexts, mounted>>, UNCHANGED mixed \/ \E b \in BOOLEAN : Mixes(b),
         trouble \subseteq trouble', trouble' \subseteq {"disk", "memory", "link"},
         "link" \notin trouble' => memory' = memory \ Holds(t),
         Clean' /\ Agreed => /\ posix' \in Images /\ posix'.pos = posix.pos
                             /\ \A n \in Places : ~Changing(t, n) => posix'.disk[n] = posix.disk[n]
                             /\ \A n \in Places : Changing(t, n) =>
                                  posix'.disk[n] = store[n] /\ \A h \in Holders \ HoldersOf(t, {}) : Fil(h).fs => Fil(h).n # n
  PROVE  VfsInv'
<1>1. Shapes /\ LockKept /\ (Clean => Agreed)
  BY DEF VfsInv
<1>2. CallShapes' /\ Others(t) /\ frame'[t] = Idle_
  BY <1>1, ReturnStep
<1>3. /\ ~Using(t)' /\ Holds(t)' = {} /\ ~Locked(t)' /\ (\A n : ~Changing(t, n)') /\ TaskWell(t)'
      /\ frame'[t].at = "idle" /\ ~frame'[t].in.fs /\ ~frame'[t].out.fs
  BY <1>2, Returned
<1>4. LockKept'
  <2>1. CASE UNCHANGED lock /\ ~Locked(t)
    BY <1>1, <1>2, <1>3, <2>1, LockLeft
  <2>2. CASE GiveLock(t)
    BY <1>1, <1>2, <1>3, <2>2, LockGiven
  <2> QED
    BY <2>1, <2>2
<1>5. lock' \in Tasks \union {"free"}
  BY <1>1 DEF Shapes, GiveLock
<1>6. mixed' \in BOOLEAN /\ (mixed => mixed')
  <2>1. CASE UNCHANGED mixed
    BY <1>1, <2>1 DEF Shapes
  <2>2. CASE \E b \in BOOLEAN : Mixes(b)
    BY <1>1, <2>2, MixesStep
  <2> QED
    BY <2>1, <2>2
<1>7. Clean' => Clean
  BY <1>6, CleanStep
<1>8. ASSUME Clean' PROVE Agreed'
  <2>1. Agreed
    BY <1>1, <1>7, <1>8
  <2> DEFINE N == {n \in Places : Changing(t, n)}
  <2>2. \A n \in Places : store'[n] = store[n] /\ store[n] \in {Absent, Dir_} \union Seq(Nat)
    BY <2>1 DEF Agreed
  <2>3. PICK in, out : in = frame'[t].in /\ out = frame'[t].out
    OBVIOUS
  <2>4. FilOk(t, in, frame[t].in) /\ FilOk(t, out, frame[t].out) /\ ~in.fs
    BY <1>3, <2>3 DEF FilOk
  <2>5. N \in SUBSET Places /\ \A n \in Places : n \in N <=> Changing(t, n)
    OBVIOUS
  <2>6. /\ posix' \in Images /\ posix'.pos = posix.pos
        /\ \A n \in Places : ~Changing(t, n) => posix'.disk[n] = posix.disk[n]
        /\ \A n \in Places : Changing(t, n) =>
             posix'.disk[n] = store[n] /\ \A h \in Holders \ HoldersOf(t, {}) : Fil(h).fs => Fil(h).n # n
    BY <1>8, <2>1
  <2> HIDE DEF N
  <2>7. \A n \in Places \ N : store'[n] = store[n] /\ posix'.disk[n] = posix.disk[n]
    BY <2>2, <2>5, <2>6
  <2>8. \A n \in N : \A h \in Holders \ HoldersOf(t, {}) : Fil(h).fs => Fil(h).n # n
    BY <2>5, <2>6
  <2>9. \A n \in N : store'[n] \in {Absent, Dir_} \union Seq(Nat)
    BY <2>2, <2>5
  <2>10. \A n \in Places : n \in N \/ Changing(t, n) => Changing(t, n)' \/ posix'.disk[n] = store'[n]
    BY <2>2, <2>5, <2>6
  <2> QED
    BY <1>1, <1>2, <1>3, <2>1, <2>3, <2>4, <2>5, <2>6, <2>7, <2>8, <2>9, <2>10, AgreedOwn, ZenonT(30)
<1>9. store \in [Places -> Texts]
  BY <1>1 DEF Shapes
<1>10. "link" \notin trouble' => memory' = (memory \ Holds(t)) \union Holds(t)'
  BY <1>3
<1> QED
  BY <1>2, <1>4, <1>5, <1>6, <1>8, <1>9, <1>10, OwnStep


(* A call that goes on. *)
LEMMA OwnGoesOn ==
  ASSUME VfsInv, NEW t \in Tasks, frame[t].at # "idle", left[t] # <<>>, Call(t).op \in {"link", "truncate"},
         NEW g \in Frames, Goto_(t, g), UNCHANGED left, g.at \notin {"idle", "f_open"}, Fits(g.at, Call(t).op),
         (UNCHANGED lock /\ (Locked(t)' <=> Locked(t))) \/ (GiveLock(t) /\ ~Locked(t)'),
         UNCHANGED <<files, o_append, mine, dirs, memory, contexts, mounted, posix>>, store' \in [Places -> Texts],
         UNCHANGED mixed \/ \E b \in BOOLEAN : Mixes(b),
         trouble \subseteq trouble', trouble' \subseteq {"disk", "memory", "link"},
         Clean' => ~Streaming \/ \A n \in Places : (store'[n] = Absent <=> store[n] = Absent),
         NEW N \in SUBSET Places,
         Clean' /\ Agreed =>
           /\ Call(t).op = "link" => LinksWell(t)'
           /\ Call(t).op = "truncate" => CutsWell(t)'
           /\ \A n \in Places \ N : store'[n] = store[n]
           /\ \A n \in N : /\ \A h \in Holders \ HoldersOf(t, {}) : Fil(h).fs => Fil(h).n # n
                           /\ store'[n] \in {Absent, Dir_} \union Seq(Nat)
           /\ FilOk(t, g.in, frame[t].in) /\ FilOk(t, g.out, frame[t].out) /\ (g.in.fs /\ g.out.fs => g.in.n # g.out.n)
           /\ \A n \in Places : n \in N \/ Changing(t, n) => Changing(t, n)' \/ posix.disk[n] = store'[n]
  PROVE  VfsInv'
<1>1. Shapes /\ LockKept /\ (Clean => Agreed) /\ MemoryKept
  BY DEF VfsInv
<1>2. CallShapes' /\ Others(t) /\ frame'[t] = g /\ Call(t)' = Call(t)
  BY <1>1, GotoStep
<1>3. ~Using(t) /\ ~Using(t)' /\ Holds(t)' = Holds(t)
  <2>1. ~Using(t) /\ ~Using(t)'
    BY <1>2 DEF Using, OnFd
  <2>2. Holds(t)' = Holds(t)
    BY <1>2 DEF Holds, Own
  <2> QED
    BY <2>1, <2>2
<1>4. LockKept'
  <2>1. CASE UNCHANGED lock /\ (Locked(t)' <=> Locked(t))
    BY <1>1, <1>2, <2>1, LockLeft
  <2>2. CASE GiveLock(t) /\ ~Locked(t)'
    BY <1>1, <1>2, <2>2, LockGiven
  <2> QED
    BY <2>1, <2>2
<1>5. lock' \in Tasks \union {"free"}
  BY <1>1 DEF Shapes, GiveLock
<1>6. mixed' \in BOOLEAN /\ (mixed => mixed')
  <2>1. CASE UNCHANGED mixed
    BY <1>1, <2>1 DEF Shapes
  <2>2. CASE \E b \in BOOLEAN : Mixes(b)
    BY <1>1, <2>2, MixesStep
  <2> QED
    BY <2>1, <2>2
<1>7. Clean' => Clean
  BY <1>6, CleanStep
<1>8. ASSUME Clean' PROVE Agreed'
  <2>1. Agreed
    BY <1>1, <1>7, <1>8
  <2>2. PICK in, out : in = g.in /\ out = g.out
    OBVIOUS
  <2>3. /\ Call(t).op = "link" => LinksWell(t)'
        /\ Call(t).op = "truncate" => CutsWell(t)'
    BY <1>8, <2>1
  <2>4. TaskWell(t)'
    BY <1>2, <1>3, <2>3 DEF TaskWell
  <2>5. in = frame'[t].in /\ out = frame'[t].out
    BY <1>2, <2>2
  <2>6. /\ \A n \in Places \ N : store'[n] = store[n]
        /\ \A n \in N : /\ \A h \in Holders \ HoldersOf(t, {}) : Fil(h).fs => Fil(h).n # n
                        /\ store'[n] \in {Absent, Dir_} \union Seq(Nat)
        /\ FilOk(t, in, frame[t].in) /\ FilOk(t, out, frame[t].out) /\ (in.fs /\ out.fs => in.n # out.n)
        /\ \A n \in Places : n \in N \/ Changing(t, n) => Changing(t, n)' \/ posix.disk[n] = store'[n]
    BY <1>8, <2>1, <2>2
  <2>7. posix' = posix /\ posix \in Images
    BY <2>1 DEF Agreed
  <2>8. \A n \in Places \ N : store'[n] = store[n] /\ posix'.disk[n] = posix.disk[n]
    BY <2>6, <2>7
  <2>9. posix' \in Images /\ posix'.pos = posix.pos
    BY <2>7
  <2>10. \A n \in Places : n \in N \/ Changing(t, n) => Changing(t, n)' \/ posix'.disk[n] = store'[n]
    BY <2>6, <2>7
  <2> QED
    BY <1>1, <1>2, <1>3, <2>1, <2>4, <2>5, <2>6, <2>8, <2>9, <2>10, AgreedOwn, ZenonT(30)
<1>9. "link" \notin trouble' => memory' = (memory \ Holds(t)) \union Holds(t)'
  <2>1. "link" \notin trouble' => Holds(t) \subseteq memory
    BY <1>1, ItsHeld DEF Its
  <2> QED
    BY <1>3, <2>1
<1> QED
  BY <1>2, <1>4, <1>5, <1>6, <1>8, <1>9, OwnStep

LEMMA MixesSome == ASSUME NEW b, b \in BOOLEAN, Mixes(b) PROVE \E x \in BOOLEAN : Mixes(x)
OBVIOUS

LEMMA LinkOpensFirstRight == ASSUME VfsInv, NEW t \in Tasks, LinkOpensFirst(t) PROVE VfsInv'
<1>1. /\ frame[t].at = "open1" /\ Call(t).op = "link" /\ frame[t].at # "idle"
      /\ UNCHANGED <<files, o_append, mine, dirs, store, contexts, mounted, posix>>
  BY DEF LinkOpensFirst, At, Streams_, Contexts
<1>2. PICK c, mode : c = Call(t) /\ mode = {"READ", "OPEN_EXISTING"}
  OBVIOUS
<1>3. PICK r \in Ends(OpenedFor(c.n, mode), NoFIL) :
        IF r.res = "OK"
         THEN /\ Goto_(t, [frame[t] EXCEPT !.at = "open2", !.in = r.fil]) /\ Mixes(OpenAlready(c.n))
              /\ UNCHANGED <<left, vret, lock, memory, trouble>>
         ELSE GiveLock(t) /\ Fails(t, r.res) /\ memory' = memory \ Own(t, {"buf"}) /\ Leaks(r.res) /\ UNCHANGED mixed
  BY <1>2, Zenon DEF LinkOpensFirst
<1>4. /\ Shapes /\ LockKept /\ (Clean => Agreed) /\ left[t] # <<>> /\ c \in PosixCalls /\ c.n \in Places /\ c.m \in Places
      /\ frame[t] \in Frames /\ store \in [Places -> Texts] /\ ~Using(t) /\ Holds(t) = Own(t, Linking)
      /\ Clean => LinksWell(t)
  BY <1>1, <1>2, LinkIs
<1>5. mode \in SUBSET Modes /\ "READ" \in mode /\ mode \cap {"CREATE_NEW", "CREATE_ALWAYS", "OPEN_ALWAYS"} = {}
  BY <1>2 DEF Modes
<1>6. IsOutcome(r) /\ OpenGives(r, c.n, mode)
  BY <1>4, <1>5, OpenEnds
<1>7. trouble \subseteq {"disk", "memory", "link"}
  BY <1>4 DEF Shapes
<1>8. CASE r.res # "OK"
  <2>1. GiveLock(t) /\ Return(t, fresult_to_errno[r.res]) /\ UNCHANGED mixed
    BY <1>3, <1>8 DEF Fails
  <2>2. trouble \subseteq trouble' /\ trouble' \subseteq {"disk", "memory", "link"} /\ "link" \in trouble'
    BY <1>3, <1>7, <1>8 DEF Leaks
  <2>3. (\A n : ~Changing(t, n)) /\ ~Using(t)
    BY <1>1, <1>4 DEF Changing, Using
  <2> QED
    BY <1>1, <1>4, <2>1, <2>2, <2>3, OwnReturns DEF Agreed
<1>9. CASE r.res = "OK"
  <2> DEFINE g == [frame[t] EXCEPT !.at = "open2", !.in = r.fil]
             a == "open2"
  <2>1. Goto_(t, g) /\ Mixes(OpenAlready(c.n)) /\ UNCHANGED <<left, lock, memory, trouble>>
    BY <1>3, <1>9
  <2>2. FrameIn(g, frame[t], a, r.fil) /\ a \in Ats /\ a = "open2" /\ ~WritingAt(a)
    BY DEF FrameIn, Ats, WritingAt
  <2> HIDE DEF g, a
  <2>3. IsFil(r.fil) /\ r.fil.fs /\ r.fil.n = c.n /\ r.fil.pos = 0 /\ ~r.fil.err /\ r.fil.mode = mode
        /\ store[c.n] # Dir_ /\ store[c.n] # Absent
    BY <1>5, <1>6, <1>9 DEF OpenGives, IsOutcome
  <2>4. g \in Frames /\ g.at = "open2" /\ g.res = frame[t].res /\ g.in = r.fil /\ g.out = frame[t].out
    BY <1>4, <2>2, <2>3, FrameInIs
  <2>5. Fits(g.at, Call(t).op)
    BY <1>1, <2>4, LinkFits
  <2>6. CallShapes' /\ Others(t) /\ frame'[t] = g /\ Call(t)' = Call(t)
    BY <1>4, <2>1, <2>4, <2>5, GotoStep
  <2>7. Locked(t)' <=> Locked(t)
    BY <1>1, <2>4, <2>6 DEF Locked
  <2>8. OpenAlready(c.n) \in BOOLEAN
    BY OpenAlreadyIs
  <2>9. \E b \in BOOLEAN : Mixes(b)
    BY <2>1, <2>8
  <2>10. ASSUME Clean', Agreed
         PROVE  /\ LinksWell(t)' /\ FilOk(t, g.in, frame[t].in) /\ FilOk(t, g.out, frame[t].out)
                /\ (g.in.fs /\ g.out.fs => g.in.n # g.out.n)
    <3>1. ~OpenAlready(c.n)
      BY <1>4, <2>1, <2>8, <2>10, MixesStep
    <3>2. \A h \in Holders : Fil(h).fs => Fil(h).n # c.n
      BY <1>4, <3>1, Unheld
    <3>3. store[c.n] \in Seq(Nat) /\ Len(store[c.n]) \in Nat
      <4>1. store[c.n] \in Seq(Nat)
        BY <1>4, <2>3, <2>10 DEF Agreed
      <4> QED
        BY <4>1, LenProperties
    <3>4. Clean
      BY <1>4, <2>1, <2>8, <2>10, MixesStep, CleanStep
    <3>5. frame[t].res = "OK"
      BY <1>1, <1>4, <3>4 DEF LinksWell
    <3>6. LinksWell(t)'
      BY <1>2, <1>5, <2>3, <2>4, <2>6, <3>5 DEF LinksWell
    <3>7. FilOk(t, g.in, frame[t].in)
      BY <1>1, <2>3, <2>4, <3>2, <3>3 DEF FilOk
    <3>8. PICK k \in Holders : Fil(k) = frame[t].out
      BY HoldersAre
    <3>9. frame[t].out.fs => frame[t].out.n # c.n /\ Sound(frame[t].out)
      BY <2>10, <3>2, <3>8 DEF Agreed
    <3>10. FilOk(t, g.out, frame[t].out)
      BY <1>1, <2>4, <3>9 DEF FilOk, Sound
    <3> QED
      BY <2>3, <2>4, <3>6, <3>7, <3>9, <3>10
  <2>11. \A n : ~Changing(t, n)
    BY <1>1 DEF Changing, Using, OnFd
  <2>12. {} \in SUBSET Places
    OBVIOUS
  <2> QED
    BY <1>1, <1>4, <1>7, <2>1, <2>4, <2>5, <2>7, <2>9, <2>10, <2>11, <2>12, OwnGoesOn
<1> QED
  BY <1>8, <1>9


LEMMA LinkOpensSecondRight == ASSUME VfsInv, NEW t \in Tasks, LinkOpensSecond(t) PROVE VfsInv'
<1>1. /\ frame[t].at = "open2" /\ Call(t).op = "link" /\ frame[t].at # "idle" /\ GiveLock(t)
      /\ UNCHANGED <<files, o_append, mine, dirs, contexts, mounted, posix>>
  BY DEF LinkOpensSecond, At, Streams_, Contexts
<1>2. PICK c, mode, size : c = Call(t) /\ mode = {"WRITE", "CREATE_NEW"} /\ size = Len(store[c.n])
  OBVIOUS
<1>3. PICK r \in Ends(OpenedFor(c.m, mode), NoFIL) :
       /\ store' = r.disk /\ Mixes(Streaming /\ r.disk # store)
       /\ IF r.res = "OK"
            THEN /\ Goto_(t, [frame[t] EXCEPT !.at = "read", !.out = r.fil, !.size = size])
                 /\ UNCHANGED <<left, vret, memory, trouble>>
            ELSE Fails(t, r.res) /\ memory' = memory \ Own(t, {"buf", "pf1"}) /\ Leaks(r.res)
  BY <1>2, Zenon DEF LinkOpensSecond
<1>4. /\ Shapes /\ LockKept /\ (Clean => Agreed) /\ left[t] # <<>> /\ c \in PosixCalls /\ c.n \in Places /\ c.m \in Places
      /\ frame[t] \in Frames /\ store \in [Places -> Texts] /\ ~Using(t) /\ Holds(t) = Own(t, Linking)
      /\ Clean => LinksWell(t)
  BY <1>1, <1>2, LinkIs
<1>5. mode \in SUBSET Modes /\ "WRITE" \in mode /\ "CREATE_NEW" \in mode
  BY <1>2 DEF Modes
<1>6. IsOutcome(r) /\ OpenGives(r, c.m, mode)
  BY <1>4, <1>5, OpenEnds
<1>7. trouble \subseteq {"disk", "memory", "link"}
  BY <1>4 DEF Shapes
<1>8. (Streaming /\ r.disk # store) \in BOOLEAN
  BY OpenAlreadyIs
<1>9. \E b \in BOOLEAN : Mixes(b)
  BY <1>3, <1>8
<1>10. \A n : ~Changing(t, n)
  BY <1>1 DEF Changing, Using, OnFd
<1>11. CASE r.res # "OK"
  <2>1. Return(t, fresult_to_errno[r.res])
    BY <1>3, <1>11 DEF Fails
  <2>2. trouble \subseteq trouble' /\ trouble' \subseteq {"disk", "memory", "link"} /\ "link" \in trouble'
    BY <1>3, <1>7, <1>11 DEF Leaks
  <2>3. store' = store
    BY <1>3, <1>6, <1>11 DEF OpenGives
  <2> QED
    BY <1>1, <1>4, <1>9, <1>10, <2>1, <2>2, <2>3, OwnReturns DEF Agreed
<1>12. CASE r.res = "OK"
  <2> DEFINE g == [frame[t] EXCEPT !.at = "read", !.out = r.fil, !.size = size]
             a == "read"
  <2>1. Goto_(t, g) /\ UNCHANGED <<left, memory, trouble>>
    BY <1>3, <1>12
  <2>2. FrameOut(g, frame[t], a, r.fil, size) /\ a \in Ats /\ a = "read" /\ ~WritingAt(a)
    BY DEF FrameOut, Ats, WritingAt
  <2> HIDE DEF g, a
  <2>3. IsFil(r.fil) /\ r.fil.fs /\ r.fil.n = c.m /\ r.fil.pos = 0 /\ ~r.fil.err /\ r.fil.mode = mode
        /\ store[c.m] = Absent /\ r.disk = [store EXCEPT ![c.m] = <<>>]
    BY <1>5, <1>6, <1>12 DEF OpenGives, IsOutcome
  <2>4. size \in Nat
    <3>1. store[c.n] \in Texts
      BY <1>4
    <3> QED
      BY <1>2, <3>1, LenProperties DEF Texts
  <2>5. /\ g \in Frames /\ g.at = "read" /\ g.res = frame[t].res /\ g.in = frame[t].in /\ g.out = r.fil /\ g.size = size
    BY <1>4, <2>2, <2>3, <2>4, FrameOutIs
  <2>6. Fits(g.at, Call(t).op)
    BY <1>1, <2>5, LinkFits
  <2>7. CallShapes' /\ Others(t) /\ frame'[t] = g /\ Call(t)' = Call(t)
    BY <1>4, <2>1, <2>5, <2>6, GotoStep
  <2>8. ~Locked(t)'
    BY <1>1, <2>5, <2>7 DEF Locked
  <2>9. Clean' => ~(Streaming /\ r.disk # store)
    BY <1>3, <1>4, <1>8, MixesStep
  <2>10. Clean' => Clean
    BY <1>3, <1>4, <1>8, <2>1, MixesStep, CleanStep
  <2>11. /\ store' \in [Places -> Texts] /\ store'[c.m] = <<>> /\ \A n \in Places \ {c.m} : store'[n] = store[n]
    BY <1>3, <1>4, <2>3, EmptyText
  <2> DEFINE N == {c.m}
  <2>12. ASSUME Clean', Agreed
         PROVE  /\ LinksWell(t)' /\ FilOk(t, g.in, frame[t].in) /\ FilOk(t, g.out, frame[t].out)
                /\ (g.in.fs /\ g.out.fs => g.in.n # g.out.n)
                /\ \A n \in Places \ N : store'[n] = store[n]
                /\ \A n \in N : /\ \A h \in Holders \ HoldersOf(t, {}) : Fil(h).fs => Fil(h).n # n
                                /\ store'[n] \in {Absent, Dir_} \union Seq(Nat)
                /\ \A n \in Places : n \in N \/ Changing(t, n) => Changing(t, n)' \/ posix.disk[n] = store'[n]
    <3>1. /\ frame[t].res = "OK" /\ frame[t].in.fs /\ frame[t].in.n = c.n /\ frame[t].in.pos = 0 /\ "READ" \in frame[t].in.mode
      BY <1>1, <1>2, <1>4, <2>10, <2>12 DEF LinksWell
    <3>2. \A h \in Holders : Fil(h).fs => Fil(h).n # c.m
      BY <1>4, <2>3, <2>12, AbsentUnheld, Unheld
    <3>3. PICK f : f = frame[t].in /\ OwnFil(t, f)
      BY DEF OwnFil
    <3>4. store[c.n] \in Seq(Nat) /\ Len(store[c.n]) \in Nat /\ f.pos <= Len(store[c.n]) /\ ~f.err
      BY <1>4, <2>12, <3>1, <3>3, OwnAlone
    <3>5. c.n # c.m
      BY <2>3, <3>4, AbsentIs
    <3>6. store'[c.n] = store[c.n]
      BY <1>4, <2>11, <3>5
    <3>7. SubSeq(store[c.n], 1, 0) = <<>>
      BY <3>4, SubSeqEmpty
    <3>8. LinksWell(t)'
      <4>1. size = Len(store[c.n]) - 0 /\ 0 <= Len(store[c.n])
        BY <1>2, <3>4
      <4>2. c' = c /\ Call(t)' = c
        BY <1>2, <2>7
      <4> QED
        BY <1>5, <2>3, <2>5, <2>7, <2>11, <3>1, <3>6, <3>7, <4>1, <4>2, ZenonT(30) DEF LinksWell
    <3>9. FilOk(t, g.in, frame[t].in)
      BY <2>5, <3>1, <3>3, <3>4, <3>6 DEF FilOk
    <3>10. FilOk(t, g.out, frame[t].out)
      <4>1. <<>> \in Seq(Nat) /\ 0 <= Len(<<>>)
        BY EmptySeq
      <4> QED
        BY <2>3, <2>5, <2>11, <3>2, <4>1 DEF FilOk
    <3>11. Changing(t, c.m)'
      <4>1. (Call(t).m)' = c.m
        BY <1>2, <2>7
      <4> QED
        BY <1>1, <2>5, <2>7, <4>1 DEF Changing
    <3>12. <<>> \in Seq(Nat)
      BY EmptySeq
    <3> QED
      BY <1>10, <2>3, <2>5, <2>11, <3>1, <3>2, <3>5, <3>8, <3>9, <3>10, <3>11, <3>12, ZenonT(30)
  <2>13. N \in SUBSET Places
    BY <1>4
  <2>14. Clean' => ~Streaming \/ \A n \in Places : (store'[n] = Absent <=> store[n] = Absent)
    BY <1>3, <2>9
  <2> HIDE DEF N
  <2> QED
    BY <1>1, <1>4, <1>7, <1>9, <2>1, <2>5, <2>6, <2>8, <2>11, <2>12, <2>13, <2>14, OwnGoesOn, ZenonT(30)
<1> QED
  BY <1>11, <1>12

LEMMA PieceFits ==
  ASSUME NEW p \in Nat, NEW k \in Nat, NEW l \in Nat, NEW z \in Nat, k <= z, z = l - p, p <= l
  PROVE  p + k \in Nat /\ p + k <= l /\ p <= p + k
OBVIOUS

LEMMA LinkReadsRight == ASSUME VfsInv, NEW t \in Tasks, LinkReads(t) PROVE VfsInv'
<1>1. /\ frame[t].at = "read" /\ Call(t).op = "link" /\ frame[t].at # "idle" /\ frame[t].size > 0
      /\ UNCHANGED <<left, lock, files, o_append, mine, dirs, store, memory, contexts, mounted, posix, mixed>>
  BY DEF LinkReads, At, Streams_, Contexts
<1>2. PICK c, f, k : c = Call(t) /\ f = frame[t] /\ k = LesserOf(f.size, CopyUnit)
  OBVIOUS
<1>3. PICK r \in Ends(ReadFrom_(f.in, k), f.in) :
          /\ Goto_(t, IF r.res = "OK" /\ Len(r.got) = k THEN [f EXCEPT !.at = "write", !.in = r.fil, !.got = r.got]
                      ELSE [f EXCEPT !.at = "close", !.res = "DISK_ERR"])
          /\ Trouble(r.res)
  BY <1>2, Zenon DEF LinkReads
<1>4. /\ Shapes /\ LockKept /\ (Clean => Agreed) /\ left[t] # <<>> /\ c \in PosixCalls /\ c.n \in Places /\ c.m \in Places
      /\ f \in Frames /\ store \in [Places -> Texts] /\ ~Using(t)
      /\ Clean => LinksWell(t)
  BY <1>1, <1>2, LinkIs
<1>5. f.size \in Nat /\ k \in Nat /\ k <= f.size /\ IsFil(f.in) /\ IsFil(f.out)
  <2>1. f.size \in Nat /\ IsFil(f.in) /\ IsFil(f.out)
    BY <1>4, FrameHas
  <2> QED
    BY <1>2, <2>1, VfsConstants DEF LesserOf
<1>6. Stays(r, f.in) /\ (f.in.fs /\ ~f.in.err /\ r.res # "DISK_ERR" => ReadGives(r, f.in, k))
  BY <1>4, <1>5, ReadEnds
<1>7. IsOutcome(r) /\ IsFil(r.fil) /\ r.got \in Texts
  BY <1>6 DEF Stays, IsOutcome
<1>8. /\ trouble' \subseteq {"disk", "memory", "link"} /\ trouble \subseteq trouble' /\ (Clean' => r.res # "DISK_ERR")
  BY <1>3, <1>4, TroubleStep
<1>9. Clean' => Clean
  BY <1>1, <1>8, CleanStep
<1>10. {} \in SUBSET Places
  OBVIOUS
<1>11. ASSUME Clean', Agreed
       PROVE  /\ f.in.fs /\ f.in.n = c.n /\ "READ" \in f.in.mode /\ f.out.fs /\ f.out.n = c.m /\ "WRITE" \in f.out.mode
              /\ f.res = "OK" /\ f.out.pos \in Nat /\ f.out.pos + k \in Nat /\ f.out.pos <= Len(store[c.n])
              /\ f.out.pos + k <= Len(store[c.n]) /\ store[c.m] = SubSeq(store[c.n], 1, f.out.pos)
              /\ f.size = Len(store[c.n]) - f.out.pos /\ f.in.pos = f.out.pos
              /\ store[c.n] \in Seq(Nat) /\ Len(store[c.n]) \in Nat /\ store[c.m] \in Seq(Nat)
              /\ ~f.in.err /\ ~f.out.err /\ f.out.pos <= Len(store[c.m]) /\ c.n # c.m
              /\ r.res = "OK" /\ r.got = SubSeq(store[c.n], f.out.pos + 1, f.out.pos + k) /\ Len(r.got) = k
              /\ r.fil.fs /\ r.fil.n = c.n /\ r.fil.pos = f.out.pos + k /\ ~r.fil.err /\ r.fil.mode = f.in.mode
  <2>1. /\ f.in.fs /\ f.in.n = c.n /\ "READ" \in f.in.mode /\ f.out.fs /\ f.out.n = c.m /\ "WRITE" \in f.out.mode
        /\ f.out.pos <= Len(store[c.n]) /\ store[c.m] = SubSeq(store[c.n], 1, f.out.pos)
        /\ f.size = Len(store[c.n]) - f.out.pos /\ f.in.pos = f.out.pos /\ f.res = "OK"
    BY <1>1, <1>2, <1>4, <1>9, <1>11 DEF LinksWell
  <2>2. OwnFil(t, f.in) /\ OwnFil(t, f.out)
    BY <1>2 DEF OwnFil
  <2>3. store[c.n] \in Seq(Nat) /\ Len(store[c.n]) \in Nat /\ ~f.in.err
    BY <1>4, <1>11, <2>1, <2>2, OwnAlone
  <2>4. store[c.m] \in Seq(Nat) /\ ~f.out.err /\ f.out.pos \in Nat /\ f.out.pos <= Len(store[c.m])
    BY <1>4, <1>11, <2>1, <2>2, OwnAlone
  <2>5. f.out.pos + k \in Nat /\ f.out.pos + k <= Len(store[c.n]) /\ f.out.pos <= f.out.pos + k
    BY <1>5, <2>1, <2>3, <2>4, PieceFits, ZenonT(30)
  <2>6. c.n # c.m
    <3>1. <<"in", t>> \in Holders /\ Fil(<<"in", t>>) = f.in /\ <<"out", t>> \in Holders /\ Fil(<<"out", t>>) = f.out
      BY <1>2, HoldersAre
    <3>2. <<"in", t>> # <<"out", t>>
      OBVIOUS
    <3> QED
      BY <1>11, <2>1, <3>1, <3>2 DEF Agreed
  <2>7. ReadGives(r, f.in, k)
    BY <1>6, <1>8, <1>11, <2>1, <2>3
  <2>8. LesserOf(f.in.pos + k, Len(store[c.n])) = f.out.pos + k
    BY <2>1, <2>3, <2>5 DEF LesserOf
  <2>9. r.res = "OK" /\ r.got = SubSeq(store[c.n], f.out.pos + 1, f.out.pos + k) /\ r.fil.pos = f.out.pos + k
        /\ ~r.fil.err /\ r.fil.mode = f.in.mode
    BY <2>1, <2>7, <2>8 DEF ReadGives
  <2>10. Len(r.got) = k
    <3>1. Len(SubSeq(store[c.n], f.out.pos + 1, f.out.pos + k)) = (f.out.pos + k) - f.out.pos
      BY <2>3, <2>4, <2>5, SubSeqIs, SMTT(30)
    <3> QED
      BY <1>5, <2>4, <2>9, <3>1
  <2>11. r.fil.fs /\ r.fil.n = c.n
    BY <1>6, <2>1 DEF Stays
  <2> QED
    BY <2>1, <2>3, <2>4, <2>5, <2>6, <2>9, <2>10, <2>11
<1>12. CASE ~(r.res = "OK" /\ Len(r.got) = k)
  <2> DEFINE g == [f EXCEPT !.at = "close", !.res = "DISK_ERR"]
             a == "close"
             e == "DISK_ERR"
  <2>1. Goto_(t, g)
    BY <1>3, <1>12
  <2>2. FrameEnds(g, f, a, e) /\ a \in Ats /\ a = "close" /\ ~WritingAt(a) /\ e \in Results
    BY DEF FrameEnds, Ats, Results, WritingAt
  <2> HIDE DEF g, a, e
  <2>3. g \in Frames /\ g.at = "close"
    BY <1>4, <2>2, FrameEndsIs
  <2>4. Fits(g.at, Call(t).op)
    BY <1>1, <2>3, LinkFits
  <2>5. CallShapes' /\ Others(t) /\ frame'[t] = g /\ Call(t)' = Call(t)
    BY <1>1, <1>4, <2>1, <2>3, <2>4, GotoStep
  <2>6. Locked(t)' <=> Locked(t)
    BY <1>1, <2>3, <2>5 DEF Locked
  <2>7. ~(Clean' /\ Agreed)
    BY <1>11, <1>12
  <2> QED
    BY <1>1, <1>4, <1>8, <1>10, <2>1, <2>3, <2>4, <2>6, <2>7, OwnGoesOn, ZenonT(30)
<1>13. CASE r.res = "OK" /\ Len(r.got) = k
  <2> DEFINE g == [f EXCEPT !.at = "write", !.in = r.fil, !.got = r.got]
             a == "write"
  <2>1. Goto_(t, g)
    BY <1>3, <1>13
  <2>2. FrameGot(g, f, a, r.fil, r.got) /\ a \in Ats /\ a = "write"
    BY DEF FrameGot, Ats
  <2> HIDE DEF g, a
  <2>3. g \in Frames /\ g.at = "write" /\ g.in = r.fil /\ g.out = f.out /\ g.got = r.got /\ g.size = f.size /\ g.res = f.res
    BY <1>4, <1>5, <1>7, <1>13, <2>2, FrameGotIs
  <2>4. Fits(g.at, Call(t).op)
    BY <1>1, <2>3, LinkFits
  <2>5. CallShapes' /\ Others(t) /\ frame'[t] = g /\ Call(t)' = Call(t)
    BY <1>1, <1>4, <2>1, <2>3, <2>4, GotoStep
  <2>6. Locked(t)' <=> Locked(t)
    BY <1>1, <2>3, <2>5 DEF Locked
  <2>7. ASSUME Clean', Agreed
        PROVE  /\ LinksWell(t)' /\ FilOk(t, g.in, f.in) /\ FilOk(t, g.out, f.out)
               /\ g.in.n # g.out.n
               /\ \A n \in Places : Changing(t, n) => Changing(t, n)'
    <3>1. /\ f.in.fs /\ f.in.n = c.n /\ "READ" \in f.in.mode /\ f.out.fs /\ f.out.n = c.m /\ "WRITE" \in f.out.mode
          /\ f.res = "OK" /\ f.out.pos \in Nat /\ f.out.pos + k \in Nat /\ f.out.pos <= Len(store[c.n])
          /\ f.out.pos + k <= Len(store[c.n]) /\ store[c.m] = SubSeq(store[c.n], 1, f.out.pos)
          /\ f.size = Len(store[c.n]) - f.out.pos /\ f.in.pos = f.out.pos
          /\ store[c.n] \in Seq(Nat) /\ Len(store[c.n]) \in Nat /\ store[c.m] \in Seq(Nat)
          /\ ~f.in.err /\ ~f.out.err /\ f.out.pos <= Len(store[c.m]) /\ c.n # c.m
          /\ r.res = "OK" /\ r.got = SubSeq(store[c.n], f.out.pos + 1, f.out.pos + k) /\ Len(r.got) = k
          /\ r.fil.fs /\ r.fil.n = c.n /\ r.fil.pos = f.out.pos + k /\ ~r.fil.err /\ r.fil.mode = f.in.mode
      BY <1>11, <2>7
    <3>2. Call(t)' = c /\ store' = store /\ frame'[t] = g
      BY <1>1, <1>2, <2>5
    <3>4. LinksWell(t)'
      BY <2>3, <3>1, <3>2, ZenonT(30) DEF LinksWell
    <3>5. FilOk(t, g.in, f.in) /\ FilOk(t, g.out, f.out)
      BY <2>3, <3>1, <3>2 DEF FilOk
    <3>6. \A n \in Places : Changing(t, n) => Changing(t, n)'
      BY <1>1, <2>3, <2>5 DEF Changing, Using, OnFd
    <3> QED
      BY <2>3, <3>1, <3>4, <3>5, <3>6
  <2> QED
    BY <1>1, <1>2, <1>4, <1>8, <1>10, <2>1, <2>3, <2>4, <2>6, <2>7, OwnGoesOn, ZenonT(30)
<1> QED
  BY <1>12, <1>13


LEMMA LinkWritesRight == ASSUME VfsInv, NEW t \in Tasks, LinkWrites(t) PROVE VfsInv'
<1>1. /\ frame[t].at = "write" /\ Call(t).op = "link" /\ frame[t].at # "idle"
      /\ UNCHANGED <<left, lock, files, o_append, mine, dirs, memory, contexts, mounted, posix, mixed>>
  BY DEF LinkWrites, At, Streams_, Contexts
<1>2. PICK c, f, size : c = Call(t) /\ f = frame[t] /\ size = f.size - Len(f.got)
  OBVIOUS
<1>3. PICK r \in Ends(WriteTo(f.out, f.got), f.out) :
          /\ store' = r.disk /\ Trouble(r.res)
          /\ Goto_(t, IF r.res = "OK" THEN [f EXCEPT !.at = "read", !.out = r.fil, !.size = @ - Len(f.got), !.got = <<>>]
                      ELSE [f EXCEPT !.at = "close", !.res = r.res])
  BY <1>2, Zenon DEF LinkWrites
<1>4. /\ Shapes /\ LockKept /\ (Clean => Agreed) /\ left[t] # <<>> /\ c \in PosixCalls /\ c.n \in Places /\ c.m \in Places
      /\ f \in Frames /\ store \in [Places -> Texts] /\ ~Using(t)
      /\ Clean => LinksWell(t)
  BY <1>1, <1>2, LinkIs
<1>5. f.size \in Nat /\ f.got \in Texts /\ IsFil(f.in) /\ IsFil(f.out) /\ size \in Nat
  <2>1. f.size \in Nat /\ f.got \in Texts /\ IsFil(f.in) /\ IsFil(f.out) /\ Copied(f)
    BY <1>4, FrameHas
  <2>2. Len(f.got) \in Nat
    BY <2>1, LenProperties DEF Texts
  <2> QED
    BY <1>1, <1>2, <2>1, <2>2 DEF Copied, WritingAt
<1>6. Stays(r, f.out) /\ (f.out.fs /\ ~f.out.err /\ r.res # "DISK_ERR" => WriteGives(r, f.out, f.got))
  BY <1>4, <1>5, WriteEnds
<1>7. IsOutcome(r) /\ IsFil(r.fil) /\ r.disk \in [Places -> Texts] /\ r.res \in Results
  BY <1>6 DEF Stays, IsOutcome
<1>8. /\ trouble' \subseteq {"disk", "memory", "link"} /\ trouble \subseteq trouble' /\ (Clean' => r.res # "DISK_ERR")
  BY <1>3, <1>4, TroubleStep
<1>9. Clean' => Clean
  BY <1>1, <1>8, CleanStep
<1> DEFINE N == {c.m}
<1>10. N \in SUBSET Places
  BY <1>4, SMTT(30)
<1>11. ASSUME Clean, Agreed
       PROVE  /\ f.in.fs /\ f.in.n = c.n /\ "READ" \in f.in.mode /\ f.out.fs /\ f.out.n = c.m /\ "WRITE" \in f.out.mode
              /\ f.res = "OK" /\ f.out.pos \in Nat /\ f.in.pos \in Nat /\ f.in.pos <= Len(store[c.n])
              /\ f.in.pos = f.out.pos + Len(f.got) /\ Len(f.got) \in Nat
              /\ store[c.m] = SubSeq(store[c.n], 1, f.out.pos)
              /\ f.got = SubSeq(store[c.n], f.out.pos + 1, f.in.pos)
              /\ f.size = Len(store[c.n]) - f.out.pos
              /\ store[c.n] \in Seq(Nat) /\ Len(store[c.n]) \in Nat /\ store[c.m] \in Seq(Nat)
              /\ ~f.in.err /\ ~f.out.err /\ c.n # c.m
              /\ \A h \in Holders \ HoldersOf(t, {}) : Fil(h).fs => Fil(h).n # c.m
  <2>1. /\ f.in.fs /\ f.in.n = c.n /\ "READ" \in f.in.mode /\ f.out.fs /\ f.out.n = c.m /\ "WRITE" \in f.out.mode
        /\ store[c.m] = SubSeq(store[c.n], 1, f.out.pos) /\ f.got = SubSeq(store[c.n], f.out.pos + 1, f.in.pos)
        /\ f.size = Len(store[c.n]) - f.out.pos /\ f.in.pos = f.out.pos + Len(f.got) /\ f.res = "OK"
    BY <1>1, <1>2, <1>4, <1>11, SMTT(30) DEF LinksWell
  <2>2. OwnFil(t, f.in) /\ OwnFil(t, f.out)
    BY <1>2, SMTT(30) DEF OwnFil
  <2>3. store[c.n] \in Seq(Nat) /\ Len(store[c.n]) \in Nat /\ ~f.in.err /\ f.in.pos \in Nat /\ f.in.pos <= Len(store[c.n])
    BY <1>4, <1>11, <2>1, <2>2, OwnAlone, ZenonT(30)
  <2>4. store[c.m] \in Seq(Nat) /\ ~f.out.err /\ f.out.pos \in Nat
        /\ \A h \in Holders \ HoldersOf(t, {}) : Fil(h).fs => Fil(h).n # c.m
    <3>1. PICK g : g = f.out /\ OwnFil(t, g) /\ g.fs /\ c.m = g.n
      BY <2>1, <2>2, SMTT(30)
    <3>2. /\ \A h \in Holders \ HoldersOf(t, {}) : Fil(h).fs => Fil(h).n # c.m
          /\ store[c.m] \in Seq(Nat) /\ ~g.err /\ g.pos \in Nat
      BY <1>4, <1>11, <3>1, OwnAlone
    <3> QED
      BY <3>1, <3>2
  <2>5. Len(f.got) \in Nat
    BY <1>5, LenProperties DEF Texts
  <2>6. c.n # c.m
    <3>1. <<"in", t>> \in Holders /\ Fil(<<"in", t>>) = f.in /\ <<"out", t>> \in Holders /\ Fil(<<"out", t>>) = f.out
      BY <1>2, HoldersAre
    <3>2. <<"in", t>> # <<"out", t>>
      OBVIOUS
    <3> QED
      BY <1>11, <2>1, <3>1, <3>2 DEF Agreed
  <2> QED
    BY <2>1, <2>3, <2>4, <2>5, <2>6
<1>12. ASSUME Clean', Agreed
       PROVE  /\ r.res = "OK" /\ r.fil.fs /\ r.fil.n = c.m /\ r.fil.pos = f.in.pos /\ ~r.fil.err /\ r.fil.mode = f.out.mode
              /\ store' = [store EXCEPT ![c.m] = SubSeq(store[c.n], 1, f.in.pos)]
              /\ SubSeq(store[c.n], 1, f.in.pos) \in Seq(Nat) /\ Len(SubSeq(store[c.n], 1, f.in.pos)) = f.in.pos
              /\ size = Len(store[c.n]) - f.in.pos
  <2>1. Clean /\ WriteGives(r, f.out, f.got)
    BY <1>6, <1>8, <1>9, <1>11, <1>12
  <2>2. r.res = "OK" /\ r.fil.pos = f.out.pos + Len(f.got) /\ ~r.fil.err /\ r.fil.mode = f.out.mode
        /\ r.disk = [store EXCEPT ![c.m] = Overwrite(store[c.m], f.out.pos, f.got)]
    BY <1>11, <1>12, <2>1, ZenonT(30) DEF WriteGives
  <2>3. Overwrite(store[c.m], f.out.pos, f.got) = SubSeq(store[c.n], 1, f.in.pos)
    <3>1. PICK s, p, q : s = store[c.n] /\ p = f.out.pos /\ q = f.in.pos
      OBVIOUS
    <3>2. s \in Seq(Nat) /\ p \in Nat /\ q \in Nat /\ p <= q /\ q <= Len(s)
      BY <1>11, <1>12, <2>1, <3>1
    <3>3. Overwrite(SubSeq(s, 1, p), p, SubSeq(s, p + 1, q)) = SubSeq(s, 1, q)
      BY <3>2, CopyGoesOn
    <3> QED
      BY <1>11, <1>12, <2>1, <3>1, <3>3
  <2>4. SubSeq(store[c.n], 1, f.in.pos) \in Seq(Nat) /\ Len(SubSeq(store[c.n], 1, f.in.pos)) = f.in.pos
    <3>1. store[c.n] \in Seq(Nat) /\ f.in.pos \in Nat /\ f.in.pos <= Len(store[c.n])
      BY <1>11, <1>12, <2>1
    <3> QED
      BY <3>1, CutIs, SMTT(30)
  <2>5. size = Len(store[c.n]) - f.in.pos
    <3>1. PICK p, q, l, z, w : p = f.out.pos /\ q = f.in.pos /\ l = Len(store[c.n]) /\ z = f.size /\ w = Len(f.got)
      OBVIOUS
    <3>2. /\ p \in Nat /\ q \in Nat /\ l \in Nat /\ z \in Nat /\ w \in Nat
          /\ z = l - p /\ q = p + w
      BY <1>5, <1>11, <1>12, <2>1, <3>1
    <3>3. z - w = l - q
      BY <3>2, SMTT(30)
    <3> QED
      BY <1>2, <3>1, <3>3
  <2>6. r.fil.fs /\ r.fil.n = c.m
    BY <1>6, <1>11, <1>12, <2>1 DEF Stays
  <2>7. f.in.pos = f.out.pos + Len(f.got)
    BY <1>11, <1>12, <2>1
  <2> QED
    BY <1>3, <2>2, <2>3, <2>4, <2>5, <2>6, <2>7
<1>13. Clean' => ~Streaming \/ \A n \in Places : (store'[n] = Absent <=> store[n] = Absent)
  <2> SUFFICES ASSUME Clean', NEW n \in Places PROVE store'[n] = Absent <=> store[n] = Absent
    OBVIOUS
  <2>1. Clean /\ Agreed
    BY <1>4, <1>9
  <2>2. store' = [store EXCEPT ![c.m] = SubSeq(store[c.n], 1, f.in.pos)] /\ SubSeq(store[c.n], 1, f.in.pos) \in Seq(Nat)
    BY <1>12, <2>1
  <2>3. store[c.m] \in Seq(Nat)
    BY <1>11, <2>1
  <2>4. store'[c.m] \in Seq(Nat) /\ \A i \in Places \ {c.m} : store'[i] = store[i]
    BY <1>4, <2>2
  <2> QED
    BY <2>3, <2>4, AbsentIs
<1>14. store' \in [Places -> Texts]
  BY <1>3, <1>7
<1>15. CASE r.res # "OK"
  <2>0. PICK e : e = r.res
    OBVIOUS
  <2> DEFINE g == [f EXCEPT !.at = "close", !.res = e]
             a == "close"
  <2>1. Goto_(t, g)
    BY <1>3, <1>15, <2>0
  <2>2. FrameEnds(g, f, a, e) /\ a \in Ats /\ a = "close" /\ ~WritingAt(a) /\ e \in Results
    BY <1>7, <2>0 DEF FrameEnds, Ats, WritingAt
  <2> HIDE DEF g, a
  <2>3. g \in Frames /\ g.at = "close"
    BY <1>4, <2>2, FrameEndsIs
  <2>4. Fits(g.at, Call(t).op)
    BY <1>1, <2>3, LinkFits
  <2>5. CallShapes' /\ Others(t) /\ frame'[t] = g /\ Call(t)' = Call(t)
    BY <1>1, <1>4, <2>1, <2>3, <2>4, GotoStep
  <2>6. Locked(t)' <=> Locked(t)
    BY <1>1, <2>3, <2>5 DEF Locked
  <2>7. ~(Clean' /\ Agreed)
    BY <1>12, <1>15
  <2> HIDE DEF N
  <2> QED
    BY <1>1, <1>4, <1>8, <1>10, <1>13, <1>14, <2>1, <2>3, <2>4, <2>6, <2>7, OwnGoesOn
<1>16. CASE r.res = "OK"
  <2> DEFINE g == [f EXCEPT !.at = "read", !.out = r.fil, !.size = size, !.got = <<>>]
             a == "read"
             none == <<>>
  <2>1. Goto_(t, g)
    BY <1>2, <1>3, <1>16
  <2>2. FramePut(g, f, a, r.fil, size, none) /\ a \in Ats /\ a = "read" /\ ~WritingAt(a) /\ none \in Texts
    BY EmptyText DEF FramePut, Ats, WritingAt
  <2> HIDE DEF g, a, none
  <2>3. g \in Frames /\ g.at = "read" /\ g.in = f.in /\ g.out = r.fil /\ g.size = size /\ g.res = f.res
    BY <1>4, <1>5, <1>7, <2>2, FramePutIs
  <2>4. Fits(g.at, Call(t).op)
    BY <1>1, <2>3, LinkFits
  <2>5. CallShapes' /\ Others(t) /\ frame'[t] = g /\ Call(t)' = Call(t)
    BY <1>1, <1>4, <2>1, <2>3, <2>4, GotoStep
  <2>6. Locked(t)' <=> Locked(t)
    BY <1>1, <2>3, <2>5 DEF Locked
  <2>7. ASSUME Clean', Agreed
        PROVE  /\ LinksWell(t)' /\ FilOk(t, g.in, f.in) /\ FilOk(t, g.out, f.out)
               /\ g.in.n # g.out.n
               /\ \A n \in Places \ N : store'[n] = store[n]
               /\ \A n \in N : /\ \A h \in Holders \ HoldersOf(t, {}) : Fil(h).fs => Fil(h).n # n
                               /\ store'[n] \in {Absent, Dir_} \union Seq(Nat)
               /\ \A n \in Places : n \in N \/ Changing(t, n) => Changing(t, n)'
    <3>1. /\ f.in.fs /\ f.in.n = c.n /\ "READ" \in f.in.mode /\ f.out.fs /\ f.out.n = c.m /\ "WRITE" \in f.out.mode
          /\ f.res = "OK" /\ f.in.pos \in Nat /\ f.in.pos <= Len(store[c.n])
          /\ store[c.n] \in Seq(Nat) /\ ~f.in.err /\ c.n # c.m
          /\ \A h \in Holders \ HoldersOf(t, {}) : Fil(h).fs => Fil(h).n # c.m
      BY <1>9, <1>11, <2>7
    <3>2. /\ r.fil.fs /\ r.fil.n = c.m /\ r.fil.pos = f.in.pos /\ ~r.fil.err /\ r.fil.mode = f.out.mode
          /\ store' = [store EXCEPT ![c.m] = SubSeq(store[c.n], 1, f.in.pos)]
          /\ SubSeq(store[c.n], 1, f.in.pos) \in Seq(Nat) /\ Len(SubSeq(store[c.n], 1, f.in.pos)) = f.in.pos
          /\ size = Len(store[c.n]) - f.in.pos
      BY <1>12, <2>7, SMTT(30)
    <3>3. /\ store'[c.m] = SubSeq(store[c.n], 1, f.in.pos) /\ \A i \in Places \ {c.m} : store'[i] = store[i]
      BY <1>4, <3>2
    <3>4. store'[c.n] = store[c.n]
      BY <1>4, <3>1, <3>3
    <3>5. Call(t)' = c /\ frame'[t] = g
      BY <1>2, <2>5
    <3>6. LinksWell(t)'
      BY <2>3, <3>1, <3>2, <3>3, <3>4, <3>5, SMTT(30) DEF LinksWell
    <3>7. f.in.pos <= Len(SubSeq(store[c.n], 1, f.in.pos))
      BY <3>1, <3>2
    <3>8. FilOk(t, g.in, f.in)
      BY <2>3, <3>1, <3>4 DEF FilOk
    <3>9. FilOk(t, g.out, f.out)
      <4>1. store'[r.fil.n] = SubSeq(store[c.n], 1, f.in.pos)
        BY <3>2, <3>3
      <4>2. store'[r.fil.n] \in Seq(Nat) /\ r.fil.pos <= Len(store'[r.fil.n])
        BY <3>2, <3>7, <4>1
      <4>3. FilOk(t, r.fil, f.out)
        BY <3>1, <3>2, <4>2 DEF FilOk
      <4> QED
        BY <2>3, <4>3
    <3>10. \A n \in Places : n \in N \/ Changing(t, n) => Changing(t, n)'
      <4>1. \A n : Changing(t, n) => n = c.m
        BY <1>1, <1>2 DEF Changing, Using, OnFd
      <4>2. Changing(t, c.m)'
        <5>1. (Call(t).m)' = c.m /\ (Call(t).op)' = "link"
          BY <1>1, <1>2, <3>5
        <5> QED
          BY <2>3, <3>5, <5>1 DEF Changing
      <4> QED
        BY <4>1, <4>2
    <3> QED
      BY <2>3, <3>1, <3>2, <3>3, <3>6, <3>8, <3>9, <3>10, ZenonT(30)
  <2> HIDE DEF N
  <2> QED
    BY <1>1, <1>2, <1>4, <1>8, <1>10, <1>13, <1>14, <2>1, <2>3, <2>4, <2>6, <2>7, OwnGoesOn
<1> QED
  BY <1>15, <1>16

LEMMA LinkClosesRight == ASSUME VfsInv, NEW t \in Tasks, LinkCloses(t) PROVE VfsInv'
<1>1. /\ frame[t].at = "close" \/ (frame[t].at = "read" /\ frame[t].size = 0)
      /\ Call(t).op = "link" /\ frame[t].at # "idle" /\ memory' = memory \ Own(t, Linking)
      /\ UNCHANGED <<lock, files, o_append, mine, dirs, store, contexts, mounted, mixed>>
  BY DEF LinkCloses, At, Streams_, Contexts
<1>2. PICK c, f : c = Call(t) /\ f = frame[t]
  OBVIOUS
<1>3. /\ \E res : Trouble(res)
      /\ \E x : Return(t, x)
      /\ posix' = IF f.res = "OK" THEN [posix EXCEPT !.disk[c.m] = posix.disk[c.n]] ELSE posix
  BY <1>2 DEF LinkCloses, Fails, Means
<1>4. /\ Shapes /\ LockKept /\ (Clean => Agreed) /\ left[t] # <<>> /\ c \in PosixCalls /\ c.n \in Places /\ c.m \in Places
      /\ f \in Frames /\ store \in [Places -> Texts] /\ ~Using(t) /\ Holds(t) = Own(t, Linking)
      /\ Clean => LinksWell(t)
  BY <1>1, <1>2, LinkIs
<1>5. /\ trouble' \subseteq {"disk", "memory", "link"} /\ trouble \subseteq trouble'
  BY <1>3, <1>4, TroubleStep
<1>6. ~Locked(t)
  BY <1>1 DEF Locked
<1>7. Clean' => Clean
  BY <1>1, <1>5, CleanStep
<1>8. \A n : Changing(t, n) => n = c.m
  BY <1>1, <1>2 DEF Changing, Using, OnFd
<1>9. ASSUME Clean', Agreed
      PROVE  /\ posix' \in Images /\ posix'.pos = posix.pos
             /\ \A n \in Places : ~Changing(t, n) => posix'.disk[n] = posix.disk[n]
             /\ \A n \in Places : Changing(t, n) =>
                  posix'.disk[n] = store[n] /\ \A h \in Holders \ HoldersOf(t, {}) : Fil(h).fs => Fil(h).n # n
  <2>1. /\ f.in.fs /\ f.in.n = c.n /\ f.out.fs /\ f.out.n = c.m /\ f.at = "read" /\ f.size = 0
        /\ store[c.m] = SubSeq(store[c.n], 1, f.out.pos) /\ f.size = Len(store[c.n]) - f.out.pos /\ f.res = "OK"
    BY <1>1, <1>2, <1>4, <1>7, <1>9 DEF LinksWell
  <2>2. OwnFil(t, f.in) /\ OwnFil(t, f.out)
    BY <1>2 DEF OwnFil
  <2>3. c.n # c.m
    <3>1. <<"in", t>> \in Holders /\ Fil(<<"in", t>>) = f.in /\ <<"out", t>> \in Holders /\ Fil(<<"out", t>>) = f.out
      BY <1>2, HoldersAre
    <3>2. <<"in", t>> # <<"out", t>>
      OBVIOUS
    <3> QED
      BY <1>9, <2>1, <3>1, <3>2 DEF Agreed
  <2>4. ~Changing(t, c.n)
    BY <1>8, <2>3
  <2>5. store[c.n] \in Seq(Nat) /\ Len(store[c.n]) \in Nat /\ posix.disk[c.n] = store[c.n]
    BY <1>4, <1>9, <2>1, <2>2, <2>4, OwnAlone
  <2>6. f.out.pos \in Nat /\ \A h \in Holders \ HoldersOf(t, {}) : Fil(h).fs => Fil(h).n # c.m
    BY <1>4, <1>9, <2>1, <2>2, OwnAlone
  <2>7. f.out.pos = Len(store[c.n])
    BY <2>1, <2>5, <2>6
  <2>8. store[c.m] = store[c.n]
    BY <2>1, <2>5, <2>6, <2>7, CutIs
  <2>9. posix \in Images /\ posix.disk \in [Places -> Texts]
    BY <1>9, ImageIs DEF Agreed
  <2>10. posix' = [posix EXCEPT !.disk[c.m] = posix.disk[c.n]]
    BY <1>3, <2>1
  <2>11. /\ posix' \in Images /\ posix'.pos = posix.pos /\ posix'.disk = [posix.disk EXCEPT ![c.m] = posix.disk[c.n]]
    BY <1>4, <2>9, <2>10 DEF Images
  <2>12. Changing(t, c.m)
    BY <1>1, <1>2, <2>1 DEF Changing
  <2>13. \A n \in Places \ {c.m} : posix'.disk[n] = posix.disk[n]
    BY <2>9, <2>11
  <2>14. posix'.disk[c.m] = store[c.m]
    BY <1>4, <2>5, <2>8, <2>9, <2>11
  <2> QED
    BY <1>8, <2>6, <2>11, <2>12, <2>13, <2>14
<1> QED
  BY <1>1, <1>3, <1>4, <1>5, <1>6, <1>9, OwnReturns


LEMMA TruncateStartRight == ASSUME VfsInv, NEW t \in Tasks, TruncateStart(t) PROVE VfsInv'
<1>1. /\ frame[t].at = "idle" /\ left[t] # <<>> /\ Call(t).op = "truncate" /\ lock = "free"
      /\ UNCHANGED <<files, o_append, mine, dirs, store, contexts, mounted, posix>>
  BY Zenon DEF TruncateStart, CallBegins, Streams_, Contexts
<1>2. PICK c, mode : c = Call(t) /\ mode = {"WRITE"}
  OBVIOUS
<1>3. PICK s \in Short({"file"}) :
       IF s # {} THEN Return(t, "ENOMEM") /\ OutOfMemory /\ UNCHANGED <<lock, memory, mixed>>
       ELSE \E r \in Ends(OpenedFor(c.n, mode), NoFIL) :
              /\ Trouble(r.res)
              /\ IF r.res # "OK" THEN Fails(t, r.res) /\ UNCHANGED <<lock, memory, mixed>>
                 ELSE /\ memory' = memory \union {<<"file", t>>} /\ Mixes(OpenAlready(c.n)) /\ UNCHANGED <<left, vret>>
                      /\ IF Len(store[c.n]) < c.k
                           THEN Goto_(t, [Idle_ EXCEPT !.at = "close", !.res = "EPERM"]) /\ UNCHANGED lock
                           ELSE TakeLock(t) /\ Goto_(t, [Idle_ EXCEPT !.at = "seek", !.in = r.fil])
  BY <1>2, Zenon DEF TruncateStart
<1>4. /\ Shapes /\ LockKept /\ (Clean => Agreed) /\ c \in PosixCalls /\ c.n \in Places /\ c.k \in Nat /\ store \in [Places -> Texts]
  <2>1. Shapes /\ LockKept /\ (Clean => Agreed)
    BY DEF VfsInv
  <2>2. c \in PosixCalls
    BY <1>1, <1>2, <2>1, CallIs
  <2> QED
    BY <1>1, <1>2, <2>1, <2>2, CallsHave DEF Shapes
<1>5. CASE s # {}
  <2>1. Return(t, "ENOMEM") /\ UNCHANGED <<lock, memory, mixed>>
    BY <1>3, <1>5
  <2>2. trouble \subseteq trouble' /\ trouble' \subseteq trouble \union {"disk", "memory"}
    BY <1>3, <1>5 DEF OutOfMemory
  <2> QED
    BY <1>1, <2>1, <2>2, CallNothing
<1>6. CASE s = {}
  <2>1. PICK r \in Ends(OpenedFor(c.n, mode), NoFIL) :
              /\ Trouble(r.res)
              /\ IF r.res # "OK" THEN Fails(t, r.res) /\ UNCHANGED <<lock, memory, mixed>>
                 ELSE /\ memory' = memory \union {<<"file", t>>} /\ Mixes(OpenAlready(c.n)) /\ UNCHANGED <<left, vret>>
                      /\ IF Len(store[c.n]) < c.k
                           THEN Goto_(t, [Idle_ EXCEPT !.at = "close", !.res = "EPERM"]) /\ UNCHANGED lock
                           ELSE TakeLock(t) /\ Goto_(t, [Idle_ EXCEPT !.at = "seek", !.in = r.fil])
    BY <1>3, <1>6, Zenon
  <2>2. mode \in SUBSET Modes /\ mode \cap {"CREATE_NEW", "CREATE_ALWAYS", "OPEN_ALWAYS"} = {}
    BY <1>2 DEF Modes
  <2>3. IsOutcome(r) /\ OpenGives(r, c.n, mode)
    BY <1>4, <2>2, OpenEnds
  <2>4. CASE r.res # "OK"
    <3>1. Return(t, fresult_to_errno[r.res]) /\ UNCHANGED <<lock, memory, mixed>>
      BY <2>1, <2>4 DEF Fails
    <3>2. trouble \subseteq trouble' /\ trouble' \subseteq trouble \union {"disk", "memory"}
      BY <2>1 DEF Trouble
    <3> QED
      BY <1>1, <3>1, <3>2, CallNothing
  <2>5. CASE r.res = "OK"
    <3>1. /\ memory' = memory \union {<<"file", t>>} /\ Mixes(OpenAlready(c.n)) /\ UNCHANGED left
          /\ Trouble(r.res)
      BY <2>1, <2>5
    <3>2. /\ IsFil(r.fil) /\ r.fil.fs /\ r.fil.n = c.n /\ r.fil.pos = 0 /\ ~r.fil.err
          /\ store[c.n] # Dir_ /\ store[c.n] # Absent
      BY <2>2, <2>3, <2>5 DEF OpenGives, IsOutcome
    <3>3. Len(store[c.n]) \in Nat
      <4>1. store[c.n] \in Texts
        BY <1>4
      <4> QED
        BY <4>1, LenProperties DEF Texts
    <3>4. PICK g \in Frames :
            /\ Goto_(t, g) /\ g.out = NoFIL
            /\ \/ g.at = "close" /\ g.res = "EPERM" /\ g.in = NoFIL /\ UNCHANGED lock
               \/ g.at = "seek" /\ g.in = r.fil /\ TakeLock(t) /\ c.k <= Len(store[c.n])
      <4>1. CASE Len(store[c.n]) < c.k
        <5> DEFINE a == "close"
                   e == "EPERM"
        <5>1. PICK g : g = [Idle_ EXCEPT !.at = a, !.res = e]
          OBVIOUS
        <5>2. a \in Ats /\ a = "close" /\ ~WritingAt(a) /\ e \in Results \union {"EPERM"} /\ e = "EPERM"
          BY DEF Ats, WritingAt
        <5>3. Goto_(t, g) /\ UNCHANGED lock
          BY <2>1, <2>5, <4>1, <5>1
        <5> HIDE DEF a, e
        <5>4. Idle_ \in FrameRecords /\ Idle_.in = NoFIL /\ Idle_.out = NoFIL
          BY IdleIs, FramesAre
        <5>5. g \in FrameRecords /\ g.at = a /\ g.res = e /\ g.in = Idle_.in /\ g.out = Idle_.out
          BY <5>1, <5>2, <5>4 DEF FrameRecords
        <5>6. g \in Frames
          BY <5>2, <5>4, <5>5, NoFILIs, FramesAre DEF Copied
        <5> QED
          BY <5>2, <5>3, <5>4, <5>5, <5>6
      <4>2. CASE ~(Len(store[c.n]) < c.k)
        <5> DEFINE a == "seek"
        <5>1. PICK g : FrameIn(g, Idle_, a, r.fil)
          BY DEF FrameIn
        <5>2. a \in Ats /\ a = "seek" /\ ~WritingAt(a)
          BY DEF Ats, WritingAt
        <5>3. Goto_(t, g) /\ TakeLock(t)
          BY <2>1, <2>5, <4>2, <5>1 DEF FrameIn
        <5> HIDE DEF a
        <5>4. g \in Frames /\ g.at = a /\ g.in = r.fil /\ g.out = Idle_.out
          BY <3>2, <5>1, <5>2, IdleIs, FrameInIs
        <5>5. c.k <= Len(store[c.n])
          BY <1>4, <3>3, <4>2
        <5> QED
          BY <5>2, <5>3, <5>4, <5>5, IdleIs
      <4> QED
        BY <4>1, <4>2
    <3>5. Fits(g.at, Call(t).op)
      BY <1>1, <3>4, CutFits
    <3>6. CallShapes' /\ Others(t) /\ frame'[t] = g /\ Call(t)' = Call(t)
      BY <1>1, <1>4, <3>1, <3>4, <3>5, GotoStep
    <3>7. /\ ~Using(t)' /\ ~Using(t) /\ Holds(t) = {} /\ Holds(t)' = {<<"file", t>>} /\ ~Locked(t)
          /\ (\A n : ~Changing(t, n)) /\ (\A fd : ~Moving(t, fd))
      <4>1. ~Using(t) /\ Holds(t) = {} /\ ~Locked(t) /\ (\A n : ~Changing(t, n)) /\ (\A fd : ~Moving(t, fd))
        BY <1>1, Idles
      <4>2. ~Using(t)'
        BY <1>1, <3>4, <3>6 DEF Using, OnFd
      <4>3. Holds(t)' = {<<"file", t>>}
        BY <1>1, <3>4, <3>6 DEF Holds
      <4> QED
        BY <4>1, <4>2, <4>3
    <3>8. LockKept' /\ lock' \in Tasks \union {"free"}
      <4>1. CASE g.at = "close" /\ UNCHANGED lock
        <5>1. ~Locked(t)'
          BY <3>6, <4>1 DEF Locked
        <5> QED
          BY <1>1, <1>4, <3>6, <3>7, <4>1, <5>1, LockLeft DEF Shapes
      <4>2. CASE g.at = "seek" /\ TakeLock(t)
        <5>1. Locked(t)'
          BY <1>1, <3>6, <4>2 DEF Locked
        <5> QED
          BY <1>1, <1>4, <3>6, <4>2, <5>1, LockTaken DEF TakeLock
      <4> QED
        BY <3>4, <4>1, <4>2
    <3>9. OpenAlready(c.n) \in BOOLEAN
      BY OpenAlreadyIs
    <3>10. mixed' \in BOOLEAN /\ (mixed => mixed') /\ (Clean' => ~OpenAlready(c.n))
      BY <1>4, <3>1, <3>9, MixesStep
    <3>11. trouble' \subseteq {"disk", "memory", "link"} /\ trouble \subseteq trouble'
      BY <1>4, <3>1, TroubleStep
    <3>12. Clean' => Clean
      BY <3>10, <3>11, CleanStep
    <3>13. TaskWell(t)'
      <4>1. CutsWell(t)'
        <5>1. Call(t)' = c
          BY <1>2, <3>6
        <5> QED
          BY <1>1, <3>2, <3>4, <3>6, <5>1 DEF CutsWell
      <4> QED
        BY <1>1, <3>6, <3>7, <4>1 DEF TaskWell
    <3>14. ASSUME Clean' PROVE Agreed'
      <4>1. Agreed /\ posix \in Images
        BY <1>4, <3>12, <3>14 DEF Agreed
      <4>2. \A h \in Holders : Fil(h).fs => Fil(h).n # c.n
        BY <1>4, <3>10, <3>14, Unheld
      <4>3. store[c.n] \in Seq(Nat)
        BY <1>4, <3>2, <4>1 DEF Agreed
      <4>4. PICK in, out : in = g.in /\ out = g.out
        OBVIOUS
      <4>5. FilOk(t, in, frame[t].in) /\ FilOk(t, out, frame[t].out) /\ ~out.fs
        BY <1>1, <3>2, <3>3, <3>4, <4>2, <4>3, <4>4, NoFILIs DEF FilOk
      <4>6. in = frame'[t].in /\ out = frame'[t].out
        BY <3>6, <4>4
      <4>7. {} \in SUBSET Places
        OBVIOUS
      <4> QED
        BY <1>1, <1>4, <3>6, <3>7, <3>13, <4>1, <4>5, <4>6, <4>7, AgreedOwn
    <3>15. memory' = (memory \ Holds(t)) \union Holds(t)'
      BY <3>1, <3>7
    <3>16. store' \in [Places -> Texts]
      BY <1>1, <1>4
    <3> QED
      BY <1>1, <3>6, <3>8, <3>10, <3>11, <3>14, <3>15, <3>16, OwnStep
  <2> QED
    BY <2>4, <2>5
<1> QED
  BY <1>5, <1>6

LEMMA TruncateSeeksRight == ASSUME VfsInv, NEW t \in Tasks, TruncateSeeks(t) PROVE VfsInv'
<1>1. /\ frame[t].at = "seek" /\ Call(t).op = "truncate" /\ frame[t].at # "idle"
      /\ UNCHANGED <<left, files, o_append, mine, dirs, store, memory, contexts, mounted, posix, mixed>>
  BY DEF TruncateSeeks, At, Streams_, Contexts
<1>2. PICK c, f : c = Call(t) /\ f = frame[t]
  OBVIOUS
<1>3. PICK r \in Ends(SeekTo(f.in, c.k), f.in) :
       /\ Trouble(r.res)
       /\ IF r.res = "OK" THEN Goto_(t, [f EXCEPT !.at = "cut", !.in = r.fil]) /\ UNCHANGED lock
          ELSE GiveLock(t) /\ Goto_(t, [f EXCEPT !.at = "close", !.res = r.res])
  BY <1>2, Zenon DEF TruncateSeeks
<1>4. /\ Shapes /\ LockKept /\ (Clean => Agreed) /\ left[t] # <<>> /\ c \in PosixCalls /\ c.n \in Places /\ c.k \in Nat
      /\ f \in Frames /\ store \in [Places -> Texts] /\ ~Using(t) /\ (Clean => CutsWell(t))
  BY <1>1, <1>2, CutOffIs
<1>5. IsFil(f.in) /\ IsFil(f.out)
  BY <1>4, FrameHas
<1>6. Stays(r, f.in) /\ (f.in.fs /\ ~f.in.err /\ r.res # "DISK_ERR" => SeekGives(r, f.in, c.k))
  BY <1>4, <1>5, SeekEnds
<1>7. IsFil(r.fil) /\ r.res \in Results
  BY <1>6 DEF Stays, IsOutcome
<1>8. /\ trouble' \subseteq {"disk", "memory", "link"} /\ trouble \subseteq trouble' /\ (Clean' => r.res # "DISK_ERR")
  BY <1>3, <1>4, TroubleStep
<1>9. Clean' => Clean
  BY <1>1, <1>8, CleanStep
<1>10. {} \in SUBSET Places
  OBVIOUS
<1>11. ASSUME Clean', Agreed
       PROVE  /\ f.in.fs /\ f.in.n = c.n /\ c.k <= Len(store[c.n]) /\ store[c.n] \in Seq(Nat) /\ r.res = "OK"
              /\ r.fil.fs /\ r.fil.n = c.n /\ ~r.fil.err /\ r.fil.pos = c.k
  <2>1. f.in.fs /\ f.in.n = c.n /\ c.k <= Len(store[c.n])
    BY <1>1, <1>2, <1>4, <1>9, <1>11 DEF CutsWell
  <2>2. OwnFil(t, f.in)
    BY <1>2 DEF OwnFil
  <2>3. store[c.n] \in Seq(Nat) /\ Len(store[c.n]) \in Nat /\ ~f.in.err
    BY <1>4, <1>11, <2>1, <2>2, OwnAlone
  <2>4. SeekGives(r, f.in, c.k)
    BY <1>6, <1>8, <1>11, <2>1, <2>3
  <2>5. LesserOf(c.k, Len(store[c.n])) = c.k
    BY <1>4, <2>1, <2>3 DEF LesserOf
  <2> QED
    BY <1>6, <2>1, <2>3, <2>4, <2>5 DEF SeekGives, Stays
<1>12. Locked(t)
  BY <1>1 DEF Locked
<1>13. CASE r.res # "OK"
  <2>0. PICK e : e = r.res
    OBVIOUS
  <2> DEFINE g == [f EXCEPT !.at = "close", !.res = e]
             a == "close"
  <2>1. Goto_(t, g) /\ GiveLock(t)
    BY <1>3, <1>13, <2>0
  <2>2. FrameEnds(g, f, a, e) /\ a \in Ats /\ a = "close" /\ ~WritingAt(a) /\ e \in Results
    BY <1>7, <2>0 DEF FrameEnds, Ats, WritingAt
  <2> HIDE DEF g, a
  <2>3. g \in Frames /\ g.at = "close"
    BY <1>4, <2>2, FrameEndsIs
  <2>4. Fits(g.at, Call(t).op)
    BY <1>1, <2>3, CutFits
  <2>5. CallShapes' /\ Others(t) /\ frame'[t] = g /\ Call(t)' = Call(t)
    BY <1>1, <1>4, <2>1, <2>3, <2>4, GotoStep
  <2>6. ~Locked(t)'
    BY <1>1, <2>3, <2>5 DEF Locked
  <2>7. ~(Clean' /\ Agreed)
    BY <1>11, <1>13
  <2> QED
    BY <1>1, <1>4, <1>8, <1>10, <2>1, <2>3, <2>4, <2>6, <2>7, OwnGoesOn
<1>14. CASE r.res = "OK"
  <2> DEFINE g == [f EXCEPT !.at = "cut", !.in = r.fil]
             a == "cut"
  <2>1. Goto_(t, g) /\ UNCHANGED lock
    BY <1>3, <1>14
  <2>2. FrameIn(g, f, a, r.fil) /\ a \in Ats /\ a = "cut" /\ ~WritingAt(a)
    BY DEF FrameIn, Ats, WritingAt
  <2> HIDE DEF g, a
  <2>3. g \in Frames /\ g.at = "cut" /\ g.in = r.fil /\ g.out = f.out
    BY <1>4, <1>7, <2>2, FrameInIs
  <2>4. Fits(g.at, Call(t).op)
    BY <1>1, <2>3, CutFits
  <2>5. CallShapes' /\ Others(t) /\ frame'[t] = g /\ Call(t)' = Call(t)
    BY <1>1, <1>4, <2>1, <2>3, <2>4, GotoStep
  <2>6. Locked(t)'
    BY <2>3, <2>5 DEF Locked
  <2>7. ASSUME Clean', Agreed
        PROVE  /\ CutsWell(t)' /\ FilOk(t, g.in, f.in) /\ FilOk(t, g.out, f.out) /\ (g.in.fs /\ g.out.fs => g.in.n # g.out.n)
    <3>1. /\ f.in.fs /\ f.in.n = c.n /\ c.k <= Len(store[c.n]) /\ store[c.n] \in Seq(Nat)
          /\ r.fil.fs /\ r.fil.n = c.n /\ ~r.fil.err /\ r.fil.pos = c.k
      BY <1>11, <2>7
    <3>2. Call(t)' = c
      BY <1>2, <2>5
    <3>3. CutsWell(t)'
      BY <1>1, <2>3, <2>5, <3>1, <3>2 DEF CutsWell
    <3>4. FilOk(t, g.in, f.in)
      BY <1>1, <2>3, <3>1 DEF FilOk
    <3>5. <<"in", t>> \in Holders /\ Fil(<<"in", t>>) = f.in /\ <<"out", t>> \in Holders /\ Fil(<<"out", t>>) = f.out
          /\ <<"in", t>> # <<"out", t>>
      BY <1>2, HoldersAre
    <3>6. f.out.fs => f.out.n # c.n /\ Sound(f.out)
      BY <2>7, <3>1, <3>5 DEF Agreed
    <3>7. FilOk(t, g.out, f.out)
      BY <1>1, <2>3, <3>6 DEF FilOk, Sound
    <3> QED
      BY <2>3, <3>1, <3>3, <3>4, <3>6, <3>7
  <2>8. \A n : ~Changing(t, n)
    BY <1>1 DEF Changing, Using, OnFd
  <2> QED
    BY <1>1, <1>2, <1>4, <1>8, <1>10, <1>12, <2>1, <2>3, <2>4, <2>6, <2>7, <2>8, OwnGoesOn, ZenonT(30)
<1> QED
  BY <1>13, <1>14


LEMMA CutEnds ==
  ASSUME store \in [Places -> Texts], NEW f, IsFil(f), NEW r \in Ends(CutHere(f), f)
  PROVE  /\ Stays(r, f)
         /\ f.fs /\ r.res # "DISK_ERR" =>
              r.res = "OK" /\ r.disk = [store EXCEPT ![f.n] = SubSeq(store[f.n], 1, LesserOf(f.pos, Len(store[f.n])))]
<1> DEFINE q == CutHere(f)
<1>1. /\ IsOutcome(q) /\ q.fil = f /\ q.res = "OK"
      /\ f.fs => q.disk = [store EXCEPT ![f.n] = SubSeq(store[f.n], 1, LesserOf(f.pos, Len(store[f.n])))]
  BY CutHereIs
<1>2. MovedFil(q.fil, f)
  BY <1>1 DEF MovedFil, IsOutcome
<1> HIDE DEF q
<1>3. IsOutcome(r) /\ (r.res # "DISK_ERR" => r = q) /\ r.fil.fs = f.fs /\ r.fil.n = f.n
  <2>1. r \in Ends(q, f)
    BY DEF q
  <2> QED
    BY <1>1, <1>2, <2>1, FilAfter
<1> QED
  BY <1>1, <1>3 DEF Stays

LEMMA TruncateCutsRight == ASSUME VfsInv, NEW t \in Tasks, TruncateCuts(t) PROVE VfsInv'
<1>1. /\ frame[t].at = "cut" /\ Call(t).op = "truncate" /\ frame[t].at # "idle" /\ GiveLock(t)
      /\ UNCHANGED <<left, files, o_append, mine, dirs, memory, contexts, mounted, posix, mixed>>
  BY DEF TruncateCuts, At, Streams_, Contexts
<1>2. PICK c, f : c = Call(t) /\ f = frame[t]
  OBVIOUS
<1>3. PICK r \in Ends(CutHere(f.in), f.in) :
       store' = r.disk /\ Trouble(r.res) /\ Goto_(t, [f EXCEPT !.at = "close", !.res = r.res])
  BY <1>2, Zenon DEF TruncateCuts
<1>4. /\ Shapes /\ LockKept /\ (Clean => Agreed) /\ left[t] # <<>> /\ c \in PosixCalls /\ c.n \in Places /\ c.k \in Nat
      /\ f \in Frames /\ store \in [Places -> Texts] /\ ~Using(t) /\ (Clean => CutsWell(t))
  BY <1>1, <1>2, CutOffIs
<1>5. IsFil(f.in) /\ IsFil(f.out)
  BY <1>4, FrameHas
<1>6. /\ Stays(r, f.in)
      /\ f.in.fs /\ r.res # "DISK_ERR" =>
           r.res = "OK" /\ r.disk = [store EXCEPT ![f.in.n] = SubSeq(store[f.in.n], 1, LesserOf(f.in.pos, Len(store[f.in.n])))]
  BY <1>4, <1>5, CutEnds
<1>7. r.disk \in [Places -> Texts] /\ r.res \in Results
  BY <1>6 DEF Stays, IsOutcome
<1>8. /\ trouble' \subseteq {"disk", "memory", "link"} /\ trouble \subseteq trouble' /\ (Clean' => r.res # "DISK_ERR")
  BY <1>3, <1>4, TroubleStep
<1>9. Clean' => Clean
  BY <1>1, <1>8, CleanStep
<1> DEFINE N == {c.n}
<1>10. N \in SUBSET Places
  BY <1>4
<1>11. ASSUME Clean', Agreed
       PROVE  /\ f.in.fs /\ f.in.n = c.n /\ f.in.pos = c.k /\ ~f.in.err /\ store[c.n] \in Seq(Nat) /\ c.k <= Len(store[c.n])
              /\ r.res = "OK" /\ SubSeq(store[c.n], 1, c.k) \in Seq(Nat) /\ Len(SubSeq(store[c.n], 1, c.k)) = c.k
              /\ store' = [store EXCEPT ![c.n] = SubSeq(store[c.n], 1, c.k)] /\ posix.disk[c.n] = store[c.n]
              /\ \A h \in Holders \ HoldersOf(t, {}) : Fil(h).fs => Fil(h).n # c.n
  <2>1. f.in.fs /\ f.in.n = c.n /\ c.k <= Len(store[c.n]) /\ f.in.pos = c.k
    BY <1>1, <1>2, <1>4, <1>9, <1>11 DEF CutsWell
  <2>2. PICK g : g = f.in /\ OwnFil(t, g) /\ g.fs /\ c.n = g.n
    BY <1>2, <2>1 DEF OwnFil
  <2>3. ~Changing(t, c.n)
    BY <1>1 DEF Changing, Using, OnFd
  <2>4. /\ store[c.n] \in Seq(Nat) /\ Len(store[c.n]) \in Nat /\ ~g.err /\ posix.disk[c.n] = store[c.n]
        /\ \A h \in Holders \ HoldersOf(t, {}) : Fil(h).fs => Fil(h).n # c.n
    BY <1>4, <1>11, <2>2, <2>3, OwnAlone
  <2>5. LesserOf(c.k, Len(store[c.n])) = c.k
    BY <1>4, <2>1, <2>4 DEF LesserOf
  <2>6. r.res = "OK" /\ store' = [store EXCEPT ![c.n] = SubSeq(store[c.n], 1, c.k)]
    BY <1>3, <1>6, <1>8, <1>11, <2>1, <2>5
  <2>7. SubSeq(store[c.n], 1, c.k) \in Seq(Nat) /\ Len(SubSeq(store[c.n], 1, c.k)) = c.k
    BY <1>4, <2>1, <2>4, CutIs
  <2> QED
    BY <2>1, <2>2, <2>4, <2>6, <2>7
<1>12. PICK e : e = r.res
  OBVIOUS
<1> DEFINE g == [f EXCEPT !.at = "close", !.res = e]
           a == "close"
<1>13. Goto_(t, g)
  BY <1>3, <1>12
<1>14. FrameEnds(g, f, a, e) /\ a \in Ats /\ a = "close" /\ ~WritingAt(a) /\ e \in Results
  BY <1>7, <1>12 DEF FrameEnds, Ats, WritingAt
<1> HIDE DEF g, a
<1>15. g \in Frames /\ g.at = "close" /\ g.in = f.in /\ g.out = f.out /\ g.res = e
  BY <1>4, <1>14, FrameEndsIs
<1>16. Fits(g.at, Call(t).op)
  BY <1>1, <1>15, CutFits
<1>17. CallShapes' /\ Others(t) /\ frame'[t] = g /\ Call(t)' = Call(t)
  BY <1>1, <1>4, <1>13, <1>15, <1>16, GotoStep
<1>18. ~Locked(t)'
  BY <1>1, <1>15, <1>17 DEF Locked
<1>19. Clean' => ~Streaming \/ \A n \in Places : (store'[n] = Absent <=> store[n] = Absent)
  <2> SUFFICES ASSUME Clean', NEW n \in Places PROVE store'[n] = Absent <=> store[n] = Absent
    OBVIOUS
  <2>1. /\ store' = [store EXCEPT ![c.n] = SubSeq(store[c.n], 1, c.k)] /\ SubSeq(store[c.n], 1, c.k) \in Seq(Nat)
        /\ store[c.n] \in Seq(Nat)
    BY <1>4, <1>9, <1>11
  <2>2. store'[c.n] \in Seq(Nat) /\ \A i \in Places \ {c.n} : store'[i] = store[i]
    BY <1>4, <2>1
  <2> QED
    BY <2>1, <2>2, AbsentIs
<1>20. store' \in [Places -> Texts]
  BY <1>3, <1>7
<1>21. ASSUME Clean', Agreed
       PROVE  /\ CutsWell(t)' /\ FilOk(t, g.in, f.in) /\ FilOk(t, g.out, f.out) /\ (g.in.fs /\ g.out.fs => g.in.n # g.out.n)
              /\ \A n \in Places \ N : store'[n] = store[n]
              /\ \A n \in N : /\ \A h \in Holders \ HoldersOf(t, {}) : Fil(h).fs => Fil(h).n # n
                              /\ store'[n] \in {Absent, Dir_} \union Seq(Nat)
              /\ \A n \in Places : n \in N \/ Changing(t, n) => Changing(t, n)'
  <2>1. /\ f.in.fs /\ f.in.n = c.n /\ f.in.pos = c.k /\ ~f.in.err /\ store[c.n] \in Seq(Nat) /\ c.k <= Len(store[c.n])
        /\ r.res = "OK" /\ SubSeq(store[c.n], 1, c.k) \in Seq(Nat) /\ Len(SubSeq(store[c.n], 1, c.k)) = c.k
        /\ store' = [store EXCEPT ![c.n] = SubSeq(store[c.n], 1, c.k)] /\ posix.disk[c.n] = store[c.n]
        /\ \A h \in Holders \ HoldersOf(t, {}) : Fil(h).fs => Fil(h).n # c.n
    BY <1>11, <1>21
  <2>2. store'[c.n] = SubSeq(store[c.n], 1, c.k) /\ \A i \in Places \ {c.n} : store'[i] = store[i]
    BY <1>4, <2>1
  <2>3. Call(t)' = c /\ c' = c
    BY <1>2, <1>17
  <2>4. CutsWell(t)'
    BY <1>1, <1>12, <1>15, <1>17, <2>1, <2>2, <2>3 DEF CutsWell
  <2>5. FilOk(t, g.in, f.in)
    <3>1. f.in.pos <= Len(store'[f.in.n]) /\ store'[f.in.n] \in Seq(Nat)
      BY <1>4, <2>1, <2>2
    <3> QED
      BY <1>15, <2>1, <3>1 DEF FilOk
  <2>6. <<"in", t>> \in Holders /\ Fil(<<"in", t>>) = f.in /\ <<"out", t>> \in Holders /\ Fil(<<"out", t>>) = f.out
        /\ <<"in", t>> # <<"out", t>>
    BY <1>2, HoldersAre
  <2>7. f.out.fs => f.out.n # c.n /\ Sound(f.out) /\ f.out.n \in Places
    <3>1. f.out.fs => f.out.n \in Places
      BY <1>5 DEF IsFil
    <3>2. f.out.fs => Sound(f.out)
      BY <1>21, <2>6 DEF Agreed
    <3>3. f.out.fs => f.out.n # c.n
      <4>1. \A i, j \in Holders : Fil(i).fs /\ Fil(j).fs /\ Fil(i).n = Fil(j).n => i = j
        BY <1>21 DEF Agreed
      <4>2. Fil(<<"in", t>>).fs /\ Fil(<<"in", t>>).n = c.n
        BY <2>1, <2>6
      <4> QED
        BY <2>6, <4>1, <4>2
    <3> QED
      BY <3>1, <3>2, <3>3
  <2>8. FilOk(t, g.out, f.out)
    BY <1>15, <2>2, <2>7 DEF FilOk, Sound
  <2>9. \A n : ~Changing(t, n)
    BY <1>1 DEF Changing, Using, OnFd
  <2>10. Changing(t, c.n)'
    <3>1. (Call(t).n)' = c.n /\ (Call(t).op)' = "truncate"
      BY <1>1, <1>2, <1>17
    <3> QED
      BY <1>12, <1>15, <1>17, <2>1, <3>1 DEF Changing
  <2> QED
    BY <1>15, <2>1, <2>2, <2>4, <2>5, <2>7, <2>8, <2>9, <2>10
<1> HIDE DEF N
<1> QED
  BY <1>1, <1>2, <1>4, <1>8, <1>10, <1>13, <1>15, <1>16, <1>18, <1>19, <1>20, <1>21, OwnGoesOn

LEMMA TruncateClosesRight == ASSUME VfsInv, NEW t \in Tasks, TruncateCloses(t) PROVE VfsInv'
<1>1. /\ frame[t].at = "close" /\ Call(t).op = "truncate" /\ frame[t].at # "idle" /\ memory' = memory \ {<<"file", t>>}
      /\ UNCHANGED <<lock, files, o_append, mine, dirs, store, contexts, mounted, mixed>>
  BY DEF TruncateCloses, At, Streams_, Contexts
<1>2. PICK c, f : c = Call(t) /\ f = frame[t]
  OBVIOUS
<1>3. /\ \E res : Trouble(res)
      /\ \E x : Return(t, x)
      /\ posix' = IF f.res = "OK" THEN [posix EXCEPT !.disk[c.n] = SubSeq(@, 1, c.k)] ELSE posix
  BY <1>2 DEF TruncateCloses, Fails, Means
<1>4. /\ Shapes /\ LockKept /\ (Clean => Agreed) /\ left[t] # <<>> /\ c \in PosixCalls /\ c.n \in Places /\ c.k \in Nat
      /\ f \in Frames /\ store \in [Places -> Texts] /\ ~Using(t) /\ Holds(t) = {<<"file", t>>} /\ (Clean => CutsWell(t))
  BY <1>1, <1>2, CutOffIs
<1>5. /\ trouble' \subseteq {"disk", "memory", "link"} /\ trouble \subseteq trouble'
  BY <1>3, <1>4, TroubleStep
<1>6. ~Locked(t)
  BY <1>1 DEF Locked
<1>7. Clean' => Clean
  BY <1>1, <1>5, CleanStep
<1>8. \A n : Changing(t, n) <=> f.res = "OK" /\ n = c.n
  BY <1>1, <1>2 DEF Changing, Using, OnFd
<1>9. ASSUME Clean', Agreed
      PROVE  /\ posix' \in Images /\ posix'.pos = posix.pos
             /\ \A n \in Places : ~Changing(t, n) => posix'.disk[n] = posix.disk[n]
             /\ \A n \in Places : Changing(t, n) =>
                  posix'.disk[n] = store[n] /\ \A h \in Holders \ HoldersOf(t, {}) : Fil(h).fs => Fil(h).n # n
  <2>1. posix \in Images /\ posix.disk \in [Places -> Texts]
    BY <1>9, ImageIs DEF Agreed
  <2>2. CASE f.res # "OK"
    BY <1>3, <1>8, <2>1, <2>2
  <2>3. CASE f.res = "OK"
    <3>1. f.in.fs /\ f.in.n = c.n /\ c.k <= Len(posix.disk[c.n]) /\ store[c.n] = SubSeq(posix.disk[c.n], 1, c.k)
      BY <1>1, <1>2, <1>4, <1>7, <1>9, <2>3 DEF CutsWell
    <3>2. PICK g : g = f.in /\ OwnFil(t, g) /\ g.fs /\ c.n = g.n
      BY <1>2, <3>1 DEF OwnFil
    <3>3. \A h \in Holders \ HoldersOf(t, {}) : Fil(h).fs => Fil(h).n # c.n
      BY <1>4, <1>9, <3>2, OwnAlone
    <3>4. posix' = [posix EXCEPT !.disk[c.n] = store[c.n]]
      BY <1>3, <2>3, <3>1
    <3>5. posix' \in Images /\ posix'.pos = posix.pos /\ posix'.disk = [posix.disk EXCEPT ![c.n] = store[c.n]]
      BY <1>4, <2>1, <3>4 DEF Images
    <3>6. posix'.disk[c.n] = store[c.n] /\ \A n \in Places \ {c.n} : posix'.disk[n] = posix.disk[n]
      BY <1>4, <2>1, <3>5
    <3> QED
      BY <1>8, <2>3, <3>3, <3>5, <3>6
  <2> QED
    BY <2>2, <2>3
<1> QED
  BY <1>1, <1>3, <1>4, <1>5, <1>6, <1>9, OwnReturns

-----------------------------------------------------------------------------
(* The directory streams and the contexts. *)

Streams == [open : BOOLEAN, at : 0 .. 4, offset : Nat]
Before(at) == {n \in Places : n <= at /\ store[n] # Absent}
OpenOf(t) == IF dirs[t].open THEN {<<"dir", t>>} ELSE {}

LEMMA BeforeIs == \A at : IsFiniteSet(Before(at)) /\ Cardinality(Before(at)) \in Nat
<1>1. IsFiniteSet(Places)
  <2>1. Places = {1, 2, 3} /\ IsFiniteSet({})
    BY FS_EmptySet DEF Places
  <2>2. IsFiniteSet({} \union {1})
    BY <2>1, FS_AddElement
  <2>3. IsFiniteSet(({} \union {1}) \union {2})
    BY <2>2, FS_AddElement
  <2>4. IsFiniteSet((({} \union {1}) \union {2}) \union {3})
    BY <2>3, FS_AddElement
  <2>5. Places = (({} \union {1}) \union {2}) \union {3}
    BY <2>1
  <2> QED
    BY <2>4, <2>5
<1>2. \A at : Before(at) \subseteq Places
  BY DEF Before
<1> QED
  BY <1>1, <1>2, FS_Subset, FS_CardinalityType

(* The next entry is the only one between. *)
LEMMA NextIs ==
  ASSUME NEW at \in 0 .. 4
  PROVE  /\ NextOf(at) \in 0 .. 4
         /\ NextOf(at) = End => Before(NextOf(at)) = Before(at)
         /\ NextOf(at) # End => NextOf(at) \notin Before(at) /\ Before(NextOf(at)) = Before(at) \union {NextOf(at)}
<1>1. CASE Following(at) = {}
  <2>1. NextOf(at) = End /\ End \in 0 .. 4
    BY <1>1 DEF NextOf, End
  <2>2. Before(End) = Before(at)
    BY <1>1 DEF Before, Following, End, Places
  <2> QED
    BY <2>1, <2>2
<1>2. CASE Following(at) # {}
  <2>1. \E n \in Following(at) : \A m \in Following(at) : n <= m
    BY <1>2 DEF Following, Places
  <2>2. NextOf(at) \in Following(at) /\ \A m \in Following(at) : NextOf(at) <= m
    BY <1>2, <2>1 DEF NextOf
  <2>3. NextOf(at) \in Places /\ NextOf(at) > at /\ store[NextOf(at)] # Absent
    BY <2>2 DEF Following
  <2>4. NextOf(at) \in 0 .. 4 /\ NextOf(at) # End /\ NextOf(at) \notin Before(at)
    BY <2>3 DEF Before, End, Places
  <2>5. PICK n : n = NextOf(at)
    OBVIOUS
  <2>6. n \in Places /\ n > at /\ store[n] # Absent /\ \A m \in Places : m > at /\ store[m] # Absent => n <= m
    BY <2>2, <2>3, <2>5 DEF Following
  <2>7. Before(n) = Before(at) \union {n}
    BY <2>6 DEF Before, Places
  <2> QED
    BY <2>4, <2>5, <2>7
<1> QED
  BY <1>1, <1>2

StreamGoes(d, e) ==
  e.open = d.open /\ e.at = NextOf(d.at) /\ (e.offset = d.offset + 1 \/ (e.offset = d.offset /\ e.at = End))

LEMMA PlacedIs ==
  \A t : Placed(t) <=> (dirs[t].open => IF dirs[t].at = End THEN dirs[t].offset >= Cardinality(Before(dirs[t].at))
                                        ELSE dirs[t].offset = Cardinality(Before(dirs[t].at)))
BY DEF Placed, Before

LEMMA OneMore == ASSUME NEW S, NEW x, x \notin S, IsFiniteSet(S) PROVE Cardinality(S \union {x}) = Cardinality(S) + 1
BY FS_AddElement

LEMMA StreamGoesWell ==
  ASSUME NEW t \in Tasks, NEW d \in Streams, d = dirs[t], StreamGoes(d, dirs'[t]), UNCHANGED store, Placed(t)
  PROVE  Placed(t)'
<1>1. PICK e, a, n : e = dirs'[t] /\ a = Cardinality(Before(d.at)) /\ n = Cardinality(Before(e.at))
  OBVIOUS
<1>2. a \in Nat /\ n \in Nat /\ d.offset \in Nat /\ d.at \in 0 .. 4
  BY <1>1, BeforeIs DEF Streams
<1>3. e.at = NextOf(d.at) /\ e.open = d.open /\ (e.offset = d.offset + 1 \/ (e.offset = d.offset /\ e.at = End))
  BY <1>1 DEF StreamGoes
<1>4. Placed(t)' <=> (e.open => IF e.at = End THEN e.offset >= n ELSE e.offset = n)
  BY <1>1 DEF Placed, Before
<1>5. Placed(t) <=> (d.open => IF d.at = End THEN d.offset >= a ELSE d.offset = a)
  BY <1>1, PlacedIs
<1>6. CASE e.at = End
  <2>1. n = a
    BY <1>1, <1>2, <1>3, <1>6, NextIs, ZenonT(30)
  <2> QED
    BY <1>2, <1>3, <1>4, <1>5, <1>6, <2>1
<1>7. CASE e.at # End
  <2>1. e.at \notin Before(d.at) /\ Before(e.at) = Before(d.at) \union {e.at} /\ Following(d.at) # {}
    BY <1>2, <1>3, <1>7, NextIs DEF NextOf
  <2>2. n = a + 1
    <3>1. PICK s, x : s = Before(d.at) /\ x = e.at
      OBVIOUS
    <3>2. IsFiniteSet(s) /\ x \notin s /\ Before(e.at) = s \union {x}
      BY <2>1, <3>1, BeforeIs, Zenon
    <3>3. Cardinality(s \union {x}) = Cardinality(s) + 1
      BY <3>2, OneMore
    <3> QED
      BY <1>1, <3>1, <3>2, <3>3, Zenon
  <2>3. d.at # End
    BY <2>1 DEF Following, End, Places
  <2> QED
    BY <1>2, <1>3, <1>4, <1>5, <1>7, <2>2, <2>3
<1> QED
  BY <1>6, <1>7

LEMMA StreamBegins ==
  ASSUME NEW t, dirs'[t].at = 0, dirs'[t].offset = 0
  PROVE  Placed(t)'
<1>1. {n \in Places : n <= 0 /\ store'[n] # Absent} = {}
  BY DEF Places
<1> QED
  BY <1>1, FS_EmptySet DEF Placed, End

(* A call that does no more than move, open or close the task's stream. *)
LEMMA StreamCall ==
  ASSUME VfsInv, NEW t \in Tasks, frame[t].at = "idle", left[t] # <<>>, NEW r, Return(t, r),
         trouble \subseteq trouble', trouble' \subseteq trouble \union {"disk", "memory"},
         UNCHANGED <<lock, files, o_append, store, posix, mixed, mine, contexts, mounted>>,
         NEW d \in Streams, dirs' = [dirs EXCEPT ![t] = d], Clean' /\ Placed(t) => Placed(t)',
         "link" \notin trouble' => memory' = (memory \ OpenOf(t)) \union OpenOf(t)'
  PROVE  VfsInv'
<1>1. /\ CallShapes' /\ Others(t) /\ frame'[t] = Idle_ /\ LockKept' /\ (Clean' => Clean) /\ (Clean' => Agreed')
      /\ Holds(t)' = Holds(t) /\ Holds(t) = {} /\ ("link" \in trouble <=> "link" \in trouble')
  BY CallOnly
<1>2. Shapes /\ MemoryKept /\ StreamPlaced /\ dirs \in [Tasks -> Streams]
  BY DEF VfsInv, Shapes, Streams
<1>3. dirs' \in [Tasks -> Streams] /\ \A u \in Tasks \ {t} : dirs'[u] = dirs[u]
  BY <1>2
<1>4. Shapes'
  BY <1>1, <1>2, <1>3, ShapesStep DEF Shapes, Streams
<1>5. Its(t) = OpenOf(t) /\ Its(t)' = OpenOf(t)'
  BY <1>1 DEF Its, OpenOf
<1>6. MemoryKept'
  BY <1>1, <1>2, <1>3, <1>5, MemoryStep DEF Contexts
<1>7. StreamPlaced'
  BY <1>1, <1>2, <1>3, StreamStep
<1> QED
  BY <1>1, <1>4, <1>6, <1>7, VfsInvStep

LEMMA OpendirRight == ASSUME VfsInv, NEW t \in Tasks, Opendir(t) PROVE VfsInv'
<1>1. /\ frame[t].at = "idle" /\ left[t] # <<>> /\ ~dirs[t].open
      /\ UNCHANGED <<lock, files, o_append, store, posix, mixed, mine, contexts, mounted>>
  BY DEF Opendir, CallBegins, Contexts
<1>2. PICK s \in Short({"dir"}) :
       IF s # {} THEN Return(t, "ENOMEM") /\ OutOfMemory /\ UNCHANGED <<dirs, memory>>
       ELSE \E r \in Ends(Done("OK", NoFIL, store, <<>>), NoFIL) :
              /\ Fails(t, r.res) /\ Trouble(r.res)
              /\ IF r.res = "OK" THEN /\ dirs' = [dirs EXCEPT ![t] = [NoDIR EXCEPT !.open = TRUE]]
                                     /\ memory' = memory \union {<<"dir", t>>}
                               ELSE UNCHANGED <<dirs, memory>>
  BY DEF Opendir
<1>3. CASE s # {}
  <2>1. trouble' = trouble \union {"memory"} /\ UNCHANGED <<dirs, memory>> /\ \E x : Return(t, x)
    BY <1>2, <1>3 DEF OutOfMemory
  <2> QED
    BY <1>1, <2>1, CallNothing
<1>4. CASE s = {}
  <2>1. PICK res : /\ \E x : Return(t, x)
                   /\ Trouble(res)
                   /\ IF res = "OK" THEN /\ dirs' = [dirs EXCEPT ![t] = [NoDIR EXCEPT !.open = TRUE]]
                                         /\ memory' = memory \union {<<"dir", t>>}
                                    ELSE UNCHANGED <<dirs, memory>>
    BY <1>2, <1>4 DEF Fails
  <2>2. trouble \subseteq trouble' /\ trouble' \subseteq trouble \union {"disk", "memory"}
    BY <2>1 DEF Trouble
  <2>3. CASE res # "OK"
    BY <1>1, <2>1, <2>2, <2>3, CallNothing
  <2>4. CASE res = "OK"
    <3>1. PICK d : d = [NoDIR EXCEPT !.open = TRUE]
      OBVIOUS
    <3>2. d \in Streams /\ d.open /\ d.at = 0 /\ d.offset = 0
      <4>1. d = [open |-> TRUE, at |-> 0, offset |-> 0]
        BY <3>1 DEF NoDIR
      <4> QED
        BY <4>1 DEF Streams
    <3>3. dirs' = [dirs EXCEPT ![t] = d] /\ dirs'[t] = d
      BY <2>1, <2>4, <3>1 DEF VfsInv, Shapes
    <3>4. Placed(t)'
      BY <3>2, <3>3, StreamBegins
    <3>5. memory' = (memory \ OpenOf(t)) \union OpenOf(t)'
      BY <1>1, <2>1, <2>4, <3>2, <3>3 DEF OpenOf
    <3> QED
      BY <1>1, <2>1, <2>2, <3>2, <3>3, <3>4, <3>5, StreamCall
  <2> QED
    BY <2>3, <2>4
<1> QED
  BY <1>3, <1>4

LEMMA ReaddirRight == ASSUME VfsInv, NEW t \in Tasks, Readdir(t) PROVE VfsInv'
<1>1. /\ frame[t].at = "idle" /\ left[t] # <<>> /\ dirs[t].open
      /\ UNCHANGED <<lock, files, o_append, store, posix, mixed, mine, contexts, mounted, memory>>
  BY DEF Readdir, CallBegins, Contexts
<1>2. PICK n, res : /\ n = NextOf(dirs[t].at) /\ Trouble(res)
                    /\ \E x : Return(t, x)
                    /\ IF res # "OK" THEN UNCHANGED dirs
                       ELSE dirs' = [dirs EXCEPT ![t].at = n, ![t].offset = IF n = End THEN @ ELSE @ + 1]
  BY DEF Readdir, Fails
<1>3. trouble \subseteq trouble' /\ trouble' \subseteq trouble \union {"disk", "memory"}
  BY <1>2 DEF Trouble
<1>4. CASE res # "OK"
  BY <1>1, <1>2, <1>3, <1>4, CallNothing
<1>5. CASE res = "OK"
  <2>1. PICK d, e : d = dirs[t] /\ e = [d EXCEPT !.at = n, !.offset = IF n = End THEN @ ELSE @ + 1]
    BY Zenon
  <2>2. d \in Streams /\ dirs \in [Tasks -> Streams] /\ d.at \in 0 .. 4
    BY <2>1 DEF VfsInv, Shapes, Streams
  <2>3. n \in 0 .. 4
    BY <1>2, <2>1, <2>2, NextIs
  <2>4. e \in Streams /\ StreamGoes(d, e) /\ e.open = d.open
    <3>1. PICK k : k = IF n = End THEN d.offset ELSE d.offset + 1
      OBVIOUS
    <3>2. e = [d EXCEPT !.at = n, !.offset = k]
      BY <2>1, <3>1
    <3>3. e.open = d.open /\ e.at = n /\ e.offset = k /\ k \in Nat /\ d.open \in BOOLEAN /\ d.offset \in Nat
      BY <2>2, <3>1, <3>2 DEF Streams
    <3>4. e \in Streams
      BY <2>2, <2>3, <3>2, <3>3 DEF Streams
    <3> QED
      BY <1>2, <2>1, <3>1, <3>3, <3>4 DEF StreamGoes
  <2>5. dirs' = [dirs EXCEPT ![t] = e] /\ dirs'[t] = e
    BY <1>2, <1>5, <2>1, <2>2
  <2>6. Placed(t) => Placed(t)'
    BY <1>1, <2>1, <2>2, <2>4, <2>5, StreamGoesWell
  <2>7. OpenOf(t) = {<<"dir", t>>} /\ OpenOf(t)' = {<<"dir", t>>} /\ OpenOf(t) \subseteq Its(t)
    BY <1>1, <2>1, <2>4, <2>5 DEF OpenOf, Its
  <2>8. "link" \notin trouble' => memory' = (memory \ OpenOf(t)) \union OpenOf(t)'
    BY <1>1, <1>3, <2>7, ItsHeld DEF VfsInv
  <2> QED
    BY <1>1, <1>2, <1>3, <2>4, <2>5, <2>6, <2>8, StreamCall
<1> QED
  BY <1>4, <1>5

LEMMA ClosedirRight == ASSUME VfsInv, NEW t \in Tasks, Closedir(t) PROVE VfsInv'
<1>1. /\ frame[t].at = "idle" /\ left[t] # <<>> /\ dirs[t].open
      /\ UNCHANGED <<lock, files, o_append, store, posix, mixed, mine, contexts, mounted>>
      /\ dirs' = [dirs EXCEPT ![t] = NoDIR] /\ memory' = memory \ {<<"dir", t>>}
  BY DEF Closedir, CallBegins, Contexts
<1>2. PICK res : Trouble(res) /\ \E x : Return(t, x)
  BY DEF Closedir, Fails
<1>3. trouble \subseteq trouble' /\ trouble' \subseteq trouble \union {"disk", "memory"}
  BY <1>2 DEF Trouble
<1>4. NoDIR \in Streams /\ ~NoDIR.open
  BY DEF NoDIR, Streams
<1>5. dirs'[t] = NoDIR
  BY <1>1 DEF VfsInv, Shapes
<1>6. Placed(t)'
  BY <1>4, <1>5 DEF Placed
<1>7. memory' = (memory \ OpenOf(t)) \union OpenOf(t)'
  BY <1>1, <1>4, <1>5 DEF OpenOf
<1> QED
  BY <1>1, <1>2, <1>3, <1>4, <1>6, <1>7, StreamCall


(* A task that is between calls, or moves its stream. *)
Quiet(t) == ~Using(t) /\ Holds(t) = {} /\ ~Locked(t) /\ (\A n : ~Changing(t, n)) /\ (\A fd : ~Moving(t, fd)) /\ TaskWell(t)

LEMMA SeeksQuietly == ASSUME NEW t, frame[t].at = "seek", Call(t).op = "seekdir" PROVE Quiet(t)
<1>1. ~Using(t)
  BY DEF Using, OnFd
<1>2. Holds(t) = {}
  BY DEF Holds
<1>3. ~Locked(t)
  BY DEF Locked
<1>4. (\A n : ~Changing(t, n)) /\ (\A fd : ~Moving(t, fd))
  BY <1>1 DEF Changing, Moving
<1>5. TaskWell(t)
  BY <1>1 DEF TaskWell
<1> QED
  BY <1>1, <1>2, <1>3, <1>4, <1>5 DEF Quiet

LEMMA WillSeekQuietly == ASSUME NEW t, frame'[t].at = "seek", (Call(t).op)' = "seekdir" PROVE Quiet(t)'
<1>1. ~Using(t)'
  BY DEF Using, OnFd
<1>2. Holds(t)' = {}
  BY DEF Holds
<1>3. ~Locked(t)'
  BY DEF Locked
<1>4. (\A n : ~Changing(t, n)') /\ (\A fd : ~Moving(t, fd)')
  BY <1>1 DEF Changing, Moving
<1>5. TaskWell(t)'
  BY <1>1 DEF TaskWell
<1> QED
  BY <1>1, <1>2, <1>3, <1>4, <1>5 DEF Quiet

LEMMA QuietStep ==
  ASSUME VfsInv, NEW t \in Tasks, CallShapes', Others(t), Quiet(t), Quiet(t)', frame'[t].at # "f_open",
         frame'[t] = frame[t] \/ (~frame'[t].in.fs /\ ~frame'[t].out.fs),
         trouble \subseteq trouble', trouble' \subseteq trouble \union {"disk", "memory"},
         UNCHANGED <<lock, files, o_append, mine, store, memory, contexts, mounted, posix, mixed>>,
         NEW d \in Streams, dirs' = [dirs EXCEPT ![t] = d], d.open = dirs[t].open, Clean' /\ Placed(t) => Placed(t)'
  PROVE  VfsInv'
<1>1. Shapes /\ LockKept /\ MemoryKept /\ StreamPlaced /\ (Clean => Agreed) /\ dirs \in [Tasks -> Streams]
  BY DEF VfsInv, Shapes, Streams
<1>2. dirs' \in [Tasks -> Streams] /\ (\A u \in Tasks \ {t} : dirs'[u] = dirs[u]) /\ (\A u \in Tasks : dirs'[u].open = dirs[u].open)
  BY <1>1
<1>3. Shapes'
  BY <1>1, <1>2, ShapesStep DEF Shapes, Streams
<1>4. LockKept'
  BY <1>1, LockLeft DEF Quiet
<1>5. MemoryKept'
  BY <1>1, <1>2, MemoryLeft DEF Quiet
<1>6. Clean' => Clean
  BY CleanStep
<1>7. StreamPlaced'
  BY <1>1, <1>2, <1>6, StreamStep
<1>8. ASSUME Clean' PROVE Agreed'
  <2>1. Agreed
    BY <1>1, <1>6, <1>8
  <2> QED
    BY <1>1, <2>1, AgreedQuiet DEF Quiet
<1> QED
  BY <1>3, <1>4, <1>5, <1>7, <1>8, VfsInvStep

LEMMA SeekdirStartRight == ASSUME VfsInv, NEW t \in Tasks, SeekdirStart(t) PROVE VfsInv'
<1>1. /\ frame[t].at = "idle" /\ left[t] # <<>> /\ dirs[t].open /\ Call(t).op = "seekdir"
      /\ UNCHANGED <<lock, files, o_append, mine, store, memory, contexts, mounted, posix, mixed>>
  BY DEF SeekdirStart, CallBegins, Contexts
<1> DEFINE a == "seek"
<1>8. PICK g, d : g = [Idle_ EXCEPT !.at = a] /\ d = [NoDIR EXCEPT !.open = TRUE]
  OBVIOUS
<1>9. PICK r : IF Call(t).ofs < dirs[t].offset /\ r.res # "OK" THEN Fails(t, r.res) /\ Trouble(r.res) /\ UNCHANGED dirs
       ELSE /\ r.res = "OK" /\ UNCHANGED <<left, vret, trouble>>
            /\ dirs' = IF Call(t).ofs < dirs[t].offset THEN [dirs EXCEPT ![t] = [NoDIR EXCEPT !.open = TRUE]] ELSE dirs
            /\ Goto_(t, [Idle_ EXCEPT !.at = "seek"])
  BY DEF SeekdirStart
<1>2. PICK res : /\ res # "OK" => Fails(t, res) /\ Trouble(res) /\ UNCHANGED dirs
                 /\ res = "OK" => /\ UNCHANGED <<left, vret, trouble>> /\ Goto_(t, g)
                                  /\ dirs' = [dirs EXCEPT ![t] = d] \/ UNCHANGED dirs
  <2>1. r.res # "OK" => Fails(t, r.res) /\ Trouble(r.res) /\ UNCHANGED dirs
    BY <1>9
  <2>2. r.res = "OK" => UNCHANGED <<left, vret, trouble>> /\ Goto_(t, g)
    BY <1>8, <1>9
  <2>3. r.res = "OK" => dirs' = [dirs EXCEPT ![t] = d] \/ UNCHANGED dirs
    BY <1>8, <1>9
  <2> QED
    BY <2>1, <2>2, <2>3
<1>3. CASE res # "OK"
  <2>1. Return(t, fresult_to_errno[res]) /\ UNCHANGED dirs
    BY <1>2, <1>3 DEF Fails
  <2>2. trouble \subseteq trouble' /\ trouble' \subseteq trouble \union {"disk", "memory"}
    BY <1>2, <1>3 DEF Trouble
  <2> QED
    BY <1>1, <2>1, <2>2, CallNothing
<1>4. CASE res = "OK"
  <2>1. UNCHANGED <<left, trouble>> /\ Goto_(t, g) /\ (dirs' = [dirs EXCEPT ![t] = d] \/ UNCHANGED dirs)
    BY <1>2, <1>4
  <2>2. d \in Streams /\ d.open /\ d.at = 0 /\ d.offset = 0
    <3>1. d = [open |-> TRUE, at |-> 0, offset |-> 0]
      BY <1>8 DEF NoDIR
    <3> QED
      BY <3>1 DEF Streams
  <2>3. FrameAt(g, Idle_, a) /\ a \in Ats /\ a = "seek" /\ ~WritingAt(a)
    BY <1>8 DEF FrameAt, Ats, WritingAt
  <2> HIDE DEF a
  <2>4. g \in Frames /\ g.at = "seek" /\ ~g.in.fs /\ ~g.out.fs
    BY <2>3, IdleIs, NoFILIs, FrameAtIs
  <2>5. Shapes /\ dirs \in [Tasks -> Streams]
    BY DEF VfsInv, Shapes, Streams
  <2>6. Fits(g.at, Call(t).op)
    BY <1>1, <2>4 DEF Fits
  <2>7. CallShapes' /\ Others(t) /\ frame'[t] = g /\ Call(t)' = Call(t)
    BY <1>1, <2>1, <2>4, <2>5, <2>6, GotoStep
  <2>8. Quiet(t)
    BY <1>1, Idles DEF Quiet
  <2>9. Quiet(t)'
    <3>1. frame'[t].at = "seek" /\ (Call(t).op)' = "seekdir"
      BY <1>1, <2>4, <2>7
    <3> QED
      BY <3>1, WillSeekQuietly
  <2>10. PICK e \in Streams : dirs' = [dirs EXCEPT ![t] = e] /\ e.open = dirs[t].open /\ (e = d \/ e = dirs[t])
    <3>1. CASE dirs' = [dirs EXCEPT ![t] = d]
      BY <1>1, <2>1, <2>2, <3>1
    <3>2. CASE UNCHANGED dirs
      <4>1. dirs[t] \in Streams /\ dirs' = [dirs EXCEPT ![t] = dirs[t]]
        BY <2>1, <2>5, <3>2
      <4> QED
        BY <4>1
    <3> QED
      BY <2>1, <3>1, <3>2
  <2>11. dirs'[t] = e
    BY <2>5, <2>10
  <2>12. Placed(t) => Placed(t)'
    <3>1. CASE e = d
      BY <2>2, <2>11, <3>1, StreamBegins
    <3>2. CASE e = dirs[t]
      BY <1>1, <2>11, <3>2 DEF Placed
    <3> QED
      BY <2>10, <3>1, <3>2
  <2> QED
    BY <1>1, <2>1, <2>4, <2>7, <2>8, <2>9, <2>10, <2>12, QuietStep
<1> QED
  BY <1>3, <1>4

LEMMA SeekdirRight == ASSUME VfsInv, NEW t \in Tasks, Seekdir(t) PROVE VfsInv'
<1>1. /\ frame[t].at = "seek" /\ frame[t].at # "idle" /\ Call(t).op = "seekdir"
      /\ UNCHANGED <<lock, files, o_append, mine, store, memory, contexts, mounted, posix, mixed>>
  BY DEF Seekdir, At, Contexts
<1>2. Shapes /\ dirs \in [Tasks -> Streams] /\ left[t] # <<>> /\ Quiet(t)
  BY <1>1, InACall, SeeksQuietly DEF VfsInv, Shapes, Streams
<1>3. PICK c, d : c = Call(t) /\ d = dirs[t]
  OBVIOUS
<1>4. d \in Streams /\ d.at \in 0 .. 4 /\ d.offset \in Nat
  BY <1>2, <1>3 DEF Streams
<1>5. trouble \subseteq trouble' /\ trouble' \subseteq trouble \union {"disk", "memory"}
  BY DEF Seekdir, Trouble
<1>6. ASSUME NEW x, Return(t, x), UNCHANGED dirs PROVE VfsInv'
  <2>1. CallShapes' /\ Others(t) /\ frame'[t] = Idle_
    BY <1>2, <1>6, ReturnStep
  <2>2. Quiet(t)' /\ frame'[t].at # "f_open" /\ ~frame'[t].in.fs /\ ~frame'[t].out.fs
    BY <2>1, Returned DEF Quiet
  <2>3. dirs' = [dirs EXCEPT ![t] = d] /\ (Placed(t) => Placed(t)')
    BY <1>1, <1>2, <1>3, <1>6 DEF Placed
  <2> QED
    BY <1>1, <1>2, <1>3, <1>4, <1>5, <2>1, <2>2, <2>3, QuietStep
<1>7. ASSUME dirs' = [dirs EXCEPT ![t].at = NextOf(@), ![t].offset = @ + 1], UNCHANGED <<left, frame>> PROVE VfsInv'
  <2>1. CallShapes' /\ Others(t) /\ frame'[t] = frame[t] /\ Call(t)' = Call(t)
    BY <1>2, <1>7, StayStep
  <2>2. frame'[t].at = "seek" /\ (Call(t).op)' = "seekdir"
    BY <1>1, <2>1
  <2>3. Quiet(t)'
    BY <2>2, WillSeekQuietly
  <2>4. PICK n, e : n = NextOf(d.at) /\ e = [d EXCEPT !.at = n, !.offset = @ + 1]
    BY Zenon
  <2>5. n \in 0 .. 4
    BY <1>4, <2>4, NextIs
  <2>6. e \in Streams /\ e.open = d.open /\ e.at = n /\ e.offset = d.offset + 1
    <3>1. PICK k : k = d.offset + 1
      OBVIOUS
    <3>2. e = [d EXCEPT !.at = n, !.offset = k]
      BY <2>4, <3>1
    <3>3. e.open = d.open /\ e.at = n /\ e.offset = k /\ k \in Nat
      BY <1>4, <3>1, <3>2 DEF Streams
    <3>4. e \in Streams
      BY <1>4, <2>5, <3>2, <3>3 DEF Streams
    <3> QED
      BY <3>1, <3>3, <3>4
  <2>7. StreamGoes(d, e)
    BY <2>4, <2>6 DEF StreamGoes
  <2>8. dirs' = [dirs EXCEPT ![t] = e] /\ dirs'[t] = e
    BY <1>2, <1>3, <1>7, <2>4
  <2>9. Placed(t) => Placed(t)'
    BY <1>1, <1>3, <1>4, <2>7, <2>8, StreamGoesWell
  <2> QED
    BY <1>1, <1>2, <1>3, <1>5, <2>1, <2>2, <2>3, <2>6, <2>8, <2>9, QuietStep
<1> QED
  BY <1>6, <1>7 DEF Seekdir, Fails

(* The table of the contexts. *)
LEMMA AddContextRight == ASSUME VfsInv, NEW t \in Tasks, AddContext(t) PROVE VfsInv'
<1>1. /\ frame[t].at = "idle" /\ left[t] # <<>> /\ Call(t).op = "register"
      /\ UNCHANGED <<lock, files, o_append, mine, dirs, store, posix, mixed>>
  BY DEF AddContext, CallBegins, Streams_
<1>2. PICK p : p = Call(t).path
  OBVIOUS
<1>3. Shapes /\ MemoryKept /\ StreamPlaced /\ p # "NULL"
  <2>1. Shapes /\ MemoryKept /\ StreamPlaced
    BY DEF VfsInv
  <2> QED
    BY <1>1, <1>2, <2>1, CallIs, CallsHave
<1>4. ASSUME NEW x, Return(t, x), trouble \subseteq trouble', trouble' \subseteq trouble \union {"memory"},
             UNCHANGED <<contexts, mounted, memory>>
      PROVE  VfsInv'
  BY <1>1, <1>4, CallNothing
<1>5. ASSUME NEW i \in find_unused_context_index, find_context_index_by_path(p) = {}, NEW x, Return(t, x), UNCHANGED trouble,
             contexts' = [contexts EXCEPT ![i] = p], mounted' = mounted \union {p},
             memory' = memory \union {<<"ctx", p>>, <<"o_append", p>>}
      PROVE  VfsInv'
  <2>1. /\ CallShapes' /\ Others(t) /\ frame'[t] = Idle_ /\ LockKept' /\ (Clean' => Clean) /\ (Clean' => Agreed')
        /\ Holds(t)' = Holds(t) /\ Shapes'
    BY <1>1, <1>5, CallOnly
  <2>2. i \in 1 .. FF_VOLUMES /\ contexts[i] = "NULL" /\ \A j \in 1 .. FF_VOLUMES : contexts[j] # p
    BY <1>5 DEF find_unused_context_index, find_context_index_by_path
  <2>3. /\ DOMAIN contexts' = 1 .. FF_VOLUMES /\ contexts'[i] = p
        /\ \A j \in (1 .. FF_VOLUMES) \ {i} : contexts'[j] = contexts[j]
    BY <1>3, <1>5, <2>2 DEF MemoryKept
  <2>4. mounted' = {contexts'[j] : j \in 1 .. FF_VOLUMES} \ {"NULL"}
    BY <1>3, <1>5, <2>2, <2>3 DEF MemoryKept
  <2>5. \A j, k \in 1 .. FF_VOLUMES : contexts'[j] = contexts'[k] => j = k \/ contexts'[j] = "NULL"
    BY <1>3, <2>2, <2>3 DEF MemoryKept
  <2>6. \A u \in Tasks : Its(u)' = Its(u)
    BY <1>1, <2>1 DEF Its, Others, Holds, Call
  <2>7. \A x1 : OfContexts(x1)' <=> OfContexts(x1) \/ x1 = <<"ctx", p>> \/ x1 = <<"o_append", p>>
    BY <1>5 DEF OfContexts
  <2>8. ASSUME "link" \notin trouble' PROVE \A y : y \in memory' <=> OfContexts(y)' \/ \E u \in Tasks : y \in Its(u)'
    <3>1. \A y : y \in memory <=> OfContexts(y) \/ \E u \in Tasks : y \in Its(u)
      BY <1>3, <1>5, <2>8 DEF MemoryKept
    <3> QED
      BY <1>5, <2>6, <2>7, <3>1
  <2>9. MemoryKept'
    BY <2>3, <2>4, <2>5, <2>8 DEF MemoryKept
  <2>10. StreamPlaced'
    BY <1>1, <1>3, <2>1, StreamLeft
  <2> QED
    BY <2>1, <2>9, <2>10, VfsInvStep
<1>6. CASE find_context_index_by_path(p) # {} \/ find_unused_context_index = {}
  BY <1>2, <1>4, <1>6 DEF AddContext
<1>7. CASE find_context_index_by_path(p) = {} /\ find_unused_context_index # {}
  <2>1. PICK s \in Short({"ctx", "o_append", "vfs"}), i \in find_unused_context_index :
          IF s # {} THEN Return(t, "NO_MEM") /\ OutOfMemory /\ UNCHANGED <<contexts, mounted, memory>>
          ELSE /\ contexts' = [contexts EXCEPT ![i] = p] /\ mounted' = mounted \union {p}
               /\ memory' = memory \union {<<"ctx", p>>, <<"o_append", p>>}
               /\ Return(t, "0") /\ UNCHANGED trouble
    BY <1>2, <1>7 DEF AddContext
  <2>2. CASE s # {}
    BY <1>4, <2>1, <2>2 DEF OutOfMemory
  <2>3. CASE s = {}
    BY <1>5, <1>7, <2>1, <2>3
  <2> QED
    BY <2>2, <2>3
<1> QED
  BY <1>6, <1>7

LEMMA DropContextRight == ASSUME VfsInv, NEW t \in Tasks, DropContext(t) PROVE VfsInv'
<1>1. /\ frame[t].at = "idle" /\ left[t] # <<>> /\ Call(t).op = "unregister"
      /\ UNCHANGED <<lock, files, o_append, mine, dirs, store, posix, mixed, trouble>>
  BY DEF DropContext, CallBegins, Streams_
<1>2. PICK p : p = Call(t).path
  OBVIOUS
<1>3. Shapes /\ MemoryKept /\ StreamPlaced /\ p # "NULL"
  <2>1. Shapes /\ MemoryKept /\ StreamPlaced
    BY DEF VfsInv
  <2> QED
    BY <1>1, <1>2, <2>1, CallIs, CallsHave
<1>4. CASE find_context_index_by_path(p) = {}
  <2>1. Return(t, "INVALID_STATE") /\ UNCHANGED <<contexts, mounted, memory>>
    BY <1>2, <1>4 DEF DropContext
  <2> QED
    BY <1>1, <2>1, CallNothing
<1>5. CASE find_context_index_by_path(p) # {}
  <2>1. /\ Return(t, "0") /\ mounted' = mounted \ {p}
        /\ memory' = memory \ {<<"ctx", p>>, <<"o_append", p>>}
        /\ contexts' = [i \in 1 .. FF_VOLUMES |-> IF i \in find_context_index_by_path(p) THEN "NULL" ELSE contexts[i]]
    BY <1>2, <1>5 DEF DropContext
  <2>2. /\ CallShapes' /\ Others(t) /\ frame'[t] = Idle_ /\ LockKept' /\ (Clean' => Clean) /\ (Clean' => Agreed')
        /\ Holds(t)' = Holds(t) /\ Shapes'
    BY <1>1, <2>1, CallOnly
  <2>3. DOMAIN contexts' = 1 .. FF_VOLUMES
        /\ \A j \in 1 .. FF_VOLUMES : contexts'[j] = IF contexts[j] = p THEN "NULL" ELSE contexts[j]
    BY <2>1 DEF find_context_index_by_path
  <2>4. mounted' = {contexts'[j] : j \in 1 .. FF_VOLUMES} \ {"NULL"}
    BY <1>3, <2>1, <2>3 DEF MemoryKept
  <2>5. \A j, k \in 1 .. FF_VOLUMES : contexts'[j] = contexts'[k] => j = k \/ contexts'[j] = "NULL"
    BY <1>3, <2>3 DEF MemoryKept
  <2>6. \A u \in Tasks : Its(u)' = Its(u)
    BY <1>1, <2>2 DEF Its, Others, Holds, Call
  <2>7. p \in mounted
    BY <1>3, <1>5 DEF MemoryKept, find_context_index_by_path
  <2>8. \A y : OfContexts(y)' <=> OfContexts(y) /\ y # <<"ctx", p>> /\ y # <<"o_append", p>>
    BY <2>1 DEF OfContexts
  <2>9. \A u \in Tasks : <<"ctx", p>> \notin Its(u) /\ <<"o_append", p>> \notin Its(u)
    BY <2>7, ItsApart DEF OfContexts
  <2>10. ASSUME "link" \notin trouble' PROVE \A y : y \in memory' <=> OfContexts(y)' \/ \E u \in Tasks : y \in Its(u)'
    <3>1. \A y : y \in memory <=> OfContexts(y) \/ \E u \in Tasks : y \in Its(u)
      BY <1>1, <1>3, <2>10 DEF MemoryKept
    <3> QED
      BY <2>1, <2>6, <2>8, <2>9, <3>1
  <2>11. MemoryKept'
    BY <2>3, <2>4, <2>5, <2>10 DEF MemoryKept
  <2>12. StreamPlaced'
    BY <1>1, <1>3, <2>2, StreamLeft
  <2> QED
    BY <2>2, <2>11, <2>12, VfsInvStep
<1> QED
  BY <1>4, <1>5

-----------------------------------------------------------------------------
(* From the beginning, through every step. *)

LEMMA VfsBegins == ASSUME VfsInit PROVE VfsInv
<1>1. /\ left \in [Tasks -> Seq(PosixCalls)] /\ frame = [t \in Tasks |-> Idle_] /\ lock = "free"
      /\ store \in [Places -> {Absent, Dir_} \union Seq(Nat)] /\ store \in [Places -> Texts]
  <2>1. /\ left = program.calls /\ frame = [t \in Tasks |-> Idle_] /\ lock = "free" /\ store = program.files /\ program \in Programs
    BY DEF VfsInit
  <2>2. left \in [Tasks -> Seq(PosixCalls)] /\ store \in [Places -> {Absent, Dir_} \union Seq(Nat)]
    BY <2>1, VfsConstants
  <2>3. {Absent, Dir_} \union Seq(Nat) \subseteq Texts
    BY AbsentIs, TextsHold
  <2> QED
    BY <2>1, <2>2, <2>3
<1>2. /\ files = [fd \in Fds |-> NoFIL] /\ o_append = [fd \in Fds |-> FALSE] /\ mine = [t \in Tasks |-> 0]
      /\ dirs = [t \in Tasks |-> NoDIR] /\ memory = {} /\ contexts = [i \in 1 .. FF_VOLUMES |-> "NULL"] /\ mounted = {}
      /\ trouble = {} /\ mixed = FALSE /\ posix = [disk |-> store, pos |-> [fd \in Fds |-> 0]]
  BY DEF VfsInit
<1>3. \A t \in Tasks : frame[t] = Idle_ /\ frame[t].at = "idle" /\ frame[t].in = NoFIL /\ frame[t].out = NoFIL
  BY <1>1, IdleIs
<1>4. NoDIR \in Streams /\ ~NoDIR.open
  BY DEF NoDIR, Streams
<1>5. Shapes
  <2>1. frame \in [Tasks -> Frames] /\ files \in [Fds -> {f \in FILs : IsFil(f)}] /\ o_append \in [Fds -> BOOLEAN]
    BY <1>1, <1>2, IdleIs, NoFILIs DEF IsFil
  <2>2. mine \in [Tasks -> -1 .. (MaxFiles - 1)]
    BY <1>2, VfsConstants
  <2>3. dirs \in [Tasks -> Streams]
    BY <1>2, <1>4
  <2>4. \A t \in Tasks : InCall(t)
    BY <1>3 DEF InCall
  <2> QED
    BY <1>1, <1>2, <2>1, <2>2, <2>3, <2>4 DEF Shapes, Streams
<1>6. LockKept
  <2>1. \A t \in Tasks : ~Locked(t)
    BY <1>3, Idles
  <2> QED
    BY <1>1, <1>3, <2>1, TasksAre DEF LockKept
<1>7. MemoryKept
  <2>1. \A t \in Tasks : Its(t) = {}
    BY <1>2, <1>3, <1>4, Idles DEF Its
  <2>2. \A x : ~OfContexts(x)
    BY <1>2 DEF OfContexts
  <2> QED
    BY <1>2, <2>1, <2>2 DEF MemoryKept
<1>8. StreamPlaced
  BY <1>2, <1>4 DEF StreamPlaced
<1>9. Agreed
  <2>1. \A h \in Holders : ~Fil(h).fs
    BY <1>2, <1>3, NoFILIs, HolderIs
  <2>2. posix \in Images /\ posix.disk = store
    BY <1>1, <1>2 DEF Images
  <2>3. \A t \in Tasks : ~Using(t) /\ TaskWell(t)
    BY <1>3, Idles
  <2>4. \A fd \in Fds : ~files[fd].fs
    BY <1>2, NoFILIs
  <2> QED
    BY <1>1, <2>1, <2>2, <2>3, <2>4 DEF Agreed
<1> QED
  BY <1>5, <1>6, <1>7, <1>8, <1>9 DEF VfsInv

LEMMA VfsStep == ASSUME VfsInv, NEW t \in Tasks, OnDescriptor(t) \/ OnName(t) \/ OnStream(t) \/ AddContext(t) \/ DropContext(t)
                 PROVE  VfsInv'
<1>1. CASE OnDescriptor(t)
  BY <1>1, OpenStartRight, OpenPathRight, CloseRight, FsyncRight, WriteStartRight, WriteSeeksRight, WriteRight, ReadRight,
     LseekStartRight, LseekRight, PositionalStartRight, PositionalSeeksRight, PositionalMovesRight, PositionalReturnsRight,
     RefuseRight DEF OnDescriptor
<1>2. CASE OnName(t)
  BY SMTT(30), <1>2, NameCallRight, LinkStartRight, LinkOpensFirstRight, LinkOpensSecondRight, LinkReadsRight, LinkWritesRight,
     LinkClosesRight, TruncateStartRight, TruncateSeeksRight, TruncateCutsRight, TruncateClosesRight DEF OnName
<1>3. CASE OnStream(t)
  BY <1>3, OpendirRight, ReaddirRight, SeekdirStartRight, SeekdirRight, ClosedirRight DEF OnStream
<1> QED
  BY <1>1, <1>2, <1>3, AddContextRight, DropContextRight

LEMMA VfsStutters == ASSUME VfsInv, UNCHANGED vfsVars PROVE VfsInv'
<1> USE DEF vfsVars
<1>1. Shapes'
  BY DEF VfsInv, Shapes, InCall, Call
<1>2. LockKept'
  BY DEF VfsInv, LockKept, Locked, Call
<1>3. MemoryKept'
  BY DEF VfsInv, MemoryKept, OfContexts, Its, Holds, Call
<1>4. StreamPlaced'
  BY DEF VfsInv, StreamPlaced
<1>5. PICK t \in Tasks : TRUE
  BY DEF Tasks
<1>6. ASSUME Clean' PROVE Agreed'
  <2>1. Clean /\ Agreed /\ Shapes
    BY <1>6 DEF VfsInv, Clean
  <2>2. TaskWell(t)' /\ (\A n : Changing(t, n)' <=> Changing(t, n)) /\ (\A fd : Moving(t, fd)' <=> Moving(t, fd))
        /\ (Using(t)' <=> Using(t))
    BY <2>1, TaskKept DEF Agreed, On
  <2> QED
    BY <2>1, <2>2, AgreedQuiet DEF Agreed, Others
<1> QED
  BY <1>1, <1>2, <1>3, <1>4, <1>6, VfsInvStep

-----------------------------------------------------------------------------
(* The parts of VfsRight. *)

LEMMA OwnedIs == ASSUME Shapes, LockKept PROVE DescriptorsOwned
<1>1. ASSUME NEW t \in Tasks, NEW u \in Tasks, t # u, frame[t].at = "f_open"
      PROVE  ~files[frame[t].fd].fs /\ frame[u].at # "f_open"
  <2>1. Locked(t) /\ lock = t /\ lock # u /\ ~Locked(u)
    BY <1>1 DEF LockKept, Locked
  <2> QED
    BY <1>1, <2>1 DEF LockKept, Locked
<1>2. lock = "free" <=> \A t \in Tasks : ~Locked(t)
  BY TasksAre DEF Shapes, LockKept
<1> QED
  BY <1>1, <1>2 DEF DescriptorsOwned, Locked

LEMMA AgreedIsPosix == ASSUME Shapes, Clean => Agreed PROVE LikePosix
<1>1. SUFFICES ASSUME AllIdle, Clean
               PROVE  store = posix.disk /\ \A fd \in Fds : files[fd].fs => files[fd].pos = posix.pos[fd]
  BY DEF LikePosix, Clean
<1>2. \A t \in Tasks : (\A n : ~Changing(t, n)) /\ (\A fd : ~Moving(t, fd))
  BY <1>1, Idles DEF AllIdle
<1>3. (\A n \in Places : posix.disk[n] = store[n]) /\ \A fd \in Fds : files[fd].fs => posix.pos[fd] = files[fd].pos
  BY <1>1, <1>2 DEF Agreed
<1>4. posix.disk \in [Places -> Texts] /\ store \in [Places -> Texts]
  BY <1>1 DEF Agreed, Images, Shapes
<1> QED
  BY <1>3, <1>4

LEMMA MemoryIs == ASSUME MemoryKept PROVE NothingHeld
<1>1. SUFFICES ASSUME AllIdle, "link" \notin trouble
               PROVE  memory = {<<"dir", t>> : t \in {u \in Tasks : dirs[u].open}}
                               \union {<<x, p>> : x \in {"ctx", "o_append"}, p \in mounted}
  BY DEF NothingHeld, MemoryKept
<1>2. \A t \in Tasks : Its(t) = IF dirs[t].open THEN {<<"dir", t>>} ELSE {}
  BY <1>1, Idles DEF AllIdle, Its
<1>3. \A x : x \in memory <=> OfContexts(x) \/ \E t \in Tasks : x \in Its(t)
  BY <1>1 DEF MemoryKept
<1>4. \A x : x \in memory <=> (\E p \in mounted : x = <<"ctx", p>> \/ x = <<"o_append", p>>)
                              \/ \E t \in Tasks : dirs[t].open /\ x = <<"dir", t>>
  BY <1>2, <1>3 DEF OfContexts
<1> QED
  BY <1>4

LEMMA VfsInvIsRight == ASSUME VfsInv PROVE VfsRight
<1>1. Shapes /\ LockKept /\ MemoryKept /\ StreamPlaced /\ (Clean => Agreed)
  BY DEF VfsInv
<1>2. VfsTypeOK
  BY <1>1 DEF VfsTypeOK, Shapes, IsFil
<1> QED
  BY <1>1, <1>2, OwnedIs, AgreedIsPosix, MemoryIs DEF VfsRight

(* Whatever two tasks ask of a volume, in every order of their steps and   *)
(* with any one disk or memory failure: no two open() give one descriptor; *)
(* files and positions are those POSIX asks for, unless two tasks used one *)
(* descriptor at once or a file was opened twice or removed while open; a  *)
(* stream's offset is its place; nothing stays allocated but for a link()  *)
(* whose files could not be opened (vfs_fat.c:117-904).                    *)
THEOREM VfsIsRight == VfsSpec => []VfsRight
<1>1. VfsInit => VfsInv
  BY VfsBegins
<1>2. VfsInv /\ [VfsNext]_vfsVars => VfsInv'
  BY VfsStep, VfsStutters DEF VfsNext
<1>3. VfsInv => VfsRight
  BY VfsInvIsRight
<1> QED
  BY <1>1, <1>2, <1>3, PTL DEF VfsSpec
=============================================================================
