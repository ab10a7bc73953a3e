------------------------------ MODULE FatNames ------------------------------
(***************************************************************************)
(* Names in a FAT directory: the 8.3 name every object has (SFN), the long *)
(* name kept in entries in front of it (LFN), what is searched for when a  *)
(* name is given and what a listing shows.                                 *)
(* Source: fatfs/src/ff.c (create_name, gen_numname, dir_find, ...),       *)
(* fatfs/src/ffunicode.c.  Code page 437, names in OEM code, a directory   *)
(* of a fixed size; no disk error, which FatFs.tla has.                    *)
(* Characters are numbers, a name is a sequence of OEM characters.         *)
(***************************************************************************)
EXTENDS Integers, Sequences, FiniteSets, SequencesExt, FiniteSetsExt

CONSTANTS
  FF_MAX_LFN,
  Directories, \* what is explored: [entries, holds, names, renames]
  MaxNamings   \* calls that change the directory

VARIABLES
  scene,   \* one of Directories
  dir,     \* the directory's entries
  made,    \* the names (Unicode, as given) the objects in the directory have
  said,    \* how the last call ended
  namings

namesVars == <<scene, dir, made, said, namings>>

-----------------------------------------------------------------------------
(* What comes of v, computed once.                                          *)
Using(v, Gives(_)) == CHOOSE r \in {Gives(x) : x \in {v}} : TRUE

(* Characters.                                                              *)

SPACE == 32
DOT == 46
NoChar == 65535
DDEM == 229 \* 0xE5, which marks a deleted entry
RDDEM == 5

(* The letters of the code page that are used here: e acute, E acute, small *)
(* and capital sigma.                                                       *)
uc437 == [c \in {130, 144, 228, 229} |->
            CASE c = 130 -> 233 [] c = 144 -> 201 [] c = 228 -> 931 [] c = 229 -> 963]

ff_oem2uni(c) == IF c < 128 THEN c ELSE IF c \in DOMAIN uc437 THEN uc437[c] ELSE 0

ff_uni2oem(u) ==
  IF u < 128 THEN u
  ELSE IF \E c \in DOMAIN uc437 : uc437[c] = u THEN CHOOSE c \in DOMAIN uc437 : uc437[c] = u
  ELSE 0

(* A character as it is shown, 0 when it cannot be.                         *)
put_utf(u) == ff_uni2oem(u)

(* Upper case in OEM code; a vowel loses its accent unless the code page    *)
(* has the capital.                                                         *)
ExCvt(c) == IF c = 130 THEN 69 ELSE c

(* Latin, Latin-1, Greek, Cyrillic.                                         *)
ff_wtoupper(u) ==
  IF u \in 97..122 \/ (u \in 224..254 /\ u # 247) \/ (u \in 945..969 /\ u # 962) \/ u \in 1072..1103
  THEN u - 32 ELSE u

IsUpper(c) == c \in 65..90
IsLower(c) == c \in 97..122

Uppers(s) == [i \in DOMAIN s |-> ff_wtoupper(s[i])]

-----------------------------------------------------------------------------
(* create_name(): the name as it will be kept and its directory form.       *)

tchar2uni(n) == [i \in DOMAIN n |-> ff_oem2uni(n[i])]

IllegalInLfn == {42, 58, 60, 62, 124, 34, 63, 127} \* * : < > | " ? DEL
IllegalInSfn == {43, 44, 59, 61, 91, 93}           \* + , ; = [ ]

Snip(s) ==
  LET kept == {i \in DOMAIN s : s[i] \notin {SPACE, DOT}}
  IN IF kept = {} THEN <<>> ELSE SubSeq(s, 1, Max(kept))

NameOf(n) == Snip(tchar2uni(n))

ValidName(n) ==
  /\ \A i \in DOMAIN n : ff_oem2uni(n[i]) \notin IllegalInLfn \union {0}
  /\ Len(n) <= FF_MAX_LFN
  /\ NameOf(n) # <<>>

(* A character of a field of the SFN, 0 when it has none.                   *)
SfnChar(u) ==
  IF u >= 128 THEN ExCvt(ff_uni2oem(u)) ELSE IF u \in IllegalInSfn THEN 0 ELSE u

Field(s, size) ==
  LET some(u) == IF SfnChar(u) = 0 THEN 95 ELSE IF IsLower(SfnChar(u)) THEN u - 32 ELSE SfnChar(u)
  IN [i \in 1..size |-> IF i <= Len(s) THEN some(s[i]) ELSE SPACE]

(* [fn, loss, lfn, body, ext]: the flags say that the SFN does not tell the *)
(* name, that an LFN is needed, that body or extension is in lower case.    *)
DirForm(s) ==
  LET letters == {i \in DOMAIN s : s[i] # SPACE}
      start == Min(letters)
      dots == {i \in DOMAIN s : s[i] = DOT}
      di == IF dots = {} THEN 0 ELSE Max(dots)
      bodyGiven == SubSeq(s, start, IF di = 0 THEN Len(s) ELSE di - 1)
      extGiven == IF di = 0 THEN <<>> ELSE SubSeq(s, di + 1, Len(s))
      Solid(u) == u \notin {SPACE, DOT}
      body == SelectSeq(bodyGiven, Solid)
      ext == SelectSeq(extGiven, Solid)
      Lower(f) == \E i \in DOMAIN f : IsLower(f[i])
      Mixed(f) == Lower(f) /\ \E i \in DOMAIN f : IsUpper(f[i])
      loss == \/ start > 1 \/ s[start] = DOT
              \/ Len(body) < Len(bodyGiven) \/ Len(ext) < Len(extGiven)
              \/ Len(body) > 8 \/ Len(ext) > 3
              \/ \E i \in DOMAIN s : SfnChar(s[i]) = 0
      lfn == loss \/ (\E i \in DOMAIN s : s[i] >= 128) \/ Mixed(body) \/ Mixed(ext)
      fn == Field(body, 8) \o Field(ext, 3)
  IN [fn |-> IF fn[1] = DDEM THEN [fn EXCEPT ![1] = RDDEM] ELSE fn, loss |-> loss, lfn |-> lfn,
      nt |-> [body |-> ~lfn /\ Lower(body), ext |-> ~lfn /\ Lower(ext)]]

-----------------------------------------------------------------------------
(* Entries.                                                                 *)

PlainCase == [body |-> FALSE, ext |-> FALSE]
NoEntry == [kind |-> "end", ord |-> 0, last |-> FALSE, sum |-> 0, chars |-> <<>>, fn |-> <<>>,
            nt |-> PlainCase, id |-> 0]
EndEntry == NoEntry
Deleted == [NoEntry EXCEPT !.kind = "deleted"]
LabelEntry == [NoEntry EXCEPT !.kind = "label"]
SfnEntry(fn, nt, id) == [NoEntry EXCEPT !.kind = "sfn", !.fn = fn, !.nt = nt, !.id = id]

sum_sfn(fn) == FoldLeft(LAMBDA s, c : ((s \div 2) + 128 * (s % 2) + c) % 256, 0, fn)

(* The ord-th 13 characters of a name.                                      *)
put_lfn(lfn, ord, sum) ==
  [NoEntry EXCEPT
     !.kind = "lfn", !.ord = ord, !.last = 13 * ord >= Len(lfn), !.sum = sum,
     !.chars = [i \in 1..13 |-> LET k == 13 * (ord - 1) + i
                                IN IF k <= Len(lfn) THEN lfn[k] ELSE IF k = Len(lfn) + 1 THEN 0 ELSE NoChar]]

(* The characters up to the terminator, and whether only filler follows it. *)
Text(e) == LET ends == {i \in 1..13 : e.chars[i] = 0}
           IN IF ends = {} THEN e.chars ELSE SubSeq(e.chars, 1, Min(ends))
Filled(e) == \A i \in (Len(Text(e)) + 1)..13 : e.chars[i] = NoChar

(* lfnbuf holds the name, its terminator and, behind it, what was in memory *)
(* before (junk: it happens to agree with whatever it is compared with).    *)
cmp_lfn(lfn, junk, e) ==
  LET from == 13 * (e.ord - 1)
      t == Text(e)
      Agrees(i) == LET k == from + i
                   IN /\ k <= FF_MAX_LFN + 1
                      /\ IF k <= Len(lfn) THEN ff_wtoupper(t[i]) = ff_wtoupper(lfn[k])
                         ELSE IF k = Len(lfn) + 1 THEN t[i] = 0 ELSE junk
  IN /\ Filled(e) /\ \A i \in DOMAIN t : Agrees(i)
     /\ ~(e.last /\ t[Len(t)] # 0 /\ (from + 13 < Len(lfn) \/ (from + 13 > Len(lfn) /\ junk)))

(* Collecting a name: what the entries gave so far follows this one's part. *)
pick_lfn(e) ==
  Filled(e) /\ 13 * (e.ord - 1) + Len(Text(e)) <= FF_MAX_LFN + 1
            /\ (e.last /\ Len(Text(e)) = 13 /\ e.chars[13] # 0 => 13 * e.ord < FF_MAX_LFN + 1)

-----------------------------------------------------------------------------
(* Searching and listing.                                                   *)

(* The entries that are looked at: those before the end mark.               *)
Entered(d) == {i \in DOMAIN d : d[i].kind = "sfn" /\ \A k \in 1..i : d[k].kind # "end"}

(* Where the LFN entries in front of i begin, 0 when there are none: a      *)
(* deleted entry, a label or another object ends the sequence.              *)
blk_ofs(d, i) ==
  LET starts == {b \in 1..(i - 1) : d[b].last /\ \A k \in b..(i - 1) : d[k].kind = "lfn"}
  IN IF starts = {} THEN 0 ELSE Max(starts)

LfnEntries(d) == {k \in 1..Len(d) : d[k].kind = "lfn"}

(* They are all there, in order, each one of fit, and belong to i.          *)
HasLfn(d, i, fit) ==
  \E b \in {blk_ofs(d, i)} \ {0} :
     /\ d[b].ord = i - b /\ d[b].sum = sum_sfn(d[i].fn)
     /\ \A k \in b..(i - 1) : d[k].ord = i - k /\ d[k].sum = d[b].sum /\ k \in fit

NoSuchName == [at |-> 0, blk |-> 0]

(* Where the object's SFN entry is and where its block begins (0: it is     *)
(* alone); a name whose SFN does not tell it is known by its LFN only.      *)
find_name(d, fn, loss, lfn, junk) ==
  LET fit == {k \in LfnEntries(d) : cmp_lfn(lfn, junk, d[k])}
      hits == {i \in Entered(d) : HasLfn(d, i, fit) \/ (~loss /\ d[i].fn = fn)}
  IN Using(hits, LAMBDA h : IF h = {} THEN NoSuchName ELSE [at |-> Min(h), blk |-> blk_ofs(d, Min(h))])

(* What a path leads to: follow_path() with a last segment.                 *)
Find(d, n, junk) ==
  Using(DirForm(NameOf(n)), LAMBDA form : find_name(d, form.fn, form.loss, NameOf(n), junk))

(* The name that the LFN entries of i spell, <<>> when it has none.         *)
dir_lfn(d, i) ==
  IF ~HasLfn(d, i, {k \in LfnEntries(d) : pick_lfn(d[k])}) THEN <<>>
  ELSE LET all == [j \in 1..(13 * (i - blk_ofs(d, i))) |-> d[i - 1 - ((j - 1) \div 13)].chars[((j - 1) % 13) + 1]]
           stops == {j \in DOMAIN all : all[j] = 0}
       IN IF stops = {} THEN all ELSE SubSeq(all, 1, Min(stops) - 1)

(* get_fileinfo(): what a listing shows of the object.                      *)
ShownSfn(fn) ==
  LET Letter(c) == IF c = RDDEM THEN DDEM ELSE c
      Letters(a, b) == [i \in 1..Len(SelectSeq(SubSeq(fn, a, b), LAMBDA c : c # SPACE)) |->
                          Letter(SelectSeq(SubSeq(fn, a, b), LAMBDA c : c # SPACE)[i])]
  IN [body |-> Letters(1, 8), ext |-> Letters(9, 11)]

Join(body, ext) == body \o (IF ext = <<>> THEN <<>> ELSE <<DOT>> \o ext)
InCase(s, lower) == [i \in DOMAIN s |-> IF lower /\ IsUpper(s[i]) THEN s[i] + 32 ELSE s[i]]

get_fileinfo(i) ==
  LET e == dir[i]
      sfn == ShownSfn(e.fn)
      lfn == dir_lfn(dir, i)
      long == [k \in DOMAIN lfn |-> put_utf(lfn[k])]
      readable == long # <<>> /\ \A k \in DOMAIN long : long[k] # 0
      alias == Join(sfn.body, sfn.ext)
  IN [id |-> e.id,
      fname |-> IF readable THEN long
                ELSE Join(InCase(sfn.body, e.nt.body), InCase(sfn.ext, e.nt.ext)),
      altname |-> IF readable \/ e.nt # PlainCase THEN alias ELSE <<>>]

Listing == {get_fileinfo(i) : i \in Entered(dir)}

-----------------------------------------------------------------------------
(* Registering a name.                                                      *)

Toggle(x, bit) == IF (x \div bit) % 2 = 1 THEN x - bit ELSE x + bit

ShiftIn(crc, bit) ==
  LET next == 2 * crc + bit
  IN IF next >= 65536 THEN Toggle(Toggle(Toggle(next - 65536, 4096), 32), 1) ELSE next

HashOf(lfn, seq) ==
  LET Bits(crc, wc) == FoldLeft(ShiftIn, crc, [i \in 1..16 |-> (wc \div 2^(i - 1)) % 2])
      crc_sreg[i \in 0..Len(lfn)] ==
        IF i = 0 THEN seq ELSE Using(crc_sreg[i - 1], LAMBDA crc : Bits(crc, lfn[i]))
  IN crc_sreg[Len(lfn)]

Digit(d) == IF d < 10 THEN 48 + d ELSE 55 + d
Hex(n) ==
  LET digits == Cardinality({k \in 0..3 : k = 0 \/ n >= 16^k})
  IN [i \in 1..digits |-> Digit((n \div 16^(digits - i)) % 16)]

gen_numname(fn, lfn, seq) ==
  LET suffix == <<126>> \o Hex(IF seq > 5 THEN HashOf(lfn, seq) ELSE seq)
      blanks == {i \in 1..8 : fn[i] = SPACE}
      body == Min({8 - Len(suffix)} \union {i - 1 : i \in blanks})
      whole == SubSeq(fn, 1, body) \o suffix
  IN [i \in 1..11 |-> IF i > 8 THEN fn[i] ELSE IF i <= Len(whole) THEN whole[i] ELSE SPACE]

Taken(d, fn) == \E i \in Entered(d) : d[i].fn = fn

(* The first numbered name that is not taken; that all 99 are is out of     *)
(* reach of the directories here.                                           *)
Numbered(d, fn, lfn) ==
  LET Free(n) == ~Taken(d, gen_numname(fn, lfn, n))
  IN gen_numname(fn, lfn, CHOOSE n \in 1..99 : Free(n) /\ \A m \in 1..(n - 1) : ~Free(m))

(* The end of the first block of n free entries, 0 when there is none.      *)
alloc_block(d, n) ==
  LET Free(i) == d[i].kind \in {"deleted", "end"}
      ends == {i \in n..Len(d) : \A k \in (i - n + 1)..i : Free(k)}
  IN IF ends = {} THEN 0 ELSE Min(ends)

Parts(lfn) == (Len(lfn) + 12) \div 13

(* The directory with the object id under the name s, or the same one when  *)
(* there is no room.                                                        *)
register_name(d, s, id) ==
  LET form == DirForm(s)
      fn == IF form.loss THEN Numbered(d, form.fn, s) ELSE form.fn
      n == IF form.lfn THEN Parts(s) + 1 ELSE 1
      at == alloc_block(d, n)
  IN [i \in DOMAIN d |->
        IF at = 0 \/ i > at \/ i <= at - n THEN d[i]
        ELSE IF i = at THEN SfnEntry(fn, form.nt, id)
        ELSE put_lfn(s, at - i, sum_sfn(fn))]

MutRemoveName(d, found) == [i \in DOMAIN d |-> IF i = found.at THEN Deleted ELSE d[i]]

remove_name(d, found) ==
  [i \in DOMAIN d |->
     IF i = found.at \/ (found.blk # 0 /\ i \in found.blk..found.at) THEN Deleted ELSE d[i]]

-----------------------------------------------------------------------------
(* Calls.                                                                   *)

NamesInit ==
  /\ scene \in Directories
  /\ dir = scene.entries /\ made = scene.holds /\ said = [op |-> "none", name |-> <<>>, res |-> "OK"]
  /\ namings = 0

FreshId == Min((1..(Cardinality(made) + 1)) \ {f.id : f \in made})

(* A call that fails leaves everything as it was: what follows it is what   *)
(* could have been without it.                                              *)
Ended(op, n, res) == said' = [op |-> op, name |-> n, res |-> res]
NameFails(op, n, res) == Ended(op, n, res) /\ UNCHANGED <<scene, dir, made, namings>>
Changes(op, n, d, names) ==
  /\ Ended(op, n, "OK") /\ dir' = d /\ made' = names /\ namings' = namings + 1 /\ UNCHANGED scene
MayCall == said.res = "OK" /\ namings < MaxNamings

(* f_open() with FA_CREATE_NEW, f_mkdir().                                  *)
CreateNamed(n) ==
  /\ MayCall
  /\ IF ~ValidName(n) THEN NameFails("create", n, "INVALID_NAME")
     ELSE \E junk \in BOOLEAN :
            IF Find(dir, n, junk).at # 0 THEN NameFails("create", n, "EXIST")
            ELSE \E d \in {register_name(dir, NameOf(n), FreshId)} :
                   IF d = dir THEN NameFails("create", n, "DENIED")
                   ELSE Changes("create", n, d, made \union {[name |-> NameOf(n), id |-> FreshId]})

(* f_unlink().                                                              *)
Unlink(n) ==
  /\ MayCall
  /\ IF ~ValidName(n) THEN NameFails("remove", n, "INVALID_NAME")
     ELSE \E junk \in BOOLEAN : \E found \in {Find(dir, n, junk)} :
            IF found.at = 0 THEN NameFails("remove", n, "NO_FILE")
            ELSE Changes("remove", n, remove_name(dir, found),
                         {f \in made : f.id # dir[found.at].id})

(* f_rename(): the new entry first, then the old one goes.                  *)
Rename(n, m) ==
  /\ MayCall
  /\ IF ~ValidName(n) THEN NameFails("remove", n, "INVALID_NAME")
     ELSE \E junk \in BOOLEAN : \E found \in {Find(dir, n, junk)} :
            IF found.at = 0 THEN NameFails("remove", n, "NO_FILE")
            ELSE IF ~ValidName(m) THEN NameFails("create", m, "INVALID_NAME")
            ELSE IF Find(dir, m, junk).at \notin {0, found.at} THEN NameFails("create", m, "EXIST")
            ELSE \E d \in {register_name(dir, NameOf(m), dir[found.at].id)} :
                   IF d = dir THEN NameFails("create", m, "DENIED")
                   ELSE Changes("rename", m, remove_name(d, found),
                                {f \in made : f.id # dir[found.at].id}
                                  \union {[name |-> NameOf(m), id |-> dir[found.at].id]})

NamesNext ==
  \/ \E n \in scene.names : CreateNamed(n) \/ Unlink(n)
  \/ \E pair \in scene.renames : Rename(pair[1], pair[2])

-----------------------------------------------------------------------------
(* What a user of the directory counts on.                                  *)

Live == {dir[i] : i \in Entered(dir)}

SameName(s, t) == Uppers(s) = Uppers(t)

(* The objects that the given name may mean: those of that name, and the    *)
(* one whose short name it is.                                              *)
MeantBy(n) ==
  Using(DirForm(NameOf(n)), LAMBDA form :
    {f \in made : \/ SameName(f.name, NameOf(n))
                  \/ ~form.loss /\ \E e \in Live : e.id = f.id /\ e.fn = form.fn})

FoundId(n, junk) == Using(Find(dir, n, junk), LAMBDA found : IF found.at = 0 THEN 0 ELSE dir[found.at].id)

(* A given name leads to what it means and to nothing else, whatever the    *)
(* buffer held before: dir_find() (ff.c:2412).                              *)
FindsWhatIsMeant(n) ==
  \A meant \in {{f.id : f \in MeantBy(n)}} : \A junk \in BOOLEAN :
     FoundId(n, junk) \in IF meant = {} THEN {0} ELSE meant

Writable(s) == Len(s) <= FF_MAX_LFN /\ \A i \in DOMAIN s : put_utf(s[i]) # 0

(* A listing shows every object once, under the name it was given when that *)
(* can be written and else under its short one, and what it shows leads to  *)
(* the object: dir_read(), get_fileinfo() (ff.c:2334, 2653).                *)
ListedAsMade ==
  /\ {l.id : l \in Listing} = {f.id : f \in made}
  /\ \A l \in Listing : \A f \in made : f.id = l.id =>
       /\ Writable(f.name) => l.fname = [i \in DOMAIN f.name |-> put_utf(f.name[i])]
       /\ \A junk \in BOOLEAN :
            /\ FoundId(l.fname, junk) = l.id
            /\ l.altname # <<>> => FoundId(l.altname, junk) = l.id

(* A long name belongs to the short one behind it.                          *)
NoStrayParts ==
  \A i \in DOMAIN dir : dir[i].kind = "lfn" /\ dir[i] \notin Range(scene.entries) =>
    /\ i + dir[i].ord \in DOMAIN dir
    /\ dir[i + dir[i].ord].kind = "sfn" /\ dir[i].sum = sum_sfn(dir[i + dir[i].ord].fn)

BlockLeft(n) == \E i \in DOMAIN dir : \A k \in i..(i + n - 1) : k \in DOMAIN dir /\ dir[k].kind \in {"deleted", "end"}

(* How a call that changed nothing ended is true of the directory.          *)
AnswerHolds ==
  CASE said.res = "NO_FILE" -> MeantBy(said.name) = {}
    [] said.res = "EXIST" -> MeantBy(said.name) # {}
    [] said.res = "DENIED" -> ~BlockLeft(Parts(NameOf(said.name)) + 1)
    [] OTHER -> TRUE

(* Names in the directory are right: the objects have names of their own,   *)
(* are found by them and by nothing else, are listed under them, and calls  *)
(* end accordingly: ff.c's directory functions and f_open(), f_unlink() and *)
(* f_rename() over them.                                                    *)
NamesRight ==
  /\ \A d, e \in Live : d.fn = e.fn => d = e
  /\ Cardinality(Entered(dir)) = Cardinality(made)
  /\ \A n \in {m \in scene.names : ValidName(m)} : FindsWhatIsMeant(n)
  /\ ListedAsMade /\ NoStrayParts /\ AnswerHolds
=============================================================================
