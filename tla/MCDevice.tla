------------------------------ MODULE MCDevice ------------------------------
(* Parts of the firmware that do not interact, each explored on its own     *)
(* while the others rest in an initial state.                               *)
EXTENDS DnsQuery, DnsBackoff, ChannelScan, Boot, Beep, FatMkfs, FatNames

MCRssi == {-120, -40}

-----------------------------------------------------------------------------
(* Drives of the sizes around which f_mkfs() decides otherwise, and drives  *)
(* with something on them.                                                  *)

Asks(fmt, n_fat, align, n_root, au) ==
  [fmt |-> fmt, n_fat |-> n_fat, align |-> align, n_root |-> n_root, au |-> au]
AnyType == {"FAT", "FAT32"}

ByDefault == Asks(AnyType, 0, 0, 0, 0)
OnFlash == Asks(AnyType \union {"SFD"}, 0, 0, 0, FF_MAX_SS) \* esp_vfs_fat_spiflash_mount()
Only(type) == Asks({type}, 2, 0, 0, 0)
Aligned(align) == Asks(AnyType, 2, align, 112, 0)
Units(au) == Asks({"FAT", "SFD"}, 1, 3, 0, au)
Nothing_ == Asks({}, 0, 0, 0, 0)

DriveOf(size, block, before, options, calls) ==
  [size |-> size, block |-> block, before |-> before, options |-> options, calls |-> calls]

(* The least drives of each number of clusters, the table's boundaries, the *)
(* limits of 16 bits.                                                       *)
Sizes == {127, 128, 190, 191, 4095, 4096, 4119, 4158, 4159, 4160, 4220, 8191, 8241, 8300, 16384, 16447, 65535, 65536,
          65598, 65599, 66070, 66100, 66135, 131134, 131200, 262144, 524288, 1048576, 2097152, 2097300, 4194304,
          4194366, 4195400, 8388608, 8389000, 16777216, 16778000}

Blank == {DriveOf(n, 0, <<>>, {ByDefault, OnFlash, Only("FAT"), Only("FAT32"), Aligned(64)}, 1) : n \in Sizes}
         \union {DriveOf(n, 64, <<>>, {Units(512 * 4), ByDefault, Aligned(8192), Nothing_}, 1)
                   : n \in {4085 * 4 + 50 + k : k \in 0..30} \union {8100, 8192, 8250, 16300, 16500, 20000}}

(* What others have left.                                                   *)
Old(type, csize, nrsv, n_fats, n_root, tsect, fsize) ==
  [kind |-> "vbr", fat32 |-> type = "FAT32", BytsPerSec |-> FF_MAX_SS, SecPerClus |-> csize, RsvdSecCnt |-> nrsv,
   NumFATs |-> n_fats, RootEntCnt |-> n_root, TotSec16 |-> IF tsect < 65536 THEN tsect ELSE 0,
   TotSec32 |-> IF tsect < 65536 THEN 0 ELSE tsect, FATSz16 |-> IF type = "FAT32" THEN 0 ELSE fsize,
   FATSz32 |-> IF type = "FAT32" THEN fsize ELSE 0, RootClus |-> 2, FSInfo |-> IF type = "FAT32" THEN 1 ELSE 0]
At(from, what) == [from |-> from, len |-> 1, what |-> what]

GoodFat == Old("FAT16", 1, 1, 2, 512, 20000, 80)
GoodFat32 == Old("FAT32", 1, 32, 2, 0, 70000, 550)
Damaged == {Old("FAT16", 3, 1, 2, 512, 20000, 80), Old("FAT16", 1, 1, 2, 512, 20000, 70), Old("FAT16", 1, 1, 3, 512, 20000, 80),
            Old("FAT16", 1, 1, 2, 500, 20000, 80), Old("FAT16", 4, 1, 2, 512, 190, 80), Old("FAT32", 1, 32, 2, 512, 70000, 550),
            Old("FAT32", 1, 32, 2, 0, 60000, 550), Old("FAT32", 1, 32, 2, 0, 70000, 540), Old("FAT16", 64, 1, 1, 16, 130, 80)}

Four(a, b, c, d) == Mbr(<<a, b, c, d>>)
Befores ==
  {<<At(0, GoodFat)>>, <<At(0, GoodFat32), At(1, FsInfo(5))>>,
   <<At(0, Four(63, 9000, 0, 20063)), At(63, Mbr(<<0, 0, 0, 0>>)), At(20063, GoodFat)>>,
   <<At(0, Four(0, 100, 30000, 200)), At(200, GoodFat), At(30000, GoodFat32), At(30001, FsInfo(7))>>,
   <<At(0, Four(63, 0, 0, 0))>>}
  \union {<<At(0, v)>> : v \in Damaged}

MCDrives ==
  Blank \union {DriveOf(100100, 0, b, {ByDefault, OnFlash}, 2) : b \in Befores}
        \union {DriveOf(100100, 0, <<At(0, GoodFat32), At(1, FsInfo(5))>>, {OnFlash}, 3)}

-----------------------------------------------------------------------------
(* Directories and the names tried in them.                                 *)

(* Names as the characters they are written with.                           *)
a_small == <<97>>
a_big == <<65>>
ab_mixed == <<65, 98>>
ab_small == <<97, 98>>
a_b == <<97, 46, 98>>
A_b == <<65, 46, 98>>
e_acute == <<130>>
E_acute == <<144>>
E_plain == <<69>>
e_plain == <<101>>
sigma == <<229, 97>>
Sigma_ == <<228, 97>>
long1 == <<108, 111, 110, 103, 110, 97, 109, 101, 49, 46, 116, 120, 116>>
Long1 == <<76, 111, 110, 103, 78, 97, 109, 101, 49, 46, 116, 120, 116>>
long12 == <<108, 111, 110, 103, 110, 97, 109, 101, 49, 50, 46, 116, 120, 116>>
alias1 == <<108, 111, 110, 103, 110, 97, 126, 49, 46, 116, 120, 116>>
alias2 == <<108, 111, 110, 103, 110, 97, 126, 50, 46, 116, 120, 116>>
longPlus == <<108, 111, 110, 103, 32, 110, 97, 43, 109, 101, 46, 116, 120, 116>>
dots_a == <<46, 46, 97>>
space_a == <<32, 97>>
a_space_b == <<97, 32, 98>>
a_b_c == <<97, 46, 98, 46, 99>>
dot_a == <<46, 97>>
a_snipped == <<97, 46, 32>>
dot == <<46>>
star == <<97, 42, 98>>
tilde1 == <<126, 49>>
fits == [i \in 1..FF_MAX_LFN |-> 120]
tooLong == [i \in 1..(FF_MAX_LFN + 1) |-> 120]
yeru == <<1099>> \* a Cyrillic letter that the code page has not

EmptyDir(n) == [i \in 1..n |-> EndEntry]
Holding(names) == [entries |-> EmptyDir(10), holds |-> {}, names |-> names, renames |-> {}]

(* An object of the given name, made elsewhere, behind the entries d.       *)
WithLong(d, s, fn, id) ==
  d \o [i \in 1..Parts(s) |-> put_lfn(s, Parts(s) + 1 - i, sum_sfn(fn))] \o <<SfnEntry(fn, PlainCase, id)>>
ShortOf(s) == DirForm(s).fn
Numbered1(n) == gen_numname(ShortOf(long1), long1, n)

(* Cases and accents: names that differ in them only, and aliases.          *)
Letters_ ==
  [Holding({a_small, a_big, ab_mixed, ab_small, e_acute, E_acute, e_plain, sigma, Sigma_, A_b})
     EXCEPT !.renames = {<<a_small, a_big>>, <<ab_mixed, ab_small>>, <<e_acute, E_acute>>, <<a_big, sigma>>}]

(* Numbered names: five are taken, so the next ones are hashed.             *)
Five == [i \in 1..5 |-> SfnEntry(Numbered1(i), PlainCase, i)] \o EmptyDir(7)
Crowded ==
  [entries |-> Five, holds |-> {[name |-> Join(SubSeq(Five[i].fn, 1, 8), SubSeq(Five[i].fn, 9, 11)), id |-> i] : i \in 1..5},
   names |-> {long1, long12, alias1, alias2}, renames |-> {<<alias2, long12>>, <<long1, Long1>>}]

Numbers ==
  [Holding({long1, long12, alias1, alias2, longPlus})
     EXCEPT !.renames = {<<long1, alias1>>, <<long1, Long1>>, <<long1, long12>>, <<alias1, alias2>>}]

(* Dots, spaces, what may not be in a name, names that are too long.        *)
Odd ==
  [Holding({dots_a, space_a, a_space_b, a_b_c, dot_a, a_snipped, dot, star, fits, tooLong, tilde1, a_small})
     EXCEPT !.renames = {<<space_a, a_small>>, <<a_small, tooLong>>, <<dot_a, tilde1>>}]

(* Left by others: a part that belongs to nothing, a label, a name that     *)
(* cannot be written here, one that is too long.                            *)
Orphan == put_lfn(a_b_c, 1, 77)
LeftByOthers ==
  LET strangers == WithLong(WithLong(<<Orphan, SfnEntry(ShortOf(a_small), PlainCase, 1), LabelEntry>>, yeru, ShortOf(tilde1), 2),
                        [i \in 1..39 |-> 97 + (i % 20)], ShortOf(E_plain), 3)
  IN [entries |-> strangers \o EmptyDir(3),
      holds |-> {[name |-> a_big, id |-> 1], [name |-> yeru, id |-> 2], [name |-> [i \in 1..39 |-> 97 + (i % 20)], id |-> 3]},
      names |-> {a_b_c, a_small, tilde1, e_plain, long1}, renames |-> {<<a_small, a_b_c>>, <<tilde1, a_small>>, <<e_plain, e_acute>>}]

(* None, for the other parts of a run.                                      *)
NoDirectory == [entries |-> <<>>, holds |-> {}, names |-> {}, renames |-> {}]

MCDirectories == {Letters_, Crowded, Numbers, Odd, LeftByOthers, NoDirectory}
NamesSpec == NamesInit /\ [][NamesNext]_namesVars

-----------------------------------------------------------------------------

VARIABLE part

MCInit ==
  /\ part \in {"dns", "backoff", "scan", "boot", "beep", "mkfs", "names"}
  /\ DnsInit /\ (part # "dns" => clock = 0)
  /\ BackoffInit /\ ScanInit /\ BootInit /\ BeepInit
  /\ MkfsInit /\ (part # "mkfs" => drive = CHOOSE d \in Drives : TRUE)
  /\ IF part = "names" THEN TRUE ELSE scene = NoDirectory
  /\ NamesInit /\ (part = "names" => scene # NoDirectory)

On(p, A) == part = p /\ A

smallVars == <<dnsVars, backoffVars, scanVars, bootVars, beepVars>>
fatVars == <<mkfsVars, namesVars>>
Small(operation) == operation /\ UNCHANGED <<part, fatVars>>
InNames(operation) == On("names", operation) /\ UNCHANGED <<part, smallVars, mkfsVars>>

(* NamesNext is taken apart: TLC follows each call by itself.               *)
MCNext ==
  \/ On("dns", Small(DnsNext)) /\ UNCHANGED <<backoffVars, scanVars, bootVars, beepVars>>
  \/ On("backoff", Small(BackoffNext)) /\ UNCHANGED <<dnsVars, scanVars, bootVars, beepVars>>
  \/ On("scan", Small(ScanNext)) /\ UNCHANGED <<dnsVars, backoffVars, bootVars, beepVars>>
  \/ On("boot", Small(BootNext)) /\ UNCHANGED <<dnsVars, backoffVars, scanVars, beepVars>>
  \/ On("beep", Small(BeepNext)) /\ UNCHANGED <<dnsVars, backoffVars, scanVars, bootVars>>
  \/ On("mkfs", MkfsNext) /\ UNCHANGED <<part, smallVars, namesVars>>
  \/ \E n \in scene.names : InNames(CreateNamed(n)) \/ InNames(Unlink(n))
  \/ \E pair \in scene.renames : InNames(Rename(pair[1], pair[2]))

mcVars == <<part, smallVars, fatVars>>

(* The tasks are scheduled. *)
MCSpec ==
  /\ MCInit /\ [][MCNext]_mcVars
  /\ WF_dnsVars(On("dns", DnsStep))
  /\ WF_bootVars(On("boot", BootProgress)) /\ WF_bootVars(On("boot", Obey))
  /\ WF_beepVars(On("beep", BeepHandler)) /\ WF_beepVars(On("beep", BeepTask))
  /\ WF_beepVars(On("beep", TasksDone \/ Silence)) /\ SF_beepVars(On("beep", HttpdStops))
  /\ SF_beepVars(On("beep", BeatsEnd)) /\ SF_beepVars(On("beep", PausesEnd))
=============================================================================
