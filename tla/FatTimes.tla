------------------------------ MODULE FatTimes ------------------------------
(***************************************************************************)
(* The times of files and directories: two words of an entry, of 16 bits   *)
(* each, written from the system's clock when an object is made and when a *)
(* changed file is synced, set by utime() and read by stat().  Sources:    *)
(* fatfs/src/ff.c, fatfs/diskio/diskio.c, fatfs/vfs/vfs_fat.c.             *)
(*                                                                         *)
(* A moment is what localtime_r() makes of a time_t and mktime() turns     *)
(* back; the firmware sets no time zone, so the two are inverse.  A call   *)
(* that is refused changes nothing and is left out.                        *)
(***************************************************************************)
EXTENDS Integers, Sequences

CONSTANTS
  TimedNames, \* names of files and directories
  Moments     \* the values of the clock and the arguments of utime()

IsMoment(m) ==
  m \in [year : Int, mon : 1..12, mday : 1..31, hour : 0..23, min : 0..59, sec : 0..59]

ASSUME TimesConstants == \A m \in Moments : IsMoment(m)

VARIABLES
  clock,     \* the system's time; after a restart it begins again
  entries,   \* of each object in the directory: [dir, crt, mod]
  opened,    \* files open for writing, each TRUE if FA_MODIFIED
  meant      \* of each object the moment its time was last set

timesVars == <<clock, entries, opened, meant>>

Exist == DOMAIN entries

PutFor(f, x, value) == [y \in DOMAIN f \union {x} |-> IF y = x THEN value ELSE f[y]]
Less(f, x) == [y \in DOMAIN f \ {x} |-> f[y]]

NoneMade == [y \in {} |-> y]

TimesInit ==
  /\ clock \in Moments
  /\ entries = NoneMade /\ opened = NoneMade /\ meant = NoneMade

-----------------------------------------------------------------------------
(* The two words. *)
fat_date(year, m) == [year |-> year % 128, mon |-> m.mon, mday |-> m.mday]

(* Mutant: the seconds are stored as they are, and run into the minutes. *)
MutFatTime(m) == (m.hour * 2048 + m.min * 32 + m.sec) % 65536

fat_time(m) == (m.hour * 2048 + m.min * 32 + m.sec \div 2) % 65536

DateWord(d) == d.year * 512 + d.mon * 32 + d.mday

(* get_fattime(): a clock that was never set counts as of 1980. *)
get_fattime(m) ==
  <<DateWord(fat_date(IF m.year < 1980 THEN 0 ELSE m.year - 1980, m)), fat_time(m)>>

(* vfs_fat_stat(): the fields' bits, for mktime(). *)
MomentOf(stamp) ==
  [year |-> stamp[1] \div 512 + 1980, mon |-> (stamp[1] \div 32) % 16, mday |-> stamp[1] % 32,
   hour |-> stamp[2] \div 2048, min |-> (stamp[2] \div 32) % 64, sec |-> 2 * (stamp[2] % 32)]

-----------------------------------------------------------------------------
Stamped(n, entry) ==
  entries' = PutFor(entries, n, entry) /\ meant' = PutFor(meant, n, clock)

(* f_open(FA_CREATE_ALWAYS | FA_WRITE); an object of that name, if a file,  *)
(* is made anew.  The driver hands out one FIL per open file.               *)
TimedCreate(n) ==
  /\ n \notin DOMAIN opened
  /\ n \in Exist => ~entries[n].dir
  /\ Stamped(n, [dir |-> FALSE, crt |-> get_fattime(clock), mod |-> get_fattime(clock)])
  /\ opened' = PutFor(opened, n, TRUE) /\ UNCHANGED clock

(* f_open(FA_OPEN_EXISTING | FA_WRITE) changes no time. *)
TimedOpen(n) ==
  /\ n \in Exist \ DOMAIN opened /\ ~entries[n].dir
  /\ opened' = PutFor(opened, n, FALSE) /\ UNCHANGED <<clock, entries, meant>>

TimedWrite(n) ==
  /\ n \in DOMAIN opened
  /\ opened' = [opened EXCEPT ![n] = TRUE] /\ UNCHANGED <<clock, entries, meant>>

(* f_sync(), alone and in f_close(). *)
TimedSync(n) ==
  IF opened[n] THEN Stamped(n, [entries[n] EXCEPT !.mod = get_fattime(clock)])
               ELSE UNCHANGED <<entries, meant>>

TimedFsync(n) ==
  /\ n \in DOMAIN opened /\ TimedSync(n)
  /\ opened' = [opened EXCEPT ![n] = FALSE] /\ UNCHANGED clock

TimedClose(n) ==
  /\ n \in DOMAIN opened /\ TimedSync(n)
  /\ opened' = Less(opened, n) /\ UNCHANGED clock

TimedMkdir(n) ==
  /\ n \notin Exist
  /\ Stamped(n, [dir |-> TRUE, crt |-> get_fattime(clock), mod |-> get_fattime(clock)])
  /\ UNCHANGED <<clock, opened>>

(* f_rename() copies the entry from its byte 13 on. *)
TimedRename(n, to) ==
  /\ n \in Exist \ DOMAIN opened /\ to \notin Exist
  /\ entries' = PutFor(Less(entries, n), to, entries[n])
  /\ meant' = PutFor(Less(meant, n), to, meant[n])
  /\ UNCHANGED <<clock, opened>>

(* A date of 0 leaves the time alone. *)
f_utime(entry, stamp) == IF stamp[1] # 0 THEN [entry EXCEPT !.mod = stamp] ELSE entry

TimedUtime(n, m) ==
  /\ m.year >= 1980 /\ n \in Exist
  /\ entries' = [entries EXCEPT ![n] = f_utime(@, <<DateWord(fat_date(m.year - 1980, m)), fat_time(m)>>)]
  /\ meant' = PutFor(meant, n, m) /\ UNCHANGED <<clock, opened>>

(* The device restarts, without closing what is open, or time goes on.      *)
ClockRestarts ==
  \E m \in Moments : clock' = m /\ opened' = NoneMade /\ UNCHANGED <<entries, meant>>

Later(m, other) ==
  LET At(x) == <<x.year, x.mon, x.mday, x.hour, x.min, x.sec>>
      first == {i \in 1..6 : At(m)[i] # At(other)[i]}
  IN \E i \in first : (\A j \in first : i <= j) /\ At(m)[i] > At(other)[i]

TimeGoesOn ==
  \E m \in Moments : Later(m, clock) /\ clock' = m /\ UNCHANGED <<entries, opened, meant>>

TimesNext ==
  \/ \E n \in TimedNames :
       \/ TimedCreate(n) \/ TimedOpen(n) \/ TimedWrite(n) \/ TimedFsync(n) \/ TimedClose(n) \/ TimedMkdir(n)
       \/ \E to \in TimedNames : TimedRename(n, to)
       \/ \E m \in Moments : TimedUtime(n, m)
  \/ ClockRestarts \/ TimeGoesOn

-----------------------------------------------------------------------------
(* What the two words can hold of a moment: 1980 to 2107, even seconds. *)
ShownYear(m) == IF m.year < 1980 THEN 1980 ELSE 1980 + ((m.year - 1980) % 128)
Shown(m) == [m EXCEPT !.year = ShownYear(m), !.sec = 2 * (@ \div 2)]
InRange(m) == m.year \in 1980..2107

(* stat() gives the time that was last set, by whatever call, with its      *)
(* seconds rounded down to even - in 1980 for a clock not yet set, and a    *)
(* time past 2107 starts over in 1980; so of two objects the one stamped    *)
(* later never looks older; the time an object was made stays a date too    *)
(* (ff.c:3853, 4270, 5203, 5434, diskio.c:82, vfs_fat.c:520, 906).          *)
TimesRight ==
  \A n \in Exist :
    /\ MomentOf(entries[n].mod) = Shown(meant[n])
    /\ IsMoment(MomentOf(entries[n].mod)) /\ IsMoment(MomentOf(entries[n].crt))
    /\ \A o \in Exist : InRange(meant[n]) /\ InRange(meant[o]) /\ Later(meant[n], meant[o])
                         => ~Later(MomentOf(entries[o].mod), MomentOf(entries[n].mod))
=============================================================================
