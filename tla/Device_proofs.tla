---------------------------- MODULE Device_proofs ----------------------------
(***************************************************************************)
(* Proofs about the parts of the firmware that do not interact: the beep,  *)
(* the boot, the scan for a quiet channel, the DNS task's datagrams and    *)
(* the shutdown, the last for any thresholds, set of tasks that may hang,  *)
(* and with or without the battery monitor.                                *)
(* Each part has a specification, an inductive invariant and a theorem.    *)
(***************************************************************************)
EXTENDS Beep, Boot, ChannelScan, DnsQuery, Shutdown, Induction, TLAPS

-----------------------------------------------------------------------------
(* The beep.  There is at most one token: beep_sem's count, the one a       *)
(* request holds, the command in the queue or the beep under way; and there *)
(* is one unless the device shuts down.                                     *)

BeepSpec == BeepInit /\ [][BeepNext]_beepVars

Holding == rpc \in {"check", "send", "give_500", "give_error"}

Tokens ==
  beep_sem + beep_queue + (IF Holding THEN 1 ELSE 0) + (IF Beeping THEN 1 ELSE 0)

BeepInv ==
  /\ BeepTypeOK
  /\ Tokens <= 1 /\ (~shutdown => Tokens = 1)
  /\ bpc = "exit" => shutdown
  /\ beep_done => bpc = "done" /\ shutdown
  /\ bpc = "done" => shutdown
  /\ spc \in {"silence", "off"} => beep_done
  /\ spc = "off" => ~buzzer

USE DEF beepVars

LEMMA BeepStepKeeps == BeepInv /\ [BeepNext]_beepVars => BeepInv'
<1> SUFFICES ASSUME BeepInv, [BeepNext]_beepVars PROVE BeepInv'
  OBVIOUS
<1> USE DEF BeepInv, BeepTypeOK, Tokens, Holding, Beeping
<1>1. CASE BeepRequest \/ TakeBeepSem \/ CheckShutdown
  BY <1>1 DEF BeepRequest, TakeBeepSem, CheckShutdown, BeepHttpVars
<1>2. CASE SendCommand \/ GiveBack \/ HttpdStops
  BY <1>2 DEF SendCommand, GiveBack, HttpdStops, BeepHttpVars
<1>3. CASE LoopTop \/ Beat \/ PauseBeep \/ LastLook
  BY <1>3 DEF LoopTop, Beat, PauseBeep, LastLook, BeepStep, BeepTaskVars
<1>4. CASE ReceiveCommand
  BY <1>4 DEF ReceiveCommand, BeepTaskVars
<1>5. CASE BuzzerOn \/ BuzzerOff
  <2>1. /\ bpc \in {"on", "off"} /\ bpc' \in {"off", "beat", "pause"} /\ buzzer' \in BOOLEAN
        /\ UNCHANGED <<BeepTaskVars, beep_done, beep_sem, beep_queue>>
    BY <1>5 DEF BuzzerOn, BuzzerOff
  <2> QED
    BY <2>1 DEF BeepTaskVars
<1>6. CASE StopBeep \/ GiveToken \/ ExitTask
  <2>1. CASE StopBeep
    BY <2>1 DEF StopBeep, BeepTaskVars
  <2>2. CASE GiveToken
    BY <2>2 DEF GiveToken, BeepTaskVars
  <2>3. CASE ExitTask
    BY <2>3 DEF ExitTask, BeepTaskVars
  <2> QED
    BY <1>6, <2>1, <2>2, <2>3
<1>8. CASE BeginShutdown
  BY <1>8 DEF BeginShutdown, BeepFreeVars
<1>9. CASE TasksDone
  BY <1>9 DEF TasksDone, BeepFreeVars
<1>10. CASE Silence
  BY <1>10 DEF Silence, BeepFreeVars
<1>11. CASE PowerCycle
  <2>1. /\ shutdown' \in BOOLEAN /\ beep_done' \in BOOLEAN /\ buzzer' \in BOOLEAN
        /\ ~shutdown' /\ ~beep_done' /\ ~buzzer'
    BY <1>11 DEF PowerCycle
  <2>2. beep_sem' = 1 /\ beep_queue' = 0 /\ rpc' = "idle" /\ reply' = "none" /\ bpc' = "top" /\ spc' = "idle"
    BY <1>11 DEF PowerCycle
  <2> QED
    BY <2>1, <2>2
<1>7. CASE UNCHANGED beepVars
  BY <1>7
<1> QED
  BY <1>1, <1>2, <1>3, <1>4, <1>5, <1>6, <1>7, <1>8, <1>9, <1>10, <1>11
  DEF BeepNext, BeepHandler, BeepTask

(* In every interleaving of a request, the beep task and the teardown, the  *)
(* token excludes, "busy" is the truth, and nothing sounds when the         *)
(* teardown is over.                                                        *)
THEOREM BeepTokenTrue == BeepSpec => []TokenTrue
<1>1. ASSUME BeepInit PROVE BeepInv
  <2>1. /\ shutdown \in BOOLEAN /\ beep_done \in BOOLEAN /\ buzzer \in BOOLEAN
        /\ ~shutdown /\ ~beep_done /\ ~buzzer
    BY <1>1 DEF BeepInit
  <2>2. beep_sem = 1 /\ beep_queue = 0 /\ rpc = "idle" /\ reply = "none" /\ bpc = "top" /\ spc = "idle"
    BY <1>1 DEF BeepInit
  <2> QED
    BY <2>1, <2>2 DEF BeepInv, BeepTypeOK, Tokens, Holding, Beeping
<1>2. BeepInv => TokenTrue
  BY DEF BeepInv, BeepTypeOK, Tokens, Holding, Beeping, TokenTrue, TokenExcludes, BusyIsTrue,
         SilentAfterTeardown
<1> QED
  BY <1>1, <1>2, BeepStepKeeps, PTL DEF BeepSpec

-----------------------------------------------------------------------------
(* The boot.  While the context is created, what is held is what was        *)
(* created so far; while a failed creation is undone, it is among what the  *)
(* labels that are still to come free.                                      *)

BootSpec == BootInit /\ [][BootNext]_bootVars

BootInv ==
  /\ bootPc \in {"create", "unwind", "battery", "step", "ready", "asleep", "down"}
  /\ global \in BOOLEAN /\ at \in Nat \ {0}
  /\ bootPc \in {"create", "unwind"} => ~global
  /\ bootPc \in {"battery", "step", "ready", "asleep"} => global
  /\ bootPc = "create" => at <= 7 /\ heap = {Creations[n] : n \in 1 .. at - 1}
  /\ bootPc = "unwind" => at <= 7 /\ heap \subseteq {Labels[n] : n \in at .. 6}
  /\ bootPc = "down" /\ ~global => heap = {}
  /\ global => heap = {Creations[n] : n \in 1 .. 7}

LEMMA ContextParts ==
  /\ Len(Creations) = 7 /\ Len(Labels) = 6 /\ DOMAIN Creations = 1 .. 7
  /\ \A n \in 2 .. 7 : {Creations[m] : m \in 1 .. n - 1} = {Labels[m] : m \in 8 - n .. 6}
<1>1. Len(Creations) = 7 /\ Len(Labels) = 6 /\ DOMAIN Creations = 1 .. 7
  BY DEF Creations, Labels
<1>2. \A m \in 1 .. 6 : Creations[m] = Labels[7 - m]
  BY DEF Creations, Labels
<1>3. ASSUME NEW n \in 2 .. 7
      PROVE  {Creations[m] : m \in 1 .. n - 1} = {Labels[m] : m \in 8 - n .. 6}
  <2>1. \A m \in 1 .. n - 1 : Creations[m] = Labels[7 - m] /\ 7 - m \in 8 - n .. 6
    BY <1>2
  <2>2. \A m \in 8 - n .. 6 : Labels[m] = Creations[7 - m] /\ 7 - m \in 1 .. n - 1
    <3> TAKE m \in 8 - n .. 6
    <3>1. 7 - m \in 1 .. 6 /\ 7 - (7 - m) = m /\ 7 - m \in 1 .. n - 1
      OBVIOUS
    <3> QED
      BY <1>2, <3>1
  <2> QED
    BY <2>1, <2>2
<1> QED
  BY <1>1, <1>3

USE DEF bootVars, serviceVars

LEMMA BootStepKeeps == BootInv /\ [BootNext]_bootVars => BootInv'
<1> SUFFICES ASSUME BootInv, [BootNext]_bootVars PROVE BootInv'
  OBVIOUS
<1>1. CASE Create
  <2>1. bootPc = "create" /\ at \in 1 .. 7 /\ heap' = {Creations[n] : n \in 1 .. at - 1} \cup {Creations[at]}
    BY <1>1 DEF Create, BootInv
  <2>2. heap' = {Creations[n] : n \in 1 .. at}
    <3>1. 1 .. at = (1 .. at - 1) \cup {at}
      BY <2>1
    <3> QED
      BY <2>1, <3>1
  <2>3. CASE at = 7
    <3>1. bootPc' = "battery" /\ at' = 1 /\ global' = TRUE
      BY <1>1, <2>3, ContextParts DEF Create
    <3> QED
      BY <2>2, <2>3, <3>1 DEF BootInv
  <2>4. CASE at # 7
    <3>1. bootPc' = "create" /\ at' = at + 1 /\ global' = global
      BY <1>1, <2>1, <2>4, ContextParts DEF Create
    <3>2. at' - 1 = at /\ at' <= 7
      BY <2>1, <2>4, <3>1
    <3> QED
      BY <2>1, <2>2, <3>1, <3>2 DEF BootInv
  <2> QED
    BY <2>3, <2>4
<1>2. CASE CreateFails
  <2>1. /\ bootPc = "create" /\ bootPc' = "unwind" /\ UNCHANGED <<heap, global>>
        /\ at \in 1 .. 7 /\ heap = {Creations[n] : n \in 1 .. at - 1} /\ ~global
    BY <1>2 DEF CreateFails, BootInv
  <2>2. CASE at = 1
    <3>1. at' = 7 /\ heap' = {}
      BY <1>2, <2>1, <2>2, ContextParts DEF CreateFails, Goto
    <3> QED
      BY <2>1, <3>1 DEF BootInv
  <2>3. CASE at # 1
    <3>1. at' = 8 - at /\ at \in 2 .. 7
      BY <1>2, <2>1, <2>3, ContextParts DEF CreateFails, Goto
    <3>2. heap' = {Labels[n] : n \in at' .. 6}
      BY <2>1, <3>1, ContextParts
    <3> QED
      BY <2>1, <3>1, <3>2 DEF BootInv
  <2> QED
    BY <2>2, <2>3
<1>3. CASE Unwind
  <2>1. /\ bootPc = "unwind" /\ global' = global /\ ~global /\ at \in 1 .. 7
        /\ heap \subseteq {Labels[n] : n \in at .. 6}
    BY <1>3 DEF Unwind, BootInv
  <2>2. CASE at = 7
    <3>1. bootPc' = "down" /\ UNCHANGED <<at, heap>> /\ heap = {}
      BY <1>3, <2>1, <2>2, ContextParts DEF Unwind
    <3> QED
      BY <2>1, <3>1 DEF BootInv
  <2>3. CASE at # 7
    <3>1. bootPc' = "unwind" /\ at' = at + 1 /\ heap' = heap \ {Labels[at]}
      BY <1>3, <2>1, <2>3, ContextParts DEF Unwind
    <3>2. at .. 6 = {at} \cup (at' .. 6) /\ at' \in 1 .. 7
      BY <2>1, <2>3, <3>1
    <3>3. heap' \subseteq {Labels[n] : n \in at' .. 6}
      BY <2>1, <3>1, <3>2
    <3> QED
      BY <2>1, <3>1, <3>2, <3>3 DEF BootInv
  <2> QED
    BY <2>2, <2>3
<1>4. CASE BatteryCheck
  BY <1>4 DEF BatteryCheck, BootInv
<1>5. CASE BootStep
  BY <1>5 DEF BootStep, BootInv
<1>6. CASE StepFails
  BY <1>6 DEF StepFails, BootInv
<1>7. CASE Obey \/ Associate \/ Disassociate \/ UNCHANGED bootVars
  BY <1>7 DEF Obey, Associate, Disassociate, BootInv
<1>8. CASE Reset
  <2>1. global' \in BOOLEAN /\ ~global'
    BY <1>8 DEF Reset
  <2>2. bootPc' = "create" /\ at' = 1 /\ heap' = {}
    BY <1>8 DEF Reset
  <2>3. {Creations[n] : n \in 1 .. 1 - 1} = {}
    OBVIOUS
  <2> QED
    BY <2>1, <2>2, <2>3 DEF BootInv
<1> QED
  BY <1>1, <1>2, <1>3, <1>4, <1>5, <1>6, <1>7, <1>8 DEF BootNext, BootProgress

(* Whichever creation fails, app_main() sees NULL with nothing left         *)
(* allocated, and a context that it sees is whole.                          *)
THEOREM ContextIsWholeOrGone == BootSpec => []ContextAllOrNothing
<1>1. ASSUME BootInit PROVE BootInv
  <2>1. global \in BOOLEAN /\ ~global
    BY <1>1 DEF BootInit, PowerOn
  <2>2. bootPc = "create" /\ at = 1 /\ heap = {}
    BY <1>1 DEF BootInit, PowerOn
  <2>3. {Creations[n] : n \in 1 .. 1 - 1} = {}
    OBVIOUS
  <2> QED
    BY <2>1, <2>2, <2>3 DEF BootInv
<1>2. BootInv => ContextAllOrNothing
  BY ContextParts DEF BootInv, ContextAllOrNothing
<1> QED
  BY <1>1, <1>2, BootStepKeeps, PTL DEF BootSpec

-----------------------------------------------------------------------------
(* The scan.  What the event loop can still deliver is of a scan that was    *)
(* begun and is over, so a SCAN_DONE of this very scan means that the driver *)
(* has finished; and what was heard is forgotten before the next scan.       *)

ScanInv ==
  /\ ScanTypeOK /\ heard \in Seq(Records)
  /\ events \subseteq 1 .. scan_no /\ bit_of.scan <= scan_no
  /\ scan_on # 0 => scan_on \notin events /\ bit_of.scan # scan_on
  /\ scpc = "start" => scan_no \notin events \cup {bit_of.scan, scan_on, 0}
  /\ scpc = "wait" => scan_on \in {0, scan_no}
  /\ scpc \in {"delay", "forget", "start", "wait"} => heard = <<>>
  /\ NoBitFromBefore /\ NoScanLeftRunning /\ QuietChannel

LEMMA PenaltyFacts == \A r \in Records : Penalty(r) \in Nat \ {0}
<1> TAKE r \in Records
<1>1. r.rssi \in Int
  BY ScanConstants DEF Records
<1>2. \A n \in Int : (IF 100 + n < 1 THEN 1 ELSE 100 + n) \in Nat \ {0}
  OBVIOUS
<1> QED
  BY <1>1, <1>2 DEF Penalty

LEMMA ShareFacts ==
  \A r \in Records, c \in Channels :
    /\ Share(r, c) \in Nat
    /\ r.ch = c => Share(r, c) # 0
    /\ r.ch \notin Channels \/ r.ch - c \notin -2 .. 2 => Share(r, c) = 0
<1> TAKE r \in Records, c \in Channels
<1>1. r.ch \in Int /\ c \in Int
  BY ScanConstants DEF Records, Channels
<1>2. /\ Penalty(r) \in Nat \ {0} /\ Penalty(r) \div 2 \in Nat /\ Penalty(r) \div 4 \in Nat
  <2>1. Penalty(r) \in Nat \ {0}
    BY PenaltyFacts
  <2>2. \A n \in Nat : n \div 2 \in Nat /\ n \div 4 \in Nat
    OBVIOUS
  <2> QED
    BY <2>1, <2>2
<1>3. CASE r.ch \notin Channels
  BY <1>3 DEF Share
<1>4. CASE r.ch \in Channels /\ c = r.ch
  <2>1. Share(r, c) = Penalty(r)
    BY <1>1, <1>4 DEF Share
  <2> QED
    BY <1>1, <1>2, <1>4, <2>1
<1>5. CASE r.ch \in Channels /\ c # r.ch
  BY <1>1, <1>2, <1>5 DEF Share
<1> QED
  BY <1>3, <1>4, <1>5

LEMMA ScoreFacts ==
  ASSUME heard \in Seq(Records), NEW c \in Channels
  PROVE  /\ Score(c) \in Nat
         /\ Silent(c) => Score(c) = 0
         /\ (\E r \in Range(heard) : r.ch = c) => Score(c) # 0
<1> DEFINE f == [i \in DOMAIN heard |-> Share(heard[i], c)]
<1>1. DOMAIN heard = 1 .. Len(heard) /\ Len(heard) \in Nat /\ \A i \in DOMAIN heard : heard[i] \in Records
  OBVIOUS
<1>2. \A i \in 1 .. Len(heard) : f[i] = Share(heard[i], c)
  BY <1>1
<1>3. \A i \in 1 .. Len(heard) : f[i] \in Nat
  BY <1>1, <1>2, ShareFacts
<1>4. Score(c) = SumOver(f, 1, Len(heard))
  BY DEF Score
<1>5. Range(heard) = {heard[i] : i \in DOMAIN heard}
  BY DEF Range
<1> HIDE DEF f
<1>6. Score(c) \in Nat /\ \A i \in 1 .. Len(heard) : f[i] <= Score(c)
  <2>1. 1 \in Int /\ Len(heard) \in Int /\ 1 - 1 <= Len(heard)
    BY <1>1
  <2>2. SumOver(f, 1, Len(heard)) \in Nat /\ \A i \in 1 .. Len(heard) : f[i] <= SumOver(f, 1, Len(heard))
    BY <1>3, <2>1, SumAtLeast
  <2> QED
    BY <1>4, <2>2
<1>7. ASSUME Silent(c) PROVE Score(c) = 0
  <2>1. \A i \in 1 .. Len(heard) : f[i] = 0
    BY <1>1, <1>2, <1>5, <1>7, ShareFacts, SMTT(30) DEF Silent
  <2> QED
    BY <1>1, <1>4, <2>1, SumZero
<1>8. ASSUME NEW r \in Range(heard), r.ch = c PROVE Score(c) # 0
  <2>1. PICK i \in 1 .. Len(heard) : r = heard[i]
    BY <1>1, <1>5
  <2>2. f[i] # 0 /\ f[i] \in Nat
    BY <1>1, <1>2, <1>3, <1>8, <2>1, ShareFacts
  <2> QED
    BY <1>6, <2>2
<1> QED
  BY <1>6, <1>7, <1>8

(* The choice is a channel, and none has a lower score. *)
LEMMA ChoiceFacts ==
  ASSUME heard \in Seq(Records), ScoreChannels
  PROVE  best' \in Channels /\ \A d \in Channels : Score(best') <= Score(d)
<1>1. 1 \in Channels /\ Channels \subseteq Nat
  BY ScanConstants DEF Channels
<1>2. \A c \in Channels : Score(c) \in Nat
  BY ScoreFacts
<1> DEFINE Scores == {Score(c) : c \in Channels}
<1>3. PICK m \in Scores : \A n \in Scores : m <= n
  <2>1. Scores \subseteq Nat /\ Scores # {}
    BY <1>1, <1>2
  <2> QED
    BY <2>1, LeastExists
<1> DEFINE Lowest == {c \in Channels : Score(c) = m}
<1>4. PICK c \in Lowest : \A d \in Lowest : c <= d
  <2>1. Lowest \subseteq Nat /\ Lowest # {}
    BY <1>1, <1>3
  <2> QED
    BY <2>1, LeastExists
<1>5. \A d \in Channels : IF d < c THEN Score(c) < Score(d) ELSE Score(c) <= Score(d)
  <2> TAKE d \in Channels
  <2>1. Score(c) = m /\ m <= Score(d) /\ Score(d) \in Nat /\ Score(c) \in Nat /\ c \in Nat /\ d \in Nat
    BY <1>1, <1>2, <1>3, <1>4
  <2>2. Score(d) = m => c <= d
    BY <1>4
  <2> QED
    BY <2>1, <2>2
<1>6. /\ best' \in Channels
      /\ \A d \in Channels : IF d < best' THEN Score(best') < Score(d) ELSE Score(best') <= Score(d)
  BY <1>4, <1>5 DEF ScoreChannels
<1> QED
  BY <1>2, <1>6

LEMMA ScanStepKeeps == ScanInv /\ [ScanNext]_scanVars => ScanInv'
<1> SUFFICES ASSUME ScanInv, [ScanNext]_scanVars PROVE ScanInv'
  OBVIOUS
<1> USE ScanConstants DEF ScanInv, ScanTypeOK, EventVars, DriverVars, ResultVars
<1>1. CASE DriverFinishes
  BY <1>1 DEF DriverFinishes, NoBitFromBefore, NoScanLeftRunning, QuietChannel, Silent
<1>2. CASE ScanDone
  <2>1. PICK n \in events :
          /\ events' = events \ {n}
          /\ IF scan_stop THEN UNCHANGED <<scan_done, bit_of>>
             ELSE scan_done' = TRUE /\ bit_of' = [scan |-> n, while |-> scan_no]
          /\ UNCHANGED <<scpc, scan_stop, scan_no, scan_on, mistaken, best, heard, channel>>
    BY <1>2 DEF ScanDone
  <2>2. n \in 1 .. scan_no /\ scan_done' \in BOOLEAN
    BY <2>1
  <2>3. /\ bit_of' \in [scan : 0 .. MaxScans, while : 0 .. MaxScans]
        /\ bit_of'.scan \in {n, bit_of.scan} /\ (scan_done' => bit_of'.while = scan_no \/ UNCHANGED <<scan_done, bit_of>>)
    BY <2>1, <2>2
  <2> QED
    BY <2>1, <2>2, <2>3 DEF NoBitFromBefore, NoScanLeftRunning, QuietChannel, Silent
<1>3. CASE ScanShutdown
  <2>1. scan_stop' \in BOOLEAN /\ UNCHANGED <<scpc, scan_done, bit_of, scan_no, scan_on, events, mistaken, best, heard, channel>>
    BY <1>3 DEF ScanShutdown
  <2> QED
    BY <2>1 DEF NoBitFromBefore, NoScanLeftRunning, QuietChannel, Silent
<1>4. CASE DelayEnds
  <2>1. RandomChannels \subseteq Channels
    BY DEF RandomChannels, Channels
  <2> QED
    BY <1>4, <2>1 DEF DelayEnds, NoBitFromBefore, NoScanLeftRunning, QuietChannel, Silent
<1>5. CASE ForgetOld
  <2>1. scan_done' \in BOOLEAN /\ ~scan_done'
    BY <1>5 DEF ForgetOld, ClearBit
  <2>2. /\ scpc = "forget" /\ scpc' = "start" /\ scan_no' = scan_no + 1 /\ scan_no < MaxScans
        /\ UNCHANGED <<scan_stop, bit_of, scan_on, events, mistaken, best, heard, channel>>
    BY <1>5 DEF ForgetOld
  <2> QED
    BY <2>1, <2>2 DEF NoBitFromBefore, NoScanLeftRunning, QuietChannel, Silent
<1>6. CASE StartScan
  BY <1>6 DEF StartScan, NoBitFromBefore, NoScanLeftRunning, QuietChannel, Silent
<1>7. CASE ScanAborted
  BY <1>7 DEF ScanAborted, NoBitFromBefore, NoScanLeftRunning, QuietChannel, Silent
<1>8. CASE ScanWaited
  <2>1. /\ scpc = "wait" /\ scan_done /\ ~scan_stop /\ mistaken' = (mistaken \/ bit_of.scan # scan_no)
        /\ scpc' \in {"score", "clear"} /\ UNCHANGED <<scan_done, scan_stop, bit_of, scan_on, events, scan_no, best, channel>>
    BY <1>8 DEF ScanWaited
  <2>2. mistaken' \in BOOLEAN /\ (scan_on # 0 => mistaken')
    BY <2>1
  <2>3. CASE UNCHANGED heard /\ scpc' = "clear"
    BY <2>1, <2>2, <2>3 DEF NoBitFromBefore, NoScanLeftRunning, QuietChannel, Silent
  <2>4. CASE scpc' = "score" /\ \E n \in 1 .. MaxRecords : heard' \in [1 .. n -> Records]
    <3>1. PICK n \in 1 .. MaxRecords : heard' \in [1 .. n -> Records]
      BY <2>4
    <3>2. heard' \in Seq(Records) /\ Len(heard') = n
      BY <3>1
    <3>3. Range(heard') \subseteq Records
      BY <3>1 DEF Range
    <3> QED
      BY <2>1, <2>2, <2>4, <3>2, <3>3 DEF NoBitFromBefore, NoScanLeftRunning, QuietChannel
  <2> QED
    BY <1>8, <2>3, <2>4 DEF ScanWaited
<1>9. CASE ScoreChannels
  <2>1. best' \in Channels /\ \A d \in Channels : Score(best') <= Score(d)
    BY <1>9, ChoiceFacts
  <2>2. ASSUME NEW c \in Channels, Silent(c), NEW r \in Range(heard), r.ch = best' PROVE FALSE
    <3>1. Score(c) = 0 /\ Score(best') <= Score(c)
      BY <2>1, <2>2, ScoreFacts
    <3>2. Score(best') \in Nat /\ Score(best') # 0
      BY <2>1, <2>2, ScoreFacts
    <3> QED
      BY <3>1, <3>2
  <2>3. /\ scpc = "score" /\ scpc' = "clear"
        /\ UNCHANGED <<scan_done, scan_stop, bit_of, scan_on, events, scan_no, mistaken, heard, channel>>
    BY <1>9 DEF ScoreChannels
  <2>4. QuietChannel'
    BY <2>2, <2>3 DEF QuietChannel, Silent
  <2> QED
    BY <2>1, <2>3, <2>4 DEF NoBitFromBefore, NoScanLeftRunning
<1>10. CASE ClearDone
  <2>1. scan_done' \in BOOLEAN /\ ~scan_done'
    BY <1>10 DEF ClearDone
  <2>2. /\ scpc = "clear" /\ scpc' \in {"done", "apply"}
        /\ UNCHANGED <<scan_stop, bit_of, scan_on, events, scan_no, mistaken, best, heard, channel>>
    BY <1>10 DEF ClearDone
  <2> QED
    BY <2>1, <2>2 DEF NoBitFromBefore, NoScanLeftRunning, QuietChannel, Silent
<1>11. CASE Apply
  <2>1. heard' = <<>> /\ heard' \in Seq(Records) /\ Len(heard') = 0 /\ Range(heard') = {}
    BY <1>11 DEF Apply, Range
  <2>2. /\ scpc = "apply" /\ scpc' = "delay" /\ channel' \in Channels
        /\ UNCHANGED <<scan_done, scan_stop, bit_of, scan_on, events, scan_no, mistaken, best>>
    BY <1>11 DEF Apply
  <2> QED
    BY <2>1, <2>2 DEF NoBitFromBefore, NoScanLeftRunning, QuietChannel
<1>12. CASE UNCHANGED scanVars
  BY <1>12 DEF scanVars, NoBitFromBefore, NoScanLeftRunning, QuietChannel, Silent
<1> QED
  BY <1>1, <1>2, <1>3, <1>4, <1>5, <1>6, <1>7, <1>8, <1>9, <1>10, <1>11, <1>12 DEF ScanNext, ScanTask

(* Whatever the driver reports and when, and however many access points are *)
(* heard: what the channel is chosen from is this scan's own result, no     *)
(* scan runs on, and the choice is quiet where some channel is.             *)
THEOREM ScanIsSafe == ScanSpec => []ScanSafe
<1>1. ASSUME ScanInit PROVE ScanInv
  <2>1. /\ scan_done \in BOOLEAN /\ scan_stop \in BOOLEAN /\ mistaken \in BOOLEAN
        /\ ~scan_done /\ ~mistaken
    BY <1>1 DEF ScanInit
  <2>2. /\ scpc = "delay" /\ scan_no = 0 /\ scan_on = 0 /\ events = {}
        /\ bit_of = [scan |-> 0, while |-> 0] /\ best = 1 /\ heard = <<>> /\ channel = 1
    BY <1>1 DEF ScanInit
  <2>3. heard \in Seq(Records) /\ Len(heard) = 0 /\ Range(heard) = {}
    BY <2>2 DEF Range
  <2> QED
    BY <2>1, <2>2, <2>3, ScanConstants
    DEF ScanInv, ScanTypeOK, Channels, NoBitFromBefore, NoScanLeftRunning, QuietChannel
<1>2. ScanInv => ScanSafe
  BY DEF ScanInv, ScanSafe
<1> QED
  BY <1>1, <1>2, ScanStepKeeps, PTL DEF ScanSpec

-----------------------------------------------------------------------------
(* The datagrams.  The limiter's window begins with a datagram that is let  *)
(* through.  What was let through is bounded from that point on, in the     *)
(* time before it that a second can still reach, and in every second that   *)
(* was over before it.                                                      *)

WindowBounded ==
  /\ \A u \in 0 .. Horizon : u > window_start + RateWindow => admitted[u] = 0
  /\ SumOver(admitted, window_start, Horizon) <= pkt_count
  /\ SumOver(admitted, window_start, Horizon) <= RateLimit
  /\ \A t \in 0 .. window_start - 1 :
       t + RateWindow >= window_start => SumOver(admitted, t, window_start - 1) <= RateLimit
  /\ \A t \in 0 .. Horizon :
       t + RateWindow < window_start => SumOver(admitted, t, t + RateWindow) <= 2 * RateLimit

DnsInv ==
  /\ DnsTypeOK /\ OnlyThisDatagram
  /\ dpc # "recv" => HeaderSize <= len
  /\ dpc = "answer" => pos + 4 <= len
  /\ window_start <= clock
  /\ WindowBounded

(* No second sees more than twice the limit. *)
LEMMA SecondBounded ==
  ASSUME DnsTypeOK, WindowBounded, NEW t \in 0 .. Horizon, NEW e \in t .. Horizon, e <= t + RateWindow
  PROVE  SumOver(admitted, t, e) <= 2 * RateLimit
<1>1. /\ t \in Int /\ e \in Int /\ window_start \in Int /\ Horizon \in Int /\ RateWindow \in Nat
      /\ RateLimit \in Nat /\ 0 <= window_start /\ window_start <= Horizon
  BY DnsConstants DEF DnsTypeOK
<1>2. \A i \in 0 .. Horizon : admitted[i] \in Nat
  BY DEF DnsTypeOK
<1>3. \A i \in t .. e : admitted[i] \in Int /\ admitted[i] \in Nat
  BY <1>1, <1>2
<1>4. SumOver(admitted, t, e) \in Nat
  BY <1>1, <1>3, SumAtLeast
<1>5. CASE t >= window_start
  <2>1. \A i \in window_start .. Horizon : admitted[i] \in Nat
    BY <1>1, <1>2
  <2>2. SumOver(admitted, t, e) <= SumOver(admitted, window_start, Horizon)
    <3>1. window_start <= t /\ t - 1 <= e /\ e <= Horizon
      BY <1>1, <1>5
    <3> QED
      BY <1>1, <2>1, <3>1, SumWithin
  <2>3. SumOver(admitted, window_start, Horizon) \in Nat
    BY <1>1, <2>1, SumAtLeast
  <2> QED
    BY <1>1, <1>4, <2>2, <2>3 DEF WindowBounded
<1>6. CASE t + RateWindow < window_start
  <2>1. t + RateWindow \in Int /\ t <= t /\ t - 1 <= e /\ \A i \in t .. t + RateWindow : admitted[i] \in Nat
    BY <1>1, <1>2, <1>6
  <2>2. SumOver(admitted, t, e) <= SumOver(admitted, t, t + RateWindow)
    BY <1>1, <2>1, SumWithin
  <2>3. SumOver(admitted, t, t + RateWindow) \in Nat
    BY <1>1, <2>1, SumAtLeast
  <2> QED
    BY <1>1, <1>4, <1>6, <2>2, <2>3 DEF WindowBounded
<1>7. CASE t < window_start /\ t + RateWindow >= window_start
  <2>1. /\ t \in 0 .. window_start - 1 /\ window_start - 1 \in Int /\ t - 1 <= window_start - 1
        /\ (window_start - 1) + 1 = window_start
        /\ \A i \in t .. window_start - 1 : admitted[i] \in Nat
        /\ \A i \in window_start .. Horizon : admitted[i] \in Nat
    BY <1>1, <1>2, <1>7
  <2>2. SumOver(admitted, t, window_start - 1) <= RateLimit /\ SumOver(admitted, t, window_start - 1) \in Nat
    <3>1. SumOver(admitted, t, window_start - 1) \in Nat
      BY <1>1, <2>1, SumAtLeast
    <3> QED
      BY <1>7, <2>1, <3>1 DEF WindowBounded
  <2>3. CASE e < window_start
    <3>1. t <= t /\ t - 1 <= e /\ e <= window_start - 1
      BY <1>1, <2>3
    <3>2. SumOver(admitted, t, e) <= SumOver(admitted, t, window_start - 1)
      BY <1>1, <2>1, <3>1, SumWithin
    <3> QED
      BY <1>1, <1>4, <2>2, <3>2
  <2>4. CASE e >= window_start
    <3>1. SumOver(admitted, t, e) = SumOver(admitted, t, window_start - 1) + SumOver(admitted, window_start, e)
      <4>1. t - 1 <= window_start - 1 /\ window_start - 1 <= e
        BY <1>1, <1>7, <2>4
      <4>2. SumOver(admitted, t, e) = SumOver(admitted, t, window_start - 1) + SumOver(admitted, (window_start - 1) + 1, e)
        BY <1>1, <1>3, <2>1, <4>1, SumSplit
      <4> QED
        BY <2>1, <4>2
    <3>2. SumOver(admitted, window_start, e) <= SumOver(admitted, window_start, Horizon)
      <4>1. window_start <= window_start /\ window_start - 1 <= e /\ e <= Horizon
        BY <1>1, <2>4
      <4> QED
        BY <1>1, <2>1, <4>1, SumWithin
    <3>3. SumOver(admitted, window_start, Horizon) \in Nat /\ SumOver(admitted, window_start, e) \in Nat
      <4>1. window_start - 1 <= e /\ window_start - 1 <= Horizon /\ \A i \in window_start .. e : admitted[i] \in Nat
        BY <1>1, <1>2, <2>4
      <4> QED
        BY <1>1, <2>1, <4>1, SumAtLeast
    <3> QED
      BY <1>1, <2>2, <3>1, <3>2, <3>3 DEF WindowBounded
  <2> QED
    BY <1>1, <2>3, <2>4
<1> QED
  BY <1>1, <1>5, <1>6, <1>7

(* The limiter, within a window and at the beginning of the next. *)
LEMMA LimitKeeps ==
  ASSUME DnsTypeOK, WindowBounded, window_start <= clock, Limit, UNCHANGED clock
  PROVE  /\ window_start' \in 0 .. Horizon /\ pkt_count' \in Nat /\ admitted' \in [0 .. Horizon -> Nat]
         /\ window_start' <= clock /\ WindowBounded'
         /\ dpc' \in {"recv", "opcode"}
<1> DEFINE count == (IF WindowOver THEN 0 ELSE pkt_count) + 1
<1>1. /\ clock \in Nat /\ window_start \in Nat /\ Horizon \in Nat /\ RateWindow \in Nat \ {0}
      /\ RateLimit \in Nat \ {0} /\ clock <= Horizon /\ clock \in 0 .. Horizon /\ pkt_count \in Nat
  BY DnsConstants DEF DnsTypeOK
<1>2. \A i \in 0 .. Horizon : admitted[i] \in Nat
  BY DEF DnsTypeOK
<1>3. count \in Nat /\ count >= 1 /\ pkt_count' = count
  BY <1>1 DEF Limit
<1>4. /\ count > RateLimit => dpc' = "recv" /\ admitted' = admitted
      /\ ~(count > RateLimit) => dpc' = "opcode" /\ admitted' = [admitted EXCEPT ![clock] = admitted[clock] + 1]
  BY <1>3 DEF Limit
<1>5. admitted' \in [0 .. Horizon -> Nat]
  BY <1>1, <1>2, <1>4 DEF DnsTypeOK
<1>6. \A i \in 0 .. Horizon : admitted'[i] = IF i = clock /\ ~(count > RateLimit) THEN admitted[i] + 1 ELSE admitted[i]
  BY <1>1, <1>2, <1>4 DEF DnsTypeOK
<1>7. \A i \in 0 .. Horizon : admitted'[i] \in Nat
  BY <1>5
<1>8. ASSUME NEW a \in 0 .. Horizon, NEW b \in 0 .. Horizon, a - 1 <= b, b < clock
      PROVE  SumOver(admitted', a, b) = SumOver(admitted, a, b)
  <2>1. \A i \in a .. b : admitted[i] \in Int /\ admitted'[i] = admitted[i]
    BY <1>1, <1>2, <1>6, <1>8
  <2> QED
    BY <1>1, <1>8, <2>1, SumSame
<1>9. ASSUME NEW a \in 0 .. clock
      PROVE  /\ SumOver(admitted, a, Horizon) \in Nat
             /\ SumOver(admitted', a, Horizon) =
                  SumOver(admitted, a, Horizon) + (IF count > RateLimit THEN 0 ELSE 1)
  <2>1. /\ a \in Int /\ Horizon \in Int /\ a - 1 <= Horizon /\ clock \in a .. Horizon
        /\ \A i \in a .. Horizon : admitted[i] \in Nat
        /\ \A i \in a .. Horizon : admitted[i] \in Int /\ admitted'[i] \in Int /\ (i # clock => admitted'[i] = admitted[i])
    BY <1>1, <1>2, <1>6, <1>7, <1>9
  <2>2. SumOver(admitted', a, Horizon) = SumOver(admitted, a, Horizon) + (admitted'[clock] - admitted[clock])
    BY <2>1, SumUpdate
  <2>3. admitted'[clock] - admitted[clock] = IF count > RateLimit THEN 0 ELSE 1
    BY <1>1, <1>2, <1>6
  <2>4. SumOver(admitted, a, Horizon) \in Nat
    BY <2>1, SumAtLeast
  <2> QED
    BY <2>2, <2>3, <2>4
<1>10. CASE WindowOver
  <2>1. window_start' = clock /\ count = 1 /\ clock > window_start + RateWindow
    BY <1>1, <1>10 DEF Limit, WindowOver
  <2>2. SumOver(admitted', clock, Horizon) = 1
    <3>1. SumOver(admitted, clock, Horizon) = 0
      <4>1. clock - 1 <= Horizon /\ \A i \in clock .. Horizon : admitted[i] = 0
        BY <1>1, <2>1 DEF WindowBounded
      <4> QED
        BY <1>1, <4>1, SumZero
    <3> QED
      BY <1>1, <1>9, <2>1, <3>1
  <2>3. ASSUME NEW u \in 0 .. Horizon, u > clock + RateWindow PROVE admitted'[u] = 0
    BY <1>1, <1>6, <2>1, <2>3 DEF WindowBounded
  <2>4. ASSUME NEW t \in 0 .. clock - 1, t + RateWindow >= clock
        PROVE  SumOver(admitted', t, clock - 1) <= RateLimit
    <3>1. t \in 0 .. Horizon /\ clock - 1 \in 0 .. Horizon /\ t - 1 <= clock - 1 /\ clock - 1 < clock
      BY <1>1, <2>4
    <3>2. SumOver(admitted', t, clock - 1) = SumOver(admitted, t, clock - 1)
      BY <1>8, <3>1
    <3>3. SumOver(admitted, t, clock - 1) <= SumOver(admitted, window_start, Horizon)
      <4>1. /\ window_start \in Int /\ Horizon \in Int /\ t \in Int /\ clock - 1 \in Int
            /\ window_start <= t /\ clock - 1 <= Horizon /\ t - 1 <= clock - 1
            /\ \A i \in window_start .. Horizon : admitted[i] \in Nat
        BY <1>1, <1>2, <2>1, <2>4
      <4> QED
        BY <4>1, SumWithin
    <3>4. SumOver(admitted, window_start, Horizon) \in Nat
      BY <1>1, <1>9
    <3>5. SumOver(admitted, t, clock - 1) \in Int
      <4>1. t \in Int /\ clock - 1 \in Int /\ t - 1 <= clock - 1 /\ \A i \in t .. clock - 1 : admitted[i] \in Int
        BY <1>1, <1>2, <2>4
      <4> QED
        BY <4>1, SumFacts
    <3> QED
      BY <1>1, <3>2, <3>3, <3>4, <3>5 DEF WindowBounded
  <2>5. ASSUME NEW t \in 0 .. Horizon, t + RateWindow < clock
        PROVE  SumOver(admitted', t, t + RateWindow) <= 2 * RateLimit
    <3>1. t + RateWindow \in t .. Horizon /\ t + RateWindow \in 0 .. Horizon /\ t - 1 <= t + RateWindow
      BY <1>1, <2>5
    <3>2. SumOver(admitted', t, t + RateWindow) = SumOver(admitted, t, t + RateWindow)
      BY <1>8, <2>5, <3>1
    <3>3. t + RateWindow <= t + RateWindow
      BY <1>1
    <3> QED
      BY <3>1, <3>2, <3>3, SecondBounded
  <2>6. WindowBounded'
    <3>1. SumOver(admitted', window_start', Horizon) <= pkt_count' /\ SumOver(admitted', window_start', Horizon) <= RateLimit
      BY <1>1, <1>3, <2>1, <2>2
    <3> QED
      BY <2>1, <2>3, <2>4, <2>5, <3>1 DEF WindowBounded
  <2> QED
    BY <1>1, <1>3, <1>4, <1>5, <2>1, <2>6
<1>11. CASE ~WindowOver
  <2>1. window_start' = window_start /\ count = pkt_count + 1 /\ clock <= window_start + RateWindow
    BY <1>1, <1>11 DEF Limit, WindowOver
  <2>2. /\ SumOver(admitted', window_start, Horizon) <= pkt_count'
        /\ SumOver(admitted', window_start, Horizon) <= RateLimit
    <3>1. /\ SumOver(admitted, window_start, Horizon) \in Nat
          /\ SumOver(admitted', window_start, Horizon) =
               SumOver(admitted, window_start, Horizon) + (IF count > RateLimit THEN 0 ELSE 1)
      <4>1. window_start \in 0 .. clock
        BY <1>1
      <4> QED
        BY <1>9, <4>1
    <3> QED
      BY <1>1, <1>3, <2>1, <3>1 DEF WindowBounded
  <2>3. ASSUME NEW u \in 0 .. Horizon, u > window_start + RateWindow PROVE admitted'[u] = 0
    BY <1>1, <1>6, <2>1, <2>3 DEF WindowBounded
  <2>4. ASSUME NEW t \in 0 .. window_start - 1, t + RateWindow >= window_start
        PROVE  SumOver(admitted', t, window_start - 1) <= RateLimit
    <3>1. t \in 0 .. Horizon /\ window_start - 1 \in 0 .. Horizon /\ t - 1 <= window_start - 1 /\ window_start - 1 < clock
      BY <1>1, <2>4
    <3> QED
      BY <1>8, <2>4, <3>1 DEF WindowBounded
  <2>5. ASSUME NEW t \in 0 .. Horizon, t + RateWindow < window_start
        PROVE  SumOver(admitted', t, t + RateWindow) <= 2 * RateLimit
    <3>1. t + RateWindow \in 0 .. Horizon /\ t - 1 <= t + RateWindow /\ t + RateWindow < clock
      BY <1>1, <2>5
    <3> QED
      BY <1>8, <2>5, <3>1 DEF WindowBounded
  <2>6. WindowBounded'
    BY <2>1, <2>2, <2>3, <2>4, <2>5 DEF WindowBounded
  <2> QED
    BY <1>1, <1>3, <1>4, <1>5, <2>1, <2>6 DEF DnsTypeOK
<1> QED
  BY <1>10, <1>11

LEMMA DnsStepKeeps == DnsInv /\ [DnsNext]_dnsVars => DnsInv'
<1> SUFFICES ASSUME DnsInv, [DnsNext]_dnsVars PROVE DnsInv'
  OBVIOUS
<1> USE DnsConstants DEF DnsInv, PacketVars, LimiterVars
<1>1. ASSUME UNCHANGED <<window_start, pkt_count, admitted>> PROVE WindowBounded'
  BY <1>1 DEF WindowBounded
<1>2. CASE Tick
  BY <1>1, <1>2 DEF Tick, DnsTypeOK, OnlyThisDatagram
<1>3. CASE ApStart
  <2>1. ap_ip' \in BOOLEAN /\ UNCHANGED <<dpc, len, pos, pointer, used, written, clock, window_start, pkt_count, admitted>>
    BY <1>3 DEF ApStart
  <2> QED
    BY <1>1, <2>1 DEF DnsTypeOK, OnlyThisDatagram
<1>4. ASSUME NEW n \in Lengths, NEW qr \in BOOLEAN, Receive(n, qr) PROVE DnsInv'
  <2>1. /\ window_start' \in 0 .. Horizon /\ pkt_count' \in Nat /\ admitted' \in [0 .. Horizon -> Nat]
        /\ window_start' <= clock' /\ WindowBounded' /\ dpc' \in {"recv", "opcode"}
    BY <1>4, LimitKeeps DEF Receive
  <2>2. pointer' \in BOOLEAN
    BY <1>4 DEF Receive
  <2>3. /\ n \in 0 .. BufferSize /\ n >= HeaderSize /\ len' = n /\ pos' = HeaderSize /\ used' = HeaderSize
        /\ written' = 0 /\ UNCHANGED <<clock, ap_ip>>
    BY <1>4 DEF Receive
  <2> QED
    BY <2>1, <2>2, <2>3 DEF DnsTypeOK, OnlyThisDatagram, HeaderSize
<1>5. ASSUME NEW n \in Nat, n <= len, Answer(n) PROVE DnsInv'
  BY <1>1, <1>5 DEF Answer, DnsTypeOK, OnlyThisDatagram
<1>6. ASSUME Drop PROVE DnsInv'
  BY <1>1, <1>6 DEF Drop, DnsTypeOK, OnlyThisDatagram
<1>7. CASE Header
  <2>1. HeaderSize \in Nat /\ HeaderSize <= len
    BY <1>7 DEF Header, HeaderSize
  <2>2. CASE dpc' = "walk" /\ UNCHANGED <<LimiterVars, ap_ip, PacketVars>>
    BY <1>1, <2>1, <2>2 DEF DnsTypeOK, OnlyThisDatagram
  <2> QED
    BY <1>5, <1>6, <1>7, <2>1, <2>2 DEF Header
<1>8. CASE Walk
  <2>1. PICK b \in Bytes : Pointer(b) \/ Label(b) \/ EndOfName(b)
    BY <1>8 DEF Walk
  <2>2. /\ dpc = "walk" /\ pos < len /\ b \in Nat /\ HeaderSize \in Nat /\ HeaderSize <= len
    BY <1>8, <2>1 DEF Walk, HeaderSize
  <2>3. CASE FormErr
    BY <1>5, <2>2, <2>3 DEF FormErr
  <2>4. ASSUME ~FormErr
        PROVE  /\ UNCHANGED <<clock, window_start, pkt_count, admitted, ap_ip, len, written>>
               /\ dpc' \in {"walk", "question"} /\ pos' \in Nat /\ pointer' \in BOOLEAN /\ Read(pos + 1)
    <3>1. CASE Pointer(b)
      <4>1. pointer' = TRUE /\ pos' = pos + 2 /\ dpc' = "question" /\ Read(pos + 1)
            /\ UNCHANGED <<clock, window_start, pkt_count, admitted, ap_ip, len, written>>
        BY <2>4, <3>1 DEF Pointer
      <4>2. pointer' \in BOOLEAN
        BY <4>1
      <4> QED
        BY <2>2, <4>1, <4>2 DEF DnsTypeOK
    <3>2. CASE Label(b) \/ EndOfName(b)
      BY <2>2, <2>4, <3>2 DEF Label, EndOfName, DnsTypeOK
    <3> QED
      BY <2>1, <3>1, <3>2
  <2>5. CASE ~FormErr
    <3>1. used' \in Nat /\ used' <= len
      BY <2>2, <2>4, <2>5 DEF Read, DnsTypeOK, OnlyThisDatagram
    <3> QED
      BY <1>1, <2>2, <2>4, <2>5, <3>1 DEF DnsTypeOK, OnlyThisDatagram
  <2> QED
    BY <2>3, <2>5
<1>9. CASE OutOfBytes
  BY <1>1, <1>9 DEF OutOfBytes, DnsTypeOK, OnlyThisDatagram
<1>10. CASE Question
  <2>1. HeaderSize \in Nat /\ HeaderSize <= len
    BY <1>10 DEF Question, HeaderSize
  <2>2. CASE FormErr
    BY <1>5, <2>1, <2>2 DEF FormErr
  <2>3. CASE ~FormErr
    BY <1>1, <1>10, <2>1, <2>3, SMTT(30) DEF Question, Read, DnsTypeOK, OnlyThisDatagram
  <2> QED
    BY <2>2, <2>3
<1>11. CASE Build
  <2>1. pos + 4 \in Nat /\ pos + 4 <= len
    BY <1>11 DEF Build, DnsTypeOK
  <2>2. CASE Answer(pos + 4) \/ Drop
    BY <1>5, <1>6, <2>1, <2>2
  <2>3. CASE Fits(pos + 4) /\ AnswerA(pos + 4)
    <3>1. CASE Drop
      BY <1>6, <3>1
    <3>2. CASE ~Drop
      <4>1. /\ dpc' = "recv" /\ written' = pos + 4 + AnswerSize
            /\ UNCHANGED <<LimiterVars, ap_ip, len, pos, pointer, used>>
        BY <2>3, <3>2 DEF AnswerA
      <4>2. written' \in 0 .. BufferSize
        BY <2>1, <2>3, <4>1 DEF Fits, AnswerSize
      <4> QED
        BY <1>1, <4>1, <4>2 DEF DnsTypeOK, OnlyThisDatagram
    <3> QED
      BY <3>1, <3>2
  <2> QED
    BY <1>11, <2>2, <2>3 DEF Build, AnswerA, NoData
<1>12. CASE UNCHANGED dnsVars
  BY <1>1, <1>12 DEF dnsVars, DnsTypeOK, OnlyThisDatagram
<1> QED
  BY <1>2, <1>3, <1>4, <1>7, <1>8, <1>9, <1>10, <1>11, <1>12 DEF DnsNext, DnsStep

(* Whatever datagrams come and whenever: the task reads and answers no more *)
(* than it was sent, and lets no more than twice the limit through in any   *)
(* second.                                                                  *)
THEOREM DnsIsSafe == DnsSpec => []DnsSafe
<1>1. ASSUME DnsInit PROVE DnsInv
  <2>1. ap_ip \in BOOLEAN /\ pointer \in BOOLEAN
    BY <1>1 DEF DnsInit
  <2>2. /\ dpc = "recv" /\ clock \in 0 .. Horizon /\ window_start = 0 /\ pkt_count = 0
        /\ len = 0 /\ pos = 0 /\ used = 0 /\ written = 0 /\ admitted = [t \in 0 .. Horizon |-> 0]
    BY <1>1 DEF DnsInit
  <2>3. SumOver(admitted, 0, Horizon) = 0
    <3>1. 0 - 1 <= Horizon /\ Horizon \in Int /\ 0 \in Int /\ \A i \in 0 .. Horizon : admitted[i] = 0
      BY <2>2, DnsConstants
    <3> QED
      BY <3>1, SumZero
  <2>4. WindowBounded
    BY <2>2, <2>3, DnsConstants DEF WindowBounded
  <2> QED
    BY <2>1, <2>2, <2>4, DnsConstants DEF DnsInv, DnsTypeOK, OnlyThisDatagram
<1>2. ASSUME DnsInv PROVE DnsSafe
  <2>1. BurstBounded
    <3> SUFFICES ASSUME NEW t \in 0 .. Horizon
                 PROVE  SumOver(admitted, t, IF t + RateWindow < Horizon THEN t + RateWindow ELSE Horizon)
                          <= 2 * RateLimit
      BY DEF BurstBounded
    <3> DEFINE e == IF t + RateWindow < Horizon THEN t + RateWindow ELSE Horizon
    <3>1. e \in t .. Horizon /\ e <= t + RateWindow
      BY DnsConstants
    <3> QED
      BY <1>2, <3>1, SecondBounded DEF DnsInv
  <2> QED
    BY <1>2, <2>1 DEF DnsInv, DnsSafe
<1> QED
  BY <1>1, <1>2, DnsStepKeeps, PTL DEF DnsSpec

-----------------------------------------------------------------------------
(* The shutdown. *)


USE DEF vars

(* The order of the teardown, spelled out. *)
LEMMA Order ==
  /\ Len(TeardownOrder) \in {6, 7}
  /\ Len(TeardownOrder) = 7 <=> Battery
  /\ TeardownOrder[1] = "radio" /\ TeardownOrder[2] = "handlers"
  /\ TeardownOrder[3] = "wifi" /\ TeardownOrder[4] = "loop"
  /\ TeardownOrder[5] = "storage" /\ TeardownOrder[6] = "nvs"
  /\ Battery => TeardownOrder[7] = "adc"
<1>1. CASE Battery
  <2>1. TeardownOrder = <<"radio", "handlers", "wifi", "loop", "storage", "nvs", "adc">>
    BY <1>1 DEF TeardownOrder
  <2> QED
    BY <1>1, <2>1
<1>2. CASE ~Battery
  <2>1. TeardownOrder = <<"radio", "handlers", "wifi", "loop", "storage", "nvs">>
    BY <1>2 DEF TeardownOrder
  <2> QED
    BY <1>2, <2>1
<1> QED
  BY <1>1, <1>2

(* What is up at which point of the teardown. *)
LEMMA UpFacts ==
  ASSUME torn \in 0..Len(TeardownOrder)
  PROVE /\ torn = 0 => {"radio", "wifi", "storage"} \subseteq Up
        /\ torn < 2 => {"handlers", "wifi", "loop"} \subseteq Up
        /\ "handlers" \in Up => torn < 2
  BY Order DEF Up

LEMMA Constants ==
  /\ Finishers \subseteq {"reset", "battery"}
  /\ CriticalDone \subseteq AllDone
  /\ AllDone \subseteq Bits /\ "SHUTDOWN" \in Bits
  /\ \A p \in Finishers : DoneBit(p) \in Bits \ (CriticalDone \cup {"SHUTDOWN"})
  BY DEF Finishers, AllDone, CriticalDone, Bits, DoneBit

LEMMA LeaveType == ASSUME NEW s \in {"boot", "asleep"}, TypeOK, Leave(s) PROVE TypeOK'
  BY Order DEF Leave, FreshNext, TypeOK, FinisherPcs

(* Every step keeps every variable in its type. *)
LEMMA ShutdownTypeStep == TypeOK /\ [Next]_vars => TypeOK'
<1> SUFFICES ASSUME TypeOK, [Next]_vars PROVE TypeOK'
  OBVIOUS
<1>1. CASE Boot \/ Wake \/ VoltsChange
  BY <1>1 DEF Boot, Wake, VoltsChange, Rest, TypeOK
<1>2. CASE Measure
  BY <1>2 DEF Measure, GoOn, Others, TypeOK, FinisherPcs
<1>3. ASSUME NEW p \in Finishers, WatchEnds(p) \/ FreeProc(p) PROVE TypeOK'
  <2>1. CASE WatchEnds(p) \/ TakeShutdown(p) \/ SendShutdown(p) \/ Graceful(p)
    BY <2>1 DEF WatchEnds, TakeShutdown, SendShutdown, Graceful, GoOn, Others, TypeOK, FinisherPcs
  <2>2. CASE Report(p) \/ Due(p)
    BY <2>2, Constants DEF Report, Due, GoOn, Others, TypeOK, FinisherPcs
  <2>3. CASE SetShutdown(p)
    BY <2>3, Constants DEF SetShutdown, GoOn, Others, TypeOK, FinisherPcs
  <2>4. CASE GraceExpires(p)
    <3>1. CASE Leave("boot")
      BY <3>1, LeaveType
    <3>2. CASE GoOn(p, "teardown") /\ UNCHANGED <<ctx_events, sem, torn>> /\ Others(p)
      BY <3>2 DEF GoOn, Others, TypeOK, FinisherPcs
    <3> QED
      BY <2>4, <3>1, <3>2 DEF GraceExpires
  <2>5. CASE TeardownStep(p)
    BY <2>5, Order DEF TeardownStep, GoOn, Others, TypeOK, FinisherPcs
  <2>6. CASE End(p)
    BY <2>6, LeaveType DEF End
  <2> QED
    BY <1>3, <2>1, <2>2, <2>3, <2>4, <2>5, <2>6 DEF FreeProc
<1>4. CASE ApWakes \/ ApChecks \/ HandlerRuns \/ ApScans \/ ApApplies \/ HandlerReturns
  BY <1>4 DEF ApWakes, ApChecks, HandlerRuns, ApScans, ApApplies, HandlerReturns, TypeOK
<1>5. CASE ApExits \/ OrchestratorExits \/ BeepExits
  BY <1>5 DEF ApExits, OrchestratorExits, BeepExits, TypeOK, Bits, AllDone
<1>6. CASE UNCHANGED vars
  BY <1>6 DEF TypeOK, Up
<1> QED
  BY <1>1, <1>2, <1>3, <1>4, <1>5, <1>6 DEF Next, Tasks

(* The type invariant holds. *)
THEOREM ShutdownTypeCorrect == Spec => []TypeOK
<1>1. Init => TypeOK
  BY Order DEF Init, Fresh, TypeOK, FinisherPcs
<1> QED
  BY <1>1, ShutdownTypeStep, PTL DEF Spec

-----------------------------------------------------------------------------
LEMMA LeaveInv == ASSUME NEW s, Leave(s) PROVE ShutdownInv'
  BY DEF Leave, FreshNext, ShutdownInv, SingleShutdown, InFreeProc

(* A finisher that moves to a place outside free_proc(), or from one place  *)
(* in it before the teardown to the next, keeps the invariant.              *)
LEMMA GotoInv ==
  ASSUME TypeOK, ShutdownInv, NEW p \in Finishers, NEW l, GoOn(p, l),
         UNCHANGED <<apc, opc, handler, torn, sem>>,
         {"AP_DONE", "ORCHESTRATOR_DONE"} \cap ctx_events' \subseteq ctx_events,
         l \in {"set", "send", "wait", "teardown", "end"} => InFreeProc(p),
         l \in {"teardown", "end"} => apc = "done" /\ opc = "done"
  PROVE ShutdownInv'
<1>1. \A q \in Finishers : InFreeProc(q)' => InFreeProc(q)
  BY DEF GoOn, InFreeProc, TypeOK
<1>2. \A q \in Finishers : fpc'[q] \in {"teardown", "end"} => apc = "done" /\ opc = "done"
  BY DEF GoOn, ShutdownInv, TypeOK
<1> QED
  BY <1>1, <1>2 DEF ShutdownInv, SingleShutdown

LEMMA ShutdownInvStep == TypeOK /\ ShutdownInv /\ [Next]_vars => ShutdownInv'
<1> SUFFICES ASSUME TypeOK, ShutdownInv, [Next]_vars PROVE ShutdownInv'
  OBVIOUS
<1>1. CASE Boot \/ Wake \/ VoltsChange \/ UNCHANGED vars
  <2>1. UNCHANGED <<ctx_events, sem, fpc, apc, opc, handler, torn>>
    BY <1>1 DEF Boot, Wake, VoltsChange, Rest
  <2> QED
    BY <2>1 DEF ShutdownInv, SingleShutdown, InFreeProc
<1>2. CASE Measure
  BY <1>2, GotoInv DEF Measure, Others
<1>3. ASSUME NEW p \in Finishers, WatchEnds(p) \/ FreeProc(p) PROVE ShutdownInv'
  <2>1. CASE WatchEnds(p)
    BY <2>1, GotoInv DEF WatchEnds, Others
  <2>2. CASE Report(p) \/ Due(p)
    <3>1. ctx_events' = ctx_events \cup {DoneBit(p)} /\ DoneBit(p) \notin CriticalDone
      BY <2>2, Constants DEF Report, Due
    <3> QED
      BY <2>2, <3>1, GotoInv DEF Report, Due, Others, CriticalDone
  <2>3. CASE TakeShutdown(p)
    <3>1. CASE ~sem
      <4>1. UNCHANGED <<ctx_events, sem, apc, opc, handler, torn>> /\ GoOn(p, "gone")
        BY <2>3, <3>1 DEF TakeShutdown, Others, TypeOK
      <4> QED
        BY <4>1, GotoInv
    <3>2. CASE sem
      <4>1. \A q \in Finishers : ~InFreeProc(q)
        BY <3>2 DEF ShutdownInv
      <4>2. \A q \in Finishers : InFreeProc(q)' => q = p
        BY <2>3, <4>1 DEF TakeShutdown, GoOn, InFreeProc, TypeOK
      <4>3. \A q \in Finishers : fpc'[q] \notin {"teardown", "end"}
        BY <2>3, <3>2, <4>1 DEF TakeShutdown, GoOn, InFreeProc, TypeOK
      <4> QED
        BY <2>3, <4>2, <4>3 DEF TakeShutdown, Others, ShutdownInv, SingleShutdown
    <3> QED
      BY <3>1, <3>2
  <2>4. CASE SetShutdown(p) \/ SendShutdown(p)
    BY <2>4, GotoInv DEF SetShutdown, SendShutdown, Others, InFreeProc
  <2>5. CASE Graceful(p)
    BY <2>5, GotoInv, Constants DEF Graceful, Others, InFreeProc, ShutdownInv, CriticalDone
  <2>6. CASE GraceExpires(p)
    <3>1. CASE Leave("boot")
      BY <3>1, LeaveInv
    <3>2. CASE ~Leave("boot")
      BY <2>6, <3>2, GotoInv DEF GraceExpires, GraceOver, Others, InFreeProc, ShutdownInv,
         CriticalDone
    <3> QED
      BY <3>1, <3>2
  <2>7. CASE TeardownStep(p)
    <3>1. CASE torn = Len(TeardownOrder)
      BY <2>7, <3>1, GotoInv DEF TeardownStep, Others, InFreeProc, ShutdownInv
    <3>2. CASE torn # Len(TeardownOrder)
      <4>1. torn' = torn + 1 /\ (torn = 1 => handler = "idle")
        BY <2>7, <3>2, Order DEF TeardownStep
      <4>2. UNCHANGED <<ctx_events, sem, fpc, apc, opc, handler>>
        BY <2>7, <3>2 DEF TeardownStep, Others
      <4>3. apc = "done" /\ opc = "done"
        BY <2>7 DEF TeardownStep, ShutdownInv
      <4>4. torn \in Nat
        BY Order DEF TypeOK
      <4> QED
        BY <4>1, <4>2, <4>3, <4>4 DEF ShutdownInv, SingleShutdown, InFreeProc
    <3> QED
      BY <3>1, <3>2
  <2>8. CASE End(p)
    BY <2>8, LeaveInv DEF End
  <2> QED
    BY <1>3, <2>1, <2>2, <2>3, <2>4, <2>5, <2>6, <2>7, <2>8 DEF FreeProc
<1>4. CASE ApWakes \/ ApChecks \/ ApScans \/ ApApplies \/ HandlerReturns
  BY <1>4 DEF ApWakes, ApChecks, ApScans, ApApplies, HandlerReturns, ShutdownInv,
     SingleShutdown, InFreeProc
<1>5. CASE HandlerRuns
  BY <1>5, UpFacts, Order DEF HandlerRuns, ShutdownInv, SingleShutdown, InFreeProc, TypeOK
<1>6. CASE ApExits \/ OrchestratorExits \/ BeepExits
  BY <1>6 DEF ApExits, OrchestratorExits, BeepExits, ShutdownInv, SingleShutdown, InFreeProc
<1> QED
  BY <1>1, <1>2, <1>3, <1>4, <1>5, <1>6 DEF Next, Tasks

(* The inductive invariant holds. *)
THEOREM ShutdownInvariant == Spec => [](TypeOK /\ ShutdownInv)
<1>1. Init => ShutdownInv
  BY DEF Init, Fresh, ShutdownInv, SingleShutdown, InFreeProc
<1> QED
  BY <1>1, ShutdownInvStep, ShutdownTypeCorrect, PTL DEF Spec

(* The same under the name the run checks it by.                            *)
THEOREM ShutdownIsSafe == Spec => []ShutdownSafe
  BY ShutdownInvariant, PTL DEF ShutdownSafe

(* Only one of the reset timer and the battery monitor runs the teardown.   *)
THEOREM OneShutdown == Spec => []SingleShutdown
<1>1. ShutdownInv => SingleShutdown
  BY DEF ShutdownInv
<1> QED
  BY <1>1, ShutdownInvariant, PTL

(* Nothing is torn down under the Wi-Fi task, the orchestrator or a running *)
(* event handler, whatever hangs and whenever the grace period expires.     *)
THEOREM TeardownSafe == Spec => []NothingPulledAway
<1>1. TypeOK /\ ShutdownInv => NothingPulledAway
  <2> SUFFICES ASSUME TypeOK, ShutdownInv PROVE NothingPulledAway
    OBVIOUS
  <2>1. torn \in Nat /\ torn \in 0..Len(TeardownOrder)
    BY Order DEF TypeOK
  <2> QED
    BY <2>1, UpFacts DEF ShutdownInv, NothingPulledAway
<1> QED
  BY <1>1, ShutdownInvariant, PTL
=============================================================================
