---------------------------- MODULE ChannelScan ----------------------------
(***************************************************************************)
(* smart_ap_task() between two channel checks: find_best_channel(), which  *)
(* waits for the driver's SCAN_DONE by way of an event bit, scores what    *)
(* was heard and moves the access point.  Source: main/wifi_ap.c.          *)
(*                                                                         *)
(* The scan, its event and the records belong to the Wi-Fi driver.         *)
(* Abstracted: what is random about the delay; the configuration besides   *)
(* the channel; the strength of a record to a few values.                  *)
(***************************************************************************)
EXTENDS Integers, Sequences, SequencesExt, Sums

CONSTANTS
  MaxChannels,  \* CONFIG_SMART_AP_MAX_CHANNELS
  Rssi,         \* the strengths in dBm that are tried
  MaxRecords,   \* bound: access points heard in a scan
  MaxScans      \* bound: scans of a session

Channels == 1..MaxChannels

ASSUME ScanConstants ==
  /\ MaxChannels \in Nat \ {0} /\ Rssi \subseteq Int
  /\ MaxRecords \in Nat /\ MaxScans \in Nat \ {0}

VARIABLES
  scpc,       \* where smart_ap_task is
  scan_done,  \* EVT_SCAN_DONE_BIT
  scan_stop,  \* EVT_SHUTDOWN_BIT
  scan_no,    \* number of the last attempt to scan
  scan_on,    \* the attempt the driver is scanning for, 0 if it is not
  events,     \* scans whose SCAN_DONE waits for the event loop
  bit_of,     \* history: the attempt whose SCAN_DONE set the bit last, and when:
              \* [scan, while], "while" the last attempt at that time
  mistaken,   \* history: a SCAN_DONE was taken for a later attempt's
  best,       \* best_channel
  heard,      \* the records that are scored
  channel     \* the access point's channel

scanVars == <<scpc, scan_done, scan_stop, scan_no, scan_on, events, bit_of, mistaken,
              best, heard, channel>>

DriverVars == <<scan_on, events>>
EventVars == <<scan_done, scan_stop, bit_of>>
ResultVars == <<mistaken, best, heard, channel>>

(* A record is an access point's channel and strength; the driver may know  *)
(* channels the firmware does not use.                                      *)
Records == [ch : 1..MaxChannels + 1, rssi : Rssi]

ScanTypeOK ==
  /\ scpc \in {"delay", "forget", "start", "wait", "score", "clear", "apply", "done"}
  /\ scan_done \in BOOLEAN /\ scan_stop \in BOOLEAN /\ mistaken \in BOOLEAN
  /\ scan_no \in 0..MaxScans /\ scan_on \in 0..scan_no /\ events \subseteq 1..MaxScans
  /\ bit_of \in [scan : 0..MaxScans, while : 0..MaxScans]
  /\ best \in Channels /\ channel \in Channels
  /\ Len(heard) <= MaxRecords /\ Range(heard) \subseteq Records

(* The task's first delay; the access point is on the channel that          *)
(* wifi_init_apsta() found, here the first.                                 *)
ScanInit ==
  /\ scpc = "delay" /\ scan_done = FALSE /\ scan_stop = FALSE
  /\ scan_no = 0 /\ scan_on = 0 /\ events = {}
  /\ bit_of = [scan |-> 0, while |-> 0] /\ mistaken = FALSE
  /\ best = 1 /\ heard = <<>> /\ channel = 1

-----------------------------------------------------------------------------
(* The Wi-Fi driver and its event handler. *)

DriverFinishes ==
  /\ scan_on # 0 /\ scan_on' = 0 /\ events' = events \union {scan_on}
  /\ UNCHANGED <<scpc, EventVars, scan_no, ResultVars>>

(* wifi_event_handler(), which ignores everything after a shutdown. *)
ScanDone ==
  \E n \in events :
    /\ events' = events \ {n}
    /\ IF scan_stop THEN UNCHANGED <<scan_done, bit_of>>
       ELSE scan_done' = TRUE /\ bit_of' = [scan |-> n, while |-> scan_no]
    /\ UNCHANGED <<scpc, scan_stop, scan_no, scan_on, ResultVars>>

ScanShutdown ==
  /\ ~scan_stop /\ scan_stop' = TRUE
  /\ UNCHANGED <<scpc, scan_done, bit_of, scan_no, DriverVars, ResultVars>>

-----------------------------------------------------------------------------
(* smart_ap_task() *)

RandomChannels == {(x % MaxChannels) + 1 : x \in 0..MaxChannels}

(* The wait ends with the shutdown or after the delay; best_channel is      *)
(* random until a score is better.                                          *)
DelayEnds ==
  /\ scpc = "delay"
  /\ \/ scan_stop /\ scpc' = "done" /\ UNCHANGED best
     \/ scpc' = "forget" /\ best' \in RandomChannels
  /\ UNCHANGED <<EventVars, DriverVars, scan_no, mistaken, heard, channel>>

(* Mutant: relies on the clear at the end of the last attempt. *)
MutClearBit == UNCHANGED scan_done

ClearBit == scan_done' = FALSE

ForgetOld ==
  /\ scpc = "forget" /\ scan_no < MaxScans
  /\ scpc' = "start" /\ ClearBit /\ scan_no' = scan_no + 1
  /\ UNCHANGED <<scan_stop, bit_of, DriverVars, ResultVars>>

(* The driver may refuse, and does while it scans.                          *)
StartScan ==
  /\ scpc = "start"
  /\ \/ scan_on = 0 /\ scpc' = "wait" /\ scan_on' = scan_no
     \/ scpc' = "clear" /\ UNCHANGED scan_on
  /\ UNCHANGED <<EventVars, scan_no, events, ResultVars>>

(* A shutdown, or the timeout: esp_wifi_scan_stop(), after which the driver *)
(* may still report the scan it was about to end.                           *)
ScanAborted ==
  /\ scpc = "wait" /\ (scan_stop \/ ~scan_done)
  /\ scpc' = "clear" /\ scan_on' = 0
  /\ events' \in {events, (events \union {scan_on}) \ {0}}
  /\ UNCHANGED <<EventVars, scan_no, ResultVars>>

(* The wait ends with the bit: get_ap_num and get_ap_records succeed, or no *)
(* records, no memory or an error leave the random channel.                 *)
ScanWaited ==
  /\ scpc = "wait" /\ scan_done /\ ~scan_stop
  /\ mistaken' = (mistaken \/ bit_of.scan # scan_no)
  /\ \/ \E n \in 1..MaxRecords : heard' \in [1..n -> Records] /\ scpc' = "score"
     \/ scpc' = "clear" /\ UNCHANGED heard
  /\ UNCHANGED <<EventVars, DriverVars, scan_no, best, channel>>

Penalty(r) == IF 100 + r.rssi < 1 THEN 1 ELSE 100 + r.rssi

(* What a record adds to the score of channel c. *)
Share(r, c) ==
  IF r.ch \notin Channels THEN 0
  ELSE CASE c = r.ch -> Penalty(r)
         [] c \in {r.ch - 1, r.ch + 1} -> Penalty(r) \div 2
         [] c \in {r.ch - 2, r.ch + 2} -> Penalty(r) \div 4
         [] OTHER -> 0

Score(c) == SumOver([i \in DOMAIN heard |-> Share(heard[i], c)], 1, Len(heard))

(* The first of the channels with the lowest score. *)
ScoreChannels ==
  /\ scpc = "score" /\ scpc' = "clear"
  /\ best' = CHOOSE c \in Channels :
               \A d \in Channels : IF d < c THEN Score(c) < Score(d)
                                                ELSE Score(c) <= Score(d)
  /\ UNCHANGED <<EventVars, DriverVars, scan_no, mistaken, heard, channel>>

ClearDone ==
  /\ scpc = "clear" /\ scpc' = IF scan_stop THEN "done" ELSE "apply"
  /\ scan_done' = FALSE
  /\ UNCHANGED <<scan_stop, bit_of, DriverVars, scan_no, ResultVars>>

(* deauth_sta and set_config; reading or writing the configuration may fail. *)
Apply ==
  /\ scpc = "apply" /\ scpc' = "delay"
  /\ channel' \in {best, channel}
  /\ heard' = <<>>
  /\ UNCHANGED <<EventVars, DriverVars, scan_no, mistaken, best>>

ScanTask ==
  \/ DelayEnds \/ ForgetOld \/ StartScan \/ ScanAborted \/ ScanWaited
  \/ ScoreChannels \/ ClearDone \/ Apply

ScanNext == DriverFinishes \/ ScanDone \/ ScanShutdown \/ ScanTask

ScanSpec == ScanInit /\ [][ScanNext]_scanVars

-----------------------------------------------------------------------------

(* A SCAN_DONE that was handled before this scan was started never ends the *)
(* wait for it: whatever was left by a scan that timed out, only an event   *)
(* still in the event loop's queue when the scan began can be mistaken for  *)
(* its end (wifi_ap.c:156-174).                                             *)
NoBitFromBefore == scpc \in {"start", "wait"} /\ scan_done => bit_of.while = scan_no

(* No scan runs on behind the task's back, disturbing the stations and      *)
(* refusing the next: whatever ends the wait, unless an older SCAN_DONE was *)
(* mistaken, the driver has finished or was stopped (wifi_ap.c:176-188).    *)
NoScanLeftRunning == scan_on # 0 /\ scpc # "wait" => mistaken

(* The channel moved to is quiet: where some channel hears nothing within   *)
(* two channels, the choice has no access point of its own, however weak -  *)
(* although halves and quarters of small penalties round to nothing         *)
(* (wifi_ap.c:225-256).                                                     *)
Silent(c) == \A r \in Range(heard) : r.ch \notin Channels \/ r.ch - c \notin -2..2

QuietChannel ==
  scpc \in {"clear", "apply"} /\ heard # <<>> /\ (\E c \in Channels : Silent(c)) =>
    \A r \in Range(heard) : r.ch # best

(* What the channel is chosen from is this scan's own result, the scan is    *)
(* over, and the choice is quiet (wifi_ap.c:128-292).                        *)
ScanSafe == ScanTypeOK /\ NoBitFromBefore /\ NoScanLeftRunning /\ QuietChannel
=============================================================================
