------------------------------ MODULE Shutdown ------------------------------
(***************************************************************************)
(* The end of a session: the two tasks that may end it (the reset timer    *)
(* and the battery monitor), free_proc(), which one of them runs, and the  *)
(* tasks it waits for.  Source: main/power_mgmt.c, and from main/wifi_ap.c *)
(* the loop of smart_ap_task(), from main/main.c the order of app_main().  *)
(*                                                                         *)
(* Abstracted: the orchestrator (module ServerLifecycle) and the beep task *)
(* (module Beep) are "run" until they report; a channel scan is one stay   *)
(* at "scan"; the teardown is a sequence of resources given up in order.   *)
(***************************************************************************)
EXTENDS Naturals, Sequences, FiniteSets

CONSTANTS
  Battery,     \* CONFIG_SMART_AP_BATTERY_CONTROL_ENABLED
  Volts,       \* the voltages get_battery_voltage() may return
  BadMv, CriticalMv, StartMv,   \* CONFIG_SMART_AP_BATT_{BAD,CRITICAL,START}_MV
  MayFail      \* what may go wrong in a session: a subset of FaultKinds

(* A task stops running for good; or one that runs ("slow") misses the     *)
(* grace period, as the orchestrator in its DNS backoff may.               *)
FaultKinds == {"orchestrator", "ap", "beep", "slow"}

ASSUME ShutdownAssumption ==
  /\ Battery \in BOOLEAN
  /\ Volts \subseteq Nat
  /\ BadMv \in Nat /\ CriticalMv \in Nat /\ StartMv \in Nat
  /\ MayFail \subseteq FaultKinds

(* reset_timer_task and, if configured, battery_monitor_task. *)
Finishers == IF Battery THEN {"reset", "battery"} ELSE {"reset"}

(* The EVT_*_DONE bits free_proc() waits for, and those it insists on. *)
AllDone ==
  {"AP_DONE", "BEEP_DONE", "ORCHESTRATOR_DONE", "RESET_DONE"}
    \cup (IF Battery THEN {"BATT_DONE"} ELSE {})
(* Mutant: the Wi-Fi task is not critical. *)
MutCriticalDone == {"ORCHESTRATOR_DONE"}

CriticalDone == {"ORCHESTRATOR_DONE", "AP_DONE"}

Bits == AllDone \cup {"SHUTDOWN"}

(* Mutant: the driver goes before the handlers that call it. *)
MutTeardownOrder ==
  IF Battery THEN <<"radio", "wifi", "handlers", "loop", "storage", "nvs", "adc">>
             ELSE <<"radio", "wifi", "handlers", "loop", "storage", "nvs">>

(* What free_proc() gives up, in its order: Wi-Fi stopped, the handlers     *)
(* unregistered, the driver, the event loop, the file systems, NVS, the ADC.*)
TeardownOrder ==
  IF Battery THEN <<"radio", "handlers", "wifi", "loop", "storage", "nvs", "adc">>
             ELSE <<"radio", "handlers", "wifi", "loop", "storage", "nvs">>

VARIABLES
  power,    \* "boot", "on" or "asleep"
  volts,    \* the battery
  ctx_events, \* ctx->events
  sem,      \* ctx->shutdown_sem can be taken
  fpc,      \* where each of Finishers is
  apc,      \* where smart_ap_task is
  opc,      \* the orchestrator: "run" or "done"
  beepc,      \* the beep task: "run" or "done"
  handler,  \* wifi_event_handler, past its look at EVT_SHUTDOWN_BIT
  torn,     \* how many entries of TeardownOrder are given up
  faults    \* what goes wrong in this session

vars == <<power, volts, ctx_events, sem, fpc, apc, opc, beepc, handler, torn, faults>>

FinisherPcs == {"measure", "watch", "due", "report", "take", "set", "send", "wait", "teardown",
                "end", "gone"}

TypeOK ==
  /\ power \in {"boot", "on", "asleep"}
  /\ volts \in Volts
  /\ ctx_events \subseteq Bits
  /\ sem \in BOOLEAN
  /\ fpc \in [Finishers -> FinisherPcs]
  /\ apc \in {"sleep", "scan", "check", "apply", "done"}
  /\ opc \in {"run", "done"}
  /\ beepc \in {"run", "done"}
  /\ handler \in {"idle", "running"}
  /\ torn \in 0..Len(TeardownOrder)
  /\ faults \subseteq MayFail

Up == {TeardownOrder[i] : i \in torn + 1 .. Len(TeardownOrder)}

(* 0: no sample could be taken.  At or below BadMv: no battery. *)
Low(v, limit) == v < limit /\ v # 0 /\ v > BadMv

-----------------------------------------------------------------------------
(* Boot, and the ends of a session. *)

Fresh ==
  /\ ctx_events = {} /\ sem = TRUE
  /\ fpc = [p \in Finishers |-> IF p = "battery" THEN "measure" ELSE "watch"]
  /\ apc = "sleep" /\ opc = "run" /\ beepc = "run" /\ handler = "idle" /\ torn = 0

Init == power = "boot" /\ volts \in Volts /\ Fresh /\ faults = {}

FreshNext ==
  /\ ctx_events' = {} /\ sem' = TRUE
  /\ fpc' = [p \in Finishers |-> IF p = "battery" THEN "measure" ELSE "watch"]
  /\ apc' = "sleep" /\ opc' = "run" /\ beepc' = "run" /\ handler' = "idle" /\ torn' = 0

Rest == <<ctx_events, sem, fpc, apc, opc, beepc, handler, torn, faults>>

(* Mutant: boots whatever the battery says. *)
MutBoot ==
  /\ power = "boot" /\ power' = "on" /\ faults' \in SUBSET MayFail
  /\ UNCHANGED <<volts, ctx_events, sem, fpc, apc, opc, beepc, handler, torn>>

(* app_main(): sleeps at once on a low battery, else creates the tasks. *)
Boot ==
  /\ power = "boot"
  /\ \/ /\ Battery /\ Low(volts, StartMv)
        /\ power' = "asleep" /\ UNCHANGED faults
     \/ /\ ~(Battery /\ Low(volts, StartMv))
        /\ power' = "on" /\ faults' \in SUBSET MayFail
  /\ UNCHANGED <<volts, ctx_events, sem, fpc, apc, opc, beepc, handler, torn>>

Wake == power = "asleep" /\ power' = "boot" /\ UNCHANGED <<volts, Rest>>

VoltsChange == \E v \in Volts : volts' = v /\ UNCHANGED <<power, Rest>>

(* RAM is lost in a restart and in deep sleep alike. *)
Leave(state) == power' = state /\ FreshNext /\ faults' = {} /\ UNCHANGED volts

-----------------------------------------------------------------------------
(* The finishers. *)

GoOn(p, l) == fpc' = [fpc EXCEPT ![p] = l]

Others(p) == UNCHANGED <<power, volts, apc, opc, beepc, handler, faults>>

(* battery_monitor_task measures; the measurement ends early on a shutdown  *)
(* and then may be of fewer samples.                                        *)
Measure ==
  /\ "battery" \in Finishers /\ power = "on" /\ fpc["battery"] = "measure"
  /\ GoOn("battery", IF Low(volts, CriticalMv) THEN "due" ELSE "watch")
  /\ UNCHANGED <<ctx_events, sem, torn>> /\ Others("battery")

(* The waits of both loops: EVT_SHUTDOWN_BIT, or the next look at voltage   *)
(* or uptime (which may find the session over).                             *)
WatchEnds(p) ==
  /\ power = "on" /\ fpc[p] = "watch"
  /\ \/ "SHUTDOWN" \in ctx_events /\ GoOn(p, "report")
     \/ "SHUTDOWN" \notin ctx_events /\ GoOn(p, IF p = "battery" THEN "measure" ELSE "due")
  /\ UNCHANGED <<ctx_events, sem, torn>> /\ Others(p)

DoneBit(p) == IF p = "battery" THEN "BATT_DONE" ELSE "RESET_DONE"

(* EVT_SHUTDOWN_BIT was seen: the task reports and deletes itself. *)
Report(p) ==
  /\ power = "on" /\ fpc[p] = "report"
  /\ ctx_events' = ctx_events \cup {DoneBit(p)}
  /\ GoOn(p, "gone")
  /\ UNCHANGED <<sem, torn>> /\ Others(p)

(* Mutant: reports only as a bystander. *)
MutDue(p) ==
  /\ power = "on" /\ fpc[p] = "due"
  /\ GoOn(p, "take")
  /\ UNCHANGED <<ctx_events, sem, torn>> /\ Others(p)

(* The task's own done bit comes before free_proc(), which waits for it.    *)
Due(p) ==
  /\ power = "on" /\ fpc[p] = "due"
  /\ ctx_events' = ctx_events \cup {DoneBit(p)}
  /\ GoOn(p, "take")
  /\ UNCHANGED <<sem, torn>> /\ Others(p)

(* Mutant: looks at EVT_SHUTDOWN_BIT instead of taking the semaphore. *)
MutTakeShutdown(p) ==
  /\ power = "on" /\ fpc[p] = "take"
  /\ GoOn(p, IF "SHUTDOWN" \notin ctx_events THEN "set" ELSE "gone")
  /\ UNCHANGED <<sem, ctx_events, torn>> /\ Others(p)

(* free_proc(): the first to take shutdown_sem shuts down; the other one is *)
(* sent away and deletes itself.  The semaphore is never given back.        *)
TakeShutdown(p) ==
  /\ power = "on" /\ fpc[p] = "take"
  /\ GoOn(p, IF sem THEN "set" ELSE "gone")
  /\ sem' = FALSE
  /\ UNCHANGED <<ctx_events, torn>> /\ Others(p)

SetShutdown(p) ==
  /\ power = "on" /\ fpc[p] = "set"
  /\ ctx_events' = ctx_events \cup {"SHUTDOWN"}
  /\ GoOn(p, "send")
  /\ UNCHANGED <<sem, torn>> /\ Others(p)

(* SERVER_CMD_SHUTDOWN; if the queue stays full the orchestrator finds the  *)
(* bit by itself.                                                           *)
SendShutdown(p) ==
  /\ power = "on" /\ fpc[p] = "send"
  /\ GoOn(p, "wait")
  /\ UNCHANGED <<ctx_events, sem, torn>> /\ Others(p)

Graceful(p) ==
  /\ power = "on" /\ fpc[p] = "wait" /\ AllDone \subseteq ctx_events
  /\ GoOn(p, "teardown")
  /\ UNCHANGED <<ctx_events, sem, torn>> /\ Others(p)

Owner == [AP_DONE |-> "ap", BEEP_DONE |-> "beep", ORCHESTRATOR_DONE |-> "orchestrator",
          RESET_DONE |-> "reset", BATT_DONE |-> "battery"]

(* The grace period runs out while a stuck (or slow) task has not reported.  *)
GraceOver(p) ==
  /\ power = "on" /\ fpc[p] = "wait"
  /\ \E b \in AllDone \ ctx_events : Owner[b] \in faults \/ "slow" \in faults

GraceExpires(p) ==
  /\ GraceOver(p)
  /\ \/ /\ CriticalDone \subseteq ctx_events
        /\ GoOn(p, "teardown")
        /\ UNCHANGED <<ctx_events, sem, torn>> /\ Others(p)
     \/ /\ ~(CriticalDone \subseteq ctx_events)
        /\ Leave("boot")

(* Unregistering waits for a handler that is running: the event loop holds  *)
(* its mutex while it dispatches.                                           *)
TeardownStep(p) ==
  /\ power = "on" /\ fpc[p] = "teardown"
  /\ IF torn = Len(TeardownOrder)
       THEN GoOn(p, "end") /\ UNCHANGED torn
       ELSE /\ TeardownOrder[torn + 1] = "handlers" => handler = "idle"
            /\ torn' = torn + 1 /\ UNCHANGED fpc
  /\ UNCHANGED <<ctx_events, sem>> /\ Others(p)

(* The reset timer restarts, the battery monitor goes to deep sleep. *)
End(p) ==
  /\ power = "on" /\ fpc[p] = "end"
  /\ Leave(IF p = "battery" THEN "asleep" ELSE "boot")

FreeProc(p) ==
  \/ Report(p) \/ Due(p) \/ TakeShutdown(p) \/ SetShutdown(p) \/ SendShutdown(p)
  \/ Graceful(p) \/ GraceExpires(p) \/ TeardownStep(p) \/ End(p)

-----------------------------------------------------------------------------
(* The tasks that free_proc() waits for. *)

Runs(task) == power = "on" /\ task \notin faults

(* smart_ap_task: waits for the next scan or EVT_SHUTDOWN_BIT, ... *)
ApWakes ==
  /\ Runs("ap") /\ apc = "sleep" /\ "SHUTDOWN" \notin ctx_events
  /\ apc' = "scan"
  /\ UNCHANGED <<power, volts, ctx_events, sem, fpc, opc, beepc, handler, torn, faults>>

(* ... scans (find_best_channel() gives up on EVT_SHUTDOWN_BIT), ... *)
ApScans ==
  /\ Runs("ap") /\ apc = "scan"
  /\ apc' = "check"
  /\ UNCHANGED <<power, volts, ctx_events, sem, fpc, opc, beepc, handler, torn, faults>>

(* ... and unless a shutdown has come may move to another channel. *)
ApChecks ==
  /\ Runs("ap") /\ apc = "check" /\ "SHUTDOWN" \notin ctx_events
  /\ apc' = "apply"
  /\ UNCHANGED <<power, volts, ctx_events, sem, fpc, opc, beepc, handler, torn, faults>>

ApApplies ==
  /\ Runs("ap") /\ apc = "apply"
  /\ apc' = "sleep"
  /\ UNCHANGED <<power, volts, ctx_events, sem, fpc, opc, beepc, handler, torn, faults>>

ApExits ==
  /\ Runs("ap") /\ apc \in {"sleep", "check"} /\ "SHUTDOWN" \in ctx_events
  /\ apc' = "done" /\ ctx_events' = ctx_events \cup {"AP_DONE"}
  /\ UNCHANGED <<power, volts, sem, fpc, opc, beepc, handler, torn, faults>>

OrchestratorExits ==
  /\ Runs("orchestrator") /\ opc = "run" /\ "SHUTDOWN" \in ctx_events
  /\ opc' = "done" /\ ctx_events' = ctx_events \cup {"ORCHESTRATOR_DONE"}
  /\ UNCHANGED <<power, volts, sem, fpc, apc, beepc, handler, torn, faults>>

BeepExits ==
  /\ Runs("beep") /\ beepc = "run" /\ "SHUTDOWN" \in ctx_events
  /\ beepc' = "done" /\ ctx_events' = ctx_events \cup {"BEEP_DONE"}
  /\ UNCHANGED <<power, volts, sem, fpc, apc, opc, handler, torn, faults>>

(* A Wi-Fi event, dispatched while the handlers are registered. *)
HandlerRuns ==
  /\ power = "on" /\ "handlers" \in Up /\ handler = "idle" /\ "SHUTDOWN" \notin ctx_events
  /\ handler' = "running"
  /\ UNCHANGED <<power, volts, ctx_events, sem, fpc, apc, opc, beepc, torn, faults>>

HandlerReturns ==
  /\ power = "on" /\ handler = "running"
  /\ handler' = "idle"
  /\ UNCHANGED <<power, volts, ctx_events, sem, fpc, apc, opc, beepc, torn, faults>>

Tasks == ApScans \/ ApApplies \/ ApExits \/ OrchestratorExits \/ BeepExits \/ HandlerReturns

-----------------------------------------------------------------------------
Next ==
  \/ Boot \/ Wake \/ VoltsChange
  \/ Measure
  \/ \E p \in Finishers : WatchEnds(p) \/ FreeProc(p)
  \/ ApWakes \/ ApChecks \/ HandlerRuns
  \/ Tasks

Spec == Init /\ [][Next]_vars

(* Every task that runs is scheduled.  The battery monitor's wait is        *)
(* bounded; how long the reset timer and the next scan wait is left open,   *)
(* but not their answer to EVT_SHUTDOWN_BIT.                                *)
FairSpec ==
  /\ Spec
  /\ WF_vars(Boot) /\ WF_vars(Measure)
  /\ WF_vars("battery" \in Finishers /\ WatchEnds("battery"))
  /\ WF_vars("SHUTDOWN" \in ctx_events /\ WatchEnds("reset"))
  /\ \A p \in Finishers : WF_vars(FreeProc(p))
  /\ WF_vars(ApScans \/ ApApplies \/ ApExits)
  /\ WF_vars(OrchestratorExits) /\ WF_vars(BeepExits) /\ WF_vars(HandlerReturns)

-----------------------------------------------------------------------------
(* Properties. *)

InFreeProc(p) == fpc[p] \in {"set", "send", "wait", "teardown", "end"}

(* A reset that falls due together with a low battery: only one of the two  *)
(* tasks runs the teardown (power_mgmt.c:66-70).                            *)
SingleShutdown == \A p, q \in Finishers : InFreeProc(p) /\ InFreeProc(q) => p = q

(* The Wi-Fi driver, the event loop and the file systems are in place as    *)
(* long as the Wi-Fi task, the orchestrator or an event handler may use     *)
(* them, even when the grace period runs out (power_mgmt.c:98-144).         *)
NothingPulledAway ==
  /\ apc # "done" => {"radio", "wifi"} \subseteq Up
  /\ opc # "done" => {"radio", "wifi", "storage"} \subseteq Up
  /\ handler = "running" => {"handlers", "wifi", "loop"} \subseteq Up

(* The ADC is in place while the battery is measured, in a session in which *)
(* no task misses the grace period (power_mgmt.c:37-47, 146-148).           *)
AdcInPlace ==
  faults = {} /\ "battery" \in Finishers /\ power = "on" /\ fpc["battery"] = "measure"
    => "adc" \in Up

(* A shutdown that has begun ends in a restart or in deep sleep, whatever   *)
(* task hangs.                                                              *)
ShutdownEnds == "SHUTDOWN" \in ctx_events ~> "SHUTDOWN" \notin ctx_events

(* Every task of a healthy session reports before the grace period is over: *)
(* the one that runs free_proc(), the one that came second, and the rest.   *)
AllReport ==
  ("SHUTDOWN" \in ctx_events /\ faults = {}) ~> (AllDone \subseteq ctx_events \/ "SHUTDOWN" \notin ctx_events)

(* A battery that stays critical puts the device to sleep, even when each   *)
(* shutdown ends in a forced restart because a task hangs (main.c:106-113). *)
LowBatterySleeps ==
  Low(volts, CriticalMv) ~> (power = "asleep" \/ ~Low(volts, CriticalMv))

(* The inductive invariant: whoever is in free_proc() holds the semaphore,  *)
(* the teardown begins after both critical tasks have ended, and goes past  *)
(* the handlers only with none of them running.                             *)
ShutdownInv ==
  /\ SingleShutdown
  /\ \A p \in Finishers :
       /\ InFreeProc(p) => ~sem
       /\ fpc[p] \in {"teardown", "end"} => apc = "done" /\ opc = "done"
  /\ "AP_DONE" \in ctx_events => apc = "done"
  /\ "ORCHESTRATOR_DONE" \in ctx_events => opc = "done"
  /\ torn > 0 => apc = "done" /\ opc = "done"
  /\ torn > 1 => handler = "idle"

(* The inductive invariant with the types.                                   *)
ShutdownSafe == TypeOK /\ ShutdownInv

(* A shutdown comes to its end, and in a healthy session to the good one.    *)
ShutdownDone == ShutdownEnds /\ AllReport /\ []AdcInPlace
=============================================================================
