------------------------------- MODULE Boot -------------------------------
(***************************************************************************)
(* app_main(): the context is created, the battery checked, the services   *)
(* brought up one after the other, while stations may already associate    *)
(* with the access point.  Any step may fail; a failure restarts the       *)
(* device.                                                                 *)
(* Source: main/main.c; the event handler of main/wifi_ap.c and the        *)
(* receiver in main/orchestrator.c as far as a client's START goes.        *)
(* Abstracted: what the services do once they run (the other modules).     *)
(***************************************************************************)
EXTENDS Naturals, Sequences

CONSTANTS
  CmdPlaces, \* CONFIG_SMART_AP_SERVER_CMD_QUEUE_SIZE
  MaxResets  \* bound: restarts

ASSUME BootConstants == CmdPlaces \in Nat \ {0} /\ MaxResets \in Nat

VARIABLES
  bootPc,   \* "create", "unwind", "battery", "step", "ready", "asleep" or "down"
  at,       \* the number of the creation or step that comes next
  heap,     \* what sys_ctx_create() holds
  global,   \* ctx: whether it is not NULL
  handlers, \* the Wi-Fi events that have a handler
  tasks,    \* the tasks that were created
  apUp,     \* the access point runs
  guest,    \* a station is associated
  cmds,     \* server_cmd_queue
  served,   \* the servers run
  resets

bootVars == <<bootPc, at, heap, global, handlers, tasks, apUp, guest, cmds, served, resets>>

(* What sys_ctx_create() allocates, in its order. *)
Creations == <<"ctx", "events", "state_mtx", "shutdown_sem", "beep_sem", "beep_queue", "server_cmd_queue">>

(* What the labels of the unwinding free, in the order they fall through. *)
Labels == <<"beep_queue", "beep_sem", "shutdown_sem", "state_mtx", "events", "ctx">>

MutGoto(n) == IF n = 1 THEN Len(Labels) + 1 ELSE Len(Creations) + 2 - n

(* The label the failed creation n jumps to; the first one just returns. *)
Goto(n) == IF n = 1 THEN Len(Labels) + 1 ELSE Len(Creations) + 1 - n

(* The steps of app_main() that follow the battery check. *)
RegisterEvent(e) == <<"register", e>>

StartTask(t) == <<"task", t>>

Setup == << <<"init", "nvs">>, <<"init", "storage">>, <<"init", "netif">>, <<"init", "event_loop">> >>

Registrations ==
  << RegisterEvent("SCAN_DONE"), RegisterEvent("STACONNECTED"), RegisterEvent("STADISCONNECTED"),
     RegisterEvent("STA_START"), RegisterEvent("AP_START") >>

WifiUp == << <<"wifi", "init">>, <<"wifi", "sta">>, <<"wifi", "stop">>, <<"wifi", "ap">> >>

StartTasks ==
  << StartTask("orchestrator"), StartTask("reset_tmr"), StartTask("smart_ap"),
     StartTask("beep_task"), StartTask("bat") >>

MutSteps == Setup \o WifiUp \o Registrations \o StartTasks

Steps == Setup \o Registrations \o WifiUp \o StartTasks

PowerOn ==
  /\ bootPc = "create" /\ at = 1 /\ heap = {} /\ global = FALSE
  /\ handlers = {} /\ tasks = {} /\ apUp = FALSE /\ guest = FALSE /\ cmds = <<>> /\ served = FALSE

BootInit == PowerOn /\ resets = 0

serviceVars == <<handlers, tasks, apUp, guest, cmds, served, resets>>

(* One xSemaphoreCreate...(), xQueueCreate() or calloc() of the context.     *)
Create ==
  /\ bootPc = "create"
  /\ heap' = heap \union {Creations[at]}
  /\ IF at = Len(Creations) THEN bootPc' = "battery" /\ at' = 1 /\ global' = TRUE
                            ELSE at' = at + 1 /\ UNCHANGED <<bootPc, global>>
  /\ UNCHANGED serviceVars

CreateFails ==
  /\ bootPc = "create" /\ bootPc' = "unwind" /\ at' = Goto(at)
  /\ UNCHANGED <<heap, global, serviceVars>>

(* The labels fall through to free(c); NULL makes app_main() restart. *)
Unwind ==
  /\ bootPc = "unwind"
  /\ IF at > Len(Labels) THEN bootPc' = "down" /\ UNCHANGED <<at, heap>>
     ELSE heap' = heap \ {Labels[at]} /\ at' = at + 1 /\ UNCHANGED bootPc
  /\ UNCHANGED <<global, serviceVars>>

(* The battery is good, or empty enough to go back to sleep at once. *)
BatteryCheck ==
  /\ bootPc = "battery" /\ bootPc' \in {"step", "asleep"}
  /\ UNCHANGED <<at, heap, global, serviceVars>>

(* One step of app_main() that succeeds. *)
BootStep ==
  LET s == Steps[at]
  IN /\ bootPc = "step"
     /\ handlers' = IF s[1] = "register" THEN handlers \union {s[2]} ELSE handlers
     /\ tasks' = IF s[1] = "task" THEN tasks \union {s[2]} ELSE tasks
     /\ apUp' = (apUp \/ s = <<"wifi", "ap">>)
     /\ IF at = Len(Steps) THEN bootPc' = "ready" /\ UNCHANGED at ELSE at' = at + 1 /\ UNCHANGED bootPc
     /\ UNCHANGED <<heap, global, guest, cmds, served, resets>>

(* ESP_ERROR_CHECK() aborts, a task that cannot be created restarts. *)
StepFails ==
  /\ bootPc = "step" /\ bootPc' = "down"
  /\ UNCHANGED <<at, heap, global, serviceVars>>

Alive == bootPc \in {"step", "ready"}

(* wifi_event_handler() posts a command; a full queue drops it. *)
Post(event, cmd) ==
  cmds' = IF event \in handlers /\ global /\ Len(cmds) < CmdPlaces THEN Append(cmds, cmd) ELSE cmds

Associate ==
  /\ Alive /\ apUp /\ ~guest /\ guest' = TRUE
  /\ IF served THEN UNCHANGED cmds ELSE Post("STACONNECTED", "START")
  /\ UNCHANGED <<bootPc, at, heap, global, handlers, tasks, apUp, served, resets>>

Disassociate ==
  /\ Alive /\ guest /\ guest' = FALSE
  /\ Post("STADISCONNECTED", "STOP")
  /\ UNCHANGED <<bootPc, at, heap, global, handlers, tasks, apUp, served, resets>>

(* The orchestrator takes a command; a STOP looks for stations first. *)
Obey ==
  /\ Alive /\ "orchestrator" \in tasks /\ cmds # <<>>
  /\ cmds' = Tail(cmds)
  /\ served' = (Head(cmds) = "START" \/ (served /\ guest))
  /\ UNCHANGED <<bootPc, at, heap, global, handlers, tasks, apUp, guest, resets>>

(* The restart, or the end of the deep sleep. *)
Reset ==
  /\ bootPc \in {"down", "asleep"} /\ resets < MaxResets
  /\ bootPc' = "create" /\ at' = 1 /\ heap' = {} /\ global' = FALSE /\ handlers' = {}
  /\ tasks' = {} /\ apUp' = FALSE /\ guest' = FALSE /\ cmds' = <<>> /\ served' = FALSE
  /\ resets' = resets + 1

BootProgress == Create \/ CreateFails \/ Unwind \/ BatteryCheck \/ BootStep \/ StepFails
BootNext == BootProgress \/ Obey \/ Associate \/ Disassociate \/ Reset

---------------------------------------------------------------------------
(* A creation that fails half way leaves nothing allocated when app_main()  *)
(* sees NULL, and a context that app_main() sees has all its parts          *)
(* (main.c:35-86).                                                          *)
ContextAllOrNothing ==
  /\ bootPc = "down" /\ ~global => heap = {}
  /\ global => \A n \in DOMAIN Creations : Creations[n] \in heap

(* A station that associates while the boot is still under way, before the  *)
(* orchestrator exists, gets its servers all the same, unless it leaves or  *)
(* the device restarts (main.c:138-189).                                    *)
GuestAtBootServed == guest ~> (served \/ ~guest \/ bootPc = "down")
=============================================================================
