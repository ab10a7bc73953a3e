-------------------------------- MODULE Beep --------------------------------
(***************************************************************************)
(* The beep: beep_handler() in the HTTP server's task, beep_task(), the    *)
(* buzzer, and free_proc() as far as it waits for them.  Source:           *)
(* main/buzzer.c, main/power_mgmt.c.                                       *)
(*                                                                         *)
(* beep_sem is a token: whoever wants a beep takes it, hands it on with    *)
(* the command in beep_queue, and beep_task gives it back at the end.      *)
(*                                                                         *)
(* Abstracted: the answers' headers and encoding, the counts of beats and  *)
(* pauses, and CONFIG_SMART_AP_BEEP_TOTAL_SEC (a beep may end after any    *)
(* round).  The HTTP server has one task: one request at a time.           *)
(***************************************************************************)
EXTENDS Naturals

VARIABLES
  shutdown,   \* EVT_SHUTDOWN_BIT
  beep_done,  \* EVT_BEEP_DONE_BIT
  beep_sem,   \* its count: 0 or 1
  beep_queue, \* commands in it: 0 or 1
  buzzer,     \* the output is active
  rpc,        \* where the HTTP task is in beep_handler()
  reply,      \* the last answer
  bpc,        \* where beep_task is
  spc         \* where free_proc() is

beepVars == <<shutdown, beep_done, beep_sem, beep_queue, buzzer, rpc, reply, bpc, spc>>

BeepTypeOK ==
  /\ shutdown \in BOOLEAN /\ beep_done \in BOOLEAN /\ buzzer \in BOOLEAN
  /\ beep_sem \in 0..1 /\ beep_queue \in 0..1
  /\ rpc \in {"idle", "take", "check", "send", "give_500", "give_error", "down"}
  /\ reply \in {"none", "busy", "started", "error", "500"}
  /\ bpc \in {"top", "receive", "beat", "on", "off", "pause", "stop", "last", "give",
              "exit", "done"}
  /\ spc \in {"idle", "wait", "silence", "off"}

(* After sys_ctx_create() (both semaphores given) and buzzer_gpio_init().   *)
BeepInit ==
  /\ shutdown = FALSE /\ beep_done = FALSE /\ buzzer = FALSE
  /\ beep_sem = 1 /\ beep_queue = 0
  /\ rpc = "idle" /\ reply = "none" /\ bpc = "top" /\ spc = "idle"

-----------------------------------------------------------------------------
(* beep_handler() *)

BeepHttpVars == <<shutdown, beep_done, buzzer, bpc, spc>>

BeepRequest ==
  /\ rpc = "idle" /\ rpc' = "take"
  /\ UNCHANGED <<BeepHttpVars, beep_sem, beep_queue, reply>>

(* Mutant: takes the semaphore only to look at it. *)
MutTakeBeepSem ==
  /\ rpc = "take"
  /\ IF beep_sem = 0 THEN rpc' = "idle" /\ reply' = "busy"
                     ELSE rpc' = "check" /\ UNCHANGED reply
  /\ UNCHANGED <<BeepHttpVars, beep_sem, beep_queue>>

TakeBeepSem ==
  /\ rpc = "take"
  /\ IF beep_sem = 0
       THEN rpc' = "idle" /\ reply' = "busy" /\ UNCHANGED beep_sem
       ELSE rpc' = "check" /\ beep_sem' = 0 /\ UNCHANGED reply
  /\ UNCHANGED <<BeepHttpVars, beep_queue>>

CheckShutdown ==
  /\ rpc = "check"
  /\ rpc' = IF shutdown THEN "give_500" ELSE "send"
  /\ UNCHANGED <<BeepHttpVars, beep_sem, beep_queue, reply>>

(* xQueueSend without waiting. *)
SendCommand ==
  /\ rpc = "send"
  /\ IF beep_queue = 0
       THEN beep_queue' = 1 /\ rpc' = "idle" /\ reply' = "started"
       ELSE rpc' = "give_error" /\ UNCHANGED <<beep_queue, reply>>
  /\ UNCHANGED <<BeepHttpVars, beep_sem>>

GiveBack ==
  /\ rpc \in {"give_500", "give_error"}
  /\ beep_sem' = 1
  /\ rpc' = "idle" /\ reply' = IF rpc = "give_500" THEN "500" ELSE "error"
  /\ UNCHANGED <<BeepHttpVars, beep_queue>>

(* The orchestrator stops the HTTP server, between two requests. *)
HttpdStops ==
  /\ shutdown /\ rpc = "idle" /\ rpc' = "down"
  /\ UNCHANGED <<BeepHttpVars, beep_sem, beep_queue, reply>>

BeepHandler == TakeBeepSem \/ CheckShutdown \/ SendCommand \/ GiveBack \/ HttpdStops

-----------------------------------------------------------------------------
(* beep_task() *)

BeepTaskVars == <<shutdown, rpc, reply, spc>>

BeepStep(from, to) ==
  /\ bpc = from /\ bpc' = to
  /\ UNCHANGED <<BeepTaskVars, beep_done, beep_sem, beep_queue, buzzer>>

LoopTop == BeepStep("top", IF shutdown THEN "exit" ELSE "receive")

ReceiveCommand ==
  /\ bpc = "receive"
  /\ IF beep_queue = 1 THEN beep_queue' = 0 /\ bpc' = "beat"
                       ELSE bpc' = "top" /\ UNCHANGED beep_queue   \* 1 s expired
  /\ UNCHANGED <<BeepTaskVars, beep_done, beep_sem, buzzer>>

Beat == BeepStep("beat", IF shutdown THEN "stop" ELSE "on")

BuzzerOn ==
  /\ bpc = "on" /\ bpc' = "off" /\ buzzer' = TRUE
  /\ UNCHANGED <<BeepTaskVars, beep_done, beep_sem, beep_queue>>

BuzzerOff ==
  /\ bpc = "off" /\ bpc' \in {"beat", "pause"} /\ buzzer' = FALSE
  /\ UNCHANGED <<BeepTaskVars, beep_done, beep_sem, beep_queue>>

(* A pause may be followed by another, the next round or the end.           *)
PauseBeep ==
  \/ shutdown /\ BeepStep("pause", "stop")
  \/ ~shutdown /\ \E l \in {"beat", "stop"} : BeepStep("pause", l)

StopBeep ==
  /\ bpc = "stop" /\ bpc' = "last" /\ buzzer' = FALSE
  /\ UNCHANGED <<BeepTaskVars, beep_done, beep_sem, beep_queue>>

LastLook == BeepStep("last", IF shutdown THEN "exit" ELSE "give")

(* Mutant: the token is not given back. *)
MutGive == BeepStep("give", "top")

GiveToken ==
  /\ bpc = "give" /\ bpc' = "top" /\ beep_sem' = 1
  /\ UNCHANGED <<BeepTaskVars, beep_done, beep_queue, buzzer>>

ExitTask ==
  /\ bpc = "exit" /\ bpc' = "done" /\ beep_done' = TRUE
  /\ UNCHANGED <<BeepTaskVars, beep_sem, beep_queue, buzzer>>

BeepTask ==
  \/ LoopTop \/ ReceiveCommand \/ Beat \/ BuzzerOn \/ BuzzerOff \/ PauseBeep \/ StopBeep
  \/ LastLook \/ GiveToken \/ ExitTask

-----------------------------------------------------------------------------
(* free_proc() *)

BeepFreeVars == <<beep_done, beep_sem, beep_queue, rpc, reply, bpc>>

BeginShutdown ==
  /\ spc = "idle" /\ spc' = "wait" /\ shutdown' = TRUE
  /\ UNCHANGED <<BeepFreeVars, buzzer>>

(* EVT_BEEP_DONE_BIT, and EVT_ORCHESTRATOR_DONE_BIT, which comes after the  *)
(* HTTP task has ended.                                                     *)
TasksDone ==
  /\ spc = "wait" /\ beep_done /\ rpc = "down" /\ spc' = "silence"
  /\ UNCHANGED <<BeepFreeVars, shutdown, buzzer>>

Silence ==
  /\ spc = "silence" /\ spc' = "off" /\ buzzer' = FALSE
  /\ UNCHANGED <<BeepFreeVars, shutdown>>

(* The restart, or the wake-up from deep sleep. *)
PowerCycle ==
  /\ spc = "off"
  /\ shutdown' = FALSE /\ beep_done' = FALSE /\ beep_sem' = 1 /\ beep_queue' = 0
  /\ buzzer' = FALSE /\ rpc' = "idle" /\ reply' = "none" /\ bpc' = "top" /\ spc' = "idle"

BeepNext ==
  \/ BeepRequest \/ BeepHandler
  \/ BeepTask
  \/ BeginShutdown \/ TasksDone \/ Silence \/ PowerCycle

(* A beep is finite: it does not stay in its rounds for ever.               *)
BeatsEnd == bpc = "off" /\ bpc' = "pause" /\ BuzzerOff

PausesEnd == bpc = "pause" /\ bpc' = "stop" /\ PauseBeep

-----------------------------------------------------------------------------
(* Properties. *)

Beeping == bpc \in {"beat", "on", "off", "pause", "stop", "last", "give"}

(* The token excludes: a request that holds it finds the queue empty and    *)
(* the task not beeping, so the error answer for a full queue is never      *)
(* given (buzzer.c:156, 184-201).                                           *)
TokenExcludes ==
  rpc \in {"check", "send", "give_500", "give_error"} => beep_queue = 0 /\ ~Beeping

(* "busy" is the truth: the token is only missing while a beep is queued or *)
(* under way, or for good once the device shuts down (buzzer.c:156-171).    *)
BusyIsTrue == rpc = "take" /\ beep_sem = 0 => beep_queue = 1 \/ Beeping \/ shutdown

(* Nothing sounds after the teardown: the beep task has ended, its last     *)
(* write to the output before free_proc()'s (power_mgmt.c:81-96, 116-129).  *)
SilentAfterTeardown == spc = "off" => ~buzzer /\ bpc = "done"

(* Whoever took the token, it comes back, unless the device shuts down: a   *)
(* beep can be asked for again.                                             *)
TokenReturns == beep_sem = 0 ~> (beep_sem = 1 \/ shutdown)

(* A request that was answered "started" sounds, unless the device shuts    *)
(* down first.                                                              *)
StartedSounds == reply = "started" /\ beep_queue = 1 ~> (buzzer \/ shutdown)

(* The beep task sees a shutdown wherever it is, and reports.               *)
ShutdownEndsBeep == shutdown ~> (beep_done \/ ~shutdown)

(* The token means what the handlers take it for, in every interleaving of a *)
(* request, the beep task and the teardown.                                  *)
TokenTrue == BeepTypeOK /\ TokenExcludes /\ BusyIsTrue /\ SilentAfterTeardown

(* A beep that was promised sounds, and neither it nor a shutdown leaves the *)
(* token or the task behind (buzzer.c:91-150).                               *)
BeepEnds == TokenReturns /\ StartedSounds /\ ShutdownEndsBeep
=============================================================================
