----------------------------- MODULE HttpdStart -----------------------------
(***************************************************************************)
(* What an HTTP server consists of: httpd_start() makes it step by step,   *)
(* each of which may fail and then undoes the ones before, handlers and    *)
(* sessions come and go while it runs, and its own task and httpd_stop()   *)
(* take it down.  Source: esp_http_server/src/httpd_main.c.                *)
(***************************************************************************)
EXTENDS Naturals, Sequences

CONSTANT MaxStartCalls \* bound: calls of httpd_start()

ASSUME StartConstants == MaxStartCalls \in Nat

VARIABLES
  held,    \* what was allocated, created or opened, and not freed
  step,    \* the next step, "up", "stopping", "ended", or "down"
  freed_unheld, \* something was freed or closed that was not held
  start_calls

startVars == <<held, step, freed_unheld, start_calls>>

Memory == <<"hd", "hd_calls", "hd_sd", "resp_hdrs", "err_handler_fns">>

WholeServer == {Memory[i] : i \in 1..5} \union {"ctrl_sock_semaphore", "listen_fd", "ctrl_fd", "msg_fd", "task"}

StartInit == held = {} /\ step = "down" /\ freed_unheld = FALSE /\ start_calls = 0

FreeThese(these) ==
  /\ held' = held \ these
  /\ freed_unheld' = (freed_unheld \/ ~these \subseteq held)

(* httpd_delete(), which looks whether there is a semaphore. *)
Delete(h) ==
  {Memory[i] : i \in 1..5} \union (h \intersect {"ctrl_sock_semaphore", "handlers"})

Gains(what, next) ==
  held' = held \union what /\ step' = next /\ UNCHANGED <<freed_unheld, start_calls>>

GivesUp(these) == FreeThese(these) /\ step' = "down" /\ UNCHANGED start_calls

(* httpd_start(), called again only when the server is down.                *)
StartCall ==
  /\ step = "down" /\ start_calls < MaxStartCalls
  /\ start_calls' = start_calls + 1 /\ step' = "memory" /\ UNCHANGED <<held, freed_unheld>>

(* httpd_create(): what it frees when it got n of its five allocations.     *)
CreateFrees(n) ==
  CASE n = 0 -> {}
    [] n = 1 -> {"hd"}
    [] n = 2 -> {"hd_calls", "hd"}
    [] n = 3 -> {"hd_sd", "hd_calls", "hd"}
    [] n = 4 -> {"resp_hdrs", "hd_sd", "hd_calls", "hd"}

AllocateAll ==
  /\ step = "memory"
  /\ \/ Gains({Memory[i] : i \in 1..5}, "semaphore")
     \/ /\ \E n \in 0..4 :
             /\ held' = {Memory[i] : i \in 1..n} \ CreateFrees(n)
             /\ freed_unheld' = (freed_unheld \/ ~CreateFrees(n) \subseteq {Memory[i] : i \in 1..n})
        /\ step' = "down" /\ UNCHANGED start_calls

Semaphore ==
  /\ step = "semaphore"
  /\ Gains({"ctrl_sock_semaphore"}, "socket") \/ GivesUp(Delete(held))

(* httpd_server_init() *)
ListenSocket ==
  /\ step = "socket" /\ (Gains({"listen_fd"}, "bind") \/ GivesUp(Delete(held)))

(* Binding to the interface and to the port, and listening. *)
BindListen ==
  /\ step = "bind" /\ (Gains({}, "ctrl") \/ GivesUp({"listen_fd"} \union Delete(held)))

CtrlSocket ==
  /\ step = "ctrl" /\ (Gains({"ctrl_fd"}, "msg") \/ GivesUp({"listen_fd"} \union Delete(held)))

(* Mutant: the control socket stays open. *)
MutMsgFails == {"listen_fd"} \union Delete(held)

MsgFails == {"listen_fd", "ctrl_fd"} \union Delete(held)

MsgSocket ==
  step = "msg" /\ (Gains({"msg_fd"}, "task") \/ GivesUp(MsgFails))

Thread ==
  /\ step = "task"
  /\ Gains({"task"}, "up") \/ GivesUp({"listen_fd", "ctrl_fd", "msg_fd"} \union Delete(held))

(* Handlers are registered and unregistered, sessions open and close.       *)
Serve ==
  /\ step = "up"
  /\ \E what \in SUBSET {"handlers", "sessions"} : held' = (held \ {"handlers", "sessions"}) \union what
  /\ UNCHANGED <<step, freed_unheld, start_calls>>

(* httpd_stop() tells the task to end; the task closes the sockets and the  *)
(* sessions that are open; httpd_stop() waits for it and deletes the rest.  *)
StopCall == step = "up" /\ Gains({}, "stopping")

TaskEnds ==
  /\ step = "stopping"
  /\ FreeThese({"msg_fd", "ctrl_fd", "listen_fd", "task"} \union (held \intersect {"sessions"}))
  /\ step' = "ended" /\ UNCHANGED start_calls

StopReturns_ == step = "ended" /\ GivesUp(Delete(held))

StartNext ==
  \/ StartCall \/ AllocateAll \/ Semaphore \/ ListenSocket \/ BindListen \/ CtrlSocket \/ MsgSocket \/ Thread
  \/ Serve \/ StopCall \/ TaskEnds \/ StopReturns_

StartSpec == StartInit /\ [][StartNext]_startVars

-----------------------------------------------------------------------------
(* A server is whole or not there: when httpd_start() failed, whichever     *)
(* step it was, or httpd_stop() returned, nothing remains allocated, open   *)
(* or running, and nothing is freed twice (httpd_main.c:355-614).           *)
ServerWholeOrGone ==
  /\ ~freed_unheld
  /\ step = "down" => held = {}
  /\ step = "up" => WholeServer \subseteq held
=============================================================================
