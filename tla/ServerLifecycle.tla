--------------------------- MODULE ServerLifecycle ---------------------------
(***************************************************************************)
(* The life cycle of the two servers of the captive portal: the DNS task   *)
(* and the web server, started and stopped by the orchestrator task on the *)
(* commands of the Wi-Fi event handler, of a failed DNS task and of the    *)
(* shutdown procedure.  Source: main/orchestrator.c, main/dns_server.c     *)
(* (start, stop, the task's life), main/wifi_ap.c (the event handler),     *)
(* main/web_server.c (start, stop, the transfer loop) and the part of      *)
(* main/power_mgmt.c's free_proc() that the orchestrator takes part in.    *)
(*                                                                         *)
(* Every step below is one access to state that another task may read or   *)
(* write in between: an event-group call, a queue call, a critical section *)
(* of state_mtx, a blocking call.  Tasks are preempted between any two of  *)
(* them: their priorities are Kconfig options (1..10 each).                *)
(*                                                                         *)
(* Abstracted: the payload of DNS packets and of HTTP requests, the length *)
(* of delays, that of the DNS restart backoff included, and                *)
(* EVT_SERVERS_STOPPED_BIT, which no code reads.                           *)
(***************************************************************************)
EXTENDS Naturals, Sequences, FiniteSets

CONSTANTS
  Clients,       \* Wi-Fi stations (CONFIG_SMART_AP_MAX_CONNECTIONS)
  DnsTasks,      \* task control blocks a DNS task can be created in
  Sockets,       \* lwIP descriptors the DNS server can be given
  NoTask,        \* ctx->dns_task == NULL
  NoSocket,      \* a descriptor of -1
  CmdQueueSize,  \* CONFIG_SMART_AP_SERVER_CMD_QUEUE_SIZE
  MaxEvents,     \* bound: Wi-Fi events posted and not yet delivered
  Faults         \* which calls may fail (a subset of FaultKinds)

(***************************************************************************)
(* list: esp_wifi_ap_get_sta_list fails.  send, late: the bounded wait of  *)
(* xQueueSend expires on a full queue; "late" is free_proc()'s, "send" that *)
(* of all others.  create: xTaskCreate fails.                              *)
(* socket, bind, recv: the call in the DNS task fails (recv: fatally).     *)
(* hang: the DNS task does not answer within DNS_STOP_TIMEOUT_SEC.         *)
(* httpd: httpd_start fails.  grace: the shutdown grace period expires.    *)
(***************************************************************************)
FaultKinds == {"list", "send", "late", "create", "socket", "bind", "recv", "hang",
               "httpd", "grace"}

ASSUME LifecycleAssumption ==
  /\ NoTask \notin DnsTasks
  /\ NoSocket \notin Sockets
  /\ CmdQueueSize \in Nat \ {0}
  /\ MaxEvents \in Nat
  /\ Faults \subseteq FaultKinds

(* The bits of ctx->events that the life cycle uses. *)
EventBits == {"SHUTDOWN", "DNS_RUNNING", "DNS_STOPPED", "SERVERS_RUNNING",
              "ORCHESTRATOR_DONE"}

(* server_cmd_t *)
Cmds == {"START", "STOP", "DNS_ERROR", "SHUTDOWN"}

WifiEvents == {"STACONNECTED", "STADISCONNECTED"}

VARIABLES
  events,      \* ctx->events: the bits that are set
  cmdq,        \* ctx->server_cmd_queue
  dns_task,    \* ctx->dns_task
  dns_socket,  \* ctx->dns_socket
  web_server,  \* ctx->web_server # NULL
  clients,     \* stations associated with the access point
  evq,         \* Wi-Fi events of the default event loop, undelivered
  hpc,         \* where wifi_event_handler is
  opc,         \* where server_orchestrator_task is
  ocmd,        \* the command it processes
  osock,       \* the local variable sock of stop_dns_server()
  dpc,         \* where each DNS task is
  dsock,       \* its local variable sock
  derr,        \* its local variable exited_by_error
  open,        \* descriptors that are open
  httpd,       \* the HTTP server's task
  spc          \* where the task that runs free_proc() is

ctxVars  == <<dns_task, dns_socket, web_server>>
wifiVars == <<clients, evq, hpc>>
orchVars == <<opc, ocmd, osock>>
dnsVars  == <<dpc, dsock, derr>>
vars == <<events, cmdq, ctxVars, wifiVars, orchVars, dnsVars, open, httpd, spc>>

HandlerPcs == {"idle", "decided_START", "decided_STOP", "post_START", "post_STOP"}
OrchPcs == {"receive", "begin", "start_dns", "start_web", "set_running",
            "clear_running", "stop_dns", "take_socket", "wait_stopped",
            "close_socket", "stop_web", "join_web", "finish", "exit", "done"}
DnsPcs == {"dead", "created", "opening", "publish", "bind", "serving",
           "cleanup", "reporting", "sending"}
HttpdPcs == {"off", "idle", "serving"}
ShutdownPcs == {"idle", "send", "wait", "off"}

TypeOK ==
  /\ events \subseteq EventBits
  /\ cmdq \in Seq(Cmds) /\ Len(cmdq) <= CmdQueueSize
  /\ dns_task \in DnsTasks \cup {NoTask}
  /\ dns_socket \in Sockets \cup {NoSocket}
  /\ web_server \in BOOLEAN
  /\ clients \subseteq Clients
  /\ evq \in Seq(WifiEvents)
  /\ hpc \in HandlerPcs
  /\ opc \in OrchPcs
  /\ ocmd \in Cmds \cup {"none"}
  /\ osock \in Sockets \cup {NoSocket}
  /\ dpc \in [DnsTasks -> DnsPcs]
  /\ dsock \in [DnsTasks -> Sockets \cup {NoSocket}]
  /\ derr \in [DnsTasks -> BOOLEAN]
  /\ open \subseteq Sockets
  /\ httpd \in HttpdPcs
  /\ spc \in ShutdownPcs

(***************************************************************************)
(* The state after sys_ctx_create() and the task creations of app_main():  *)
(* no client, no server, the orchestrator waiting for its first command.   *)
(***************************************************************************)
Init ==
  /\ events = {} /\ cmdq = <<>>
  /\ dns_task = NoTask /\ dns_socket = NoSocket /\ web_server = FALSE
  /\ clients = {} /\ evq = <<>> /\ hpc = "idle"
  /\ opc = "receive" /\ ocmd = "none" /\ osock = NoSocket
  /\ dpc = [t \in DnsTasks |-> "dead"]
  /\ dsock = [t \in DnsTasks |-> NoSocket]
  /\ derr = [t \in DnsTasks |-> FALSE]
  /\ open = {} /\ httpd = "off" /\ spc = "idle"

(* esp_restart(), and the reset or the wake-up that ends a shutdown: RAM is *)
(* lost and the firmware boots into its initial state.                      *)
Restart ==
  /\ events' = {} /\ cmdq' = <<>>
  /\ dns_task' = NoTask /\ dns_socket' = NoSocket /\ web_server' = FALSE
  /\ clients' = {} /\ evq' = <<>> /\ hpc' = "idle"
  /\ opc' = "receive" /\ ocmd' = "none" /\ osock' = NoSocket
  /\ dpc' = [t \in DnsTasks |-> "dead"]
  /\ dsock' = [t \in DnsTasks |-> NoSocket]
  /\ derr' = [t \in DnsTasks |-> FALSE]
  /\ open' = {} /\ httpd' = "off" /\ spc' = "idle"

QueueFull == Len(cmdq) >= CmdQueueSize

(* The bounded wait of an xQueueSend expires.  Without the fault the        *)
(* orchestrator is taken to drain a full queue in time; once it has exited  *)
(* nobody does.                                                             *)
SendExpires(fault) == QueueFull /\ (fault \in Faults \/ opc = "done")

-----------------------------------------------------------------------------
(* Wi-Fi stations and the event handler. *)

Connect(c) ==
  /\ spc # "off" /\ c \notin clients /\ Len(evq) < MaxEvents
  /\ clients' = clients \cup {c}
  /\ evq' = Append(evq, "STACONNECTED")
  /\ UNCHANGED <<events, cmdq, ctxVars, hpc, orchVars, dnsVars, open, httpd, spc>>

Disconnect(c) ==
  /\ spc # "off" /\ c \in clients /\ Len(evq) < MaxEvents
  /\ clients' = clients \ {c}
  /\ evq' = Append(evq, "STADISCONNECTED")
  /\ UNCHANGED <<events, cmdq, ctxVars, hpc, orchVars, dnsVars, open, httpd, spc>>

Deliver(event) ==
  /\ spc # "off" /\ hpc = "idle" /\ evq # <<>> /\ Head(evq) = event
  /\ evq' = Tail(evq)
  /\ UNCHANGED <<events, cmdq, ctxVars, clients, orchVars, dnsVars, open, httpd, spc>>

HandleConnected ==
  /\ Deliver("STACONNECTED")
  /\ hpc' = IF events \cap {"SHUTDOWN", "SERVERS_RUNNING"} # {}
              THEN "idle" ELSE "decided_START"

(* Mutant: a STOP is only requested while the servers run. *)
MutHandleDisconnected ==
  /\ Deliver("STADISCONNECTED")
  /\ hpc' = IF "SHUTDOWN" \notin events /\ clients = {} /\ "SERVERS_RUNNING" \in events
              THEN "decided_STOP" ELSE "idle"

HandleDisconnected ==
  /\ Deliver("STADISCONNECTED")
  /\ \/ /\ "SHUTDOWN" \notin events /\ clients = {}
        /\ hpc' = "decided_STOP"
     \/ /\ "SHUTDOWN" \in events \/ clients # {} \/ "list" \in Faults
        /\ hpc' = "idle"

(* The second look at EVT_SHUTDOWN_BIT, just before the send. *)
HandlerRecheck ==
  /\ hpc \in {"decided_START", "decided_STOP"}
  /\ hpc' = CASE "SHUTDOWN" \in events -> "idle"
              [] hpc = "decided_START" -> "post_START"
              [] OTHER                 -> "post_STOP"
  /\ UNCHANGED <<events, cmdq, ctxVars, clients, evq, orchVars, dnsVars, open, httpd, spc>>

HandlerPost ==
  /\ hpc \in {"post_START", "post_STOP"}
  /\ \/ /\ ~QueueFull
        /\ cmdq' = Append(cmdq, IF hpc = "post_START" THEN "START" ELSE "STOP")
     \/ /\ SendExpires("send")   \* 100 ms expired: the command is lost
        /\ UNCHANGED cmdq
  /\ hpc' = "idle"
  /\ UNCHANGED <<events, ctxVars, clients, evq, orchVars, dnsVars, open, httpd, spc>>

Handler == HandleConnected \/ HandleDisconnected \/ HandlerRecheck \/ HandlerPost

-----------------------------------------------------------------------------
(* The orchestrator: commands. *)

Receive ==
  /\ opc = "receive" /\ cmdq # <<>>
  /\ ocmd' = Head(cmdq) /\ cmdq' = Tail(cmdq)
  /\ opc' = "begin"
  /\ UNCHANGED <<events, ctxVars, wifiVars, osock, dnsVars, open, httpd, spc>>

(* The 2 s receive timeout, and the check after each command: both go to   *)
(* orch_exit, which does what SERVER_CMD_SHUTDOWN does.                    *)
ReceiveTimeout ==
  /\ opc = "receive" /\ cmdq = <<>> /\ "SHUTDOWN" \in events
  /\ ocmd' = "SHUTDOWN" /\ opc' = "begin"
  /\ UNCHANGED <<events, cmdq, ctxVars, wifiVars, osock, dnsVars, open, httpd, spc>>

Finish ==
  /\ opc = "finish"
  /\ IF "SHUTDOWN" \in events
       THEN ocmd' = "SHUTDOWN" /\ opc' = "begin"
       ELSE ocmd' = "none" /\ opc' = "receive"
  /\ UNCHANGED <<events, cmdq, ctxVars, wifiVars, osock, dnsVars, open, httpd, spc>>

OrchGoto(l) ==
  /\ opc' = l
  /\ UNCHANGED <<events, cmdq, ctxVars, wifiVars, ocmd, osock, dnsVars, open, httpd, spc>>

BeginStart ==
  /\ opc = "begin" /\ ocmd = "START"
  /\ \/ /\ "SERVERS_RUNNING" \in events \/ clients = {}
        /\ OrchGoto("finish")
     \/ /\ "SERVERS_RUNNING" \notin events /\ (clients # {} \/ "list" \in Faults)
        /\ OrchGoto("start_dns")

BeginStop ==
  /\ opc = "begin" /\ ocmd = "STOP"
  /\ \/ /\ "SERVERS_RUNNING" \in events /\ clients = {}
        /\ OrchGoto("clear_running")
     \/ /\ "SERVERS_RUNNING" \notin events \/ clients # {} \/ "list" \in Faults
        /\ OrchGoto("finish")

(* Mutant: a DNS_ERROR is obeyed whether or not DNS should run. *)
MutBeginDnsError ==
  /\ opc = "begin" /\ ocmd = "DNS_ERROR"
  /\ OrchGoto("stop_dns")

BeginDnsError ==
  /\ opc = "begin" /\ ocmd = "DNS_ERROR"
  /\ OrchGoto(IF "DNS_RUNNING" \in events THEN "stop_dns" ELSE "finish")

(* Mutant: exits without stopping the servers. *)
MutBeginShutdown ==
  /\ opc = "begin" /\ ocmd = "SHUTDOWN"
  /\ OrchGoto("exit")

BeginShutdown ==
  /\ opc = "begin" /\ ocmd = "SHUTDOWN"
  /\ OrchGoto(IF "SERVERS_RUNNING" \in events THEN "clear_running" ELSE "exit")

SetRunning ==
  /\ opc = "set_running"
  /\ events' = events \cup {"SERVERS_RUNNING"}
  /\ opc' = "finish"
  /\ UNCHANGED <<cmdq, ctxVars, wifiVars, ocmd, osock, dnsVars, open, httpd, spc>>

(* Mutant: the bit is not cleared. *)
MutClearRunning == opc = "clear_running" /\ OrchGoto("stop_dns")

ClearRunning ==
  /\ opc = "clear_running"
  /\ events' = events \ {"SERVERS_RUNNING"}
  /\ opc' = "stop_dns"
  /\ UNCHANGED <<cmdq, ctxVars, wifiVars, ocmd, osock, dnsVars, open, httpd, spc>>

Exit ==
  /\ opc = "exit"
  /\ events' = events \cup {"ORCHESTRATOR_DONE"}
  /\ opc' = "done"
  /\ UNCHANGED <<cmdq, ctxVars, wifiVars, ocmd, osock, dnsVars, open, httpd, spc>>

-----------------------------------------------------------------------------
(* start_dns_server() and stop_dns_server(), called by the orchestrator.   *)

AfterStartDns == IF ocmd = "START" THEN "start_web" ELSE "finish"
(* A DNS restart sleeps for the backoff before it starts the task again:   *)
(* the orchestrator may stay at start_dns for as long as that takes.       *)
AfterStopDns == IF ocmd = "DNS_ERROR" THEN "start_dns" ELSE "stop_web"

StartDns ==
  /\ opc = "start_dns"
  /\ \/ /\ dns_task # NoTask
        /\ opc' = AfterStartDns
        /\ UNCHANGED <<events, dns_task, dpc>>
     \/ /\ dns_task = NoTask
        /\ events' = (events \ {"DNS_STOPPED"}) \cup {"DNS_RUNNING"}
        /\ \E t \in DnsTasks :
             /\ dpc[t] = "dead"
             /\ dns_task' = t
             /\ dpc' = [dpc EXCEPT ![t] = "created"]
        /\ opc' = AfterStartDns
  /\ UNCHANGED <<cmdq, dns_socket, web_server, wifiVars, ocmd, osock, dsock, derr,
                 open, httpd, spc>>

(* xTaskCreate fails: esp_restart(). *)
StartDnsFails ==
  /\ opc = "start_dns" /\ dns_task = NoTask
  /\ "create" \in Faults \/ \A t \in DnsTasks : dpc[t] # "dead"
  /\ Restart

(* Mutant: the task is not told to stop. *)
MutStopDns ==
  /\ opc = "stop_dns"
  /\ OrchGoto(IF dns_task = NoTask THEN AfterStopDns ELSE "take_socket")

StopDns ==
  /\ opc = "stop_dns"
  /\ IF dns_task = NoTask
       THEN opc' = AfterStopDns /\ UNCHANGED events
       ELSE opc' = "take_socket" /\ events' = events \ {"DNS_RUNNING"}
  /\ UNCHANGED <<cmdq, ctxVars, wifiVars, ocmd, osock, dnsVars, open, httpd, spc>>

(* Mutant: the descriptor is closed, not only shut down, before the wait. *)
MutTakeSocketCloses ==
  /\ opc = "take_socket"
  /\ osock' = NoSocket /\ dns_socket' = NoSocket
  /\ open' = open \ {dns_socket}
  /\ opc' = "wait_stopped"
  /\ UNCHANGED <<events, cmdq, dns_task, web_server, wifiVars, ocmd, dnsVars, httpd, spc>>

TakeSocket ==
  /\ opc = "take_socket"
  /\ osock' = dns_socket /\ dns_socket' = NoSocket
  /\ opc' = "wait_stopped"
  /\ UNCHANGED <<events, cmdq, dns_task, web_server, wifiVars, ocmd, dnsVars, open, httpd, spc>>

(* Mutant: does not wait. *)
MutWaitStopped == opc = "wait_stopped" /\ OrchGoto("close_socket")

WaitStopped ==
  /\ opc = "wait_stopped" /\ "DNS_STOPPED" \in events
  /\ events' = events \ {"DNS_STOPPED"}
  /\ opc' = "close_socket"
  /\ UNCHANGED <<cmdq, ctxVars, wifiVars, ocmd, osock, dnsVars, open, httpd, spc>>

(* "DNS task hung": forced restart. *)
StopDnsTimeout ==
  /\ opc = "wait_stopped" /\ "DNS_STOPPED" \notin events /\ "hang" \in Faults
  /\ Restart

CloseSocket ==
  /\ opc = "close_socket"
  /\ open' = open \ {osock}
  /\ osock' = NoSocket
  /\ dns_task' = NoTask
  /\ opc' = AfterStopDns
  /\ UNCHANGED <<events, cmdq, dns_socket, web_server, wifiVars, ocmd, dnsVars, httpd, spc>>

-----------------------------------------------------------------------------
(* start_webserver() and stop_webserver(), called by the orchestrator.     *)

(* An httpd_start() that fails is logged and otherwise ignored. *)
StartWeb ==
  /\ opc = "start_web"
  /\ \/ /\ ~web_server
        /\ web_server' = TRUE /\ httpd' = "idle"
     \/ /\ web_server \/ "httpd" \in Faults
        /\ UNCHANGED <<web_server, httpd>>
  /\ opc' = "set_running"
  /\ UNCHANGED <<events, cmdq, dns_task, dns_socket, wifiVars, ocmd, osock, dnsVars, open, spc>>

AfterStopWeb == IF ocmd = "STOP" THEN "finish" ELSE "exit"

StopWeb ==
  /\ opc = "stop_web"
  /\ web_server' = FALSE
  /\ opc' = IF web_server THEN "join_web" ELSE AfterStopWeb
  /\ UNCHANGED <<events, cmdq, dns_task, dns_socket, wifiVars, ocmd, osock, dnsVars, open, httpd, spc>>

(* httpd_stop() returns when the server's task has finished its request    *)
(* and exited.                                                             *)
JoinWeb ==
  /\ opc = "join_web" /\ httpd = "idle"
  /\ httpd' = "off"
  /\ opc' = AfterStopWeb
  /\ UNCHANGED <<events, cmdq, ctxVars, wifiVars, ocmd, osock, dnsVars, open, spc>>

Orchestrator ==
  \/ Receive \/ ReceiveTimeout \/ Finish
  \/ BeginStart \/ BeginStop \/ BeginDnsError \/ BeginShutdown
  \/ SetRunning \/ ClearRunning \/ Exit
  \/ StartDns \/ StartDnsFails \/ StopDns \/ TakeSocket \/ WaitStopped
  \/ CloseSocket
  \/ StartWeb \/ StopWeb \/ JoinWeb

-----------------------------------------------------------------------------
(* The DNS task. *)

DnsGoto(t, l) == dpc' = [dpc EXCEPT ![t] = l]

DnsCheckRunning(t) ==
  /\ dpc[t] = "created"
  /\ DnsGoto(t, IF "DNS_RUNNING" \in events THEN "opening" ELSE "cleanup")
  /\ UNCHANGED <<events, cmdq, ctxVars, wifiVars, orchVars, dsock, derr, open, httpd, spc>>

DnsOpenSocket(t) ==
  /\ dpc[t] = "opening"
  /\ \/ \E s \in Sockets \ open :
          /\ open' = open \cup {s}
          /\ dsock' = [dsock EXCEPT ![t] = s]
          /\ DnsGoto(t, "publish")
          /\ UNCHANGED derr
     \/ /\ open = Sockets \/ "socket" \in Faults
        /\ derr' = [derr EXCEPT ![t] = TRUE]
        /\ DnsGoto(t, "cleanup")
        /\ UNCHANGED <<open, dsock>>
  /\ UNCHANGED <<events, cmdq, ctxVars, wifiVars, orchVars, httpd, spc>>

DnsPublishSocket(t) ==
  /\ dpc[t] = "publish"
  /\ dns_socket' = dsock[t]
  /\ DnsGoto(t, "bind")
  /\ UNCHANGED <<events, cmdq, dns_task, web_server, wifiVars, orchVars, dsock, derr, open, httpd, spc>>

DnsBind(t) ==
  /\ dpc[t] = "bind"
  /\ \/ DnsGoto(t, "serving") /\ UNCHANGED derr
     \/ /\ "bind" \in Faults
        /\ derr' = [derr EXCEPT ![t] = TRUE]
        /\ DnsGoto(t, "cleanup")
  /\ UNCHANGED <<events, cmdq, ctxVars, wifiVars, orchVars, dsock, open, httpd, spc>>

(* The receive loop ends when it finds EVT_DNS_RUNNING_BIT clear, ... *)
DnsLeaveLoop(t) ==
  /\ dpc[t] = "serving" /\ "DNS_RUNNING" \notin events
  /\ DnsGoto(t, "cleanup")
  /\ UNCHANGED <<events, cmdq, ctxVars, wifiVars, orchVars, dsock, derr, open, httpd, spc>>

(* ... or on a fatal error of recvfrom() while the bit is set. *)
DnsRecvFails(t) ==
  /\ dpc[t] = "serving" /\ "DNS_RUNNING" \in events /\ "recv" \in Faults
  /\ derr' = [derr EXCEPT ![t] = TRUE]
  /\ DnsGoto(t, "cleanup")
  /\ UNCHANGED <<events, cmdq, ctxVars, wifiVars, orchVars, dsock, open, httpd, spc>>

(* Mutant: a failed task is not reported. *)
MutDnsSignalStopped(t) ==
  /\ dpc[t] = "cleanup"
  /\ events' = events \cup {"DNS_STOPPED"}
  /\ DnsGoto(t, "dead")
  /\ dsock' = [dsock EXCEPT ![t] = NoSocket]
  /\ derr' = [derr EXCEPT ![t] = FALSE]
  /\ UNCHANGED <<cmdq, ctxVars, wifiVars, orchVars, open, httpd, spc>>

(* dns_cleanup: the socket is left to stop_dns_server(); the task's locals *)
(* are not used after this.                                                *)
DnsSignalStopped(t) ==
  /\ dpc[t] = "cleanup"
  /\ events' = events \cup {"DNS_STOPPED"}
  /\ DnsGoto(t, IF derr[t] THEN "reporting" ELSE "dead")
  /\ dsock' = [dsock EXCEPT ![t] = NoSocket]
  /\ derr' = [derr EXCEPT ![t] = FALSE]
  /\ UNCHANGED <<cmdq, ctxVars, wifiVars, orchVars, open, httpd, spc>>

DnsReport(t) ==
  /\ dpc[t] = "reporting"
  /\ DnsGoto(t, IF "DNS_RUNNING" \in events THEN "sending" ELSE "dead")
  /\ UNCHANGED <<events, cmdq, ctxVars, wifiVars, orchVars, dsock, derr, open, httpd, spc>>

DnsSend(t) ==
  /\ dpc[t] = "sending"
  /\ \/ ~QueueFull /\ cmdq' = Append(cmdq, "DNS_ERROR")
     \/ SendExpires("send") /\ UNCHANGED cmdq   \* 1 s expired
  /\ DnsGoto(t, "dead")
  /\ UNCHANGED <<events, ctxVars, wifiVars, orchVars, dsock, derr, open, httpd, spc>>

(* What a DNS task does whenever it is scheduled. *)
DnsTask(t) ==
  \/ DnsCheckRunning(t) \/ DnsOpenSocket(t) \/ DnsPublishSocket(t)
  \/ DnsBind(t) \/ DnsLeaveLoop(t) \/ DnsSignalStopped(t)
  \/ DnsReport(t) \/ DnsSend(t)

-----------------------------------------------------------------------------
(* The HTTP server's task, serving a file: main_handler()'s transfer loop. *)

(* The server's loop looks at its control socket before the sessions, so no *)
(* request begins once httpd_stop() has posted its message there (those of  *)
(* the pass already under way count as part of the request in progress).    *)
HttpRequest ==
  /\ httpd = "idle" /\ opc # "join_web" /\ clients # {}
  /\ httpd' = "serving"
  /\ UNCHANGED <<events, cmdq, ctxVars, wifiVars, orchVars, dnsVars, open, spc>>

(* Before each chunk the loop looks at the bits, and gives up. *)
HttpAbort ==
  /\ httpd = "serving"
  /\ "SHUTDOWN" \in events \/ "SERVERS_RUNNING" \notin events
  /\ httpd' = "idle"
  /\ UNCHANGED <<events, cmdq, ctxVars, wifiVars, orchVars, dnsVars, open, spc>>

(* The whole file is sent, or a send fails because the client is gone. *)
HttpComplete ==
  /\ httpd = "serving"
  /\ httpd' = "idle"
  /\ UNCHANGED <<events, cmdq, ctxVars, wifiVars, orchVars, dnsVars, open, spc>>

-----------------------------------------------------------------------------
(* free_proc(), as far as the orchestrator takes part in it. *)

RequestShutdown ==
  /\ spc = "idle"
  /\ events' = events \cup {"SHUTDOWN"}
  /\ spc' = "send"
  /\ UNCHANGED <<cmdq, ctxVars, wifiVars, orchVars, dnsVars, open, httpd>>

SendShutdown ==
  /\ spc = "send"
  /\ \/ ~QueueFull /\ cmdq' = Append(cmdq, "SHUTDOWN")
     \/ SendExpires("late") /\ UNCHANGED cmdq   \* 2 s expired
  /\ spc' = "wait"
  /\ UNCHANGED <<events, ctxVars, wifiVars, orchVars, dnsVars, open, httpd>>

(* All tasks are done: Wi-Fi and the event loop are torn down. *)
Teardown ==
  /\ spc = "wait" /\ "ORCHESTRATOR_DONE" \in events
  /\ clients' = {} /\ evq' = <<>> /\ hpc' = "idle"
  /\ spc' = "off"
  /\ UNCHANGED <<events, cmdq, ctxVars, orchVars, dnsVars, open, httpd>>

GraceExpires ==
  /\ spc = "wait" /\ "ORCHESTRATOR_DONE" \notin events /\ "grace" \in Faults
  /\ Restart

(* The hard reset, or the wake-up from deep sleep. *)
PowerCycle == spc = "off" /\ Restart

ShutdownTask == SendShutdown \/ Teardown \/ PowerCycle

-----------------------------------------------------------------------------
Next ==
  \/ \E c \in Clients : Connect(c) \/ Disconnect(c)
  \/ Handler
  \/ Orchestrator
  \/ StopDnsTimeout
  \/ \E t \in DnsTasks : DnsTask(t) \/ DnsRecvFails(t)
  \/ HttpRequest \/ HttpAbort \/ HttpComplete
  \/ RequestShutdown \/ ShutdownTask \/ GraceExpires

Spec == Init /\ [][Next]_vars

(* Every task that can run is scheduled eventually.  Stations, requests,    *)
(* faults and the decision to shut down are the environment's.              *)
FairSpec ==
  /\ Spec
  /\ WF_vars(Handler)
  /\ WF_vars(Orchestrator)
  /\ \A t \in DnsTasks : WF_vars(DnsTask(t))
  /\ WF_vars(HttpAbort \/ HttpComplete)
  /\ WF_vars(ShutdownTask)

(* A sender blocked in xQueueSend gets its turn when the queue has room     *)
(* again and again: FreeRTOS hands the room to a waiter before it returns   *)
(* to the receiver's loop.                                                  *)
SendFairSpec ==
  /\ FairSpec
  /\ SF_vars(HandlerPost)
  /\ \A t \in DnsTasks : SF_vars(DnsSend(t))

-----------------------------------------------------------------------------
(* Properties. *)

(* The task has not yet set EVT_DNS_STOPPED_BIT. *)
Live(t) == dpc[t] \in {"created", "opening", "publish", "bind", "serving", "cleanup"}

(* At most one DNS task is between its creation and its last use of the     *)
(* socket, and it is the one ctx->dns_task names: start_dns_server() never  *)
(* runs beside an unfinished predecessor (dns_server.c:38, 88-113).         *)
SingleDnsTask == \A t \in DnsTasks : Live(t) => dns_task = t

(* The DNS task never calls recvfrom() or sendto() on a descriptor that     *)
(* stop_dns_server() has closed and lwIP may have handed out again: the     *)
(* close waits for EVT_DNS_STOPPED_BIT (dns_server.c:88-110).               *)
NoUseAfterClose == \A t \in DnsTasks : dsock[t] # NoSocket => dsock[t] \in open

(* stop_dns_server() never closes a descriptor twice: what it holds, or     *)
(* will find in ctx->dns_socket, is open (dns_server.c:5-9, 74-81, 109).    *)
NoDoubleClose == {dns_socket, osock} \ {NoSocket} \subseteq open

(* Between two commands the event bits and the handles agree: the servers   *)
(* are marked running exactly when there is a DNS task and its bit is set,  *)
(* and there is no web server besides (a stale DNS_ERROR, or a START that   *)
(* crosses a STOP, must not leave a half-started pair; orchestrator.c).     *)
BitsMatchHandles ==
  opc = "receive" =>
    /\ "SERVERS_RUNNING" \in events <=> dns_task # NoTask
    /\ "SERVERS_RUNNING" \in events <=> "DNS_RUNNING" \in events
    /\ web_server => "SERVERS_RUNNING" \in events
    /\ "httpd" \notin Faults => (web_server <=> "SERVERS_RUNNING" \in events)

(* Once the orchestrator has reported that it is done, and free_proc() may  *)
(* tear down Wi-Fi and unmount the storage, no DNS task is live, no request *)
(* is being served and no bit claims otherwise (orchestrator.c:135-166,     *)
(* power_mgmt.c:98-145).                                                    *)
DownWhenDone ==
  "ORCHESTRATOR_DONE" \in events =>
    /\ events \cap {"SERVERS_RUNNING", "DNS_RUNNING"} = {}
    /\ \A t \in DnsTasks : ~Live(t)
    /\ ~web_server /\ httpd = "off"

(* The HTTP task never outlives its handle: whenever it runs, the handle is *)
(* in ctx->web_server or stop_webserver() is waiting for it.                *)
NoOrphanHttpd == httpd # "off" => web_server \/ opc = "join_web"

(* Everything that was posted has been dealt with, and no shutdown is on.   *)
Quiet ==
  /\ evq = <<>> /\ hpc = "idle" /\ cmdq = <<>> /\ opc = "receive"
  /\ \A t \in DnsTasks : dpc[t] \in {"dead", "serving"}
  /\ "SHUTDOWN" \notin events

(* When nothing is pending and no station is left, the servers are off: no  *)
(* order of connects, disconnects and commands leaves them running          *)
(* (orchestrator.c:43-54; holds when no station list or send fails).        *)
NoIdleServer == Quiet /\ clients = {} => "SERVERS_RUNNING" \notin events

(* When nothing is pending and a station is connected, the servers run:     *)
(* "Double-check client count to handle the race where a new client         *)
(* connects between the STADISCONNECTED event and this STOP being           *)
(* processed" (orchestrator.c:67-69).                                       *)
NoStrandedClient == Quiet /\ clients # {} => "SERVERS_RUNNING" \in events

(* "guarantees that the socket fd is always released" (dns_server.c:7-8):   *)
(* with the DNS server stopped and every task gone, no descriptor is open.  *)
SocketAlwaysReleased ==
  /\ opc = "receive" /\ dns_task = NoTask
  /\ \A t \in DnsTasks : dpc[t] = "dead"
  => open = {}

(* A DNS_ERROR makes the orchestrator restart a task that has failed, and   *)
(* no other: "no race conditions between tasks" (dns_server.c:2).           *)
OnlyFailedDnsRestarted ==
  opc = "stop_dns" /\ ocmd = "DNS_ERROR" => \A t \in DnsTasks : ~Live(t)

(* A shutdown request always brings the orchestrator to its end (or the     *)
(* firmware restarts), whatever it was doing and even if the SHUTDOWN       *)
(* command is lost on a full queue (power_mgmt.c:72-79): again and again no *)
(* shutdown is on, or it is answered.                                       *)
ShutdownCompletes == []<>("SHUTDOWN" \in events => "ORCHESTRATOR_DONE" \in events)

(* After the last station has left, and none comes back, the servers stop.  *)
EmptyNetworkStops == []<>(clients = {} => "SERVERS_RUNNING" \notin events)

(* A DNS server that fails while it should run is started again             *)
(* (orchestrator.c:97-130), if its DNS_ERROR reaches the queue.             *)
DnsFailureRepaired == []<>("DNS_RUNNING" \in events => \E t \in DnsTasks : Live(t))

-----------------------------------------------------------------------------
(* The invariant that is inductive, in three parts, each a reason for some  *)
(* of the properties above.                                                 *)

(* Nobody but the task in ctx->dns_task is live, and none is once           *)
(* EVT_DNS_STOPPED_BIT has been set for the current one.                    *)
TaskInv ==
  /\ SingleDnsTask
  /\ "DNS_STOPPED" \in events \/ opc = "close_socket" => \A t \in DnsTasks : ~Live(t)

(* The places that hold a descriptor hold open ones, and no two of them the *)
(* same, but for a task and the publication of its own.                     *)
SocketInv ==
  /\ \A t \in DnsTasks : dsock[t] # NoSocket => dsock[t] \in open /\ Live(t)
  /\ dns_socket # NoSocket => dns_socket \in open
  /\ osock # NoSocket =>
       /\ osock \in open /\ osock # dns_socket
       /\ opc \in {"wait_stopped", "close_socket"}
  /\ \A t \in DnsTasks : dpc[t] = "publish" => dsock[t] \notin {NoSocket, dns_socket, osock}

Running == "SERVERS_RUNNING" \in events
DnsOn == "DNS_RUNNING" \in events
DnsHeld == dns_task # NoTask

(* The web server is as the given flag says, but for a failed httpd_start().*)
WebIs(flag) ==
  /\ web_server => flag
  /\ "httpd" \notin Faults => (web_server <=> flag)

(* What the orchestrator has done so far in the command it is processing.   *)
StageInv ==
  /\ NoOrphanHttpd
  /\ "ORCHESTRATOR_DONE" \in events => opc = "done"
  /\ opc \in {"receive", "begin", "finish"} =>
       (Running <=> DnsHeld) /\ (Running <=> DnsOn) /\ WebIs(Running)
  /\ opc = "start_dns" =>
       /\ ocmd \in {"START", "DNS_ERROR"} /\ (Running <=> ocmd = "DNS_ERROR")
       /\ ~DnsHeld /\ ~DnsOn /\ WebIs(Running)
  /\ opc \in {"start_web", "set_running"} =>
       /\ ocmd = "START" /\ ~Running /\ DnsHeld /\ DnsOn
       /\ WebIs(opc = "set_running")
  /\ opc = "clear_running" =>
       ocmd \in {"STOP", "SHUTDOWN"} /\ Running /\ DnsHeld /\ DnsOn /\ WebIs(TRUE)
  /\ opc \in {"stop_dns", "take_socket", "wait_stopped", "close_socket"} =>
       /\ ocmd \in {"STOP", "SHUTDOWN", "DNS_ERROR"} /\ (Running <=> ocmd = "DNS_ERROR")
       /\ DnsHeld /\ (DnsOn <=> opc = "stop_dns") /\ WebIs(TRUE)
  /\ opc \in {"stop_web", "join_web", "exit", "done"} =>
       ocmd \in {"STOP", "SHUTDOWN"} /\ ~Running /\ ~DnsHeld /\ ~DnsOn
  /\ opc \in {"join_web", "exit", "done"} => ~web_server

(* All parts together: with TypeOK it holds initially and every step keeps  *)
(* it, for each configuration of stations, descriptors and faults.          *)
LifecycleInv == TaskInv /\ SocketInv /\ StageInv

(* The same with the types: what holds in every state.                       *)
LifecycleSafe == TypeOK /\ LifecycleInv

(* The descriptor has one owner at a time: the task never uses what          *)
(* stop_dns_server() has closed, which never closes what is not open.        *)
SocketOwned == NoUseAfterClose /\ NoDoubleClose

(* A stopped server is gone, in the end (DONE) and in between.               *)
NothingLeftBehind == DownWhenDone /\ NoOrphanHttpd

(* The servers follow the network: up again after a failure, down when it is *)
(* empty.                                                                    *)
ServersFollow == DnsFailureRepaired /\ EmptyNetworkStops

-----------------------------------------------------------------------------
(* The abstract service this implements. *)

Opening == opc \in {"start_web", "set_running"} \/ (opc = "start_dns" /\ ocmd = "START")

Closing ==
  /\ ocmd \in {"STOP", "SHUTDOWN"}
  /\ opc \in {"stop_dns", "take_socket", "wait_stopped", "close_socket", "stop_web", "join_web"}

servicePhase ==
  CASE "ORCHESTRATOR_DONE" \in events -> "retired"
    [] "SERVERS_RUNNING" \in events   -> "open"
    [] Opening                        -> "opening"
    [] Closing                        -> "closing"
    [] OTHER                          -> "idle"

serversHeld ==
  (IF dns_task # NoTask THEN {"dns"} ELSE {})
    \cup (IF web_server \/ httpd # "off" THEN {"web"} ELSE {})

Service == INSTANCE PortalService
             WITH phase <- servicePhase, held <- serversHeld, Dns <- "dns", Web <- "web"

(* The life cycle implements the abstract service: in particular nothing is *)
(* held when it is idle or retired, in no order of commands and failures.   *)
ImplementsService == Service!Spec
=============================================================================
