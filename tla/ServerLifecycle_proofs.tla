------------------------ MODULE ServerLifecycle_proofs ------------------------
(***************************************************************************)
(* Proofs about the server life cycle, for any number of stations, task    *)
(* control blocks and descriptors, any queue size and any set of faults.   *)
(***************************************************************************)
EXTENDS ServerLifecycle, TLAPS

USE DEF vars, ctxVars, wifiVars, orchVars, dnsVars

(* Every step keeps every variable in its type: in particular no sender     *)
(* overfills the command queue.                                             *)
LEMMA TypeInit == Init => TypeOK
<1> SUFFICES ASSUME Init PROVE TypeOK
  OBVIOUS
<1>1. events \subseteq EventBits /\ cmdq \in Seq(Cmds) /\ Len(cmdq) <= CmdQueueSize
  BY LifecycleAssumption DEF Init, Cmds
<1>2. /\ hpc \in HandlerPcs /\ opc \in OrchPcs /\ ocmd \in Cmds \cup {"none"}
      /\ httpd \in HttpdPcs /\ spc \in ShutdownPcs
  BY DEF Init, HandlerPcs, OrchPcs, HttpdPcs, ShutdownPcs
<1>3. /\ dpc \in [DnsTasks -> DnsPcs]
      /\ dsock \in [DnsTasks -> Sockets \cup {NoSocket}]
      /\ derr \in [DnsTasks -> BOOLEAN]
  BY DEF Init, DnsPcs
<1>5. evq \in Seq(WifiEvents)
  BY DEF Init
<1>4. /\ dns_task \in DnsTasks \cup {NoTask}
      /\ dns_socket \in Sockets \cup {NoSocket} /\ web_server \in BOOLEAN
      /\ clients \subseteq Clients /\ osock \in Sockets \cup {NoSocket}
      /\ open \subseteq Sockets
  BY DEF Init
<1> QED
  BY <1>1, <1>2, <1>3, <1>4, <1>5 DEF TypeOK

LEMMA TypeRestart == Restart => TypeOK'
<1> SUFFICES ASSUME Restart PROVE TypeOK'
  OBVIOUS
<1>1. (events \subseteq EventBits /\ cmdq \in Seq(Cmds) /\ Len(cmdq) <= CmdQueueSize)'
  BY LifecycleAssumption DEF Restart, Cmds
<1>2. (/\ hpc \in HandlerPcs /\ opc \in OrchPcs /\ ocmd \in Cmds \cup {"none"}
       /\ httpd \in HttpdPcs /\ spc \in ShutdownPcs)'
  BY DEF Restart, HandlerPcs, OrchPcs, HttpdPcs, ShutdownPcs
<1>3. (/\ dpc \in [DnsTasks -> DnsPcs]
       /\ dsock \in [DnsTasks -> Sockets \cup {NoSocket}]
       /\ derr \in [DnsTasks -> BOOLEAN])'
  BY DEF Restart, DnsPcs
<1>5. evq' \in Seq(WifiEvents)
  BY DEF Restart
<1>4. (/\ dns_task \in DnsTasks \cup {NoTask}
       /\ dns_socket \in Sockets \cup {NoSocket} /\ web_server \in BOOLEAN
       /\ clients \subseteq Clients /\ osock \in Sockets \cup {NoSocket}
       /\ open \subseteq Sockets)'
  BY DEF Restart
<1> QED
  BY <1>1, <1>2, <1>3, <1>4, <1>5 DEF TypeOK

LEMMA TypeStep == TypeOK /\ [Next]_vars => TypeOK'
<1> SUFFICES ASSUME TypeOK, [Next]_vars PROVE TypeOK'
  OBVIOUS
<1> USE DEF TypeOK
<1>1. ASSUME NEW c \in Clients, Connect(c) \/ Disconnect(c) PROVE TypeOK'
  <2>1. evq' \in Seq(WifiEvents)
    <3>1. evq' = Append(evq, "STACONNECTED") \/ evq' = Append(evq, "STADISCONNECTED")
      BY <1>1 DEF Connect, Disconnect
    <3>2. \A e \in WifiEvents : Append(evq, e) \in Seq(WifiEvents)
      OBVIOUS
    <3> QED
      BY <3>1, <3>2 DEF WifiEvents
  <2> QED
    BY <1>1, <2>1 DEF Connect, Disconnect
<1>2. CASE HandleConnected
  BY <1>2 DEF HandleConnected, Deliver, HandlerPcs
<1>3. CASE HandleDisconnected
  BY <1>3 DEF HandleDisconnected, Deliver, HandlerPcs
<1>4. CASE HandlerRecheck
  BY <1>4 DEF HandlerRecheck, HandlerPcs
<1>5. CASE HandlerPost
  <2>1. cmdq' \in Seq(Cmds) /\ Len(cmdq') <= CmdQueueSize
    <3>1. \/ ~QueueFull /\ \E c \in Cmds : cmdq' = Append(cmdq, c)
          \/ cmdq' = cmdq
      BY <1>5 DEF HandlerPost, Cmds
    <3> QED
      BY <3>1, LifecycleAssumption DEF QueueFull
  <2> QED
    BY <1>5, <2>1 DEF HandlerPost, HandlerPcs
<1>6. CASE Receive
  <2>1. cmdq' \in Seq(Cmds) /\ Len(cmdq') <= CmdQueueSize /\ ocmd' \in Cmds
    BY <1>6, LifecycleAssumption DEF Receive
  <2> QED
    BY <1>6, <2>1 DEF Receive, OrchPcs
<1>7. CASE ReceiveTimeout \/ Finish
  BY <1>7 DEF ReceiveTimeout, Finish, OrchPcs, Cmds
<1>8. CASE BeginStart \/ BeginStop \/ BeginDnsError \/ BeginShutdown
  <2>1. opc' \in OrchPcs
    BY <1>8 DEF BeginStart, BeginStop, BeginDnsError, BeginShutdown, OrchGoto, OrchPcs
  <2> QED
    BY <1>8, <2>1 DEF BeginStart, BeginStop, BeginDnsError, BeginShutdown, OrchGoto
<1>9. CASE SetRunning \/ ClearRunning \/ Exit
  <2>1. events' \subseteq EventBits /\ opc' \in OrchPcs
    BY <1>9 DEF SetRunning, ClearRunning, Exit, EventBits, OrchPcs
  <2> QED
    BY <1>9, <2>1 DEF SetRunning, ClearRunning, Exit
<1>10. CASE StartDns
  <2>1. events' \subseteq EventBits /\ opc' \in OrchPcs
    BY <1>10 DEF StartDns, AfterStartDns, EventBits, OrchPcs
  <2>2. dns_task' \in DnsTasks \cup {NoTask} /\ dpc' \in [DnsTasks -> DnsPcs]
    BY <1>10 DEF StartDns, DnsPcs
  <2> QED
    BY <1>10, <2>1, <2>2 DEF StartDns
<1>11. CASE StartDnsFails \/ StopDnsTimeout \/ GraceExpires \/ PowerCycle
  BY <1>11, TypeRestart DEF StartDnsFails, StopDnsTimeout, GraceExpires, PowerCycle
<1>12. CASE StopDns
  <2>1. events' \subseteq EventBits /\ opc' \in OrchPcs
    BY <1>12 DEF StopDns, AfterStopDns, EventBits, OrchPcs
  <2> QED
    BY <1>12, <2>1 DEF StopDns
<1>13. CASE TakeSocket \/ WaitStopped
  BY <1>13 DEF TakeSocket, WaitStopped, OrchPcs
<1>14. CASE CloseSocket
  BY <1>14 DEF CloseSocket, AfterStopDns, OrchPcs
<1>15. CASE StartWeb
  BY <1>15 DEF StartWeb, OrchPcs, HttpdPcs
<1>16. CASE StopWeb \/ JoinWeb
  BY <1>16 DEF StopWeb, JoinWeb, AfterStopWeb, OrchPcs, HttpdPcs
<1>17. ASSUME NEW t \in DnsTasks, DnsTask(t) \/ DnsRecvFails(t) PROVE TypeOK'
  <2>6. CASE DnsSend(t)
    <3>1. cmdq' \in Seq(Cmds) /\ Len(cmdq') <= CmdQueueSize
      <4>1. (~QueueFull /\ cmdq' = Append(cmdq, "DNS_ERROR")) \/ cmdq' = cmdq
        BY <2>6 DEF DnsSend
      <4> QED
        BY <4>1, LifecycleAssumption, SMTT(30) DEF Cmds, QueueFull
    <3> QED
      BY <2>6, <3>1 DEF DnsSend, DnsGoto, DnsPcs
  <2> USE DEF DnsGoto, DnsPcs
  <2>1. CASE DnsCheckRunning(t) \/ DnsLeaveLoop(t) \/ DnsReport(t)
    BY <2>1 DEF DnsCheckRunning, DnsLeaveLoop, DnsReport
  <2>2. CASE DnsPublishSocket(t)
    BY <2>2 DEF DnsPublishSocket
  <2>3. CASE DnsOpenSocket(t)
    <3>1. open' \in SUBSET Sockets /\ dsock' \in [DnsTasks -> Sockets \cup {NoSocket}]
      BY <2>3 DEF DnsOpenSocket
    <3>2. derr' \in [DnsTasks -> BOOLEAN]
      BY <2>3 DEF DnsOpenSocket
    <3>3. dpc' \in [DnsTasks -> DnsPcs]
      BY <2>3 DEF DnsOpenSocket
    <3> QED
      BY <2>3, <3>1, <3>2, <3>3 DEF DnsOpenSocket
  <2>4. CASE DnsBind(t) \/ DnsRecvFails(t)
    BY <2>4 DEF DnsBind, DnsRecvFails
  <2>5. CASE DnsSignalStopped(t)
    BY <2>5 DEF DnsSignalStopped, EventBits
  <2> QED
    BY <1>17, <2>1, <2>2, <2>3, <2>4, <2>5, <2>6 DEF DnsTask
<1>18. CASE HttpRequest \/ HttpAbort \/ HttpComplete
  BY <1>18 DEF HttpRequest, HttpAbort, HttpComplete, HttpdPcs
<1>19. CASE RequestShutdown
  BY <1>19 DEF RequestShutdown, EventBits, ShutdownPcs
<1>20. CASE SendShutdown
  <2>1. cmdq' \in Seq(Cmds) /\ Len(cmdq') <= CmdQueueSize
    <3>1. (~QueueFull /\ cmdq' = Append(cmdq, "SHUTDOWN")) \/ cmdq' = cmdq
      BY <1>20 DEF SendShutdown
    <3> QED
      BY <3>1, LifecycleAssumption, SMTT(30) DEF Cmds, QueueFull
  <2> QED
    BY <1>20, <2>1 DEF SendShutdown, ShutdownPcs
<1>21. CASE Teardown
  BY <1>21 DEF Teardown, HandlerPcs, ShutdownPcs
<1>22. CASE UNCHANGED vars
  BY <1>22
<1> QED
  BY <1>1, <1>2, <1>3, <1>4, <1>5, <1>6, <1>7, <1>8, <1>9, <1>10, <1>11, <1>12, <1>13,
     <1>14, <1>15, <1>16, <1>17, <1>18, <1>19, <1>20, <1>21, <1>22
     DEF Next, Handler, Orchestrator, ShutdownTask

(* Type correctness: the queue keeps its bound, every program counter and   *)
(* handle stays in its range.                                               *)
THEOREM TypeCorrect == Spec => []TypeOK
  BY TypeInit, TypeStep, PTL DEF Spec

-----------------------------------------------------------------------------
(* A restart brings every part of the invariant back.                       *)
LEMMA InvInit == Init => LifecycleInv
<1> SUFFICES ASSUME Init PROVE LifecycleInv
  OBVIOUS
<1>1. TaskInv /\ SocketInv
  BY DEF Init, TaskInv, SocketInv, SingleDnsTask, Live
<1>2. StageInv
  BY DEF Init, StageInv, NoOrphanHttpd, Running, DnsHeld, DnsOn, WebIs
<1> QED
  BY <1>1, <1>2 DEF LifecycleInv

LEMMA InvRestart == Restart => LifecycleInv'
<1> SUFFICES ASSUME Restart PROVE LifecycleInv'
  OBVIOUS
<1>1. TaskInv' /\ SocketInv'
  BY DEF Restart, TaskInv, SocketInv, SingleDnsTask, Live
<1>2. StageInv'
  BY DEF Restart, StageInv, NoOrphanHttpd, Running, DnsHeld, DnsOn, WebIs
<1> QED
  BY <1>1, <1>2 DEF LifecycleInv

Restarting == StopDnsTimeout \/ StartDnsFails \/ GraceExpires \/ PowerCycle

LEMMA InvRestarting == Restarting => LifecycleInv'
  BY InvRestart DEF Restarting, StopDnsTimeout, StartDnsFails, GraceExpires, PowerCycle

(* The steps of the other tasks leave the servers' handles alone and may at *)
(* most set EVT_SHUTDOWN_BIT.                                               *)
Bystander ==
  \/ (\E c \in Clients : Connect(c) \/ Disconnect(c))
  \/ Handler
  \/ HttpRequest \/ HttpAbort \/ HttpComplete
  \/ RequestShutdown \/ SendShutdown \/ Teardown
  \/ UNCHANGED vars

LEMMA BystanderFrame ==
  ASSUME Bystander
  PROVE /\ UNCHANGED <<dns_task, dns_socket, web_server, opc, ocmd, osock, dpc, dsock, open>>
        /\ events' = events \/ events' = events \cup {"SHUTDOWN"}
        /\ httpd' # "off" => httpd # "off"
  BY DEF Bystander, Connect, Disconnect, Handler, HandleConnected, HandleDisconnected,
     Deliver, HandlerRecheck, HandlerPost, HttpRequest, HttpAbort, HttpComplete,
     RequestShutdown, SendShutdown, Teardown

LEMMA NextCases ==
  ASSUME [Next]_vars
  PROVE \/ Restarting \/ Bystander
        \/ \E t \in DnsTasks : DnsTask(t) \/ DnsRecvFails(t)
        \/ Receive \/ ReceiveTimeout \/ Finish
        \/ BeginStart \/ BeginStop \/ BeginDnsError \/ BeginShutdown
        \/ SetRunning \/ ClearRunning \/ Exit
        \/ StartDns \/ StopDns \/ TakeSocket \/ WaitStopped \/ CloseSocket
        \/ StartWeb \/ StopWeb \/ JoinWeb
  BY DEF Next, Restarting, Bystander, Orchestrator, ShutdownTask

(* What the orchestrator does besides starting and stopping the DNS task    *)
(* does not touch the DNS task nor the descriptors.                         *)
OrchElsewhere ==
  \/ Receive \/ ReceiveTimeout \/ Finish
  \/ BeginStart \/ BeginStop \/ BeginDnsError \/ BeginShutdown
  \/ SetRunning \/ ClearRunning \/ Exit
  \/ StartWeb \/ StopWeb \/ JoinWeb

LEMMA OrchElsewhereFrame ==
  ASSUME OrchElsewhere
  PROVE /\ UNCHANGED <<dns_task, dns_socket, osock, dpc, dsock, open>>
        /\ "DNS_STOPPED" \in events' => "DNS_STOPPED" \in events
        /\ opc \notin {"wait_stopped", "close_socket"}
        /\ opc' # "close_socket"
<1>1. CASE Receive \/ ReceiveTimeout \/ Finish \/ SetRunning \/ ClearRunning \/ Exit
  BY <1>1 DEF Receive, ReceiveTimeout, Finish, SetRunning, ClearRunning, Exit
<1>2. CASE BeginStart \/ BeginStop \/ BeginDnsError \/ BeginShutdown
  BY <1>2 DEF BeginStart, BeginStop, BeginDnsError, BeginShutdown, OrchGoto
<1>3. CASE StartWeb \/ StopWeb \/ JoinWeb
  BY <1>3 DEF StartWeb, StopWeb, JoinWeb, AfterStopWeb
<1> QED
  BY <1>1, <1>2, <1>3 DEF OrchElsewhere

(* How one step moves a DNS task, as far as TaskInv can tell.               *)
LEMMA TaskStep == TypeOK /\ LifecycleInv /\ [Next]_vars => TaskInv'
<1> SUFFICES ASSUME TypeOK, LifecycleInv, [Next]_vars PROVE TaskInv'
  OBVIOUS
<1> USE DEF LifecycleInv, TaskInv, SingleDnsTask
<1>1. CASE Restarting
  BY <1>1, InvRestarting
<1>2. CASE Bystander
  BY <1>2, BystanderFrame DEF Live
<1>3. CASE OrchElsewhere
  BY <1>3, OrchElsewhereFrame DEF Live
<1>4. CASE StartDns
  <2>1. CASE dns_task # NoTask
    BY <1>4, <2>1 DEF StartDns, AfterStartDns, Live
  <2>2. CASE dns_task = NoTask
    <3>1. \A u \in DnsTasks : ~Live(u)
      BY <2>2, LifecycleAssumption
    <3>2. PICK t \in DnsTasks : dns_task' = t /\ dpc' = [dpc EXCEPT ![t] = "created"]
      BY <1>4, <2>2 DEF StartDns
    <3>3. \A u \in DnsTasks : u # t => ~Live(u)'
      BY <3>1, <3>2 DEF TypeOK, Live
    <3>4. "DNS_STOPPED" \notin events' /\ opc' # "close_socket"
      BY <1>4, <2>2 DEF StartDns, AfterStartDns
    <3> QED
      BY <3>2, <3>3, <3>4
  <2> QED
    BY <2>1, <2>2
<1>5. CASE StopDns \/ TakeSocket
  BY <1>5 DEF StopDns, TakeSocket, AfterStopDns, Live
<1>6. CASE WaitStopped \/ CloseSocket
  BY <1>6 DEF WaitStopped, CloseSocket, AfterStopDns, Live
<1>7. ASSUME NEW t \in DnsTasks, DnsTask(t) \/ DnsRecvFails(t) PROVE TaskInv'
  <2>1. UNCHANGED <<dns_task, opc>>
    BY <1>7 DEF DnsTask, DnsCheckRunning, DnsOpenSocket, DnsPublishSocket, DnsBind,
       DnsLeaveLoop, DnsSignalStopped, DnsReport, DnsSend, DnsRecvFails
  <2>2. \A u \in DnsTasks : Live(u)' => Live(u)
    <3>1. CASE DnsCheckRunning(t) \/ DnsOpenSocket(t) \/ DnsPublishSocket(t) \/ DnsBind(t)
      BY <3>1 DEF DnsCheckRunning, DnsOpenSocket, DnsPublishSocket, DnsBind, DnsGoto,
         Live, TypeOK
    <3>2. CASE DnsLeaveLoop(t) \/ DnsSignalStopped(t) \/ DnsReport(t) \/ DnsSend(t)
               \/ DnsRecvFails(t)
      BY <3>2 DEF DnsLeaveLoop, DnsSignalStopped, DnsReport, DnsSend, DnsRecvFails,
         DnsGoto, Live, TypeOK
    <3> QED
      BY <1>7, <3>1, <3>2 DEF DnsTask
  <2>3. CASE DnsSignalStopped(t)
    <3>1. Live(t) /\ ~Live(t)'
      BY <2>3 DEF DnsSignalStopped, DnsGoto, Live, TypeOK
    <3> QED
      BY <2>1, <2>2, <3>1
  <2>4. CASE ~DnsSignalStopped(t)
    <3>1. events' = events
      BY <1>7, <2>4 DEF DnsTask, DnsCheckRunning, DnsOpenSocket, DnsPublishSocket,
         DnsBind, DnsLeaveLoop, DnsReport, DnsSend, DnsRecvFails
    <3> QED
      BY <2>1, <2>2, <3>1
  <2> QED
    BY <2>3, <2>4
<1> QED
  BY NextCases, <1>1, <1>2, <1>3, <1>4, <1>5, <1>6, <1>7 DEF OrchElsewhere

(* Descriptors: what a step of the orchestrator or of a DNS task does to    *)
(* the places that hold one.                                                *)
LEMMA SocketStep == TypeOK /\ LifecycleInv /\ [Next]_vars => SocketInv'
<1> SUFFICES ASSUME TypeOK, LifecycleInv, [Next]_vars PROVE SocketInv'
  OBVIOUS
<1> USE DEF LifecycleInv, SocketInv
<1>1. CASE Restarting
  BY <1>1, InvRestarting
<1>2. CASE Bystander
  BY <1>2, BystanderFrame DEF Live
<1>3. CASE OrchElsewhere
  BY <1>3, OrchElsewhereFrame DEF Live
<1>4. CASE StartDns
  <2>1. UNCHANGED <<dns_socket, osock, dsock, open>> /\ osock = NoSocket
    BY <1>4 DEF StartDns
  <2>2. \A t \in DnsTasks :
          /\ Live(t) => Live(t)'
          /\ dpc'[t] = "publish" => dpc[t] = "publish"
    BY <1>4 DEF StartDns, Live, TypeOK
  <2> QED
    BY <2>1, <2>2
<1>5. CASE StopDns
  BY <1>5 DEF StopDns, Live
<1>6. CASE TakeSocket
  BY <1>6 DEF TakeSocket, Live
<1>7. CASE WaitStopped
  BY <1>7 DEF WaitStopped, Live
<1>8. CASE CloseSocket
  <2>1. \A t \in DnsTasks : ~Live(t) /\ dsock[t] = NoSocket /\ dpc[t] # "publish"
    BY <1>8 DEF CloseSocket, TaskInv, Live
  <2> QED
    BY <1>8, <2>1 DEF CloseSocket
<1>9. ASSUME NEW t \in DnsTasks, DnsTask(t) \/ DnsRecvFails(t) PROVE SocketInv'
  <2>1. CASE DnsOpenSocket(t)
    <3>1. UNCHANGED <<dns_socket, osock, opc>>
      BY <2>1 DEF DnsOpenSocket
    <3>2. \A u \in DnsTasks : Live(u) => Live(u)'
      BY <2>1 DEF DnsOpenSocket, DnsGoto, Live, TypeOK
    <3>3. CASE UNCHANGED <<open, dsock>> /\ DnsGoto(t, "cleanup")
      BY <3>1, <3>2, <3>3 DEF DnsGoto, TypeOK
    <3>4. ASSUME NEW s \in Sockets \ open, open' = open \cup {s},
                 dsock' = [dsock EXCEPT ![t] = s], DnsGoto(t, "publish")
          PROVE SocketInv'
      <4>1. s \notin {NoSocket, dns_socket, osock}
        BY LifecycleAssumption
      <4>2. Live(t)'
        BY <3>4 DEF DnsGoto, Live, TypeOK
      <4> QED
        BY <3>1, <3>2, <3>4, <4>1, <4>2 DEF DnsGoto, TypeOK
    <3> QED
      BY <2>1, <3>3, <3>4 DEF DnsOpenSocket
  <2>2. CASE DnsPublishSocket(t)
    <3>1. /\ dns_socket' = dsock[t] /\ dpc' = [dpc EXCEPT ![t] = "bind"]
          /\ UNCHANGED <<osock, opc, dsock, open>> /\ dpc[t] = "publish"
      BY <2>2 DEF DnsPublishSocket, DnsGoto
    <3>2. \A u \in DnsTasks : Live(u) => Live(u)'
      BY <3>1 DEF Live, TypeOK
    <3>3. \A u \in DnsTasks : dpc'[u] # "publish"
      BY <3>1 DEF TaskInv, SingleDnsTask, Live, TypeOK
    <3> QED
      BY <3>1, <3>2, <3>3
  <2>3. CASE DnsSignalStopped(t)
    <3>1. /\ UNCHANGED <<dns_socket, osock, opc, open>>
          /\ dsock' = [dsock EXCEPT ![t] = NoSocket]
      BY <2>3 DEF DnsSignalStopped
    <3>2. \A u \in DnsTasks : u # t => (Live(u) => Live(u)')
      BY <2>3 DEF DnsSignalStopped, DnsGoto, Live, TypeOK
    <3>3. \A u \in DnsTasks : dpc'[u] = "publish" => u # t /\ dpc[u] = "publish"
      BY <2>3 DEF DnsSignalStopped, DnsGoto, TypeOK
    <3> QED
      BY <3>1, <3>2, <3>3 DEF TypeOK
  <2>4. CASE ~(DnsOpenSocket(t) \/ DnsPublishSocket(t) \/ DnsSignalStopped(t))
    <3>1. UNCHANGED <<dns_socket, osock, opc, dsock, open>>
      BY <1>9, <2>4 DEF DnsTask, DnsCheckRunning, DnsBind, DnsLeaveLoop, DnsReport,
         DnsSend, DnsRecvFails
    <3>2. \A u \in DnsTasks : Live(u) => Live(u)'
      BY <1>9, <2>4 DEF DnsTask, DnsCheckRunning, DnsBind, DnsLeaveLoop, DnsReport,
         DnsSend, DnsRecvFails, DnsGoto, Live, TypeOK
    <3>3. \A u \in DnsTasks : dpc'[u] = "publish" => dpc[u] = "publish"
      BY <1>9, <2>4 DEF DnsTask, DnsCheckRunning, DnsBind, DnsLeaveLoop, DnsReport,
         DnsSend, DnsRecvFails, DnsGoto, TypeOK
    <3> QED
      BY <3>1, <3>2, <3>3
  <2> QED
    BY <2>1, <2>2, <2>3, <2>4
<1> QED
  BY NextCases, <1>1, <1>2, <1>3, <1>4, <1>5, <1>6, <1>7, <1>8, <1>9 DEF OrchElsewhere

(* The orchestrator's stages: each of its steps leads from the stage it is  *)
(* at to the next, and no other task moves what a stage relies on.          *)
LEMMA StageStep == TypeOK /\ LifecycleInv /\ [Next]_vars => StageInv'
<1> SUFFICES ASSUME TypeOK, LifecycleInv, [Next]_vars PROVE StageInv'
  OBVIOUS
<1> USE DEF LifecycleInv, StageInv, NoOrphanHttpd, Running, DnsOn, DnsHeld, WebIs
<1>1. CASE Restarting
  BY <1>1, InvRestarting
<1>2. CASE Bystander
  BY <1>2, BystanderFrame
<1>3. ASSUME NEW t \in DnsTasks, DnsTask(t) \/ DnsRecvFails(t) PROVE StageInv'
  <2>1. /\ UNCHANGED <<dns_task, web_server, opc, ocmd, httpd>>
        /\ events' = events \/ events' = events \cup {"DNS_STOPPED"}
    BY <1>3 DEF DnsTask, DnsCheckRunning, DnsOpenSocket, DnsPublishSocket, DnsBind,
       DnsLeaveLoop, DnsSignalStopped, DnsReport, DnsSend, DnsRecvFails
  <2> QED
    BY <2>1
<1>4. CASE Receive \/ ReceiveTimeout \/ Finish
  BY <1>4 DEF Receive, ReceiveTimeout, Finish
<1>5. CASE BeginStart \/ BeginStop
  BY <1>5 DEF BeginStart, BeginStop, OrchGoto
<1>6. CASE BeginDnsError \/ BeginShutdown
  BY <1>6 DEF BeginDnsError, BeginShutdown, OrchGoto
<1>7. CASE SetRunning \/ ClearRunning \/ Exit
  BY <1>7 DEF SetRunning, ClearRunning, Exit
<1>8. CASE StartDns
  BY <1>8, LifecycleAssumption DEF StartDns, AfterStartDns
<1>9. CASE StopDns \/ TakeSocket \/ WaitStopped
  BY <1>9 DEF StopDns, TakeSocket, WaitStopped, AfterStopDns
<1>10. CASE CloseSocket
  BY <1>10 DEF CloseSocket, AfterStopDns
<1>11. CASE StartWeb
  BY <1>11 DEF StartWeb, TypeOK
<1>12. CASE StopWeb \/ JoinWeb
  BY <1>12 DEF StopWeb, JoinWeb, AfterStopWeb
<1> QED
  BY NextCases, <1>1, <1>2, <1>3, <1>4, <1>5, <1>6, <1>7, <1>8, <1>9, <1>10, <1>11, <1>12

-----------------------------------------------------------------------------
(* The invariant holds in every reachable state ...                         *)
THEOREM LifecycleInvariant == Spec => [](TypeOK /\ LifecycleInv)
<1>1. Init => TypeOK /\ LifecycleInv
  BY TypeInit, InvInit
<1>2. TypeOK /\ LifecycleInv /\ [Next]_vars => (TypeOK /\ LifecycleInv)'
  BY TypeStep, TaskStep, SocketStep, StageStep DEF LifecycleInv
<1> QED
  BY <1>1, <1>2, PTL DEF Spec

(* The same under the name the runs check it by.                            *)
THEOREM LifecycleIsSafe == Spec => []LifecycleSafe
  BY LifecycleInvariant, PTL DEF LifecycleSafe

(* At most one DNS task is unfinished, and it is the one in ctx->dns_task:  *)
(* a restart or a new start never runs beside a predecessor.                *)
THEOREM OneDnsTask == Spec => []SingleDnsTask
<1>1. LifecycleInv => SingleDnsTask
  BY DEF LifecycleInv, TaskInv
<1> QED
  BY <1>1, LifecycleInvariant, PTL

(* stop_dns_server() is the single owner of close(): no DNS task uses a      *)
(* descriptor it has closed, and what it holds, or finds in ctx->dns_socket, *)
(* is open.                                                                  *)
THEOREM SocketHasOneOwner == Spec => []SocketOwned
<1>1. LifecycleInv => SocketOwned
  BY DEF LifecycleInv, SocketInv, SocketOwned, NoUseAfterClose, NoDoubleClose
<1> QED
  BY <1>1, LifecycleInvariant, PTL

(* Between two commands the servers are all there or all gone, and the bits *)
(* of ctx->events say so.                                                   *)
THEOREM BitsAndHandlesAgree == Spec => []BitsMatchHandles
<1>1. LifecycleInv => BitsMatchHandles
  BY DEF LifecycleInv, StageInv, BitsMatchHandles, Running, DnsOn, DnsHeld, WebIs
<1> QED
  BY <1>1, LifecycleInvariant, PTL

(* When free_proc() sees EVT_ORCHESTRATOR_DONE_BIT, no server is left whose *)
(* Wi-Fi, sockets or files it would tear down, and before that the HTTP task *)
(* never runs without a handle or a stop_webserver() that waits for it.      *)
THEOREM TornDownWhenDone == Spec => []NothingLeftBehind
<1>1. LifecycleInv => NoOrphanHttpd
  BY DEF LifecycleInv, StageInv
<1>2. LifecycleInv => DownWhenDone
  BY <1>1, LifecycleAssumption DEF LifecycleInv, StageInv, TaskInv, SingleDnsTask, DownWhenDone,
     NoOrphanHttpd, Running, DnsOn, DnsHeld
<1> QED
  BY <1>1, <1>2, LifecycleInvariant, PTL DEF NothingLeftBehind

-----------------------------------------------------------------------------
(* The abstract service: each step is one of its steps or leaves it alone.  *)

LEMMA ServiceInit == Init => Service!Init
  BY DEF Init, Service!Init, servicePhase, serversHeld, Opening, Closing

LEMMA ServiceReset == Restart => Service!Reset
  BY DEF Restart, Service!Reset, servicePhase, serversHeld, Opening, Closing

LEMMA ServiceStep ==
  ASSUME TypeOK, LifecycleInv, LifecycleInv', [Next]_vars
  PROVE [Service!Next]_<<servicePhase, serversHeld>>
<1> USE DEF LifecycleInv, StageInv, NoOrphanHttpd, Running, DnsOn, DnsHeld, WebIs
<1> USE DEF servicePhase, serversHeld, Opening, Closing
<1>1. CASE Restarting
  BY <1>1, ServiceReset DEF Restarting, StopDnsTimeout, StartDnsFails, GraceExpires,
     PowerCycle, Service!Next
<1>2. CASE Bystander
  <2>1. httpd' = "off" <=> httpd = "off"
    BY <1>2 DEF Bystander, Connect, Disconnect, Handler, HandleConnected,
       HandleDisconnected, Deliver, HandlerRecheck, HandlerPost, HttpRequest, HttpAbort,
       HttpComplete, RequestShutdown, SendShutdown, Teardown
  <2> QED
    BY <1>2, <2>1, BystanderFrame
<1>3. ASSUME NEW t \in DnsTasks, DnsTask(t) \/ DnsRecvFails(t)
      PROVE UNCHANGED <<servicePhase, serversHeld>>
  <2>1. /\ UNCHANGED <<dns_task, web_server, opc, ocmd, httpd>>
        /\ events' = events \/ events' = events \cup {"DNS_STOPPED"}
    BY <1>3 DEF DnsTask, DnsCheckRunning, DnsOpenSocket, DnsPublishSocket, DnsBind,
       DnsLeaveLoop, DnsSignalStopped, DnsReport, DnsSend, DnsRecvFails
  <2> QED
    BY <2>1
<1>4. CASE Receive \/ ReceiveTimeout \/ Finish
  BY <1>4 DEF Receive, ReceiveTimeout, Finish
<1>5. CASE BeginStart
  BY <1>5 DEF BeginStart, OrchGoto, Service!Next, Service!Open
<1>6. CASE BeginStop \/ BeginDnsError \/ BeginShutdown
  BY <1>6 DEF BeginStop, BeginDnsError, BeginShutdown, OrchGoto
<1>7. CASE SetRunning
  BY <1>7 DEF SetRunning, Service!Next, Service!Serve
<1>8. CASE ClearRunning
  BY <1>8 DEF ClearRunning, Service!Next, Service!Close
<1>9. CASE Exit
  BY <1>9 DEF Exit, Service!Next, Service!Retire
<1>10. CASE StartDns
  BY <1>10, LifecycleAssumption DEF StartDns, AfterStartDns, Service!Next,
     Service!AcquireDns, Service!RenewDns
<1>11. CASE StopDns \/ TakeSocket \/ WaitStopped
  BY <1>11 DEF StopDns, TakeSocket, WaitStopped, AfterStopDns
<1>12. CASE CloseSocket
  BY <1>12 DEF CloseSocket, AfterStopDns, Service!Next, Service!DropDns,
     Service!Release, Service!Servers
<1>13. CASE StartWeb
  BY <1>13 DEF StartWeb, Service!Next, Service!AcquireWeb, Service!Servers
<1>14. CASE StopWeb \/ JoinWeb
  BY <1>14 DEF StopWeb, JoinWeb, AfterStopWeb, Service!Next, Service!Release,
     Service!Closed, Service!Servers
<1> QED
  BY NextCases, <1>1, <1>2, <1>3, <1>4, <1>5, <1>6, <1>7, <1>8, <1>9, <1>10, <1>11,
     <1>12, <1>13, <1>14

(* The life cycle implements the abstract service.                          *)
THEOREM ServiceImplemented == Spec => ImplementsService
<1>1. TypeOK /\ LifecycleInv /\ LifecycleInv' /\ [Next]_vars
        => [Service!Next]_<<servicePhase, serversHeld>>
  BY ServiceStep
<1> QED
  BY <1>1, ServiceInit, LifecycleInvariant, PTL DEF Spec, ImplementsService, Service!Spec

-----------------------------------------------------------------------------
(* Servers do not run for nobody.  While no station is left and the servers *)
(* run or are on their way up, a STOP is coming: the departure is still to  *)
(* be delivered, or its handler is about to ask, or the command is in the   *)
(* queue or taken.                                                          *)

In(x, s) == \E i \in 1 .. Len(s) : s[i] = x

ShutdownTold ==
  spc # "idle" \/ ocmd = "SHUTDOWN" \/ opc \in {"exit", "done"} \/ In("SHUTDOWN", cmdq) =>
    "SHUTDOWN" \in events

StopComing ==
  \/ In("STADISCONNECTED", evq) \/ hpc \in {"decided_STOP", "post_STOP"}
  \/ In("STOP", cmdq) \/ (opc = "begin" /\ ocmd = "STOP") \/ opc = "clear_running"

StopFollows == clients = {} /\ (Running \/ Opening) /\ "SHUTDOWN" \notin events => StopComing

LEMMA InAppended ==
  ASSUME NEW S, NEW s \in Seq(S), NEW y
  PROVE  \A x : In(x, Append(s, y)) <=> In(x, s) \/ x = y
<1>1. Len(s) \in Nat /\ Len(Append(s, y)) = Len(s) + 1 /\ Append(s, y)[Len(s) + 1] = y
      /\ \A i \in 1 .. Len(s) : Append(s, y)[i] = s[i]
  OBVIOUS
<1>2. \A i \in 1 .. Len(s) + 1 : i \in 1 .. Len(s) \/ i = Len(s) + 1
  BY <1>1
<1>3. ASSUME NEW x PROVE In(x, Append(s, y)) <=> In(x, s) \/ x = y
  <2>1. ASSUME In(x, Append(s, y)) PROVE In(x, s) \/ x = y
    BY <1>1, <1>2, <2>1 DEF In
  <2>2. ASSUME In(x, s) PROVE In(x, Append(s, y))
    BY <1>1, <2>2 DEF In
  <2>3. ASSUME x = y PROVE In(x, Append(s, y))
    BY <1>1, <2>3 DEF In
  <2> QED
    BY <2>1, <2>2, <2>3
<1> QED
  BY <1>3

LEMMA InRest ==
  ASSUME NEW S, NEW s \in Seq(S), s # <<>>
  PROVE  \A x : In(x, s) <=> x = Head(s) \/ In(x, Tail(s))
<1>1. Len(s) \in Nat /\ Len(s) > 0 /\ Len(Tail(s)) = Len(s) - 1 /\ Head(s) = s[1]
      /\ \A i \in 1 .. Len(s) - 1 : Tail(s)[i] = s[i + 1]
  OBVIOUS
<1>2. ASSUME NEW x PROVE In(x, s) <=> x = Head(s) \/ In(x, Tail(s))
  <2>1. ASSUME NEW i \in 1 .. Len(s), s[i] = x PROVE x = Head(s) \/ In(x, Tail(s))
    <3>1. CASE i = 1
      BY <1>1, <2>1, <3>1
    <3>2. CASE i # 1
      <4>1. i - 1 \in 1 .. Len(s) - 1 /\ Tail(s)[i - 1] = x
        BY <1>1, <2>1, <3>2
      <4> QED
        BY <1>1, <4>1 DEF In
    <3> QED
      BY <3>1, <3>2
  <2>2. ASSUME x = Head(s) PROVE In(x, s)
    BY <1>1, <2>2 DEF In
  <2>3. ASSUME NEW i \in 1 .. Len(Tail(s)), Tail(s)[i] = x PROVE In(x, s)
    BY <1>1, <2>3 DEF In
  <2> QED
    BY <2>1, <2>2, <2>3 DEF In
<1> QED
  BY <1>2

LEMMA InEmpty == \A x : ~In(x, <<>>)
  BY DEF In

(* A DNS task adds no command but DNS_ERROR, and no bit but its own. *)
LEMMA DnsFrame ==
  ASSUME TypeOK, NEW t \in DnsTasks, DnsTask(t) \/ DnsRecvFails(t)
  PROVE  /\ UNCHANGED <<opc, ocmd, spc, clients, evq, hpc>> /\ events \subseteq events'
         /\ "SERVERS_RUNNING" \in events' => "SERVERS_RUNNING" \in events
         /\ \A x : In(x, cmdq') <=> In(x, cmdq) \/ (cmdq' # cmdq /\ x = "DNS_ERROR")
<1>1. CASE DnsCheckRunning(t) \/ DnsOpenSocket(t) \/ DnsPublishSocket(t) \/ DnsBind(t)
  <2>1. UNCHANGED <<opc, ocmd, spc, clients, evq, hpc, events, cmdq>>
    BY <1>1 DEF DnsCheckRunning, DnsOpenSocket, DnsPublishSocket, DnsBind
  <2> QED
    BY <2>1
<1>2. CASE DnsLeaveLoop(t) \/ DnsReport(t) \/ DnsRecvFails(t)
  <2>1. UNCHANGED <<opc, ocmd, spc, clients, evq, hpc, events, cmdq>>
    BY <1>2 DEF DnsLeaveLoop, DnsReport, DnsRecvFails
  <2> QED
    BY <2>1
<1>3. CASE DnsSignalStopped(t)
  <2>1. UNCHANGED <<opc, ocmd, spc, clients, evq, hpc, cmdq>> /\ events' = events \cup {"DNS_STOPPED"}
    BY <1>3 DEF DnsSignalStopped
  <2> QED
    BY <2>1
<1>4. CASE DnsSend(t)
  <2>1. UNCHANGED <<opc, ocmd, spc, clients, evq, hpc, events>>
        /\ (cmdq' = cmdq \/ cmdq' = Append(cmdq, "DNS_ERROR"))
    BY <1>4 DEF DnsSend
  <2>2. cmdq \in Seq(Cmds)
    BY DEF TypeOK
  <2>3. \A x : In(x, Append(cmdq, "DNS_ERROR")) <=> In(x, cmdq) \/ x = "DNS_ERROR"
    BY <2>2, InAppended
  <2>4. Append(cmdq, "DNS_ERROR") # cmdq
    BY <2>2
  <2> QED
    BY <2>1, <2>3, <2>4
<1> QED
  BY <1>1, <1>2, <1>3, <1>4 DEF DnsTask

(* EVT_SHUTDOWN_BIT stays, and whoever acts for a shutdown acts after it.   *)
LEMMA ShutdownStep == TypeOK /\ LifecycleInv /\ ShutdownTold /\ [Next]_vars => ShutdownTold'
<1> SUFFICES ASSUME TypeOK, LifecycleInv, ShutdownTold, [Next]_vars PROVE ShutdownTold'
  OBVIOUS
<1> USE DEF ShutdownTold
<1>1. CASE Restarting
  BY <1>1, InEmpty DEF Restarting, StopDnsTimeout, StartDnsFails, GraceExpires, PowerCycle, Restart
<1>2. CASE Bystander
  <2>1. opc' = opc /\ ocmd' = ocmd /\ ("SHUTDOWN" \in events => "SHUTDOWN" \in events')
    BY <1>2, BystanderFrame
  <2>2. CASE RequestShutdown
    BY <2>2 DEF RequestShutdown
  <2>3. CASE SendShutdown
    <3>1. spc = "send" /\ events' = events
      BY <2>3 DEF SendShutdown
    <3> QED
      BY <3>1
  <2>4. CASE Teardown
    BY <2>4 DEF Teardown
  <2>5. CASE Handler
    <3>1. spc' = spc /\ events' = events
      BY <2>5 DEF Handler, HandleConnected, HandleDisconnected, Deliver, HandlerRecheck, HandlerPost
    <3>2. In("SHUTDOWN", cmdq') => In("SHUTDOWN", cmdq)
      <4>1. cmdq \in Seq(Cmds)
        BY DEF TypeOK
      <4>2. cmdq' = cmdq \/ cmdq' = Append(cmdq, "START") \/ cmdq' = Append(cmdq, "STOP")
        BY <2>5 DEF Handler, HandleConnected, HandleDisconnected, Deliver, HandlerRecheck, HandlerPost
      <4>3. \A x : In(x, Append(cmdq, "START")) <=> In(x, cmdq) \/ x = "START"
        BY <4>1, InAppended
      <4>4. \A x : In(x, Append(cmdq, "STOP")) <=> In(x, cmdq) \/ x = "STOP"
        BY <4>1, InAppended
      <4> QED
        BY <4>2, <4>3, <4>4
    <3> QED
      BY <2>1, <3>1, <3>2
  <2>6. CASE (\E c \in Clients : Connect(c) \/ Disconnect(c)) \/ HttpRequest \/ HttpAbort \/ HttpComplete \/ UNCHANGED vars
    <3>1. UNCHANGED <<events, cmdq, spc>>
      BY <2>6 DEF Connect, Disconnect, HttpRequest, HttpAbort, HttpComplete, vars
    <3> QED
      BY <2>1, <3>1
  <2> QED
    BY <1>2, <2>2, <2>3, <2>4, <2>5, <2>6 DEF Bystander
<1>3. ASSUME NEW t \in DnsTasks, DnsTask(t) \/ DnsRecvFails(t) PROVE ShutdownTold'
  <2>1. /\ UNCHANGED <<opc, ocmd, spc>> /\ events \subseteq events'
        /\ \A x : In(x, cmdq') <=> In(x, cmdq) \/ (cmdq' # cmdq /\ x = "DNS_ERROR")
    BY <1>3, DnsFrame
  <2>2. In("SHUTDOWN", cmdq') => In("SHUTDOWN", cmdq)
    BY <2>1
  <2> QED
    BY <2>1, <2>2
<1>4. CASE Receive
  <2>1. In("SHUTDOWN", cmdq) <=> ocmd' = "SHUTDOWN" \/ In("SHUTDOWN", cmdq')
    BY <1>4, InRest DEF Receive, TypeOK
  <2>2. events' = events /\ spc' = spc /\ opc' = "begin"
    BY <1>4 DEF Receive
  <2> QED
    BY <2>1, <2>2
<1>5. CASE ReceiveTimeout \/ Finish
  BY <1>5 DEF ReceiveTimeout, Finish
<1>6. CASE BeginStart \/ BeginStop \/ BeginDnsError \/ BeginShutdown
  BY <1>6 DEF BeginStart, BeginStop, BeginDnsError, BeginShutdown, OrchGoto
<1>7. CASE SetRunning \/ ClearRunning \/ Exit
  BY <1>7 DEF SetRunning, ClearRunning, Exit
<1>8. CASE StartDns \/ StartWeb
  BY <1>8 DEF StartDns, AfterStartDns, StartWeb
<1>9. CASE StopDns \/ TakeSocket \/ WaitStopped \/ CloseSocket
  BY <1>9 DEF StopDns, TakeSocket, WaitStopped, CloseSocket, AfterStopDns
<1>10. CASE StopWeb \/ JoinWeb
  BY <1>10 DEF StopWeb, JoinWeb, AfterStopWeb, LifecycleInv, StageInv
<1> QED
  BY NextCases, <1>1, <1>2, <1>3, <1>4, <1>5, <1>6, <1>7, <1>8, <1>9, <1>10

LEMMA FollowStep ==
  ASSUME Faults \cap {"list", "send"} = {}
  PROVE  TypeOK /\ LifecycleInv /\ ShutdownTold /\ StopFollows /\ [Next]_vars => StopFollows'
<1> SUFFICES ASSUME TypeOK, LifecycleInv, ShutdownTold, StopFollows, [Next]_vars, clients' = {},
                    (Running \/ Opening)', "SHUTDOWN" \notin events'
             PROVE  StopComing'
  BY DEF StopFollows
<1> USE DEF StopComing
<1>0. cmdq \in Seq(Cmds) /\ evq \in Seq(WifiEvents)
  BY DEF TypeOK
<1>1. CASE Restarting
  <2>1. Restart
    BY <1>1 DEF Restarting, StopDnsTimeout, StartDnsFails, GraceExpires, PowerCycle
  <2> QED
    BY <2>1 DEF Restart, Running, Opening
<1>2. CASE Bystander
  <2>1. opc' = opc /\ ocmd' = ocmd /\ "SHUTDOWN" \notin events /\ (Running \/ Opening)
    BY <1>2, BystanderFrame DEF Running, Opening
  <2>2. CASE \E c \in Clients : Connect(c)
    BY <2>2 DEF Connect
  <2>3. CASE \E c \in Clients : Disconnect(c)
    <3>1. evq' = Append(evq, "STADISCONNECTED")
      BY <2>3 DEF Disconnect
    <3> QED
      BY <1>0, <3>1, InAppended
  <2>4. CASE Handler
    <3>0. clients = {} /\ StopComing
      BY <2>1, <2>4 DEF StopFollows, Handler, HandleConnected, HandleDisconnected, Deliver, HandlerRecheck, HandlerPost
    <3>1. CASE HandleConnected
      <4>1. evq # <<>> /\ Head(evq) = "STACONNECTED" /\ evq' = Tail(evq) /\ hpc = "idle" /\ cmdq' = cmdq
        BY <3>1 DEF HandleConnected, Deliver
      <4>2. In("STADISCONNECTED", evq) => In("STADISCONNECTED", evq')
        BY <1>0, <4>1, InRest
      <4> QED
        BY <2>1, <3>0, <4>1, <4>2
    <3>2. CASE HandleDisconnected
      BY <2>1, <3>0, <3>2 DEF HandleDisconnected
    <3>3. CASE HandlerRecheck
      BY <2>1, <3>0, <3>3 DEF HandlerRecheck
    <3>4. CASE HandlerPost
      <4>1. opc # "done"
        BY <2>1 DEF ShutdownTold
      <4>2. cmdq' = Append(cmdq, IF hpc = "post_START" THEN "START" ELSE "STOP") /\ evq' = evq
        BY <3>4, <4>1 DEF HandlerPost, SendExpires
      <4>3. In("STOP", cmdq) => In("STOP", cmdq')
        BY <1>0, <4>2, InAppended
      <4>4. hpc = "post_STOP" => In("STOP", cmdq')
        BY <1>0, <4>2, InAppended
      <4> QED
        BY <2>1, <3>0, <3>4, <4>2, <4>3, <4>4 DEF HandlerPost
    <3> QED
      BY <2>4, <3>1, <3>2, <3>3, <3>4 DEF Handler
  <2>5. CASE RequestShutdown
    BY <2>5 DEF RequestShutdown
  <2>6. CASE SendShutdown \/ Teardown
    BY <2>1, <2>6 DEF SendShutdown, Teardown, ShutdownTold
  <2>7. CASE HttpRequest \/ HttpAbort \/ HttpComplete \/ UNCHANGED vars
    <3>1. UNCHANGED <<clients, evq, hpc, cmdq>>
      BY <2>7 DEF HttpRequest, HttpAbort, HttpComplete, vars, wifiVars
    <3> QED
      BY <2>1, <3>1 DEF StopFollows
  <2> QED
    BY <1>2, <2>2, <2>3, <2>4, <2>5, <2>6, <2>7 DEF Bystander
<1>3. ASSUME NEW t \in DnsTasks, DnsTask(t) \/ DnsRecvFails(t) PROVE StopComing'
  <2>1. /\ UNCHANGED <<opc, ocmd, clients, evq, hpc>> /\ events \subseteq events'
        /\ "SERVERS_RUNNING" \in events' => "SERVERS_RUNNING" \in events
        /\ \A x : In(x, cmdq') <=> In(x, cmdq) \/ (cmdq' # cmdq /\ x = "DNS_ERROR")
    BY <1>3, DnsFrame
  <2>2. In("STOP", cmdq) => In("STOP", cmdq')
    BY <2>1
  <2>3. StopComing
    BY <2>1 DEF StopFollows, Running, Opening
  <2> QED
    BY <2>1, <2>2, <2>3
<1>4. CASE Receive
  <2>1. In("STOP", cmdq) <=> ocmd' = "STOP" \/ In("STOP", cmdq')
    BY <1>0, <1>4, InRest DEF Receive
  <2>2. StopComing
    BY <1>4 DEF Receive, wifiVars, StopFollows, Running, Opening
  <2> QED
    BY <1>4, <2>1, <2>2 DEF Receive, wifiVars
<1>5. CASE ReceiveTimeout \/ Finish
  <2>1. /\ UNCHANGED <<events, clients, evq, hpc, cmdq>> /\ "SHUTDOWN" \notin events
        /\ opc = "finish"
    BY <1>5 DEF ReceiveTimeout, Finish, wifiVars
  <2>2. StopComing
    BY <1>5, <2>1 DEF Finish, ReceiveTimeout, StopFollows, Running, Opening
  <2> QED
    BY <2>1, <2>2
<1>6. CASE BeginStart \/ BeginDnsError \/ BeginShutdown
  <2>1. UNCHANGED <<events, clients, evq, hpc, cmdq, ocmd>> /\ opc = "begin" /\ ocmd # "STOP"
    BY <1>6 DEF BeginStart, BeginDnsError, BeginShutdown, OrchGoto, wifiVars
  <2>2. Running
    BY <1>6, <2>1 DEF BeginStart, BeginDnsError, BeginShutdown, OrchGoto, Running, Opening
  <2> QED
    BY <2>1, <2>2 DEF StopFollows
<1>7. CASE BeginStop
  BY <1>7 DEF BeginStop, OrchGoto, wifiVars, Running, Opening
<1>8. CASE SetRunning \/ ClearRunning \/ Exit
  <2>1. UNCHANGED <<clients, evq, hpc, cmdq, ocmd>>
    BY <1>8 DEF SetRunning, ClearRunning, Exit, wifiVars
  <2>2. opc # "clear_running"
    BY <1>8 DEF SetRunning, ClearRunning, Exit, Running, Opening
  <2> QED
    BY <1>8, <2>1, <2>2 DEF SetRunning, ClearRunning, Exit, StopFollows, Running, Opening
<1>9. CASE StartDns \/ StartWeb
  <2>1. UNCHANGED <<clients, evq, hpc, cmdq, ocmd>>
    BY <1>9 DEF StartDns, StartWeb, wifiVars
  <2> QED
    BY <1>9, <2>1 DEF StartDns, StartWeb, AfterStartDns, StopFollows, Running, Opening
<1>10. CASE StopDns \/ TakeSocket \/ WaitStopped \/ CloseSocket
  <2>1. UNCHANGED <<clients, evq, hpc, cmdq, ocmd>>
    BY <1>10 DEF StopDns, TakeSocket, WaitStopped, CloseSocket, wifiVars
  <2> QED
    BY <1>10, <2>1 DEF StopDns, TakeSocket, WaitStopped, CloseSocket, AfterStopDns, StopFollows, Running, Opening
<1>11. CASE StopWeb \/ JoinWeb
  <2>1. UNCHANGED <<clients, evq, hpc, cmdq, ocmd, events>>
    BY <1>11 DEF StopWeb, JoinWeb, wifiVars
  <2> QED
    BY <1>11, <2>1 DEF StopWeb, JoinWeb, AfterStopWeb, StopFollows, Running, Opening
<1> QED
  BY NextCases, <1>1, <1>2, <1>3, <1>4, <1>5, <1>6, <1>7, <1>8, <1>9, <1>10, <1>11

(* When nothing is pending and no station is left, the servers are off, in   *)
(* every order of arrivals, departures, failures and commands - unless the   *)
(* station list or the send of a command fails.                              *)
THEOREM NoServerForNobody ==
  ASSUME Faults \cap {"list", "send"} = {}
  PROVE  Spec => []NoIdleServer
<1> DEFINE Inv == TypeOK /\ LifecycleInv /\ ShutdownTold /\ StopFollows
<1>1. Init => Inv
  <2>1. Init => ShutdownTold /\ StopFollows
    BY InEmpty DEF Init, ShutdownTold, StopFollows, Running, Opening
  <2> QED
    BY <2>1, TypeInit, InvInit
<1>2. Inv /\ [Next]_vars => Inv'
  <2>1. TypeOK /\ LifecycleInv /\ [Next]_vars => (TypeOK /\ LifecycleInv)'
    BY TypeStep, TaskStep, SocketStep, StageStep DEF LifecycleInv
  <2> QED
    BY <2>1, ShutdownStep, FollowStep
<1>3. Inv => NoIdleServer
  BY InEmpty DEF NoIdleServer, Quiet, StopFollows, StopComing, Running
<1> QED
  BY <1>1, <1>2, <1>3, PTL DEF Spec
===============================================================================
