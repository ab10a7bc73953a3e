----------------------------- MODULE HttpServer -----------------------------
(***************************************************************************)
(* The core of the HTTP server library: its task's select loop, the table  *)
(* of sessions, the purge of the least recently used one, the control      *)
(* socket with the semaphore that bounds it, the API that other tasks call *)
(* (httpd_queue_work, httpd_sess_trigger_close, asynchronous requests) and *)
(* httpd_start/httpd_stop.  Source: components/esp_http_server/src,        *)
(* httpd_main.c, httpd_sess.c, util/ctrl_sock.c and the asynchronous       *)
(* requests of httpd_txrx.c.                                               *)
(*                                                                         *)
(* Abstracted: a request is read whole and its handler answers it, fails,  *)
(* or does one of the things of ApiUses; nothing is left pending in a      *)
(* session's buffer; contexts, events and socket options; select() does    *)
(* not fail.  A descriptor is the connection it stands for.                *)
(***************************************************************************)
EXTENDS Integers, Sequences, FiniteSets, SequencesExt

CONSTANTS
  Conns,      \* connections clients may have
  NoConn,     \* a session's fd of -1
  Workers,    \* other tasks that call the API
  MboxSize,   \* CONFIG_LWIP_UDP_RECVMBOX_SIZE
  Configs,    \* builds and uses of the library to look at
  MaxLru,     \* bound: no request is sent once hd->lru_counter is this
  Backlog     \* bound: connections that wait to be accepted

(* work, close: httpd_queue_work and httpd_sess_trigger_close by a worker.  *)
(* self: a handler calls httpd_sess_trigger_close on its own session.       *)
(* async: a handler hands its request to a worker.                          *)
ApiUses == {"work", "close", "self", "async"}

(* send: sendto() on the control socket fails; accept: accept(), or setting *)
(* an option of the new socket, fails.                                      *)
ServerFaults == {"send", "accept"}

(* slots: hd->config.max_open_sockets; lru_purge: ....lru_purge_enable;     *)
(* blocking: CONFIG_HTTPD_QUEUE_WORK_BLOCKING.                              *)
Config == [slots : Nat \ {0}, lru_purge : BOOLEAN, blocking : BOOLEAN,
           uses : SUBSET ApiUses, faults : SUBSET ServerFaults]

(* The sockets of the server itself, beside the sessions'. *)
Listen == "listen"
Ctrl == "ctrl"

ASSUME HttpServerAssumption ==
  /\ NoConn \notin Conns /\ {Listen, Ctrl} \cap (Conns \cup {NoConn}) = {}
  /\ IsFiniteSet(Workers)
  /\ MboxSize \in Nat \ {0} /\ MaxLru \in Nat /\ Backlog \in Nat
  /\ Configs \subseteq Config

VARIABLES
  status,    \* hd->hd_td.status; "off": no instance
  config,    \* the build and use, fixed
  sem,       \* hd->ctrl_sock_semaphore
  mbox,      \* datagrams the control socket has received
  sd,        \* hd->hd_sd, the table of sessions
  active,    \* hd->hd_sd_active_count
  lru,       \* hd->lru_counter
  backlog,   \* connections not yet accepted
  input,     \* what each connection has for us to read
  pc,        \* where httpd_thread is
  fds,       \* its fd_set: watched until select() returns, then ready
  wjob,      \* what each worker is doing
  stopper    \* where the task that calls httpd_stop is

Slots == 1 .. config.slots

(* struct httpd_ctrl_data. *)
CloseMsg(s) == [kind |-> "close", slot |-> s]  \* work is httpd_sess_close
WorkMsg == [kind |-> "work"]
DummyMsg == [kind |-> "dummy"]        \* HTTPD_CTRL_MAX
ShutdownMsg == [kind |-> "shutdown"]
NoMsg == [kind |-> "none"]

Msgs == {CloseMsg(s) : s \in Slots} \cup {WorkMsg, DummyMsg, ShutdownMsg}

(* The copy of a request that httpd_req_async_handler_begin makes. *)
Request(s, c) == [kind |-> "request", slot |-> s, conn |-> c]
Requests == {Request(s, c) : s \in Slots, c \in Conns}

ctrlVars == <<sem, mbox>>
tableVars == <<sd, active, lru>>
netVars == <<backlog, input>>
loopVars == <<pc, fds>>
vars == <<status, config, ctrlVars, tableVars, netVars, loopVars, wjob, stopper>>

Idle == [at |-> "idle", msg |-> NoMsg]
Job(at, m) == [at |-> at, msg |-> m]

Session == [fd : Conns \cup {NoConn}, lru : Nat, purge : BOOLEAN, async : BOOLEAN]

TypeOK ==
  /\ status \in {"off", "running", "stopping", "stopped"}
  /\ config \in Config
  /\ sem \in 0 .. MboxSize
  /\ mbox \in Seq(Msgs) /\ Len(mbox) <= MboxSize
  /\ sd \in [Slots -> Session]
  /\ active \in 0 .. config.slots
  /\ lru \in Nat
  /\ backlog \in Seq(Conns)
  /\ input \in [Conns -> {"none", "request", "eof"}]
  /\ pc \in {"prepare", "select", "control", "session", "queue", "exit", "gone"}
  /\ fds \subseteq Conns \cup {Listen, Ctrl}
  /\ wjob \in [Workers -> [at : {"idle", "take", "send", "async"},
                           msg : Msgs \cup Requests \cup {NoMsg}]]
  /\ stopper \in {"idle", "take", "send", "wait"}

FreeSession == [fd |-> NoConn, lru |-> 0, purge |-> FALSE, async |-> FALSE]

Open == {sd[s].fd : s \in Slots} \ {NoConn}

(* An instance just made by httpd_start, and no application call under way. *)
Init ==
  /\ config \in Configs
  /\ status = "running"
  /\ sem = MboxSize /\ mbox = <<>>
  /\ sd = [s \in Slots |-> FreeSession] /\ active = 0 /\ lru = 0
  /\ backlog = <<>> /\ input = [c \in Conns |-> "none"]
  /\ pc = "prepare" /\ fds = {}
  /\ wjob = [w \in Workers |-> Idle] /\ stopper = "idle"

-----------------------------------------------------------------------------
(* Clients. *)

(* lwIP reuses descriptors: the connection is the first that is not in use. *)
Connect ==
  /\ status = "running" /\ Len(backlog) < Backlog
  /\ Conns \ (Open \cup ToSet(backlog)) # {}
  /\ backlog' = Append(backlog, CHOOSE c \in Conns : c \notin Open \cup ToSet(backlog))
  /\ UNCHANGED input
  /\ UNCHANGED <<status, config, ctrlVars, tableVars, loopVars, wjob, stopper>>

Send(c) ==
  /\ c \in Open /\ input[c] = "none" /\ lru < MaxLru
  /\ input' = [input EXCEPT ![c] = "request"]
  /\ UNCHANGED <<status, config, ctrlVars, tableVars, backlog, loopVars, wjob, stopper>>

Hangup(c) ==
  /\ c \in Open /\ input[c] = "none"
  /\ input' = [input EXCEPT ![c] = "eof"]
  /\ UNCHANGED <<status, config, ctrlVars, tableVars, backlog, loopVars, wjob, stopper>>

-----------------------------------------------------------------------------
(* The session table. *)

FreeSlots == {s \in Slots : sd[s].fd = NoConn}

(* httpd_sess_get_free: the count first, then the first free slot. *)
Available == active # config.slots /\ FreeSlots # {}

(* Mutant: the count is left alone. *)
MutDeleteIn(table, s) ==
  IF table[s].fd = NoConn
    THEN sd' = table /\ UNCHANGED <<active, lru, input>>
    ELSE /\ sd' = [table EXCEPT ![s].fd = NoConn]
         /\ input' = [input EXCEPT ![table[s].fd] = "none"]
         /\ UNCHANGED <<active, lru>>

(* httpd_sess_delete: closes the connection and frees the slot, whose other *)
(* fields stay.                                                             *)
DeleteIn(table, s) ==
  IF table[s].fd = NoConn
    THEN sd' = table /\ UNCHANGED <<active, lru, input>>
    ELSE /\ sd' = [table EXCEPT ![s].fd = NoConn]
         /\ input' = [input EXCEPT ![table[s].fd] = "none"]
         /\ active' = active - 1
         /\ lru' = IF active = 1 THEN 0 ELSE lru

Delete(s) == DeleteIn(sd, s)

(* Mutant: asynchronous use does not matter. *)
MutPurgeable == {s \in Slots : sd[s].fd # NoConn}

(* The sessions httpd_sess_close_lru may choose: the first of those that    *)
(* were used longest ago, among those not in asynchronous use.              *)
Purgeable == {s \in Slots : sd[s].fd # NoConn /\ ~sd[s].async}

Oldest ==
  CHOOSE s \in Purgeable : \A q \in Purgeable :
    sd[s].lru < sd[q].lru \/ (sd[s].lru = sd[q].lru /\ s <= q)

(* session->lru_socket = true *)
Mark(s) == sd' = [sd EXCEPT ![s].purge = TRUE]

-----------------------------------------------------------------------------
(* The control socket. *)

(* sendto: lwIP silently drops what its mailbox has no room for. *)
Post(m) == mbox' = IF Len(mbox) < MboxSize THEN Append(mbox, m) ELSE mbox

(* httpd_queue_work called by the server's own task, not waiting. *)
QueueNow(m) ==
  \/ sem > 0 /\ sem' = sem - 1 /\ Post(m)
  \/ (sem = 0 \/ "send" \in config.faults) /\ UNCHANGED ctrlVars

-----------------------------------------------------------------------------
(* httpd_thread. *)

Rest == <<status, config, wjob, stopper>>

(* httpd_server: what select() shall watch. *)
Prepare ==
  /\ pc = "prepare"
  /\ fds' = {Ctrl} \cup (IF config.lru_purge \/ Available THEN {Listen} ELSE {})
                   \cup {sd[s].fd : s \in Purgeable}
  /\ pc' = "select"
  /\ UNCHANGED <<Rest, ctrlVars, tableVars, netVars>>

Ready ==
  {c \in fds \cap Conns : input[c] # "none"}
    \cup (IF mbox # <<>> THEN {Ctrl} ELSE {})
    \cup (IF backlog # <<>> THEN fds \cap {Listen} ELSE {})

Select ==
  /\ pc = "select" /\ Ready # {}
  /\ fds' = Ready
  /\ pc' = IF Ctrl \in Ready THEN "control" ELSE "session"
  /\ UNCHANGED <<Rest, ctrlVars, tableVars, netVars>>

(* httpd_sess_close: a slot that was never used nor marked is skipped.      *)
CloseWork(s) ==
  IF sd[s].lru = 0 /\ ~sd[s].purge
    THEN UNCHANGED <<tableVars, input>>
    ELSE DeleteIn([sd EXCEPT ![s].purge = FALSE], s)

GiveDrained(msg) == sem' = sem + 1

(* httpd_process_ctrl_msg: recv(), the work, the semaphore is given.  Until *)
(* then others only count on the semaphore, so this is one step.            *)
CtrlProcess ==
  /\ pc = "control"
  /\ mbox' = Tail(mbox)
  /\ LET msg == Head(mbox) IN
       /\ IF msg.kind = "close" THEN CloseWork(msg.slot) ELSE UNCHANGED <<tableVars, input>>
       /\ status' = IF msg = ShutdownMsg THEN "stopping" ELSE status
       /\ pc' = IF msg = ShutdownMsg THEN "exit" ELSE "session"
       /\ GiveDrained(msg)
  /\ UNCHANGED <<config, wjob, stopper, backlog, fds>>

(* The sessions that are still to be processed, in the order of the table.  *)
(* fds has none in asynchronous use: only this task makes them so.          *)
ToProcess == {s \in Slots : sd[s].fd \in fds}
Current == CHOOSE s \in ToProcess : \A q \in ToProcess : s <= q
Conn == sd[Current].fd

(* httpd_sess_process after the handler: for_async_req is a, the session is *)
(* the most recently used one.                                              *)
Served(a) ==
  /\ input' = [input EXCEPT ![Conn] = "none"]
  /\ sd' = [sd EXCEPT ![Current].lru = lru + 1, ![Current].async = a]
  /\ lru' = lru + 1
  /\ pc' = "session" /\ fds' = fds \ {Conn}
  /\ UNCHANGED <<status, config, stopper, active, backlog>>

Requested == pc = "session" /\ ToProcess # {} /\ input[Conn] = "request"

Serve == Requested /\ Served(FALSE) /\ UNCHANGED <<wjob, ctrlVars>>

(* The handler hands the request over.  An application does so only to a    *)
(* task that is free, and not once it stops the server.                     *)
ServeAsync(w) ==
  /\ "async" \in config.uses /\ stopper = "idle" /\ wjob[w] = Idle
  /\ Requested /\ Served(TRUE)
  /\ wjob' = [wjob EXCEPT ![w] = Job("async", Request(Current, Conn))]
  /\ UNCHANGED ctrlVars

(* The handler calls httpd_sess_trigger_close ...                           *)
ServeSelf ==
  /\ "self" \in config.uses /\ Requested
  /\ pc' = "queue"
  /\ UNCHANGED <<Rest, ctrlVars, tableVars, netVars, fds>>

(* ... which reserves a place in the mailbox, waiting for one if blocking,  *)
(* and returns.                                                             *)
QueueSelf ==
  /\ pc = "queue" /\ (config.blocking => sem > 0)
  /\ QueueNow(CloseMsg(Current)) /\ Served(FALSE) /\ UNCHANGED wjob

(* The handler failed, or the client has closed the connection.             *)
EndSession ==
  /\ pc = "session" /\ ToProcess # {}
  /\ Delete(Current) /\ fds' = fds \ {Conn}
  /\ UNCHANGED <<Rest, ctrlVars, backlog, pc>>

(* All sessions have been looked at; the listening socket is ready, or not. *)
Looked(listen) ==
  /\ pc = "session" /\ ToProcess = {} /\ (Listen \in fds <=> listen)
  /\ pc' = "prepare" /\ fds' = {}
  /\ UNCHANGED Rest

NoAccept == Looked(FALSE) /\ UNCHANGED <<ctrlVars, tableVars, netVars>>

(* httpd_accept_conn with a full table: a session is purged, at once or by  *)
(* way of the control socket; the connection stays in the backlog.          *)
MustPurge == config.lru_purge /\ ~Available

Purge ==
  /\ Looked(TRUE) /\ MustPurge
  /\ IF Purgeable = {} THEN UNCHANGED <<ctrlVars, tableVars, input>>
     ELSE IF config.blocking THEN Delete(Oldest) /\ UNCHANGED ctrlVars
     ELSE Mark(Oldest) /\ QueueNow(CloseMsg(Oldest)) /\ UNCHANGED <<active, lru, input>>
  /\ UNCHANGED backlog

FirstFree == CHOOSE s \in FreeSlots : \A q \in FreeSlots : s <= q

Accept ==
  /\ Looked(TRUE) /\ ~MustPurge
  /\ backlog' = Tail(backlog)
  /\ \/ /\ sd' = [sd EXCEPT ![FirstFree] =
               [fd |-> Head(backlog), lru |-> lru, purge |-> FALSE, async |-> FALSE]]
        /\ active' = active + 1
        /\ UNCHANGED <<lru, input>>
     \/ /\ "accept" \in config.faults
        /\ input' = [input EXCEPT ![Head(backlog)] = "none"]
        /\ UNCHANGED tableVars
  /\ UNCHANGED ctrlVars

(* The thread's end: the sockets and all sessions are closed.               *)
Exit ==
  /\ pc = "exit" /\ fds' = {}
  /\ mbox' = <<>>
  /\ sd' = [s \in Slots |-> [sd[s] EXCEPT !.fd = NoConn]] /\ active' = 0 /\ lru' = 0
  /\ backlog' = <<>> /\ input' = [c \in Conns |-> "none"]
  /\ status' = "stopped" /\ pc' = "gone"
  /\ UNCHANGED <<config, sem, wjob, stopper>>

-----------------------------------------------------------------------------
(* Other tasks. *)

Set(w, job) == wjob' = [wjob EXCEPT ![w] = job]

CallRest == <<status, config, tableVars, netVars, loopVars, stopper>>

(* httpd_queue_work, httpd_sess_trigger_close (which looks the session up   *)
(* first): an application does not call them once it stops the server.      *)
Call(w) ==
  /\ wjob[w] = Idle /\ stopper = "idle" /\ status = "running"
  /\ \/ "work" \in config.uses /\ Set(w, Job("take", WorkMsg))
     \/ /\ "close" \in config.uses
        /\ \E s \in Slots \ FreeSlots : Set(w, Job("take", CloseMsg(s)))
  /\ UNCHANGED <<CallRest, ctrlVars>>

Take(w) ==
  /\ wjob[w].at = "take" /\ sem > 0
  /\ sem' = sem - 1
  /\ Set(w, [wjob[w] EXCEPT !.at = "send"])
  /\ UNCHANGED <<CallRest, mbox>>

(* Without a place httpd_queue_work gives up, unless it is built to wait;   *)
(* the end of an asynchronous request always waits.                         *)
TakeFails(w) ==
  /\ wjob[w].at = "take" /\ sem = 0
  /\ ~config.blocking /\ wjob[w].msg # DummyMsg
  /\ Set(w, Idle)
  /\ UNCHANGED <<CallRest, ctrlVars>>

SendMsg(w) ==
  /\ wjob[w].at = "send"
  /\ Post(wjob[w].msg) /\ Set(w, Idle)
  /\ UNCHANGED <<CallRest, sem>>

SendFails(w) ==
  /\ wjob[w].at = "send" /\ "send" \in config.faults
  /\ sem' = sem + 1 /\ Set(w, Idle)
  /\ UNCHANGED <<CallRest, mbox>>

(* Mutant: select() is not woken up. *)
MutComplete(w) ==
  /\ wjob[w].at = "async"
  /\ sd' = [sd EXCEPT ![wjob[w].msg.slot].async = FALSE]
  /\ Set(w, Idle)
  /\ UNCHANGED <<status, config, ctrlVars, active, lru, netVars, loopVars, stopper>>

(* httpd_req_async_handler_complete: the session is watched again, which    *)
(* takes a message that does nothing but wake the server up.                *)
Complete(w) ==
  /\ wjob[w].at = "async"
  /\ sd' = [sd EXCEPT ![wjob[w].msg.slot].async = FALSE]
  /\ Set(w, Job("take", DummyMsg))
  /\ UNCHANGED <<status, config, ctrlVars, active, lru, netVars, loopVars, stopper>>

-----------------------------------------------------------------------------
(* httpd_stop, and httpd_start afterwards. *)

StopRest == <<config, tableVars, netVars, loopVars, wjob>>

StopBegins ==
  /\ stopper = "idle" /\ status = "running" /\ \A w \in Workers : wjob[w] = Idle
  /\ stopper' = "take"
  /\ UNCHANGED <<StopRest, status, ctrlVars>>

StopTakes ==
  /\ stopper = "take" /\ sem > 0
  /\ sem' = sem - 1 /\ stopper' = "send"
  /\ UNCHANGED <<StopRest, status, mbox>>

StopSends ==
  /\ stopper = "send"
  /\ Post(ShutdownMsg) /\ stopper' = "wait"
  /\ UNCHANGED <<StopRest, status, sem>>

StopSendFails ==
  /\ stopper = "send" /\ "send" \in config.faults
  /\ sem' = sem + 1 /\ stopper' = "idle"
  /\ UNCHANGED <<StopRest, status, mbox>>

StopDeletes ==
  /\ stopper = "wait" /\ status = "stopped"
  /\ status' = "off" /\ stopper' = "idle"
  /\ UNCHANGED <<StopRest, ctrlVars>>

Start ==
  /\ status = "off"
  /\ status' = "running" /\ sem' = MboxSize
  /\ sd' = [s \in Slots |-> FreeSession]
  /\ pc' = "prepare" /\ fds' = {}
  /\ UNCHANGED <<config, mbox, active, lru, netVars, wjob, stopper>>

-----------------------------------------------------------------------------
Httpd ==
  \/ Prepare \/ Select \/ CtrlProcess
  \/ Serve \/ ServeSelf \/ QueueSelf \/ EndSession
  \/ NoAccept \/ Purge \/ Accept \/ Exit
  \/ \E w \in Workers : ServeAsync(w)

Worker(w) == Take(w) \/ TakeFails(w) \/ SendMsg(w) \/ SendFails(w) \/ Complete(w)

Stopper == StopTakes \/ StopSends \/ StopSendFails \/ StopDeletes

Next ==
  \/ Httpd \/ Stopper \/ StopBegins \/ Start \/ Connect
  \/ \E w \in Workers : Worker(w) \/ Call(w)
  \/ \E c \in Conns : Send(c) \/ Hangup(c)

Spec == Init /\ [][Next]_vars

(* Every task goes on while it can; one that waits for the semaphore gets   *)
(* it if it is given again and again.                                       *)
FairSpec ==
  /\ Spec
  /\ WF_vars(Httpd)
  /\ WF_vars(Stopper) /\ SF_vars(StopTakes)
  /\ \A w \in Workers : WF_vars(Worker(w)) /\ SF_vars(Take(w))

-----------------------------------------------------------------------------
(* Properties. *)

(* The semaphore counts the free places of the control socket's mailbox:    *)
(* every place is free, reserved by a sender or held by a datagram.  So no  *)
(* datagram is dropped and no sender is kept waiting for nothing: it        *)
(* "bounds the producer to the mbox capacity" (httpd_start).                *)
Senders == {w \in Workers : wjob[w].at = "send"}

PlacesAccounted ==
  status # "stopped" /\ status # "off" =>
    sem + Len(mbox) + Cardinality(Senders) + (IF stopper = "send" THEN 1 ELSE 0) = MboxSize

(* The count that decides whether connections are accepted is that of the   *)
(* sessions in the table, of which no two have the same connection, and     *)
(* none one that still waits to be accepted.                                *)
SessionsCounted ==
  /\ active = Cardinality(Slots \ FreeSlots) /\ active = Cardinality(Open)
  /\ Open \cap ToSet(backlog) = {}

(* A task that answers a request asynchronously has its session until it    *)
(* says that it is done, when nobody calls httpd_sess_trigger_close and     *)
(* sessions are not purged by way of the control socket.                    *)
AsyncKept ==
  (/\ config.uses \cap {"close", "self"} = {}
   /\ config.lru_purge => config.blocking) =>
    \A w \in Workers : wjob[w].at = "async" =>
      LET s == sd[wjob[w].msg.slot] IN s.fd = wjob[w].msg.conn /\ s.async

(* httpd_stop returns: "Blocking is safe: the httpd task is the consumer    *)
(* and keeps draining the mbox until it observes HTTPD_CTRL_SHUTDOWN".      *)
StopReturns == []<>(stopper = "idle")

(* What a client sends is read, or its connection closed, also after an     *)
(* asynchronous request on it, unless the wake-up could not be sent.        *)
RequestServed ==
  \A c \in Conns :
    []<>(input[c] = "none" \/ c \notin Open \/ "send" \in config.faults)

(* With lru_purge_enable connections are accepted although the table is     *)
(* full: the backlog does not stay full.  It may if the application keeps   *)
(* the control socket or all the sessions busy for ever.                    *)
BusyForEver == config.uses \cap {"work", "async"} # {} \/ "send" \in config.faults

ConnAccepted ==
  []<>(Len(backlog) < Backlog \/ ~config.lru_purge \/ BusyForEver)

(* Places in the mailbox and sessions in the table are neither lost nor made *)
(* up, however senders, the server and a stop interleave.                    *)
Accounted == TypeOK /\ PlacesAccounted /\ SessionsCounted

(* Nothing that waits for the server task waits for ever: httpd_stop, what a *)
(* client sent, a connection in the backlog.                                 *)
NobodyStarves == StopReturns /\ RequestServed /\ ConnAccepted
=============================================================================
