-------------------------- MODULE HttpServer_proofs --------------------------
(***************************************************************************)
(* Proofs about the core of the HTTP server, for any connections, workers, *)
(* capacity of the control socket, size of the table and build.            *)
(*                                                                         *)
(* The inductive invariant has one part per thing that the parts of the    *)
(* server rely on: what a worker may hold (Jobs), how far a stop can be    *)
(* (Stops), what the loop knows at each of its points (Loop), the table    *)
(* against its count and the backlog (Table), and who has a session while  *)
(* it is in asynchronous use (Async).                                      *)
(***************************************************************************)
EXTENDS HttpServer, FiniteSetTheorems, Induction, TLAPS


USE DEF vars, ctrlVars, tableVars, netVars, loopVars, Rest, CallRest, StopRest

(* A worker that is about to send holds a message, and never the shutdown;  *)
(* one that answers a request holds the request.                            *)
Jobs ==
  \A w \in Workers :
    /\ wjob[w].at = "idle" => wjob[w] = Idle
    /\ wjob[w].at \in {"take", "send"} => wjob[w].msg \in Msgs \ {ShutdownMsg}
    /\ wjob[w].at = "async" => wjob[w].msg \in Requests

Halted == status \in {"stopped", "off"}

(* A stop in progress: nobody else calls, and the shutdown message is only  *)
(* there once its sender waits.  After the thread's end nothing is left.    *)
Stops ==
  /\ pc = "exit" <=> status = "stopping"
  /\ pc = "gone" <=> Halted
  /\ status \in {"stopping", "stopped"} => stopper = "wait"
  /\ status = "off" => stopper = "idle"
  /\ stopper # "idle" \/ Halted => \A w \in Workers : wjob[w] = Idle
  /\ \A i \in 1 .. Len(mbox) : mbox[i] = ShutdownMsg => stopper = "wait"
  /\ Halted => /\ mbox = <<>> /\ backlog = <<>> /\ active = 0 /\ fds = {}
               /\ \A s \in Slots : sd[s].fd = NoConn

(* The loop: a control socket that was ready still has its datagram, the    *)
(* handler that queues still has its session, and a listening socket that   *)
(* was ready still has its connection and, without purging, a free slot.    *)
Loop ==
  /\ pc = "control" => mbox # <<>>
  /\ pc = "queue" => ToProcess # {} /\ "self" \in config.uses
  /\ pc \in {"control", "session", "queue"} /\ Listen \in fds => backlog # <<>>
  /\ pc \in {"select", "control", "session", "queue"} /\ Listen \in fds =>
       config.lru_purge \/ Available

(* No connection is in two places. *)
Distinct ==
  /\ \A s, q \in Slots : sd[s].fd = sd[q].fd /\ sd[s].fd # NoConn => s = q
  /\ \A i, j \in 1 .. Len(backlog) : backlog[i] = backlog[j] => i = j

Table == Distinct /\ SessionsCounted

(* A build and use in which only the server's own task closes sessions, and *)
(* at once.                                                                 *)
OnlyTaskCloses ==
  /\ config.uses \cap {"close", "self"} = {}
  /\ config.lru_purge => config.blocking

Closes(m) == \E s \in Slots : m = CloseMsg(s)

(* select() does not watch a session in asynchronous use; no message closes *)
(* a session; every request being answered has a session of its own.        *)
Async ==
  /\ \A s \in Slots : sd[s].async => sd[s].fd \notin fds
  /\ OnlyTaskCloses =>
       /\ \A i \in 1 .. Len(mbox) : ~Closes(mbox[i])
       /\ \A w \in Workers : wjob[w].at \in {"take", "send"} => ~Closes(wjob[w].msg)
       /\ \A w, v \in Workers :
            wjob[w].at = "async" /\ wjob[v].at = "async"
              /\ wjob[w].msg.slot = wjob[v].msg.slot => w = v

IInv == TypeOK /\ Jobs /\ Stops /\ Loop /\ Table /\ PlacesAccounted /\ Async /\ AsyncKept
-----------------------------------------------------------------------------
(* The operators of the model. *)

LEMMA SlotFacts ==
  ASSUME TypeOK
  PROVE  /\ config.slots \in Nat \ {0} /\ Slots \subseteq Nat
         /\ IsFiniteSet(Slots) /\ Cardinality(Slots) = config.slots
         /\ config' = config => Slots' = Slots /\ Msgs' = Msgs /\ Requests' = Requests
<1>1. config.slots \in Nat \ {0}
  BY DEF TypeOK, Config
<1>2. IsFiniteSet(Slots) /\ Cardinality(Slots) = config.slots
  BY <1>1, FS_Interval DEF Slots
<1> QED
  BY <1>1, <1>2 DEF Slots, Msgs, Requests, CloseMsg, Request

LEMMA MessagesDiffer ==
  /\ Idle.at = "idle" /\ Idle.msg = NoMsg
  /\ \A s : CloseMsg(s).kind = "close" /\ CloseMsg(s).slot = s
  /\ WorkMsg.kind = "work" /\ DummyMsg.kind = "dummy"
  /\ ShutdownMsg.kind = "shutdown" /\ NoMsg.kind = "none"
  /\ \A s, c : Request(s, c).slot = s /\ Request(s, c).conn = c
  BY DEF Idle, CloseMsg, WorkMsg, DummyMsg, ShutdownMsg, NoMsg, Request

(* The session being processed is one that select() found ready. *)
LEMMA CurrentFacts ==
  ASSUME TypeOK, ToProcess # {}
  PROVE  /\ Current \in Slots /\ Conn = sd[Current].fd /\ Conn \in fds
         /\ Conn \in Conns /\ Conn # NoConn /\ sd[Current].fd # NoConn
<1>1. \E m \in ToProcess : \A n \in ToProcess : m <= n
  BY LeastExists, SlotFacts DEF ToProcess
<1>2. Current \in ToProcess
  BY <1>1 DEF Current
<1>3. sd[Current] \in Session
  BY <1>2 DEF ToProcess, TypeOK
<1> QED
  BY <1>2, <1>3, HttpServerAssumption DEF Conn, ToProcess, Session, TypeOK

(* The session to be purged is one of those that may be. *)
LEMMA OldestFacts ==
  ASSUME TypeOK, Purgeable # {}
  PROVE  Oldest \in Purgeable
<1> DEFINE Used == {sd[s].lru : s \in Purgeable}
<1>1. Used \subseteq Nat /\ Used # {}
  <2>1. \A s \in Purgeable : sd[s].lru \in Nat
    BY DEF Purgeable, TypeOK, Session
  <2> QED
    BY <2>1
<1>2. PICK m \in Used : \A n \in Used : m <= n
  BY <1>1, LeastExists
<1> DEFINE Firsts == {s \in Purgeable : sd[s].lru = m}
<1>3. Firsts \subseteq Nat /\ Firsts # {}
  BY <1>2, SlotFacts DEF Purgeable
<1>4. PICK f \in Firsts : \A n \in Firsts : f <= n
  BY <1>3, LeastExists
<1>5. ASSUME NEW q \in Purgeable
      PROVE  sd[f].lru < sd[q].lru \/ (sd[f].lru = sd[q].lru /\ f <= q)
  <2>1. m <= sd[q].lru /\ sd[f].lru = m
    BY <1>2
  <2>2. sd[q].lru = m => f <= q
    BY <1>4
  <2>3. m \in Nat /\ sd[q].lru \in Nat
    BY <1>1, <1>2
  <2> QED
    BY <2>1, <2>2, <2>3
<1>6. f \in Purgeable
  OBVIOUS
<1> QED
  BY <1>5, <1>6 DEF Oldest

LEMMA FirstFreeFacts ==
  ASSUME TypeOK, FreeSlots # {}
  PROVE  FirstFree \in FreeSlots
<1>1. \E m \in FreeSlots : \A n \in FreeSlots : m <= n
  BY LeastExists, SlotFacts DEF FreeSlots
<1> QED
  BY <1>1 DEF FirstFree

(* Taking a datagram away or adding one. *)
LEMMA MailFacts ==
  ASSUME TypeOK, NEW m \in Msgs, Post(m)
  PROVE  /\ mbox' \in Seq(Msgs) /\ Len(mbox') <= MboxSize
         /\ Len(mbox) < MboxSize => Len(mbox') = Len(mbox) + 1
         /\ Len(mbox') >= Len(mbox)
         /\ \A i \in 1 .. Len(mbox') : mbox'[i] = m \/ \E j \in 1 .. Len(mbox) : mbox'[i] = mbox[j]
  BY HttpServerAssumption DEF TypeOK, Post


(* What a step may do to who has which connection: nothing, one more in the *)
(* backlog, one session less, the first of the backlog in a session or      *)
(* closed, or an empty table.                                               *)
Same == active' = active /\ \A s \in Slots : sd'[s].fd = sd[s].fd

Freed(s) ==
  /\ sd[s].fd # NoConn /\ sd'[s].fd = NoConn /\ active' = active - 1
  /\ \A q \in Slots \ {s} : sd'[q].fd = sd[q].fd

Taken(s) ==
  /\ sd[s].fd = NoConn /\ sd'[s].fd = Head(backlog) /\ active' = active + 1
  /\ active # config.slots
  /\ \A q \in Slots \ {s} : sd'[q].fd = sd[q].fd

Emptied == active' = 0 /\ backlog' = <<>> /\ \A s \in Slots : sd'[s].fd = NoConn

Moves ==
  \/ Same /\ backlog' = backlog
  \/ Same /\ \E c \in Conns \ (Open \cup ToSet(backlog)) : backlog' = Append(backlog, c)
  \/ (\E s \in Slots : Freed(s)) /\ backlog' = backlog
  \/ (Same \/ \E s \in Slots : Taken(s)) /\ backlog # <<>> /\ backlog' = Tail(backlog)
  \/ Emptied

(* What the server changes in its table of sessions leaves it one. *)
LEMMA SessionChanged ==
  ASSUME NEW S, NEW tbl \in [S -> Session], NEW s, NEW b \in BOOLEAN
  PROVE  /\ [tbl EXCEPT ![s].purge = b] \in [S -> Session]
         /\ [tbl EXCEPT ![s].async = b] \in [S -> Session]
         /\ [q \in S |-> [tbl[q] EXCEPT !.fd = NoConn]] \in [S -> Session]
<1>1. ASSUME NEW q \in S
      PROVE  /\ [tbl[q] EXCEPT !.purge = b] \in Session
             /\ [tbl[q] EXCEPT !.async = b] \in Session
             /\ [tbl[q] EXCEPT !.fd = NoConn] \in Session
  <2>1. tbl[q] \in Session
    BY <1>1
  <2> QED
    BY <2>1 DEF Session
<1> HIDE DEF Session
<1>2. [tbl EXCEPT ![s].purge = b] \in [S -> Session]
  BY <1>1
<1>3. [tbl EXCEPT ![s].async = b] \in [S -> Session]
  BY <1>1
<1>4. [q \in S |-> [tbl[q] EXCEPT !.fd = NoConn]] \in [S -> Session]
  BY <1>1
<1> QED
  BY <1>2, <1>3, <1>4

LEMMA UnmarkedFacts ==
  ASSUME TypeOK, NEW s \in Slots
  PROVE  /\ [sd EXCEPT ![s].purge = FALSE] \in [Slots -> Session]
         /\ \A q \in Slots : /\ [sd EXCEPT ![s].purge = FALSE][q].fd = sd[q].fd
                              /\ [sd EXCEPT ![s].purge = FALSE][q].async = sd[q].async
<1>1. sd \in [Slots -> Session]
  BY DEF TypeOK
<1>2. [sd EXCEPT ![s].purge = FALSE] \in [Slots -> Session]
  BY <1>1, SessionChanged
<1>3. ASSUME NEW q \in Slots
      PROVE  /\ [sd EXCEPT ![s].purge = FALSE][q].fd = sd[q].fd
             /\ [sd EXCEPT ![s].purge = FALSE][q].async = sd[q].async
  <2>1. sd[q] \in Session
    BY <1>1
  <2>2. [sd EXCEPT ![s].purge = FALSE][q] \in {sd[q], [sd[q] EXCEPT !.purge = FALSE]}
    BY <1>1
  <2> QED
    BY <2>1, <2>2 DEF Session
<1> QED
  BY <1>2, <1>3

LEMMA DeleteMoves ==
  ASSUME TypeOK, Table, NEW table \in [Slots -> Session], NEW s \in Slots, DeleteIn(table, s),
         \A q \in Slots : table[q].fd = sd[q].fd
  PROVE  /\ sd' \in [Slots -> Session] /\ active' \in 0 .. config.slots /\ lru' \in Nat
         /\ input' \in [Conns -> {"none", "request", "eof"}]
         /\ Same \/ Freed(s)
         /\ \A q \in Slots : sd'[q].async = table[q].async
<1>1. CASE table[s].fd = NoConn
  BY <1>1 DEF DeleteIn, Same, TypeOK
<1>2. CASE table[s].fd # NoConn
  <2>1. sd' = [table EXCEPT ![s].fd = NoConn]
    BY <1>2 DEF DeleteIn
  <2>2. /\ sd' \in [Slots -> Session] /\ sd'[s].fd = NoConn
        /\ \A q \in Slots \ {s} : sd'[q].fd = sd[q].fd
        /\ \A q \in Slots : sd'[q].async = table[q].async
    BY <2>1 DEF Session
  <2>3. active \in Nat \ {0}
    <3>1. s \in Slots \ FreeSlots
      BY <1>2 DEF FreeSlots
    <3>2. Slots \ FreeSlots # {} /\ IsFiniteSet(Slots \ FreeSlots)
      BY <3>1, SlotFacts, FS_Subset
    <3> QED
      BY <3>2, FS_EmptySet, FS_CardinalityType DEF Table, SessionsCounted
  <2>4. active' = active - 1 /\ lru' \in Nat
    BY <1>2 DEF DeleteIn, TypeOK
  <2>5. input' \in [Conns -> {"none", "request", "eof"}]
    BY <1>2 DEF DeleteIn, TypeOK
  <2> QED
    BY <1>2, <2>2, <2>3, <2>4, <2>5, SlotFacts DEF Freed, TypeOK
<1> QED
  BY <1>1, <1>2


LEMMA ServedMoves ==
  ASSUME TypeOK, ToProcess # {}, NEW a \in BOOLEAN, Served(a)
  PROVE  /\ sd' \in [Slots -> Session] /\ lru' \in Nat /\ fds' = fds \ {Conn}
         /\ input' \in [Conns -> {"none", "request", "eof"}]
         /\ Same /\ backlog' = backlog
         /\ sd'[Current].async = a /\ \A q \in Slots \ {Current} : sd'[q].async = sd[q].async
<1> DEFINE used == [sd[Current] EXCEPT !.lru = lru + 1, !.async = a]
<1>1. Current \in Slots /\ sd[Current] \in Session
  BY CurrentFacts DEF TypeOK
<1>2. sd' = [sd EXCEPT ![Current] = used]
  BY <1>1 DEF Served, TypeOK
<1>3. used \in Session /\ used.fd = sd[Current].fd /\ used.async = a
  <2>1. lru + 1 \in Nat
    BY DEF TypeOK
  <2> DEFINE renewed == [sd[Current] EXCEPT !.lru = lru + 1]
  <2>2. renewed \in Session /\ renewed.fd = sd[Current].fd
    BY <1>1, <2>1 DEF Session
  <2>3. used = [renewed EXCEPT !.async = a]
    OBVIOUS
  <2> HIDE DEF renewed
  <2>4. [renewed EXCEPT !.async = a] \in Session
    BY <2>2 DEF Session
  <2>5. [renewed EXCEPT !.async = a].fd = renewed.fd /\ [renewed EXCEPT !.async = a].async = a
    BY <2>2 DEF Session
  <2> HIDE DEF used
  <2> QED
    BY <2>2, <2>3, <2>4, <2>5
<1>4. sd' \in [Slots -> Session] /\ sd'[Current] = used /\ \A q \in Slots \ {Current} : sd'[q] = sd[q]
  BY <1>1, <1>2, <1>3 DEF TypeOK
<1>5. \A q \in Slots : sd'[q].fd = sd[q].fd
  BY <1>3, <1>4
<1>6. lru' \in Nat
  BY DEF Served, TypeOK
<1>7. input' \in [Conns -> {"none", "request", "eof"}]
  BY DEF Served, TypeOK
<1> QED
  BY <1>3, <1>4, <1>5, <1>6, <1>7 DEF Served, Same

(* Who takes a place in the control socket, and who gives one back. *)
LEMMA QueueFacts ==
  ASSUME TypeOK, NEW m \in Msgs, QueueNow(m)
  PROVE  /\ sem' \in 0 .. MboxSize /\ mbox' \in Seq(Msgs) /\ Len(mbox') <= MboxSize
         /\ Len(mbox') >= Len(mbox)
         /\ \A i \in 1 .. Len(mbox') : mbox'[i] = m \/ \E j \in 1 .. Len(mbox) : mbox'[i] = mbox[j]
         /\ Len(mbox) + sem <= MboxSize => Len(mbox') + sem' = Len(mbox) + sem
<1>1. CASE sem > 0 /\ sem' = sem - 1 /\ Post(m)
  <2>1. sem \in 0 .. MboxSize /\ MboxSize \in Nat /\ Len(mbox) \in Nat /\ Len(mbox') \in Nat
    BY <1>1, MailFacts, HttpServerAssumption DEF TypeOK
  <2>2. sem' \in 0 .. MboxSize /\ (Len(mbox) + sem <= MboxSize => Len(mbox) < MboxSize)
    BY <1>1, <2>1
  <2> QED
    BY <1>1, <2>1, <2>2, MailFacts, SMTT(30)
<1>2. CASE UNCHANGED ctrlVars
  BY <1>2 DEF TypeOK
<1> QED
  BY <1>1, <1>2 DEF QueueNow

LEMMA CloseIsMessage == ASSUME NEW s \in Slots PROVE CloseMsg(s) \in Msgs
  BY DEF Msgs

(* What a step does to the connections, by action. *)
LEMMA MovesStep == IInv /\ Next => Moves
<1> SUFFICES ASSUME IInv, Next PROVE Moves
  OBVIOUS
<1> USE DEF IInv
<1>1. CASE Prepare \/ Select \/ ServeSelf \/ NoAccept
  BY <1>1 DEF Prepare, Select, ServeSelf, NoAccept, Looked, Moves, Same
<1>2. CASE CtrlProcess
  <2>1. CASE Head(mbox).kind = "close"
    <3>1. PICK s \in Slots : Head(mbox) = CloseMsg(s)
      BY <1>2, <2>1, MessagesDiffer DEF CtrlProcess, Loop, TypeOK, Msgs
    <3>2. CloseWork(s) /\ backlog' = backlog
      BY <1>2, <2>1, <3>1, MessagesDiffer DEF CtrlProcess
    <3>3. CASE UNCHANGED <<tableVars, input>>
      BY <3>2, <3>3 DEF Moves, Same
    <3>4. CASE DeleteIn([sd EXCEPT ![s].purge = FALSE], s)
      <4>1. Same \/ Freed(s)
        BY <3>4, UnmarkedFacts, DeleteMoves
      <4> QED
        BY <3>2, <4>1 DEF Moves
    <3> QED
      BY <3>2, <3>3, <3>4 DEF CloseWork
  <2>2. CASE Head(mbox).kind # "close"
    BY <1>2, <2>2 DEF CtrlProcess, Moves, Same
  <2> QED
    BY <2>1, <2>2
<1>3. CASE Serve \/ \E w \in Workers : ServeAsync(w)
  BY <1>3, ServedMoves DEF Serve, ServeAsync, Requested, Moves
<1>4. CASE QueueSelf
  BY <1>4, ServedMoves DEF QueueSelf, Loop, Moves
<1>5. CASE EndSession
  <2>1. Same \/ Freed(Current)
    BY <1>5, CurrentFacts, DeleteMoves DEF EndSession, Delete, TypeOK
  <2> QED
    BY <1>5, <2>1, CurrentFacts DEF EndSession, Moves
<1>6. CASE Purge
  <2>1. CASE Purgeable = {}
    BY <1>6, <2>1 DEF Purge, Moves, Same
  <2>2. CASE Purgeable # {} /\ config.blocking
    <3>1. Oldest \in Slots /\ (Same \/ Freed(Oldest))
      BY <1>6, <2>2, OldestFacts, DeleteMoves DEF Purge, Delete, TypeOK, Purgeable
    <3> QED
      BY <1>6, <3>1 DEF Purge, Moves
  <2>3. CASE Purgeable # {} /\ ~config.blocking
    <3>1. sd' = [sd EXCEPT ![Oldest].purge = TRUE] /\ UNCHANGED <<active, backlog>>
      BY <1>6, <2>3 DEF Purge, Mark
    <3>2. \A s \in Slots : sd'[s].fd = sd[s].fd
      BY <3>1 DEF TypeOK, Session
    <3> QED
      BY <3>1, <3>2 DEF Moves, Same
  <2> QED
    BY <2>1, <2>2, <2>3
<1>7. CASE Accept
  <2>1. backlog # <<>> /\ backlog' = Tail(backlog) /\ Available
    BY <1>7 DEF Accept, Looked, Loop, MustPurge
  <2>2. FirstFree \in FreeSlots /\ active # config.slots
    BY <2>1, FirstFreeFacts DEF Available
  <2>3. Head(backlog) \in Conns
    BY <2>1 DEF TypeOK
  <2>4. CASE UNCHANGED tableVars
    BY <2>1, <2>4 DEF Moves, Same
  <2>5. CASE /\ sd' = [sd EXCEPT ![FirstFree] =
                    [fd |-> Head(backlog), lru |-> lru, purge |-> FALSE, async |-> FALSE]]
             /\ active' = active + 1
    <3>1. Taken(FirstFree)
      BY <2>2, <2>5 DEF Taken, FreeSlots, TypeOK
    <3> QED
      BY <2>1, <2>2, <3>1 DEF Moves, FreeSlots
  <2> QED
    BY <1>7, <2>4, <2>5 DEF Accept
<1>8. CASE Exit
  <2>1. \A s \in Slots : sd'[s].fd = NoConn
    BY <1>8 DEF Exit, TypeOK, Session
  <2> QED
    BY <1>8, <2>1 DEF Exit, Moves, Emptied
<1>9. CASE Start
  <2>1. \A s \in Slots : sd'[s].fd = NoConn
    BY <1>9 DEF Start, FreeSession
  <2> QED
    BY <1>9, <2>1 DEF Start, Moves, Emptied, Stops, Halted
<1>10. CASE Connect
  <2>1. PICK c \in Conns : c \notin Open \cup ToSet(backlog)
    BY <1>10 DEF Connect
  <2>2. (CHOOSE d \in Conns : d \notin Open \cup ToSet(backlog)) \in Conns \ (Open \cup ToSet(backlog))
    BY <2>1
  <2> QED
    BY <1>10, <2>2 DEF Connect, Moves, Same
<1>11. CASE Stopper \/ StopBegins
  BY <1>11 DEF Stopper, StopBegins, StopTakes, StopSends, StopSendFails, StopDeletes, Moves, Same
<1>12. ASSUME NEW w \in Workers, Worker(w) \/ Call(w) PROVE Moves
  <2>1. CASE Complete(w)
    <3>1. sd' = [sd EXCEPT ![wjob[w].msg.slot].async = FALSE] /\ UNCHANGED <<active, backlog>>
      BY <2>1 DEF Complete
    <3>2. \A s \in Slots : sd'[s].fd = sd[s].fd
      BY <3>1 DEF TypeOK, Session
    <3> QED
      BY <3>1, <3>2 DEF Moves, Same
  <2>2. CASE ~Complete(w)
    BY <1>12, <2>2 DEF Worker, Call, Take, TakeFails, SendMsg, SendFails, Moves, Same
  <2> QED
    BY <2>1, <2>2
<1>13. ASSUME NEW c \in Conns, Send(c) \/ Hangup(c) PROVE Moves
  BY <1>13 DEF Send, Hangup, Moves, Same
<1> QED
  BY <1>1, <1>2, <1>3, <1>4, <1>5, <1>6, <1>7, <1>8, <1>9, <1>10, <1>11, <1>12, <1>13 DEF Next, Httpd


(* How many places are left before a step that gives one back. *)
LEMMA PlacesLeft ==
  ASSUME TypeOK, PlacesAccounted, ~Halted
  PROVE  /\ sem + Len(mbox) <= MboxSize
         /\ stopper = "send" => sem + Len(mbox) < MboxSize
         /\ Senders # {} => sem + Len(mbox) < MboxSize
<1>1. IsFiniteSet(Senders) /\ Cardinality(Senders) \in Nat
  BY HttpServerAssumption, FS_Subset, FS_CardinalityType DEF Senders
<1>2. Senders # {} => Cardinality(Senders) # 0
  BY <1>1, FS_EmptySet
<1> QED
  BY <1>1, <1>2, HttpServerAssumption DEF PlacesAccounted, TypeOK, Halted

(* A build stays what it is. *)
LEMMA ConfigKept == Next => config' = config
  BY DEF Next, Httpd, Stopper, Worker, Prepare, Select, CtrlProcess, Serve, ServeAsync, Served,
         ServeSelf, QueueSelf, EndSession, NoAccept, Purge, Accept, Looked, Exit, StopBegins,
         StopTakes, StopSends, StopSendFails, StopDeletes, Start, Connect, Send, Hangup, Call,
         Take, TakeFails, SendMsg, SendFails, Complete

(* Every step keeps every variable in its type, and what a worker holds in  *)
(* that of what it is doing.                                                *)
LEMMA TypeStep == IInv /\ Next => TypeOK' /\ Jobs'
<1> SUFFICES ASSUME IInv, Next PROVE TypeOK' /\ Jobs'
  OBVIOUS
<1>0. TypeOK /\ Jobs /\ Table
  BY DEF IInv
<1> USE <1>0
<1>a. config' = config /\ Slots' = Slots /\ Msgs' = Msgs /\ Requests' = Requests
  BY ConfigKept, SlotFacts
<1>1. CASE Prepare \/ Select \/ ServeSelf \/ NoAccept
  BY <1>1, <1>a DEF Prepare, Select, ServeSelf, NoAccept, Looked, TypeOK, Jobs, Ready, Session, Purgeable
<1>2. CASE CtrlProcess
  <2>1. mbox # <<>> /\ ~Halted
    BY <1>2 DEF CtrlProcess, IInv, Loop, Stops
  <2>2. Head(mbox) \in Msgs /\ mbox' \in Seq(Msgs) /\ Len(mbox') <= MboxSize /\ Len(mbox) > 0
    <3>1. mbox' = Tail(mbox) /\ mbox \in Seq(Msgs) /\ Len(mbox) <= MboxSize
      BY <1>2 DEF CtrlProcess, TypeOK
    <3> QED
      BY <2>1, <3>1, HttpServerAssumption
  <2>3. sem' \in 0 .. MboxSize
    BY <1>2, <2>1, <2>2, PlacesLeft, HttpServerAssumption DEF CtrlProcess, GiveDrained, IInv, TypeOK
  <2>4. /\ sd' \in [Slots -> Session] /\ active' \in 0 .. config.slots /\ lru' \in Nat
        /\ input' \in [Conns -> {"none", "request", "eof"}]
    <3>1. CASE UNCHANGED <<tableVars, input>>
      BY <3>1 DEF TypeOK
    <3>2. CASE Head(mbox).kind = "close" /\ ~UNCHANGED <<tableVars, input>>
      <4>1. PICK s \in Slots : Head(mbox) = CloseMsg(s)
        BY <2>2, <3>2, MessagesDiffer DEF Msgs
      <4>2. CloseWork(s)
        BY <1>2, <3>2, <4>1, MessagesDiffer DEF CtrlProcess
      <4> QED
        BY <3>2, <4>2, UnmarkedFacts, DeleteMoves DEF CloseWork
    <3> QED
      BY <1>2, <3>1, <3>2 DEF CtrlProcess
  <2> QED
    BY <1>2, <1>a, <2>2, <2>3, <2>4 DEF CtrlProcess, TypeOK, Jobs
<1>3. CASE Serve
  BY <1>3, <1>a, ServedMoves DEF Serve, Requested, Served, TypeOK, Jobs
<1>4. ASSUME NEW w \in Workers, ServeAsync(w) PROVE TypeOK' /\ Jobs'
  <2>1. Request(Current, Conn) \in Requests
    BY <1>4, CurrentFacts DEF ServeAsync, Requested, Requests
  <2>2. /\ wjob' = [wjob EXCEPT ![w] = Job("async", Request(Current, Conn))]
        /\ ToProcess # {} /\ Served(TRUE) /\ UNCHANGED ctrlVars
    BY <1>4 DEF ServeAsync, Requested
  <2>3. wjob' \in [Workers -> [at : {"idle", "take", "send", "async"},
                              msg : Msgs \cup Requests \cup {NoMsg}]]
    BY <2>1, <2>2 DEF Job, TypeOK
  <2> QED
    BY <1>a, <2>1, <2>2, <2>3, ServedMoves DEF Served, Job, TypeOK, Jobs
<1>5. CASE QueueSelf
  <2>1. ToProcess # {} /\ Served(FALSE) /\ QueueNow(CloseMsg(Current)) /\ UNCHANGED wjob
    BY <1>5 DEF QueueSelf, IInv, Loop
  <2> QED
    BY <1>a, <2>1, ServedMoves, QueueFacts, CurrentFacts, CloseIsMessage DEF Served, TypeOK, Jobs
<1>6. CASE EndSession
  <2>1. DeleteIn(sd, Current) /\ Current \in Slots
    BY <1>6, CurrentFacts DEF EndSession, Delete
  <2> QED
    BY <1>6, <1>a, <2>1, DeleteMoves DEF EndSession, TypeOK, Jobs
<1>7. CASE Purge
  <2>1. CASE Purgeable = {}
    BY <1>7, <1>a, <2>1 DEF Purge, Looked, TypeOK, Jobs
  <2>2. CASE Purgeable # {} /\ config.blocking
    <3>1. DeleteIn(sd, Oldest) /\ Oldest \in Slots
      BY <1>7, <2>2, OldestFacts DEF Purge, Delete, Purgeable
    <3> QED
      BY <1>7, <1>a, <2>2, <3>1, DeleteMoves DEF Purge, Looked, TypeOK, Jobs
  <2>3. CASE Purgeable # {} /\ ~config.blocking
    <3>1. Oldest \in Slots /\ Mark(Oldest) /\ QueueNow(CloseMsg(Oldest)) /\ UNCHANGED <<active, lru, input>>
      BY <1>7, <2>3, OldestFacts DEF Purge, Purgeable
    <3>2. sd' \in [Slots -> Session]
      BY <3>1, SessionChanged DEF Mark, TypeOK
    <3> QED
      BY <1>7, <1>a, <3>1, <3>2, QueueFacts, CloseIsMessage DEF Purge, Looked, TypeOK, Jobs
  <2> QED
    BY <2>1, <2>2, <2>3
<1>8. CASE Accept
  <2>1. backlog # <<>> /\ backlog' = Tail(backlog) /\ Available
    BY <1>8 DEF Accept, Looked, IInv, Loop, MustPurge
  <2>2. FirstFree \in Slots /\ active # config.slots
    BY <2>1, FirstFreeFacts DEF Available, FreeSlots
  <2>3. Head(backlog) \in Conns /\ backlog' \in Seq(Conns)
    BY <2>1 DEF TypeOK
  <2>4. CASE UNCHANGED tableVars /\ input' = [input EXCEPT ![Head(backlog)] = "none"]
    BY <1>8, <1>a, <2>3, <2>4 DEF Accept, Looked, TypeOK, Jobs
  <2>5. CASE /\ sd' = [sd EXCEPT ![FirstFree] =
                    [fd |-> Head(backlog), lru |-> lru, purge |-> FALSE, async |-> FALSE]]
             /\ active' = active + 1 /\ UNCHANGED <<lru, input>>
    <3>1. sd' \in [Slots -> Session]
      BY <2>2, <2>3, <2>5 DEF TypeOK, Session
    <3>2. active' \in 0 .. config.slots
      BY <2>2, <2>5, SlotFacts DEF TypeOK
    <3> QED
      BY <1>8, <1>a, <2>3, <2>5, <3>1, <3>2 DEF Accept, Looked, TypeOK, Jobs
  <2> QED
    BY <1>8, <2>4, <2>5 DEF Accept
<1>9. CASE Exit
  <2>1. sd' \in [Slots -> Session]
    BY <1>9, SessionChanged DEF Exit, TypeOK
  <2> QED
    BY <1>9, <1>a, <2>1, HttpServerAssumption, SlotFacts DEF Exit, TypeOK, Jobs
<1>10. CASE Start
  <2>1. FreeSession \in Session
    BY DEF FreeSession, Session
  <2>2. sd' \in [Slots -> Session]
    BY <1>10, <2>1 DEF Start
  <2> QED
    BY <1>10, <1>a, <2>2, HttpServerAssumption DEF Start, TypeOK, Jobs
<1>11. CASE Connect
  <2>1. (CHOOSE d \in Conns : d \notin Open \cup ToSet(backlog)) \in Conns
    BY <1>11 DEF Connect
  <2> QED
    BY <1>11, <1>a, <2>1 DEF Connect, TypeOK, Jobs
<1>12. CASE Stopper \/ StopBegins
  <2>1. CASE StopTakes \/ StopBegins \/ StopDeletes
    BY <1>a, <2>1, HttpServerAssumption DEF StopTakes, StopBegins, StopDeletes, TypeOK, Jobs
  <2>2. CASE StopSends
    <3>1. ShutdownMsg \in Msgs /\ Post(ShutdownMsg)
      BY <2>2 DEF Msgs, StopSends
    <3> QED
      BY <1>a, <2>2, <3>1, MailFacts DEF StopSends, TypeOK, Jobs
  <2>3. CASE StopSendFails
    <3>1. ~Halted
      BY <2>3 DEF StopSendFails, IInv, Stops, Halted
    <3>2. sem' \in 0 .. MboxSize
      BY <2>3, <3>1, PlacesLeft, HttpServerAssumption DEF StopSendFails, TypeOK, IInv
    <3> QED
      BY <1>a, <2>3, <3>2 DEF StopSendFails, TypeOK, Jobs
  <2> QED
    BY <1>12, <2>1, <2>2, <2>3 DEF Stopper
<1>13. ASSUME NEW w \in Workers, Worker(w) \/ Call(w) PROVE TypeOK' /\ Jobs'
  <2>1. CASE Call(w)
    <3>1. PICK m \in Msgs \ {ShutdownMsg} : Set(w, Job("take", m))
      BY <2>1, MessagesDiffer DEF Call, Msgs
    <3> QED
      BY <1>a, <2>1, <3>1 DEF Call, Set, Job, TypeOK, Jobs
  <2>2. CASE Take(w)
    <3>1. wjob[w].msg \in Msgs \ {ShutdownMsg} /\ wjob' = [wjob EXCEPT ![w].at = "send"]
      BY <2>2 DEF Take, Set, Jobs, TypeOK
    <3> QED
      BY <1>a, <2>2, <3>1, HttpServerAssumption, SMTT(30) DEF Take, TypeOK, Jobs
  <2>3. CASE TakeFails(w)
    BY <1>a, <2>3 DEF TakeFails, Set, Idle, TypeOK, Jobs
  <2>4. CASE SendMsg(w)
    <3>1. wjob[w].msg \in Msgs /\ Post(wjob[w].msg)
      BY <2>4 DEF SendMsg, Jobs
    <3>2. mbox' \in Seq(Msgs) /\ Len(mbox') <= MboxSize
      BY <3>1, MailFacts
    <3> QED
      BY <1>a, <2>4, <3>2 DEF SendMsg, Set, Idle, TypeOK, Jobs
  <2>5. CASE SendFails(w)
    <3>1. ~Halted
      BY <2>5, MessagesDiffer DEF SendFails, IInv, Stops
    <3>2. w \in Senders
      BY <2>5 DEF SendFails, Senders
    <3>3. sem' \in 0 .. MboxSize
      BY <2>5, <3>1, <3>2, PlacesLeft, HttpServerAssumption DEF SendFails, TypeOK, IInv
    <3> QED
      BY <1>a, <2>5, <3>3 DEF SendFails, Set, Idle, TypeOK, Jobs
  <2>6. CASE Complete(w)
    <3>1. DummyMsg \in Msgs \ {ShutdownMsg}
      BY MessagesDiffer DEF Msgs
    <3>2. sd' \in [Slots -> Session]
      BY <2>6, SessionChanged DEF Complete, TypeOK
    <3> QED
      BY <1>a, <2>6, <3>1, <3>2 DEF Complete, Set, Job, TypeOK, Jobs
  <2> QED
    BY <1>13, <2>1, <2>2, <2>3, <2>4, <2>5, <2>6 DEF Worker
<1>14. ASSUME NEW c \in Conns, Send(c) \/ Hangup(c) PROVE TypeOK' /\ Jobs'
  BY <1>14, <1>a DEF Send, Hangup, TypeOK, Jobs
<1> QED
  BY <1>1, <1>2, <1>3, <1>4, <1>5, <1>6, <1>7, <1>8, <1>9, <1>10, <1>11, <1>12, <1>13, <1>14
  DEF Next, Httpd


(* Whatever a step does to the connections, the count stays that of the     *)
(* sessions, and no connection gets into two places.                        *)
LEMMA TableStep ==
  ASSUME TypeOK, TypeOK', config' = config, Table, Moves
  PROVE  Table'
<1>1. Slots' = Slots /\ IsFiniteSet(Slots)
  BY SlotFacts
<1> DEFINE InUse == Slots \ FreeSlots
<1>2. /\ InUse = {s \in Slots : sd[s].fd # NoConn}
      /\ InUse' = {s \in Slots : sd'[s].fd # NoConn}
      /\ Open = {sd[s].fd : s \in InUse} /\ Open' = {sd'[s].fd : s \in InUse'}
  BY <1>1 DEF FreeSlots, Open
<1>3. IsFiniteSet(InUse) /\ IsFiniteSet(Open)
  <2>1. IsFiniteSet(InUse)
    BY <1>1, FS_Subset
  <2>2. [s \in InUse |-> sd[s].fd] \in Surjection(InUse, Open)
    BY <1>2 DEF Surjection
  <2> QED
    BY <2>1, <2>2, FS_Surjection
<1>4. active = Cardinality(InUse) /\ active = Cardinality(Open) /\ Open \cap ToSet(backlog) = {}
  BY DEF Table, SessionsCounted
<1>5. backlog \in Seq(Conns) /\ backlog' \in Seq(Conns) /\ active \in Nat /\ NoConn \notin Conns
  BY HttpServerAssumption, SlotFacts DEF TypeOK
<1> HIDE DEF InUse
<1>6. ASSUME Same
      PROVE  /\ Open' = Open /\ active' = Cardinality(InUse') /\ active' = Cardinality(Open')
             /\ \A s, q \in Slots : sd'[s].fd = sd'[q].fd /\ sd'[s].fd # NoConn => s = q
  <2>1. InUse' = InUse /\ Open' = Open
    BY <1>2, <1>6 DEF Same
  <2> QED
    BY <1>4, <1>6, <2>1 DEF Same, Table, Distinct
<1>7. ASSUME backlog # <<>>, backlog' = Tail(backlog)
      PROVE  /\ ToSet(backlog') = ToSet(backlog) \ {Head(backlog)} /\ Head(backlog) \in ToSet(backlog)
             /\ \A i, j \in 1 .. Len(backlog') : backlog'[i] = backlog'[j] => i = j
  <2>1. /\ Len(backlog) \in Nat /\ Len(backlog) > 0 /\ Len(backlog') = Len(backlog) - 1
        /\ Head(backlog) = backlog[1]
        /\ \A i \in 1 .. Len(backlog') : backlog'[i] = backlog[i + 1]
    BY <1>5, <1>7
  <2>2. \A i, j \in 1 .. Len(backlog) : backlog[i] = backlog[j] => i = j
    BY DEF Table, Distinct
  <2>3. \A i, j \in 1 .. Len(backlog') : backlog'[i] = backlog'[j] => i = j
    BY <2>1, <2>2
  <2>4. DOMAIN backlog = 1 .. Len(backlog) /\ DOMAIN backlog' = 1 .. Len(backlog')
    BY <1>5
  <2>5. ASSUME NEW c \in ToSet(backlog) \ {Head(backlog)} PROVE c \in ToSet(backlog')
    <3>1. PICK i \in 1 .. Len(backlog) : backlog[i] = c
      BY <2>4, <2>5 DEF ToSet
    <3>2. i # 1 /\ i - 1 \in 1 .. Len(backlog')
      BY <2>1, <2>5, <3>1
    <3>3. backlog'[i - 1] = c
      BY <2>1, <3>1, <3>2
    <3> QED
      BY <2>4, <3>2, <3>3 DEF ToSet
  <2>6. ASSUME NEW c \in ToSet(backlog') PROVE c \in ToSet(backlog) \ {Head(backlog)}
    <3>1. PICK i \in 1 .. Len(backlog') : backlog'[i] = c
      BY <2>4, <2>6 DEF ToSet
    <3>2. i + 1 \in 1 .. Len(backlog) /\ backlog[i + 1] = c /\ i + 1 # 1
      BY <2>1, <3>1
    <3> QED
      BY <2>1, <2>2, <2>4, <3>2 DEF ToSet
  <2>7. Head(backlog) \in ToSet(backlog)
    BY <2>1, <2>4, SMTT(30) DEF ToSet
  <2> QED
    BY <2>3, <2>5, <2>6, <2>7
<1>8. CASE Same /\ backlog' = backlog
  BY <1>1, <1>4, <1>6, <1>8 DEF Table, Distinct, SessionsCounted, InUse
<1>9. CASE Same /\ \E c \in Conns \ (Open \cup ToSet(backlog)) : backlog' = Append(backlog, c)
  <2>1. PICK c \in Conns \ (Open \cup ToSet(backlog)) : backlog' = Append(backlog, c)
    BY <1>9
  <2>2. /\ Len(backlog) \in Nat /\ Len(backlog') = Len(backlog) + 1 /\ backlog'[Len(backlog) + 1] = c
        /\ \A i \in 1 .. Len(backlog) : backlog'[i] = backlog[i]
        /\ DOMAIN backlog = 1 .. Len(backlog) /\ DOMAIN backlog' = 1 .. Len(backlog')
    BY <1>5, <2>1
  <2>3. \A i \in 1 .. Len(backlog) : backlog[i] # c
    BY <2>1, <2>2 DEF ToSet
  <2>4. \A i, j \in 1 .. Len(backlog') : backlog'[i] = backlog'[j] => i = j
    BY <2>2, <2>3 DEF Table, Distinct
  <2>5. ToSet(backlog') \subseteq ToSet(backlog) \cup {c}
    BY <2>2 DEF ToSet
  <2> QED
    BY <1>1, <1>4, <1>6, <1>9, <2>1, <2>4, <2>5 DEF Table, Distinct, SessionsCounted, InUse
<1>10. ASSUME NEW s \in Slots, Freed(s), backlog' = backlog PROVE Table'
  <2>1. InUse' = InUse \ {s} /\ s \in InUse
    BY <1>2, <1>10 DEF Freed
  <2>2. Open' = Open \ {sd[s].fd} /\ sd[s].fd \in Open
    BY <1>2, <1>10 DEF Freed, Table, Distinct
  <2>3. active' = Cardinality(InUse') /\ active' = Cardinality(Open')
    BY <1>3, <1>4, <1>10, <2>1, <2>2, FS_RemoveElement DEF Freed
  <2>4. \A p, q \in Slots : sd'[p].fd = sd'[q].fd /\ sd'[p].fd # NoConn => p = q
    BY <1>10 DEF Freed, Table, Distinct
  <2> QED
    BY <1>1, <1>4, <1>10, <2>2, <2>3, <2>4 DEF Table, Distinct, SessionsCounted, InUse
<1>11. CASE Same /\ backlog # <<>> /\ backlog' = Tail(backlog)
  BY <1>1, <1>4, <1>6, <1>7, <1>11 DEF Table, Distinct, SessionsCounted, InUse
<1>12. ASSUME NEW s \in Slots, Taken(s), backlog # <<>>, backlog' = Tail(backlog) PROVE Table'
  <2>1. /\ Head(backlog) \in ToSet(backlog) /\ Head(backlog) \notin Open
        /\ Head(backlog) \in Conns /\ Head(backlog) # NoConn
    BY <1>4, <1>5, <1>7, <1>12
  <2>2. InUse' = InUse \cup {s} /\ s \notin InUse
    BY <1>2, <1>12, <2>1 DEF Taken
  <2>3. Open' = Open \cup {Head(backlog)}
    BY <1>2, <1>12, <2>1 DEF Taken
  <2>4. active' = Cardinality(InUse') /\ active' = Cardinality(Open')
    <3>1. active' = active + 1
      BY <1>12 DEF Taken
    <3>2. Cardinality(InUse') = Cardinality(InUse) + 1
      BY <1>3, <2>2, FS_AddElement
    <3>3. Cardinality(Open') = Cardinality(Open) + 1
      BY <1>3, <2>1, <2>3, FS_AddElement
    <3> QED
      BY <1>4, <3>1, <3>2, <3>3
  <2>5. \A q \in Slots : sd[q].fd # Head(backlog)
    BY <1>2, <2>1 DEF Open
  <2>6. \A p, q \in Slots : sd'[p].fd = sd'[q].fd /\ sd'[p].fd # NoConn => p = q
    BY <1>12, <2>5 DEF Taken, Table, Distinct
  <2> QED
    BY <1>1, <1>4, <1>7, <1>12, <2>3, <2>4, <2>6 DEF Table, Distinct, SessionsCounted, InUse
<1>13. CASE Emptied
  <2>1. InUse' = {} /\ Open' = {} /\ Cardinality({}) = 0
    BY <1>2, <1>13, FS_EmptySet DEF Emptied
  <2>2. backlog' = <<>> /\ ToSet(backlog') = {}
    BY <1>13 DEF Emptied, ToSet
  <2>3. Distinct'
    BY <1>1, <1>13, <2>2 DEF Emptied, Distinct
  <2>4. SessionsCounted'
    BY <1>13, <2>1, <2>2 DEF Emptied, SessionsCounted, InUse
  <2> QED
    BY <2>3, <2>4 DEF Table
<1> QED
  BY <1>8, <1>9, <1>10, <1>11, <1>12, <1>13 DEF Moves


(* The senders change by the worker that changes. *)
LEMMA SendersStep ==
  ASSUME TypeOK, NEW w \in Workers, NEW j, wjob' = [wjob EXCEPT ![w] = j]
  PROVE  /\ IsFiniteSet(Senders) /\ Cardinality(Senders) \in Nat
         /\ wjob[w].at # "send" /\ j.at # "send" => Senders' = Senders
         /\ wjob[w].at # "send" /\ j.at = "send" => Cardinality(Senders') = Cardinality(Senders) + 1
         /\ wjob[w].at = "send" /\ j.at # "send" => Cardinality(Senders') = Cardinality(Senders) - 1
<1>1. IsFiniteSet(Senders) /\ Cardinality(Senders) \in Nat
  BY HttpServerAssumption, FS_Subset, FS_CardinalityType DEF Senders
<1>2. wjob'[w] = j /\ \A v \in Workers \ {w} : wjob'[v] = wjob[v]
  BY DEF TypeOK
<1>3. ASSUME j.at # "send" PROVE Senders' = Senders \ {w}
  BY <1>2, <1>3 DEF Senders
<1>4. ASSUME j.at = "send" PROVE Senders' = Senders \cup {w}
  BY <1>2, <1>4 DEF Senders
<1>5. w \in Senders <=> wjob[w].at = "send"
  BY DEF Senders
<1>6. /\ Cardinality(Senders \ {w}) = IF w \in Senders THEN Cardinality(Senders) - 1 ELSE Cardinality(Senders)
      /\ Cardinality(Senders \cup {w}) = IF w \in Senders THEN Cardinality(Senders) ELSE Cardinality(Senders) + 1
  BY <1>1, FS_AddElement, FS_RemoveElement
<1> QED
  BY <1>1, <1>3, <1>4, <1>5, <1>6

(* Every step keeps the account of the places of the control socket. *)
LEMMA PlacesStep == IInv /\ TypeOK' /\ Next => PlacesAccounted'
<1> SUFFICES ASSUME IInv, TypeOK', Next PROVE PlacesAccounted'
  OBVIOUS
<1>0. TypeOK /\ Jobs /\ Stops /\ PlacesAccounted /\ MboxSize \in Nat
  BY HttpServerAssumption DEF IInv
<1> USE <1>0
<1>a. IsFiniteSet(Senders) /\ Cardinality(Senders) \in Nat
  BY HttpServerAssumption, FS_Subset, FS_CardinalityType DEF Senders
<1>b. sem \in Nat /\ sem' \in Nat /\ Len(mbox) \in Nat /\ Len(mbox') \in Nat
  BY DEF TypeOK
<1>c. ~Halted => sem + Len(mbox) <= MboxSize
  BY PlacesLeft
<1>1. ASSUME UNCHANGED <<status, sem, mbox, wjob, stopper>> PROVE PlacesAccounted'
  BY <1>1 DEF PlacesAccounted, Senders
<1>2. CASE CtrlProcess
  <2>1. mbox # <<>> /\ ~Halted
    BY <1>2 DEF CtrlProcess, IInv, Loop, Stops
  <2>2. sem' = sem + 1 /\ Len(mbox') = Len(mbox) - 1 /\ UNCHANGED <<wjob, stopper>>
    <3>1. mbox' = Tail(mbox) /\ sem' = sem + 1 /\ UNCHANGED <<wjob, stopper>>
      BY <1>2 DEF CtrlProcess, GiveDrained
    <3>2. mbox \in Seq(Msgs)
      BY DEF TypeOK
    <3> QED
      BY <2>1, <3>1, <3>2
  <2> QED
    BY <1>a, <1>b, <2>1, <2>2 DEF PlacesAccounted, Senders, Halted
<1>3. ASSUME NEW m \in Msgs, QueueNow(m), UNCHANGED <<status, wjob, stopper>>, ~Halted
      PROVE PlacesAccounted'
  <2>1. Len(mbox') + sem' = Len(mbox) + sem
    <3>1. Len(mbox) + sem <= MboxSize
      BY <1>3, <1>b, <1>c
    <3> QED
      BY <1>3, <3>1, QueueFacts
  <2> QED
    BY <1>3, <1>a, <1>b, <2>1 DEF PlacesAccounted, Senders, Halted
<1>4. CASE QueueSelf
  <2>1. /\ Current \in Slots /\ QueueNow(CloseMsg(Current)) /\ UNCHANGED <<status, wjob, stopper>>
        /\ ~Halted
    BY <1>4, CurrentFacts DEF QueueSelf, Served, IInv, Loop, Stops
  <2> QED
    BY <1>3, <2>1, CloseIsMessage
<1>5. CASE Purge
  <2>1. CASE UNCHANGED ctrlVars
    BY <1>1, <1>5, <2>1 DEF Purge, Looked
  <2>2. CASE Purgeable # {} /\ ~config.blocking
    <3>1. /\ Oldest \in Slots /\ QueueNow(CloseMsg(Oldest)) /\ UNCHANGED <<status, wjob, stopper>>
          /\ ~Halted
      BY <1>5, <2>2, OldestFacts DEF Purge, Looked, Purgeable, Stops
    <3> QED
      BY <1>3, <3>1, CloseIsMessage
  <2> QED
    BY <1>5, <2>1, <2>2 DEF Purge
<1>6. CASE Exit
  BY <1>6 DEF Exit, PlacesAccounted
<1>7. CASE Start
  <2>1. mbox' = <<>> /\ sem' = MboxSize /\ stopper' = "idle" /\ wjob' = wjob /\ \A w \in Workers : wjob[w] = Idle
    BY <1>7 DEF Start, Stops, Halted
  <2>2. Senders' = {}
    BY <2>1, MessagesDiffer DEF Senders
  <2> QED
    BY <2>1, <2>2, FS_EmptySet DEF PlacesAccounted
<1>8. CASE StopTakes \/ StopBegins \/ StopSendFails
  <2>1. ~Halted
    BY <1>8 DEF StopTakes, StopBegins, StopSendFails, Stops, Halted
  <2>2. Senders' = Senders
    BY <1>8 DEF StopTakes, StopBegins, StopSendFails, Senders
  <2> QED
    BY <1>8, <1>a, <1>b, <2>1, <2>2, SMTT(30) DEF StopTakes, StopBegins, StopSendFails, PlacesAccounted, Halted
<1>9. CASE StopSends
  <2>1. ~Halted /\ Len(mbox) < MboxSize
    <3>1. ~Halted
      BY <1>9 DEF StopSends, Stops, Halted
    <3> QED
      BY <1>9, <1>b, <3>1, PlacesLeft DEF StopSends
  <2>2. Len(mbox') = Len(mbox) + 1
    BY <1>9, <2>1, MailFacts DEF StopSends, Msgs
  <2>3. Senders' = Senders
    BY <1>9 DEF StopSends, Senders
  <2> QED
    BY <1>9, <1>a, <1>b, <2>1, <2>2, <2>3 DEF StopSends, PlacesAccounted, Halted
<1>10. CASE StopDeletes
  BY <1>10 DEF StopDeletes, PlacesAccounted
<1>11. ASSUME NEW w \in Workers, NEW j, wjob' = [wjob EXCEPT ![w] = j], wjob[w].at # "send",
              j.at # "send", UNCHANGED <<status, sem, mbox, stopper>>
       PROVE PlacesAccounted'
  BY <1>11, SendersStep DEF PlacesAccounted
<1>12. ASSUME NEW w \in Workers, Take(w) PROVE PlacesAccounted'
  <2>1. /\ wjob[w].at = "take" /\ sem > 0 /\ sem' = sem - 1 /\ UNCHANGED <<status, mbox, stopper>>
        /\ wjob' = [wjob EXCEPT ![w] = [wjob[w] EXCEPT !.at = "send"]]
    BY <1>12 DEF Take, Set
  <2>2. [wjob[w] EXCEPT !.at = "send"].at = "send"
    BY DEF TypeOK
  <2>3. Cardinality(Senders') = Cardinality(Senders) + 1
    BY <2>1, <2>2, SendersStep
  <2> QED
    BY <1>a, <1>b, <2>1, <2>3 DEF PlacesAccounted
<1>13. ASSUME NEW w \in Workers, SendMsg(w) PROVE PlacesAccounted'
  <2>1. /\ wjob[w].at = "send" /\ Post(wjob[w].msg) /\ UNCHANGED <<status, sem, stopper>>
        /\ wjob' = [wjob EXCEPT ![w] = Idle]
    BY <1>13 DEF SendMsg, Set
  <2>2. ~Halted
    BY <2>1, MessagesDiffer DEF Stops
  <2>3. w \in Senders /\ wjob[w].msg \in Msgs
    BY <2>1 DEF Senders, Jobs
  <2>4. Len(mbox) < MboxSize
    BY <1>b, <2>2, <2>3, PlacesLeft
  <2>5. Len(mbox') = Len(mbox) + 1
    BY <2>1, <2>3, <2>4, MailFacts
  <2>6. Cardinality(Senders') = Cardinality(Senders) - 1
    BY <2>1, MessagesDiffer, SendersStep
  <2> QED
    BY <1>a, <1>b, <2>1, <2>5, <2>6 DEF PlacesAccounted
<1>14. ASSUME NEW w \in Workers, SendFails(w) PROVE PlacesAccounted'
  <2>1. /\ wjob[w].at = "send" /\ sem' = sem + 1 /\ UNCHANGED <<status, mbox, stopper>>
        /\ wjob' = [wjob EXCEPT ![w] = Idle]
    BY <1>14 DEF SendFails, Set
  <2>2. Cardinality(Senders') = Cardinality(Senders) - 1
    BY <2>1, MessagesDiffer, SendersStep
  <2> QED
    BY <1>a, <1>b, <2>1, <2>2 DEF PlacesAccounted
<1>15. ASSUME NEW w \in Workers, Call(w) \/ TakeFails(w) \/ Complete(w) \/ ServeAsync(w)
       PROVE PlacesAccounted'
  <2>1. wjob[w].at # "send" /\ UNCHANGED <<status, sem, mbox, stopper>>
    BY <1>15, MessagesDiffer DEF Call, TakeFails, Complete, ServeAsync, Served
  <2>2. ASSUME NEW at \in {"take", "async"}, NEW m, wjob' = [wjob EXCEPT ![w] = Job(at, m)]
        PROVE  PlacesAccounted'
    <3>1. Job(at, m).at # "send"
      BY <2>2 DEF Job
    <3> QED
      BY <1>11, <2>1, <2>2, <3>1
  <2>3. CASE TakeFails(w)
    <3>1. wjob' = [wjob EXCEPT ![w] = Idle] /\ Idle.at # "send"
      BY <2>3, MessagesDiffer DEF TakeFails, Set
    <3> QED
      BY <1>11, <2>1, <3>1
  <2>4. CASE Call(w)
    BY <2>2, <2>4 DEF Call, Set
  <2>5. CASE Complete(w)
    BY <2>2, <2>5 DEF Complete, Set
  <2>6. CASE ServeAsync(w)
    BY <2>2, <2>6 DEF ServeAsync
  <2> QED
    BY <1>15, <2>3, <2>4, <2>5, <2>6
<1>16. CASE Prepare \/ Select \/ Serve \/ ServeSelf \/ EndSession \/ NoAccept \/ Accept \/ Connect
  BY <1>1, <1>16 DEF Prepare, Select, Serve, Served, ServeSelf, EndSession, NoAccept, Accept, Looked, Connect
<1>17. ASSUME NEW c \in Conns, Send(c) \/ Hangup(c) PROVE PlacesAccounted'
  BY <1>1, <1>17 DEF Send, Hangup
<1> QED
  BY <1>2, <1>4, <1>5, <1>6, <1>7, <1>8, <1>9, <1>10, <1>12, <1>13, <1>14, <1>15, <1>16, <1>17
  DEF Next, Httpd, Stopper, Worker


(* Every step keeps what is known of a stop. *)
LEMMA StopsStep == IInv /\ TypeOK' /\ Next => Stops'
<1> SUFFICES ASSUME IInv, TypeOK', Next PROVE Stops'
  OBVIOUS
<1>0. TypeOK /\ Jobs /\ Stops /\ Loop
  BY DEF IInv
<1> USE <1>0
<1>a. Len(mbox) \in Nat /\ Len(mbox') \in Nat
  BY DEF TypeOK
<1> DEFINE Mail == \A i \in 1 .. Len(mbox') : mbox'[i] = ShutdownMsg => \E j \in 1 .. Len(mbox) : mbox[j] = ShutdownMsg
<1>b. mbox' = mbox => Mail
  OBVIOUS
<1>c. ASSUME NEW m \in Msgs \ {ShutdownMsg}, QueueNow(m) \/ Post(m) PROVE Mail
  <2>1. \A i \in 1 .. Len(mbox') : mbox'[i] = m \/ \E j \in 1 .. Len(mbox) : mbox'[i] = mbox[j]
    BY <1>c, QueueFacts, MailFacts
  <2> QED
    BY <1>c, <2>1
<1> HIDE DEF Mail
<1>1. ASSUME status = "running", status' = "running", pc' \notin {"exit", "gone"}, stopper' = stopper,
             stopper = "idle" \/ wjob' = wjob, Mail
      PROVE  Stops'
  BY <1>1 DEF Stops, Halted, Mail
<1>2. CASE Prepare \/ Select \/ Serve \/ ServeSelf \/ EndSession \/ NoAccept \/ Accept
  BY <1>1, <1>b, <1>2, MessagesDiffer DEF Prepare, Select, Serve, Requested, Served, ServeSelf,
     EndSession, NoAccept, Accept, Looked, Stops, Halted, TypeOK
<1>3. CASE CtrlProcess
  <2>1. /\ mbox # <<>> /\ mbox \in Seq(Msgs) /\ mbox' = Tail(mbox) /\ UNCHANGED <<wjob, stopper>>
        /\ status = "running"
    BY <1>3 DEF CtrlProcess, Loop, Stops, Halted, TypeOK
  <2>2. Mail
    <3>1. \A i \in 1 .. Len(mbox') : i + 1 \in 1 .. Len(mbox) /\ mbox'[i] = mbox[i + 1]
      BY <2>1
    <3> QED
      BY <3>1 DEF Mail
  <2>3. CASE Head(mbox) # ShutdownMsg
    BY <1>1, <1>3, <2>1, <2>2, <2>3 DEF CtrlProcess
  <2>4. CASE Head(mbox) = ShutdownMsg
    <3>1. status' = "stopping" /\ pc' = "exit"
      BY <1>3, <2>4 DEF CtrlProcess
    <3>2. stopper = "wait"
      <4>1. 1 \in 1 .. Len(mbox) /\ mbox[1] = ShutdownMsg
        BY <2>1, <2>4
      <4> QED
        BY <4>1 DEF Stops
    <3> QED
      BY <2>1, <2>2, <3>1, <3>2 DEF Stops, Halted, Mail
  <2> QED
    BY <2>3, <2>4
<1>4. ASSUME NEW w \in Workers, ServeAsync(w) PROVE Stops'
  BY <1>1, <1>4, <1>b, MessagesDiffer DEF ServeAsync, Requested, Served, Stops, Halted, TypeOK
<1>5. CASE QueueSelf
  <2>1. Current \in Slots /\ QueueNow(CloseMsg(Current)) /\ UNCHANGED <<status, wjob, stopper>>
        /\ pc = "queue" /\ pc' = "session"
    BY <1>5, CurrentFacts DEF QueueSelf, Served, Loop
  <2>2. CloseMsg(Current) \in Msgs \ {ShutdownMsg}
    BY <2>1, CloseIsMessage, MessagesDiffer
  <2> QED
    BY <1>1, <1>c, <2>1, <2>2 DEF Stops, Halted, TypeOK
<1>6. CASE Purge
  <2>1. UNCHANGED <<status, wjob, stopper>> /\ pc = "session" /\ pc' = "prepare"
    BY <1>6 DEF Purge, Looked
  <2>2. CASE UNCHANGED ctrlVars
    BY <1>1, <1>b, <2>1, <2>2 DEF Stops, Halted, TypeOK
  <2>3. CASE Purgeable # {} /\ ~config.blocking
    <3>1. Oldest \in Slots /\ QueueNow(CloseMsg(Oldest))
      BY <1>6, <2>3, OldestFacts DEF Purge, Purgeable
    <3>2. CloseMsg(Oldest) \in Msgs \ {ShutdownMsg}
      BY <3>1, CloseIsMessage, MessagesDiffer
    <3> QED
      BY <1>1, <1>c, <2>1, <3>1, <3>2 DEF Stops, Halted, TypeOK
  <2> QED
    BY <1>6, <2>2, <2>3 DEF Purge
<1>7. CASE Exit
  <2>1. /\ pc' = "gone" /\ status' = "stopped" /\ mbox' = <<>> /\ backlog' = <<>> /\ active' = 0 /\ fds' = {}
        /\ UNCHANGED <<wjob, stopper>> /\ stopper = "wait"
    BY <1>7 DEF Exit, Stops
  <2>2. \A s \in Slots' : sd'[s].fd = NoConn
    BY <1>7, ConfigKept, SlotFacts DEF Exit, TypeOK, Session
  <2> QED
    BY <2>1, <2>2 DEF Stops, Halted
<1>8. CASE Start
  <2>1. status = "off" /\ status' = "running" /\ pc' = "prepare" /\ UNCHANGED <<mbox, wjob, stopper>>
    BY <1>8 DEF Start
  <2> QED
    BY <2>1 DEF Stops, Halted
<1>9. CASE StopTakes
  BY <1>9 DEF StopTakes, Stops, Halted
<1>10. CASE StopBegins
  BY <1>10 DEF StopBegins, Stops, Halted
<1>11. CASE StopSendFails
  BY <1>11 DEF StopSendFails, Stops, Halted
<1>12. CASE StopSends
  BY <1>12 DEF StopSends, Stops, Halted
<1>13. CASE StopDeletes
  <2>1. Slots' = Slots
    BY ConfigKept, SlotFacts
  <2> QED
    BY <1>13, <2>1 DEF StopDeletes, Stops, Halted
<1>14. ASSUME NEW w \in Workers, Worker(w) \/ Call(w) PROVE Stops'
  <2>1. wjob[w] # Idle \/ (stopper = "idle" /\ status = "running")
    BY <1>14, MessagesDiffer DEF Worker, Take, TakeFails, SendMsg, SendFails, Complete, Call
  <2>2. stopper = "idle" /\ status = "running"
    BY <2>1 DEF Stops, Halted, TypeOK
  <2>3. UNCHANGED <<status, pc, stopper>>
    BY <1>14 DEF Worker, Take, TakeFails, SendMsg, SendFails, Complete, Call
  <2>4. Mail
    <3>1. CASE SendMsg(w)
      BY <1>c, <3>1 DEF SendMsg, Jobs
    <3>2. CASE ~SendMsg(w)
      BY <1>b, <1>14, <3>2 DEF Worker, Take, TakeFails, SendFails, Complete, Call
    <3> QED
      BY <3>1, <3>2
  <2> QED
    BY <1>1, <2>2, <2>3, <2>4 DEF Stops, Halted
<1>15. CASE Connect \/ \E c \in Conns : Send(c) \/ Hangup(c)
  <2>1. UNCHANGED <<status, mbox, pc, wjob, stopper>>
    BY <1>15 DEF Connect, Send, Hangup
  <2>2. CASE status = "running"
    BY <1>1, <1>b, <2>1, <2>2 DEF Stops, Halted
  <2>3. CASE status # "running"
    <3>1. ~Connect
      BY <2>3 DEF Connect
    <3>2. UNCHANGED <<backlog, sd, active, fds>>
      BY <1>15, <3>1 DEF Send, Hangup
    <3> QED
      BY <2>1, <3>2, ConfigKept, SlotFacts DEF Stops, Halted
  <2> QED
    BY <2>2, <2>3
<1> QED
  BY <1>2, <1>3, <1>4, <1>5, <1>6, <1>7, <1>8, <1>9, <1>10, <1>11, <1>12, <1>13, <1>14, <1>15
  DEF Next, Httpd, Stopper


(* Every step keeps what the loop knows at its points. *)
LEMMA LoopStep == IInv /\ TypeOK' /\ Next => Loop'
<1> SUFFICES ASSUME IInv, TypeOK', Next PROVE Loop'
  OBVIOUS
<1>0. TypeOK /\ Jobs /\ Stops /\ Loop /\ Table
  BY DEF IInv
<1> USE <1>0
<1>a. config' = config /\ Slots' = Slots
  BY ConfigKept, SlotFacts
<1>b. /\ Listen # Ctrl /\ Listen \notin Conns /\ Ctrl \notin Conns /\ NoConn \notin Conns
      /\ Listen # NoConn /\ Ctrl # NoConn
  BY HttpServerAssumption DEF Listen, Ctrl
<1>1. ASSUME UNCHANGED <<pc, fds>>, Same, mbox # <<>> => mbox' # <<>>, backlog # <<>> => backlog' # <<>>
      PROVE  Loop'
  <2>1. ToProcess' = ToProcess /\ FreeSlots' = FreeSlots
    BY <1>1, <1>a DEF ToProcess, FreeSlots, Same
  <2> QED
    BY <1>1, <1>a, <2>1 DEF Loop, Available, Same
<1>2. ASSUME pc' \in {"prepare", "exit", "gone"} PROVE Loop'
  BY <1>2 DEF Loop
<1>3. ASSUME pc' = "session", Listen \in fds' => Listen \in fds, pc \in {"session", "control", "queue"},
             UNCHANGED backlog, Same \/ \E s \in Slots : Freed(s)
      PROVE  Loop'
  <2>1. Available => Available'
    <3>1. CASE Same
      BY <1>a, <3>1 DEF Available, FreeSlots, Same
    <3>2. ASSUME NEW s \in Slots, Freed(s) PROVE Available'
      <4>1. s \in FreeSlots'
        BY <1>a, <3>2 DEF Freed, FreeSlots
      <4>2. active' # config.slots
        BY <3>2, SlotFacts DEF Freed, TypeOK
      <4> QED
        BY <1>a, <4>1, <4>2 DEF Available
    <3> QED
      BY <1>3, <3>1, <3>2
  <2> QED
    BY <1>3, <1>a, <2>1 DEF Loop
<1>4. CASE Prepare
  <2>1. Listen \in fds' => config.lru_purge \/ Available
    BY <1>4, <1>b DEF Prepare, Purgeable, TypeOK, Session
  <2> QED
    BY <1>4, <1>a, <2>1 DEF Prepare, Loop, Available, FreeSlots
<1>5. CASE Select
  <2>1. /\ Ctrl \in Ready => mbox # <<>>
        /\ Listen \in Ready => backlog # <<>> /\ Listen \in fds
    BY <1>b DEF Ready
  <2>2. pc = "select" /\ fds' = Ready /\ pc' = IF Ctrl \in Ready THEN "control" ELSE "session"
    BY <1>5 DEF Select
  <2>3. UNCHANGED <<mbox, backlog, sd, active>>
    BY <1>5 DEF Select
  <2>4. Available' = Available
    BY <1>a, <2>3 DEF Available, FreeSlots
  <2> QED
    BY <1>a, <2>1, <2>2, <2>3, <2>4 DEF Loop
<1>6. CASE CtrlProcess
  <2>1. CASE Head(mbox) = ShutdownMsg
    BY <1>2, <1>6, <2>1 DEF CtrlProcess
  <2>2. CASE Head(mbox) # ShutdownMsg
    <3>1. pc' = "session" /\ UNCHANGED <<fds, backlog>> /\ pc = "control" /\ mbox # <<>>
      BY <1>6, <2>2 DEF CtrlProcess, Loop
    <3>2. Same \/ \E s \in Slots : Freed(s)
      <4>1. CASE Head(mbox).kind = "close"
        <5>1. PICK s \in Slots : Head(mbox) = CloseMsg(s)
          <6>1. Head(mbox) \in Msgs
            BY <3>1 DEF TypeOK
          <6> QED
            BY <4>1, <6>1, MessagesDiffer DEF Msgs
        <5>2. CloseWork(s)
          BY <1>6, <4>1, <5>1, MessagesDiffer DEF CtrlProcess
        <5>3. CASE UNCHANGED <<tableVars, input>>
          BY <5>3 DEF Same
        <5>4. CASE DeleteIn([sd EXCEPT ![s].purge = FALSE], s)
          <6>1. TypeOK /\ Table
            BY <1>0
          <6> QED
            BY <5>4, <6>1, UnmarkedFacts, DeleteMoves
        <5> QED
          BY <5>2, <5>3, <5>4 DEF CloseWork
      <4>2. CASE Head(mbox).kind # "close"
        BY <1>6, <4>2 DEF CtrlProcess, Same
      <4> QED
        BY <4>1, <4>2
    <3> QED
      BY <1>3, <3>1, <3>2
  <2> QED
    BY <2>1, <2>2
<1>7. CASE Serve \/ QueueSelf \/ \E w \in Workers : ServeAsync(w)
  <2>1. PICK a \in BOOLEAN : Served(a)
    BY <1>7 DEF Serve, QueueSelf, ServeAsync
  <2>2. ToProcess # {} /\ pc \in {"session", "queue"}
    BY <1>7 DEF Serve, QueueSelf, ServeAsync, Requested, Loop
  <2>3. pc' = "session" /\ fds' \subseteq fds /\ Same /\ UNCHANGED backlog
    BY <2>1, <2>2, ServedMoves DEF Served
  <2> QED
    BY <1>3, <2>2, <2>3
<1>8. CASE ServeSelf
  <2>1. ToProcess # {} /\ pc = "session" /\ pc' = "queue" /\ "self" \in config.uses
    BY <1>8 DEF ServeSelf, Requested
  <2>2. UNCHANGED <<fds, mbox, backlog, sd, active>>
    BY <1>8 DEF ServeSelf
  <2>3. ToProcess' = ToProcess /\ FreeSlots' = FreeSlots
    BY <1>a, <2>2 DEF ToProcess, FreeSlots
  <2> QED
    BY <1>a, <2>1, <2>2, <2>3 DEF Loop, Available
<1>9. CASE EndSession
  <2>1. Same \/ Freed(Current)
    BY <1>9, CurrentFacts, DeleteMoves DEF EndSession, Delete, TypeOK
  <2> QED
    BY <1>3, <1>9, <2>1, CurrentFacts DEF EndSession
<1>10. CASE NoAccept \/ Purge \/ Accept \/ Exit \/ Start
  BY <1>2, <1>10 DEF NoAccept, Purge, Accept, Looked, Exit, Start
<1>11. CASE Connect
  <2>1. backlog' # <<>> /\ UNCHANGED <<pc, fds, mbox, sd, active>>
    <3>1. \E c : backlog' = Append(backlog, c)
      BY <1>11 DEF Connect
    <3>2. backlog \in Seq(Conns)
      BY DEF TypeOK
    <3> QED
      BY <1>11, <3>1, <3>2 DEF Connect
  <2> QED
    BY <1>1, <2>1 DEF Same
<1>12. ASSUME NEW m \in Msgs, Post(m) PROVE mbox # <<>> => mbox' # <<>>
  <2>1. mbox \in Seq(Msgs) /\ mbox' \in Seq(Msgs) /\ Len(mbox') >= Len(mbox)
    BY <1>12, MailFacts DEF TypeOK
  <2> QED
    BY <2>1
<1>13. CASE Stopper \/ StopBegins
  <2>1. mbox # <<>> => mbox' # <<>>
    BY <1>12, <1>13 DEF Stopper, StopTakes, StopSends, StopSendFails, StopDeletes, StopBegins, Msgs
  <2> QED
    BY <1>1, <1>13, <2>1
    DEF Stopper, StopTakes, StopSends, StopSendFails, StopDeletes, StopBegins, Same
<1>14. ASSUME NEW w \in Workers, Worker(w) \/ Call(w) PROVE Loop'
  <2>1. CASE Complete(w)
    <3>1. \A s \in Slots : sd'[s].fd = sd[s].fd
      BY <2>1 DEF Complete, TypeOK, Session
    <3> QED
      BY <1>1, <2>1, <3>1 DEF Complete, Same
  <2>2. CASE SendMsg(w)
    <3>1. mbox # <<>> => mbox' # <<>>
      BY <1>12, <2>2 DEF SendMsg, Jobs
    <3> QED
      BY <1>1, <2>2, <3>1 DEF SendMsg, Same
  <2>3. CASE Call(w) \/ Take(w) \/ TakeFails(w) \/ SendFails(w)
    BY <1>1, <2>3 DEF Call, Take, TakeFails, SendFails, Same
  <2> QED
    BY <1>14, <2>1, <2>2, <2>3 DEF Worker
<1>15. ASSUME NEW c \in Conns, Send(c) \/ Hangup(c) PROVE Loop'
  BY <1>1, <1>15 DEF Send, Hangup, Same
<1> QED
  BY <1>4, <1>5, <1>6, <1>7, <1>8, <1>9, <1>10, <1>11, <1>13, <1>14, <1>15 DEF Next, Httpd


(* Where no other task closes sessions: what a datagram or a worker's       *)
(* message is not.                                                          *)
LEMMA NoClosingStep ==
  ASSUME IInv, TypeOK', Next, OnlyTaskCloses
  PROVE  /\ \A i \in 1 .. Len(mbox') : ~Closes(mbox'[i])
         /\ \A w \in Workers : wjob'[w].at \in {"take", "send"} => ~Closes(wjob'[w].msg)
<1>0. TypeOK /\ Jobs /\ Loop /\ Async
  BY DEF IInv
<1>1. /\ \A i \in 1 .. Len(mbox) : ~Closes(mbox[i])
      /\ \A w \in Workers : wjob[w].at \in {"take", "send"} => ~Closes(wjob[w].msg)
  BY <1>0 DEF Async
<1>2. ~Closes(WorkMsg) /\ ~Closes(DummyMsg) /\ ~Closes(ShutdownMsg)
  BY MessagesDiffer DEF Closes
<1>3. \A i \in 1 .. Len(mbox') : ~Closes(mbox'[i])
  <2>1. ASSUME NEW m \in Msgs, Post(m), ~Closes(m) PROVE \A i \in 1 .. Len(mbox') : ~Closes(mbox'[i])
    BY <1>0, <1>1, <2>1, MailFacts
  <2>2. CASE CtrlProcess
    <3>1. mbox # <<>> /\ mbox \in Seq(Msgs) /\ mbox' = Tail(mbox)
      BY <1>0, <2>2 DEF CtrlProcess, Loop, TypeOK
    <3>2. \A i \in 1 .. Len(mbox') : i + 1 \in 1 .. Len(mbox) /\ mbox'[i] = mbox[i + 1]
      BY <3>1
    <3> QED
      BY <1>1, <3>2
  <2>3. CASE Purge
    <3>1. mbox' = mbox
      BY <2>3 DEF Purge, MustPurge, OnlyTaskCloses
    <3> QED
      BY <1>1, <3>1
  <2>4. CASE QueueSelf
    BY <1>0, <2>4 DEF QueueSelf, Loop, OnlyTaskCloses
  <2>5. CASE Exit
    BY <2>5 DEF Exit
  <2>6. ASSUME NEW w \in Workers, SendMsg(w) PROVE \A i \in 1 .. Len(mbox') : ~Closes(mbox'[i])
    BY <1>0, <1>1, <2>1, <2>6 DEF SendMsg, Jobs
  <2>7. CASE StopSends
    BY <1>2, <2>1, <2>7 DEF StopSends, Msgs
  <2>8. CASE mbox' = mbox
    BY <1>1, <2>8
  <2> QED
    BY <2>2, <2>3, <2>4, <2>5, <2>6, <2>7, <2>8
    DEF Next, Httpd, Stopper, Worker, Prepare, Select, Serve, ServeAsync, ServeSelf, EndSession, NoAccept,
        Accept, StopBegins, StopTakes, StopSendFails, StopDeletes, Start, Connect, Send, Hangup, Call,
        Take, TakeFails, SendFails, Complete
<1>4. ASSUME NEW w \in Workers, wjob'[w].at \in {"take", "send"} PROVE ~Closes(wjob'[w].msg)
  <2>1. ASSUME NEW v \in Workers, NEW j, wjob' = [wjob EXCEPT ![v] = j],
               j.at \in {"take", "send"} => ~Closes(j.msg)
        PROVE  ~Closes(wjob'[w].msg)
    <3>1. wjob'[w] = IF w = v THEN j ELSE wjob[w]
      BY <1>0, <2>1 DEF TypeOK
    <3> QED
      BY <1>1, <1>4, <2>1, <3>1
  <2>2. ASSUME NEW v \in Workers, Call(v) PROVE ~Closes(wjob'[w].msg)
    <3>1. wjob' = [wjob EXCEPT ![v] = Job("take", WorkMsg)]
      BY <2>2 DEF Call, Set, OnlyTaskCloses
    <3>2. Job("take", WorkMsg).msg = WorkMsg
      BY DEF Job
    <3> QED
      BY <1>2, <2>1, <3>1, <3>2
  <2>3. ASSUME NEW v \in Workers, Take(v) PROVE ~Closes(wjob'[w].msg)
    <3>1. wjob' = [wjob EXCEPT ![v] = [wjob[v] EXCEPT !.at = "send"]] /\ wjob[v].at = "take"
      BY <2>3 DEF Take, Set
    <3>2. [wjob[v] EXCEPT !.at = "send"].msg = wjob[v].msg
      BY <1>0 DEF TypeOK
    <3> QED
      BY <1>1, <2>1, <3>1, <3>2
  <2>4. ASSUME NEW v \in Workers, TakeFails(v) \/ SendMsg(v) \/ SendFails(v) PROVE ~Closes(wjob'[w].msg)
    <3>1. wjob' = [wjob EXCEPT ![v] = Idle]
      BY <2>4 DEF TakeFails, SendMsg, SendFails, Set
    <3> QED
      BY <2>1, <3>1, MessagesDiffer
  <2>5. ASSUME NEW v \in Workers, Complete(v) PROVE ~Closes(wjob'[w].msg)
    <3>1. wjob' = [wjob EXCEPT ![v] = Job("take", DummyMsg)]
      BY <2>5 DEF Complete, Set
    <3>2. Job("take", DummyMsg).msg = DummyMsg
      BY DEF Job
    <3> QED
      BY <1>2, <2>1, <3>1, <3>2
  <2>6. ASSUME NEW v \in Workers, ServeAsync(v) PROVE ~Closes(wjob'[w].msg)
    <3>1. wjob' = [wjob EXCEPT ![v] = Job("async", Request(Current, Conn))]
      BY <2>6 DEF ServeAsync
    <3>2. Job("async", Request(Current, Conn)).at = "async"
      BY DEF Job
    <3> QED
      BY <2>1, <3>1, <3>2
  <2>7. CASE wjob' = wjob
    BY <1>1, <1>4, <2>7
  <2> QED
    BY <2>2, <2>3, <2>4, <2>5, <2>6, <2>7
    DEF Next, Httpd, Stopper, Worker, Prepare, Select, CtrlProcess, Serve, Served, ServeSelf, QueueSelf,
        EndSession, NoAccept, Purge, Accept, Looked, Exit, StopBegins, StopTakes, StopSends, StopSendFails,
        StopDeletes, Start, Connect, Send, Hangup
<1> QED
  BY <1>3, <1>4

(* Which sessions are in asynchronous use after a step, and what select()   *)
(* watches then.                                                            *)
LEMMA WatchedStep ==
  ASSUME IInv, TypeOK', Next
  PROVE  \A s \in Slots : sd'[s].async => sd'[s].fd \notin fds'
<1>0. TypeOK /\ Loop /\ Table /\ \A s \in Slots : sd[s].async => sd[s].fd \notin fds
  BY DEF IInv, Async
<1>a. NoConn \notin fds' /\ NoConn \notin fds /\ Slots' = Slots
  BY <1>0, ConfigKept, SlotFacts, HttpServerAssumption DEF TypeOK
<1>1. ASSUME NEW s \in Slots, sd'[s].async, sd[s].async, sd'[s].fd \in {sd[s].fd, NoConn},
             fds' \cap Conns \subseteq fds
      PROVE  sd'[s].fd \notin fds'
  <2>1. sd'[s].fd \in Conns \cup {NoConn}
    BY <1>a DEF TypeOK, Session
  <2> QED
    BY <1>0, <1>1, <1>a, <2>1
<1> SUFFICES ASSUME NEW s \in Slots, sd'[s].async PROVE sd'[s].fd \notin fds'
  OBVIOUS
<1>2. CASE Prepare
  <2>1. sd' = sd /\ fds' \cap Conns \subseteq {sd[q].fd : q \in Purgeable}
    BY <1>2, HttpServerAssumption DEF Prepare
  <2>2. ASSUME NEW q \in Purgeable PROVE sd[q].fd # sd[s].fd
    BY <1>0, <2>1 DEF Purgeable, Table, Distinct
  <2>3. sd[s].fd \in Conns \cup {NoConn}
    BY <1>0 DEF TypeOK, Session
  <2> QED
    BY <1>a, <2>1, <2>2, <2>3
<1>3. CASE Select
  <2>1. sd' = sd /\ fds' \cap Conns \subseteq fds
    BY <1>3, HttpServerAssumption DEF Select, Ready
  <2> QED
    BY <1>1, <2>1
<1>4. ASSUME NEW a \in BOOLEAN, Served(a), ToProcess # {} PROVE sd'[s].fd \notin fds'
  <2>1. sd'[s].fd = sd[s].fd /\ fds' = fds \ {Conn} /\ Conn = sd[Current].fd
    BY <1>0, <1>4, ServedMoves, CurrentFacts DEF Same
  <2>2. CASE s = Current
    BY <2>1, <2>2
  <2>3. CASE s # Current
    BY <1>0, <1>4, <2>1, <2>3, ServedMoves
  <2> QED
    BY <2>2, <2>3
<1>5. CASE Serve \/ QueueSelf \/ \E w \in Workers : ServeAsync(w)
  BY <1>0, <1>4, <1>5 DEF Serve, QueueSelf, ServeAsync, Requested, Loop
<1>6. ASSUME NEW q \in Slots, NEW table \in [Slots -> Session], DeleteIn(table, q), fds' \subseteq fds,
             \A p \in Slots : table[p].fd = sd[p].fd /\ table[p].async = sd[p].async
      PROVE  sd'[s].fd \notin fds'
  <2>1. sd'[s].async = sd[s].async /\ (Same \/ Freed(q))
    BY <1>0, <1>6, DeleteMoves
  <2>2. sd'[s].fd \in {sd[s].fd, NoConn}
    BY <2>1 DEF Same, Freed
  <2> QED
    BY <1>1, <1>6, <2>1, <2>2
<1>7. CASE EndSession
  <2>1. DeleteIn(sd, Current) /\ Current \in Slots /\ fds' \subseteq fds /\ sd \in [Slots -> Session]
    BY <1>0, <1>7, CurrentFacts DEF EndSession, Delete, TypeOK
  <2> QED
    BY <1>6, <2>1
<1>8. CASE CtrlProcess
  <2>1. fds' = fds /\ mbox # <<>> /\ Head(mbox) \in Msgs
    BY <1>0, <1>8 DEF CtrlProcess, Loop, TypeOK
  <2>2. CASE Head(mbox).kind = "close"
    <3>1. PICK q \in Slots : Head(mbox) = CloseMsg(q)
      BY <2>1, <2>2, MessagesDiffer DEF Msgs
    <3>2. CloseWork(q)
      BY <1>8, <2>2, <3>1, MessagesDiffer DEF CtrlProcess
    <3>3. CASE sd' = sd
      BY <1>0, <2>1, <3>3
    <3>4. CASE DeleteIn([sd EXCEPT ![q].purge = FALSE], q)
      BY <1>0, <1>6, <2>1, <3>4, UnmarkedFacts
    <3> QED
      BY <3>2, <3>3, <3>4 DEF CloseWork
  <2>3. CASE Head(mbox).kind # "close"
    BY <1>0, <1>8, <2>1, <2>3 DEF CtrlProcess
  <2> QED
    BY <2>2, <2>3
<1>9. CASE NoAccept \/ Purge \/ Accept \/ Exit \/ Start
  BY <1>9 DEF NoAccept, Purge, Accept, Looked, Exit, Start
<1>10. CASE UNCHANGED <<sd, fds>>
  BY <1>0, <1>10
<1>11. ASSUME NEW w \in Workers, Complete(w) PROVE sd'[s].fd \notin fds'
  <2>1. sd' = [sd EXCEPT ![wjob[w].msg.slot].async = FALSE] /\ fds' = fds
    BY <1>11 DEF Complete
  <2>2. sd'[s].fd = sd[s].fd /\ sd[s].async
    BY <1>0, <2>1 DEF TypeOK, Session
  <2> QED
    BY <1>1, <2>1, <2>2
<1> QED
  BY <1>2, <1>3, <1>5, <1>7, <1>8, <1>9, <1>10, <1>11
  DEF Next, Httpd, Stopper, Worker, ServeSelf, StopBegins, StopTakes, StopSends, StopSendFails,
      StopDeletes, Connect, Send, Hangup, Call, Take, TakeFails, SendMsg, SendFails


(* Where no other task closes sessions, a session in asynchronous use keeps *)
(* its connection until the worker that has it is done.                     *)
LEMMA HeldStep ==
  ASSUME IInv, TypeOK', Next, OnlyTaskCloses, stopper = "idle", status # "off",
         NEW s \in Slots, sd[s].async, sd[s].fd \in Conns,
         \A w \in Workers : Complete(w) => wjob[w].msg.slot # s
  PROVE  sd'[s].fd = sd[s].fd /\ sd'[s].async
<1>0. TypeOK /\ Loop /\ Stops /\ Async /\ sd[s].fd # NoConn /\ sd[s].fd \notin fds
  BY HttpServerAssumption DEF IInv, Async
<1>1. ASSUME NEW q \in Slots, DeleteIn(sd, q), q # s PROVE sd'[s] = sd[s]
  BY <1>0, <1>1 DEF DeleteIn, TypeOK
<1>2. CASE CtrlProcess
  <2>1. mbox # <<>> /\ mbox \in Seq(Msgs)
    BY <1>0, <1>2 DEF CtrlProcess, Loop, TypeOK
  <2>2. 1 \in 1 .. Len(mbox) /\ Head(mbox) = mbox[1] /\ Head(mbox) \in Msgs
    BY <2>1
  <2>3. ~Closes(Head(mbox))
    BY <1>0, <2>2 DEF Async
  <2>4. Head(mbox).kind # "close"
    BY <2>2, <2>3, MessagesDiffer DEF Msgs, Closes
  <2> QED
    BY <1>2, <2>4 DEF CtrlProcess
<1>3. ASSUME NEW a \in BOOLEAN, Served(a), ToProcess # {} PROVE sd'[s].fd = sd[s].fd /\ sd'[s].async
  <2>1. s # Current
    BY <1>0, <1>3, CurrentFacts
  <2> QED
    BY <1>0, <1>3, <2>1, ServedMoves DEF Same
<1>4. CASE Serve \/ QueueSelf \/ \E w \in Workers : ServeAsync(w)
  BY <1>0, <1>3, <1>4 DEF Serve, QueueSelf, ServeAsync, Requested, Loop
<1>5. CASE EndSession
  <2>1. Current \in Slots /\ Current # s /\ DeleteIn(sd, Current)
    BY <1>0, <1>5, CurrentFacts DEF EndSession, Delete
  <2> QED
    BY <1>1, <2>1
<1>6. CASE Purge
  <2>1. CASE Purgeable = {}
    BY <1>6, <2>1 DEF Purge
  <2>2. CASE Purgeable # {}
    <3>1. config.blocking
      BY <1>6 DEF Purge, MustPurge, OnlyTaskCloses
    <3>2. DeleteIn(sd, Oldest) /\ Oldest \in Slots /\ Oldest # s
      BY <1>0, <1>6, <2>2, <3>1, OldestFacts DEF Purge, Delete, Purgeable
    <3> QED
      BY <1>1, <3>2
  <2> QED
    BY <2>1, <2>2
<1>7. CASE Accept
  <2>1. Available
    BY <1>0, <1>7 DEF Accept, Looked, Loop, MustPurge
  <2>2. FirstFree \in Slots /\ FirstFree # s
    BY <1>0, <2>1, FirstFreeFacts DEF Available, FreeSlots
  <2>3. sd'[s] = sd[s]
    BY <1>0, <1>7, <2>2 DEF Accept, TypeOK
  <2> QED
    BY <2>3
<1>8. CASE Exit \/ Start
  BY <1>0, <1>8 DEF Exit, Start, Stops
<1>9. ASSUME NEW w \in Workers, Complete(w) PROVE sd'[s].fd = sd[s].fd /\ sd'[s].async
  <2>1. sd' = [sd EXCEPT ![wjob[w].msg.slot].async = FALSE] /\ wjob[w].msg.slot # s
    BY <1>9 DEF Complete
  <2>2. sd'[s] = sd[s]
    BY <1>0, <2>1 DEF TypeOK
  <2> QED
    BY <2>2
<1>10. CASE sd' = sd
  BY <1>10
<1> QED
  BY <1>2, <1>4, <1>5, <1>6, <1>7, <1>8, <1>9, <1>10
  DEF Next, Httpd, Stopper, Worker, Prepare, Select, ServeSelf, NoAccept, StopBegins, StopTakes, StopSends,
      StopSendFails, StopDeletes, Connect, Send, Hangup, Call, Take, TakeFails, SendMsg, SendFails

(* A request is only being answered by a worker because it already was, or  *)
(* because its handler has just handed it over.                             *)
LEMMA AnsweringStep ==
  ASSUME IInv, Next, NEW w \in Workers, wjob'[w].at = "async"
  PROVE  \/ wjob[w].at = "async" /\ wjob'[w] = wjob[w] /\ ~Complete(w)
         \/ ServeAsync(w)
<1>0. TypeOK
  BY DEF IInv
<1>1. ASSUME NEW v \in Workers, Call(v) PROVE v # w /\ wjob'[w] = wjob[w]
  <2>1. PICK m : wjob' = [wjob EXCEPT ![v] = Job("take", m)]
    BY <1>1 DEF Call, Set
  <2> QED
    BY <1>0, <2>1 DEF Job, TypeOK
<1>2. ASSUME NEW v \in Workers, Take(v) PROVE v # w /\ wjob'[w] = wjob[w]
  <2>1. wjob' = [wjob EXCEPT ![v] = [wjob[v] EXCEPT !.at = "send"]]
    BY <1>2 DEF Take, Set
  <2>2. [wjob[v] EXCEPT !.at = "send"].at = "send"
    BY <1>0 DEF TypeOK
  <2> QED
    BY <1>0, <2>1, <2>2 DEF TypeOK
<1>3. ASSUME NEW v \in Workers, TakeFails(v) \/ SendMsg(v) \/ SendFails(v) PROVE v # w /\ wjob'[w] = wjob[w]
  <2>1. wjob' = [wjob EXCEPT ![v] = Idle]
    BY <1>3 DEF TakeFails, SendMsg, SendFails, Set
  <2> QED
    BY <1>0, <2>1, MessagesDiffer DEF TypeOK
<1>4. ASSUME NEW v \in Workers, Complete(v) PROVE v # w /\ wjob'[w] = wjob[w]
  <2>1. wjob' = [wjob EXCEPT ![v] = Job("take", DummyMsg)]
    BY <1>4 DEF Complete, Set
  <2> QED
    BY <1>0, <2>1 DEF Job, TypeOK
<1>5. ASSUME NEW v \in Workers, ServeAsync(v), v # w PROVE wjob'[w] = wjob[w]
  BY <1>0, <1>5 DEF ServeAsync, TypeOK
<1>7. ASSUME ~\E v \in Workers : Call(v) \/ Worker(v) \/ ServeAsync(v) PROVE wjob' = wjob
  BY <1>7 DEF Next, Httpd, Stopper, Prepare, Select, CtrlProcess, Serve, Served, ServeSelf, QueueSelf,
        EndSession, NoAccept, Purge, Accept, Looked, Exit, StopBegins, StopTakes, StopSends, StopSendFails,
        StopDeletes, Start, Connect, Send, Hangup
<1>8. ~Complete(w)
  BY <1>4
<1> QED
  BY <1>1, <1>2, <1>3, <1>4, <1>5, <1>7, <1>8 DEF Worker

(* Every step keeps what is known of sessions in asynchronous use.          *)
LEMMA AsyncStep == IInv /\ TypeOK' /\ Stops' /\ Next => Async' /\ AsyncKept'
<1> SUFFICES ASSUME IInv, TypeOK', Stops', Next PROVE Async' /\ AsyncKept'
  OBVIOUS
<1>0. TypeOK /\ Jobs /\ Stops /\ Loop /\ Async /\ AsyncKept
  BY DEF IInv
<1>a. Slots' = Slots /\ config' = config /\ (OnlyTaskCloses' <=> OnlyTaskCloses)
  BY <1>0, ConfigKept, SlotFacts DEF OnlyTaskCloses
<1>b. \A m : Closes(m)' <=> Closes(m)
  BY <1>a DEF Closes
<1>1. \A s \in Slots' : sd'[s].async => sd'[s].fd \notin fds'
  BY <1>a, WatchedStep
<1>2. ASSUME OnlyTaskCloses, NEW w \in Workers, wjob'[w].at = "async", ~ServeAsync(w)
      PROVE  /\ wjob[w].at = "async" /\ wjob'[w] = wjob[w] /\ wjob[w].msg.slot \in Slots
             /\ sd[wjob[w].msg.slot].fd = wjob[w].msg.conn /\ sd[wjob[w].msg.slot].async
             /\ sd'[wjob[w].msg.slot].fd = wjob[w].msg.conn /\ sd'[wjob[w].msg.slot].async
  <2>1. wjob[w].at = "async" /\ wjob'[w] = wjob[w] /\ ~Complete(w)
    BY <1>2, AnsweringStep
  <2>2. wjob[w].msg \in Requests
    BY <1>0, <2>1 DEF Jobs
  <2>3. wjob[w].msg.slot \in Slots /\ wjob[w].msg.conn \in Conns
    BY <2>2, MessagesDiffer DEF Requests
  <2>4. sd[wjob[w].msg.slot].fd = wjob[w].msg.conn /\ sd[wjob[w].msg.slot].async
    BY <1>0, <1>2, <2>1 DEF AsyncKept, OnlyTaskCloses
  <2>5. stopper = "idle" /\ status # "off"
    BY <1>0, <2>1, MessagesDiffer DEF Stops, Halted
  <2>6. \A v \in Workers : Complete(v) => wjob[v].msg.slot # wjob[w].msg.slot
    BY <1>0, <1>2, <2>1 DEF Complete, Async
  <2>7. /\ sd'[wjob[w].msg.slot].fd = sd[wjob[w].msg.slot].fd
        /\ sd'[wjob[w].msg.slot].async
    BY <1>2, <2>3, <2>4, <2>5, <2>6, HeldStep
  <2> QED
    BY <2>1, <2>3, <2>4, <2>7
<1>3. ASSUME NEW w \in Workers, ServeAsync(w)
      PROVE  /\ wjob'[w].msg.slot = Current /\ wjob'[w].msg.conn = sd[Current].fd
             /\ Current \in Slots /\ sd[Current].fd \in fds
             /\ sd'[Current].fd = sd[Current].fd /\ sd'[Current].async
             /\ \A v \in Workers \ {w} : wjob'[v] = wjob[v]
  <2>1. /\ wjob' = [wjob EXCEPT ![w] = Job("async", Request(Current, Conn))]
        /\ ToProcess # {} /\ Served(TRUE)
    BY <1>3 DEF ServeAsync, Requested
  <2>2. wjob'[w].msg = Request(Current, Conn) /\ \A v \in Workers \ {w} : wjob'[v] = wjob[v]
    BY <1>0, <2>1 DEF Job, TypeOK
  <2>3. Current \in Slots /\ Conn = sd[Current].fd /\ Conn \in fds
    BY <1>0, <2>1, CurrentFacts
  <2>4. sd'[Current].async /\ sd'[Current].fd = sd[Current].fd
    BY <1>0, <2>1, <2>3, ServedMoves DEF Same
  <2> QED
    BY <2>2, <2>3, <2>4, MessagesDiffer
<1>4. AsyncKept'
  BY <1>2, <1>3, <1>a DEF AsyncKept, OnlyTaskCloses
<1>5. ASSUME OnlyTaskCloses, NEW w \in Workers, NEW v \in Workers,
             wjob'[w].at = "async", wjob'[v].at = "async", wjob'[w].msg.slot = wjob'[v].msg.slot, w # v
      PROVE  FALSE
  <2>1. CASE ServeAsync(w)
    <3>1. ~ServeAsync(v)
      <4>1. wjob'[v] = wjob[v]
        BY <1>3, <1>5, <2>1
      <4> QED
        BY <1>5, <4>1, MessagesDiffer DEF ServeAsync
    <3>2. sd[Current].async
      BY <1>2, <1>3, <1>5, <2>1, <3>1
    <3> QED
      BY <1>0, <1>3, <2>1, <3>2 DEF Async
  <2>2. CASE ServeAsync(v)
    <3>1. ~ServeAsync(w)
      <4>1. wjob'[w] = wjob[w]
        BY <1>3, <1>5, <2>2
      <4> QED
        BY <1>5, <4>1, MessagesDiffer DEF ServeAsync
    <3>2. sd[Current].async
      BY <1>2, <1>3, <1>5, <2>2, <3>1
    <3> QED
      BY <1>0, <1>3, <2>2, <3>2 DEF Async
  <2>3. CASE ~ServeAsync(w) /\ ~ServeAsync(v)
    BY <1>0, <1>2, <1>5, <2>3 DEF Async
  <2> QED
    BY <2>1, <2>2, <2>3
<1>6. OnlyTaskCloses => /\ \A i \in 1 .. Len(mbox') : ~Closes(mbox'[i])
                        /\ \A w \in Workers : wjob'[w].at \in {"take", "send"} => ~Closes(wjob'[w].msg)
  BY NoClosingStep
<1>7. Async'
  BY <1>1, <1>5, <1>6, <1>a, <1>b DEF Async, Closes
<1> QED
  BY <1>4, <1>7

-----------------------------------------------------------------------------
(* The invariant. *)

LEMMA Initially == Init => IInv
<1> SUFFICES ASSUME Init PROVE IInv
  OBVIOUS
<1>1. config \in Config /\ config.slots \in Nat \ {0} /\ Slots \subseteq Nat
  BY HttpServerAssumption DEF Init, Config, Slots
<1>2. FreeSession \in Session /\ FreeSession.fd = NoConn /\ ~FreeSession.async
  BY DEF FreeSession, Session
<1>3. Idle \in [at : {"idle", "take", "send", "async"}, msg : Msgs \cup Requests \cup {NoMsg}] /\ Idle.at = "idle"
  BY DEF Idle
<1>4. TypeOK
  BY <1>1, <1>2, <1>3, HttpServerAssumption DEF Init, TypeOK
<1>5. Jobs /\ Stops /\ Loop
  BY <1>3 DEF Init, Jobs, Stops, Halted, Loop
<1>6. Distinct
  BY <1>2 DEF Init, Distinct
<1>7. SessionsCounted
  <2>1. Slots \ FreeSlots = {} /\ Open = {}
    BY <1>2 DEF Init, FreeSlots, Open
  <2> QED
    BY <2>1, FS_EmptySet DEF Init, SessionsCounted
<1>8. PlacesAccounted
  <2>1. Senders = {}
    BY <1>3 DEF Init, Senders
  <2> QED
    BY <2>1, FS_EmptySet, HttpServerAssumption DEF Init, PlacesAccounted
<1>9. Async /\ AsyncKept
  BY <1>2, <1>3 DEF Init, Async, AsyncKept
<1> QED
  BY <1>4, <1>5, <1>6, <1>7, <1>8, <1>9 DEF IInv, Table

LEMMA InductiveStep == IInv /\ [Next]_vars => IInv'
<1> SUFFICES ASSUME IInv, [Next]_vars PROVE IInv'
  OBVIOUS
<1>1. CASE Next
  <2>1. TypeOK' /\ Jobs'
    BY <1>1, TypeStep
  <2>2. Table'
    BY <1>1, <2>1, ConfigKept, MovesStep, TableStep DEF IInv
  <2>3. Stops' /\ Loop' /\ PlacesAccounted'
    BY <1>1, <2>1, StopsStep, LoopStep, PlacesStep
  <2>4. Async' /\ AsyncKept'
    BY <1>1, <2>1, <2>3, AsyncStep
  <2> QED
    BY <2>1, <2>2, <2>3, <2>4 DEF IInv
<1>2. CASE UNCHANGED vars
  <2>1. Slots' = Slots /\ Msgs' = Msgs /\ Requests' = Requests
    BY <1>2 DEF Slots, Msgs, Requests, CloseMsg, Request
  <2>2. /\ Open' = Open /\ FreeSlots' = FreeSlots /\ Senders' = Senders /\ ToProcess' = ToProcess
        /\ Available' = Available
    BY <1>2, <2>1 DEF Open, FreeSlots, Senders, ToProcess, Available
  <2>3. TypeOK' /\ Jobs' /\ Stops' /\ Loop'
    BY <1>2, <2>1, <2>2 DEF IInv, TypeOK, Jobs, Stops, Halted, Loop
  <2>4. Table' /\ PlacesAccounted'
    BY <1>2, <2>1, <2>2 DEF IInv, Table, Distinct, SessionsCounted, PlacesAccounted
  <2>5. Async' /\ AsyncKept'
    BY <1>2, <2>1 DEF IInv, Async, AsyncKept, OnlyTaskCloses, Closes
  <2> QED
    BY <2>3, <2>4, <2>5 DEF IInv
<1> QED
  BY <1>1, <1>2

THEOREM IInvAlways == Spec => []IInv
  BY Initially, InductiveStep, PTL DEF Spec

(* Places in the mailbox of the control socket and sessions in the table    *)
(* are neither lost nor made up, however senders, the select loop, purges   *)
(* and a stop interleave: every place is free, reserved by a sender or held *)
(* by a datagram, the count of sessions is that of the table, and no        *)
(* connection is in two places.                                             *)
THEOREM PlacesAndSessionsCounted == Spec => []Accounted
<1>1. IInv => Accounted
  BY DEF IInv, Table, Accounted
<1> QED
  BY <1>1, IInvAlways, PTL

(* A task that answers a request asynchronously has the request's session,  *)
(* with the request's connection, until it says that it is done, in every   *)
(* build and use in which only the server's task closes sessions.           *)
THEOREM AnsweredOnItsOwnSession == Spec => []AsyncKept
<1>1. IInv => AsyncKept
  BY DEF IInv
<1> QED
  BY <1>1, IInvAlways, PTL

=============================================================================
