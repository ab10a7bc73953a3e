------------------------------ MODULE WebSocket ------------------------------
(***************************************************************************)
(* One WebSocket connection: the handshake, the frames the client sends,   *)
(* read byte by byte out of what the request parser put back and of the    *)
(* socket, the server's answers to PING and CLOSE, the handler that reads  *)
(* a frame whole, by its length or in parts, frames other tasks send       *)
(* through the work queue, and the close.  Source:                         *)
(* esp_http_server/src/httpd_ws.c, httpd_parse.c, httpd_uri.c.             *)
(*                                                                         *)
(* A byte the client sends is <<k, i>>: byte i of its frame k.  What the   *)
(* header's bytes say is modelled by their values; a payload byte is       *)
(* itself, masked with a byte of the frame's key, and a byte unmasked is   *)
(* the pair of the two.                                                    *)
(*                                                                         *)
(* The connection is the only one; a handler passes an error of a call on, *)
(* and returns ESP_OK when it has read the whole frame.  Opcodes are those *)
(* of httpd_ws_type_t, lengths below 2^31.                                 *)
(***************************************************************************)
EXTENDS Integers, Sequences, SequencesExt

CONSTANTS
  Talks,      \* what is explored: [upgrade, uri, frames, cut, asks]
  ControlMax, \* max_len for PING and CLOSE: 126
  ProtoBuf,   \* the list of subprotocols is cut to this length: 48
  PendingSize,\* sizeof(pending_data)
  MaxWorks,   \* what the work queue holds
  MaxSends    \* bound: frames other tasks send

Control == {"close", "ping", "pong"}

(* ext: the bytes of the extended length, which need not be the fewest.     *)
ClientFrames ==
  [type : Control \union {"continue", "text", "binary"}, final : BOOLEAN, masked : BOOLEAN,
   ext : {0, 2, 8}, len : Nat]

IsFrame(f) ==
  /\ f \in ClientFrames /\ f.len \div 65536 < 32768
  /\ (f.ext = 0 => f.len < 126) /\ (f.ext = 2 => f.len < 65536)

VARIABLES
  talk,        \* one of Talks
  inflow,      \* the client's bytes the server has not taken
  pending_len, \* how many of them are in the session's pending_data
  ws,          \* the session: open, and its ws_ members
  aux,         \* the request's ws_type, ws_final and mask_key
  pkt,         \* the handler's httpd_ws_frame_t
  where,       \* where the server is
  mistaken,        \* a byte was taken for what it is not
  handled,     \* history: the frames handlers read
  outflow,     \* history: what was sent
  works,       \* the work queue: closes and transfers
  sends        \* the transfers, by number: how each one stands

wsVars == <<talk, inflow, pending_len, ws, aux, pkt, where, mistaken, handled, outflow, works, sends>>

-----------------------------------------------------------------------------
(* Lengths on the wire.                                                     *)

(* The n bytes of v, the most significant first. *)
Weights == <<16777216, 65536, 256, 1>>
BigEndian(v, n) == [i \in 1..n |-> IF n - i > 3 THEN 0 ELSE (v \div Weights[4 - (n - i)]) % 256]

(* What 2 or 8 of them say. *)
Word(b, i) == Weights[1] * b[i] + Weights[2] * b[i + 1] + Weights[3] * b[i + 2] + b[i + 3]
Number(b) == IF Len(b) = 2 THEN 256 * b[1] + b[2] ELSE 65536 * (65536 * Word(b, 1)) + Word(b, 5)

(* The header after its first byte, as httpd_ws_send_frame_async() does it. *)
TxLength(len) ==
  IF len <= 125 THEN <<len>>
  ELSE IF len < 65535 THEN <<126>> \o BigEndian(len, 2)
  ELSE <<127>> \o BigEndian(len, 8)

(* How many bytes follow the second byte's seven bits, and what they say.   *)
ExtLen(init_len) == CASE init_len < 126 -> 0 [] init_len = 126 -> 2 [] init_len = 127 -> 8

RxLength(bytes) == IF Len(bytes) = 1 THEN bytes[1] ELSE Number(Tail(bytes))

(* The client's frames. *)
LengthBytes(f) ==
  CASE f.ext = 0 -> <<f.len>>
    [] f.ext = 2 -> <<126>> \o BigEndian(f.len, 2)
    [] f.ext = 8 -> <<127>> \o BigEndian(f.len, 8)

HeadLen(f) == 2 + f.ext + (IF f.masked THEN 4 ELSE 0)

FrameBytes(f, k) == [i \in 1..(HeadLen(f) + f.len) |-> <<k, i>>]

AllBytes(fs) == FlattenSeq([k \in 1..Len(fs) |-> FrameBytes(fs[k], k)])

(* What the client meant: payload byte i of frame k under its key.          *)
MeantPayload(f, k) == [i \in 1..f.len |-> <<<<k, HeadLen(f) + i>>, <<k, 3 + f.ext + ((i - 1) % 4)>>>>]

IsTalk(t) ==
  /\ t.frames \in Seq(ClientFrames) /\ \A k \in DOMAIN t.frames : IsFrame(t.frames[k])
  /\ t.cut \in 0..Len(AllBytes(t.frames)) /\ t.upgrade.protocols \in Seq(STRING)
  /\ t.uri.control_frames \in BOOLEAN /\ t.asks.partial \in BOOLEAN /\ t.asks.room \in Nat

ASSUME WsConstants ==
  /\ \A t \in Talks : IsTalk(t)
  /\ {ControlMax, ProtoBuf, PendingSize, MaxWorks, MaxSends} \subseteq Nat /\ ControlMax > 0

-----------------------------------------------------------------------------
(* httpd_recv_with_opt(): n bytes that are pending are there; others may    *)
(* not come.  After a failure the session is closed.                        *)
Comes(n) == Len(inflow) >= n
MayFail(n) == n > pending_len

(* httpd_ws_frame_t *)
Pkt(type, final, len, left_len, payload) ==
  [type |-> type, final |-> final, len |-> len, left_len |-> left_len, payload |-> payload]

NoPkt == Pkt("none", FALSE, 0, 0, <<>>)
Aux(type, final, mask_key) == [type |-> type, final |-> final, mask_key |-> mask_key]
NoAux == Aux("none", FALSE, <<>>)

Gets(n) == SubSeq(inflow, 1, n)
TakeBytes(n) ==
  /\ inflow' = SubSeq(inflow, n + 1, Len(inflow))
  /\ pending_len' = IF pending_len > n THEN pending_len - n ELSE 0

(* The part of httpd_ws_recv_frame_internal() that reads a frame's header   *)
(* behind the first byte, when the next byte is a second one.               *)
RxFrame == talk.frames[inflow[1][1]]
RxExt == ExtLen(LengthBytes(RxFrame)[1])

RxHead == 1 + RxExt + (IF RxFrame.masked THEN 4 ELSE 0)

RxMask == SubSeq(inflow, RxHead - 3, RxHead)

LessOf(a, b) == IF a < b THEN a ELSE b

(* Mutant: every part is unmasked from the key's first byte. *)
MutUnmask(bytes, key, mask_offset) ==
  [i \in 1..Len(bytes) |-> <<bytes[i], key[((i - 1) % 4) + 1]>>]

(* httpd_ws_unmask_payload() *)
Unmask(bytes, key, mask_offset) ==
  [i \in 1..Len(bytes) |-> <<bytes[i], key[((i - 1 + mask_offset) % 4) + 1]>>]

(* httpd_ws_recv_frame_internal() of the frame p with room for max_len      *)
(* bytes: the frame as it then is and the bytes taken, or an error.         *)
Where(c, outcome) == IF c THEN {outcome} ELSE {}

RecvError(p) == [ok |-> FALSE, pkt |-> p, key |-> aux.mask_key, taken |-> 0]
Received(p, key, taken) == [ok |-> TRUE, pkt |-> p, key |-> key, taken |-> taken]

RecvPayload(p, key, head, max_len, partial) ==
  LET n == LessOf(max_len, p.left_len)
      bytes == SubSeq(inflow, head + 1, head + n)
      payload == p.payload \o Unmask(bytes, key, p.len - p.left_len)
      read == Pkt(p.type, p.final, p.len, p.left_len - n, payload)
  IN IF max_len = 0 THEN {Received(p, key, head)}
     ELSE IF p.len > max_len /\ ~partial THEN {RecvError(p)}
     ELSE IF p.left_len = 0 THEN {Received(p, key, head)}
     ELSE Where(Comes(head + n), Received(read, key, head + n))
          \union Where(MayFail(head + n), RecvError(p))

RecvFrame(p, max_len, partial) ==
  IF p.len > 0 THEN RecvPayload(p, aux.mask_key, 0, max_len, partial)
  ELSE IF ~Comes(1) \/ ~Comes(RxHead) THEN {RecvError(p)}
  ELSE LET len == RxLength(LengthBytes(RxFrame))
           begun == Pkt(aux.type, aux.final, len, len, p.payload)
       IN Where(MayFail(RxHead), RecvError(begun))
          \union IF ~RxFrame.masked THEN {RecvError(begun)}
                 ELSE RecvPayload(begun, RxMask, RxHead, max_len, partial)

(* The next byte is not the second one of a frame, where one is asked for.  *)
Misread(p) == p.len = 0 /\ Comes(1) /\ inflow[1][2] # 2

-----------------------------------------------------------------------------
(* Sending: httpd_ws_send_frame_async() writes the header, then the payload *)
(* if there is one; each may fail.  What then is on the wire:               *)
Tx(type, by, data) == [type |-> type, by |-> by, data |-> data]
OnWire(frame, whole) == [type |-> frame.type, by |-> frame.by, data |-> frame.data, whole |-> whole]

FrameWritten(frame) ==
  {[ok |-> TRUE, out |-> Append(outflow, OnWire(frame, TRUE))], [ok |-> FALSE, out |-> outflow]}
  \union Where(frame.data # <<>>, [ok |-> FALSE, out |-> Append(outflow, OnWire(frame, FALSE))])

CloseWork == 0   \* in the queue; a transfer is its number

WsClosed == [ws EXCEPT !.open = FALSE]

(* The request is over: what is left of it, and of the session when the     *)
(* request failed.  httpd_req_cleanup() queues the close of a session that  *)
(* got a CLOSE frame, which may fail and is tried again with the next       *)
(* request; httpd_sess_process() failing deletes the session.               *)
WsCleanup ==
  /\ where \in {"done", "failed"}
  /\ \/ ws.close /\ Len(works) < MaxWorks /\ works' = Append(works, CloseWork)
     \/ UNCHANGED works
  /\ IF where = "failed" THEN ws' = WsClosed /\ where' = "closed"
                         ELSE UNCHANGED ws /\ where' = "idle"
  /\ aux' = NoAux /\ pkt' = NoPkt
  /\ UNCHANGED <<talk, inflow, pending_len, mistaken, handled, outflow, sends>>

(* name is one of the names in the list. *)
Lists(list, name) ==
  \E a \in 1..Len(list) :
     LET z == a + Len(name) IN
     /\ z <= Len(list) + 1 /\ SubSeq(list, a, z - 1) = name
     /\ a = 1 \/ list[a - 1] \in {",", " "}
     /\ z = Len(list) + 1 \/ list[z] \in {",", " "}

(* httpd_ws_get_response_subprotocol(), of the list as far as it fits.      *)
Subprotocol ==
  LET list == SubSeq(talk.upgrade.protocols, 1, LessOf(ProtoBuf, Len(talk.upgrade.protocols)))
      name == talk.uri.supported_subprotocol
  IN IF name # <<>> /\ Lists(list, name) THEN name ELSE <<>>

(* cb_headers_complete() takes an upgrade to "websocket" only.              *)
UpgradeTaken == talk.upgrade.to = "websocket"

(* What httpd_ws_respond_server_handshake() insists on.                     *)
HandshakeFits == talk.upgrade.version = "13" /\ talk.upgrade.key

(* The upgrade request, through cb_headers_complete() and httpd_uri(). The  *)
(* parser put back some of what the client sent behind it.                  *)
Handshake ==
  /\ where = "request" /\ talk.uri.is_websocket
  /\ \E n \in 0..LessOf(PendingSize, Len(inflow)) : pending_len' = n
  /\ \/ /\ UpgradeTaken /\ talk.uri.pre /\ HandshakeFits
        /\ outflow' = <<OnWire(Tx("101", "handshake", Subprotocol), TRUE)>>
        /\ ws' = [ws EXCEPT !.handshake_done = TRUE, !.control_frames = talk.uri.control_frames]
        /\ where' = IF talk.uri.post THEN "done" ELSE "failed"
     \/ where' = "failed" /\ UNCHANGED <<outflow, ws>>
  /\ UNCHANGED <<talk, inflow, aux, pkt, mistaken, handled, works, sends>>

-----------------------------------------------------------------------------
(* httpd_req_new() of a connection that has made its handshake.             *)

(* A session that is to be closed gets no more attention. *)
MarkedClose ==
  /\ where = "idle" /\ ws.open /\ ws.close
  /\ where' = "done"
  /\ UNCHANGED <<talk, inflow, pending_len, ws, aux, pkt, mistaken, handled, outflow, works, sends>>

Dispatched(type) == type \notin Control \/ type = "pong" \/ ws.control_frames

AnsweredFor(type) == ~ws.control_frames /\ type \in {"ping", "close"}

MarkIf(type) == ws' = [ws EXCEPT !.close = @ \/ type = "close"]

(* httpd_ws_get_frame_type(): a connection that is gone counts as a CLOSE,  *)
(* which nobody answers.                                                    *)
FirstByte ==
  /\ where = "idle" /\ ws.open /\ ~ws.close
  /\ IF inflow = <<>>
     THEN /\ aux' = Aux("close", TRUE, aux.mask_key)
          /\ where' = IF Dispatched("close") THEN "handler" ELSE "done"
          /\ MarkIf("close")
          /\ UNCHANGED <<inflow, pending_len, mistaken>>
     ELSE LET f == talk.frames[inflow[1][1]] IN
          /\ TakeBytes(1)
          /\ mistaken' = (inflow[1][2] # 1)
          /\ aux' = Aux(f.type, f.final, aux.mask_key)
          /\ where' = IF AnsweredFor(f.type) THEN "answer"
                      ELSE IF Dispatched(f.type) THEN "handler" ELSE "done"
          /\ IF AnsweredFor(f.type) THEN UNCHANGED ws ELSE MarkIf(f.type)
  /\ UNCHANGED <<talk, pkt, handled, outflow, works, sends>>

(* A PING is sent back as a PONG, a CLOSE as an empty one.                  *)
Answer ==
  /\ where = "answer" /\ mistaken' = Misread(NoPkt)
  /\ \E r \in RecvFrame(NoPkt, ControlMax, FALSE) :
       IF ~r.ok THEN where' = "failed" /\ UNCHANGED <<inflow, pending_len, aux, outflow>>
       ELSE /\ TakeBytes(r.taken)
            /\ aux' = Aux(aux.type, aux.final, r.key)
            /\ \E w \in FrameWritten(IF aux.type = "ping" THEN Tx("pong", "answer", r.pkt.payload)
                                                     ELSE Tx("close", "answer", <<>>)) :
                 outflow' = w.out /\ where' = IF w.ok THEN "done" ELSE "failed"
  /\ MarkIf(aux.type)
  /\ UNCHANGED <<talk, pkt, handled, works, sends>>

(* The handler asks for the length first, or reads at once, what it has     *)
(* room for or the next part of it.                                         *)
MaxLen ==
  IF pkt = NoPkt THEN (IF talk.asks.length_first THEN 0 ELSE talk.asks.room)
  ELSE IF talk.asks.partial THEN talk.asks.room ELSE pkt.len

(* Where the handler has all of the frame. *)
FrameRead == pkt # NoPkt /\ pkt.left_len = 0

(* httpd_ws_recv_frame(), httpd_ws_recv_frame_part() *)
HandlerReads ==
  /\ where = "handler" /\ ~FrameRead /\ mistaken' = Misread(pkt)
  /\ \E r \in RecvFrame(pkt, MaxLen, talk.asks.partial) :
       /\ pkt' = r.pkt
       /\ IF r.ok THEN TakeBytes(r.taken) /\ aux' = Aux(aux.type, aux.final, r.key) /\ UNCHANGED where
          ELSE where' = "failed" /\ UNCHANGED <<inflow, pending_len, aux>>
  /\ UNCHANGED <<talk, ws, handled, outflow, works, sends>>

(* The handler is done; it may send the frame back.                         *)
WsHandlerReturns ==
  /\ where = "handler" /\ FrameRead
  /\ handled' = Append(handled, [type |-> pkt.type, final |-> pkt.final, payload |-> pkt.payload])
  /\ IF talk.asks.echo
     THEN \E w \in FrameWritten(Tx(pkt.type, "handler", pkt.payload)) :
            outflow' = w.out /\ where' = IF w.ok THEN "done" ELSE "failed"
     ELSE where' \in {"done", "failed"} /\ UNCHANGED outflow
  /\ UNCHANGED <<talk, inflow, pending_len, ws, aux, pkt, mistaken, works, sends>>

-----------------------------------------------------------------------------
(* Other tasks, and the work they queue.                                    *)

(* httpd_ws_get_fd_info() *)
FdInfo ==
  IF ~ws.open THEN "invalid" ELSE IF ws.handshake_done /\ ~ws.close THEN "websocket" ELSE "http"

(* httpd_ws_send_data(), httpd_ws_send_data_async() of a task that looked   *)
(* whether the connection is a WebSocket.                                   *)
SendData ==
  /\ FdInfo = "websocket" /\ Len(sends) < MaxSends
  /\ \/ /\ Len(works) < MaxWorks
        /\ sends' = Append(sends, "queued") /\ works' = Append(works, Len(sends) + 1)
     \/ sends' = Append(sends, "refused") /\ UNCHANGED works
  /\ UNCHANGED <<talk, inflow, pending_len, ws, aux, pkt, where, mistaken, handled, outflow>>

(* httpd_ws_send_cb() and httpd_sess_close(), between two requests; who     *)
(* waits for the transfer is told.                                          *)
RunWork ==
  /\ where \in {"idle", "closed"} /\ works # <<>>
  /\ works' = Tail(works)
  /\ IF Head(works) = CloseWork
     THEN ws' = WsClosed /\ where' = "closed" /\ UNCHANGED <<outflow, sends>>
     ELSE /\ IF ws.open
             THEN \E w \in FrameWritten(Tx("text", "task", <<Head(works)>>)) :
                    outflow' = w.out /\ sends' = [sends EXCEPT ![Head(works)] = IF w.ok THEN "ok" ELSE "failed"]
             ELSE sends' = [sends EXCEPT ![Head(works)] = "failed"] /\ UNCHANGED outflow
          /\ UNCHANGED <<ws, where>>
  /\ UNCHANGED <<talk, inflow, pending_len, aux, pkt, mistaken, handled>>

WsInit ==
  /\ talk \in Talks
  /\ inflow = SubSeq(AllBytes(talk.frames), 1, talk.cut)
  /\ pending_len = 0 /\ aux = NoAux /\ pkt = NoPkt /\ where = "request" /\ mistaken = FALSE
  /\ ws = [open |-> TRUE, handshake_done |-> FALSE, close |-> FALSE, control_frames |-> FALSE]
  /\ handled = <<>> /\ outflow = <<>> /\ works = <<>> /\ sends = <<>>

WsNext ==
  /\ ~mistaken
  /\ \/ Handshake \/ MarkedClose \/ FirstByte \/ Answer \/ HandlerReads \/ WsHandlerReturns
     \/ WsCleanup \/ SendData \/ RunWork

WsSpec == WsInit /\ [][WsNext]_wsVars

-----------------------------------------------------------------------------
WsTypeOK ==
  /\ pending_len \in 0..Len(inflow) /\ mistaken \in BOOLEAN
  /\ where \in {"request", "idle", "answer", "handler", "done", "failed", "closed"}
  /\ \A n \in DOMAIN sends : sends[n] \in {"queued", "refused", "ok", "failed"}

(* val[i] of the i in S up to n, in their order. *)
Picked(n, S, val) ==
  LET picked[i \in 0..n] ==
        IF i = 0 THEN <<>> ELSE IF i \in S THEN Append(picked[i - 1], val[i]) ELSE picked[i - 1]
  IN picked[n]

AsHandled(k) == LET f == talk.frames[k] IN [type |-> f.type, final |-> f.final, payload |-> MeantPayload(f, k)]
AsAnswered(k) ==
  LET f == talk.frames[k] IN
  IF f.type = "ping" THEN Tx("pong", "answer", MeantPayload(f, k)) ELSE Tx("close", "answer", <<>>)

(* No frame before this one closed. *)
Reached(k) == \A i \in 1..(k - 1) : talk.frames[i].type # "close"

(* What handlers and the client are to get of the frames before frame k.    *)
Told(k) ==
  Picked(k - 1, {j \in DOMAIN talk.frames : Reached(j) /\ Dispatched(talk.frames[j].type)},
         [j \in DOMAIN talk.frames |-> AsHandled(j)])
Due(k) ==
  Picked(k - 1, {j \in DOMAIN talk.frames : Reached(j) /\ AnsweredFor(talk.frames[j].type)},
         [j \in DOMAIN talk.frames |-> AsAnswered(j)])

Answers ==
  Picked(Len(outflow), {j \in DOMAIN outflow : outflow[j].by = "answer"},
         [j \in DOMAIN outflow |-> Tx(outflow[j].type, outflow[j].by, outflow[j].data)])

(* Handlers and answers get the client's frames, each one once, in order,   *)
(* with its own payload under its own key, up to the CLOSE; between two     *)
(* frames none was left out and the next byte begins a frame.  After an     *)
(* error the session is closed (httpd_ws.c:252-383, 462-545).               *)
FramesInStep ==
  LET all == Len(talk.frames) + 1
  IN /\ ~mistaken
     /\ ws.handshake_done => IsPrefix(handled, Told(all)) /\ IsPrefix(Answers, Due(all))
     /\ where = "idle" /\ ~ws.close /\ inflow # <<>> =>
          inflow[1][2] = 1 /\ handled = Told(inflow[1][1]) /\ Answers = Due(inflow[1][1])
     /\ where = "idle" => \A j \in DOMAIN outflow : outflow[j].by = "answer" => outflow[j].whole

(* A task that sends is told the truth: its frame went out whole or not.    *)
SendersKnow ==
  \A n \in DOMAIN sends :
     /\ sends[n] = "ok" <=> \E j \in DOMAIN outflow :
                              outflow[j].by = "task" /\ outflow[j].data = <<n>> /\ outflow[j].whole
     /\ sends[n] = "queued" <=> \E j \in DOMAIN works : works[j] = n

(* Frames follow the answer to the handshake, which names a subprotocol     *)
(* only if the client asked for it and the URI has it - unless the client's *)
(* list was cut (httpd_ws.c:162-196).                                       *)
HandshakeTrue ==
  /\ outflow # <<>> => outflow[1].by = "handshake" /\ HandshakeFits
  /\ \A j \in DOMAIN outflow : outflow[j].by = "handshake" /\ outflow[j].data # <<>> =>
       /\ outflow[j].data = talk.uri.supported_subprotocol
       /\ Len(talk.upgrade.protocols) < ProtoBuf => Lists(talk.upgrade.protocols, outflow[j].data)

Lengths == {0, 1, 125, 126, 255, 256, 65534, 65535, 65536, 16777216}

(* Whoever reads a frame's header the way the server does gets its length.  *)
LengthsTravel ==
  \A len \in Lengths :
     /\ RxLength(TxLength(len)) = len /\ Len(TxLength(len)) = 1 + ExtLen(TxLength(len)[1])

(* What the two ends of a WebSocket connection rely on.                     *)
WebSocketRight == WsTypeOK /\ FramesInStep /\ SendersKnow /\ HandshakeTrue /\ LengthsTravel
=============================================================================
