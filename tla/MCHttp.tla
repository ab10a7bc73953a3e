---------------------------- MODULE MCHttp ----------------------------
(* The connections of the HTTP library that are explored: requests and      *)
(* their splits, WebSocket handshakes and frames.                           *)
EXTENDS HttpdParse, WebSocket

-----------------------------------------------------------------------------

H(f, v) == [f |-> f, v |-> v]

(* The buffer for the URL holds the first two sizes of URL; the last does   *)
(* not fit.  The headers fit, fill their buffer, or do not fit.             *)
MCHeaders ==
  {<<>>, <<H(1, 0)>>, <<H(1, 1)>>, <<H(2, 1)>>, <<H(1, 1), H(1, 2)>>,
   <<H(1, 0), H(1, 1)>>, <<H(1, 1), H(1, 0)>>}

MCFirst ==
  {s \in [url : {1, 2, 4}, hdrs : MCHeaders, body : 0..2] : s.hdrs = <<>> => s.body = 0}

MCSecond ==
  {[url |-> 1, hdrs |-> <<>>, body |-> 0], [url |-> 1, hdrs |-> <<H(1, 0)>>, body |-> 0],
   [url |-> 1, hdrs |-> <<H(1, 1)>>, body |-> 1]}

MCRestShape == [url |-> 1, hdrs |-> <<>>, body |-> 0]

MCStreams == MCFirst \X MCSecond

-----------------------------------------------------------------------------
(* The WebSocket connections that are explored: frames in every form of     *)
(* length, with and without control frames for the handler, cut anywhere,   *)
(* read by handlers of three kinds; and handshakes of every kind.           *)

Frm(type, final, ext, len) == [type |-> type, final |-> final, masked |-> TRUE, ext |-> ext, len |-> len]

FrameLists ==
  {<<Frm("text", FALSE, 0, 3), Frm("ping", TRUE, 0, 2), Frm("continue", TRUE, 2, 1), Frm("close", TRUE, 0, 2)>>,
   <<Frm("pong", TRUE, 0, 0), Frm("binary", TRUE, 8, 5), Frm("close", TRUE, 0, 0), Frm("text", TRUE, 0, 1)>>,
   <<Frm("ping", TRUE, 0, 0), Frm("ping", TRUE, 2, 4), Frm("text", TRUE, 0, 1), Frm("ping", TRUE, 0, 5)>>,
   <<Frm("text", TRUE, 0, 0), [Frm("binary", TRUE, 0, 2) EXCEPT !.masked = FALSE]>>}

Asks(length_first, partial, room, echo) ==
  [length_first |-> length_first, partial |-> partial, room |-> room, echo |-> echo]

HandlerKinds ==
  {Asks(TRUE, FALSE, 0, FALSE), Asks(FALSE, FALSE, 4, TRUE), Asks(FALSE, TRUE, 2, FALSE)}

PlainUpgrade == [to |-> "websocket", version |-> "13", key |-> TRUE, protocols |-> <<>>]
PlainUri(control) ==
  [is_websocket |-> TRUE, control_frames |-> control, supported_subprotocol |-> <<>>, pre |-> TRUE, post |-> TRUE]

FrameTalks ==
  {[upgrade |-> PlainUpgrade, uri |-> PlainUri(c), frames |-> fs, cut |-> n, asks |-> a] :
     c \in BOOLEAN, fs \in FrameLists, n \in {17, 100}, a \in HandlerKinds}

(* "ab" is the URI's subprotocol. *)
Lists_ ==
  {<<>>, <<"a", "b">>, <<"a", "b", "c">>, <<"c", ",", " ", "a", "b">>, <<"c", ",", "a", "b", "c">>,
   <<"a", "b", ",", "c">>}

HandshakeTalks ==
  {[upgrade |-> [to |-> t, version |-> v, key |-> k, protocols |-> l],
    uri |-> [PlainUri(FALSE) EXCEPT !.supported_subprotocol = s, !.pre = p, !.post = q],
    frames |-> <<>>, cut |-> 0, asks |-> Asks(TRUE, FALSE, 0, FALSE)] :
     t \in {"websocket", "other"}, v \in {"13", "other"}, k \in BOOLEAN, l \in Lists_,
     s \in {<<>>, <<"a", "b">>}, p \in BOOLEAN, q \in BOOLEAN}

MCTalks ==
  {[t EXCEPT !.cut = LessOf(@, Len(AllBytes(t.frames)))] : t \in FrameTalks \union HandshakeTalks}

RestTalk == CHOOSE t \in HandshakeTalks : t.upgrade = [PlainUpgrade EXCEPT !.to = "other"]
=============================================================================
