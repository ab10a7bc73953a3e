------------------------------ MODULE HttpResp ------------------------------
(***************************************************************************)
(* The response to a request, as a handler makes it by calls in any order: *)
(* status, type and headers, a body at once or in chunks, error messages   *)
(* and the handlers registered for errors; each piece may go out in part,  *)
(* after which the call fails.  Requests follow each other on a            *)
(* connection.  Source: esp_http_server/src/httpd_txrx.c, httpd_parse.c.   *)
(*                                                                         *)
(* What is on the wire is a sequence of tokens, one for each thing that is *)
(* sent by itself; "cut" is a part of one.                                 *)
(*                                                                         *)
(* A handler answers once, with a call that sends it all or with chunks up *)
(* to an empty one, and returns what the calls that send gave it; one that *)
(* answered, or none of whose calls failed, may return an error too.       *)
(***************************************************************************)
EXTENDS Integers, Sequences, SequencesExt

CONSTANTS
  Values,        \* what handlers set: statuses, types and headers
  BadValues,     \* those with CR or LF in them
  LongValues,    \* those that make the head longer than max_req_hdr_len
  Sizes,         \* lengths of bodies and chunks
  Codes,         \* error codes, one of them "500"
  HandledCodes,    \* those with an error handler
  MaxRespHeaders,\* config.max_resp_headers
  MaxRespCalls,  \* bound: calls in a request
  MaxExchanges   \* bound: requests on the connection

ASSUME RespConstants ==
  /\ BadValues \subseteq Values /\ LongValues \subseteq Values \ BadValues
  /\ Sizes \subseteq Nat /\ "500" \in Codes /\ HandledCodes \subseteq Codes
  /\ {MaxRespHeaders, MaxRespCalls, MaxExchanges} \subseteq Nat

VARIABLES
  resp,      \* the request's auxiliary data: status, content_type, resp_hdrs, first_chunk_sent
  line,      \* what was sent in answer to this request
  rpc,       \* where the server is
  error,     \* the error being handled
  wish,      \* history: what the handler asked for
  rcalls,    \* calls made in this request
  exchanges

respVars == <<resp, line, rpc, error, wish, rcalls, exchanges>>

(* init_req_aux() *)
FreshResp == [status |-> "200 OK", type |-> "text/html", hdrs |-> <<>>, first_chunk_sent |-> FALSE]

(* What the handler asked for: the head as set when it was sent, the body   *)
(* so far, and whether that is all of it.                                   *)
NoWish == [status |-> "200 OK", type |-> "text/html", hdrs |-> <<>>, body |-> <<>>, ended |-> FALSE]

Piece(n) == IF n = 0 THEN <<>> ELSE <<n>>

RespInit ==
  /\ resp = FreshResp /\ line = <<>> /\ wish = NoWish
  /\ rpc = "idle" /\ error = "none" /\ rcalls = 0 /\ exchanges = 0

-----------------------------------------------------------------------------
(* Setting.  What the handler asked for does not change with a call that    *)
(* was refused.                                                             *)

MaySet == rpc = "handler" /\ rcalls < MaxRespCalls

CallMade == rcalls' = rcalls + 1 /\ UNCHANGED <<rpc, error, exchanges, line>>

(* httpd_resp_set_status() *)
RespSetStatus(s) ==
  /\ MaySet /\ CallMade
  /\ IF s \in BadValues THEN UNCHANGED <<resp, wish>>
     ELSE /\ resp' = [resp EXCEPT !.status = s]
          /\ wish' = IF line = <<>> THEN [wish EXCEPT !.status = s] ELSE wish

(* httpd_resp_set_type() *)
RespSetType(t) ==
  /\ MaySet /\ CallMade
  /\ IF t \in BadValues THEN UNCHANGED <<resp, wish>>
     ELSE /\ resp' = [resp EXCEPT !.type = t]
          /\ wish' = IF line = <<>> THEN [wish EXCEPT !.type = t] ELSE wish

(* httpd_resp_set_hdr() *)
RespSetHdr(h) ==
  /\ MaySet /\ CallMade
  /\ IF h \in BadValues \/ Len(resp.hdrs) >= MaxRespHeaders THEN UNCHANGED <<resp, wish>>
     ELSE /\ resp' = [resp EXCEPT !.hdrs = Append(@, h)]
          /\ wish' = IF line = <<>> THEN [wish EXCEPT !.hdrs = Append(@, h)] ELSE wish

-----------------------------------------------------------------------------
(* Sending.                                                                 *)

Token(kind, value) == <<kind, value>>

(* The head: the first line with the type and the length in one piece, then *)
(* each header in four.                                                     *)
HeaderTokens(h) == <<Token("field", h), Token("colon", ""), Token("value", h), Token("crlf", "")>>

HeadTokens(r, length) ==
  <<Token("head", <<r.status, r.type, length>>)>>
    \o FlattenSeq([i \in 1..Len(r.hdrs) |-> HeaderTokens(r.hdrs[i])]) \o <<Token("crlf", "")>>

BodyTokens(n) == IF n = 0 THEN <<>> ELSE <<Token("data", n)>>

ChunkTokens(n) == <<Token("size", n)>> \o BodyTokens(n) \o <<Token("crlf", "")>>

(* httpd_send_all() of one after the other: all of it goes out, or some,    *)
(* the last perhaps in part.                                                *)
Outcomes(tokens) ==
  {[ok |-> TRUE, out |-> tokens]}
  \union {[ok |-> FALSE, out |-> SubSeq(tokens, 1, k)] : k \in 0..(Len(tokens) - 1)}
  \union {[ok |-> FALSE, out |-> SubSeq(tokens, 1, k) \o <<Token("cut", "")>>] : k \in 0..(Len(tokens) - 1)}

(* The head is too long, or there is no memory for it: nothing is sent.     *)
HeadTooLong(r) == r.status \in LongValues \/ r.type \in LongValues

NotSent == [ok |-> FALSE, out |-> <<>>]

(* httpd_resp_send() of a request with data r. *)
SendOutcomes(r, n) ==
  (IF HeadTooLong(r) THEN {} ELSE Outcomes(HeadTokens(r, n) \o BodyTokens(n))) \union {NotSent}

(* Mutant: the head goes out with every chunk. *)
MutChunkOutcomes(r, n) ==
  (IF HeadTooLong(r) THEN {} ELSE Outcomes(HeadTokens(r, -1) \o ChunkTokens(n))) \union {NotSent}

(* httpd_resp_send_chunk(): the head goes first, once; -1 stands for        *)
(* "Transfer-Encoding: chunked".                                            *)
ChunkOutcomes(r, n) ==
  IF r.first_chunk_sent THEN Outcomes(ChunkTokens(n))
  ELSE (IF HeadTooLong(r) THEN {} ELSE Outcomes(HeadTokens(r, -1) \o ChunkTokens(n))) \union {NotSent}

MaySend == rpc = "handler" /\ ~wish.ended

Sent(o) == line' = line \o o.out /\ rpc' = IF o.ok THEN rpc ELSE "fail"

(* httpd_resp_send(), in answer to a request nothing was sent for.          *)
RespSendAll(n) ==
  /\ MaySend /\ line = <<>> /\ ~resp.first_chunk_sent
  /\ \E o \in SendOutcomes(resp, n) : Sent(o)
  /\ wish' = [wish EXCEPT !.body = Piece(n), !.ended = TRUE]
  /\ UNCHANGED <<resp, error, rcalls, exchanges>>

(* httpd_resp_send_chunk(): the one of length zero ends the body.           *)
RespChunk(n) ==
  /\ MaySend /\ rcalls < MaxRespCalls
  /\ \E o \in ChunkOutcomes(resp, n) :
       /\ Sent(o)
       /\ resp' = [resp EXCEPT !.first_chunk_sent =
                     @ \/ IsPrefix(HeadTokens(resp, -1), o.out)]
  /\ wish' = [wish EXCEPT !.body = @ \o Piece(n), !.ended = (n = 0)]
  /\ rcalls' = rcalls + 1 /\ UNCHANGED <<error, exchanges>>

(* httpd_resp_send_err() and httpd_resp_send_custom_err(), with a message   *)
(* of n bytes.  TCP_NODELAY that cannot be switched off again is an error,  *)
(* whatever was sent.                                                       *)
ErrorMessage(status, n, then) ==
  LET r == [resp EXCEPT !.status = status, !.type = "text/html"] IN
  /\ line = <<>> /\ resp' = r
  /\ wish' = [wish EXCEPT !.status = status, !.type = "text/html", !.body = Piece(n), !.ended = TRUE]
  /\ \E o \in SendOutcomes(r, n) :
       line' = o.out /\ rpc' \in {"fail"} \union (IF o.ok THEN {then} ELSE {})
  /\ UNCHANGED <<error, rcalls, exchanges>>

RespSendErr(status, n) == MaySend /\ ~resp.first_chunk_sent /\ ErrorMessage(status, n, rpc)

-----------------------------------------------------------------------------
(* A request comes: a handler has it, or it is an error.                    *)
Arrives ==
  /\ rpc = "idle" /\ exchanges < MaxExchanges
  /\ exchanges' = exchanges + 1 /\ rcalls' = 0
  /\ resp' = FreshResp /\ line' = <<>> /\ wish' = NoWish
  /\ \/ rpc' = "handler" /\ error' = "none"
     \/ \E c \in Codes : error' = c /\ rpc' = IF c \in HandledCodes THEN "handler" ELSE "err"

(* httpd_req_handle_err() without a handler: the message, and the close of  *)
(* the connection.                                                          *)
NoErrHandler ==
  rpc = "err" /\ \E n \in Sizes \ {0} : ErrorMessage(error, n, "fail")

(* The connection is kept if the handler says so, except after a 500.       *)
Kept(e) == e # "500"

(* The handler, or the error handler, returns ESP_OK, having answered, or   *)
(* an error.                                                                *)
RespReturns ==
  /\ rpc = "handler"
  /\ \/ wish.ended /\ rpc' = IF Kept(error) THEN "idle" ELSE "fail"
     \/ rpc' = "fail"
  /\ UNCHANGED <<resp, line, error, wish, rcalls, exchanges>>

(* httpd_sess_process() fails and the session is deleted. *)
RespClose ==
  /\ rpc = "fail" /\ rpc' = "closed"
  /\ UNCHANGED <<resp, line, error, wish, rcalls, exchanges>>

RespNext ==
  \/ \E v \in Values : RespSetStatus(v) \/ RespSetType(v) \/ RespSetHdr(v)
  \/ \E n \in Sizes : RespSendAll(n) \/ RespChunk(n)
  \/ \E s \in Codes, n \in Sizes : RespSendErr(s, n)
  \/ Arrives \/ NoErrHandler \/ RespReturns \/ RespClose

RespSpec == RespInit /\ [][RespNext]_respVars

-----------------------------------------------------------------------------
RespTypeOK ==
  /\ rpc \in {"idle", "handler", "err", "fail", "closed"} /\ error \in Codes \union {"none"}
  /\ rcalls \in 0..MaxRespCalls /\ exchanges \in 0..MaxExchanges
  /\ Len(resp.hdrs) <= MaxRespHeaders /\ (resp.first_chunk_sent => line # <<>>)

(* What a client makes of the line, from the standard: the head ends with   *)
(* an empty line; a body of known length follows, or chunks up to one of    *)
(* length zero.                                                             *)
HeadOf(w, n) == Len(w) >= 4 * n + 2 /\ w[1][1] = "head" /\ w[4 * n + 2] = Token("crlf", "")
                /\ \A i \in 0..(n - 1) : \E v \in Values : SubSeq(w, 4 * i + 2, 4 * i + 5) = HeaderTokens(v)

HdrsOf(w, n) == [i \in 1..n |-> w[4 * i - 2][2]]

(* As many chunks as there are, and one of length zero after them.          *)
ChunksIn(rest) == (Len(rest) - 2) \div 3

WholeBody(length, rest) ==
  IF length >= 0 THEN rest = BodyTokens(length)
  ELSE LET k == ChunksIn(rest) IN
       /\ Len(rest) = 3 * k + 2 /\ SubSeq(rest, 3 * k + 1, 3 * k + 2) = ChunkTokens(0)
       /\ \A i \in 1..k : \E s \in Sizes \ {0} : SubSeq(rest, 3 * i - 2, 3 * i) = ChunkTokens(s)

BodyOf(length, rest) ==
  IF length >= 0 THEN [i \in 1..Len(rest) |-> rest[i][2]]
  ELSE [i \in 1..ChunksIn(rest) |-> rest[3 * i - 1][2]]

AfterHead(w, n) == SubSeq(w, 4 * n + 3, Len(w))

(* The response is whole to a client, and says this.                        *)
Understood(w, n) ==
  /\ HeadOf(w, n)
  /\ WholeBody(w[1][2][3], AfterHead(w, n))

Says(w, n) ==
  /\ w[1][2][1] = wish.status /\ w[1][2][2] = wish.type /\ HdrsOf(w, n) = wish.hdrs
  /\ BodyOf(w[1][2][3], AfterHead(w, n)) = wish.body

(* A client that finds the response whole got what the handler wanted to    *)
(* say, and all of it; when the connection is kept, the response is whole.  *)
(* What was cut short anywhere is never taken for a whole response, and     *)
(* nothing of one response is in another (httpd_txrx.c:68-84, 254-441).     *)
WholeOrClosed ==
  /\ \A n \in 0..MaxRespHeaders : Understood(line, n) => wish.ended /\ Says(line, n)
  /\ rpc = "idle" /\ exchanges > 0 => \E n \in 0..MaxRespHeaders : Understood(line, n)

(* After an error the connection stays only with an error handler that says *)
(* so, and never after a 500 (httpd_txrx.c:597-617).                        *)
ErrorsClose == rpc = "idle" /\ error # "none" => error \in HandledCodes \ {"500"}

(* What a client makes of a response.                                       *)
ResponseRight == RespTypeOK /\ WholeOrClosed /\ ErrorsClose
=============================================================================
