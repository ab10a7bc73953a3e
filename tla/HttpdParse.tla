----------------------------- MODULE HttpdParse -----------------------------
(***************************************************************************)
(* The requests of one connection, byte by byte: read_block() and          *)
(* parse_block() with the callbacks of http_parser, the bytes put back     *)
(* into the session's pending buffer when parsing pauses, the handler that *)
(* reads as much of the body as it likes, and the purge of the rest.       *)
(* Source: esp_http_server/src/httpd_parse.c, httpd_txrx.c.                *)
(*                                                                         *)
(* A byte is its position in all the client sends; WireText(shapes) says   *)
(* what each one is.  A line end is one byte, and so is the colon with the *)
(* space after it.  http_parser is a library: only when it calls back, and *)
(* with which part of the buffer, is modelled.                             *)
(*                                                                         *)
(* Abstracted: the method, the version, parsing the URL into its parts,    *)
(* chunked bodies, upgrades and the contexts of the session.  Indices into *)
(* the buffer are those of C: byte i is scratch[i + 1].                    *)
(***************************************************************************)
EXTENDS Integers, Sequences, SequencesExt

CONSTANTS
  Streams,  \* what clients send: sequences of the shapes of their requests
  Block,    \* PARSER_BLOCK_SIZE
  MaxUri,   \* config.max_uri_len
  MaxHdr,   \* config.max_req_hdr_len
  PurgeBuf  \* CONFIG_HTTPD_PURGE_BUF_LEN

(* The lengths of the URL, of each header's field and value, and of the     *)
(* body, which a header announces.                                          *)
IsShape(s) ==
  /\ s.url \in Nat \ {0} /\ s.body \in Nat /\ (s.hdrs = <<>> => s.body = 0)
  /\ \A i \in DOMAIN s.hdrs : s.hdrs[i].f \in Nat \ {0} /\ s.hdrs[i].v \in Nat

(* Kconfig asks for limits of a block at least.                             *)
ASSUME ParseConstants ==
  /\ \A ss \in Streams : \A i \in DOMAIN ss : IsShape(ss[i])
  /\ Block \in Nat \ {0} /\ PurgeBuf \in Nat \ {0}
  /\ MaxUri \in Nat /\ MaxUri >= Block /\ MaxHdr \in Nat /\ MaxHdr >= Block

Times(c, n) == [i \in 1..n |-> c]

HeaderText(h) == Times("f", h.f) \o <<"c">> \o Times("v", h.v) \o <<"n">>

HeadText(s) ==
  <<"m">> \o Times("u", s.url) \o <<"l">> \o FlattenSeq([i \in 1..Len(s.hdrs) |-> HeaderText(s.hdrs[i])])
    \o <<"n">>

WireText(ss) == FlattenSeq([i \in 1..Len(ss) |-> HeadText(ss[i]) \o Times("b", ss[i].body)])

VARIABLES
  shapes,   \* what the client sends, fixed
  wire,     \* its bytes, fixed
  taken,    \* bytes read from the socket so far
  ppc,      \* where the server is
  nth,      \* number of the request
  blk_offset,   \* httpd_parse_req()'s
  pd,        \* parser_data and the request's auxiliary data, see ParserData
  hp,       \* where http_parser is in the request
  next_byte,        \* the next byte of the buffer for http_parser
  mark,     \* where the element it is in began, in this call
  no_memory \* history: an allocation failed

parseVars == <<shapes, wire, taken, ppc, nth, blk_offset, pd, hp, next_byte, mark, no_memory>>

ParserData == [status : {"idle", "url", "field", "value", "body", "complete", "failed"},
         error : {"none", "400", "414", "431", "500"},
         last_at : Nat, last_len : Nat, paused : BOOLEAN, pre_parsed : Nat, raw : Nat,
         scratch : Seq(Nat), limit : Nat, hdrs : Nat, url : Seq(Nat), remaining : Nat,
         pending : Seq(Nat)]

ParseTypeOK ==
  /\ pd \in ParserData /\ Len(pd.pending) <= Block /\ Len(pd.scratch) <= pd.limit
  /\ (ppc = "recv" => pd.pre_parsed <= Len(pd.pending)) /\ pd.last_at <= pd.raw
  /\ taken \in 0..Len(wire) /\ nth \in Nat /\ blk_offset \in Nat
  /\ ppc \in {"idle", "recv", "exec", "error", "handler", "purge", "closed"}

NewParserData(pending) ==
  [status |-> "idle", error |-> "none", last_at |-> 0, last_len |-> 0, paused |-> FALSE,
   pre_parsed |-> 0, raw |-> 0, scratch |-> <<>>, limit |-> MaxUri, hdrs |-> 0,
   url |-> <<>>, remaining |-> 0, pending |-> pending]

ParseInit ==
  /\ shapes \in Streams /\ wire = WireText(shapes)
  /\ taken = 0 /\ ppc = "idle" /\ nth = 0 /\ blk_offset = 0 /\ pd = NewParserData(<<>>)
  /\ hp = "start" /\ next_byte = 0 /\ mark = 0 /\ no_memory = FALSE

Lesser(a, b) == IF a < b THEN a ELSE b

-----------------------------------------------------------------------------
(* The callbacks.  Each takes the data x, and the part of the buffer.       *)

Failed(x, code) == [x EXCEPT !.status = "failed", !.error = code]

Slice(x, at, n) == SubSeq(x.scratch, at + 1, at + n)

(* httpd_unrecv() replaces what is pending. *)
Unrecv(x, at, n) ==
  IF n = 0 THEN x ELSE [x EXCEPT !.pending = Slice(x, at, Lesser(n, Block))]

(* pause_parsing(), and what parse_block() then takes off pre_parsed: the   *)
(* bytes http_parser has not gone through when it stops at next.            *)
Pause(x, at, next) ==
  LET unparsed == x.raw - at IN
  IF unparsed > Block THEN Failed(Unrecv(x, at, unparsed), "500")
  ELSE [Unrecv(x, at, unparsed) EXCEPT !.pre_parsed = next - at, !.paused = TRUE]

CbUrl(x, at, n) ==
  LET y == IF x.status = "idle" THEN [x EXCEPT !.last_at = at, !.last_len = n, !.status = "url"]
                                ELSE [x EXCEPT !.last_len = @ + n]
  IN IF x.status \notin {"idle", "url"} THEN Failed(x, "500")
     ELSE IF y.last_len > MaxUri THEN Failed(y, "414") ELSE y

VerifyUrl(x) == [x EXCEPT !.url = Slice(x, x.last_at, x.last_len)]

(* Overwrites bytes i to j - 1 with null characters. *)
Blank(x, i, j) ==
  [x EXCEPT !.scratch = [k \in DOMAIN @ |-> IF i < k /\ k <= j THEN 0 ELSE @[k]]]

FieldAfterUrl(x, at, n, next) ==
  Pause([VerifyUrl(x) EXCEPT !.last_at = 0, !.last_len = n, !.status = "field",
                             !.limit = MaxHdr], at, next)

FieldAfterValue(x, at, n) ==
  [Blank(x, x.last_at + x.last_len, at) EXCEPT !.last_at = at, !.last_len = n,
     !.status = "field", !.limit = MaxHdr, !.hdrs = @ + 1]

CbHeaderField(x, at, n, next) ==
  CASE x.status = "url" -> FieldAfterUrl(x, at, n, next)
    [] x.status = "value" -> FieldAfterValue(x, at, n)
    [] x.status = "field" -> [x EXCEPT !.last_len = @ + n]
    [] OTHER -> Failed(x, "500")

(* Where an empty value's line end is: behind the last colon. *)
EmptyAt(x, at) ==
  LET colons == {i \in 0..(at - 1) : x.scratch[i + 1] # 0 /\ wire[x.scratch[i + 1]] = "c"}
  IN 1 + CHOOSE i \in colons : \A j \in colons : j <= i

CbHeaderValue(x, at, n) ==
  CASE x.status = "field" ->
         [x EXCEPT !.last_at = IF n = 0 THEN EmptyAt(x, at) ELSE at,
                   !.last_len = n, !.status = "value"]
    [] x.status = "value" -> [x EXCEPT !.last_len = @ + n]
    [] OTHER -> Failed(x, "500")

(* The index behind the second line end from byte i on; 0 if there is none. *)
BehindTwoEnds(x, i) ==
  LET ends == {j \in i..(x.raw - 1) : wire[x.scratch[j + 1]] = "n"} IN
  IF \E a, b \in ends : a < b
    THEN 1 + CHOOSE b \in ends : \E a \in ends : a < b /\ \A c \in ends : c <= a \/ c >= b
    ELSE 0

EndHeaders(x) ==
  LET at == x.last_at + x.last_len
      e == BehindTwoEnds(x, at)
  IN IF x.raw - at < 2 THEN Failed(x, "500")
     ELSE IF e = 0 THEN Failed(x, "400")
     ELSE [Blank(x, at, e) EXCEPT !.last_at = e, !.hdrs = @ + 1]

CbHeadersComplete(x, content) ==
  LET y == CASE x.status = "url" -> VerifyUrl(x)
             [] x.status = "value" -> EndHeaders(x)
             [] OTHER -> Failed(x, "500")
  IN IF y.status = "failed" THEN y
     ELSE [y EXCEPT !.status = "body", !.remaining = content]

Completed(x, at, next) ==
  LET y == Pause(x, at, next) IN
  IF y.status = "failed" THEN y
  ELSE [y EXCEPT !.status = "complete", !.last_at = 0, !.last_len = 0]

CbOnBody(x, at, next) ==
  IF x.status # "body" THEN Failed(x, "500") ELSE Completed(x, at, next)

(* Mutant: what was received behind the request is dropped. *)
MutCbNoBody(x, next) ==
  IF x.status \in {"url", "body"} THEN Completed(x, x.raw, x.raw) ELSE x

CbNoBody(x, next) ==
  CASE x.status = "url" -> Completed(VerifyUrl(x), x.last_at, next)
    [] x.status = "body" -> Completed(x, x.last_at, next)
    [] OTHER -> x

-----------------------------------------------------------------------------
(* read_block() *)

StreamVars == <<shapes, wire>>

(* httpd_req_new() *)
NewRequest ==
  /\ ppc = "idle" /\ (pd.pending # <<>> \/ taken < Len(wire))
  /\ ppc' = "recv" /\ nth' = nth + 1 /\ blk_offset' = 0
  /\ pd' = NewParserData(pd.pending) /\ hp' = "start" /\ next_byte' = 0 /\ mark' = 0
  /\ UNCHANGED <<StreamVars, taken, no_memory>>

(* parse_block() with x.raw - blk_offset new bytes: what is parsed already is   *)
(* skipped.                                                                 *)
ParseBlock(x) ==
  LET skip == IF x.paused THEN Lesser(x.raw - blk_offset, x.pre_parsed) ELSE 0 IN
  /\ pd' = [x EXCEPT !.paused = FALSE, !.pre_parsed = @ - skip]
  /\ next_byte' = blk_offset + skip /\ mark' = blk_offset + skip
  /\ IF blk_offset + skip = x.raw
       THEN blk_offset' = skip /\ UNCHANGED ppc
       ELSE ppc' = "exec" /\ UNCHANGED blk_offset
  /\ UNCHANGED <<StreamVars, nth, hp, no_memory>>

SpaceLeft == Lesser(Block, pd.limit - blk_offset)

Fill(bytes) == [pd EXCEPT !.scratch = SubSeq(@, 1, blk_offset) \o bytes,
                            !.raw = blk_offset + Len(bytes)]

(* Only what is pending is received when something is: it may complete the  *)
(* request.                                                                 *)
RecvPending ==
  /\ ppc = "recv" /\ SpaceLeft > 0 /\ pd.pending # <<>>
  /\ LET n == Lesser(SpaceLeft, Len(pd.pending)) IN
     ParseBlock([Fill(SubSeq(pd.pending, 1, n)) EXCEPT
                   !.pending = SubSeq(@, n + 1, Len(@))])
  /\ UNCHANGED taken

Positions(i, n) == [k \in 1..n |-> i + k - 1]

RecvSocket ==
  /\ ppc = "recv" /\ SpaceLeft > 0 /\ pd.pending = <<>>
  /\ \E n \in 1..Lesser(SpaceLeft, Len(wire) - taken) :
       ParseBlock(Fill(Positions(taken + 1, n))) /\ taken' = taken + n

(* The error handler for a timeout, or a closed or failed connection.       *)
RecvFails ==
  /\ ppc = "recv" /\ SpaceLeft > 0 /\ pd.pending = <<>>
  /\ ppc' = "closed"
  /\ UNCHANGED <<StreamVars, taken, nth, blk_offset, pd, hp, next_byte, mark, no_memory>>

(* Nothing to parse: the buffer is full, or gone. *)
TooLong(x) ==
  /\ pd' = Failed(x, CASE x.status = "url" -> "414"
                    [] x.status \in {"field", "value"} -> "431"
                    [] OTHER -> "500")
  /\ ppc' = "error"
  /\ UNCHANGED <<StreamVars, taken, nth, blk_offset, hp, next_byte, mark>>

BufferFull == ppc = "recv" /\ SpaceLeft <= 0 /\ TooLong(pd) /\ UNCHANGED no_memory

ReallocFails ==
  /\ ppc = "recv" /\ SpaceLeft > 0
  /\ TooLong([pd EXCEPT !.scratch = <<>>, !.last_at = 0])
  /\ no_memory' = TRUE

-----------------------------------------------------------------------------
(* http_parser_execute(): byte by byte, until a callback pauses it.         *)

(* x is the data after the callback, if there is one; next is where         *)
(* http_parser goes on.                                                     *)
Goes(x, to, next) ==
  /\ hp' = to /\ pd' = x /\ next_byte' = next
  /\ CASE x.status = "failed" -> ppc' = "error" /\ UNCHANGED blk_offset
       [] x.status # "failed" /\ x.paused ->
            blk_offset' = 0 /\ ppc' = IF x.status = "complete" THEN "handler" ELSE "recv"
       [] OTHER -> UNCHANGED <<ppc, blk_offset>>

NextByte == wire[pd.scratch[next_byte + 1]]

ExecVars == <<StreamVars, taken, nth, no_memory>>

Begins(at, elem) == hp = at /\ Goes(pd, elem, next_byte + 1) /\ mark' = next_byte

(* What http_parser takes for a request, as far as these bytes go. *)
Expected(where) ==
  CASE where = "start" -> {"m"}
    [] where = "pre_url" -> {"u"}
    [] where = "url" -> {"u", "l"}
    [] where = "hdr" -> {"f", "n"}
    [] where = "field" -> {"f", "c"}
    [] where \in {"pre_value", "value"} -> {"v", "n"}
    [] OTHER -> {"m", "u", "l", "f", "c", "v", "n", "b"}

NotARequest ==
  /\ NextByte \notin Expected(hp)
  /\ Goes(Failed(pd, "400"), hp, next_byte) /\ UNCHANGED mark

InLine ==
  \/ hp = "start" /\ NextByte = "m" /\ Goes(pd, "pre_url", next_byte + 1) /\ UNCHANGED mark
  \/ NextByte = "u" /\ Begins("pre_url", "url")
  \/ hp = "url" /\ NextByte = "u" /\ Goes(pd, hp, next_byte + 1) /\ UNCHANGED mark
  \/ hp = "url" /\ NextByte = "l" /\ Goes(CbUrl(pd, mark, next_byte - mark), "hdr", next_byte + 1) /\ UNCHANGED mark

InHeader ==
  \/ NextByte = "f" /\ Begins("hdr", "field")
  \/ hp = "field" /\ NextByte = "f" /\ Goes(pd, hp, next_byte + 1) /\ UNCHANGED mark
  \/ /\ hp = "field" /\ NextByte = "c"
     /\ Goes(CbHeaderField(pd, mark, next_byte - mark, next_byte + 1), "pre_value", next_byte + 1) /\ UNCHANGED mark
  \/ NextByte = "v" /\ Begins("pre_value", "value")
  \/ hp = "value" /\ NextByte = "v" /\ Goes(pd, hp, next_byte + 1) /\ UNCHANGED mark
  \/ hp = "value" /\ NextByte = "n" /\ Goes(CbHeaderValue(pd, mark, next_byte - mark), "hdr", next_byte + 1)
                  /\ UNCHANGED mark

(* An empty value is reported with the byte behind its line end. *)
InEmptyValue ==
  /\ \/ hp = "pre_value" /\ NextByte = "n" /\ Goes(pd, "empty", next_byte + 1)
     \/ hp = "empty" /\ Goes(CbHeaderValue(pd, next_byte, 0), "hdr", next_byte)
  /\ UNCHANGED mark

(* The empty line, and the end of the message when no body follows.         *)
InEnd ==
  LET content == shapes[nth].body
      x == CbHeadersComplete(pd, content)
  IN /\ hp = "hdr" /\ NextByte = "n"
     /\ Goes(IF x.status # "failed" /\ content = 0 THEN CbNoBody(x, next_byte + 1) ELSE x,
             "body", next_byte + 1)
     /\ UNCHANGED mark

InBody ==
  /\ hp = "body"
  /\ Goes(CbOnBody(pd, next_byte, next_byte + Lesser(pd.remaining, pd.raw - next_byte)), hp, pd.raw) /\ UNCHANGED mark

ExecByte ==
  /\ ppc = "exec" /\ next_byte < pd.raw
  /\ NotARequest \/ InLine \/ InHeader \/ InEmptyValue \/ InEnd \/ InBody
  /\ UNCHANGED ExecVars

(* The end of the block: the part of the element that was seen is reported. *)
ExecEnds ==
  /\ ppc = "exec" /\ next_byte = pd.raw
  /\ LET n == next_byte - mark
         x == CASE hp = "url" -> CbUrl(pd, mark, n)
                [] hp = "field" -> CbHeaderField(pd, mark, n, next_byte)
                [] hp = "value" -> CbHeaderValue(pd, mark, n)
                [] OTHER -> pd
     IN /\ pd' = x
        /\ CASE x.status = "failed" -> ppc' = "error" /\ UNCHANGED blk_offset
             [] x.status # "failed" /\ x.paused -> ppc' = "recv" /\ blk_offset' = 0
             [] OTHER -> ppc' = "recv" /\ blk_offset' = next_byte
  /\ UNCHANGED <<ExecVars, hp, next_byte, mark>>

-----------------------------------------------------------------------------
(* The handler, and httpd_req_delete() *)

(* httpd_req_handle_err(): the session is closed, whatever the handler does. *)
AnswerError ==
  /\ ppc = "error" /\ ppc' = "closed"
  /\ UNCHANGED <<ExecVars, blk_offset, pd, hp, next_byte, mark>>

(* httpd_req_recv(): what is pending first, then the socket, once.          *)
RecvBody(n) ==
  LET k == Lesser(n, Len(pd.pending)) IN
  \E more \in 0..Lesser(n - k, Len(wire) - taken) :
    /\ k + more > 0
    /\ pd' = [pd EXCEPT !.pending = SubSeq(@, k + 1, Len(@)), !.remaining = @ - (k + more)]
    /\ taken' = taken + more
    /\ UNCHANGED <<StreamVars, nth, no_memory, blk_offset, hp, next_byte, mark, ppc>>

HandlerRecv == ppc = "handler" /\ \E n \in 1..pd.remaining : RecvBody(n)

HandlerReturns ==
  /\ ppc = "handler" /\ ppc' \in {"purge", "closed"}
  /\ UNCHANGED <<ExecVars, blk_offset, pd, hp, next_byte, mark>>

PurgeLength == Lesser(PurgeBuf, pd.remaining)

PurgeBody == ppc = "purge" /\ pd.remaining # 0 /\ RecvBody(PurgeLength)

PurgeFails ==
  /\ ppc = "purge" /\ pd.remaining > 0 /\ pd.pending = <<>> /\ ppc' = "closed"
  /\ UNCHANGED <<ExecVars, blk_offset, pd, hp, next_byte, mark>>

DeleteRequest ==
  /\ ppc = "purge" /\ pd.remaining = 0 /\ ppc' = "idle"
  /\ UNCHANGED <<ExecVars, blk_offset, pd, hp, next_byte, mark>>

(* httpd_parse_req(): block after block, until the request is parsed or     *)
(* cannot be.                                                               *)
ParseReq ==
  \/ RecvPending \/ RecvSocket \/ RecvFails \/ BufferFull \/ ReallocFails
  \/ ExecByte \/ ExecEnds \/ AnswerError

ParseNext ==
  NewRequest \/ ParseReq \/ HandlerRecv \/ HandlerReturns \/ PurgeBody \/ PurgeFails \/ DeleteRequest

ParseSpec == ParseInit /\ [][ParseNext]_parseVars

-----------------------------------------------------------------------------

StartOf(k) == Len(WireText(SubSeq(shapes, 1, k - 1)))

HeaderLines(k) ==
  LET line(i) == StartOf(k) + 2 + shapes[k].url
                 + Len(FlattenSeq([j \in 1..(i - 1) |-> HeaderText(shapes[k].hdrs[j])]))
  IN [i \in 1..Len(shapes[k].hdrs) |->
        Positions(line(i) + 1, Len(HeaderText(shapes[k].hdrs[i])) - 1)]

(* The header strings as httpd_req_get_hdr_value_str() walks over them: as  *)
(* many as were counted, null characters between them.                      *)
HeaderStrings ==
  LET split == FoldLeft(LAMBDA acc, b : IF b = 0 THEN Append(acc, <<>>)
                                        ELSE [acc EXCEPT ![Len(acc)] = Append(@, b)],
                        <<<<>>>>, pd.scratch)
      strings == SelectSeq(split, LAMBDA t : t # <<>>)
  IN SubSeq(strings, 1, pd.hdrs)

(* No request before the k-th came without headers. *)
AfterHeaders(k) == \A j \in 1..(k - 1) : shapes[j].hdrs # <<>>

(* However the requests were cut into blocks, and whatever was put back and *)
(* read again, the handler finds its own URL and each of its own headers    *)
(* where httpd_req_get_hdr_value_str() looks for them (httpd_parse.c        *)
(* 107-430).                                                                *)
RequestIntact ==
  ppc = "handler" /\ AfterHeaders(nth) =>
    /\ pd.url = Positions(StartOf(nth) + 2, shapes[nth].url)
    /\ HeaderStrings = HeaderLines(nth)

Unread == pd.pending \o Positions(taken + 1, Len(wire) - taken)

(* What the session holds and what is still in the socket follow right      *)
(* behind what was consumed: no byte of a body or of the next request is    *)
(* lost, or read twice (pause_parsing(), httpd_req_recv(),                  *)
(* httpd_req_delete()).                                                     *)
Behind(k) ==
  CASE ppc \in {"handler", "purge"} ->
         StartOf(k) + Len(HeadText(shapes[k])) + shapes[k].body - pd.remaining
    [] OTHER -> StartOf(k + 1)

NothingLostOrRepeated ==
  ppc \in {"idle", "handler", "purge"} /\ AfterHeaders(nth + 1) =>
    Unread = Positions(Behind(nth) + 1, Len(wire) - Behind(nth))

(* What the client gets when a request is refused is decided by what it     *)
(* sent alone, never by how the network cut it: the URL, or the headers,    *)
(* do not fit the buffer.                                                   *)
Refusal(s) ==
  LET hdr == Len(FlattenSeq([i \in 1..Len(s.hdrs) |-> HeaderText(s.hdrs[i])])) + 1 IN
  IF s.url + 3 > MaxUri THEN "414"
  ELSE IF s.hdrs # <<>> /\ hdr > MaxHdr THEN "431"
  ELSE IF s.body > 0 /\ hdr = MaxHdr THEN "500"
  ELSE "none"

RefusedForItself ==
  ppc \in {"error", "handler"} /\ AfterHeaders(nth) /\ ~no_memory =>
    pd.error = Refusal(shapes[nth])

(* However a request is split over segments, it is parsed as it was sent:    *)
(* whole, once, and refused only for what is wrong with it.                  *)
ParsedAsSent == ParseTypeOK /\ RequestIntact /\ NothingLostOrRepeated /\ RefusedForItself
=============================================================================
