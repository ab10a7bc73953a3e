----------------------------- MODULE HttpLookup -----------------------------
(***************************************************************************)
(* How a handler finds a value by its name: in the query of the URL        *)
(* (a=b&c=d), in the Cookie header (a=b; c=d), and among the headers.      *)
(* Source: esp_http_server/src/httpd_parse.c.                              *)
(*                                                                         *)
(* Strings are sequences of characters.  Names are compared without regard *)
(* to case; the model has one case.                                        *)
(***************************************************************************)
EXTENDS Naturals, Sequences

(* strchr(s + i, c): 0 when c does not occur. *)
Next_(s, c, i) ==
  LET at == {j \in i..Len(s) : s[j] = c} IN
  IF at = {} THEN 0 ELSE CHOOSE j \in at : \A k \in at : j <= k

Nothing == [code |-> "not found", value |-> <<>>]

(* Copying to a buffer of size characters, the null character included.     *)
Copy(v, size) ==
  IF Len(v) > size - 1 THEN [code |-> "truncated", value |-> <<>>]
  ELSE [code |-> "ok", value |-> v]

NameIs(s, i, eq, key) == eq - i = Len(key) /\ SubSeq(s, i, eq - 1) = key

(* httpd_query_key_value(): skip and end are both '&';                      *)
(* httpd_cookie_key_value(): the next name follows a space, a value ends    *)
(* with ';'.                                                                *)
KeyValue(s, key, size, skip, end) ==
  LET search[i \in 1..(Len(s) + 1)] ==
        LET eq == Next_(s, "=", i)
            next == Next_(s, skip, eq)
            stop == Next_(s, end, eq + 1)
        IN IF eq = 0 THEN Nothing
           ELSE IF ~NameIs(s, i, eq, key)
             THEN IF next = 0 THEN Nothing ELSE search[next + 1]
           ELSE Copy(SubSeq(s, eq + 1, IF stop = 0 THEN Len(s) ELSE stop - 1), size)
  IN search[1]

(* Of headers with the same field the first counts; no field has a colon.   *)
NoHeader == [field |-> <<":">>, value |-> <<>>]
FirstHeader(hs, field) ==
  LET found == {i \in DOMAIN hs : hs[i].field = field}
  IN IF found = {} THEN NoHeader ELSE hs[CHOOSE i \in found : \A j \in found : i <= j]

(* httpd_req_get_hdr_value_str() over the header strings: strlcpy() returns *)
(* the length without the null character, so a value that is one longer     *)
(* than what fits is cut and yet reported as copied.                        *)
HeaderValue(hs, field, size) ==
  LET v == FirstHeader(hs, field).value
  IN IF FirstHeader(hs, field) = NoHeader THEN Nothing
     ELSE IF size < Len(v) THEN [code |-> "truncated", value |-> <<>>]
     ELSE [code |-> "ok", value |-> SubSeq(v, 1, IF Len(v) < size THEN Len(v) ELSE size - 1)]

(* httpd_req_get_hdr_value_len(), 0 also where the header is absent.        *)
HeaderLength(hs, field) == Len(FirstHeader(hs, field).value)

(* httpd_req_get_cookie_val(): the whole header, then the cookie in it.     *)
CookieField == <<"C">>

CookieValue(hs, name, size) ==
  LET header == HeaderValue(hs, CookieField, HeaderLength(hs, CookieField) + 1)
  IN IF HeaderLength(hs, CookieField) = 0 THEN Nothing
     ELSE IF header.code # "ok" THEN Nothing
     ELSE KeyValue(header.value, name, size, " ", ";")

(* httpd_req_get_url_query_len() and _str(), by the parts of the URI that   *)
(* http_parser found: what lies between the first '?' and a '#'.            *)
QueryPart(u) ==
  LET mark == Next_(u, "?", 1)
      hash == Next_(u, "#", 1)
      last == IF hash = 0 THEN Len(u) ELSE hash - 1
  IN IF mark = 0 \/ mark >= last THEN <<>> ELSE SubSeq(u, mark + 1, last)

QueryLength(u) == Len(QueryPart(u))

QueryString(u, size) == IF QueryPart(u) = <<>> THEN Nothing ELSE Copy(QueryPart(u), size)

(* As a handler does: the length, a buffer of that size, and the key in it. *)
UrlValue(u, key, size) ==
  LET query == QueryString(u, QueryLength(u) + 1)
  IN IF query.code # "ok" THEN Nothing ELSE KeyValue(query.value, key, size, "&", "&")

-----------------------------------------------------------------------------

VARIABLE asked  \* [kind, text, key, size]

Answered ==
  CASE asked.kind = "query" -> KeyValue(asked.text, asked.key, asked.size, "&", "&")
    [] asked.kind = "cookie" -> KeyValue(asked.text, asked.key, asked.size, " ", ";")
    [] asked.kind = "header" -> HeaderValue(asked.text, asked.key, asked.size)
    [] asked.kind = "cookies" -> CookieValue(asked.text, asked.key, asked.size)
    [] asked.kind = "url" -> UrlValue(asked.text, asked.key, asked.size)

(* The pieces of s: the longest intervals <<i, j>> without a separator.  A  *)
(* separator of cookies is ';' with a space behind it.                      *)
Pieces(s, kind) ==
  LET starts == IF kind = "query" THEN {i + 1 : i \in {k \in DOMAIN s : s[k] = "&"}}
                ELSE {i + 1 : i \in {k \in DOMAIN s : k > 1 /\ s[k] = " " /\ s[k - 1] = ";"}}
      width == IF kind = "query" THEN 1 ELSE 2
  IN {<<i, j>> \in ({1} \union starts) \X (0..Len(s)) :
        /\ \A k \in starts : k <= i \/ k > j + width
        /\ j = Len(s) \/ j + width + 1 \in starts}

WellFormed(s, kind) ==
  /\ \A p \in Pieces(s, kind) : \E k \in p[1]..p[2] : s[k] = "="
  /\ kind = "cookie" =>
       \A p \in Pieces(s, kind) : \A k \in p[1]..p[2] : s[k] \notin {" ", ";"}

Promised(s, key, size, kind) ==
  LET named == {p \in Pieces(s, kind) : p[2] >= p[1] + Len(key)
                  /\ SubSeq(s, p[1], p[1] + Len(key)) = Append(key, "=")}
      first == CHOOSE p \in named : \A q \in named : p[1] <= q[1]
  IN IF named = {} THEN Nothing
     ELSE Copy(SubSeq(s, first[1] + Len(key) + 1, first[2]), size)

(* The whole text a name is looked for in: of a URL the part between the    *)
(* first '?' and a '#' behind it, of headers the first cookie header.       *)
InFull(text, kind) ==
  CASE kind \in {"query", "cookie"} -> text
    [] kind = "cookies" -> FirstHeader(text, CookieField).value
    [] kind = "url" ->
         LET query == {pair \in (1..(Len(text) + 1)) \X (0..Len(text)) :
                         /\ pair[1] > 1 /\ text[pair[1] - 1] = "?" /\ pair[1] <= pair[2]
                         /\ \A i \in 1..(pair[1] - 2) : text[i] \notin {"?", "#"}
                         /\ \A i \in pair[1]..pair[2] : text[i] # "#"
                         /\ pair[2] = Len(text) \/ text[pair[2] + 1] = "#"}
         IN IF query = {} THEN <<>>
            ELSE LET pair == CHOOSE pair \in query : TRUE IN SubSeq(text, pair[1], pair[2])

(* A handler that asks for a name gets the whole value of the first piece   *)
(* with that very name, or is told that it is absent or does not fit its    *)
(* buffer: a name that is the beginning of another, an empty name, an empty *)
(* value and a value with '=' in it included, and also if the handler takes *)
(* the length first, then the text (httpd_parse.c:896-952, 954-1230).  Two  *)
(* exceptions are the code's: a piece without '=' hides the piece behind    *)
(* it, and a header one character longer than fits is reported as copied    *)
(* when it was cut.                                                         *)
LookupFinds ==
  IF asked.kind = "header"
    THEN LET found == {i \in DOMAIN asked.text : asked.text[i].field = asked.key} IN
         /\ found = {} <=> Answered.code = "not found"
         /\ \A i \in found : (\A j \in found : i <= j) =>
              \/ Len(asked.text[i].value) = asked.size
              \/ Answered = Copy(asked.text[i].value, asked.size)
    ELSE LET kind == IF asked.kind = "url" THEN "query" ELSE IF asked.kind = "cookies" THEN "cookie" ELSE asked.kind
             text == InFull(asked.text, asked.kind)
         IN WellFormed(text, kind) => Answered = Promised(text, asked.key, asked.size, kind)
=============================================================================
