------------------------------ MODULE UriMatch ------------------------------
(***************************************************************************)
(* httpd_uri_match_wildcard(): whether a URI matches a template that may   *)
(* end with '?' (the character before it is optional) and '*' (anything    *)
(* may follow).  Source: esp_http_server/src/httpd_uri.c.                  *)
(*                                                                         *)
(* Strings are sequences of characters; indices are those of C plus one.   *)
(***************************************************************************)
EXTENDS Naturals, Sequences

LastIs(s, k, c) == Len(s) >= k /\ s[Len(s) - k + 1] = c

Both(t) ==
  \/ LastIs(t, 2, "*") /\ LastIs(t, 1, "?")
  \/ LastIs(t, 2, "?") /\ LastIs(t, 1, "*")

Asterisk(t) == LastIs(t, 1, "*") \/ Both(t)
Quest(t) == LastIs(t, 1, "?") \/ Both(t)

Special(t) == (IF Asterisk(t) THEN 1 ELSE 0) + (IF Quest(t) THEN 2 ELSE 0)

(* strncmp() of n characters, all of which are there. *)
SameStart(s, u, n) == SubSeq(s, 1, n) = SubSeq(u, 1, n)

(* Mutant: nothing may follow the optional character, nor may it be there. *)
MutOptional(t, u, n) ==
  /\ ~(Len(u) > n /\ t[n + 1] # u[n + 1])
  /\ SameStart(t, u, n)
  /\ Asterisk(t) \/ Len(u) < n + 1

Optional(t, u, n) ==
  /\ ~(Len(u) > n /\ t[n + 1] # u[n + 1])
  /\ SameStart(t, u, n)
  /\ Asterisk(t) \/ Len(u) <= n + 1

Wildcard(t, u) ==
  LET n == Len(t) - Special(t) IN   \* exact_match_chars
  /\ Len(t) >= Special(t)
  /\ Len(u) >= n
  /\ IF Quest(t) THEN Optional(t, u, n)
     ELSE /\ Asterisk(t) \/ Len(u) = n
          /\ SameStart(t, u, n)

-----------------------------------------------------------------------------

VARIABLES template, uri

Strings(chars, n) == UNION {[1..k -> chars] : k \in 0..n}

(* What the header promises (esp_http_server.h:1109-1119): the language of  *)
(* a template, as strings that extend or equal its plain part.              *)
StartsWith(u, p) == \E k \in 0..Len(u) : SubSeq(u, 1, k) = p

Language(t, u) ==
  LET Cut(k) == SubSeq(t, 1, Len(t) - k) IN
  CASE Both(t) -> Len(t) >= 3 /\ (u = Cut(3) \/ StartsWith(u, Cut(2)))
    [] LastIs(t, 1, "*") /\ ~Both(t) -> StartsWith(u, Cut(1))
    [] LastIs(t, 1, "?") /\ ~Both(t) -> Len(t) >= 2 /\ u \in {Cut(2), Cut(1)}
    [] OTHER -> u = t

(* The matcher accepts exactly the strings the header describes, for every  *)
(* mix of the two special characters at the template's end, templates too   *)
(* short for them, and special characters elsewhere or in the URI itself -  *)
(* as when a template is matched with another (httpd_uri.c:24-81).          *)
MatchesLanguage == Wildcard(template, uri) <=> Language(template, uri)
=============================================================================
