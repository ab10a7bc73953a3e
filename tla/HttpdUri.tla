------------------------------ MODULE HttpdUri ------------------------------
(***************************************************************************)
(* The table of URI handlers of an HTTP server: registering, which may run *)
(* out of memory between its two allocations, unregistering in its three   *)
(* forms, and finding the handler of a request.  Source:                   *)
(* esp_http_server/src/httpd_uri.c.                                        *)
(*                                                                         *)
(* Which template matches which URI is a parameter (UriMatch is the        *)
(* wildcard matcher); the handler of an entry is its number.               *)
(***************************************************************************)
EXTENDS Naturals, Sequences, FiniteSets

CONSTANTS
  Uris,        \* templates and request paths
  Matches,     \* the pairs <<template, uri>> that uri_match_fn accepts
  Methods,     \* request methods
  ANY,         \* HTTP_ANY
  MaxHandlers, \* config.max_uri_handlers
  MaxRegs      \* bound: successful registrations

ASSUME UriConstants ==
  /\ Matches \subseteq Uris \X Uris
  /\ ANY \notin Methods /\ MaxHandlers \in Nat /\ MaxRegs \in Nat

VARIABLES
  hd_calls,   \* the entries up to the first null pointer
  regs        \* history: how many handlers were registered

uriVars == <<hd_calls, regs>>

(* An entry whose memory was freed is "dangling": the pointer is still in   *)
(* the table.  Handlers are numbered from 1.                                *)
Entry == [uri : Uris, method : Methods \union {ANY}, handler : Nat, dangling : BOOLEAN]

UriTypeOK ==
  /\ hd_calls \in Seq(Entry) /\ Len(hd_calls) <= MaxHandlers
  /\ regs \in 0..MaxRegs

UriInit == hd_calls = <<>> /\ regs = 0

Serves(e, u, m) == <<e.uri, u>> \in Matches /\ (e.method = m \/ e.method = ANY)

Found(u, m) == {i \in 1..Len(hd_calls) : Serves(hd_calls[i], u, m)}

(* Mutant: the search goes on, and the last entry that fits wins. *)
MutServing(u, m) ==
  IF Found(u, m) = {} THEN 0
  ELSE hd_calls[CHOOSE i \in Found(u, m) : \A j \in Found(u, m) : i >= j].handler

(* httpd_find_uri_handler() as httpd_uri() uses it: the number of the       *)
(* handler that gets the request, 0 for an answer 404 or 405.               *)
Serving(u, m) ==
  IF Found(u, m) = {} THEN 0
  ELSE hd_calls[CHOOSE i \in Found(u, m) : \A j \in Found(u, m) : i <= j].handler

(* A dangling entry is read by every search that gets to it; what it finds  *)
(* there is undefined.  The model ends here.                                *)
Defined == \A i \in 1..Len(hd_calls) : ~hd_calls[i].dangling

SlotFree == Len(hd_calls) < MaxHandlers

(* httpd_register_uri_handler().  When a handler for the URI is found, the  *)
(* table is full or the first allocation fails, nothing changes; when       *)
(* strdup() fails the entry is freed again, the pointer to it stays.        *)
StrdupFails(u, m) ==
  /\ Found(u, m) = {} /\ SlotFree
  /\ hd_calls' = Append(hd_calls, [uri |-> u, method |-> m, handler |-> 0, dangling |-> TRUE])
  /\ UNCHANGED regs

(* Mutant: looks for the same template and method only. *)
MutMayRegister(u, m) ==
  \A i \in 1..Len(hd_calls) : ~(hd_calls[i].uri = u /\ hd_calls[i].method = m)

MayRegister(u, m) == Found(u, m) = {}

Register(u, m) ==
  /\ MayRegister(u, m) /\ SlotFree /\ regs < MaxRegs
  /\ regs' = regs + 1
  /\ hd_calls' = Append(hd_calls, [uri |-> u, method |-> m, handler |-> regs + 1,
                                   dangling |-> FALSE])

Without(i) ==
  [j \in 1..(Len(hd_calls) - 1) |-> hd_calls[IF j < i THEN j ELSE j + 1]]

(* httpd_unregister_uri_handler(): the first entry with this URI and method. *)
Unregister(u, m) ==
  LET same == {i \in 1..Len(hd_calls) : hd_calls[i].uri = u /\ hd_calls[i].method = m} IN
  /\ \E i \in same : (\A j \in same : i <= j) /\ hd_calls' = Without(i)
  /\ UNCHANGED regs

(* The loop of httpd_unregister_uri() over the first n entries: an entry    *)
(* with another URI moves up over those that were removed before it.        *)
Compacted(u) ==
  LET moved[n \in 0..Len(hd_calls)] ==
        IF n = 0 THEN <<>>
        ELSE IF hd_calls[n].uri = u THEN moved[n - 1] ELSE Append(moved[n - 1], hd_calls[n])
  IN moved[Len(hd_calls)]

(* httpd_unregister_uri(): every entry with this URI; the rest move up.     *)
UnregisterUri(u) == hd_calls' = Compacted(u) /\ UNCHANGED regs

(* httpd_unregister_all_uri_handlers(), when the server is deleted. *)
UnregisterAll == hd_calls' = <<>> /\ UNCHANGED regs

UriNext ==
  /\ Defined
  /\ \/ \E u \in Uris, m \in Methods \union {ANY} :
          Register(u, m) \/ StrdupFails(u, m) \/ Unregister(u, m)
     \/ \E u \in Uris : UnregisterUri(u)
     \/ UnregisterAll

UriSpec == UriInit /\ [][UriNext]_uriVars

-----------------------------------------------------------------------------

(* No handler is dead from the start or becomes so: whatever was registered *)
(* and unregistered before, in whichever order, a request for the string an *)
(* entry was registered with is never answered by an entry in front of it   *)
(* (httpd_uri.c:135-145, 219-229).                                          *)
NoShadowedHandler ==
  \A i, j \in 1..Len(hd_calls) : i < j => ~Serves(hd_calls[i], hd_calls[j].uri, hd_calls[j].method)

(* The table as every handler that is registered relies on it.              *)
TableSound == UriTypeOK /\ NoShadowedHandler

Handlers == {hd_calls[i].handler : i \in 1..Len(hd_calls)}

(* A request keeps its handler for as long as that handler is registered,   *)
(* whichever handlers are registered and unregistered around it, and even   *)
(* where the templates of several overlap: the table is searched in order   *)
(* and every removal keeps the order (httpd_uri.c:219-227, 258-268).        *)
ServiceKept ==
  [][\A u \in Uris, m \in Methods : Defined' /\ Serving(u, m) \in Handlers' =>
       Serving(u, m)' = Serving(u, m)]_uriVars
=============================================================================
