---------------------------- MODULE PortalService ----------------------------
(***************************************************************************)
(* What the orchestrator promises to the rest of the firmware, without     *)
(* saying how: the pair of servers is opened, serves, is closed and in the *)
(* end retired.  Whatever it holds it acquired while opening (or, the DNS  *)
(* server, again while open) and has released before it is idle or         *)
(* retired; it serves only with the DNS server in hand.                    *)
(* Source: the comments and interface of main/orchestrator.c, main/        *)
(* dns_server.c and main/web_server.c.                                     *)
(***************************************************************************)

CONSTANTS Dns, Web

VARIABLES
  phase,   \* idle, opening, open, closing or retired
  held     \* the servers that exist

Phases == {"idle", "opening", "open", "closing", "retired"}
Servers == {Dns, Web}

Init == phase = "idle" /\ held = {}

Open == phase = "idle" /\ phase' = "opening" /\ UNCHANGED held

(* The servers are acquired in this order; the web server may be missing.  *)
AcquireDns == phase = "opening" /\ held = {} /\ held' = {Dns} /\ UNCHANGED phase
AcquireWeb == phase = "opening" /\ held = {Dns} /\ held' = Servers /\ UNCHANGED phase

Serve == phase = "opening" /\ Dns \in held /\ phase' = "open" /\ UNCHANGED held

(* A failed DNS server is replaced while the web server goes on. *)
DropDns == phase = "open" /\ Dns \in held /\ held' = held \ {Dns} /\ UNCHANGED phase
RenewDns == phase = "open" /\ Dns \notin held /\ held' = held \cup {Dns} /\ UNCHANGED phase

Close == phase = "open" /\ phase' = "closing" /\ UNCHANGED held

Release(s) == phase = "closing" /\ s \in held /\ held' = held \ {s} /\ UNCHANGED phase

(* The end of closing, the last server being given up in the same step or  *)
(* before it.                                                              *)
Closed ==
  /\ phase = "closing" /\ held \subseteq {Web}
  /\ phase' = "idle" /\ held' = {}

Retire == phase = "idle" /\ phase' = "retired" /\ UNCHANGED held

(* A forced restart, or the power cycle that follows retirement. *)
Reset == phase' = "idle" /\ held' = {}

Next ==
  \/ Open \/ AcquireDns \/ AcquireWeb \/ Serve
  \/ DropDns \/ RenewDns
  \/ Close \/ (\E s \in Servers : Release(s)) \/ Closed
  \/ Retire \/ Reset

Spec == Init /\ [][Next]_<<phase, held>>
=============================================================================
