----------------------------- MODULE DnsBackoff -----------------------------
(***************************************************************************)
(* The delay before the orchestrator starts a failed DNS server again.     *)
(* Source: main/orchestrator.c.  What the commands do to the servers is in *)
(* ServerLifecycle; here the error count, which only a start of the        *)
(* servers sets back, runs on for as long as the server fails.            *)
(***************************************************************************)
EXTENDS Naturals

CONSTANTS
  Width,      \* bits of uint32_t
  BackoffMax, \* CONFIG_SMART_AP_DNS_BACKOFF_MAX_SEC
  MaxErrors   \* bound: errors in a row

ASSUME BackoffConstants ==
  /\ Width \in Nat \ {0} /\ BackoffMax \in Nat \ {0} /\ MaxErrors \in Nat

VARIABLES
  dns_error_count,
  delay_sec   \* the last delay, 0 when the count was set back

backoffVars == <<dns_error_count, delay_sec>>

BackoffInit == dns_error_count = 0 /\ delay_sec = 0

(* Mutant: the count is shifted by as it is; the bit leaves the word. *)
MutShift(n) == n - 1

Shift(n) == IF n - 1 > Width - 1 THEN Width - 1 ELSE n - 1

Delay(n) ==
  LET d == (2 ^ Shift(n)) % (2 ^ Width) IN IF d > BackoffMax THEN BackoffMax ELSE d

DnsError ==
  /\ dns_error_count < MaxErrors
  /\ dns_error_count' = dns_error_count + 1
  /\ delay_sec' = Delay(dns_error_count + 1)

(* SERVER_CMD_START that started the servers. *)
ResetErrors == dns_error_count > 0 /\ dns_error_count' = 0 /\ delay_sec' = 0

BackoffNext == DnsError \/ ResetErrors

(* However often the server has failed in a row, the next delay is at least *)
(* as long as the last one and never longer than configured: no wrap of the *)
(* shift turns the backoff into a busy loop (orchestrator.c:102-112).       *)
BackoffGrows ==
  [][dns_error_count' # 0 => delay_sec' >= delay_sec /\ delay_sec' \in 1..BackoffMax]_backoffVars
=============================================================================
