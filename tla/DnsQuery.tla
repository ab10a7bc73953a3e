------------------------------ MODULE DnsQuery ------------------------------
(***************************************************************************)
(* One datagram after the other in dns_server_task(): the length and QR    *)
(* checks, the rate limiter, the walk over the labels of the question and  *)
(* the answer built in the receive buffer.  Source: main/dns_server.c.     *)
(*                                                                         *)
(* A byte of the datagram is chosen when it is read; a byte is read once.  *)
(* Abstracted: the flag bytes of the header, and the sender.  Opening and  *)
(* closing the socket, and errors of recvfrom(), are in ServerLifecycle.   *)
(***************************************************************************)
EXTENDS Integers, Sums

CONSTANTS
  BufferSize,   \* CONFIG_SMART_AP_DNS_RX_BUFFER_SIZE
  RateLimit,    \* CONFIG_SMART_AP_DNS_RATE_LIMIT
  RateWindow,   \* one second, in the clock's ticks
  Lengths,      \* the lengths of a datagram that are tried
  Bytes,        \* the values of a byte that are tried
  Horizon,      \* bound: the last tick of the clock
  MaxBurst      \* bound: datagrams counted in one window

HeaderSize == 12
AnswerSize == 16

ASSUME DnsConstants ==
  /\ BufferSize \in Nat /\ BufferSize > HeaderSize
  /\ RateLimit \in Nat \ {0} /\ RateWindow \in Nat \ {0} /\ Horizon \in Nat
  /\ MaxBurst \in Nat
  /\ Lengths \subseteq 0..BufferSize /\ Bytes \subseteq 0..255

VARIABLES
  dpc,           \* where the task is
  clock,         \* esp_timer_get_time()
  window_start,  \* dns_window_start
  pkt_count,     \* dns_pkt_count
  ap_ip,         \* ctx->ap_ip_addr is set
  len,           \* the length of the datagram
  pos,           \* i, then the end of the question
  pointer,       \* compression_pointer
  used,          \* bytes of the buffer read or sent so far, as far as received
  written,       \* bytes of the buffer the answer fills
  admitted       \* history: datagrams the limiter let through at each tick

dnsVars == <<dpc, clock, window_start, pkt_count, ap_ip, len, pos, pointer, used,
             written, admitted>>

PacketVars == <<len, pos, pointer, used, written>>
LimiterVars == <<clock, window_start, pkt_count, admitted>>

DnsTypeOK ==
  /\ dpc \in {"recv", "opcode", "walk", "question", "answer"}
  /\ clock \in 0..Horizon /\ window_start \in 0..Horizon /\ pkt_count \in Nat
  /\ ap_ip \in BOOLEAN /\ pointer \in BOOLEAN
  /\ len \in 0..BufferSize /\ pos \in Nat /\ used \in Nat
  /\ written \in 0..BufferSize
  /\ admitted \in [0..Horizon -> Nat]

(* The device has been up for any time when the task starts.                *)
DnsInit ==
  /\ dpc = "recv" /\ clock \in 0..Horizon /\ window_start = 0 /\ pkt_count = 0
  /\ ap_ip = FALSE /\ len = 0 /\ pos = 0 /\ pointer = FALSE
  /\ used = 0 /\ written = 0 /\ admitted = [t \in 0..Horizon |-> 0]

-----------------------------------------------------------------------------

Tick ==
  /\ clock < Horizon /\ clock' = clock + 1
  /\ UNCHANGED <<dpc, window_start, pkt_count, ap_ip, PacketVars, admitted>>

(* WIFI_EVENT_AP_START: the configured address, or the fallback. *)
ApStart ==
  /\ ~ap_ip /\ ap_ip' = TRUE
  /\ UNCHANGED <<dpc, PacketVars, LimiterVars>>

WindowOver == clock - window_start > RateWindow

(* The limiter counts every datagram with a header that is no answer, also  *)
(* the ones it drops.                                                       *)
Limit ==
  LET count == (IF WindowOver THEN 0 ELSE pkt_count) + 1 IN
  /\ window_start' = IF WindowOver THEN clock ELSE window_start
  /\ pkt_count' = count
  /\ IF count > RateLimit
       THEN dpc' = "recv" /\ UNCHANGED admitted
       ELSE dpc' = "opcode" /\ admitted' = [admitted EXCEPT ![clock] = @ + 1]

(* recvfrom(), which cuts a datagram off at the buffer's end.               *)
Receive(n, qr) ==
  /\ dpc = "recv"
  /\ n >= HeaderSize /\ ~qr
  /\ WindowOver \/ pkt_count < MaxBurst
  /\ Limit
  /\ len' = n /\ pos' = HeaderSize /\ pointer' = FALSE
  /\ used' = HeaderSize /\ written' = 0
  /\ UNCHANGED <<clock, ap_ip>>

(* Sends the first n bytes of the buffer. *)
Answer(n) ==
  /\ dpc' = "recv" /\ used' = n
  /\ UNCHANGED <<LimiterVars, ap_ip, len, pos, pointer, written>>

FormErr == Answer(HeaderSize)
Drop == dpc' = "recv" /\ UNCHANGED <<LimiterVars, ap_ip, PacketVars>>

(* NOTIMP for other opcodes; only a single question is answered. *)
Header ==
  /\ dpc = "opcode"
  /\ \/ Answer(HeaderSize)
     \/ Drop
     \/ dpc' = "walk" /\ UNCHANGED <<LimiterVars, ap_ip, PacketVars>>

Read(n) == used' = IF used < n THEN n ELSE used

(* Mutant: a pointer is followed instead of ending the name. *)
MutPointer(b) ==
  /\ b >= 192
  /\ IF pos + 1 >= len THEN FormErr
     ELSE /\ Read(pos + 2) /\ pos' = HeaderSize
          /\ UNCHANGED <<LimiterVars, ap_ip, dpc, len, pointer, written>>

Pointer(b) ==
  /\ b >= 192
  /\ IF pos + 1 >= len THEN FormErr
     ELSE /\ pos' = pos + 2 /\ pointer' = TRUE /\ dpc' = "question"
          /\ Read(pos + 1)
          /\ UNCHANGED <<LimiterVars, ap_ip, len, written>>

Label(b) ==
  \/ b > 63 /\ b < 192 /\ FormErr
  \/ /\ b > 0 /\ b <= 63
     /\ pos' = pos + b + 1 /\ Read(pos + 1)
     /\ UNCHANGED <<LimiterVars, ap_ip, dpc, len, pointer, written>>

EndOfName(b) ==
  /\ b = 0
  /\ pos' = pos + 1 /\ Read(pos + 1) /\ dpc' = "question"
  /\ UNCHANGED <<LimiterVars, ap_ip, len, pointer, written>>

OutOfBytes ==
  /\ dpc = "walk" /\ pos >= len
  /\ dpc' = "question"
  /\ UNCHANGED <<LimiterVars, ap_ip, PacketVars>>

Walk == dpc = "walk" /\ pos < len /\ \E b \in Bytes : Pointer(b) \/ Label(b) \/ EndOfName(b)

(* Mutant: the type is read without looking whether it is there. *)
MutQuestion ==
  /\ dpc = "question"
  /\ Read(pos + 4) /\ dpc' = "answer"
  /\ UNCHANGED <<LimiterVars, ap_ip, len, pos, pointer, written>>

(* The type and class, if they are there.                                   *)
Question ==
  /\ dpc = "question"
  /\ IF pos + 4 > len THEN FormErr
     ELSE /\ Read(pos + 4) /\ dpc' = "answer"
          /\ UNCHANGED <<LimiterVars, ap_ip, len, pos, pointer, written>>

Fits(n) == n + AnswerSize <= BufferSize

AnswerA(end) ==
  IF ap_ip /\ Fits(end)
    THEN /\ dpc' = "recv" /\ written' = end + AnswerSize
         /\ UNCHANGED <<LimiterVars, ap_ip, len, pos, pointer, used>>
    ELSE Drop

NoData(end) == IF end > BufferSize \/ end > len THEN Drop ELSE Answer(end)

(* REFUSED for other classes, the access point's address for A, else NODATA. *)
Build ==
  /\ dpc = "answer"
  /\ \/ Answer(pos + 4)
     \/ AnswerA(pos + 4)
     \/ NoData(pos + 4)

DnsStep == Header \/ Walk \/ OutOfBytes \/ Question \/ Build

DnsNext ==
  \/ Tick \/ ApStart
  \/ \E n \in Lengths, qr \in BOOLEAN : Receive(n, qr)
  \/ DnsStep

DnsSpec == DnsInit /\ [][DnsNext]_dnsVars

-----------------------------------------------------------------------------

(* Nothing of the previous datagram, which still fills the buffer behind    *)
(* this one, is taken for a label, a type or a class or sent back, and the  *)
(* answer stays inside the buffer, for every mix of labels and lengths      *)
(* (dns_server.c:239-399).                                                  *)
OnlyThisDatagram == used <= len /\ written <= BufferSize

(* The limiter's windows begin with a datagram, so a burst can straddle two *)
(* of them but never three: no second, wherever it begins, sees more than   *)
(* twice the limit (dns_server.c:202-214).                                  *)
BurstBounded ==
  \A t \in 0..Horizon :
    SumOver(admitted, t, IF t + RateWindow < Horizon THEN t + RateWindow ELSE Horizon) <= 2 * RateLimit

(* Every datagram comes to an end, whatever its labels: the task returns to *)
(* recvfrom() (dns_server.c:241-290).                                       *)
DatagramEnds == dpc # "recv" ~> dpc = "recv"

(* The three together: whatever comes in, the task reads and answers no more *)
(* than it was sent, and no more often than it should (dns_server.c:196-399).*)
DnsSafe == DnsTypeOK /\ OnlyThisDatagram /\ BurstBounded
=============================================================================
