------------------------------ MODULE MCSdSpi ------------------------------
(* Cards of every kind: without a password, with one, and locked. *)
EXTENDS SdSpi

CardOf(k, l, p) == [kind |-> k, locked |-> l, pwd |-> p]
MCCards == {CardOf("block", FALSE, NoPassword), CardOf("byte", FALSE, "right"), CardOf("mmc", TRUE, "right")}
=============================================================================
