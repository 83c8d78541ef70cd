----------------------------- MODULE MCOutbound -----------------------------
(***************************************************************************)
(* Two configured peers, one of them also found by discovery, and a        *)
(* discovered one; two dials, one synchronization at a time.               *)
(***************************************************************************)
EXTENDS Outbound

CONSTANTS p1, p2, p3

MCConfigured == <<p1, p3>>

MCDiscovered == <<p1, p2>>
=============================================================================
