----------------------------- MODULE MCCdpLocks -----------------------------
(***************************************************************************)
(* An instance of CdpLocks for TLC.                                        *)
(***************************************************************************)
EXTENDS CdpLocks, TLC

CONSTANTS c1, c2, c3, t1, t2

=============================================================================
