--------------------------- MODULE MCBrowseDaemon ---------------------------
(***************************************************************************)
(* An instance of BrowseDaemon for TLC.                                    *)
(***************************************************************************)
EXTENDS BrowseDaemon, TLC

CONSTANTS c1, c2, c3

=============================================================================
