--------------------------- MODULE MCSatmacLocks ---------------------------
(***************************************************************************)
(* The constants of MCSatmac for SatmacLocks.                              *)
(***************************************************************************)
EXTENDS MCSatmac, SatmacLocks
=============================================================================
