---------------------------- MODULE MCConnection ----------------------------
(***************************************************************************)
(* Connection for TLC: the transaction ids are model values.               *)
(***************************************************************************)
EXTENDS Connection

CONSTANTS t1, t2
=============================================================================
