------------------------------ MODULE MCServe ------------------------------
(***************************************************************************)
(* The instance of Serve for TLC: one connection more than the largest     *)
(* limit, so that the server is full and somebody waits.                   *)
(***************************************************************************)
EXTENDS Serve
=============================================================================
