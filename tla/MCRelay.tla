------------------------------ MODULE MCRelay ------------------------------
(***************************************************************************)
(* The instance of Relay for TLC.  Downstream nodes share nothing but the  *)
(* upstream database and notifier and change neither, so that one of them  *)
(* meets everything that several would.                                    *)
(***************************************************************************)
EXTENDS Relay
=============================================================================
