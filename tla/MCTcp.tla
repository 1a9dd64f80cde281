------------------------------- MODULE MCTcp --------------------------------
(* Tcp for TLC.                                                             *)
EXTENDS Tcp
=============================================================================
