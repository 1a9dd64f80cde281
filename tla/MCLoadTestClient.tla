-------------------------- MODULE MCLoadTestClient --------------------------
(* LoadTestClient for TLC.                                                  *)
EXTENDS LoadTestClient
=============================================================================
