--------------------------- MODULE MCSampleClient ---------------------------
(* SampleClient for TLC.                                                    *)
EXTENDS SampleClient
=============================================================================
