----------------------------- MODULE MCDatapath -----------------------------
(* Datapath with one amount of free heap below, between and above each of   *)
(* the four thresholds, in units of 16 KB.                                  *)
EXTENDS Datapath
=============================================================================
