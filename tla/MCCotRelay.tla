----------------------------- MODULE MCCotRelay -----------------------------
(* CotRelay with few enough addresses and packets that an address is lost   *)
(* while a datagram of its own is on its way back.                          *)
EXTENDS CotRelay
=============================================================================
