--------------------------- MODULE MCRadioControl ---------------------------
(* The web server and the console share the RSSI and channel wrappers; the *)
(* reconnect task shares the RSSI one and alone connects.                  *)
EXTENDS RadioControl

CONSTANTS httpd, console, reconnect

MCCallers == {httpd, console, reconnect}
MCShared == {"get_rssi"}
MCSole == [w \in {"connect"} |-> reconnect]

=============================================================================
