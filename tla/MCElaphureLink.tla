--------------------------- MODULE MCElaphureLink ---------------------------
(* The link on a small instance: auto-reconnect off or unlimited.          *)
EXTENDS ElaphureLink

MCLimits == {}
=============================================================================
