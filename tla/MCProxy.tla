------------------------------ MODULE MCProxy ------------------------------
(* The proxy on a small instance: one bounded and the unlimited setting.   *)
EXTENDS Proxy

MCLimits == {2}

=============================================================================
