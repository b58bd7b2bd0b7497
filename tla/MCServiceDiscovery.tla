------------------------- MODULE MCServiceDiscovery -------------------------
(* TLC instance of ServiceDiscovery.                                       *)
EXTENDS ServiceDiscovery

CONSTANTS c1, c2, h1, h2   \* model values of the callers and the hosts
=============================================================================
