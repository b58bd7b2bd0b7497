-------------------------- MODULE MCBreakerCallers --------------------------
(* TLC instance of BreakerCallers.                                         *)
EXTENDS BreakerCallers

CONSTANTS c1, c2, c3, c4   \* model values of the callers
=============================================================================
