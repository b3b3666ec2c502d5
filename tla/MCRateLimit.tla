----------------------------- MODULE MCRateLimit -----------------------------
(***************************************************************************)
(* Small instances of the limiter.  CntMod = 4 makes the counters two bits *)
(* wide, so that a few requests reach the wrap-around.                     *)
(***************************************************************************)
EXTENDS RateLimit, TLC

CONSTANTS a, b, c

Symmetry == Permutations(IP)
==============================================================================
