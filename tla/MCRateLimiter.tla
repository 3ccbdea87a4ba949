--------------------------- MODULE MCRateLimiter ---------------------------
(***************************************************************************)
(* RateLimiter with values for TLC: two tokens, one earned in a unit of time.  *)
(***************************************************************************)
EXTENDS RateLimiter, TLC

CONSTANTS g1, g2

(* The clock of g2's instance is one unit ahead of g1's.                    *)
OneAhead == (g1 :> 0) @@ (g2 :> 1)
=============================================================================
