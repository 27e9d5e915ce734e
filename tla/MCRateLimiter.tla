--------------------------- MODULE MCRateLimiter ---------------------------
(***************************************************************************)
(* RateLimiter.tla for TLC.                                                *)
(***************************************************************************)
EXTENDS RateLimiter

=============================================================================
