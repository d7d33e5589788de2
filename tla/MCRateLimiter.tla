---------------------------- MODULE MCRateLimiter -----------------------------
(***************************************************************************)
(* Instances of RateLimiter for TLC: one run for each of the two limiters, *)
(* which share nothing but the clock.                                      *)
(***************************************************************************)
EXTENDS RateLimiter, TLC

KeySymmetry == Permutations(Keys)
===============================================================================
