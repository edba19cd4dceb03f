----------------------------- MODULE MCRateLimits -----------------------------
(* Two requests at a time against small limits and short windows.          *)
EXTENDS RateLimits, TLC

(* The machine API has the most keys, and one request less.                *)
MCRequests == [machine |-> 5, management |-> 6, page |-> 6]
MCSymmetry == Permutations(Workers)
===============================================================================
