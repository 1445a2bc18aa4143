------------------------------ MODULE RateLimiter ------------------------------
(***************************************************************************)
(* The sliding window of the rate limiter: the requests it has let through *)
(* from one address, by their age.  Every limited route counts into the    *)
(* same window, because the key is the address and the length only; each   *)
(* compares it with a limit of its own.  A request that is refused leaves  *)
(* no trace.                                                               *)
(***************************************************************************)
EXTENDS Naturals, Folds, Functions

CONSTANT Window     \* the length of the window, in ticks of the clock

ASSUME WindowAssumption == Window \in Nat \ {0}

Ages == 0 .. Window - 1

NoHits == [age \in Ages |-> 0]

InWindow(hits) == FoldFunction(+, 0, hits)

Allowed(hits, limit) == InWindow(hits) < limit

Hit(hits) == [hits EXCEPT ![0] = @ + 1]

\* What is left of the window when the clock has ticked.
Older(hits) == [age \in Ages |-> IF age = 0 THEN 0 ELSE hits[age - 1]]
=============================================================================
