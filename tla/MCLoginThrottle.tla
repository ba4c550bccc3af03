-------------------------- MODULE MCLoginThrottle --------------------------
(* LoginThrottle, bounded for TLC: the order of the advisory locks.        *)
EXTENDS LoginThrottle

CONSTANTS a1, a2, o1, o2

\* The digests put the origin of the first account before it and the origin of
\* the second one after it.
Ids == [k \in Keys |->
  CASE k[2] = a1 -> 2 [] k[2] = a2 -> 3 [] k[2] = o1 -> 1 [] OTHER -> 4]
=============================================================================
