-------------------------- MODULE MCNeighborReuse --------------------------
(* Two callers and room for two entries.  Of the requests r1 and r2 have   *)
(* the same digest, r4 cannot be keyed, the payload of r5 is too large to  *)
(* retain, and r6 has a scope of keys.                                     *)
EXTENDS NeighborReuse, TLC

CONSTANTS c1, c2, r1, r2, r3, r4, r5, r6, k1, k2, k3, k4, k5

ReuseCallers == {c1, c2}
ReuseRequests == {r1, r2, r3, r4, r5, r6}
ReuseHash == r1 :> 1 @@ r2 :> 1 @@ r3 :> 2 @@ r4 :> 3 @@ r5 :> 4 @@ r6 :> 5
ReuseCharges == {k1, k2, k3, k4, k5}
Same == Permutations(ReuseCharges) \cup Permutations(ReuseCallers)
=============================================================================
