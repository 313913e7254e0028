--------------------------- MODULE MCWebService ---------------------------
(* Instances of WebService for TLC. *)
EXTENDS WebService, TLC

CONSTANTS r1, r2, r3, w1, w2, bge, gemma

\* Two searches and a mutation; the second revision stores another profile.
ServiceRequests == {r1, r2, r3}
ServiceKind == r1 :> "text" @@ r2 :> "text" @@ r3 :> "write"
ServiceWorkers == {w1, w2}
ServiceProfiles == {bge, gemma}
ServiceProfileOf == [v \in Revisions |-> IF v < 2 THEN bge ELSE gemma]
Same == Permutations({r1, r2}) \cup Permutations(ServiceWorkers)

\* For the liveness of the tasks: one worker, which can die while the jobs of others
\* are queued, and two searches, so that the second waits for the lane, or comes to
\* it, when the inference of the first has poisoned it.
OneWorker == {w1}
=============================================================================
