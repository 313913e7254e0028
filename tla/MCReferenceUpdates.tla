------------------------ MODULE MCReferenceUpdates ------------------------
(* Instances of ReferenceUpdates for TLC. *)
EXTENDS ReferenceUpdates, TLC

CONSTANTS p1, p2, p3, manifest, a, b, x, y

Pair == {p1, p2}

\* Two processes of one version: a setup and a build that asks for more meet
\* while two packs and the manifest are edited.
SameVersion == p1 :> 1 @@ p2 :> 1
RaceJobs == p1 :> {"setup", "rebuild"} @@ p2 :> {"build", "start"}
RaceWant == p1 :> {x} @@ p2 :> {x, y}

\* Three executables meet: p2 knows newer projections than p1, p3 also a newer
\* preparation of the source; their builds run out of cache and die.
Executables == {p1, p2, p3}
Preparations == p1 :> 1 @@ p2 :> 1 @@ p3 :> 2
Projections == p1 :> 1 @@ p2 :> 2 @@ p3 :> 2
UpgradeJobs ==
  p1 :> {"setup", "rebuild", "start"} @@ p2 :> {"build", "start"} @@ p3 :> {"setup", "start"}
UpgradeWant == p1 :> {x} @@ p2 :> {x, y} @@ p3 :> {x}
=============================================================================
