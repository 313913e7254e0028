---------------------------- MODULE MCWorkspace ----------------------------
(* Instances of Workspace for TLC. *)
EXTENDS Workspace, TLC

CONSTANTS a1, a2, old, new

\* Two processes share the file, one thread each: an old and a new executable,
\* or two of the same version.
PairActors == {a1, a2}
PairProcesses == {old, new}
PairProcessOf == a1 :> old @@ a2 :> new
PairVersion == old :> 1 @@ new :> 2
PeerVersion == old :> 2 @@ new :> 2
PairWorkload == [a \in PairActors |-> (Calls \cup OwnerJobs) \ {"snapshot", "initialize"}]

\* No file yet; a file of the old schema; one whose maintenance was cut off.
OldImage == [Empty EXCEPT !.schema = 1]
Marked == [OldImage EXCEPT !.maintenance = TRUE]
NoFile == [file |-> FALSE, db |-> Empty, seed |-> Empty]
PairStarts ==
  {NoFile, [NoFile EXCEPT !.file = TRUE, !.db = OldImage],
   [NoFile EXCEPT !.file = TRUE, !.db = Marked]}

\* Snapshots and installation beside publishers and an upgrade: the old
\* executable snapshots and installs, the new one changes what is copied.
SeedWorkload ==
  a1 :> {"snapshot", "initialize", "read", "write", "migrate"}
  @@ a2 :> {"write", "update", "publish", "maintain", "migrate", "initialize"}
SeedStarts == PairStarts \cup {[NoFile EXCEPT !.seed = [OldImage EXCEPT !.saved = 1]]}

\* Two threads of one process share one mapping and make every call: on a file to
\* be upgraded whose maintenance was cut off, and where there is only a seed.
OneProcess == {new}
OneProcessOf == [a \in PairActors |-> new]
OneVersion == new :> 2
EveryWorkload == [a \in PairActors |-> Calls \cup OwnerJobs]
EveryStart ==
  {[NoFile EXCEPT !.file = TRUE, !.db = Marked], [NoFile EXCEPT !.seed = OldImage]}
=============================================================================
