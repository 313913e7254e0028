-------------------------- MODULE MCEncounterTurns --------------------------
(* Instances of EncounterTurns for TLC. *)
EXTENDS EncounterTurns, TLC

CONSTANTS a, b, c, t1, t2, next, settle, again, first, second, third

Everyone == {a, b, c}
TwoThreads == {t1, t2}
OneThread == {t1}
AllRequests == {next, settle, again}
RequestKind == next :> "next" @@ settle :> "settle" @@ again :> "settle"

\* Two participants, Next turn, a settlement, and another settlement that uses
\* the id of the first by mistake.
CommandId == next :> first @@ settle :> second @@ again :> second
CommandSubject == next :> a @@ settle :> a @@ again :> b
CommandsTables ==
  {[order |-> <<a, b>>, requests |-> AllRequests,
    others |-> {"advance", "frighten", "reset"}, revisions |-> 3]}
SameThreads == Permutations(TwoThreads)

\* Two settlements of one boundary among what changes conditions and claims;
\* three participants in which only the order of turns is edited.
SettleId == next :> first @@ settle :> second @@ again :> third
SettleSubject == next :> a @@ settle :> a @@ again :> a
SettleTables ==
  {[order |-> <<a, b>>, requests |-> {settle, again},
    others |-> {"advance", "frighten", "calm", "rest", "baseline"}, revisions |-> 5],
   [order |-> <<a, b, c>>, requests |-> {},
    others |-> {"advance", "turn", "toggle", "reorder", "remove", "rest", "stun"}, revisions |-> 7]}

\* Nobody else.
MatchingTables == {[order |-> <<a, b>>, requests |-> {next}, others |-> {}, revisions |-> 3]}
=============================================================================
