-------------------------- MODULE MCEncounterHealth --------------------------
(* Instances of EncounterHealth for TLC. *)
EXTENDS EncounterHealth, TLC

CONSTANTS hero, foe, t1, t2, hit, finish, mend, decide, place, drop, revive, spare, fade,
  lower, doom, fix

Both == {hero, foe}
Initiative == <<foe, hero>>
Fresh == [hp |-> 1, temp |-> 0, dying |-> 0, wounded |-> 0, doomed |-> 0, out |-> FALSE,
          dead |-> FALSE, tracking |-> TRUE, defeated |-> FALSE, threshold |-> 3]
Healthy == hero :> Fresh @@ foe :> [Fresh EXCEPT !.tracking = FALSE]
TwoThreads == {t1, t2}
SameThreads == Permutations(TwoThreads)

Lethal == [NoFacts EXCEPT !.lethality = {"lethal"}, !.critical = {FALSE}]
Placed == [Lethal EXCEPT !.source = {foe}]
Critical == [Placed EXCEPT !.critical = {TRUE}, !.enemy = {TRUE}]
Plain(kind, amount, facts) == [kind |-> kind, who |-> hero, amount |-> amount, facts |-> facts]
Settings(mortality, tracking, threshold, knockout) ==
  [kind |-> "life", who |-> hero, mortality |-> mortality, tracking |-> tracking,
   threshold |-> threshold, knockout |-> knockout, facts |-> NoFacts]
Count(counter, value, applies) ==
  [kind |-> "condition", who |-> hero, counter |-> counter, value |-> value,
   applies |-> applies, facts |-> NoFacts]

\* Damage whose facts are not known, a critical blow that is told a higher
\* threshold, healing, two answers to a decision and its dismissal; a participant
\* who is marked alive, who is defeated at 0 hit points from now on, and who starts
\* to die of a lower threshold; settings that lower it, a condition that applies and
\* a correction.
Bodies ==
  hit :> Plain("damage", 1, NoFacts)
  @@ finish :> Plain("damage", 1, [Critical EXCEPT !.threshold = {4}])
  @@ mend :> Plain("heal", 1, NoFacts)
  @@ decide :> Plain("apply", 0, Lethal) @@ place :> Plain("apply", 0, Placed)
  @@ drop :> Plain("keep", 0, NoFacts)
  @@ revive :> Settings({"alive"}, TRUE, {}, {}) @@ spare :> Settings({}, FALSE, {}, {})
  @@ fade :> Settings({}, TRUE, {2}, {Lethal}) @@ lower :> Settings({}, TRUE, {2}, {})
  @@ doom :> Count("doomed", 2, TRUE) @@ fix :> Count("dying", 2, FALSE)

\* Two commands in one behaviour: the critical blow or an answer and any other,
\* damage and what ends its decision, what ends a decision and what revives or
\* fells, and the conditions and settings of a threshold.
PairsOf(some, others) == {{r, q} : r \in some, q \in others}
Answers == {decide, place, drop}
Perils == {fade, lower, doom, fix}
Treated ==
  PairsOf({finish, decide}, DOMAIN Bodies) \cup PairsOf({hit}, Answers \cup {mend})
  \cup PairsOf(Answers, Answers \cup {revive, spare, fade}) \cup PairsOf(Perils, Perils)
Edits == {"damage", "hp", "doomed", "dying"} \X {hero}
=============================================================================
