----------------------------- MODULE HitPointRules -----------------------------
(***************************************************************************)
(* What damage, healing and a knockout do to a participant of an           *)
(* encounter (atlas-app-service/src/encounters/rules/hp_events.rs and      *)
(* rules/events.rs).  Amounts are resolved by the caller.  Petrified and   *)
(* Confused participants, hazards, Prone and Drained are left out, and no  *)
(* record of the reference gives a participant conditions of its own.      *)
(***************************************************************************)
EXTENDS InitiativeOrder, FiniteSets

CONSTANT MaxHp  \* effective maximum of hit points

ASSUME RulesAssumption == MaxHp \in Nat \ {0}

Thresholds == Nat \ {0}

\* out: Unconscious without Dying; threshold: the value of Dying at which the
\* participant dies, without Doomed.
Health ==
  [hp : 0..MaxHp, temp : Nat, dying : Nat, wounded : Nat, doomed : Nat, out : BOOLEAN,
   dead : BOOLEAN, tracking : BOOLEAN, defeated : BOOLEAN, threshold : Thresholds]

\* What is known of an event: each fact is a set of at most one value.
Facts ==
  [lethality : SUBSET {"lethal", "nonlethal"}, critical : SUBSET BOOLEAN,
   enemy : SUBSET BOOLEAN, source : SUBSET Participants, keep : SUBSET BOOLEAN,
   threshold : SUBSET Thresholds]

NoFacts ==
  [lethality |-> {}, critical |-> {}, enemy |-> {}, source |-> {}, keep |-> {},
   threshold |-> {}]

Lesser(m, n) == IF m <= n THEN m ELSE n

Given(fact, default) == IF fact = {} THEN default ELSE CHOOSE x \in fact : TRUE

-----------------------------------------------------------------------------
\* required_lifecycle_facts
NeedsFacts(dying, f) ==
  \/ dying > 0 /\ (f.critical = {} \/ (f.critical = {TRUE} /\ f.enemy = {}))
  \/ dying = 0 /\ (f.lethality = {} \/ (f.lethality = {"lethal"} /\ f.critical = {}))

Recorded == {"lethality", "critical", "enemy", "threshold"}

\* What was recorded cannot be changed, but initiative can be decided anew.
Conflict(saved, given) ==
  \E x \in Recorded : saved[x] # {} /\ given[x] # {} /\ saved[x] # given[x]

Merge(saved, given) ==
  [x \in DOMAIN saved |->
    IF x \in Recorded
      THEN IF saved[x] # {} THEN saved[x] ELSE given[x]
      ELSE IF given[x] # {} THEN given[x] ELSE saved[x]]

Dead(h) == [h EXCEPT !.dead = TRUE, !.dying = 0, !.doomed = 0]

\* The value of Dying after a knockout, or 0 when the damage was nonlethal.
NextDying(h, f) ==
  CASE h.dying > 0 -> h.dying + IF f.critical = {TRUE} /\ f.enemy = {TRUE} THEN 2 ELSE 1
    [] h.dying = 0 /\ f.lethality = {"nonlethal"} -> 0
    [] OTHER -> h.wounded + IF f.critical = {TRUE} THEN 2 ELSE 1

\* What is told of the event about the threshold takes precedence.
KnockedOut(h, f) ==
  LET next == NextDying(h, f)
      left == Given(f.threshold, h.threshold) - h.doomed
  IN  CASE next >= left -> Dead(h)
        [] next < left /\ next > 0 -> [h EXCEPT !.dying = next]
        [] OTHER -> [h EXCEPT !.out = TRUE]

\* A decision about p that is left open: slot is "lifecycle" or "placement".
Decision(slot, p, before, h, f) ==
  [slot |-> slot, who |-> p, before |-> before, after |-> h.hp, dying |-> h.dying,
   wounded |-> h.wounded, doomed |-> h.doomed, facts |-> f]

\* What an event does: the health it leaves, the decisions it opens and the
\* participant before whom the subject moves in initiative.
Effect(h, open, before) == [health |-> h, open |-> open, before |-> before]

\* plan_damage_lifecycle, for a participant who had hp hit points and has h now.
Knockout(p, hp, h, f, relocate) ==
  LET moves == relocate /\ f.keep # {TRUE}
  IN  Effect(KnockedOut(h, f),
             IF moves /\ f.source = {} THEN {Decision("placement", p, hp, h, f)} ELSE {},
             IF moves THEN f.source ELSE {})

Damage(p, h, amount, f) ==
  LET temp == Lesser(h.temp, amount)
      left == h.hp - (amount - temp)
      hurt == [h EXCEPT !.temp = @ - temp, !.hp = IF left > 0 THEN left ELSE 0]
      woken == [hurt EXCEPT !.out = @ /\ ~(amount > 0 /\ hurt.hp >= 1 /\ ~h.dead)]
  IN  CASE ~(h.tracking /\ ~h.dead /\ amount > 0) ->
             Effect([woken EXCEPT !.defeated = @ \/ (hurt.hp = 0 /\ ~h.tracking)], {}, {})
        [] h.tracking /\ ~h.dead /\ amount > 0 /\ h.dying = 0 /\ hurt.hp > 0 ->
             Effect(woken, {}, {})
        [] OTHER ->
             IF NeedsFacts(h.dying, f)
               THEN Effect(woken, {Decision("lifecycle", p, h.hp, woken, f)}, {})
               ELSE Knockout(p, h.hp, woken, f, h.hp > 0)

\* Healing ends Dying, which leaves a wound, and wakes.
Heal(h, amount) ==
  LET healed == [h EXCEPT !.hp = Lesser(@ + amount, MaxHp)]
  IN  IF amount > 0 /\ healed.hp >= 1 /\ ~h.dead
        THEN [healed EXCEPT !.dying = 0, !.out = FALSE,
                            !.wounded = @ + IF h.dying > 0 THEN 1 ELSE 0]
        ELSE healed

\* resolve_pending_lifecycle: the damage itself is not repeated.
Resolve(h, d, given) ==
  LET f == Merge(d.facts, given)
  IN  IF d.slot = "lifecycle" THEN Knockout(d.who, d.before, h, f, d.before > 0)
      ELSE Effect(h, {}, IF f.keep = {TRUE} THEN {} ELSE f.source)

Resolvable(h, d, given) ==
  LET f == Merge(d.facts, given)
  IN  /\ ~Conflict(d.facts, given)
      /\ d.slot = "lifecycle" => ~NeedsFacts(h.dying, f)
      /\ d.slot = "placement" => f.keep = {TRUE} \/ f.source # {}

\* plan_knockout, for a participant at 0 hit points.
StartDying(p, h, f) ==
  LET subject == [h EXCEPT !.tracking = TRUE, !.dead = FALSE, !.defeated = FALSE]
      e == Knockout(p, h.hp, subject, f, TRUE)
  IN  CASE ~h.tracking /\ h.dying > 0 -> Effect(subject, {}, {})
        [] (h.tracking \/ h.dying = 0) /\ e.health.dead ->
             [e EXCEPT !.health.defeated = h.defeated]
        [] OTHER -> e

Startable(h, f) == (~h.tracking /\ h.dying > 0) \/ ~NeedsFacts(h.dying, f)

\* The counters are not held against a new threshold.
WithSettings(h, b) == [h EXCEPT !.tracking = b.tracking, !.threshold = Given(b.threshold, @)]

\* set_encounter_life_settings
Life(p, h, b) ==
  IF b.knockout # {}
    THEN [StartDying(p, h, CHOOSE f \in b.knockout : TRUE) EXCEPT !.health = WithSettings(@, b)]
    ELSE LET dead == IF b.mortality = {} THEN h.dead ELSE b.mortality = {"dead"}
         IN  Effect(WithSettings([h EXCEPT !.dead = dead], b), {}, {})

LifeAllowed(h, b) ==
  \A f \in b.knockout : b.tracking /\ h.hp = 0 /\ Startable(h, f)

\* Whether they end what was undecided about the participant.
LifeDecides(h, b) == b.knockout # {} \/ b.mortality # {} \/ b.tracking # h.tracking

\* Mutant: only Dying is held against the threshold.
FatalDying(h, c) == c.dying > h.dying /\ c.dying >= h.threshold

\* What plan_condition_transition makes of a counter that grew.
Fatal(h, c) ==
  (c.dying > h.dying \/ c.doomed > h.doomed) /\ c.dying + c.doomed >= h.threshold

\* A client sets one counter and lets that take effect: c is the subject with the new value.
Counted(h, c) ==
  LET stable == h.dying > 0 /\ c.dying = 0 /\ ~h.dead
      after == IF stable THEN [c EXCEPT !.wounded = @ + 1, !.out = @ \/ h.hp = 0] ELSE c
  IN  IF Fatal(h, c) THEN Dead(after) ELSE after

\* plan_condition_change: what takes effect has consequences, a correction has none.
Condition(h, b) ==
  LET c == [h EXCEPT ![b.counter] = b.value] IN IF b.applies THEN Counted(h, c) ELSE c

\* Only a condition that is there can be removed.
ConditionAllowed(h, b) == b.value > 0 \/ h[b.counter] > 0

\* reorder_participant, before another one.
Moved(order, p, before) ==
  IF before \ {p} = {} THEN order ELSE Before(order, p, CHOOSE q \in before \ {p} : TRUE)
=============================================================================
