------------------------- MODULE EncounterHealthProofs -------------------------
(***************************************************************************)
(* Proofs about EncounterHealth, for all participants, bodies, threads,    *)
(* edits, values and bounds: every open decision is about its participant  *)
(* as it is, the commands do what Knockouts promises, and a participant    *)
(* gets to the threshold at which it dies only where the code excepts it.  *)
(*                                                                         *)
(* The first is not inductive: a command writes what it planned in an      *)
(* earlier session, so every plan has to be one that the rows it is about  *)
(* can take.  IndInv adds that.                                            *)
(*                                                                         *)
(* The others need more: what a thread is about to write has to be what    *)
(* its request asks, unless the rows have changed since (Meant), and a     *)
(* decision has to be known by its key (Keyed).  Meaning adds both.        *)
(*                                                                         *)
(* Types, and that everyone is in initiative exactly once, need that what  *)
(* is planned opens decisions of the right shape (TypesInv).               *)
(***************************************************************************)
EXTENDS EncounterHealth, InitiativeOrderProofs

SameCounters(h, g) == h.dying = g.dying /\ h.wounded = g.wounded /\ h.doomed = g.doomed

\* No decision about a knockout, and none about another participant.
Placements(p, open) == \A d \in open : d.who = p /\ d.slot = "placement"

\* What an event leaves open is one decision, about the health that it leaves.
OpensOne(e) ==
  /\ \A m, n \in e.open : m = n
  /\ \A n \in e.open : n.after = e.health.hp /\ (n.slot = "lifecycle" => Counts(e.health, n))

\* What can be said of a plan by itself: a command that does not know the
\* sources of its participant opens no decision about a knockout.
SoundPlan(plan) ==
  /\ plan.who \in Participants /\ plan.effect.health \in Health
  /\ \A d \in plan.effect.open :
       d.who = plan.who /\ (plan.who \notin plan.known => d.slot = "placement")

\* And of a plan for the rows s: one that does not know the sources leaves the
\* counters alone, or settles all that is open.
Fits(plan, s) ==
  \/ plan.who \in plan.known
  \/ SameCounters(plan.effect.health, s.health[plan.who])
  \/ \A d \in s.pending : d.who = plan.who => d.key \in plan.settled

\* The rows.
Rows(s) ==
  /\ s = [revision |-> s.revision, health |-> s.health, changed |-> s.changed,
          order |-> s.order, pending |-> s.pending, receipts |-> s.receipts]
  /\ s.revision \in Nat /\ s.health \in [Participants -> Health]
  /\ \A d \in s.pending : d.who \in Participants /\ Current(s.health[d.who], d, TRUE)

\* Every body was filled from the rows at some revision.
Asked ==
  /\ asked = [r \in Requests |-> asked[r]]
  /\ \A r \in Requests : \A a \in asked[r] : a.revision \in Nat /\ a.revision <= saved.revision

\* What a thread is about to write is sound, and fits the rows unless they have
\* changed since it was planned.
Planning(t) ==
  pc[t] \in {"listing", "committing"} =>
    \A v \in view[t] :
      /\ v = [at |-> v.at, plan |-> v.plan]
      /\ v.plan = [who |-> v.plan.who, effect |-> v.plan.effect, settled |-> v.plan.settled,
                   writes |-> v.plan.writes, known |-> v.plan.known]
      /\ v.at \in Nat /\ v.at <= saved.revision
      /\ SoundPlan(v.plan)
      /\ pc[t] = "committing" /\ v.at = saved.revision => Fits(v.plan, saved)

Attempts ==
  /\ pc = [t \in Threads |-> pc[t]] /\ view = [t \in Threads |-> view[t]]
  /\ request \in [Threads -> Requests]
  /\ \A t \in Threads : Planning(t)

IndInv == Rows(saved) /\ Asked /\ Attempts

-----------------------------------------------------------------------------
(* The rules.                                                              *)

\* A fact that is given, or what there is without it.
LEMMA GivenIsOne ==
  ASSUME NEW S, NEW fact \in SUBSET S, NEW default \in S
  PROVE  Given(fact, default) \in S
BY DEF Given

\* Death.
LEMMA DeadIsHealth ==
  ASSUME NEW h \in Health
  PROVE  Dead(h) \in Health /\ Dead(h).hp = h.hp /\ Dead(h).threshold = h.threshold
BY DEF Dead, Health

\* The value of Dying that a knockout leads to.
LEMMA NextDyingIsNat ==
  ASSUME NEW h \in Health, NEW f
  PROVE  NextDying(h, f) \in Nat
<1>1. h.dying \in Nat /\ h.wounded \in Nat
  BY DEF Health
<1> DEFINE harm == IF f.critical = {TRUE} /\ f.enemy = {TRUE} THEN 2 ELSE 1
           first == IF f.critical = {TRUE} THEN 2 ELSE 1
<1>2. harm \in Nat /\ first \in Nat
  <2>1. harm \in {1, 2} /\ first \in {1, 2}
    BY Zenon
  <2> HIDE DEF harm, first
  <2>2. QED
    BY <2>1
<1>3. CASE h.dying > 0
  <2>1. h.dying # 0
    BY <1>1, <1>3
  <2>2. NextDying(h, f) = h.dying + harm
    BY <1>3, <2>1, Zenon DEF NextDying
  <2> HIDE DEF harm
  <2>3. QED
    BY <1>1, <1>2, <2>2
<1>4. CASE h.dying = 0 /\ f.lethality = {"nonlethal"}
  BY <1>4 DEF NextDying
<1>5. CASE ~(h.dying > 0) /\ ~(h.dying = 0 /\ f.lethality = {"nonlethal"})
  <2>1. NextDying(h, f) = h.wounded + first
    BY <1>5, Zenon DEF NextDying
  <2> HIDE DEF first
  <2>2. QED
    BY <1>1, <1>2, <2>1
<1>6. QED
  BY <1>3, <1>4, <1>5

\* A knockout leads to death, to Dying or out of consciousness.
LEMMA KnockedOutCases ==
  ASSUME NEW h, NEW f
  PROVE  LET left == Given(f.threshold, h.threshold) - h.doomed
             next == NextDying(h, f)
         IN  \/ KnockedOut(h, f) = Dead(h)
             \/ next < left /\ KnockedOut(h, f) = [h EXCEPT !.dying = next]
             \/ KnockedOut(h, f) = [h EXCEPT !.out = TRUE]
BY DEF KnockedOut

LEMMA KnockedOutIsHealth ==
  ASSUME NEW h \in Health, NEW f
  PROVE  /\ KnockedOut(h, f) \in Health /\ KnockedOut(h, f).hp = h.hp
         /\ KnockedOut(h, f).threshold = h.threshold
<1> DEFINE next == NextDying(h, f)
<1>1. next \in Nat
  BY NextDyingIsNat
<1> HIDE DEF next
<1>2. /\ [h EXCEPT !.dying = next] \in Health /\ [h EXCEPT !.out = TRUE] \in Health
      /\ [h EXCEPT !.dying = next].hp = h.hp /\ [h EXCEPT !.out = TRUE].hp = h.hp
      /\ [h EXCEPT !.dying = next].threshold = h.threshold
      /\ [h EXCEPT !.out = TRUE].threshold = h.threshold
  BY <1>1 DEF Health
<1>3. QED
  BY <1>2, DeadIsHealth, KnockedOutCases DEF next

\* It opens at most the decision about a place in initiative.
LEMMA KnockoutIsSound ==
  ASSUME NEW p, NEW hp, NEW h \in Health, NEW f, NEW relocate
  PROVE  /\ Knockout(p, hp, h, f, relocate).health \in Health
         /\ Placements(p, Knockout(p, hp, h, f, relocate).open)
         /\ OpensOne(Knockout(p, hp, h, f, relocate))
<1> DEFINE moves == relocate /\ f.keep # {TRUE}
           open == IF moves /\ f.source = {} THEN {Decision("placement", p, hp, h, f)} ELSE {}
           before == IF moves THEN f.source ELSE {}
<1>1. Knockout(p, hp, h, f, relocate) = Effect(KnockedOut(h, f), open, before)
  BY DEF Knockout
<1>2. open \subseteq {Decision("placement", p, hp, h, f)}
  OBVIOUS
<1> HIDE DEF open, before
<1>3. Placements(p, open)
  BY <1>2 DEF Decision, Placements
<1>4. KnockedOut(h, f) \in Health /\ KnockedOut(h, f).hp = h.hp
  BY KnockedOutIsHealth
<1>5. OpensOne(Effect(KnockedOut(h, f), open, before))
  BY <1>2, <1>4 DEF OpensOne, Effect, Decision
<1>6. QED
  BY <1>1, <1>3, <1>4, <1>5 DEF Effect

\* What the threshold is compared with, and the threshold, are the same.
Unharmed(h, g) == g.dying = h.dying /\ g.doomed = h.doomed /\ g.threshold = h.threshold

\* What damage does to who had health h.
Damaged(p, h, f, e) ==
  \E woken, beaten \in Health :
    /\ Unharmed(h, woken) /\ Unharmed(h, beaten)
    /\ e \in {Effect(beaten, {}, {}), Effect(woken, {}, {}),
              Effect(woken, {Decision("lifecycle", p, h.hp, woken, f)}, {}),
              Knockout(p, h.hp, woken, f, h.hp > 0)}

LEMMA DamageCases ==
  ASSUME NEW p, NEW h \in Health, NEW amount \in Nat, NEW f
  PROVE  Damaged(p, h, f, Damage(p, h, amount, f))
<1> DEFINE temp == Lesser(h.temp, amount)
           left == h.hp - (amount - temp)
           hurt == [h EXCEPT !.temp = @ - temp, !.hp = IF left > 0 THEN left ELSE 0]
           woken == [hurt EXCEPT !.out = @ /\ ~(amount > 0 /\ hurt.hp >= 1 /\ ~h.dead)]
           defeated == woken.defeated \/ (hurt.hp = 0 /\ ~h.tracking)
           beaten == [woken EXCEPT !.defeated = defeated]
<1>1. h.hp \in 0..MaxHp /\ h.temp \in Nat /\ MaxHp \in Nat
  BY RulesAssumption DEF Health
<1>2. h.temp - temp \in Nat /\ left \in Int /\ left <= h.hp
  BY <1>1 DEF Lesser
<1>3. (IF left > 0 THEN left ELSE 0) \in 0..MaxHp
  BY <1>1, <1>2
<1>4. hurt \in Health /\ Unharmed(h, hurt)
  BY <1>2, <1>3 DEF Health, Unharmed
<1>5. woken \in Health /\ Unharmed(h, woken)
  BY <1>4 DEF Health, Unharmed
<1>6. beaten \in Health /\ Unharmed(h, beaten)
  <2>1. defeated \in BOOLEAN
    OBVIOUS
  <2> HIDE DEF defeated, woken
  <2>2. QED
    BY <1>5, <2>1 DEF Health, Unharmed
<1>7. Damage(p, h, amount, f) \in
        {Effect(beaten, {}, {}), Effect(woken, {}, {}),
         Effect(woken, {Decision("lifecycle", p, h.hp, woken, f)}, {}),
         Knockout(p, h.hp, woken, f, h.hp > 0)}
  BY DEF Damage
<1> HIDE DEF woken, beaten
<1>8. QED
  BY <1>5, <1>6, <1>7 DEF Damaged

\* Damage is a knockout, or leaves the lifecycle of the subject to be decided.
LEMMA DamageIsSound ==
  ASSUME NEW p, NEW h \in Health, NEW amount \in Nat, NEW f
  PROVE  LET e == Damage(p, h, amount, f)
         IN  e.health \in Health /\ OpensOne(e) /\ \A d \in e.open : d.who = p
<1> DEFINE Fine(e) == e.health \in Health /\ OpensOne(e) /\ \A d \in e.open : d.who = p
<1>1. PICK woken \in Health, beaten \in Health :
        Damage(p, h, amount, f) \in
             {Effect(beaten, {}, {}), Effect(woken, {}, {}),
              Effect(woken, {Decision("lifecycle", p, h.hp, woken, f)}, {}),
              Knockout(p, h.hp, woken, f, h.hp > 0)}
  BY DamageCases DEF Damaged
<1>2. Fine(Knockout(p, h.hp, woken, f, h.hp > 0))
  BY KnockoutIsSound DEF Placements
<1>3. Fine(Effect(beaten, {}, {})) /\ Fine(Effect(woken, {}, {}))
  BY DEF OpensOne, Effect
<1>4. Fine(Effect(woken, {Decision("lifecycle", p, h.hp, woken, f)}, {}))
  BY DEF OpensOne, Effect, Decision, Counts
<1>5. Fine(Damage(p, h, amount, f))
  <2> HIDE DEF Fine
  <2>1. QED
    BY <1>1, <1>2, <1>3, <1>4
<1>6. QED
  BY <1>5

\* Healing ends Dying.
Healed(h, g) ==
  g.doomed = h.doomed /\ g.threshold = h.threshold /\ g.dying \in {0, h.dying}

LEMMA HealIsHealth ==
  ASSUME NEW h \in Health, NEW amount \in Nat
  PROVE  Heal(h, amount) \in Health /\ Healed(h, Heal(h, amount))
<1> DEFINE healed == [h EXCEPT !.hp = Lesser(@ + amount, MaxHp)]
           wound == h.wounded + IF h.dying > 0 THEN 1 ELSE 0
           risen == [healed EXCEPT !.dying = 0, !.out = FALSE, !.wounded = wound]
<1>1. h.hp \in 0..MaxHp /\ MaxHp \in Nat /\ h.wounded \in Nat
  BY RulesAssumption DEF Health
<1>2. Lesser(h.hp + amount, MaxHp) \in 0..MaxHp /\ wound \in Nat
  BY <1>1 DEF Lesser
<1>3. healed \in Health /\ Healed(h, healed) /\ healed.wounded = h.wounded
  BY <1>2 DEF Health, Healed
<1>4. Heal(h, amount) \in {healed, risen}
  BY <1>3 DEF Heal
<1> HIDE DEF healed, wound
<1>5. risen \in Health /\ Healed(h, risen)
  BY <1>2, <1>3 DEF Health, Healed
<1>6. QED
  BY <1>3, <1>4, <1>5

\* An answer to a decision is a knockout or a move.
LEMMA ResolveIsSound ==
  ASSUME NEW h \in Health, NEW d, NEW given
  PROVE  LET e == Resolve(h, d, given)
         IN  e.health \in Health /\ OpensOne(e) /\ \A n \in e.open : n.who = d.who
<1> DEFINE f == Merge(d.facts, given)
           k == Knockout(d.who, d.before, h, f, d.before > 0)
           before == IF f.keep = {TRUE} THEN {} ELSE f.source
<1>1. Resolve(h, d, given) = IF d.slot = "lifecycle" THEN k ELSE Effect(h, {}, before)
  BY DEF Resolve
<1>2. k.health \in Health /\ OpensOne(k) /\ \A n \in k.open : n.who = d.who
  <2> HIDE DEF f
  <2>1. QED
    BY KnockoutIsSound DEF Placements
<1> HIDE DEF k, before
<1>3. OpensOne(Effect(h, {}, before))
  BY DEF OpensOne, Effect
<1>4. QED
  BY <1>1, <1>2, <1>3 DEF Effect

\* Who starts to die by a choice of settings opens no lifecycle decision.
LEMMA StartDyingIsSound ==
  ASSUME NEW p, NEW h \in Health, NEW f
  PROVE  LET e == StartDying(p, h, f)
         IN  /\ e.health \in Health /\ e = Effect(e.health, e.open, e.before)
             /\ Placements(p, e.open) /\ OpensOne(e)
<1> DEFINE subject == [h EXCEPT !.tracking = TRUE, !.dead = FALSE, !.defeated = FALSE]
           k == Knockout(p, h.hp, subject, f, TRUE)
<1>1. subject \in Health
  BY DEF Health
<1>2. /\ k.health \in Health /\ k = Effect(k.health, k.open, k.before)
      /\ Placements(p, k.open) /\ OpensOne(k)
  <2>1. k = Effect(k.health, k.open, k.before)
    BY DEF Knockout, Effect
  <2>2. k.health \in Health
    BY <1>1, KnockoutIsSound
  <2>3. Placements(p, k.open) /\ OpensOne(k)
    BY <1>1, KnockoutIsSound
  <2> HIDE DEF k
  <2>4. QED
    BY <2>1, <2>2, <2>3
<1>3. StartDying(p, h, f) \in
        {Effect(subject, {}, {}), k, [k EXCEPT !.health.defeated = h.defeated]}
  BY DEF StartDying
<1> HIDE DEF k, subject
<1>4. [k EXCEPT !.health.defeated = h.defeated]
        = Effect([k.health EXCEPT !.defeated = h.defeated], k.open, k.before)
  BY <1>2 DEF Effect
<1>5. /\ [k.health EXCEPT !.defeated = h.defeated] \in Health
      /\ [k.health EXCEPT !.defeated = h.defeated].hp = k.health.hp
  BY <1>2 DEF Health
<1>6. OpensOne(Effect([k.health EXCEPT !.defeated = h.defeated], k.open, k.before))
  BY <1>2, <1>5 DEF OpensOne, Effect, Placements
<1>7. OpensOne(Effect(subject, {}, {}))
  BY DEF OpensOne, Effect
<1> DEFINE beaten == [k.health EXCEPT !.defeated = h.defeated]
           Fine(e) == /\ e.health \in Health /\ e = Effect(e.health, e.open, e.before)
                      /\ Placements(p, e.open) /\ OpensOne(e)
<1>8. Fine(Effect(beaten, k.open, k.before))
  <2>1. beaten \in Health /\ OpensOne(Effect(beaten, k.open, k.before))
    BY <1>5, <1>6
  <2> HIDE DEF beaten
  <2>2. QED
    BY <1>2, <2>1 DEF Effect, Placements
<1>9. Fine(Effect(subject, {}, {})) /\ Fine(k)
  BY <1>1, <1>2, <1>7 DEF Effect, Placements
<1> HIDE DEF Fine
<1>10. Fine(StartDying(p, h, f))
  BY <1>3, <1>4, <1>8, <1>9
<1>11. QED
  BY <1>10 DEF Fine

\* What life settings write beside what they begin.
LEMMA SettingsAreHealth ==
  ASSUME NEW g \in Health, NEW b, b.tracking \in BOOLEAN, b.threshold \subseteq Thresholds
  PROVE  /\ WithSettings(g, b) \in Health /\ WithSettings(g, b).hp = g.hp
         /\ SameCounters(WithSettings(g, b), g)
         /\ WithSettings(g, b).threshold = Given(b.threshold, g.threshold)
<1> DEFINE new == Given(b.threshold, g.threshold)
<1>1. g.threshold \in Thresholds
  BY DEF Health
<1>2. new \in Thresholds
  BY <1>1, GivenIsOne
<1> HIDE DEF new
<1>3. WithSettings(g, b) = [g EXCEPT !.tracking = b.tracking, !.threshold = new]
  BY DEF WithSettings, new
<1>4. QED
  BY <1>2, <1>3 DEF Health, SameCounters, new

\* Life settings begin a knockout or mark their participant.
LEMMA LifeCases ==
  ASSUME NEW p, NEW h \in Health, NEW b
  PROVE  \/ /\ b.knockout # {} /\ LifeDecides(h, b)
            /\ \E f \in b.knockout :
                 LET e == StartDying(p, h, f)
                 IN  Life(p, h, b) = Effect(WithSettings(e.health, b), e.open, e.before)
         \/ \E dead \in BOOLEAN :
              Life(p, h, b) = Effect(WithSettings([h EXCEPT !.dead = dead], b), {}, {})
<1>1. CASE b.knockout # {}
  <2>1. PICK f \in b.knockout : f = CHOOSE g \in b.knockout : TRUE
    BY <1>1
  <2> DEFINE e == StartDying(p, h, f)
  <2>2. e = Effect(e.health, e.open, e.before)
    BY StartDyingIsSound
  <2>3. Life(p, h, b) = [e EXCEPT !.health = WithSettings(@, b)]
    BY <1>1, <2>1 DEF Life, WithSettings
  <2> HIDE DEF e
  <2>4. [e EXCEPT !.health = WithSettings(@, b)] = Effect(WithSettings(e.health, b), e.open, e.before)
    BY <2>2 DEF Effect
  <2>5. QED
    BY <1>1, <2>1, <2>3, <2>4 DEF LifeDecides, e
<1>2. CASE b.knockout = {}
  <2> DEFINE dead == IF b.mortality = {} THEN h.dead ELSE b.mortality = {"dead"}
  <2>1. dead \in BOOLEAN
    BY DEF Health
  <2>2. Life(p, h, b) = Effect(WithSettings([h EXCEPT !.dead = dead], b), {}, {})
    BY <1>2 DEF Life, WithSettings, Health
  <2> HIDE DEF dead
  <2>3. QED
    BY <2>1, <2>2
<1>3. QED
  BY <1>1, <1>2

\* Those that decide nothing leave the counters alone.
LEMMA LifeIsSound ==
  ASSUME NEW p, NEW h \in Health, NEW b, b.tracking \in BOOLEAN, b.threshold \subseteq Thresholds
  PROVE  LET e == Life(p, h, b)
         IN  /\ e.health \in Health /\ Placements(p, e.open) /\ OpensOne(e)
             /\ ~LifeDecides(h, b) => SameCounters(e.health, h)
<1>1. ASSUME NEW f, LifeDecides(h, b),
             LET e == StartDying(p, h, f)
             IN  Life(p, h, b) = Effect(WithSettings(e.health, b), e.open, e.before)
      PROVE  LET e == Life(p, h, b)
             IN  e.health \in Health /\ Placements(p, e.open) /\ OpensOne(e)
  <2> DEFINE e == StartDying(p, h, f)
  <2>1. e.health \in Health /\ Placements(p, e.open) /\ OpensOne(e)
    BY StartDyingIsSound
  <2>2. Life(p, h, b) = Effect(WithSettings(e.health, b), e.open, e.before)
    BY <1>1
  <2> HIDE DEF e
  <2>3. WithSettings(e.health, b) \in Health /\ WithSettings(e.health, b).hp = e.health.hp
    BY <2>1, SettingsAreHealth
  <2>4. QED
    BY <2>1, <2>2, <2>3 DEF Effect, OpensOne, Placements
<1>2. ASSUME NEW dead \in BOOLEAN,
             Life(p, h, b) = Effect(WithSettings([h EXCEPT !.dead = dead], b), {}, {})
      PROVE  LET e == Life(p, h, b)
             IN  /\ e.health \in Health /\ Placements(p, e.open) /\ OpensOne(e)
                 /\ SameCounters(e.health, h)
  <2> DEFINE g == [h EXCEPT !.dead = dead]
  <2>1. g \in Health /\ SameCounters(g, h)
    BY DEF Health, SameCounters
  <2> HIDE DEF g
  <2>2. WithSettings(g, b) \in Health /\ SameCounters(WithSettings(g, b), h)
    BY <2>1, SettingsAreHealth DEF SameCounters
  <2>3. Life(p, h, b) = Effect(WithSettings(g, b), {}, {})
    BY <1>2 DEF g
  <2>4. QED
    BY <2>2, <2>3 DEF Effect, Placements, OpensOne
<1> DEFINE Begins(f) == LET e == StartDying(p, h, f)
             IN  Life(p, h, b) = Effect(WithSettings(e.health, b), e.open, e.before)
           Marked == \E dead \in BOOLEAN :
             Life(p, h, b) = Effect(WithSettings([h EXCEPT !.dead = dead], b), {}, {})
<1>3. \/ b.knockout # {} /\ LifeDecides(h, b) /\ \E f \in b.knockout : Begins(f)
      \/ Marked
  BY LifeCases, Zenon
<1>4. CASE Marked
  BY <1>2, <1>4
<1>5. CASE LifeDecides(h, b) /\ \E f \in b.knockout : Begins(f)
  <2>1. PICK f \in b.knockout : Begins(f)
    BY <1>5
  <2>2. QED
    BY <1>1, <1>5, <2>1
<1> HIDE DEF Begins, Marked
<1>6. QED
  BY <1>3, <1>4, <1>5

\* A counter that a client sets, and what becomes of one who would be stable.
Stable(h, c) ==
  IF h.dying > 0 /\ c.dying = 0 /\ ~h.dead
    THEN [c EXCEPT !.wounded = @ + 1, !.out = @ \/ h.hp = 0] ELSE c

LEMMA CountedIsHealth ==
  ASSUME NEW h \in Health, NEW x \in Counters, NEW n \in Nat
  PROVE  LET c == [h EXCEPT ![x] = n]
         IN  /\ c \in Health /\ c.threshold = h.threshold
             /\ Stable(h, c) \in Health /\ Unharmed(c, Stable(h, c))
             /\ Counted(h, c) = IF Fatal(h, c) THEN Dead(Stable(h, c)) ELSE Stable(h, c)
             /\ Counted(h, c) \in Health
<1> DEFINE c == [h EXCEPT ![x] = n]
           out == c.out \/ h.hp = 0
           cured == [c EXCEPT !.wounded = @ + 1, !.out = out]
<1>1. c \in Health /\ c.threshold = h.threshold
  BY DEF Health, Counters
<1>2. Stable(h, c) \in {c, cured}
  BY DEF Stable
<1>3. Counted(h, c) = IF Fatal(h, c) THEN Dead(Stable(h, c)) ELSE Stable(h, c)
  BY DEF Counted, Stable
<1>4. out \in BOOLEAN
  OBVIOUS
<1> HIDE DEF out, c
<1>5. cured \in Health /\ Unharmed(c, cured)
  <2>1. c.wounded + 1 \in Nat
    BY <1>1 DEF Health
  <2>2. QED
    BY <1>1, <1>4, <2>1 DEF Health, Unharmed
<1> HIDE DEF cured
<1>6. Stable(h, c) \in Health /\ Unharmed(c, Stable(h, c))
  BY <1>1, <1>2, <1>5 DEF Unharmed
<1>7. Counted(h, c) \in Health
  BY <1>3, <1>6, DeadIsHealth
<1>8. QED
  BY <1>1, <1>3, <1>6, <1>7 DEF c

\* A correction sets the counter and nothing else.
LEMMA ConditionIsHealth ==
  ASSUME NEW h \in Health, NEW b, b.counter \in Counters, b.value \in Nat
  PROVE  Condition(h, b) \in Health
BY CountedIsHealth DEF Condition

-----------------------------------------------------------------------------
(* The write.                                                              *)

\* What a write makes of the rows: the decisions it leaves are old ones that it
\* does not settle or those of its plan, and none is known to be obsolete.
LEMMA WrittenRows ==
  ASSUME NEW s, Rows(s), NEW plan, SoundPlan(plan)
  PROVE  LET w == Written(s, plan)
         IN  /\ w = [revision |-> w.revision, health |-> w.health, changed |-> w.changed,
                     order |-> w.order, pending |-> w.pending, receipts |-> s.receipts]
             /\ w.revision = s.revision + 1
             /\ w.health = [s.health EXCEPT ![plan.who] = plan.effect.health]
             /\ \A d \in w.pending :
                  /\ \/ d \in s.pending /\ d.key \notin plan.settled
                     \/ \E n \in plan.effect.open : d.who = n.who /\ d.slot = n.slot
                  /\ Current(w.health[d.who], d, d.who \in plan.known \/ d.who \notin Linked)
<1> DEFINE
      p == plan.who
      e == plan.effect
      order == Moved(s.order, p, e.before)
      bumped == (IF plan.writes \/ e.before \ {p} # {} THEN {p} ELSE {}) \cup Shifted(s.order, order)
      changed == [q \in Participants |-> IF q \in bumped THEN s.revision + 1 ELSE s.changed[q]]
      opened == {[key |-> s.revision + 1, slot |-> n.slot, who |-> n.who, before |-> n.before,
                  after |-> n.after, dying |-> n.dying, wounded |-> n.wounded,
                  doomed |-> n.doomed, facts |-> n.facts] : n \in e.open}
      left == {d \in s.pending \cup opened : d.key \notin plan.settled}
      health == [s.health EXCEPT ![p] = e.health]
      kept == {d \in left : Current(health[d.who], d, d.who \in plan.known \/ d.who \notin Linked)}
<1>1. \A d \in opened : \E n \in e.open : d.who = n.who /\ d.slot = n.slot
  OBVIOUS
<1>2. Written(s, plan) =
        Retired([revision |-> s.revision + 1, health |-> health, changed |-> changed,
                 order |-> order, receipts |-> s.receipts, pending |-> left], plan.known)
  BY DEF Written
<1> HIDE DEF changed, order, left, health
<1>3. Written(s, plan) =
        [revision |-> s.revision + 1, health |-> health, changed |-> changed,
         order |-> order, pending |-> kept, receipts |-> s.receipts]
  BY <1>2 DEF Retired
<1>4. \A d \in kept :
        /\ \/ d \in s.pending /\ d.key \notin plan.settled
           \/ \E n \in plan.effect.open : d.who = n.who /\ d.slot = n.slot
        /\ Current(health[d.who], d, d.who \in plan.known \/ d.who \notin Linked)
  BY <1>1 DEF left
<1> HIDE DEF kept
<1>5. QED
  BY <1>3, <1>4 DEF health

\* Rows stay sound under every plan that is sound and fits them.
LEMMA WriteKeepsRows ==
  ASSUME NEW s, Rows(s), NEW plan, SoundPlan(plan), Fits(plan, s)
  PROVE  Rows(Written(s, plan)) /\ Written(s, plan).revision = s.revision + 1
<1> DEFINE w == Written(s, plan)
           p == plan.who
<1>1. /\ w = [revision |-> w.revision, health |-> w.health, changed |-> w.changed,
              order |-> w.order, pending |-> w.pending, receipts |-> s.receipts]
      /\ w.revision = s.revision + 1
      /\ w.health = [s.health EXCEPT ![p] = plan.effect.health]
  BY WrittenRows
<1>2. p \in Participants /\ plan.effect.health \in Health
  BY DEF SoundPlan
<1>3. w.health \in [Participants -> Health]
  BY <1>1, <1>2 DEF Rows
<1>4. ASSUME NEW d \in w.pending
      PROVE  d.who \in Participants /\ Current(w.health[d.who], d, TRUE)
  <2>1. /\ \/ d \in s.pending /\ d.key \notin plan.settled
           \/ \E n \in plan.effect.open : d.who = n.who /\ d.slot = n.slot
        /\ Current(w.health[d.who], d, d.who \in plan.known \/ d.who \notin Linked)
    BY <1>4, WrittenRows
  <2>2. d.who \in Participants
    BY <1>2, <2>1 DEF Rows, SoundPlan
  <2>3. CASE d.who # p
    <3>1. d \in s.pending /\ w.health[d.who] = s.health[d.who]
      BY <1>1, <2>1, <2>2, <2>3 DEF Rows, SoundPlan
    <3>2. QED
      BY <2>2, <3>1 DEF Rows
  <2>4. CASE d.who = p
    <3>1. w.health[p] = plan.effect.health
      BY <1>1, <1>2 DEF Rows
    <3>2. CASE p \in plan.known \/ d.slot # "lifecycle"
      BY <2>1, <2>2, <2>4, <3>2 DEF Current
    <3>3. CASE p \notin plan.known /\ d.slot = "lifecycle"
      <4>1. d \in s.pending /\ d.key \notin plan.settled
        BY <2>1, <2>4, <3>3 DEF SoundPlan
      <4>2. SameCounters(plan.effect.health, s.health[p])
        BY <2>4, <3>3, <4>1 DEF Fits
      <4>3. Counts(s.health[p], d)
        BY <2>4, <3>3, <4>1 DEF Rows, Current
      <4>4. Counts(plan.effect.health, d)
        BY <4>2, <4>3 DEF SameCounters, Counts
      <4>5. QED
        BY <2>1, <2>2, <2>4, <3>1, <4>4 DEF Current
    <3>4. QED
      BY <3>2, <3>3
  <2>5. QED
    BY <2>3, <2>4
<1> HIDE DEF w
<1>5. w.receipts = s.receipts /\ w.revision \in Nat
  BY <1>1 DEF Rows
<1>6. QED
  BY <1>1, <1>3, <1>4, <1>5 DEF Rows, w

-----------------------------------------------------------------------------
(* The steps.                                                              *)

\* A plan stays what it is, and is not written once the rows have changed.
LEMMA PlansStay ==
  ASSUME NEW t, Planning(t), pc'[t] = pc[t], view'[t] = view[t], saved.revision \in Nat,
         saved' = saved \/ saved'.revision = saved.revision + 1
  PROVE  Planning(t)'
<1>1. CASE saved' = saved
  BY <1>1 DEF Planning
<1>2. CASE saved'.revision = saved.revision + 1
  <2> SUFFICES ASSUME pc'[t] \in {"listing", "committing"}, NEW v \in view'[t]
               PROVE  /\ v = [at |-> v.at, plan |-> v.plan]
                      /\ v.plan = [who |-> v.plan.who, effect |-> v.plan.effect,
                                   settled |-> v.plan.settled, writes |-> v.plan.writes,
                                   known |-> v.plan.known]
                      /\ v.at \in Nat /\ v.at <= saved'.revision
                      /\ SoundPlan(v.plan)
                      /\ v.at # saved'.revision
    BY DEF Planning
  <2>1. v \in view[t] /\ pc[t] \in {"listing", "committing"}
    OBVIOUS
  <2>2. v.at \in Nat /\ v.at <= saved.revision
    BY <2>1 DEF Planning
  <2>3. v.at <= saved'.revision /\ v.at # saved'.revision
    BY <1>2, <2>2
  <2>4. QED
    BY <2>1, <2>2, <2>3 DEF Planning
<1>3. QED
  BY <1>1, <1>2

\* A step of one thread concerns its own plan and the rows.
LEMMA OneThread ==
  ASSUME IndInv, NEW t \in Threads, NEW where, NEW v, NEW r \in Requests,
         pc' = [pc EXCEPT ![t] = where], view' \in {view, [view EXCEPT ![t] = v]},
         request' \in {request, [request EXCEPT ![t] = r]}, asked' = asked,
         Rows(saved)', saved' = saved \/ saved'.revision = saved.revision + 1, Planning(t)'
  PROVE  IndInv'
<1>1. saved.revision \in Nat /\ saved'.revision \in Nat /\ saved.revision <= saved'.revision
  BY DEF IndInv, Rows
<1>2. Asked'
  BY <1>1 DEF IndInv, Asked
<1>3. /\ pc' = [u \in Threads |-> pc'[u]] /\ view' = [u \in Threads |-> view'[u]]
      /\ request' \in [Threads -> Requests]
  BY DEF IndInv, Attempts
<1>4. ASSUME NEW u \in Threads \ {t}
      PROVE  Planning(u)'
  <2>1. pc'[u] = pc[u] /\ view'[u] = view[u]
    BY DEF IndInv, Attempts
  <2>2. QED
    BY <1>1, <2>1, PlansStay DEF IndInv, Attempts
<1>5. QED
  BY <1>2, <1>3, <1>4 DEF IndInv, Attempts

\* A command that ends without a write.
LEMMA UnwrittenKeeps ==
  ASSUME IndInv, NEW t \in Threads, Unwritten(t)
  PROVE  IndInv'
<1>1. Nobody \in Requests
  BY DEF IndInv, Attempts, Nobody
<1>2. Rows(saved)'
  BY DEF IndInv, Unwritten
<1>3. Planning(t)'
  BY DEF IndInv, Attempts, Unwritten, Answer, Planning
<1>4. QED
  BY <1>1, <1>2, <1>3, OneThread DEF Unwritten, Answer

\* A command that has planned on the rows as they are, for a revision that is not
\* later than theirs.
LEMMA PlannedKeeps ==
  ASSUME IndInv, NEW t \in Threads, NEW at \in Nat, at <= saved.revision,
         NEW who, NEW effect, NEW settled, NEW writes, NEW known,
         NEW where \in {"listing", "committing"},
         SoundPlan(Plan(who, effect, settled, writes, known)),
         where = "committing" => Fits(Plan(who, effect, settled, writes, known), saved),
         Planned(t, at, Plan(who, effect, settled, writes, known)), Goto(t, where)
  PROVE  IndInv'
<1> DEFINE plan == Plan(who, effect, settled, writes, known)
<1>1. request[t] \in Requests
  BY DEF IndInv, Attempts
<1>2. saved' = saved /\ Rows(saved)'
  BY DEF IndInv, Goto
<1>3. pc'[t] = where /\ view'[t] = {[at |-> at, plan |-> plan]}
  BY DEF IndInv, Attempts, Goto, Planned
<1>4. plan = [who |-> plan.who, effect |-> plan.effect, settled |-> plan.settled,
              writes |-> plan.writes, known |-> plan.known]
  BY DEF Plan
<1>5. Planning(t)'
  BY <1>2, <1>3, <1>4 DEF Planning
<1>6. QED
  BY <1>1, <1>2, <1>5, OneThread DEF Goto, Planned

\* An edit of another client.
LEMMA EditedKeeps ==
  ASSUME IndInv, NEW what, NEW plan, SoundPlan(plan), Fits(plan, saved), Edited(what, plan)
  PROVE  IndInv'
<1>1. Rows(saved') /\ saved'.revision = saved.revision + 1
  BY WriteKeepsRows DEF IndInv, Edited
<1>2. asked' = asked /\ pc' = pc /\ request' = request /\ view' = view
  BY DEF Edited, threads
<1>3. saved.revision \in Nat
  BY DEF IndInv, Rows
<1>4. Asked'
  BY <1>1, <1>2, <1>3 DEF IndInv, Asked
<1>5. \A t \in Threads : Planning(t)'
  BY <1>1, <1>2, <1>3, PlansStay DEF IndInv, Attempts
<1>6. QED
  BY <1>1, <1>2, <1>4, <1>5 DEF IndInv, Attempts

\* Each command reads a sound health and makes a sound plan of it.
LEMMA ReadAmountKeeps ==
  ASSUME IndInv, NEW t \in Threads, ReadAmount(t)
  PROVE  IndInv'
<1> DEFINE r == request[t]
           b == Body[r]
           p == b.who
           h == saved.health[p]
           e == IF b.kind = "damage" THEN Damage(p, h, b.amount, b.facts)
                ELSE Effect(Heal(h, b.amount), {}, {})
<1>1. r \in Requests /\ p \in Participants /\ b.amount \in Nat
  BY HealthAssumption DEF IndInv, Attempts, ReadAmount
<1>2. h \in Health /\ saved.revision \in Nat
  BY <1>1 DEF IndInv, Rows
<1>3. e.health \in Health /\ \A d \in e.open : d.who = p
  <2>1. CASE b.kind = "damage"
    BY <1>1, <1>2, <2>1, DamageIsSound
  <2>2. CASE b.kind # "damage"
    BY <1>1, <1>2, <2>2, HealIsHealth DEF Effect
  <2>3. QED
    BY <2>1, <2>2
<1> HIDE DEF e
<1>4. SoundPlan(Plan(p, e, {}, TRUE, {p})) /\ Fits(Plan(p, e, {}, TRUE, {p}), saved)
  BY <1>1, <1>3 DEF SoundPlan, Fits, Plan
<1>5. \/ Unwritten(t)
      \/ Planned(t, saved.revision, Plan(p, e, {}, TRUE, {p})) /\ Goto(t, "committing")
  BY DEF ReadAmount, e
<1>6. CASE Unwritten(t)
  BY <1>6, UnwrittenKeeps
<1>7. CASE Planned(t, saved.revision, Plan(p, e, {}, TRUE, {p})) /\ Goto(t, "committing")
  <2> HIDE DEF p
  <2>1. saved.revision \in Nat /\ saved.revision <= saved.revision
    BY <1>2
  <2>2. QED
    BY <1>4, <1>7, <2>1, PlannedKeeps
<1>8. QED
  BY <1>5, <1>6, <1>7

\* An answer to a decision.
LEMMA ReadDecisionKeeps ==
  ASSUME IndInv, NEW t \in Threads, ReadDecision(t)
  PROVE  IndInv'
<1> DEFINE r == request[t]
           b == Body[r]
           h == saved.health[b.who]
<1>1. r \in Requests /\ b.who \in Participants
  BY HealthAssumption DEF IndInv, Attempts
<1>2. h \in Health
  BY <1>1 DEF IndInv, Rows
<1>3. PICK a \in asked[r] :
        \/ \E d \in saved.pending :
             /\ d.who = b.who
             /\ Planned(t, a.revision,
                  Plan(b.who, Resolve(h, d, b.facts), {a.key}, d.slot = "lifecycle", {b.who}))
             /\ Goto(t, "committing")
        \/ /\ Planned(t, a.revision, Plan(b.who, Effect(h, {}, {}), {a.key}, FALSE, {}))
           /\ Goto(t, "committing")
        \/ Unwritten(t)
  BY DEF ReadDecision
<1>4. a.revision \in Nat /\ a.revision <= saved.revision
  BY <1>1, <1>3 DEF IndInv, Asked
<1>5. ASSUME NEW d \in saved.pending, d.who = b.who,
             Planned(t, a.revision,
               Plan(b.who, Resolve(h, d, b.facts), {a.key}, d.slot = "lifecycle", {b.who})),
             Goto(t, "committing")
      PROVE  IndInv'
  <2> DEFINE plan == Plan(b.who, Resolve(h, d, b.facts), {a.key}, d.slot = "lifecycle", {b.who})
  <2>1. SoundPlan(plan) /\ Fits(plan, saved)
    BY <1>1, <1>2, <1>5, ResolveIsSound DEF SoundPlan, Fits, Plan
  <2>2. QED
    BY <1>4, <1>5, <2>1, PlannedKeeps
<1>6. ASSUME Planned(t, a.revision, Plan(b.who, Effect(h, {}, {}), {a.key}, FALSE, {})),
             Goto(t, "committing")
      PROVE  IndInv'
  <2> DEFINE plan == Plan(b.who, Effect(h, {}, {}), {a.key}, FALSE, {})
  <2>1. SoundPlan(plan) /\ Fits(plan, saved)
    BY <1>1, <1>2 DEF SoundPlan, Fits, Plan, Effect, SameCounters
  <2>2. QED
    BY <1>4, <1>6, <2>1, PlannedKeeps
<1>7. QED
  BY <1>3, <1>5, <1>6, UnwrittenKeeps

\* Life settings that decide something fit nothing before the decisions are listed.
LEMMA ReadLifeKeeps ==
  ASSUME IndInv, NEW t \in Threads, ReadLife(t)
  PROVE  IndInv'
<1> DEFINE r == request[t]
           b == Body[r]
           p == b.who
           h == saved.health[p]
           plan == Plan(p, Life(p, h, b), {}, TRUE, {})
           where == IF LifeDecides(h, b) THEN "listing" ELSE "committing"
<1>1. /\ r \in Requests /\ p \in Participants
      /\ b.tracking \in BOOLEAN /\ b.threshold \subseteq Thresholds
  BY HealthAssumption DEF IndInv, Attempts, ReadLife
<1>2. h \in Health
  BY <1>1 DEF IndInv, Rows
<1>3. PICK a \in asked[r] :
        Unwritten(t) \/ (Planned(t, a.revision, plan) /\ Goto(t, where))
  BY DEF ReadLife
<1>4. a.revision \in Nat /\ a.revision <= saved.revision
  BY <1>1, <1>3 DEF IndInv, Asked
<1>5. /\ Life(p, h, b).health \in Health
      /\ Placements(p, Life(p, h, b).open)
      /\ ~LifeDecides(h, b) => SameCounters(Life(p, h, b).health, h)
  BY <1>1, <1>2, LifeIsSound
<1>6. SoundPlan(plan) /\ (where = "committing" => Fits(plan, saved))
  BY <1>1, <1>5 DEF SoundPlan, Placements, Fits, Plan
<1>7. CASE Planned(t, a.revision, plan) /\ Goto(t, where)
  BY <1>4, <1>6, <1>7, PlannedKeeps
<1>8. QED
  BY <1>3, <1>7, UnwrittenKeeps

\* A counter that a client sets, with its consequences or without.
LEMMA ReadConditionKeeps ==
  ASSUME IndInv, NEW t \in Threads, ReadCondition(t)
  PROVE  IndInv'
<1> DEFINE r == request[t]
           b == Body[r]
           p == b.who
           h == saved.health[p]
           fatal == b.applies /\ Fatal(h, [h EXCEPT ![b.counter] = b.value])
           plan == Plan(p, Effect(Condition(h, b), {}, {}), {}, fatal, {p})
<1>1. r \in Requests /\ p \in Participants /\ b.counter \in Counters /\ b.value \in Nat
  BY HealthAssumption DEF IndInv, Attempts, ReadCondition
<1>2. h \in Health
  BY <1>1 DEF IndInv, Rows
<1>3. PICK a \in asked[r] :
        Unwritten(t) \/ (Planned(t, a.revision, plan) /\ Goto(t, "committing"))
  BY DEF ReadCondition
<1>4. a.revision \in Nat /\ a.revision <= saved.revision
  BY <1>1, <1>3 DEF IndInv, Asked
<1>5. Condition(h, b) \in Health
  BY <1>1, <1>2, ConditionIsHealth
<1> HIDE DEF fatal
<1>6. SoundPlan(plan) /\ Fits(plan, saved)
  BY <1>1, <1>5 DEF SoundPlan, Fits, Plan, Effect
<1>7. CASE Planned(t, a.revision, plan) /\ Goto(t, "committing")
  BY <1>4, <1>6, <1>7, PlannedKeeps
<1>8. QED
  BY <1>3, <1>7, UnwrittenKeeps

\* Life settings that have listed every decision of their participant fit.
LEMMA ListKeeps ==
  ASSUME IndInv, NEW t \in Threads, List(t)
  PROVE  IndInv'
<1> DEFINE Open(v) == {d.key : d \in {d \in saved.pending : d.who = v.plan.who}}
           Completed(v) == [v EXCEPT !.plan.settled = Open(v)]
<1>1. request[t] \in Requests /\ pc[t] = "listing"
  BY DEF IndInv, Attempts, List
<1>2. saved' = saved /\ Rows(saved)'
  BY DEF IndInv, List, Goto
<1>3. pc'[t] = "committing" /\ view'[t] = {Completed(v) : v \in view[t]}
  BY DEF IndInv, Attempts, List, Goto
<1>4. ASSUME NEW v \in view[t]
      PROVE  /\ Completed(v).at = v.at /\ Completed(v).plan.who = v.plan.who
             /\ Completed(v).plan.effect = v.plan.effect /\ Completed(v).plan.known = v.plan.known
             /\ Completed(v).plan.settled = Open(v)
             /\ Completed(v) = [at |-> Completed(v).at, plan |-> Completed(v).plan]
             /\ Completed(v).plan = [who |-> Completed(v).plan.who, effect |-> Completed(v).plan.effect,
                  settled |-> Completed(v).plan.settled, writes |-> Completed(v).plan.writes,
                  known |-> Completed(v).plan.known]
  <2>1. /\ v = [at |-> v.at, plan |-> v.plan]
        /\ v.plan = [who |-> v.plan.who, effect |-> v.plan.effect, settled |-> v.plan.settled,
                     writes |-> v.plan.writes, known |-> v.plan.known]
    BY <1>1, <1>4 DEF IndInv, Attempts, Planning
  <2> HIDE DEF Open
  <2>2. Completed(v) = [at |-> v.at,
          plan |-> [who |-> v.plan.who, effect |-> v.plan.effect, settled |-> Open(v),
                    writes |-> v.plan.writes, known |-> v.plan.known]]
    BY <2>1
  <2> HIDE DEF Completed
  <2>3. QED
    BY <2>2
<1>5. ASSUME NEW v \in view[t]
      PROVE  /\ v.at \in Nat /\ v.at <= saved.revision
             /\ SoundPlan(Completed(v).plan) /\ Fits(Completed(v).plan, saved)
  <2> HIDE DEF Completed
  <2>1. v.at \in Nat /\ v.at <= saved.revision /\ SoundPlan(v.plan)
    BY <1>1, <1>5 DEF IndInv, Attempts, Planning
  <2>2. SoundPlan(Completed(v).plan)
    BY <1>4, <1>5, <2>1 DEF SoundPlan
  <2>3. \A d \in saved.pending : d.who = v.plan.who => d.key \in Open(v)
    OBVIOUS
  <2> HIDE DEF Open
  <2>4. Fits(Completed(v).plan, saved)
    BY <1>4, <1>5, <2>3 DEF Fits
  <2>5. QED
    BY <2>1, <2>2, <2>4
<1>6. Planning(t)'
  <2> HIDE DEF Completed
  <2> SUFFICES ASSUME NEW w \in view'[t]
               PROVE  /\ w = [at |-> w.at, plan |-> w.plan]
                      /\ w.plan = [who |-> w.plan.who, effect |-> w.plan.effect,
                                   settled |-> w.plan.settled, writes |-> w.plan.writes,
                                   known |-> w.plan.known]
                      /\ w.at \in Nat /\ w.at <= saved.revision
                      /\ SoundPlan(w.plan) /\ Fits(w.plan, saved)
    BY <1>2 DEF Planning
  <2>1. PICK v \in view[t] : w = Completed(v)
    BY <1>3
  <2>2. QED
    BY <1>4, <1>5, <2>1
<1>7. QED
  BY <1>1, <1>2, <1>6, OneThread DEF List, Goto

\* A plan is written only to the rows it was made from.
LEMMA CommitKeeps ==
  ASSUME IndInv, NEW t \in Threads, Commit(t)
  PROVE  IndInv'
<1>1. PICK v \in view[t] :
        \/ Unwritten(t)
        \/ /\ SameEncounter(v) /\ Answer(t)
           /\ saved' = [Written(saved, v.plan) EXCEPT !.receipts = @ \cup {request[t]}]
  BY DEF Commit
<1>2. CASE Unwritten(t)
  BY <1>2, UnwrittenKeeps
<1>3. CASE /\ SameEncounter(v) /\ Answer(t)
           /\ saved' = [Written(saved, v.plan) EXCEPT !.receipts = @ \cup {request[t]}]
  <2> DEFINE w == Written(saved, v.plan)
  <2>1. SoundPlan(v.plan) /\ Fits(v.plan, saved) /\ Rows(saved)
    BY <1>1, <1>3 DEF IndInv, Attempts, Planning, Commit, SameEncounter
  <2>2. Rows(w) /\ w.revision = saved.revision + 1
    BY <2>1, WriteKeepsRows
  <2>3. Rows(saved') /\ saved'.revision = w.revision
    BY <1>3, <2>2 DEF Rows
  <2>4. Nobody \in Requests
    BY DEF IndInv, Attempts, Nobody
  <2>5. Planning(t)'
    BY <1>3 DEF IndInv, Attempts, Answer, Planning
  <2>6. QED
    BY <1>3, <2>2, <2>3, <2>4, <2>5, OneThread DEF Answer
<1>4. QED
  BY <1>1, <1>2, <1>3

\* The edits of other clients, as plans.
LEMMA EditsKeep ==
  ASSUME IndInv, DamageElsewhere \/ SetHitPoints \/ SetCounter
  PROVE  IndInv'
<1>1. ASSUME NEW p \in Participants
      PROVE  saved.health[p] \in Health
  BY DEF IndInv, Rows
<1>2. CASE DamageElsewhere
  <2>1. PICK p \in Participants :
          Edited("damage", Plan(p, Damage(p, saved.health[p], 1, NoFacts), {}, TRUE, {p}))
    BY <1>2 DEF DamageElsewhere
  <2> DEFINE plan == Plan(p, Damage(p, saved.health[p], 1, NoFacts), {}, TRUE, {p})
  <2>2. SoundPlan(plan) /\ Fits(plan, saved)
    BY <1>1, <2>1, DamageIsSound DEF SoundPlan, Fits, Plan
  <2>3. QED
    BY <2>1, <2>2, EditedKeeps
<1>3. CASE SetHitPoints
  <2>1. PICK p \in Participants, x \in {"hp", "temp"}, n \in 0..MaxHp :
          Edited(x, Plan(p, Effect([saved.health[p] EXCEPT ![x] = n], {}, {}), {}, TRUE, {}))
    BY <1>3 DEF SetHitPoints
  <2> DEFINE h == saved.health[p]
             g == [h EXCEPT ![x] = n]
             plan == Plan(p, Effect(g, {}, {}), {}, TRUE, {})
  <2>2. h \in Health
    BY <1>1, <2>1
  <2>3. g \in Health /\ SameCounters(g, h)
    BY <2>1, <2>2, RulesAssumption DEF SameCounters, Health
  <2>4. SoundPlan(plan) /\ Fits(plan, saved)
    BY <2>1, <2>3 DEF SoundPlan, Fits, Plan, Effect
  <2>5. QED
    BY <2>1, <2>4, EditedKeeps
<1>4. CASE SetCounter
  <2>1. PICK p \in Participants, x \in Counters, n \in Values :
          LET h == saved.health[p]
              c == [h EXCEPT ![x] = n]
          IN  Edited(x, Plan(p, Effect(Counted(h, c), {}, {}), {}, Fatal(h, c), {p}))
    BY <1>4 DEF SetCounter
  <2> DEFINE h == saved.health[p]
             c == [h EXCEPT ![x] = n]
             plan == Plan(p, Effect(Counted(h, c), {}, {}), {}, Fatal(h, c), {p})
  <2>2. n \in Nat /\ Counted(h, c) \in Health
    BY <1>1, <2>1, HealthAssumption, CountedIsHealth
  <2>3. SoundPlan(plan) /\ Fits(plan, saved)
    BY <2>1, <2>2 DEF SoundPlan, Fits, Plan, Effect
  <2>4. QED
    BY <2>1, <2>3, EditedKeeps
<1>5. QED
  BY <1>2, <1>3, <1>4

\* Filling a body, beginning and recovering plan nothing.
LEMMA BeginningKeeps ==
  ASSUME IndInv, NEW t \in Threads, Begin(t) \/ Recover(t) \/ Fails(t)
  PROVE  IndInv'
<1>1. CASE Begin(t)
  <2>1. PICK r \in Requests : request' = [request EXCEPT ![t] = r]
    BY <1>1 DEF Begin
  <2>2. Rows(saved)' /\ Planning(t)'
    BY <1>1 DEF IndInv, Attempts, Begin, Planning
  <2>3. QED
    BY <1>1, <2>1, <2>2, OneThread DEF Begin
<1>2. CASE Recover(t) /\ Goto(t, "reading") /\ UNCHANGED view
  <2>1. Rows(saved)' /\ Planning(t)' /\ request[t] \in Requests
    BY <1>2 DEF IndInv, Attempts, Goto, Planning
  <2>2. QED
    BY <1>2, <2>1, OneThread DEF Goto
<1>3. QED
  BY <1>1, <1>2, UnwrittenKeeps DEF Recover, Fails

\* Filling a body reads the rows.
LEMMA FillKeeps ==
  ASSUME IndInv, NEW r \in Requests, Fill(r)
  PROVE  IndInv'
<1>1. saved' = saved /\ pc' = pc /\ request' = request /\ view' = view
  BY DEF Fill, threads
<1>2. PICK a : a.revision = saved.revision /\ asked' = [asked EXCEPT ![r] = {a}]
  BY DEF Fill
<1>3. Asked'
  <2>1. /\ saved.revision \in Nat /\ asked = [q \in Requests |-> asked[q]]
        /\ \A q \in Requests : \A c \in asked[q] : c.revision \in Nat /\ c.revision <= saved.revision
    BY DEF IndInv, Asked, Rows
  <2>2. /\ asked' = [q \in Requests |-> asked'[q]] /\ asked'[r] = {a}
        /\ \A q \in Requests \ {r} : asked'[q] = asked[q]
    BY <1>2, <2>1
  <2>3. \A q \in Requests : \A c \in asked'[q] : c.revision \in Nat /\ c.revision <= saved.revision
    BY <1>2, <2>1, <2>2
  <2>4. QED
    BY <1>1, <2>2, <2>3 DEF Asked
<1>4. QED
  BY <1>1, <1>3 DEF IndInv, Attempts, Planning

-----------------------------------------------------------------------------

\* It holds at the start.
LEMMA InductiveInit == ASSUME Init PROVE IndInv
<1>1. saved = [revision |-> 0, health |-> Start, changed |-> [p \in Participants |-> 0],
               order |-> Order, pending |-> {}, receipts |-> {}]
  BY DEF Init
<1>2. Start \in [Participants -> Health] /\ Requests # {}
  BY HealthAssumption
<1>3. Rows(saved)
  BY <1>1, <1>2 DEF Rows
<1>4. Asked
  BY DEF Init, Asked
<1>5. Attempts
  BY <1>2 DEF Init, Attempts, Planning, Nobody
<1>6. QED
  BY <1>3, <1>4, <1>5 DEF IndInv

\* No step of a thread and no edit breaks it.
LEMMA InductiveStep == ASSUME IndInv, [Next]_vars PROVE IndInv'
<1>1. ASSUME NEW t \in Threads, Step(t)
      PROVE  IndInv'
  BY <1>1, BeginningKeeps, ReadAmountKeeps, ReadDecisionKeeps, ReadLifeKeeps,
     ReadConditionKeeps, ListKeeps, CommitKeeps DEF Step
<1>2. CASE UNCHANGED vars
  BY <1>2 DEF vars, threads, IndInv, Asked, Attempts, Planning
<1>3. QED
  BY <1>1, <1>2, FillKeeps, EditsKeep DEF Next

\* IndInv is an inductive invariant of every instance.
THEOREM Inductive == Spec => []IndInv
<1>1. Init => IndInv
  BY InductiveInit
<1>2. IndInv /\ [Next]_vars => IndInv'
  BY InductiveStep
<1>3. QED
  BY <1>1, <1>2, PTL DEF Spec

\* The write that makes a decision obsolete deletes it, though it knows the
\* sources of one participant at most (retire_stale_hp_decisions).
THEOREM DecisionsStayCurrent == Spec => []DecisionsAreCurrent
<1>1. IndInv => DecisionsAreCurrent
  BY DEF IndInv, Rows, DecisionsAreCurrent
<1>2. QED
  BY <1>1, Inductive, PTL

-----------------------------------------------------------------------------
(* The rules that Knockouts is written with are the rules of the commands. *)

\* A move in initiative.
LEMMA SameMove ==
  ASSUME NEW order, NEW p, NEW before
  PROVE  Promise!Moved(order, p, before) = Moved(order, p, before)
<1>1. ASSUME NEW i PROVE Promise!RemoveAt(order, i) = RemoveAt(order, i)
  BY DEF Promise!RemoveAt, RemoveAt
<1>2. ASSUME NEW o, NEW q PROVE Promise!PlaceIn(o, q) = PlaceIn(o, q)
  BY DEF Promise!PlaceIn, PlaceIn
<1>3. ASSUME NEW o, NEW i PROVE Promise!InsertAt(o, i, p) = InsertAt(o, i, p)
  BY DEF Promise!InsertAt, InsertAt
<1>4. ASSUME NEW q PROVE Promise!Before(order, p, q) = Before(order, p, q)
  BY <1>1, <1>2, <1>3 DEF Promise!Before, Before
<1>5. QED
  BY <1>4 DEF Promise!Moved, Moved

\* A knockout, its death or its place in initiative.
LEMMA SameKnockout ==
  ASSUME NEW p, NEW hp, NEW h, NEW f, NEW relocate
  PROVE  Promise!Knockout(p, hp, h, f, relocate) = Knockout(p, hp, h, f, relocate)
<1>1. Promise!NextDying(h, f) = NextDying(h, f)
  BY DEF Promise!NextDying, NextDying
<1>2. Promise!KnockedOut(h, f) = KnockedOut(h, f)
  BY <1>1 DEF Promise!KnockedOut, KnockedOut, Promise!Dead, Dead, Promise!Given, Given
<1>3. Promise!Decision("placement", p, hp, h, f) = Decision("placement", p, hp, h, f)
  BY DEF Promise!Decision, Decision
<1>4. QED
  BY <1>2, <1>3 DEF Promise!Knockout, Knockout, Promise!Effect, Effect

\* What is asked about a knockout, and how answers are joined.
LEMMA SameFacts ==
  ASSUME NEW dying, NEW f, NEW g
  PROVE  /\ Promise!NeedsFacts(dying, f) <=> NeedsFacts(dying, f)
         /\ Promise!Conflict(f, g) <=> Conflict(f, g)
         /\ Promise!Merge(f, g) = Merge(f, g)
<1>1. Promise!Recorded = Recorded
  BY DEF Promise!Recorded, Recorded
<1>2. Promise!NeedsFacts(dying, f) <=> NeedsFacts(dying, f)
  BY DEF Promise!NeedsFacts, NeedsFacts
<1>3. Promise!Conflict(f, g) <=> Conflict(f, g)
  BY <1>1 DEF Promise!Conflict, Conflict
<1>4. Promise!Merge(f, g) = Merge(f, g)
  BY <1>1 DEF Promise!Merge, Merge
<1>5. QED
  BY <1>2, <1>3, <1>4

\* Damage to who is tracked, and to who is not.
LEMMA SameDamage ==
  ASSUME NEW p, NEW h, NEW amount, NEW f
  PROVE  Promise!Damage(p, h, amount, f) = Damage(p, h, amount, f)
<1>1. \A hp, g, relocate :
        Promise!Knockout(p, hp, g, f, relocate) = Knockout(p, hp, g, f, relocate)
  BY SameKnockout
<1>2. Promise!NeedsFacts(h.dying, f) <=> NeedsFacts(h.dying, f)
  BY SameFacts
<1>3. Promise!Lesser(h.temp, amount) = Lesser(h.temp, amount)
  BY DEF Promise!Lesser, Lesser
<1>4. \A hp, g : Promise!Decision("lifecycle", p, hp, g, f) = Decision("lifecycle", p, hp, g, f)
  BY DEF Promise!Decision, Decision
<1>5. \A g, open, before : Promise!Effect(g, open, before) = Effect(g, open, before)
  BY DEF Promise!Effect, Effect
<1>6. QED
  BY <1>1, <1>2, <1>3, <1>4, <1>5, Zenon DEF Promise!Damage, Damage

\* Healing.
LEMMA SameHeal ==
  ASSUME NEW h, NEW amount
  PROVE  Promise!Heal(h, amount) = Heal(h, amount)
BY DEF Promise!Heal, Heal, Promise!Lesser, Lesser

\* Life settings, what they decide and when they are allowed.
LEMMA SameLife ==
  ASSUME NEW p, NEW h, NEW b
  PROVE  /\ Promise!Life(p, h, b) = Life(p, h, b)
         /\ Promise!LifeAllowed(h, b) <=> LifeAllowed(h, b)
         /\ Promise!LifeDecides(h, b) <=> LifeDecides(h, b)
<1>1. \A g, open, before : Promise!Effect(g, open, before) = Effect(g, open, before)
  BY DEF Promise!Effect, Effect
<1>2. \A f : Promise!NeedsFacts(h.dying, f) <=> NeedsFacts(h.dying, f)
  BY SameFacts
<1>3. ASSUME NEW f
      PROVE  Promise!StartDying(p, h, f) = StartDying(p, h, f)
  <2> DEFINE subject == [h EXCEPT !.tracking = TRUE, !.dead = FALSE, !.defeated = FALSE]
         Started(risen, knocked) ==
           CASE ~h.tracking /\ h.dying > 0 -> risen
             [] (h.tracking \/ h.dying = 0) /\ knocked.health.dead ->
                  [knocked EXCEPT !.health.defeated = h.defeated]
             [] OTHER -> knocked
  <2>1. Promise!Knockout(p, h.hp, subject, f, TRUE) = Knockout(p, h.hp, subject, f, TRUE)
    BY SameKnockout
  <2>2. Promise!Effect(subject, {}, {}) = Effect(subject, {}, {})
    BY <1>1
  <2>3. StartDying(p, h, f)
          = Started(Effect(subject, {}, {}), Knockout(p, h.hp, subject, f, TRUE))
    BY Zenon DEF StartDying
  <2>4. Promise!StartDying(p, h, f)
          = Started(Promise!Effect(subject, {}, {}), Promise!Knockout(p, h.hp, subject, f, TRUE))
    BY Zenon DEF Promise!StartDying
  <2> HIDE DEF subject, Started
  <2>5. QED
    BY <2>1, <2>2, <2>3, <2>4
<1>4. Promise!Life(p, h, b) = Life(p, h, b)
  <2> DEFINE s == StartDying(p, h, CHOOSE f \in b.knockout : TRUE)
             t == Promise!StartDying(p, h, CHOOSE f \in b.knockout : TRUE)
             dead == IF b.mortality = {} THEN h.dead ELSE b.mortality = {"dead"}
             g == [h EXCEPT !.dead = dead]
  <2>1. s = t
    BY <1>3
  <2>2. \A x : Promise!WithSettings(x, b) = WithSettings(x, b)
    BY DEF Promise!WithSettings, WithSettings, Promise!Given, Given
  <2>3. Life(p, h, b) = IF b.knockout # {}
                          THEN [s EXCEPT !.health = WithSettings(s.health, b)]
                          ELSE Effect(WithSettings(g, b), {}, {})
    BY Zenon DEF Life
  <2>4. Promise!Life(p, h, b) = IF b.knockout # {}
                          THEN [t EXCEPT !.health = Promise!WithSettings(t.health, b)]
                          ELSE Promise!Effect(Promise!WithSettings(g, b), {}, {})
    BY Zenon DEF Promise!Life
  <2> HIDE DEF s, t, g
  <2>5. QED
    BY <1>1, <2>1, <2>2, <2>3, <2>4
<1>5. Promise!LifeAllowed(h, b) <=> LifeAllowed(h, b)
  BY <1>2 DEF Promise!LifeAllowed, LifeAllowed, Promise!Startable, Startable
<1>6. Promise!LifeDecides(h, b) <=> LifeDecides(h, b)
  BY DEF Promise!LifeDecides, LifeDecides
<1>7. QED
  BY <1>4, <1>5, <1>6

\* A counter that a client sets.
LEMMA SameCount ==
  ASSUME NEW h, NEW c
  PROVE  Promise!Counted(h, c) = Counted(h, c)
BY DEF Promise!Counted, Counted, Promise!Fatal, Fatal, Promise!Dead, Dead

\* A condition of a client, and when there is one to change.
LEMMA SameCondition ==
  ASSUME NEW h, NEW b
  PROVE  /\ Promise!Condition(h, b) = Condition(h, b)
         /\ Promise!ConditionAllowed(h, b) <=> ConditionAllowed(h, b)
<1>1. Promise!ConditionAllowed(h, b) <=> ConditionAllowed(h, b)
  BY DEF Promise!ConditionAllowed, ConditionAllowed
<1>2. Promise!Condition(h, b) = Condition(h, b)
  BY SameCount, Zenon DEF Promise!Condition, Condition
<1>3. QED
  BY <1>1, <1>2

\* A decision as Knockouts knows it, without the values that it was made with.
Essential(d) ==
  [key |-> d.key, slot |-> d.slot, who |-> d.who, before |-> d.before, facts |-> d.facts]

Essentials(decisions) == {Essential(d) : d \in decisions}

\* An answer depends on nothing else of the decision.
LEMMA SameAnswer ==
  ASSUME NEW h, NEW d, NEW f
  PROVE  /\ Promise!Resolve(h, Essential(d), f) = Resolve(h, d, f)
         /\ Promise!Resolvable(h, Essential(d), f) <=> Resolvable(h, d, f)
<1>1. /\ Essential(d).slot = d.slot /\ Essential(d).who = d.who
      /\ Essential(d).before = d.before /\ Essential(d).facts = d.facts
  BY DEF Essential
<1> DEFINE m == Merge(d.facts, f)
<1>2. Promise!Merge(d.facts, f) = m /\ (Promise!Conflict(d.facts, f) <=> Conflict(d.facts, f))
  BY SameFacts
<1>3. \A g, open, before : Promise!Effect(g, open, before) = Effect(g, open, before)
  BY DEF Promise!Effect, Effect
<1>4. Promise!Knockout(d.who, d.before, h, m, d.before > 0)
        = Knockout(d.who, d.before, h, m, d.before > 0)
  BY SameKnockout
<1>5. Promise!NeedsFacts(h.dying, m) <=> NeedsFacts(h.dying, m)
  BY SameFacts
<1> HIDE DEF m
<1>6. Promise!Resolve(h, Essential(d), f) = Resolve(h, d, f)
  BY <1>1, <1>2, <1>3, <1>4, Zenon DEF Promise!Resolve, Resolve, m
<1>7. Promise!Resolvable(h, Essential(d), f) <=> Resolvable(h, d, f)
  BY <1>1, <1>2, <1>5, Zenon DEF Promise!Resolvable, Resolvable, m
<1>8. QED
  BY <1>6, <1>7

-----------------------------------------------------------------------------
(* What a write does to the decisions.                                     *)

\* A decision is known by its key, the revision that opened it.
Keyed(s) ==
  /\ \A d \in s.pending : d.key \in Nat /\ d.key <= s.revision
  /\ \A c, d \in s.pending : c.key = d.key => c = d

\* Nothing happened to the participant of a decision between two healths.
Remains(d, old, new) ==
  LET h == old[d.who] g == new[d.who]
  IN  /\ g.tracking /\ ~g.dead /\ g.hp = h.hp
      /\ d.slot = "lifecycle" => SameCounters(g, h)

\* The decision that a write at a revision makes of what the plan leaves open.
Opened(key, n) ==
  [key |-> key, slot |-> n.slot, who |-> n.who, before |-> n.before, after |-> n.after,
   dying |-> n.dying, wounded |-> n.wounded, doomed |-> n.doomed, facts |-> n.facts]

\* The order and the decisions that a write leaves.
LEMMA WrittenPending ==
  ASSUME NEW s, NEW plan
  PROVE  LET w == Written(s, plan)
         IN  /\ w.order = Moved(s.order, plan.who, plan.effect.before)
             /\ w.pending =
                  {d \in {c \in s.pending \cup {Opened(s.revision + 1, n) : n \in plan.effect.open} :
                            c.key \notin plan.settled} :
                     Current([s.health EXCEPT ![plan.who] = plan.effect.health][d.who], d,
                             d.who \in plan.known \/ d.who \notin Linked)}
<1> DEFINE
      p == plan.who
      e == plan.effect
      order == Moved(s.order, p, e.before)
      bumped == (IF plan.writes \/ e.before \ {p} # {} THEN {p} ELSE {}) \cup Shifted(s.order, order)
      changed == [q \in Participants |-> IF q \in bumped THEN s.revision + 1 ELSE s.changed[q]]
      opened == {Opened(s.revision + 1, n) : n \in e.open}
      left == {c \in s.pending \cup opened : c.key \notin plan.settled}
      health == [s.health EXCEPT ![p] = e.health]
      kept == {d \in left : Current(health[d.who], d, d.who \in plan.known \/ d.who \notin Linked)}
<1>1. Written(s, plan) =
        Retired([revision |-> s.revision + 1, health |-> health, changed |-> changed,
                 order |-> order, receipts |-> s.receipts, pending |-> left], plan.known)
  BY DEF Written, Opened
<1> HIDE DEF changed, order, left, health
<1>2. Written(s, plan) =
        [revision |-> s.revision + 1, health |-> health, changed |-> changed,
         order |-> order, pending |-> kept, receipts |-> s.receipts]
  BY <1>1 DEF Retired
<1> HIDE DEF kept
<1>3. Written(s, plan).order = order /\ Written(s, plan).pending = kept
  BY <1>2
<1>4. QED
  BY <1>3 DEF order, kept, left, health

\* The decisions that outlast a write are those to whose participant nothing
\* happened, although only recorded values are compared.
LEMMA OutlastingWrite ==
  ASSUME NEW s, Rows(s), NEW plan, SoundPlan(plan), Fits(plan, s),
         NEW d \in s.pending, d.key \notin plan.settled,
         NEW health, health = [s.health EXCEPT ![plan.who] = plan.effect.health]
  PROVE  Current(health[d.who], d, d.who \in plan.known \/ d.who \notin Linked)
           <=> Remains(d, s.health, health)
<1> DEFINE h == s.health[d.who]
           g == health[d.who]
<1>1. d.who \in Participants /\ plan.who \in Participants /\ Current(h, d, TRUE)
  BY DEF Rows, SoundPlan
<1>2. CASE d.who # plan.who
  <2>1. g = h
    BY <1>1, <1>2 DEF Rows
  <2>2. QED
    BY <1>1, <2>1 DEF Current, Remains, SameCounters
<1>3. CASE d.who = plan.who /\ d.who \in plan.known
  BY <1>1, <1>3 DEF Current, Remains, SameCounters, Counts
<1>4. CASE d.who = plan.who /\ d.who \notin plan.known
  <2>1. SameCounters(g, h)
    BY <1>1, <1>4 DEF Fits, Rows
  <2>2. QED
    BY <1>1, <2>1 DEF Current, Remains, SameCounters, Counts
<1>5. QED
  BY <1>2, <1>3, <1>4

\* Decisions settled by a plan are older than the write.
SettlesOld(plan, s) == \A key \in plan.settled : key \in Nat /\ key <= s.revision

\* A write keeps the keys apart, and opens what its plan leaves open.
LEMMA WrittenEssentials ==
  ASSUME NEW s, Rows(s), Keyed(s), NEW plan, SoundPlan(plan), Fits(plan, s),
         OpensOne(plan.effect), SettlesOld(plan, s), NEW w, w = Written(s, plan)
  PROVE  /\ Keyed(w)
         /\ Essentials(w.pending) =
              {d \in Essentials(s.pending) :
                 d.key \notin plan.settled /\ Remains(d, s.health, w.health)}
              \cup (IF plan.effect.health.tracking /\ ~plan.effect.health.dead
                      THEN {Essential(Opened(s.revision + 1, n)) : n \in plan.effect.open} ELSE {})
<1> DEFINE key == s.revision + 1
           old == {d \in s.pending : d.key \notin plan.settled /\ Remains(d, s.health, w.health)}
           lives == plan.effect.health.tracking /\ ~plan.effect.health.dead
           new == IF lives THEN {Opened(key, n) : n \in plan.effect.open} ELSE {}
<1>1. /\ w.health = [s.health EXCEPT ![plan.who] = plan.effect.health]
      /\ w.revision = s.revision + 1
  BY WrittenRows
<1>2. s.revision \in Nat /\ key \notin plan.settled
  BY DEF Rows, SettlesOld
<1>3. w.pending =
        {d \in {c \in s.pending \cup {Opened(key, n) : n \in plan.effect.open} :
                  c.key \notin plan.settled} :
           Current(w.health[d.who], d, d.who \in plan.known \/ d.who \notin Linked)}
  BY <1>1, WrittenPending
<1>4. ASSUME NEW d \in s.pending, d.key \notin plan.settled
      PROVE  Current(w.health[d.who], d, d.who \in plan.known \/ d.who \notin Linked)
               <=> Remains(d, s.health, w.health)
  BY <1>1, <1>4, OutlastingWrite
<1>5. ASSUME NEW n \in plan.effect.open
      PROVE  /\ Opened(key, n).key = key
             /\ LET d == Opened(key, n)
                IN  Current(w.health[d.who], d, d.who \in plan.known \/ d.who \notin Linked)
                      <=> lives
  <2> DEFINE d == Opened(key, n)
  <2>1. n.who = plan.who /\ plan.who \in Participants
    BY DEF SoundPlan
  <2>2. w.health[plan.who] = plan.effect.health
    BY <1>1, <2>1 DEF Rows
  <2>3. /\ d.key = key /\ d.who = plan.who /\ d.slot = n.slot /\ d.after = n.after
        /\ Counts(plan.effect.health, n) => Counts(plan.effect.health, d)
    BY <2>1 DEF Opened, Counts
  <2> HIDE DEF key, d
  <2>4. QED
    BY <2>2, <2>3 DEF OpensOne, Current, d
<1> HIDE DEF key, lives
<1>6. w.pending = old \cup new
  BY <1>2, <1>3, <1>4, <1>5
<1>7. Keyed(w)
  <2>1. \A c, d \in new : c = d
    BY DEF OpensOne
  <2>2. \A d \in new : d.key = key
    BY <1>5
  <2>3. \A d \in old : d \in s.pending
    OBVIOUS
  <2> HIDE DEF old, new
  <2>4. QED
    BY <1>1, <1>2, <1>6, <2>1, <2>2, <2>3 DEF Keyed, key
<1>8. ASSUME NEW d
      PROVE  /\ Essential(d).key = d.key
             /\ Remains(Essential(d), s.health, w.health) <=> Remains(d, s.health, w.health)
  BY DEF Essential, Remains
<1>9. Essentials(old) =
        {d \in Essentials(s.pending) : d.key \notin plan.settled /\ Remains(d, s.health, w.health)}
  <2>1. ASSUME NEW x \in Essentials(old)
        PROVE  /\ x \in Essentials(s.pending) /\ x.key \notin plan.settled
               /\ Remains(x, s.health, w.health)
    BY <1>8 DEF Essentials
  <2>2. ASSUME NEW x \in Essentials(s.pending), x.key \notin plan.settled,
               Remains(x, s.health, w.health)
        PROVE  x \in Essentials(old)
    BY <1>8, <2>2 DEF Essentials
  <2>3. QED
    BY <2>1, <2>2
<1>10. Essentials(new) =
         IF lives THEN {Essential(Opened(key, n)) : n \in plan.effect.open} ELSE {}
  BY DEF Essentials
<1>11. Essentials(old \cup new) = Essentials(old) \cup Essentials(new)
  BY DEF Essentials
<1>12. QED
  BY <1>6, <1>7, <1>9, <1>10, <1>11 DEF lives, key

\* The write of a plan does at once what its effect is, and settles what the
\* plan settles.
LEMMA WriteDoes ==
  ASSUME Rows(saved), Keyed(saved), NEW plan, SoundPlan(plan), Fits(plan, saved),
         OpensOne(plan.effect), SettlesOld(plan, saved),
         NEW receipts, saved' = [Written(saved, plan) EXCEPT !.receipts = receipts],
         NEW gone,
         \A d \in saved.pending : Essential(d) \in gone <=> d.key \in plan.settled
  PROVE  /\ Promise!Do(plan.who, plan.effect, gone)
         /\ saved'.revision = saved.revision + 1 /\ saved'.receipts = receipts
         /\ Keyed(saved')
<1> DEFINE w == Written(saved, plan)
           lives == plan.effect.health.tracking /\ ~plan.effect.health.dead
           open == Essentials(saved.pending)
<1>1. /\ w = [revision |-> w.revision, health |-> w.health, changed |-> w.changed,
              order |-> w.order, pending |-> w.pending, receipts |-> saved.receipts]
      /\ w.revision = saved.revision + 1
      /\ w.health = [saved.health EXCEPT ![plan.who] = plan.effect.health]
  BY WrittenRows
<1>2. w.order = Moved(saved.order, plan.who, plan.effect.before)
  BY WrittenPending
<1>3. /\ Keyed(w)
      /\ Essentials(w.pending) =
           {d \in open : d.key \notin plan.settled /\ Remains(d, saved.health, w.health)}
           \cup (IF lives
                   THEN {Essential(Opened(saved.revision + 1, n)) : n \in plan.effect.open}
                   ELSE {})
  BY WrittenEssentials
<1> HIDE DEF w, lives
<1>4. /\ saved'.revision = w.revision /\ saved'.health = w.health /\ saved'.order = w.order
      /\ saved'.pending = w.pending /\ saved'.receipts = receipts
  BY <1>1 DEF w
<1>5. Keyed(saved')
  BY <1>3, <1>4 DEF Keyed
<1>6. ASSUME NEW d
      PROVE  Promise!Lasts(d) <=> Remains(d, saved.health, saved'.health)
  BY DEF Promise!Lasts, Remains, SameCounters
<1>7. \A n : Promise!Essence(saved.revision + 1, n) = Essential(Opened(saved.revision + 1, n))
  BY DEF Promise!Essence, Essential, Opened
<1>8. \A d \in open : d \in gone <=> d.key \in plan.settled
  BY DEF Essentials, Essential
<1>9. Essentials(saved'.pending) =
        {d \in open \ gone : Promise!Lasts(d)}
        \cup (IF lives
                THEN {Promise!Essence(saved'.revision, n) : n \in plan.effect.open} ELSE {})
  BY <1>1, <1>3, <1>4, <1>6, <1>7, <1>8
<1>10. saved'.order = Promise!Moved(saved.order, plan.who, plan.effect.before)
  BY <1>2, <1>4, SameMove
<1>11. Promise!Do(plan.who, plan.effect, gone)
  BY <1>1, <1>4, <1>9, <1>10 DEF Promise!Do, Essentials, Essential, lives
<1>12. QED
  BY <1>1, <1>4, <1>5, <1>11

-----------------------------------------------------------------------------
(* What the threads are about to write is what their requests ask.         *)

About(s, p) == {d \in s.pending : d.who = p}
KeysAbout(s, p) == {d.key : d \in About(s, p)}

\* The plan that the command of a request makes on the rows s.
Intended(r, s, plan) ==
  LET b == Body[r] p == b.who h == s.health[p]
  IN  \/ /\ b.kind = "damage" /\ b.amount \in Nat
         /\ plan = Plan(p, Damage(p, h, b.amount, b.facts), {}, TRUE, {p})
      \/ b.kind = "heal" /\ plan = Plan(p, Effect(Heal(h, b.amount), {}, {}), {}, TRUE, {p})
      \/ b.kind = "apply" /\ \E d \in About(s, p) :
           /\ Resolvable(h, d, b.facts)
           /\ plan = Plan(p, Resolve(h, d, b.facts), {d.key}, d.slot = "lifecycle", {p})
      \/ b.kind = "keep" /\ \E d \in About(s, p) :
           plan = Plan(p, Effect(h, {}, {}), {d.key}, FALSE, {})
      \/ /\ b.kind = "life" /\ b.tracking \in BOOLEAN /\ b.threshold \subseteq Thresholds
         /\ LifeAllowed(h, b)
         /\ plan = Plan(p, Life(p, h, b),
                        IF LifeDecides(h, b) THEN KeysAbout(s, p) ELSE {}, TRUE, {})
      \/ /\ b.kind = "condition" /\ b.counter \in Counters /\ b.value \in Nat
         /\ b.applies \in BOOLEAN /\ ConditionAllowed(h, b)
         /\ \E fatal \in BOOLEAN :
              plan = Plan(p, Effect(Condition(h, b), {}, {}), {}, fatal, {p})

\* Nothing is opened by an effect that is only a health.
LEMMA PlainOpens ==
  ASSUME NEW h, NEW before
  PROVE  OpensOne(Effect(h, {}, before))
BY DEF OpensOne, Effect

\* The write of an intended plan takes the request at once, and once.
LEMMA RequestDoes ==
  ASSUME Rows(saved), Keyed(saved), NEW r \in Requests, r \notin saved.receipts,
         Body[r].who \in Participants,
         NEW plan, SoundPlan(plan), Fits(plan, saved), Intended(r, saved, plan),
         saved' = [Written(saved, plan) EXCEPT !.receipts = @ \cup {r}]
  PROVE  Promise!HNext /\ Keyed(saved')
<1> DEFINE b == Body[r]
           p == b.who
           h == saved.health[p]
           receipts == saved.receipts \cup {r}
<1>1. h \in Health
  BY DEF Rows
<1>2. saved' = [Written(saved, plan) EXCEPT !.receipts = receipts]
  <2> DEFINE w == Written(saved, plan)
  <2>1. w = [revision |-> w.revision, health |-> w.health, changed |-> w.changed,
             order |-> w.order, pending |-> w.pending, receipts |-> saved.receipts]
    BY WrittenRows
  <2> HIDE DEF w
  <2>2. w.receipts = saved.receipts
    BY <2>1
  <2>3. QED
    BY <2>2 DEF w
<1>3. ASSUME NEW gone, OpensOne(plan.effect), SettlesOld(plan, saved),
             \A d \in saved.pending : Essential(d) \in gone <=> d.key \in plan.settled
      PROVE  /\ Promise!Do(plan.who, plan.effect, gone)
             /\ saved'.revision = saved.revision + 1 /\ saved'.receipts = receipts
             /\ Keyed(saved')
  <2> HIDE DEF receipts
  <2>1. QED
    BY <1>2, <1>3, WriteDoes
<1>4. CASE /\ b.kind = "damage" /\ b.amount \in Nat
           /\ plan = Plan(p, Damage(p, h, b.amount, b.facts), {}, TRUE, {p})
  <2> DEFINE e == Damage(p, h, b.amount, b.facts)
  <2>1. plan.who = p /\ plan.effect = e /\ plan.settled = {}
    BY <1>4 DEF Plan
  <2>2. OpensOne(e) /\ e = Promise!Damage(p, h, b.amount, b.facts)
    BY <1>1, <1>4, DamageIsSound, SameDamage
  <2> HIDE DEF e
  <2>3. Promise!Do(p, e, {}) /\ saved'.revision = saved.revision + 1
          /\ saved'.receipts = receipts /\ Keyed(saved')
    BY <1>3, <2>1, <2>2 DEF SettlesOld
  <2>4. QED
    BY <1>4, <2>2, <2>3 DEF Promise!HNext, Promise!Request
<1>5. CASE b.kind = "heal" /\ plan = Plan(p, Effect(Heal(h, b.amount), {}, {}), {}, TRUE, {p})
  <2> DEFINE e == Effect(Heal(h, b.amount), {}, {})
  <2>1. plan.who = p /\ plan.effect = e /\ plan.settled = {}
    BY <1>5 DEF Plan
  <2>2. OpensOne(e) /\ e = Promise!Effect(Promise!Heal(h, b.amount), {}, {})
    BY PlainOpens, SameHeal DEF Promise!Effect, Effect
  <2> HIDE DEF e
  <2>3. Promise!Do(p, e, {}) /\ saved'.revision = saved.revision + 1
          /\ saved'.receipts = receipts /\ Keyed(saved')
    BY <1>3, <2>1, <2>2 DEF SettlesOld
  <2>4. QED
    BY <1>5, <2>2, <2>3 DEF Promise!HNext, Promise!Request
<1>6. ASSUME NEW d \in About(saved, p)
      PROVE  /\ Essential(d) \in Promise!About(p)
             /\ plan.settled = {d.key} =>
                  /\ SettlesOld(plan, saved)
                  /\ \A c \in saved.pending : Essential(c) \in {Essential(d)} <=> c.key \in plan.settled
  <2>1. d \in saved.pending /\ d.who = p
    BY DEF About
  <2>2. Essential(d) \in Promise!About(p)
    BY <2>1 DEF Promise!About, Essential
  <2>3. \A c \in saved.pending : Essential(c) = Essential(d) <=> c.key = d.key
    BY <2>1 DEF Keyed, Essential
  <2>4. QED
    BY <2>1, <2>2, <2>3 DEF SettlesOld, Keyed
<1>7. CASE b.kind = "apply" /\ \E d \in About(saved, p) :
             /\ Resolvable(h, d, b.facts)
             /\ plan = Plan(p, Resolve(h, d, b.facts), {d.key}, d.slot = "lifecycle", {p})
  <2>1. PICK d \in About(saved, p) :
          /\ Resolvable(h, d, b.facts)
          /\ plan = Plan(p, Resolve(h, d, b.facts), {d.key}, d.slot = "lifecycle", {p})
    BY <1>7
  <2> DEFINE e == Resolve(h, d, b.facts)
  <2>2. plan.who = p /\ plan.effect = e /\ plan.settled = {d.key}
    BY <2>1 DEF Plan
  <2>3. /\ OpensOne(e) /\ e = Promise!Resolve(h, Essential(d), b.facts)
        /\ Promise!Resolvable(h, Essential(d), b.facts)
    BY <1>1, <2>1, ResolveIsSound, SameAnswer
  <2> HIDE DEF e
  <2>4. Promise!Do(p, e, {Essential(d)}) /\ saved'.revision = saved.revision + 1
          /\ saved'.receipts = receipts /\ Keyed(saved')
    BY <1>3, <1>6, <2>2, <2>3
  <2>5. QED
    BY <1>6, <1>7, <2>3, <2>4 DEF Promise!HNext, Promise!Request
<1>8. CASE b.kind = "keep" /\ \E d \in About(saved, p) :
             plan = Plan(p, Effect(h, {}, {}), {d.key}, FALSE, {})
  <2>1. PICK d \in About(saved, p) : plan = Plan(p, Effect(h, {}, {}), {d.key}, FALSE, {})
    BY <1>8
  <2> DEFINE e == Effect(h, {}, {})
  <2>2. plan.who = p /\ plan.effect = e /\ plan.settled = {d.key}
    BY <2>1 DEF Plan
  <2>3. OpensOne(e) /\ e = Promise!Effect(h, {}, {})
    BY PlainOpens DEF Promise!Effect, Effect
  <2> HIDE DEF e
  <2>4. Promise!Do(p, e, {Essential(d)}) /\ saved'.revision = saved.revision + 1
          /\ saved'.receipts = receipts /\ Keyed(saved')
    BY <1>3, <1>6, <2>2, <2>3
  <2>5. QED
    BY <1>6, <1>8, <2>3, <2>4 DEF Promise!HNext, Promise!Request
<1>9. CASE /\ b.kind = "life" /\ b.tracking \in BOOLEAN /\ b.threshold \subseteq Thresholds
           /\ LifeAllowed(h, b)
           /\ plan = Plan(p, Life(p, h, b),
                          IF LifeDecides(h, b) THEN KeysAbout(saved, p) ELSE {}, TRUE, {})
  <2> DEFINE e == Life(p, h, b)
             settled == IF LifeDecides(h, b) THEN KeysAbout(saved, p) ELSE {}
             gone == IF LifeDecides(h, b) THEN Promise!About(p) ELSE {}
  <2>1. plan.who = p /\ plan.effect = e /\ plan.settled = settled
    BY <1>9 DEF Plan
  <2>2. OpensOne(e)
    <3>1. b.tracking \in BOOLEAN /\ b.threshold \subseteq Thresholds
      BY <1>9
    <3> HIDE DEF b, p, h
    <3>2. OpensOne(Life(p, h, b))
      BY <1>1, <3>1, LifeIsSound
    <3>3. QED
      BY <3>2
  <2>3. SettlesOld(plan, saved)
    BY <2>1 DEF SettlesOld, Keyed, KeysAbout, About
  <2>4. \A c \in saved.pending : Essential(c) \in gone <=> c.key \in plan.settled
    <3>1. \A c \in saved.pending : c.key \in KeysAbout(saved, p) <=> c.who = p
      BY DEF Keyed, KeysAbout, About
    <3>2. \A c \in saved.pending : Essential(c) \in Promise!About(p) <=> c.who = p
      BY DEF Promise!About, Essential
    <3>3. QED
      BY <2>1, <3>1, <3>2
  <2>5. /\ e = Promise!Life(p, h, b) /\ Promise!LifeAllowed(h, b)
        /\ Promise!LifeDecides(h, b) <=> LifeDecides(h, b)
    BY <1>9, SameLife
  <2>6. PICK ended : /\ ended = gone
                     /\ ended = IF Promise!LifeDecides(h, b) THEN Promise!About(p) ELSE {}
    BY <2>5
  <2> HIDE DEF e, settled, gone
  <2>7. Promise!Do(p, e, ended) /\ saved'.revision = saved.revision + 1
          /\ saved'.receipts = receipts /\ Keyed(saved')
    BY <1>3, <2>1, <2>2, <2>3, <2>4, <2>6
  <2>8. Promise!Do(p, e, IF Promise!LifeDecides(h, b) THEN Promise!About(p) ELSE {})
    BY <2>6, <2>7 DEF Promise!Do
  <2>9. Promise!Request(r)
    BY <1>9, <2>5, <2>7, <2>8 DEF Promise!Request
  <2>10. QED
    BY <2>7, <2>9 DEF Promise!HNext
<1>10. CASE /\ b.kind = "condition" /\ ConditionAllowed(h, b)
            /\ \E fatal \in BOOLEAN :
                 plan = Plan(p, Effect(Condition(h, b), {}, {}), {}, fatal, {p})
  <2> DEFINE e == Effect(Condition(h, b), {}, {})
  <2>1. plan.who = p /\ plan.effect = e /\ plan.settled = {}
    BY <1>10 DEF Plan
  <2>2. /\ OpensOne(e) /\ e = Promise!Effect(Promise!Condition(h, b), {}, {})
        /\ Promise!ConditionAllowed(h, b)
    BY <1>10, PlainOpens, SameCondition DEF Promise!Effect, Effect
  <2> HIDE DEF e
  <2>3. Promise!Do(p, e, {}) /\ saved'.revision = saved.revision + 1
          /\ saved'.receipts = receipts /\ Keyed(saved')
    BY <1>3, <2>1, <2>2 DEF SettlesOld
  <2>4. QED
    BY <1>10, <2>2, <2>3 DEF Promise!HNext, Promise!Request
<1>11. QED
  BY <1>4, <1>5, <1>7, <1>8, <1>9, <1>10 DEF Intended

\* What a thread is about to write, and will: the plan of a decision about life
\* lists the open decisions before it is written.
ToWrite(t, v) ==
  IF pc[t] = "listing" THEN [v.plan EXCEPT !.settled = KeysAbout(saved, v.plan.who)]
  ELSE v.plan

\* It is what its request asks of the rows, unless they have changed.
Meant(t) ==
  pc[t] \in {"listing", "committing"} =>
    \A v \in view[t] : v.at = saved.revision => Intended(request[t], saved, ToWrite(t, v))

Meaning == IndInv /\ Keyed(saved) /\ \A t \in Threads : Meant(t)

\* A step that leaves the rows, the decisions of other threads and their plans.
LEMMA QuietStep ==
  ASSUME Meaning, NEW t \in Threads, NEW where, NEW v, NEW r,
         pc' = [pc EXCEPT ![t] = where], view' \in {view, [view EXCEPT ![t] = v]},
         request' \in {request, [request EXCEPT ![t] = r]},
         saved' = saved, Meant(t)'
  PROVE  Keyed(saved)' /\ \A u \in Threads : Meant(u)'
<1>1. ASSUME NEW u \in Threads \ {t}
      PROVE  Meant(u)'
  <2>1. pc'[u] = pc[u] /\ view'[u] = view[u] /\ request'[u] = request[u]
    BY DEF Meaning, IndInv, Attempts
  <2>2. QED
    BY <2>1 DEF Meaning, Meant, ToWrite
<1>2. QED
  BY <1>1 DEF Meaning

\* After a write, no plan that was made before it can be written.
LEMMA WritingStep ==
  ASSUME Meaning, NEW u \in Threads, pc'[u] = pc[u], view'[u] = view[u],
         saved'.revision = saved.revision + 1
  PROVE  Meant(u)'
<1> SUFFICES ASSUME pc'[u] \in {"listing", "committing"}, NEW v \in view'[u]
             PROVE  v.at # saved'.revision
  BY DEF Meant
<1>1. v.at \in Nat /\ v.at <= saved.revision /\ saved.revision \in Nat
  BY DEF Meaning, IndInv, Attempts, Planning, Rows
<1>2. QED
  BY <1>1

\* A command that ends without a write, and one that has planned nothing yet.
LEMMA UnwrittenMeans ==
  ASSUME Meaning, NEW t \in Threads, Begin(t) \/ Recover(t) \/ Unwritten(t)
  PROVE  saved' = saved /\ Keyed(saved)' /\ \A u \in Threads : Meant(u)'
<1>1. CASE Unwritten(t)
  <2>1. Meant(t)'
    BY <1>1 DEF Meaning, IndInv, Attempts, Unwritten, Answer, Meant
  <2>2. QED
    BY <1>1, <2>1, QuietStep DEF Unwritten, Answer
<1>2. CASE Begin(t)
  <2>1. PICK r \in Requests : request' = [request EXCEPT ![t] = r]
    BY <1>2 DEF Begin
  <2>2. Meant(t)'
    BY <1>2 DEF Meaning, IndInv, Attempts, Begin, Meant
  <2>3. QED
    BY <1>2, <2>1, <2>2, QuietStep DEF Begin
<1>3. CASE Recover(t) /\ Goto(t, "reading") /\ UNCHANGED view
  <2>1. Meant(t)'
    BY <1>3 DEF Meaning, IndInv, Attempts, Goto, Meant
  <2>2. QED
    BY <1>3, <2>1, QuietStep DEF Goto
<1>4. QED
  BY <1>1, <1>2, <1>3 DEF Recover

\* A command that plans what its request asks of the rows as they are.
LEMMA PlannedMeans ==
  ASSUME Meaning, NEW t \in Threads, NEW at, NEW plan, NEW where \in {"listing", "committing"},
         Planned(t, at, plan), Goto(t, where),
         Intended(request[t], saved,
           IF where = "listing" THEN [plan EXCEPT !.settled = KeysAbout(saved, plan.who)] ELSE plan)
  PROVE  saved' = saved /\ Keyed(saved)' /\ \A u \in Threads : Meant(u)'
<1>1. /\ pc'[t] = where /\ view'[t] = {[at |-> at, plan |-> plan]}
      /\ request' = request /\ saved' = saved
  BY DEF Meaning, IndInv, Attempts, Goto, Planned
<1>2. Meant(t)'
  BY <1>1 DEF Meant, ToWrite
<1>3. QED
  BY <1>1, <1>2, QuietStep DEF Goto, Planned

\* Damage and healing.
LEMMA ReadAmountMeans ==
  ASSUME Meaning, NEW t \in Threads, ReadAmount(t)
  PROVE  saved' = saved /\ Keyed(saved)' /\ \A u \in Threads : Meant(u)'
<1> DEFINE r == request[t]
           b == Body[r]
           p == b.who
           h == saved.health[p]
           e == IF b.kind = "damage" THEN Damage(p, h, b.amount, b.facts)
                ELSE Effect(Heal(h, b.amount), {}, {})
           plan == Plan(p, e, {}, TRUE, {p})
<1>1. r \in Requests
  BY DEF Meaning, IndInv, Attempts
<1>2. b.kind \in {"damage", "heal"} /\ b.amount \in Nat
  BY <1>1, HealthAssumption DEF ReadAmount
<1>3. Intended(r, saved, plan)
  BY <1>2 DEF Intended
<1>4. Unwritten(t) \/ (Planned(t, saved.revision, plan) /\ Goto(t, "committing"))
  BY DEF ReadAmount
<1> HIDE DEF plan
<1>5. CASE Planned(t, saved.revision, plan) /\ Goto(t, "committing")
  BY <1>3, <1>5, PlannedMeans
<1>6. QED
  BY <1>4, <1>5, UnwrittenMeans

\* An answer to a decision, or its dismissal.
LEMMA ReadDecisionMeans ==
  ASSUME Meaning, NEW t \in Threads, ReadDecision(t)
  PROVE  saved' = saved /\ Keyed(saved)' /\ \A u \in Threads : Meant(u)'
<1> DEFINE r == request[t]
           b == Body[r]
           p == b.who
           h == saved.health[p]
<1>1. ASSUME NEW a, NEW plan, Intended(r, saved, plan), Planned(t, a.revision, plan),
             Goto(t, "committing")
      PROVE  saved' = saved /\ Keyed(saved)' /\ \A u \in Threads : Meant(u)'
  BY <1>1, PlannedMeans
<1>2. PICK a \in asked[r] :
        \/ /\ b.kind = "apply"
           /\ \E d \in saved.pending :
                /\ d.key = a.key /\ d.who = p /\ Resolvable(h, d, b.facts)
                /\ Planned(t, a.revision,
                     Plan(p, Resolve(h, d, b.facts), {a.key}, d.slot = "lifecycle", {p}))
           /\ Goto(t, "committing")
        \/ /\ b.kind = "keep"
           /\ \E d \in saved.pending : d.key = a.key /\ d.who = p
           /\ Planned(t, a.revision, Plan(p, Effect(h, {}, {}), {a.key}, FALSE, {}))
           /\ Goto(t, "committing")
        \/ Unwritten(t)
  BY DEF ReadDecision
<1>3. CASE /\ b.kind = "apply"
           /\ \E d \in saved.pending :
                /\ d.key = a.key /\ d.who = p /\ Resolvable(h, d, b.facts)
                /\ Planned(t, a.revision,
                     Plan(p, Resolve(h, d, b.facts), {a.key}, d.slot = "lifecycle", {p}))
           /\ Goto(t, "committing")
  <2>1. PICK d \in saved.pending :
          /\ d.key = a.key /\ d.who = p /\ Resolvable(h, d, b.facts)
          /\ Planned(t, a.revision,
               Plan(p, Resolve(h, d, b.facts), {a.key}, d.slot = "lifecycle", {p}))
    BY <1>3
  <2> DEFINE plan == Plan(p, Resolve(h, d, b.facts), {a.key}, d.slot = "lifecycle", {p})
  <2>2. Intended(r, saved, plan)
    BY <1>3, <2>1 DEF Intended, About
  <2> HIDE DEF plan
  <2>3. QED
    BY <1>1, <1>3, <2>1, <2>2 DEF plan
<1>4. CASE /\ b.kind = "keep"
           /\ \E d \in saved.pending : d.key = a.key /\ d.who = p
           /\ Planned(t, a.revision, Plan(p, Effect(h, {}, {}), {a.key}, FALSE, {}))
           /\ Goto(t, "committing")
  <2> DEFINE plan == Plan(p, Effect(h, {}, {}), {a.key}, FALSE, {})
  <2>1. Intended(r, saved, plan)
    BY <1>4 DEF Intended, About
  <2> HIDE DEF plan
  <2>2. QED
    BY <1>1, <1>4, <2>1 DEF plan
<1>5. QED
  BY <1>2, <1>3, <1>4, UnwrittenMeans

\* Life settings: those that decide something will settle what they list.
LEMMA ReadLifeMeans ==
  ASSUME Meaning, NEW t \in Threads, ReadLife(t)
  PROVE  saved' = saved /\ Keyed(saved)' /\ \A u \in Threads : Meant(u)'
<1> DEFINE r == request[t]
           b == Body[r]
           p == b.who
           h == saved.health[p]
           plan == Plan(p, Life(p, h, b), {}, TRUE, {})
           where == IF LifeDecides(h, b) THEN "listing" ELSE "committing"
           settled == IF LifeDecides(h, b) THEN KeysAbout(saved, p) ELSE {}
           meant == IF where = "listing"
                      THEN [plan EXCEPT !.settled = KeysAbout(saved, plan.who)] ELSE plan
<1>1. r \in Requests
  BY DEF Meaning, IndInv, Attempts
<1>2. b.kind = "life" /\ b.tracking \in BOOLEAN /\ b.threshold \subseteq Thresholds
  BY <1>1, HealthAssumption DEF ReadLife
<1>3. PICK a \in asked[r] :
        \/ Unwritten(t)
        \/ LifeAllowed(h, b) /\ Planned(t, a.revision, plan) /\ Goto(t, where)
  BY DEF ReadLife
<1>4. meant = Plan(p, Life(p, h, b), settled, TRUE, {})
  BY DEF Plan
<1>5. CASE LifeAllowed(h, b) /\ Planned(t, a.revision, plan) /\ Goto(t, where)
  <2>1. Intended(r, saved, meant)
    BY <1>2, <1>4, <1>5 DEF Intended
  <2>2. where \in {"listing", "committing"}
    OBVIOUS
  <2> HIDE DEF plan, where
  <2>3. QED
    BY <1>5, <2>1, <2>2, PlannedMeans
<1>6. QED
  BY <1>3, <1>5, UnwrittenMeans

\* A condition.
LEMMA ReadConditionMeans ==
  ASSUME Meaning, NEW t \in Threads, ReadCondition(t)
  PROVE  saved' = saved /\ Keyed(saved)' /\ \A u \in Threads : Meant(u)'
<1> DEFINE r == request[t]
           b == Body[r]
           p == b.who
           h == saved.health[p]
           fatal == b.applies /\ Fatal(h, [h EXCEPT ![b.counter] = b.value])
           plan == Plan(p, Effect(Condition(h, b), {}, {}), {}, fatal, {p})
<1>1. r \in Requests
  BY DEF Meaning, IndInv, Attempts
<1>2. /\ b.kind = "condition" /\ b.counter \in Counters /\ b.value \in Nat
      /\ b.applies \in BOOLEAN /\ fatal \in BOOLEAN
  BY <1>1, HealthAssumption DEF ReadCondition
<1>3. PICK a \in asked[r] :
        \/ Unwritten(t)
        \/ ConditionAllowed(h, b) /\ Planned(t, a.revision, plan) /\ Goto(t, "committing")
  BY DEF ReadCondition
<1> HIDE DEF fatal
<1>4. CASE ConditionAllowed(h, b) /\ Planned(t, a.revision, plan) /\ Goto(t, "committing")
  <2>1. Intended(r, saved, plan)
    BY <1>2, <1>4 DEF Intended
  <2> HIDE DEF plan
  <2>2. QED
    BY <1>4, <2>1, PlannedMeans
<1>5. QED
  BY <1>3, <1>4, UnwrittenMeans

\* The decisions that life settings settle are those of the rows they read.
LEMMA ListMeans ==
  ASSUME Meaning, NEW t \in Threads, List(t)
  PROVE  saved' = saved /\ Keyed(saved)' /\ \A u \in Threads : Meant(u)'
<1> DEFINE Completed(v) == [v EXCEPT !.plan.settled = KeysAbout(saved, v.plan.who)]
<1>1. /\ pc[t] = "listing" /\ pc'[t] = "committing" /\ saved' = saved /\ request' = request
      /\ view'[t] = {Completed(v) : v \in view[t]}
  BY DEF Meaning, IndInv, Attempts, List, Goto, KeysAbout, About
<1>2. ASSUME NEW v \in view[t]
      PROVE  /\ Completed(v).at = v.at
             /\ Completed(v).plan = [v.plan EXCEPT !.settled = KeysAbout(saved, v.plan.who)]
  <2>1. v = [at |-> v.at, plan |-> v.plan]
    BY <1>1 DEF Meaning, IndInv, Attempts, Planning
  <2>2. QED
    BY <2>1
<1>3. Meant(t)'
  <2> HIDE DEF Completed
  <2> SUFFICES ASSUME NEW w \in view'[t], w.at = saved.revision
               PROVE  Intended(request[t], saved, w.plan)
    BY <1>1 DEF Meant, ToWrite
  <2>1. PICK v \in view[t] : w = Completed(v)
    BY <1>1
  <2>2. QED
    BY <1>1, <1>2, <2>1 DEF Meaning, Meant, ToWrite
<1>4. QED
  BY <1>1, <1>3, QuietStep DEF List, Goto

\* The write of a command does what its request asks of the rows.
LEMMA CommitMeans ==
  ASSUME Meaning, NEW t \in Threads, Commit(t)
  PROVE  /\ saved' = saved \/ Promise!HNext
         /\ Keyed(saved)' /\ \A u \in Threads : Meant(u)'
<1> DEFINE r == request[t]
<1>1. PICK v \in view[t] :
        \/ Unwritten(t)
        \/ /\ r \notin saved.receipts /\ SameEncounter(v) /\ Answer(t)
           /\ saved' = [Written(saved, v.plan) EXCEPT !.receipts = @ \cup {r}]
  BY DEF Commit
<1>2. CASE Unwritten(t)
  BY <1>2, UnwrittenMeans
<1>3. CASE /\ r \notin saved.receipts /\ SameEncounter(v) /\ Answer(t)
           /\ saved' = [Written(saved, v.plan) EXCEPT !.receipts = @ \cup {r}]
  <2>1. r \in Requests /\ Body[r].who \in Participants
    BY HealthAssumption DEF Meaning, IndInv, Attempts
  <2>2. pc[t] = "committing" /\ Rows(saved) /\ Keyed(saved)
    BY DEF Commit, Meaning, IndInv
  <2>3. SoundPlan(v.plan) /\ Fits(v.plan, saved)
    BY <1>3, <2>2 DEF Meaning, IndInv, Attempts, Planning, SameEncounter
  <2>4. Intended(r, saved, v.plan)
    BY <1>3, <2>2 DEF Meaning, Meant, ToWrite, SameEncounter
  <2>5. Promise!HNext /\ Keyed(saved')
    BY <1>3, <2>1, <2>2, <2>3, <2>4, RequestDoes
  <2>6. saved'.revision = saved.revision + 1
    BY <2>5 DEF Promise!HNext
  <2>7. Meant(t)'
    BY <1>3 DEF Meaning, IndInv, Attempts, Answer, Meant
  <2>8. ASSUME NEW u \in Threads \ {t}
        PROVE  Meant(u)'
    <3>1. pc'[u] = pc[u] /\ view'[u] = view[u]
      BY <1>3 DEF Meaning, IndInv, Attempts, Answer
    <3>2. QED
      BY <2>6, <3>1, WritingStep
  <2>9. QED
    BY <2>5, <2>7, <2>8
<1>4. QED
  BY <1>1, <1>2, <1>3

\* So do the edits of other clients.
LEMMA EditsMean ==
  ASSUME Meaning, DamageElsewhere \/ SetHitPoints \/ SetCounter
  PROVE  Promise!HNext /\ Keyed(saved)' /\ \A u \in Threads : Meant(u)'
<1>1. Rows(saved) /\ Keyed(saved)
  BY DEF Meaning, IndInv
<1>2. ASSUME NEW what, NEW plan, Edited(what, plan), plan.settled = {},
             SoundPlan(plan), Fits(plan, saved), OpensOne(plan.effect)
      PROVE  /\ Promise!Do(plan.who, plan.effect, {})
             /\ saved'.revision = saved.revision + 1 /\ saved'.receipts = saved.receipts
             /\ Keyed(saved') /\ \A u \in Threads : Meant(u)'
  <2> DEFINE w == Written(saved, plan)
  <2>1. w = [revision |-> w.revision, health |-> w.health, changed |-> w.changed,
             order |-> w.order, pending |-> w.pending, receipts |-> saved.receipts]
    BY <1>1, <1>2, WrittenRows
  <2>2. PICK receipts : receipts = saved.receipts
    OBVIOUS
  <2> HIDE DEF w
  <2>3. w = [w EXCEPT !.receipts = receipts]
    BY <2>1, <2>2
  <2>4. saved' = [Written(saved, plan) EXCEPT !.receipts = receipts]
    BY <1>2, <2>3 DEF Edited, w
  <2>5. SettlesOld(plan, saved) /\ \A d \in saved.pending : Essential(d) \in {} <=> d.key \in plan.settled
    BY <1>2 DEF SettlesOld
  <2>6. /\ Promise!Do(plan.who, plan.effect, {})
        /\ saved'.revision = saved.revision + 1 /\ saved'.receipts = receipts
        /\ Keyed(saved')
    BY <1>1, <1>2, <2>4, <2>5, WriteDoes
  <2>7. ASSUME NEW u \in Threads
        PROVE  Meant(u)'
    BY <1>2, <2>6, WritingStep DEF Edited, threads
  <2>8. QED
    BY <2>2, <2>6, <2>7
<1>3. ASSUME NEW p \in Participants
      PROVE  saved.health[p] \in Health
  BY <1>1 DEF Rows
<1>4. CASE DamageElsewhere
  <2>1. PICK p \in Participants :
          Edited("damage", Plan(p, Damage(p, saved.health[p], 1, NoFacts), {}, TRUE, {p}))
    BY <1>4 DEF DamageElsewhere
  <2> DEFINE e == Damage(p, saved.health[p], 1, NoFacts)
             plan == Plan(p, e, {}, TRUE, {p})
  <2>2. OpensOne(e) /\ e.health \in Health /\ \A d \in e.open : d.who = p
    BY <1>3, DamageIsSound
  <2>3. e = Promise!Damage(p, saved.health[p], 1, Promise!NoFacts)
    <3>1. Promise!NoFacts = NoFacts
      BY DEF Promise!NoFacts, NoFacts
    <3>2. QED
      BY <3>1, SameDamage
  <2> HIDE DEF e
  <2>4. plan.who = p /\ plan.effect = e /\ plan.settled = {} /\ plan.known = {p}
    BY DEF Plan
  <2>5. SoundPlan(plan) /\ Fits(plan, saved)
    BY <2>2, <2>4 DEF SoundPlan, Fits
  <2> HIDE DEF plan
  <2>6. /\ Promise!Do(p, e, {}) /\ saved'.receipts = saved.receipts
        /\ saved'.revision = saved.revision + 1
        /\ Keyed(saved') /\ \A u \in Threads : Meant(u)'
    BY <1>2, <2>1, <2>2, <2>4, <2>5 DEF plan, e
  <2>7. QED
    BY <2>3, <2>6 DEF Promise!HNext, Promise!Edit
<1>5. CASE SetHitPoints
  <2>1. PICK p \in Participants, x \in {"hp", "temp"}, n \in 0..MaxHp :
          Edited(x, Plan(p, Effect([saved.health[p] EXCEPT ![x] = n], {}, {}), {}, TRUE, {}))
    BY <1>5 DEF SetHitPoints
  <2> DEFINE h == saved.health[p]
             g == [h EXCEPT ![x] = n]
             e == Effect(g, {}, {})
             plan == Plan(p, e, {}, TRUE, {})
  <2>2. g \in Health /\ SameCounters(g, h)
    BY <1>3, <2>1, RulesAssumption DEF SameCounters, Health
  <2>3. OpensOne(e) /\ e = Promise!Effect(g, {}, {})
    BY PlainOpens DEF Promise!Effect, Effect
  <2>4. SoundPlan(plan) /\ Fits(plan, saved)
    BY <2>1, <2>2 DEF SoundPlan, Fits, Plan, Effect
  <2>5. plan.who = p /\ plan.effect = e /\ plan.settled = {}
    BY DEF Plan
  <2> HIDE DEF e, plan
  <2>6. /\ Promise!Do(p, e, {}) /\ saved'.receipts = saved.receipts
        /\ saved'.revision = saved.revision + 1
        /\ Keyed(saved') /\ \A u \in Threads : Meant(u)'
    BY <1>2, <2>1, <2>3, <2>4, <2>5 DEF plan, e
  <2>7. QED
    BY <2>1, <2>3, <2>6 DEF Promise!HNext, Promise!Edit
<1>6. CASE SetCounter
  <2>1. PICK p \in Participants, x \in Counters, n \in Values :
          LET h == saved.health[p]
              c == [h EXCEPT ![x] = n]
          IN  Edited(x, Plan(p, Effect(Counted(h, c), {}, {}), {}, Fatal(h, c), {p}))
    BY <1>6 DEF SetCounter
  <2> DEFINE h == saved.health[p]
             c == [h EXCEPT ![x] = n]
             e == Effect(Counted(h, c), {}, {})
             plan == Plan(p, e, {}, Fatal(h, c), {p})
  <2>2. n \in Nat /\ Counted(h, c) \in Health
    BY <1>3, <2>1, HealthAssumption, CountedIsHealth
  <2>3. OpensOne(e) /\ e = Promise!Effect(Promise!Counted(h, c), {}, {})
    BY PlainOpens, SameCount DEF Promise!Effect, Effect
  <2>4. SoundPlan(plan) /\ Fits(plan, saved)
    BY <2>1, <2>2 DEF SoundPlan, Fits, Plan, Effect
  <2>5. plan.who = p /\ plan.effect = e /\ plan.settled = {}
    BY DEF Plan
  <2> HIDE DEF e, plan
  <2>6. /\ Promise!Do(p, e, {}) /\ saved'.receipts = saved.receipts
        /\ saved'.revision = saved.revision + 1
        /\ Keyed(saved') /\ \A u \in Threads : Meant(u)'
    BY <1>2, <2>1, <2>3, <2>4, <2>5 DEF plan, e
  <2>7. QED
    BY <2>1, <2>3, <2>6 DEF Promise!HNext, Promise!Edit
<1>7. QED
  BY <1>4, <1>5, <1>6

\* Every step is one of Knockouts or none, and leaves every thread with what its
\* request asks.
LEMMA MeaningStep ==
  ASSUME Meaning, [Next]_vars
  PROVE  Meaning' /\ (Promise!HNext \/ UNCHANGED Promise!hvars)
<1>1. IndInv'
  BY InductiveStep DEF Meaning
<1>2. saved' = saved => UNCHANGED Promise!hvars
  BY DEF Promise!hvars
<1>3. CASE UNCHANGED vars
  BY <1>1, <1>2, <1>3 DEF vars, threads, Meaning, Meant, ToWrite
<1>4. ASSUME NEW r \in Requests, Fill(r)
      PROVE  Meaning' /\ saved' = saved
  BY <1>1, <1>4 DEF Fill, threads, Meaning, Meant, ToWrite
<1>5. ASSUME NEW t \in Threads, Step(t)
      PROVE  Meaning' /\ (Promise!HNext \/ saved' = saved)
  BY <1>1, <1>5, UnwrittenMeans, ReadAmountMeans, ReadDecisionMeans, ReadLifeMeans,
     ReadConditionMeans, ListMeans, CommitMeans DEF Step, Fails, Meaning
<1>6. CASE DamageElsewhere \/ SetHitPoints \/ SetCounter
  BY <1>1, <1>6, EditsMean DEF Meaning
<1>7. QED
  BY <1>2, <1>3, <1>4, <1>5, <1>6 DEF Next

\* At the start no thread plans anything.
LEMMA MeaningInit == ASSUME Init PROVE Promise!HInit /\ Meaning
<1>1. saved = [revision |-> 0, health |-> Start, changed |-> [p \in Participants |-> 0],
               order |-> Order, pending |-> {}, receipts |-> {}]
  BY DEF Init
<1>2. Start \in [Participants -> Health] /\ Order \in Seq(Participants)
  BY HealthAssumption
<1>3. Promise!HInit
  BY <1>1, <1>2 DEF Promise!HInit, Promise!Health, Health, Promise!Thresholds, Thresholds
<1>4. Keyed(saved) /\ \A t \in Threads : Meant(t)
  BY <1>1 DEF Init, Keyed, Meant
<1>5. QED
  BY <1>3, <1>4, InductiveInit DEF Meaning

\* Every plan stays what its request asks.
LEMMA MeaningHolds == Spec => []Meaning
<1>1. Init => Meaning
  BY MeaningInit
<1>2. Meaning /\ [Next]_vars => Meaning'
  BY MeaningStep
<1>3. QED
  BY <1>1, <1>2, PTL DEF Spec

\* The commands about hit points, each planned and written in sessions of its
\* own, do nothing that Knockouts does not: each takes effect at once, on the
\* encounter as it is, at most once, and its decisions are open exactly as long
\* as nothing else happens to their participants.
THEOREM CommandsKeepThePromise == Spec => ImplementsKnockouts
<1>1. Init => Promise!HInit
  BY MeaningInit
<1>2. Meaning /\ [Next]_vars => [Promise!HNext]_(Promise!hvars)
  BY MeaningStep
<1>3. QED
  BY <1>1, <1>2, MeaningHolds, PTL DEF Spec, ImplementsKnockouts, Promise!HSpec

-----------------------------------------------------------------------------
(* Types, and who is in initiative.                                        *)

\* What an event leaves open.
Openings ==
  [slot : {"lifecycle", "placement"}, who : Participants, before : 0..MaxHp, after : 0..MaxHp,
   dying : Nat, wounded : Nat, doomed : Nat, facts : Facts]

\* What is said of an effect beside the health that it leaves.
Typed(e) == e.open \subseteq Openings /\ e.before \subseteq Participants

\* A decision about a participant.
LEMMA DecisionTypes ==
  ASSUME NEW slot \in {"lifecycle", "placement"}, NEW p \in Participants, NEW hp \in 0..MaxHp,
         NEW h \in Health, NEW f \in Facts
  PROVE  Decision(slot, p, hp, h, f) \in Openings
BY DEF Decision, Openings, Health

\* A knockout.
LEMMA KnockoutTypes ==
  ASSUME NEW p \in Participants, NEW hp \in 0..MaxHp, NEW h \in Health, NEW f \in Facts,
         NEW relocate
  PROVE  Typed(Knockout(p, hp, h, f, relocate))
<1>1. Decision("placement", p, hp, h, f) \in Openings
  BY DecisionTypes
<1>2. f.source \subseteq Participants
  BY DEF Facts
<1>3. QED
  BY <1>1, <1>2 DEF Knockout, Effect, Typed

\* Damage.
LEMMA DamageTypes ==
  ASSUME NEW p \in Participants, NEW h \in Health, NEW amount \in Nat, NEW f \in Facts
  PROVE  Typed(Damage(p, h, amount, f))
<1>1. PICK woken \in Health, beaten \in Health :
        Damage(p, h, amount, f) \in
             {Effect(beaten, {}, {}), Effect(woken, {}, {}),
              Effect(woken, {Decision("lifecycle", p, h.hp, woken, f)}, {}),
              Knockout(p, h.hp, woken, f, h.hp > 0)}
  BY DamageCases DEF Damaged
<1>2. h.hp \in 0..MaxHp
  BY DEF Health
<1>3. Typed(Knockout(p, h.hp, woken, f, h.hp > 0))
  BY <1>2, KnockoutTypes
<1>4. Typed(Effect(beaten, {}, {})) /\ Typed(Effect(woken, {}, {}))
  BY DEF Effect, Typed
<1>5. Typed(Effect(woken, {Decision("lifecycle", p, h.hp, woken, f)}, {}))
  BY <1>2, DecisionTypes DEF Effect, Typed
<1> HIDE DEF Typed
<1>6. QED
  BY <1>1, <1>3, <1>4, <1>5

\* Answers that are joined are facts.
LEMMA MergeTypes ==
  ASSUME NEW f \in Facts, NEW g \in Facts
  PROVE  Merge(f, g) \in Facts
<1>1. DOMAIN f = {"lethality", "critical", "enemy", "source", "keep", "threshold"}
  BY DEF Facts
<1> DEFINE m == Merge(f, g)
<1>2. m = [lethality |-> IF f.lethality # {} THEN f.lethality ELSE g.lethality,
           critical |-> IF f.critical # {} THEN f.critical ELSE g.critical,
           enemy |-> IF f.enemy # {} THEN f.enemy ELSE g.enemy,
           source |-> IF g.source # {} THEN g.source ELSE f.source,
           keep |-> IF g.keep # {} THEN g.keep ELSE f.keep,
           threshold |-> IF f.threshold # {} THEN f.threshold ELSE g.threshold]
  BY <1>1 DEF Merge, Recorded
<1> HIDE DEF m
<1>3. m \in Facts
  BY <1>2 DEF Facts
<1>4. QED
  BY <1>3 DEF m

\* An answer to a decision.
LEMMA ResolveTypes ==
  ASSUME NEW h \in Health, NEW d \in Decisions, NEW given \in Facts
  PROVE  Typed(Resolve(h, d, given))
<1> DEFINE f == Merge(d.facts, given)
<1>1. d.who \in Participants /\ d.before \in 0..MaxHp /\ d.facts \in Facts
  BY DEF Decisions
<1>2. f \in Facts
  BY <1>1, MergeTypes
<1> HIDE DEF f
<1>3. Typed(Knockout(d.who, d.before, h, f, d.before > 0))
  BY <1>1, <1>2, KnockoutTypes
<1>4. Typed(Effect(h, {}, IF f.keep = {TRUE} THEN {} ELSE f.source))
  BY <1>2 DEF Facts, Effect, Typed
<1>5. Resolve(h, d, given) \in {Knockout(d.who, d.before, h, f, d.before > 0),
                                Effect(h, {}, IF f.keep = {TRUE} THEN {} ELSE f.source)}
  BY DEF Resolve, f
<1> HIDE DEF Typed
<1>6. QED
  BY <1>3, <1>4, <1>5

\* Life settings.
LEMMA LifeTypes ==
  ASSUME NEW p \in Participants, NEW h \in Health, NEW b, b.knockout \subseteq Facts
  PROVE  Typed(Life(p, h, b))
<1>1. ASSUME NEW f \in b.knockout
      PROVE  Typed(StartDying(p, h, f))
  <2> DEFINE subject == [h EXCEPT !.tracking = TRUE, !.dead = FALSE, !.defeated = FALSE]
             k == Knockout(p, h.hp, subject, f, TRUE)
  <2>1. subject \in Health /\ h.hp \in 0..MaxHp
    BY DEF Health
  <2> HIDE DEF subject
  <2>2. Typed(k) /\ k = Effect(k.health, k.open, k.before)
    BY <2>1, KnockoutTypes DEF Knockout, Effect
  <2>3. StartDying(p, h, f) \in
          {Effect(subject, {}, {}), k, [k EXCEPT !.health.defeated = h.defeated]}
    BY DEF StartDying, subject
  <2> HIDE DEF k
  <2>4. QED
    BY <2>2, <2>3 DEF Effect, Typed
<1>2. ASSUME NEW f, Typed(StartDying(p, h, f)),
             LET e == StartDying(p, h, f)
             IN  Life(p, h, b) = Effect(WithSettings(e.health, b), e.open, e.before)
      PROVE  Typed(Life(p, h, b))
  BY <1>2 DEF Effect, Typed
<1>3. ASSUME NEW g, Life(p, h, b) = Effect(g, {}, {})
      PROVE  Typed(Life(p, h, b))
  BY <1>3 DEF Effect, Typed
<1> DEFINE Begins(f) == LET e == StartDying(p, h, f)
             IN  Life(p, h, b) = Effect(WithSettings(e.health, b), e.open, e.before)
           Marked == \E dead \in BOOLEAN :
             Life(p, h, b) = Effect(WithSettings([h EXCEPT !.dead = dead], b), {}, {})
<1>4. \/ b.knockout # {} /\ LifeDecides(h, b) /\ \E f \in b.knockout : Begins(f)
      \/ Marked
  BY LifeCases, Zenon
<1>5. CASE Marked
  BY <1>3, <1>5
<1>6. CASE \E f \in b.knockout : Begins(f)
  <2>1. PICK f \in b.knockout : Begins(f)
    BY <1>6
  <2>2. QED
    BY <1>1, <1>2, <2>1
<1> HIDE DEF Begins, Marked
<1>7. QED
  BY <1>4, <1>5, <1>6

\* Everybody is in initiative once.
Complete(o) == IsOrder(o) /\ ToSet(o) = Participants

\* A move loses and repeats nobody.
LEMMA MovedIsComplete ==
  ASSUME NEW o, Complete(o), NEW p \in Participants, NEW before \in SUBSET Participants
  PROVE  Complete(Moved(o, p, before))
<1>1. CASE before \ {p} = {}
  BY <1>1 DEF Moved
<1>2. CASE before \ {p} # {}
  <2>1. PICK q \in before \ {p} : q = CHOOSE x \in before \ {p} : TRUE
    BY <1>2
  <2>2. Moved(o, p, before) = Before(o, p, q)
    BY <1>2, <2>1 DEF Moved
  <2>3. IsOrder(Before(o, p, q)) /\ ToSet(Before(o, p, q)) = ToSet(o)
    BY <2>1, Reordered DEF Complete
  <2>4. QED
    BY <2>2, <2>3 DEF Complete
<1>3. QED
  BY <1>1, <1>2

\* A write keeps the types, and everybody in initiative.
LEMMA WriteTypes ==
  ASSUME NEW s \in Saved, Rows(s), Complete(s.order), s.revision < MaxRevision,
         NEW plan, SoundPlan(plan), Typed(plan.effect), NEW w, w = Written(s, plan)
  PROVE  w \in Saved /\ Complete(w.order)
<1> DEFINE
      p == plan.who
      e == plan.effect
      order == Moved(s.order, p, e.before)
      bumped == (IF plan.writes \/ e.before \ {p} # {} THEN {p} ELSE {}) \cup Shifted(s.order, order)
      changed == [q \in Participants |-> IF q \in bumped THEN s.revision + 1 ELSE s.changed[q]]
      opened == {Opened(s.revision + 1, n) : n \in e.open}
      left == {c \in s.pending \cup opened : c.key \notin plan.settled}
      health == [s.health EXCEPT ![p] = e.health]
      kept == {d \in left : Current(health[d.who], d, d.who \in plan.known \/ d.who \notin Linked)}
<1>1. /\ s.revision \in 0..MaxRevision /\ s.health \in [Participants -> Health]
      /\ s.changed \in [Participants -> 0..MaxRevision] /\ s.pending \subseteq Decisions
      /\ s.receipts \subseteq Requests /\ MaxRevision \in Nat
  BY HealthAssumption DEF Saved
<1>2. s.revision + 1 \in 0..MaxRevision
  BY <1>1
<1>3. p \in Participants /\ e.health \in Health /\ e.open \subseteq Openings
        /\ e.before \subseteq Participants
  BY DEF SoundPlan, Typed
<1>4. Complete(order)
  BY <1>3, MovedIsComplete
<1>5. changed \in [Participants -> 0..MaxRevision]
  BY <1>1, <1>2
<1>6. opened \subseteq Decisions
  <2>1. ASSUME NEW n \in Openings
        PROVE  Opened(s.revision + 1, n) \in Decisions
    BY <1>2 DEF Openings, Opened, Decisions, Keys
  <2>2. QED
    BY <1>3, <2>1
<1>7. Written(s, plan) =
        Retired([revision |-> s.revision + 1, health |-> health, changed |-> changed,
                 order |-> order, receipts |-> s.receipts, pending |-> left], plan.known)
  BY DEF Written, Opened
<1>8. left \subseteq Decisions /\ health \in [Participants -> Health]
  BY <1>1, <1>3, <1>6
<1> HIDE DEF changed, order, left, health
<1>9. w = [revision |-> s.revision + 1, health |-> health, changed |-> changed,
           order |-> order, pending |-> kept, receipts |-> s.receipts]
  BY <1>7 DEF Retired
<1>10. kept \subseteq Decisions
  BY <1>8
<1> HIDE DEF kept
<1>11. QED
  BY <1>1, <1>2, <1>4, <1>5, <1>8, <1>9, <1>10 DEF Saved, Complete, IsOrder

\* The plans of the threads have typed effects.
TypedPlan(t) ==
  pc[t] \in {"listing", "committing"} => \A v \in view[t] : Typed(v.plan.effect)

TypesInv ==
  /\ TypeOK /\ Complete(saved.order)
  /\ \A t \in Threads : TypedPlan(t)

Places == {"idle", "recovering", "reading", "listing", "committing"}

\* A step of a thread that leaves the rows alone.
LEMMA QuietTypes ==
  ASSUME IndInv, TypesInv, NEW t \in Threads, NEW where \in Places, NEW v, NEW r \in Requests,
         pc' = [pc EXCEPT ![t] = where], view' \in {view, [view EXCEPT ![t] = v]},
         request' \in {request, [request EXCEPT ![t] = r]},
         saved' = saved \/ (saved' \in Saved /\ Complete(saved'.order)), TypedPlan(t)'
  PROVE  TypesInv'
<1>1. saved' \in Saved /\ Complete(saved'.order)
  BY DEF TypesInv, TypeOK
<1>2. pc' \in [Threads -> Places] /\ request' \in [Threads -> Requests]
  BY DEF TypesInv, TypeOK, Places
<1>3. ASSUME NEW u \in Threads \ {t}
      PROVE  TypedPlan(u)'
  <2>1. pc'[u] = pc[u] /\ view'[u] = view[u]
    BY DEF IndInv, Attempts
  <2>2. QED
    BY <2>1 DEF TypesInv, TypedPlan
<1>4. QED
  BY <1>1, <1>2, <1>3 DEF TypesInv, TypeOK, Places

\* A command that ends without a write, and one that has planned nothing yet.
LEMMA UnwrittenTypes ==
  ASSUME IndInv, TypesInv, NEW t \in Threads, Begin(t) \/ Recover(t) \/ Unwritten(t)
  PROVE  TypesInv'
<1>1. Nobody \in Requests
  BY DEF IndInv, Attempts, Nobody
<1>2. CASE Unwritten(t)
  <2>1. TypedPlan(t)'
    BY <1>2 DEF IndInv, Attempts, Unwritten, Answer, TypedPlan
  <2>2. QED
    BY <1>1, <1>2, <2>1, QuietTypes DEF Unwritten, Answer, Places
<1>3. CASE Begin(t)
  <2>1. PICK r \in Requests : request' = [request EXCEPT ![t] = r]
    BY <1>3 DEF Begin
  <2>2. TypedPlan(t)'
    BY <1>3 DEF IndInv, Attempts, Begin, TypedPlan
  <2>3. QED
    BY <1>3, <2>1, <2>2, QuietTypes DEF Begin, Places
<1>4. CASE Recover(t) /\ Goto(t, "reading") /\ UNCHANGED view
  <2>1. TypedPlan(t)'
    BY <1>4 DEF IndInv, Attempts, Goto, TypedPlan
  <2>2. QED
    BY <1>1, <1>4, <2>1, QuietTypes DEF Goto, Places
<1>5. QED
  BY <1>2, <1>3, <1>4 DEF Recover

\* A command that has planned.
LEMMA PlannedTypes ==
  ASSUME IndInv, TypesInv, NEW t \in Threads, NEW at, NEW plan,
         NEW where \in {"listing", "committing"}, Planned(t, at, plan), Goto(t, where),
         Typed(plan.effect)
  PROVE  TypesInv'
<1>1. /\ view'[t] = {[at |-> at, plan |-> plan]}
      /\ request' = request /\ saved' = saved
  BY DEF IndInv, Attempts, Goto, Planned
<1>2. TypedPlan(t)'
  BY <1>1 DEF TypedPlan
<1>3. Nobody \in Requests
  BY DEF IndInv, Attempts, Nobody
<1>4. QED
  BY <1>1, <1>2, <1>3, QuietTypes DEF Goto, Planned, Places

\* Damage and healing.
LEMMA ReadAmountTypes ==
  ASSUME IndInv, TypesInv, NEW t \in Threads, ReadAmount(t)
  PROVE  TypesInv'
<1> DEFINE r == request[t]
           b == Body[r]
           p == b.who
           h == saved.health[p]
           e == IF b.kind = "damage" THEN Damage(p, h, b.amount, b.facts)
                ELSE Effect(Heal(h, b.amount), {}, {})
           plan == Plan(p, e, {}, TRUE, {p})
<1>1. r \in Requests
  BY DEF IndInv, Attempts
<1>2. b.amount \in Nat /\ p \in Participants /\ b.facts \in Facts
  BY <1>1, HealthAssumption DEF ReadAmount
<1>3. h \in Health
  BY <1>2 DEF IndInv, Rows
<1>4. Typed(Damage(p, h, b.amount, b.facts))
  BY <1>2, <1>3, DamageTypes
<1>5. Typed(Effect(Heal(h, b.amount), {}, {}))
  BY DEF Typed, Effect
<1>6. Typed(plan.effect)
  BY <1>4, <1>5 DEF Plan
<1>7. Unwritten(t) \/ (Planned(t, saved.revision, plan) /\ Goto(t, "committing"))
  BY DEF ReadAmount
<1> HIDE DEF plan
<1>8. CASE Planned(t, saved.revision, plan) /\ Goto(t, "committing")
  BY <1>6, <1>8, PlannedTypes
<1>9. QED
  BY <1>7, <1>8, UnwrittenTypes

\* An answer to a decision, or its dismissal.
LEMMA ReadDecisionTypes ==
  ASSUME IndInv, TypesInv, NEW t \in Threads, ReadDecision(t)
  PROVE  TypesInv'
<1> DEFINE r == request[t]
           b == Body[r]
           h == saved.health[b.who]
<1>1. r \in Requests
  BY DEF IndInv, Attempts
<1>2. b.who \in Participants /\ b.facts \in Facts
  BY <1>1, HealthAssumption
<1>3. h \in Health /\ saved.pending \subseteq Decisions
  BY <1>2 DEF IndInv, Rows, TypesInv, TypeOK, Saved
<1>4. ASSUME NEW at, NEW plan, Planned(t, at, plan), Goto(t, "committing"), Typed(plan.effect)
      PROVE  TypesInv'
  BY <1>4, PlannedTypes
<1>5. PICK a \in asked[r] :
        \/ \E d \in saved.pending :
             /\ Planned(t, a.revision,
                  Plan(b.who, Resolve(h, d, b.facts), {a.key}, d.slot = "lifecycle", {b.who}))
             /\ Goto(t, "committing")
        \/ /\ Planned(t, a.revision, Plan(b.who, Effect(h, {}, {}), {a.key}, FALSE, {}))
           /\ Goto(t, "committing")
        \/ Unwritten(t)
  BY DEF ReadDecision
<1>6. ASSUME NEW d \in saved.pending,
             Planned(t, a.revision,
               Plan(b.who, Resolve(h, d, b.facts), {a.key}, d.slot = "lifecycle", {b.who})),
             Goto(t, "committing")
      PROVE  TypesInv'
  <2> DEFINE plan == Plan(b.who, Resolve(h, d, b.facts), {a.key}, d.slot = "lifecycle", {b.who})
  <2>1. Typed(Resolve(h, d, b.facts))
    BY <1>2, <1>3, ResolveTypes
  <2>2. Typed(plan.effect)
    BY <2>1 DEF Plan
  <2> HIDE DEF plan
  <2>3. QED
    BY <1>4, <1>6, <2>2 DEF plan
<1>7. ASSUME Planned(t, a.revision, Plan(b.who, Effect(h, {}, {}), {a.key}, FALSE, {})),
             Goto(t, "committing")
      PROVE  TypesInv'
  <2> DEFINE plan == Plan(b.who, Effect(h, {}, {}), {a.key}, FALSE, {})
  <2>1. Typed(plan.effect)
    BY DEF Plan, Effect, Typed
  <2> HIDE DEF plan
  <2>2. QED
    BY <1>4, <1>7, <2>1 DEF plan
<1>8. QED
  BY <1>5, <1>6, <1>7, UnwrittenTypes

\* Life settings.
LEMMA ReadLifeTypes ==
  ASSUME IndInv, TypesInv, NEW t \in Threads, ReadLife(t)
  PROVE  TypesInv'
<1> DEFINE r == request[t]
           b == Body[r]
           p == b.who
           h == saved.health[p]
           plan == Plan(p, Life(p, h, b), {}, TRUE, {})
           where == IF LifeDecides(h, b) THEN "listing" ELSE "committing"
<1>1. r \in Requests
  BY DEF IndInv, Attempts
<1>2. p \in Participants /\ b.knockout \subseteq Facts
  BY <1>1, HealthAssumption DEF ReadLife
<1>3. h \in Health
  BY <1>2 DEF IndInv, Rows
<1>4. Typed(Life(p, h, b))
  BY <1>2, <1>3, LifeTypes
<1>5. Typed(plan.effect)
  BY <1>4 DEF Plan
<1>6. PICK a \in asked[r] :
        Unwritten(t) \/ (Planned(t, a.revision, plan) /\ Goto(t, where))
  BY DEF ReadLife
<1>7. where \in {"listing", "committing"}
  OBVIOUS
<1> HIDE DEF plan, where
<1>8. QED
  BY <1>5, <1>6, <1>7, PlannedTypes, UnwrittenTypes

\* A condition.
LEMMA ReadConditionTypes ==
  ASSUME IndInv, TypesInv, NEW t \in Threads, ReadCondition(t)
  PROVE  TypesInv'
<1> DEFINE r == request[t]
           b == Body[r]
           h == saved.health[b.who]
           fatal == b.applies /\ Fatal(h, [h EXCEPT ![b.counter] = b.value])
           plan == Plan(b.who, Effect(Condition(h, b), {}, {}), {}, fatal, {b.who})
<1>1. Typed(plan.effect)
  BY DEF Plan, Effect, Typed
<1>2. PICK a \in asked[r] :
        Unwritten(t) \/ (Planned(t, a.revision, plan) /\ Goto(t, "committing"))
  BY DEF ReadCondition
<1> HIDE DEF plan
<1>3. QED
  BY <1>1, <1>2, PlannedTypes, UnwrittenTypes

\* Listing the decisions changes what is settled only.
LEMMA ListTypes ==
  ASSUME IndInv, TypesInv, NEW t \in Threads, List(t)
  PROVE  TypesInv'
<1> DEFINE Open(v) == {d.key : d \in {d \in saved.pending : d.who = v.plan.who}}
           Completed(v) == [v EXCEPT !.plan.settled = Open(v)]
           new == {Completed(v) : v \in view[t]}
<1>1. pc[t] = "listing" /\ Nobody \in Requests
  BY DEF List, IndInv, Attempts, Nobody
<1>2. view' = [view EXCEPT ![t] = new] /\ view'[t] = new /\ saved' = saved
  BY DEF IndInv, Attempts, List, Goto
<1>3. ASSUME NEW v \in view[t]
      PROVE  Completed(v).plan.effect = v.plan.effect
  <2>1. /\ v = [at |-> v.at, plan |-> v.plan]
        /\ v.plan = [who |-> v.plan.who, effect |-> v.plan.effect, settled |-> v.plan.settled,
                     writes |-> v.plan.writes, known |-> v.plan.known]
    BY <1>1, <1>3 DEF IndInv, Attempts, Planning
  <2> HIDE DEF Open
  <2>2. Completed(v) = [at |-> v.at,
          plan |-> [who |-> v.plan.who, effect |-> v.plan.effect, settled |-> Open(v),
                    writes |-> v.plan.writes, known |-> v.plan.known]]
    BY <2>1
  <2> HIDE DEF Completed
  <2>3. QED
    BY <2>2
<1>4. TypedPlan(t)'
  <2> HIDE DEF Completed
  <2>1. QED
    BY <1>1, <1>2, <1>3 DEF TypesInv, TypedPlan
<1> HIDE DEF new
<1>5. QED
  BY <1>1, <1>2, <1>4, QuietTypes DEF List, Goto, Places

\* The write of a command.
LEMMA CommitTypes ==
  ASSUME IndInv, TypesInv, NEW t \in Threads, Commit(t)
  PROVE  TypesInv'
<1> DEFINE r == request[t]
<1>1. PICK v \in view[t] :
        \/ Unwritten(t)
        \/ /\ saved.revision < MaxRevision /\ Answer(t)
           /\ saved' = [Written(saved, v.plan) EXCEPT !.receipts = @ \cup {r}]
  BY DEF Commit
<1>2. CASE /\ saved.revision < MaxRevision /\ Answer(t)
           /\ saved' = [Written(saved, v.plan) EXCEPT !.receipts = @ \cup {r}]
  <2>1. pc[t] = "committing" /\ r \in Requests /\ Nobody \in Requests
    BY DEF Commit, IndInv, Attempts, Nobody
  <2>2. SoundPlan(v.plan) /\ Typed(v.plan.effect)
    BY <2>1 DEF IndInv, Attempts, Planning, TypesInv, TypedPlan
  <2> DEFINE w == Written(saved, v.plan)
  <2>3. w \in Saved /\ Complete(w.order)
    BY <1>2, <2>2, WriteTypes DEF IndInv, TypesInv, TypeOK
  <2>4. saved' = [w EXCEPT !.receipts = @ \cup {r}]
    BY <1>2
  <2> HIDE DEF w, r
  <2>5. saved' \in Saved /\ saved'.order = w.order
    BY <2>1, <2>3, <2>4 DEF Saved
  <2>6. TypedPlan(t)'
    BY <1>2 DEF IndInv, Attempts, Answer, TypedPlan
  <2>7. QED
    BY <1>2, <2>1, <2>3, <2>5, <2>6, QuietTypes DEF Answer, Places
<1>3. QED
  BY <1>1, <1>2, UnwrittenTypes

\* The edits of other clients.
LEMMA EditsTypes ==
  ASSUME IndInv, TypesInv, DamageElsewhere \/ SetHitPoints \/ SetCounter
  PROVE  TypesInv'
<1>1. ASSUME NEW what, NEW plan, Edited(what, plan), SoundPlan(plan), Typed(plan.effect)
      PROVE  TypesInv'
  <2> DEFINE w == Written(saved, plan)
  <2>1. w \in Saved /\ Complete(w.order)
    BY <1>1, WriteTypes DEF Edited, IndInv, TypesInv, TypeOK
  <2> HIDE DEF w
  <2>2. saved' = w
    BY <1>1 DEF Edited, w
  <2>3. QED
    BY <1>1, <2>1, <2>2 DEF Edited, threads, TypesInv, TypeOK, TypedPlan
<1>2. ASSUME NEW p \in Participants
      PROVE  saved.health[p] \in Health
  BY DEF IndInv, Rows
<1>3. CASE DamageElsewhere
  <2>1. PICK p \in Participants :
          Edited("damage", Plan(p, Damage(p, saved.health[p], 1, NoFacts), {}, TRUE, {p}))
    BY <1>3 DEF DamageElsewhere
  <2> DEFINE e == Damage(p, saved.health[p], 1, NoFacts)
             plan == Plan(p, e, {}, TRUE, {p})
  <2>2. NoFacts \in Facts
    BY DEF NoFacts, Facts
  <2>3. e.health \in Health /\ (\A d \in e.open : d.who = p) /\ Typed(e)
    BY <1>2, <2>2, DamageIsSound, DamageTypes
  <2> HIDE DEF e
  <2>4. SoundPlan(plan) /\ Typed(plan.effect)
    BY <2>3 DEF Plan, SoundPlan
  <2> HIDE DEF plan
  <2>5. QED
    BY <1>1, <2>1, <2>4 DEF plan, e
<1>4. CASE SetHitPoints
  <2>1. PICK p \in Participants, x \in {"hp", "temp"}, n \in 0..MaxHp :
          Edited(x, Plan(p, Effect([saved.health[p] EXCEPT ![x] = n], {}, {}), {}, TRUE, {}))
    BY <1>4 DEF SetHitPoints
  <2> DEFINE g == [saved.health[p] EXCEPT ![x] = n]
             plan == Plan(p, Effect(g, {}, {}), {}, TRUE, {})
  <2>2. g \in Health
    BY <1>2, <2>1, RulesAssumption DEF Health
  <2> HIDE DEF g
  <2>3. SoundPlan(plan) /\ Typed(plan.effect)
    BY <2>2 DEF Plan, Effect, SoundPlan, Typed
  <2> HIDE DEF plan
  <2>4. QED
    BY <1>1, <2>1, <2>3 DEF plan, g
<1>5. CASE SetCounter
  <2>1. PICK p \in Participants, x \in Counters, n \in Values :
          LET h == saved.health[p]
              c == [h EXCEPT ![x] = n]
          IN  Edited(x, Plan(p, Effect(Counted(h, c), {}, {}), {}, Fatal(h, c), {p}))
    BY <1>5 DEF SetCounter
  <2> DEFINE h == saved.health[p]
             c == [h EXCEPT ![x] = n]
             g == Counted(h, c)
             plan == Plan(p, Effect(g, {}, {}), {}, Fatal(h, c), {p})
  <2>2. n \in Nat /\ g \in Health
    BY <1>2, <2>1, HealthAssumption, CountedIsHealth
  <2> HIDE DEF g
  <2>3. SoundPlan(plan) /\ Typed(plan.effect)
    BY <2>2 DEF Plan, Effect, SoundPlan, Typed
  <2> HIDE DEF plan
  <2>4. QED
    BY <1>1, <2>1, <2>3 DEF plan, g
<1>6. QED
  BY <1>3, <1>4, <1>5

\* Every variable keeps its type, and everybody stays in initiative, once, however
\* often a knockout moves somebody (reorder_participant).
THEOREM TypesHold == Spec => [](TypeOK /\ Complete(saved.order))
<1>1. Init => IndInv /\ TypesInv
  <2> SUFFICES ASSUME Init PROVE IndInv /\ TypesInv
    OBVIOUS
  <2>1. saved = [revision |-> 0, health |-> Start, changed |-> [p \in Participants |-> 0],
                 order |-> Order, pending |-> {}, receipts |-> {}]
    BY DEF Init
  <2>2. Complete(Order) /\ Start \in [Participants -> Health] /\ 0 \in 0..MaxRevision
          /\ Nobody \in Requests
    BY HealthAssumption DEF Complete, IsOrder, Nobody
  <2>3. saved \in Saved
    BY <2>1, <2>2 DEF Saved, Complete, IsOrder
  <2>4. QED
    BY <2>1, <2>2, <2>3, InductiveInit DEF Init, TypesInv, TypeOK, TypedPlan
<1>2. IndInv /\ TypesInv /\ [Next]_vars => IndInv' /\ TypesInv'
  <2> SUFFICES ASSUME IndInv, TypesInv, [Next]_vars PROVE IndInv' /\ TypesInv'
    OBVIOUS
  <2>1. IndInv'
    BY InductiveStep
  <2>2. CASE UNCHANGED vars
    BY <2>1, <2>2 DEF vars, threads, TypesInv, TypeOK, TypedPlan
  <2>3. ASSUME NEW r \in Requests, Fill(r)
        PROVE  TypesInv'
    BY <2>3 DEF Fill, threads, TypesInv, TypeOK, TypedPlan
  <2>4. ASSUME NEW t \in Threads, Step(t)
        PROVE  TypesInv'
    BY <2>4, UnwrittenTypes, ReadAmountTypes, ReadDecisionTypes, ReadLifeTypes,
       ReadConditionTypes, ListTypes, CommitTypes DEF Step, Fails
  <2>5. QED
    BY <2>1, <2>2, <2>3, <2>4, EditsTypes DEF Next
<1>3. IndInv /\ TypesInv => TypeOK /\ Complete(saved.order)
  BY DEF TypesInv
<1>4. QED
  BY <1>1, <1>2, <1>3, PTL DEF Spec

-----------------------------------------------------------------------------
(* The threshold at which a participant dies.                              *)

\* What an event is told of the threshold is more than the participant's.
Raises(f, h) == \E n \in f.threshold : n > h.threshold

\* A knockout compares the value of Dying that it leads to.
LEMMA KnockedOutSpares ==
  ASSUME NEW h \in Health, NEW f \in Facts, Reaches(h, KnockedOut(h, f))
  PROVE  Raises(f, h)
<1> DEFINE next == NextDying(h, f)
           n == Given(f.threshold, h.threshold)
<1>1. h.doomed \in Nat /\ h.dying \in Nat /\ h.threshold \in Nat
  BY DEF Health, Thresholds
<1>2. KnockedOut(h, f) # Dead(h)
  <2>1. Dead(h).dying = 0 /\ Dead(h).doomed = 0
    BY DEF Dead, Health
  <2>2. ~Reaches(h, Dead(h))
    BY <1>1, <2>1 DEF Reaches
  <2>3. QED
    BY <2>2
<1>3. KnockedOut(h, f) # [h EXCEPT !.out = TRUE]
  BY <1>1 DEF Reaches, Health
<1>4. next \in Nat
  BY NextDyingIsNat
<1>5. n \in Nat /\ n \in f.threshold \cup {h.threshold}
  BY <1>1 DEF Given, Facts, Thresholds
<1>6. next < n - h.doomed /\ KnockedOut(h, f) = [h EXCEPT !.dying = next]
  BY <1>2, <1>3, KnockedOutCases
<1> HIDE DEF next, n
<1>7. next + h.doomed >= h.threshold
  <2> DEFINE g == [h EXCEPT !.dying = next]
  <2>1. g.dying = next /\ g.doomed = h.doomed /\ g.threshold = h.threshold
    BY DEF Health
  <2>2. Reaches(h, g)
    BY <1>6
  <2> HIDE DEF g
  <2>3. QED
    BY <2>1, <2>2 DEF Reaches
<1>8. n > h.threshold
  BY <1>1, <1>4, <1>5, <1>6, <1>7
<1>9. QED
  BY <1>1, <1>5, <1>8 DEF Raises

\* Of a participant that a command has changed without harm.
LEMMA UnharmedReaches ==
  ASSUME NEW h, NEW k, Unharmed(h, k), NEW f, NEW g
  PROVE  /\ Reaches(k, g) <=> Reaches(h, g)
         /\ Raises(f, k) <=> Raises(f, h)
BY DEF Unharmed, Reaches, Raises

\* Who is not harmed reaches nothing.
LEMMA UnharmedIsSpared ==
  ASSUME NEW h \in Health, NEW k, Unharmed(h, k)
  PROVE  ~Reaches(h, k)
BY DEF Health, Unharmed, Reaches

\* Damage.
LEMMA DamageSpares ==
  ASSUME NEW p, NEW h \in Health, NEW amount \in Nat, NEW f \in Facts,
         Reaches(h, Damage(p, h, amount, f).health)
  PROVE  Raises(f, h)
<1>1. PICK woken \in Health, beaten \in Health :
        /\ Unharmed(h, woken) /\ Unharmed(h, beaten)
        /\ Damage(p, h, amount, f) \in
             {Effect(beaten, {}, {}), Effect(woken, {}, {}),
              Effect(woken, {Decision("lifecycle", p, h.hp, woken, f)}, {}),
              Knockout(p, h.hp, woken, f, h.hp > 0)}
  BY DamageCases DEF Damaged
<1>2. \A open, before : Effect(beaten, open, before).health = beaten
                          /\ Effect(woken, open, before).health = woken
  BY DEF Effect
<1>3. Knockout(p, h.hp, woken, f, h.hp > 0).health = KnockedOut(woken, f)
  BY DEF Knockout, Effect
<1>4. Damage(p, h, amount, f).health \in {beaten, woken, KnockedOut(woken, f)}
  BY <1>1, <1>2, <1>3
<1>5. ~Reaches(h, beaten) /\ ~Reaches(h, woken)
  BY <1>1, UnharmedIsSpared
<1>6. Reaches(woken, KnockedOut(woken, f))
  BY <1>1, <1>4, <1>5, UnharmedReaches
<1>7. QED
  BY <1>1, <1>6, KnockedOutSpares, UnharmedReaches

\* An answer, with what was recorded when its decision was opened.
LEMMA ResolveSpares ==
  ASSUME NEW h \in Health, NEW d, d.facts \in Facts, NEW given \in Facts,
         Reaches(h, Resolve(h, d, given).health)
  PROVE  Raises(d.facts, h) \/ Raises(given, h)
<1> DEFINE f == Merge(d.facts, given)
<1>1. Resolve(h, d, given).health \in {h, KnockedOut(h, f)}
  BY DEF Resolve, Knockout, Effect
<1>2. f \in Facts
  BY MergeTypes
<1>3. f.threshold \in {d.facts.threshold, given.threshold}
  BY DEF Merge, Recorded, Facts
<1> HIDE DEF f
<1>4. Raises(f, h)
  BY <1>1, <1>2, KnockedOutSpares, UnharmedIsSpared DEF Unharmed
<1>5. QED
  BY <1>3, <1>4 DEF Raises

\* The choice to begin to die leaves the threshold as it is.
LEMMA StartDyingSpares ==
  ASSUME NEW p, NEW h \in Health, NEW f \in Facts
  PROVE  LET g == StartDying(p, h, f).health
         IN  g.threshold = h.threshold /\ (Reaches(h, g) => Raises(f, h))
<1> DEFINE subject == [h EXCEPT !.tracking = TRUE, !.dead = FALSE, !.defeated = FALSE]
           k == Knockout(p, h.hp, subject, f, TRUE)
           g == StartDying(p, h, f).health
<1>1. subject \in Health /\ Unharmed(h, subject)
  BY DEF Health, Unharmed
<1> HIDE DEF subject
<1>2. k.health = KnockedOut(subject, f) /\ k = Effect(k.health, k.open, k.before)
  BY DEF Knockout, Effect
<1>3. StartDying(p, h, f) \in
        {Effect(subject, {}, {}), k, [k EXCEPT !.health.defeated = h.defeated]}
  BY DEF StartDying, subject
<1>4. k.health \in Health /\ k.health.threshold = h.threshold
  BY <1>1, <1>2, KnockedOutIsHealth DEF Unharmed
<1> HIDE DEF k
<1>5. g = subject \/ (g.threshold = h.threshold /\ Unharmed(k.health, g))
  <2>1. ASSUME StartDying(p, h, f) = [k EXCEPT !.health.defeated = h.defeated]
        PROVE  g = [k.health EXCEPT !.defeated = h.defeated]
    BY <1>2, <2>1 DEF Effect
  <2>2. Unharmed(k.health, [k.health EXCEPT !.defeated = h.defeated])
    BY <1>4 DEF Health, Unharmed
  <2>3. StartDying(p, h, f) = Effect(subject, {}, {}) => g = subject
    BY DEF Effect
  <2>4. Unharmed(k.health, k.health)
    BY DEF Unharmed
  <2>5. QED
    BY <1>3, <1>4, <2>1, <2>2, <2>3, <2>4 DEF Unharmed
<1> HIDE DEF g
<1>6. g.threshold = h.threshold
  BY <1>1, <1>5 DEF Unharmed
<1>7. ASSUME Reaches(h, g)
      PROVE  Raises(f, h)
  <2>1. g # subject
    BY <1>1, <1>7, UnharmedIsSpared
  <2>2. Reaches(subject, k.health)
    BY <1>1, <1>5, <1>7, <2>1 DEF Unharmed, Reaches
  <2>3. QED
    BY <1>1, <1>2, <2>2, KnockedOutSpares, UnharmedReaches
<1>8. QED
  BY <1>6, <1>7 DEF g

\* Settings that lower the threshold.
Lowers(b, h) == \E n \in b.threshold : n < h.threshold

\* Settings are written after what they begin.
LEMMA LifeSpares ==
  ASSUME NEW p, NEW h \in Health, NEW b, b.tracking \in BOOLEAN,
         b.threshold \subseteq Thresholds, b.knockout \subseteq Facts,
         Reaches(h, Life(p, h, b).health)
  PROVE  Lowers(b, h) \/ \E f \in b.knockout : Raises(f, h)
<1>1. ASSUME NEW g \in Health, g.threshold = h.threshold, Reaches(h, WithSettings(g, b)),
             ~Lowers(b, h)
      PROVE  Reaches(h, g)
  <2> DEFINE n == Given(b.threshold, g.threshold)
             w == WithSettings(g, b)
  <2>1. w.dying = g.dying /\ w.doomed = g.doomed /\ w.threshold = n
    BY SettingsAreHealth DEF SameCounters
  <2>2. n \in Thresholds /\ (n \in b.threshold \/ n = h.threshold)
    BY <1>1 DEF Given, Health
  <2> HIDE DEF n, w
  <2>3. n >= h.threshold /\ n \in Nat /\ h.threshold \in Nat
    BY <1>1, <2>2 DEF Lowers, Thresholds, Health
  <2>4. Reaches(h, w)
    BY <1>1 DEF w
  <2>5. g.dying \in Nat /\ g.doomed \in Nat
    BY DEF Health
  <2>6. QED
    BY <1>1, <2>1, <2>3, <2>4, <2>5 DEF Reaches
<1>2. ASSUME NEW f \in b.knockout,
             LET e == StartDying(p, h, f)
             IN  Life(p, h, b) = Effect(WithSettings(e.health, b), e.open, e.before)
      PROVE  Lowers(b, h) \/ Raises(f, h)
  <2> DEFINE g == StartDying(p, h, f).health
  <2>1. g \in Health /\ g.threshold = h.threshold /\ (Reaches(h, g) => Raises(f, h))
    BY StartDyingIsSound, StartDyingSpares
  <2>2. Life(p, h, b).health = WithSettings(g, b)
    BY <1>2 DEF Effect
  <2> HIDE DEF g
  <2>3. QED
    BY <1>1, <2>1, <2>2
<1>3. ASSUME NEW dead \in BOOLEAN,
             Life(p, h, b) = Effect(WithSettings([h EXCEPT !.dead = dead], b), {}, {})
      PROVE  Lowers(b, h)
  <2> DEFINE g == [h EXCEPT !.dead = dead]
  <2>1. g \in Health /\ Unharmed(h, g)
    BY DEF Health, Unharmed
  <2>2. Life(p, h, b).health = WithSettings(g, b)
    BY <1>3 DEF Effect
  <2> HIDE DEF g
  <2>3. ~Reaches(h, g)
    BY <2>1, UnharmedIsSpared
  <2>4. QED
    BY <1>1, <2>1, <2>2, <2>3 DEF Unharmed
<1> DEFINE Begins(f) == LET e == StartDying(p, h, f)
             IN  Life(p, h, b) = Effect(WithSettings(e.health, b), e.open, e.before)
           Marked == \E dead \in BOOLEAN :
             Life(p, h, b) = Effect(WithSettings([h EXCEPT !.dead = dead], b), {}, {})
<1>4. \/ b.knockout # {} /\ LifeDecides(h, b) /\ \E f \in b.knockout : Begins(f)
      \/ Marked
  BY LifeCases, Zenon
<1>5. CASE Marked
  BY <1>3, <1>5
<1>6. CASE \E f \in b.knockout : Begins(f)
  <2>1. PICK f \in b.knockout : Begins(f)
    BY <1>6
  <2>2. QED
    BY <1>2, <2>1
<1> HIDE DEF Begins, Marked
<1>7. QED
  BY <1>4, <1>5, <1>6

\* A counter that takes effect.
LEMMA CountedSpares ==
  ASSUME NEW h \in Health, NEW x \in Counters, NEW n \in Nat
  PROVE  ~Reaches(h, Counted(h, [h EXCEPT ![x] = n]))
<1> DEFINE c == [h EXCEPT ![x] = n]
           k == Stable(h, c)
<1>1. /\ c \in Health /\ c.threshold = h.threshold /\ k \in Health /\ Unharmed(c, k)
      /\ Counted(h, c) = IF Fatal(h, c) THEN Dead(k) ELSE k
  BY CountedIsHealth
<1> HIDE DEF c, k
<1>2. h.dying \in Nat /\ h.doomed \in Nat /\ h.threshold \in Nat \ {0}
  BY DEF Health, Thresholds
<1>3. ~Reaches(h, Dead(k))
  <2>1. Dead(k).dying = 0 /\ Dead(k).doomed = 0
    BY <1>1 DEF Dead, Health
  <2>2. QED
    BY <1>2, <2>1 DEF Reaches
<1>4. ~Fatal(h, c) => ~Reaches(h, k)
  BY <1>1 DEF Fatal, Reaches, Unharmed
<1>5. QED
  BY <1>1, <1>3, <1>4 DEF c

\* Healing.
LEMMA HealSpares ==
  ASSUME NEW h \in Health, NEW amount \in Nat
  PROVE  ~Reaches(h, Heal(h, amount))
<1> DEFINE g == Heal(h, amount)
<1>1. Healed(h, g)
  BY HealIsHealth
<1> HIDE DEF g
<1>2. h.dying \in Nat /\ h.doomed \in Nat
  BY DEF Health
<1>3. ~Reaches(h, g)
  BY <1>1, <1>2 DEF Healed, Reaches
<1>4. QED
  BY <1>3 DEF g

\* It is about the participant of its request.
LEMMA IntendedWho ==
  ASSUME NEW r, NEW s, NEW plan, Intended(r, s, plan)
  PROVE  plan.who = Body[r].who
<1> DEFINE b == Body[r]
           p == b.who
           h == s.health[p]
           Is(e, settled, writes, known) == plan = Plan(p, e, settled, writes, known)
<1>1. \A e, settled, writes, known : Is(e, settled, writes, known) => plan.who = p
  BY DEF Plan
<1>2. \/ Is(Damage(p, h, b.amount, b.facts), {}, TRUE, {p})
      \/ Is(Effect(Heal(h, b.amount), {}, {}), {}, TRUE, {p})
      \/ \E d \in About(s, p) :
           \/ Is(Resolve(h, d, b.facts), {d.key}, d.slot = "lifecycle", {p})
           \/ Is(Effect(h, {}, {}), {d.key}, FALSE, {})
      \/ Is(Life(p, h, b), IF LifeDecides(h, b) THEN KeysAbout(s, p) ELSE {}, TRUE, {})
      \/ \E fatal \in BOOLEAN : Is(Effect(Condition(h, b), {}, {}), {}, fatal, {p})
  BY Zenon DEF Intended
<1> HIDE DEF Is
<1>3. QED
  BY <1>1, <1>2

\* What a request asks of the rows spares its participant, or is excepted.
LEMMA IntendedSpares ==
  ASSUME Rows(saved), saved.pending \subseteq Decisions, NEW r \in Requests, NEW plan,
         Intended(r, saved, plan),
         Reaches(saved.health[Body[r].who], plan.effect.health)
  PROVE  Excepts(r, saved.health[Body[r].who])
<1> DEFINE b == Body[r]
           p == b.who
           h == saved.health[p]
<1>1. p \in Participants /\ b.facts \in Facts
  BY HealthAssumption
<1>2. h \in Health
  BY <1>1 DEF Rows
<1>3. ASSUME NEW f \in Told(r), Raises(f, h)
      PROVE  Excepts(r, h)
  BY <1>3 DEF Raises, Excepts
<1>4. b.facts \in Told(r)
  BY DEF Told
<1>5. Reaches(h, plan.effect.health)
  OBVIOUS
<1>6. ASSUME NEW g, NEW open, NEW before, plan.effect = Effect(g, open, before)
      PROVE  Reaches(h, g)
  <2>1. plan.effect.health = g
    BY <1>6 DEF Effect
  <2>2. QED
    BY <1>5, <2>1
<1>7. CASE /\ b.kind = "damage" /\ b.amount \in Nat
           /\ plan = Plan(p, Damage(p, h, b.amount, b.facts), {}, TRUE, {p})
  <2>1. plan.effect = Damage(p, h, b.amount, b.facts)
    BY <1>7 DEF Plan
  <2>2. Reaches(h, Damage(p, h, b.amount, b.facts).health)
    BY <1>5, <2>1
  <2>3. QED
    BY <1>1, <1>2, <1>3, <1>4, <1>7, <2>2, DamageSpares
<1>8. CASE b.kind = "heal" /\ plan = Plan(p, Effect(Heal(h, b.amount), {}, {}), {}, TRUE, {p})
  <2>1. b.amount \in Nat
    BY <1>8, HealthAssumption
  <2>2. plan.effect = Effect(Heal(h, b.amount), {}, {})
    BY <1>8 DEF Plan
  <2>3. Reaches(h, Heal(h, b.amount))
    BY <1>6, <2>2
  <2>4. QED
    BY <1>2, <2>1, <2>3, HealSpares
<1>9. CASE b.kind = "apply" /\ \E d \in About(saved, p) :
             /\ Resolvable(h, d, b.facts)
             /\ plan = Plan(p, Resolve(h, d, b.facts), {d.key}, d.slot = "lifecycle", {p})
  <2>1. PICK d \in About(saved, p) :
          plan = Plan(p, Resolve(h, d, b.facts), {d.key}, d.slot = "lifecycle", {p})
    BY <1>9
  <2>2. d \in saved.pending /\ d.who = p /\ d.facts \in Facts
    BY DEF About, Decisions
  <2>3. d.facts \in Told(r)
    BY <1>9, <2>2 DEF Told
  <2>4. plan.effect = Resolve(h, d, b.facts)
    BY <2>1 DEF Plan
  <2>5. Reaches(h, Resolve(h, d, b.facts).health)
    BY <1>5, <2>4
  <2>6. QED
    BY <1>1, <1>2, <1>3, <1>4, <2>2, <2>3, <2>5, ResolveSpares
<1>10. CASE b.kind = "keep" /\ \E d \in About(saved, p) :
              plan = Plan(p, Effect(h, {}, {}), {d.key}, FALSE, {})
  <2>1. plan.effect = Effect(h, {}, {})
    BY <1>10 DEF Plan
  <2>2. Reaches(h, h)
    BY <1>6, <2>1
  <2>3. QED
    BY <1>2, <2>2, UnharmedIsSpared DEF Unharmed
<1>11. CASE /\ b.kind = "life" /\ b.tracking \in BOOLEAN /\ b.threshold \subseteq Thresholds
            /\ plan = Plan(p, Life(p, h, b),
                           IF LifeDecides(h, b) THEN KeysAbout(saved, p) ELSE {}, TRUE, {})
  <2>1. b.knockout \subseteq Facts
    BY <1>11, HealthAssumption
  <2>2. plan.effect = Life(p, h, b)
    BY <1>11 DEF Plan
  <2>3. Reaches(h, Life(p, h, b).health)
    BY <1>5, <2>2
  <2>4. Lowers(b, h) \/ \E f \in b.knockout : Raises(f, h)
    <3> HIDE DEF b, p, h
    <3>1. QED
      BY <1>2, <1>11, <2>1, <2>3, LifeSpares
  <2>5. CASE Lowers(b, h)
    BY <1>11, <2>5 DEF Lowers, Excepts
  <2>6. CASE \E f \in b.knockout : Raises(f, h)
    BY <1>3, <1>11, <2>6 DEF Told
  <2>7. QED
    BY <2>4, <2>5, <2>6
<1>12. CASE /\ b.kind = "condition" /\ b.counter \in Counters /\ b.value \in Nat
            /\ \E fatal \in BOOLEAN :
                 plan = Plan(p, Effect(Condition(h, b), {}, {}), {}, fatal, {p})
  <2>1. plan.effect = Effect(Condition(h, b), {}, {})
    BY <1>12 DEF Plan
  <2>2. Reaches(h, Condition(h, b))
    BY <1>6, <2>1
  <2>3. ~b.applies
    BY <1>2, <1>12, <2>2, CountedSpares DEF Condition
  <2>4. QED
    BY <1>12, <2>3 DEF Excepts
<1>13. QED
  BY <1>7, <1>8, <1>9, <1>10, <1>11, <1>12 DEF Intended

\* A step that brings somebody there is the write of such a request.
LEMMA StepSpares ==
  ASSUME Meaning, TypeOK, [Next]_vars, NEW p \in Participants,
         Reaches(saved.health[p], saved'.health[p])
  PROVE  \E r \in saved'.receipts \ saved.receipts :
           Body[r].who = p /\ Excepts(r, saved.health[p])
<1>1. Rows(saved) /\ saved.pending \subseteq Decisions
  BY DEF Meaning, IndInv, TypeOK, Saved
<1>2. \A q \in Participants : saved.health[q] \in Health
  BY <1>1 DEF Rows
<1>3. saved' # saved
  BY <1>2, UnharmedIsSpared DEF Unharmed
<1>4. ASSUME NEW plan, SoundPlan(plan), NEW w, w = Written(saved, plan),
             saved'.health = w.health
      PROVE  p = plan.who /\ Reaches(saved.health[p], plan.effect.health)
  <2>1. w.health = [saved.health EXCEPT ![plan.who] = plan.effect.health]
    BY <1>1, <1>4, WrittenRows
  <2>2. p # plan.who => saved'.health[p] = saved.health[p]
    BY <1>4, <2>1 DEF Rows
  <2>3. p = plan.who
    BY <1>2, <2>2, UnharmedIsSpared DEF Unharmed
  <2>4. saved'.health[p] = plan.effect.health
    BY <1>1, <1>4, <2>1, <2>3 DEF Rows
  <2>5. QED
    BY <2>3, <2>4
<1>5. ASSUME NEW t \in Threads, Step(t)
      PROVE  \E r \in saved'.receipts \ saved.receipts :
               Body[r].who = p /\ Excepts(r, saved.health[p])
  <2>1. Commit(t)
    BY <1>3, <1>5, UnwrittenMeans, ReadAmountMeans, ReadDecisionMeans, ReadLifeMeans,
       ReadConditionMeans, ListMeans DEF Step, Fails
  <2> DEFINE r == request[t]
  <2>2. PICK v \in view[t] :
          /\ r \notin saved.receipts /\ SameEncounter(v)
          /\ saved' = [Written(saved, v.plan) EXCEPT !.receipts = @ \cup {r}]
    BY <1>3, <2>1 DEF Commit, Unwritten
  <2>3. r \in Requests /\ pc[t] = "committing"
    BY <2>1 DEF Commit, Meaning, IndInv, Attempts
  <2>4. SoundPlan(v.plan) /\ Intended(r, saved, v.plan)
    BY <2>2, <2>3 DEF Meaning, IndInv, Attempts, Planning, Meant, ToWrite, SameEncounter
  <2> DEFINE w == Written(saved, v.plan)
  <2>5. w = [revision |-> w.revision, health |-> w.health, changed |-> w.changed,
             order |-> w.order, pending |-> w.pending, receipts |-> saved.receipts]
    <3> DEFINE plan == v.plan
    <3>1. SoundPlan(plan)
      BY <2>4
    <3>2. w = Written(saved, plan)
      OBVIOUS
    <3> HIDE DEF plan, w
    <3>3. QED
      BY <1>1, <3>1, <3>2, WrittenRows
  <2>6. saved' = [w EXCEPT !.receipts = @ \cup {r}]
    BY <2>2
  <2>7. saved'.health = w.health /\ saved'.receipts = saved.receipts \cup {r}
    <3> HIDE DEF w, r
    <3>1. QED
      BY <2>5, <2>6
  <2>8. p = v.plan.who /\ Reaches(saved.health[p], v.plan.effect.health)
    BY <1>4, <2>4, <2>7
  <2>9. v.plan.who = Body[r].who
    BY <2>4, IntendedWho
  <2>10. Excepts(r, saved.health[p])
    BY <1>1, <2>3, <2>4, <2>8, <2>9, IntendedSpares
  <2>11. QED
    BY <2>2, <2>7, <2>8, <2>9, <2>10
<1>6. ASSUME NEW what, NEW q \in Participants, NEW g \in Health, ~Reaches(saved.health[q], g),
             NEW known, NEW writes,
             NEW e, e.health = g, \A d \in e.open : d.who = q /\ q \in known,
             Edited(what, Plan(q, e, {}, writes, known))
      PROVE  FALSE
  <2> DEFINE plan == Plan(q, e, {}, writes, known)
  <2>1. SoundPlan(plan) /\ plan.who = q /\ plan.effect.health = g
    BY <1>6 DEF Plan, SoundPlan
  <2>2. saved'.health = Written(saved, plan).health
    BY <1>6 DEF Edited
  <2> HIDE DEF plan
  <2>3. QED
    BY <1>4, <1>6, <2>1, <2>2
<1>7. ~DamageElsewhere
  <2> SUFFICES ASSUME NEW q \in Participants,
                      Edited("damage", Plan(q, Damage(q, saved.health[q], 1, NoFacts), {}, TRUE, {q}))
               PROVE  FALSE
    BY DEF DamageElsewhere
  <2> DEFINE e == Damage(q, saved.health[q], 1, NoFacts)
             g == e.health
  <2>1. NoFacts \in Facts /\ ~Raises(NoFacts, saved.health[q])
    BY DEF NoFacts, Facts, Raises
  <2>2. g \in Health /\ ~Reaches(saved.health[q], g) /\ \A d \in e.open : d.who = q
    BY <1>2, <2>1, DamageIsSound, DamageSpares
  <2>3. Edited("damage", Plan(q, e, {}, TRUE, {q}))
    OBVIOUS
  <2> HIDE DEF e
  <2>4. e.health = g /\ \A d \in e.open : d.who = q /\ q \in {q}
    BY <2>2
  <2> HIDE DEF g
  <2>5. QED
    BY <1>6, <2>2, <2>3, <2>4
<1>8. ~SetHitPoints
  <2> SUFFICES ASSUME NEW q \in Participants, NEW x \in {"hp", "temp"}, NEW n \in 0..MaxHp,
                      Edited(x, Plan(q, Effect([saved.health[q] EXCEPT ![x] = n], {}, {}), {}, TRUE, {}))
               PROVE  FALSE
    BY DEF SetHitPoints
  <2> DEFINE g == [saved.health[q] EXCEPT ![x] = n]
             e == Effect(g, {}, {})
  <2>1. g \in Health /\ Unharmed(saved.health[q], g)
    BY <1>2, RulesAssumption DEF Health, Unharmed
  <2> HIDE DEF g
  <2>2. e.health = g /\ e.open = {} /\ ~Reaches(saved.health[q], g)
    BY <1>2, <2>1, UnharmedIsSpared DEF Effect
  <2>3. Edited(x, Plan(q, e, {}, TRUE, {}))
    BY DEF g
  <2> HIDE DEF e
  <2>4. QED
    BY <1>6, <2>1, <2>2, <2>3
<1>9. ~SetCounter
  <2> SUFFICES ASSUME NEW q \in Participants, NEW x \in Counters, NEW n \in Values,
                      LET h == saved.health[q]
                          c == [h EXCEPT ![x] = n]
                      IN  Edited(x, Plan(q, Effect(Counted(h, c), {}, {}), {}, Fatal(h, c), {q}))
               PROVE  FALSE
    BY DEF SetCounter
  <2> DEFINE h == saved.health[q]
             c == [h EXCEPT ![x] = n]
             g == Counted(h, c)
             e == Effect(g, {}, {})
  <2>1. n \in Nat
    BY HealthAssumption
  <2>2. g \in Health /\ ~Reaches(h, g)
    BY <1>2, <2>1, CountedIsHealth, CountedSpares
  <2> HIDE DEF g
  <2>3. e.health = g /\ e.open = {}
    BY DEF Effect
  <2> HIDE DEF e
  <2>4. QED
    BY <1>6, <2>2, <2>3 DEF e, g
<1>10. QED
  BY <1>3, <1>5, <1>7, <1>8, <1>9 DEF Next, Fill, vars

\* Nobody's Dying and Doomed reach the threshold together while the participant
\* lives, except by a command that corrects a condition, lowers the threshold at
\* once or is told a higher one (condition_events.rs, rules/hp_events.rs).
THEOREM TheThresholdIsKept == Spec => NobodyOutlivesTheThreshold
<1>1. Meaning /\ TypeOK /\ [Next]_vars =>
        [\A p \in Participants :
           Reaches(saved.health[p], saved'.health[p]) =>
             \E r \in saved'.receipts \ saved.receipts :
               Body[r].who = p /\ Excepts(r, saved.health[p])]_vars
  BY StepSpares
<1>2. QED
  BY <1>1, MeaningHolds, TypesHold, PTL DEF Spec, NobodyOutlivesTheThreshold
=============================================================================
