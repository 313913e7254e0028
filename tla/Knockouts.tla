------------------------------- MODULE Knockouts -------------------------------
(***************************************************************************)
(* What the commands about hit points promise: each takes effect at once,  *)
(* on the encounter as it is, at most once, and what it leaves undecided   *)
(* stays open exactly as long as nothing else happens to the participant.  *)
(* A decision records nothing of the state it was made in: that the        *)
(* comparison with such a record amounts to this is for EncounterHealth to *)
(* show.                                                                   *)
(***************************************************************************)
EXTENDS HitPointRules

CONSTANTS
  Requests, Body,  \* see EncounterHealth
  Counters, Values \* and what clients set the counters to

VARIABLES
  health, order,
  open,   \* decisions
  done,   \* requests that took effect
  writes  \* how many there were; a decision is known by the write that opened it

hvars == <<health, order, open, done, writes>>

Essence(k, d) ==
  [key |-> k, slot |-> d.slot, who |-> d.who, before |-> d.before, facts |-> d.facts]

\* Nothing happened to the participant that the decision is about.
Lasts(d) ==
  LET h == health[d.who] g == health'[d.who]
      same == IF d.slot = "lifecycle" THEN {"hp", "dying", "wounded", "doomed"} ELSE {"hp"}
  IN  g.tracking /\ ~g.dead /\ \A x \in same : g[x] = h[x]

\* What e does to p, with the decisions that it settles.
Do(p, e, settled) ==
  /\ health' = [health EXCEPT ![p] = e.health]
  /\ order' = Moved(order, p, e.before)
  /\ open' = {d \in open \ settled : Lasts(d)}
               \cup IF e.health.tracking /\ ~e.health.dead
                     THEN {Essence(writes', d) : d \in e.open} ELSE {}

About(p) == {d \in open : d.who = p}

Request(r) ==
  LET b == Body[r] h == health[b.who] f == b.facts
  IN  /\ r \notin done /\ done' = done \cup {r}
      /\ \/ b.kind = "damage" /\ Do(b.who, Damage(b.who, h, b.amount, f), {})
         \/ b.kind = "heal" /\ Do(b.who, Effect(Heal(h, b.amount), {}, {}), {})
         \/ b.kind = "apply" /\ \E d \in About(b.who) :
              Resolvable(h, d, f) /\ Do(b.who, Resolve(h, d, f), {d})
         \/ b.kind = "keep" /\ \E d \in About(b.who) : Do(b.who, Effect(h, {}, {}), {d})
         \/ b.kind = "life" /\ LifeAllowed(h, b)
              /\ Do(b.who, Life(b.who, h, b), IF LifeDecides(h, b) THEN About(b.who) ELSE {})
         \/ b.kind = "condition" /\ ConditionAllowed(h, b)
              /\ Do(b.who, Effect(Condition(h, b), {}, {}), {})

\* A client does damage, corrects hit points or sets a counter.
Edit ==
  /\ \E p \in Participants :
       \/ Do(p, Damage(p, health[p], 1, NoFacts), {})
       \/ \E n \in 0..MaxHp, x \in {"hp", "temp"} :
            Do(p, Effect([health[p] EXCEPT ![x] = n], {}, {}), {})
       \/ \E n \in Values, x \in Counters :
            Do(p, Effect(Counted(health[p], [health[p] EXCEPT ![x] = n]), {}, {}), {})
  /\ UNCHANGED done

HInit ==
  /\ health \in [Participants -> Health] /\ order \in Seq(Participants)
  /\ open = {} /\ done = {} /\ writes = 0

HNext == writes' = writes + 1 /\ ((\E r \in Requests : Request(r)) \/ Edit)

HSpec == HInit /\ [][HNext]_hvars
=============================================================================
