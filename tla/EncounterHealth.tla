---------------------------- MODULE EncounterHealth ----------------------------
(***************************************************************************)
(* Commands about the hit points of a saved encounter: an amount of damage *)
(* or healing, the decision that damage leaves open when its facts are not *)
(* known, and the life settings of a participant                           *)
(* (atlas-app-service/src/encounters/hp_events.rs, condition_events.rs and *)
(* event_execution.rs).                                                    *)
(*                                                                         *)
(* A command looks for its receipt in one session, reads and plans in      *)
(* others, and commits its plan in one immediate transaction (Workspace),  *)
(* so anything can happen in between.  The same write deletes the          *)
(* decisions that it made obsolete.                                        *)
(***************************************************************************)
EXTENDS HitPointRules

CONSTANTS
  Order,        \* of initiative
  Linked,       \* participants of a record: their sources must be prepared
  Start,        \* the health of each participant when the encounter begins
  Threads,      \* of the service
  Requests,     \* bodies that clients submit, and submit again
  Body,         \* kind, who, amount, facts; and for life settings mortality,
                \* tracking, threshold and the facts of a knockout; for
                \* a condition its counter and value, and whether it applies
  Others,       \* edits of other clients that an instance explores, and of whom
  Values,       \* those they give to the counters
  Together,     \* bound of the model: sets of bodies filled in one behaviour
  MaxRevision   \* bound of the model: writes of the encounter

Kinds == {"damage", "heal", "apply", "keep", "life", "condition"}

Counters == {"dying", "wounded", "doomed"}

ASSUME HealthAssumption ==
  /\ Order \in Seq(Participants) /\ IsInjective(Order) /\ ToSet(Order) = Participants
  /\ Linked \subseteq Participants /\ Start \in [Participants -> Health]
  /\ Requests # {}
  /\ \A r \in Requests :
       LET b == Body[r]
       IN  /\ b.kind \in Kinds /\ b.who \in Participants /\ b.facts \in Facts
           /\ b.kind \in {"damage", "heal"} => b.amount \in Nat
           /\ b.kind = "life" =>
                /\ b.tracking \in BOOLEAN /\ b.knockout \subseteq Facts
                /\ b.threshold \subseteq Thresholds
           /\ b.kind = "condition" =>
                b.counter \in Counters /\ b.value \in Nat /\ b.applies \in BOOLEAN
  /\ Others \subseteq ({"damage", "hp", "temp"} \cup Counters) \X Participants
  /\ Values \subseteq Nat /\ Together \subseteq SUBSET Requests /\ MaxRevision \in Nat

VARIABLES
  saved,    \* the rows of the encounter
  asked,    \* what each body expects, once it is filled
  pc,       \* where each thread is
  request,  \* whose body it works on
  view      \* what it read and planned

threads == <<pc, request, view>>
vars == <<saved, asked, threads>>

\* Whose request an idle thread holds does not matter.
Nobody == CHOOSE r \in Requests : TRUE

Keys == 0..MaxRevision
Decisions ==
  [key : Keys, slot : {"lifecycle", "placement"}, who : Participants, before : 0..MaxHp,
   after : 0..MaxHp, dying : Nat, wounded : Nat, doomed : Nat, facts : Facts]

\* A participant carries the revision of the encounter in which it changed last.
Saved ==
  [revision : 0..MaxRevision, health : [Participants -> Health],
   changed : [Participants -> 0..MaxRevision], order : Seq(Participants),
   pending : SUBSET Decisions, receipts : SUBSET Requests]

TypeOK ==
  /\ saved \in Saved
  /\ pc \in [Threads -> {"idle", "recovering", "reading", "listing", "committing"}]
  /\ request \in [Threads -> Requests]

-----------------------------------------------------------------------------
(* The write of a plan.                                                    *)

Counts(h, d) == h.dying = d.dying /\ h.wounded = d.wounded /\ h.doomed = d.doomed

\* pending_is_current; counters that cannot be known do not make it obsolete.
Current(h, d, known) ==
  /\ h.tracking /\ ~h.dead /\ h.hp = d.after
  /\ d.slot = "lifecycle" /\ known => Counts(h, d)

\* Mutant: an exact correction of hit points retires no decision.
RetiredByEvents(s, known) ==
  IF known = {} THEN s
  ELSE [s EXCEPT !.pending = {d \in @ :
    Current(s.health[d.who], d, d.who \in known \/ d.who \notin Linked)}]

\* retire_stale_hp_decisions, with the participants whose sources are prepared.
Retired(s, known) ==
  [s EXCEPT !.pending = {d \in @ :
    Current(s.health[d.who], d, d.who \in known \/ d.who \notin Linked)}]

\* The plan of a command about p: its effect, the decisions it settles, whether
\* the participant itself is written, and whose sources are known.
Plan(p, e, settled, writes, known) ==
  [who |-> p, effect |-> e, settled |-> settled, writes |-> writes, known |-> known]

\* Initiative numbers are given anew to those whose place changed.
Shifted(old, new) == {q \in Participants : \E i \in DOMAIN old : old[i] = q /\ new[i] # q}

Written(s, plan) ==
  LET p == plan.who
      e == plan.effect
      order == Moved(s.order, p, e.before)
      bumped == (IF plan.writes \/ e.before \ {p} # {} THEN {p} ELSE {}) \cup Shifted(s.order, order)
      opened == {[key |-> s.revision + 1, slot |-> n.slot, who |-> n.who, before |-> n.before,
                  after |-> n.after, dying |-> n.dying, wounded |-> n.wounded,
                  doomed |-> n.doomed, facts |-> n.facts] : n \in e.open}
  IN  Retired(
        [revision |-> s.revision + 1, health |-> [s.health EXCEPT ![p] = e.health],
         changed |-> [q \in Participants |-> IF q \in bumped THEN s.revision + 1 ELSE s.changed[q]],
         order |-> order, receipts |-> s.receipts,
         pending |-> {d \in s.pending \cup opened : d.key \notin plan.settled}],
        plan.known)

-----------------------------------------------------------------------------
Init ==
  /\ saved = [revision |-> 0, health |-> Start, changed |-> [p \in Participants |-> 0],
              order |-> Order, pending |-> {}, receipts |-> {}]
  /\ asked = [r \in Requests |-> {}]
  /\ pc = [t \in Threads |-> "idle"] /\ request = [t \in Threads |-> Nobody]
  /\ view = [t \in Threads |-> {}]

\* A client fills a body once, from the participant, the encounter and the
\* decisions it sees, and submits it any number of times.
Fill(r) ==
  LET b == Body[r]
      about == {d.key : d \in {d \in saved.pending : d.who = b.who}}
  IN  /\ asked[r] = {}
      /\ {q \in Requests : asked[q] # {}} \cup {r} \in Together
      /\ \E key \in IF b.kind \in {"apply", "keep"} THEN about ELSE {0} :
           asked' = [asked EXCEPT ![r] =
             {[revision |-> saved.revision, changed |-> saved.changed[b.who], key |-> key]}]
      /\ UNCHANGED <<saved, threads>>

Begin(t) ==
  /\ pc[t] = "idle" /\ pc' = [pc EXCEPT ![t] = "recovering"]
  /\ \E r \in Requests : asked[r] # {} /\ request' = [request EXCEPT ![t] = r]
  /\ UNCHANGED <<saved, asked, view>>

Goto(t, where) == pc' = [pc EXCEPT ![t] = where] /\ UNCHANGED <<saved, asked, request>>

\* The client gets an answer, or the connection is lost and it gets none.
Answer(t) ==
  /\ pc' = [pc EXCEPT ![t] = "idle"] /\ request' = [request EXCEPT ![t] = Nobody]
  /\ view' = [view EXCEPT ![t] = {}] /\ UNCHANGED asked

\* Recovered, stale, refused or failed.
Unwritten(t) == Answer(t) /\ UNCHANGED saved

\* recover, in a session of its own.
Recover(t) ==
  /\ pc[t] = "recovering"
  /\ IF request[t] \in saved.receipts THEN Unwritten(t)
     ELSE Goto(t, "reading") /\ UNCHANGED view

\* The write expects the encounter at this revision.
Planned(t, at, plan) == view' = [view EXCEPT ![t] = {[at |-> at, plan |-> plan]}]

\* record_hp_amount: the client's revision of the participant, and the
\* encounter of the snapshot.
ReadAmount(t) ==
  LET r == request[t] b == Body[r] p == b.who h == saved.health[p]
      e == IF b.kind = "damage" THEN Damage(p, h, b.amount, b.facts)
           ELSE Effect(Heal(h, b.amount), {}, {})
  IN  /\ pc[t] = "reading" /\ b.kind \in {"damage", "heal"}
      /\ \E a \in asked[r] :
           IF saved.changed[p] # a.changed THEN Unwritten(t)
           ELSE /\ Planned(t, saved.revision, Plan(p, e, {}, TRUE, {p}))
                /\ Goto(t, "committing")

\* resolve_encounter_hp_lifecycle: the encounter is the one the client saw.
ReadDecision(t) ==
  LET r == request[t] b == Body[r] h == saved.health[b.who] IN
  /\ pc[t] = "reading" /\ b.kind \in {"apply", "keep"}
  /\ \E a \in asked[r] :
       LET ds == {d \in saved.pending : d.key = a.key /\ d.who = b.who}
           fit == {d \in ds : Current(h, d, TRUE) /\ Resolvable(h, d, b.facts)}
       IN  \/ b.kind = "apply" /\ \E d \in fit :
                /\ Planned(t, a.revision,
                     Plan(b.who, Resolve(h, d, b.facts), {a.key}, d.slot = "lifecycle", {b.who}))
                /\ Goto(t, "committing")
           \/ b.kind = "keep" /\ ds # {}
                /\ Planned(t, a.revision, Plan(b.who, Effect(h, {}, {}), {a.key}, FALSE, {}))
                /\ Goto(t, "committing")
           \/ (IF b.kind = "apply" THEN fit ELSE ds) = {} /\ Unwritten(t)

\* set_encounter_life_settings, which lists the decisions in another session.
ReadLife(t) ==
  LET r == request[t] b == Body[r] p == b.who h == saved.health[p] IN
  /\ pc[t] = "reading" /\ b.kind = "life"
  /\ \E a \in asked[r] :
       CASE saved.revision # a.revision -> Unwritten(t)
         [] saved.revision = a.revision /\ ~LifeAllowed(h, b) -> Unwritten(t)
         [] OTHER ->
              /\ Planned(t, a.revision, Plan(p, Life(p, h, b), {}, TRUE, {}))
              /\ Goto(t, IF LifeDecides(h, b) THEN "listing" ELSE "committing")

\* prepare_add, prepare_update and commit_condition_remove.
ReadCondition(t) ==
  LET r == request[t] b == Body[r] p == b.who h == saved.health[p]
      fatal == b.applies /\ Fatal(h, [h EXCEPT ![b.counter] = b.value])
  IN  /\ pc[t] = "reading" /\ b.kind = "condition"
      /\ \E a \in asked[r] :
           IF saved.revision = a.revision /\ ConditionAllowed(h, b)
             THEN /\ Planned(t, a.revision,
                       Plan(p, Effect(Condition(h, b), {}, {}), {}, fatal, {p}))
                  /\ Goto(t, "committing")
             ELSE Unwritten(t)

List(t) ==
  /\ pc[t] = "listing"
  /\ view' = [view EXCEPT ![t] =
       {[v EXCEPT !.plan.settled = {d.key : d \in {d \in saved.pending : d.who = v.plan.who}}] :
          v \in view[t]}]
  /\ Goto(t, "committing")

\* Mutant: the encounter may have changed since the plan.
AnyEncounter(v) == TRUE

SameEncounter(v) == saved.revision = v.at

\* The client's own guard, repeated in the write, and the one of the plan.
SameParticipant(r) ==
  Body[r].kind \in {"damage", "heal"} => \A a \in asked[r] : saved.changed[Body[r].who] = a.changed

\* EncounterEvent::commit
Commit(t) ==
  /\ pc[t] = "committing"
  /\ LET r == request[t]
     IN  \E v \in view[t] :
           CASE r \in saved.receipts -> Unwritten(t)
             [] r \notin saved.receipts /\ ~(SameParticipant(r) /\ SameEncounter(v)) ->
                  Unwritten(t)
             [] OTHER ->
                  /\ saved.revision < MaxRevision
                  /\ saved' = [Written(saved, v.plan) EXCEPT !.receipts = @ \cup {r}]
                  /\ Answer(t)

\* A session is refused, the reference changed or the thread is cancelled.
Fails(t) ==
  /\ pc[t] \in {"recovering", "reading", "listing", "committing"}
  /\ Unwritten(t)

-----------------------------------------------------------------------------
(* Other clients, each in one step.                                        *)

Edited(what, plan) ==
  /\ <<what, plan.who>> \in Others /\ saved.revision < MaxRevision
  /\ saved' = Written(saved, plan)
  /\ UNCHANGED <<asked, threads>>

\* Damage whose facts are not known, from a client that sees the participant.
DamageElsewhere ==
  \E p \in Participants :
    Edited("damage", Plan(p, Damage(p, saved.health[p], 1, NoFacts), {}, TRUE, {p}))

\* apply_encounter_hp_action: an exact correction, which has no consequences.
SetHitPoints ==
  \E p \in Participants, x \in {"hp", "temp"}, n \in 0..MaxHp :
    Edited(x, Plan(p, Effect([saved.health[p] EXCEPT ![x] = n], {}, {}), {}, TRUE, {}))

\* A condition is added, changed or removed, and that takes effect.
SetCounter ==
  \E p \in Participants, x \in Counters, n \in Values :
    LET h == saved.health[p]
        c == [h EXCEPT ![x] = n]
    IN  /\ h[x] # n
        /\ Edited(x, Plan(p, Effect(Counted(h, c), {}, {}), {}, Fatal(h, c), {p}))

Step(t) ==
  \/ Begin(t) \/ Recover(t) \/ ReadAmount(t) \/ ReadDecision(t) \/ ReadLife(t)
  \/ ReadCondition(t) \/ List(t)
  \/ Commit(t) \/ Fails(t)

Next ==
  (\E r \in Requests : Fill(r)) \/ (\E t \in Threads : Step(t))
  \/ DamageElsewhere \/ SetHitPoints \/ SetCounter

Spec == Init /\ [][Next]_vars

-----------------------------------------------------------------------------
\* Every command takes effect at once and on the encounter as it is, although
\* it was planned on an earlier one, and at most once, although it is submitted
\* again; and comparing recorded values keeps a decision open exactly as long as
\* nothing else happens to its participant (ADR 0048, ADR 0055).
Promise == INSTANCE Knockouts WITH
  health <- saved.health, order <- saved.order, done <- saved.receipts,
  writes <- saved.revision,
  open <- {[key |-> d.key, slot |-> d.slot, who |-> d.who, before |-> d.before,
            facts |-> d.facts] : d \in saved.pending}

ImplementsKnockouts == Promise!HSpec

\* ADR 0055:229-232: events and direct edits retire decisions in the write that
\* invalidates them, so that returning to 0 hit points revives no old knockout.
DecisionsAreCurrent == \A d \in saved.pending : Current(saved.health[d.who], d, TRUE)

\* Dying or Doomed grows, and together they reach the threshold.
Reaches(h, g) ==
  (g.dying > h.dying \/ g.doomed > h.doomed) /\ g.dying + g.doomed >= g.threshold

\* The facts that r tells: its own, those of the knockout that life settings begin,
\* and those recorded with the decisions that an answer can be about.
Told(r) ==
  LET b == Body[r]
  IN  {b.facts} \cup (IF b.kind = "life" THEN b.knockout ELSE {})
      \cup (IF b.kind = "apply" THEN {d.facts : d \in {d \in saved.pending : d.who = b.who}}
            ELSE {})

\* What a client may say for a participant of health h: a correction, settings
\* that lower the threshold at once, an event that is told a higher one
\* (condition_events.rs:102-109, 566 and rules/hp_events.rs:329-331).
Excepts(r, h) ==
  LET b == Body[r]
  IN  \/ b.kind = "condition" /\ ~b.applies
      \/ b.kind = "life" /\ \E n \in b.threshold : n < h.threshold
      \/ \E f \in Told(r) : \E n \in f.threshold : n > h.threshold

\* Dying and Doomed never grow together to the threshold of a participant, in
\* whatever order damage, a decision planned on earlier rows, Wounded, Doomed and
\* the settings come: who would reach it dies, which clears both.  Only a command
\* that the code excepts leaves somebody there.
NobodyOutlivesTheThreshold ==
  [][\A p \in Participants :
       Reaches(saved.health[p], saved'.health[p]) =>
         \E r \in saved'.receipts \ saved.receipts :
           Body[r].who = p /\ Excepts(r, saved.health[p])]_vars
=============================================================================
