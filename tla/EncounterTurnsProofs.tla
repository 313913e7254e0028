------------------------ MODULE EncounterTurnsProofs ------------------------
(***************************************************************************)
(* What holds of the encounters of module EncounterTurns, for any number   *)
(* of participants, threads, requests and revisions.                       *)
(*                                                                         *)
(* Every write makes a new revision, so that what a body was filled from   *)
(* is either what is saved or older (Filled), and keeps the receipts,      *)
(* which are the requests that took effect (Receipts).  A settlement is    *)
(* planned in one session and written in another; what connects them is    *)
(* the number of the boundary, which no two turns share (Bound).  So the   *)
(* claim that is saved is the one that is paid for, and it was free        *)
(* (Recorded).  The order of turns is fair because those who acted in this *)
(* round stay before the participant whose turn it is, and those who were  *)
(* eligible throughout and have not acted after it (Fair), also when       *)
(* somebody between them is removed.                                       *)
(***************************************************************************)
EXTENDS EncounterTurns, InitiativeOrderProofs, FiniteSetTheorems, WellFoundedInduction

\* A set of one element, or none.
AtMostOne(S) == \A x, y \in S : x = y

\* What an encounter that is saved always is.
Sound(s) ==
  /\ s \in Saved
  /\ IsInjective(s.roster) /\ s.current \subseteq Roster(s)
  /\ AtMostOne(s.current) /\ AtMostOne(s.outgoing)
  /\ s.boundaries <= s.revision
  /\ \A o \in s.outgoing : o.boundary <= s.boundaries

\* What a body can say, what a settlement can have seen, and the history.
Bodies == [revision : Nat, boundary : Nat]
Views == [plan : SUBSET Conditions, round : 1..MaxRound]
Played == [acted : SUBSET Participants, steady : SUBSET Participants,
           ended : SUBSET Outgoing, paid : [Claims -> Nat]]

\* The types of the variables.
Typed ==
  /\ table \in Tables /\ Sound(saved)
  /\ pc \in [Threads -> Places] /\ answer \in [Threads -> Answers]
  /\ request \in [Threads -> Requests] /\ known \in [Threads -> BOOLEAN]
  /\ asked \in [Requests -> SUBSET Bodies] /\ view \in [Threads -> SUBSET Views]
  /\ ran \in [Requests -> 0..1] /\ seen \subseteq Requests

\* A body is filled once, from what the encounter was; whose revision is the
\* current one sees the encounter as it is.
Filled ==
  /\ \A r \in Requests : AtMostOne(asked[r])
  /\ \A r \in Requests : \A a \in asked[r] :
       /\ a.revision <= saved.revision /\ a.boundary <= saved.boundaries
       /\ a.revision = saved.revision => r \in seen
  /\ \A t \in Threads : pc[t] # "idle" => asked[request[t]] # {}

\* An attempt of a request that took effect before gets no further than the receipt.
Attempt(t) ==
  /\ pc[t] # "answered" => answer[t] = "none"
  /\ answer[t] = "ok" => ran[request[t]] = 1
  /\ known[t] => /\ ran[request[t]] = 1 /\ answer[t] \in {"none", "ok", "failed"}
                 /\ pc[t] \notin {"reading", "binding", "committing"}

\* A receipt is kept of exactly the requests that took effect.
Receipts ==
  /\ \A r \in Requests : ran[r] = 1 <=> r \in saved.receipts
  /\ \A t \in Threads : Attempt(t)

\* A settlement that is about to commit took its round and its conditions from the
\* turn its reminder names, as long as that is the last turn that ended.
FromReminder(v, a, s) ==
  a.boundary # 0 =>
    \A o \in s.outgoing : o.boundary = a.boundary =>
      o.round = v.round /\ \A c \in v.plan : c.id \in o.due

Bound ==
  \A t \in Threads :
    /\ pc[t] = "reading" => Kind[request[t]] = "next"
    /\ pc[t] = "committing" /\ Kind[request[t]] = "settle" =>
         \A v \in view[t], a \in asked[request[t]] : FromReminder(v, a, saved)

\* A claim is paid for once, and while it is saved.
PaidUp(past, claims) ==
  \A c \in Claims : past.paid[c] <= 1 /\ (past.paid[c] = 1 => c \in claims)

\* The history of turns and claims: the last turn that ended is the one of the
\* reminder.
Recorded(past, s) == past \in Played /\ past.ended = s.outgoing /\ PaidUp(past, s.claims)

\* Who acted in this round comes no later than the current participant, and who
\* was eligible throughout and has not acted comes after.
Fair(past, s) ==
  /\ past.steady \subseteq Eligible(s)
  /\ s.current = {} => past.steady = {}
  /\ \A c \in s.current :
       /\ \A q \in past.acted \cap Roster(s) : Place(s, q) <= Place(s, c)
       /\ \A q \in past.steady \ past.acted : Place(s, c) < Place(s, q)

\* What does not depend on the order of turns.
Handled == Typed /\ Filled /\ Receipts /\ Bound

\* The inductive invariant.
IndInv == Handled /\ Recorded(played, saved) /\ Fair(played, saved)
-----------------------------------------------------------------------------
(* The order of turns.                                                     *)

\* Some participant comes first.
LEMMA FirstComesFirst ==
  ASSUME NEW s, IsOrder(s.roster), NEW ps, ps \subseteq Roster(s), ps # {}
  PROVE  First(s, ps) \in ps /\ \A q \in ps : Place(s, First(s, ps)) <= Place(s, q)
<1> DEFINE T == {Place(s, p) : p \in ps}
<1>1. \A p \in ps : Place(s, p) \in Nat
  BY Listed DEF Place, Roster, IsOrder
<1>2. T \subseteq Nat /\ T # {}
  BY <1>1
<1>3. PICK n \in T : \A m \in T : <<m, n>> \notin OpToRel(<, Nat)
  <2> HIDE DEF T
  <2>1. QED
    BY <1>2, NatLessThanWellFounded, WFMin
<1>4. PICK p \in ps : n = Place(s, p)
  BY <1>3
<1>5. ASSUME NEW q \in ps PROVE Place(s, p) <= Place(s, q)
  <2>1. <<Place(s, q), n>> \notin OpToRel(<, Nat)
    BY <1>3
  <2>2. ~(Place(s, q) < n)
    BY <1>1, <1>4, <2>1 DEF OpToRel
  <2>3. QED
    BY <1>1, <1>4, <2>2
<1>6. QED
  BY <1>5 DEF First

-----------------------------------------------------------------------------
(* What is written.                                                        *)

\* What every write of an encounter s leaves behind.
Writes(s, s2) ==
  /\ Sound(s2) /\ s2.revision = s.revision + 1 /\ s.boundaries <= s2.boundaries
  /\ s2.receipts = s.receipts
  /\ \A o \in s2.outgoing : o \in s.outgoing \/ o.boundary > s.boundaries

\* Who has a turn, and when, stays.
SameTurn(s, s2) == s2.current = s.current /\ s2.round = s.round /\ s2.roster = s.roster

\* There is room for another revision.
Writable(s) == Sound(s) /\ s.revision < MaxRevision

\* The fields of an encounter.
LEMMA Fields ==
  ASSUME NEW s, Sound(s)
  PROVE  /\ s.revision \in 0..MaxRevision /\ s.round \in 1..MaxRound
         /\ s.current \subseteq Roster(s) /\ AtMostOne(s.current) /\ IsOrder(s.roster)
         /\ Roster(s) \subseteq Participants
         /\ s.active \subseteq Participants /\ s.frightened \in [Participants -> SUBSET Conditions]
         /\ s.stunned \in [Participants -> 0..MaxValue] /\ s.claims \subseteq Claims
         /\ s.outgoing \subseteq Outgoing /\ AtMostOne(s.outgoing)
         /\ \A o \in s.outgoing : o.boundary <= s.boundaries
         /\ s.boundaries \in Nat /\ s.boundaries <= s.revision
         /\ s.conditions \in 0..MaxCondition
         /\ s.receipts \subseteq Requests
<1>1. s.roster \in Seq(Participants) /\ s.boundaries \in 0..MaxRevision
  BY DEF Sound, Saved, Boundaries
<1>2. ToSet(s.roster) \subseteq Participants
  BY <1>1 DEF ToSet
<1>3. QED
  BY <1>1, <1>2 DEF Sound, Saved, IsOrder, Roster

\* A record with the fields of an encounter.
IsRecord(s) ==
  s = [revision |-> s.revision, round |-> s.round, current |-> s.current,
       roster |-> s.roster, active |-> s.active, frightened |-> s.frightened,
       stunned |-> s.stunned, claims |-> s.claims, outgoing |-> s.outgoing,
       boundaries |-> s.boundaries, conditions |-> s.conditions, receipts |-> s.receipts]

\* When such a record is sound.
LEMMA Sounds ==
  ASSUME NEW s, IsRecord(s),
         s.revision \in 0..MaxRevision, s.round \in 1..MaxRound, IsOrder(s.roster),
         s.current \subseteq Roster(s), AtMostOne(s.current), s.active \subseteq Participants,
         s.frightened \in [Participants -> SUBSET Conditions],
         s.stunned \in [Participants -> 0..MaxValue], s.claims \subseteq Claims,
         s.outgoing \subseteq Outgoing, AtMostOne(s.outgoing),
         s.boundaries \in Nat, s.boundaries <= s.revision,
         \A o \in s.outgoing : o.boundary <= s.boundaries,
         s.conditions \in 0..MaxCondition, s.receipts \subseteq Requests
  PROVE  Sound(s)
<1>1. s.current \in SUBSET Participants /\ s.roster \in Seq(Participants)
  BY DEF ToSet, IsOrder, Roster
<1>2. s.boundaries \in Boundaries
  BY TurnsAssumption DEF Boundaries
<1>3. s \in Saved
  BY <1>1, <1>2 DEF IsRecord, Saved
<1>4. QED
  BY <1>3 DEF Sound, IsOrder

\* The turn after some participants among others.
LEMMA Turns ==
  ASSUME NEW s, Sound(s), NEW from, from \subseteq Roster(s), AtMostOne(from),
         NEW ps, ps \subseteq Roster(s), NEW turn, turn = TurnAmong(s, from, ps)
  PROVE  /\ turn.current \subseteq ps /\ AtMostOne(turn.current) /\ (turn.current = {} <=> ps = {})
         /\ turn.round \in {s.round, s.round + 1}
         /\ turn.round = s.round =>
              \A n \in turn.current :
                /\ \A c \in from : Place(s, c) < Place(s, n)
                /\ \A q \in ps : (\A c \in from : Place(s, c) < Place(s, q)) =>
                     Place(s, n) <= Place(s, q)
         /\ turn.round # s.round =>
              /\ from # {} /\ \A q \in ps : \E c \in from : ~(Place(s, c) < Place(s, q))
              /\ \A n \in turn.current, q \in ps : Place(s, n) <= Place(s, q)
<1> DEFINE later == {p \in ps : \A c \in from : Place(s, c) < Place(s, p)}
<1>1. IsOrder(s.roster) /\ s.round \in Nat
  BY Fields
<1>2. later \subseteq ps /\ later \subseteq Roster(s)
  OBVIOUS
<1>3. CASE ps = {}
  <2>1. turn = [current |-> {}, round |-> s.round]
    BY <1>3 DEF TurnAmong
  <2>2. QED
    BY <1>3, <2>1 DEF AtMostOne
<1>4. CASE ps # {} /\ later # {}
  <2>1. turn = [current |-> {First(s, later)}, round |-> s.round]
    BY <1>4 DEF TurnAmong
  <2>2. First(s, later) \in later /\ \A q \in later : Place(s, First(s, later)) <= Place(s, q)
    <3> HIDE DEF later
    <3>1. QED
      BY <1>1, <1>2, <1>4, FirstComesFirst
  <2>3. QED
    BY <1>1, <1>4, <2>1, <2>2 DEF AtMostOne
<1>5. CASE ps # {} /\ later = {}
  <2>1. turn = [current |-> {First(s, ps)}, round |-> s.round + 1]
    BY <1>5 DEF TurnAmong
  <2>2. First(s, ps) \in ps /\ \A q \in ps : Place(s, First(s, ps)) <= Place(s, q)
    BY <1>1, <1>5, FirstComesFirst
  <2>3. \A q \in ps : \E c \in from : ~(Place(s, c) < Place(s, q))
    BY <1>5
  <2>4. QED
    BY <1>1, <1>5, <2>1, <2>2, <2>3 DEF AtMostOne
<1>6. QED
  BY <1>3, <1>4, <1>5

\* What the start of a turn claims.
LEMMA Starts ==
  ASSUME NEW s, NEW turn, turn.current \subseteq Participants, turn.round \in 1..MaxRound
  PROVE  StartClaims(s, turn) \subseteq Claims
BY DEF StartClaims, Claim, Claims

\* The next turn.
LEMMA AdvanceWrites ==
  ASSUME NEW s, Writable(s), NextTurn(s).round <= MaxRound, NEW s2, s2 = Advance(s)
  PROVE  /\ Writes(s, s2)
         /\ s2.current = NextTurn(s).current /\ s2.round = NextTurn(s).round
         /\ s2.roster = s.roster /\ s2.active = s.active
         /\ s2.claims = s.claims \cup StartClaims(s, NextTurn(s))
<1> DEFINE turn == NextTurn(s)
           out == [boundary |-> s.boundaries + 1, participant |-> s.current, round |-> s.round,
                   next |-> turn.current, due |-> UNION {Ids(p, s) : p \in s.current}]
           stunned == [p \in Participants |->
             IF p \in turn.current
               THEN IF s.stunned[p] > Actions THEN s.stunned[p] - Actions ELSE 0
               ELSE s.stunned[p]]
<1>1. Sound(s) /\ s \in Saved /\ s.revision < MaxRevision
  BY DEF Writable, Sound
<1>2. /\ s.revision \in 0..MaxRevision /\ s.round \in 1..MaxRound
      /\ s.current \subseteq Roster(s) /\ AtMostOne(s.current) /\ IsOrder(s.roster)
      /\ Roster(s) \subseteq Participants
      /\ s.active \subseteq Participants /\ s.frightened \in [Participants -> SUBSET Conditions]
      /\ s.stunned \in [Participants -> 0..MaxValue] /\ s.claims \subseteq Claims
      /\ s.outgoing \subseteq Outgoing /\ AtMostOne(s.outgoing)
      /\ s.boundaries \in Nat /\ s.boundaries <= s.revision
      /\ s.conditions \in 0..MaxCondition
      /\ s.receipts \subseteq Requests
  BY <1>1, Fields
<1>3. Eligible(s) \subseteq Roster(s)
  BY DEF Eligible
<1>4. /\ turn.current \subseteq Roster(s) /\ AtMostOne(turn.current)
      /\ turn.round \in {s.round, s.round + 1} /\ turn.round <= MaxRound
  BY <1>1, <1>2, <1>3, Turns DEF NextTurn
<1>5. turn.round \in 1..MaxRound
  BY <1>2, <1>4, TurnsAssumption
<1> HIDE DEF turn
<1>6. stunned \in [Participants -> 0..MaxValue]
  BY <1>2, TurnsAssumption
<1>7. StartClaims(s, turn) \subseteq Claims
  BY <1>2, <1>4, <1>5, Starts
<1>8. out \in Outgoing /\ out.boundary = s.boundaries + 1
  <2>1. s.boundaries + 1 \in Boundaries
    BY <1>1, <1>2, TurnsAssumption DEF Boundaries
  <2>2. UNION {Ids(p, s) : p \in s.current} \subseteq 1..MaxCondition
    BY <1>2 DEF Ids, Conditions
  <2>3. QED
    BY <1>2, <1>4, <2>1, <2>2 DEF Outgoing
<1> HIDE DEF stunned, out
<1>9. s2 = [revision |-> s.revision + 1, round |-> turn.round, current |-> turn.current,
            roster |-> s.roster, active |-> s.active, frightened |-> s.frightened,
            stunned |-> stunned, claims |-> s.claims \cup StartClaims(s, turn),
            outgoing |-> {out}, boundaries |-> s.boundaries + 1,
            conditions |-> s.conditions, receipts |-> s.receipts]
  BY <1>1 DEF Advance, Touched, Saved, turn, out, stunned
<1>10. Sound(s2)
  <2>1. IsRecord(s2)
    BY <1>9 DEF IsRecord
  <2>2. s2.revision \in 0..MaxRevision /\ s2.boundaries \in Nat /\ s2.boundaries <= s2.revision
    BY <1>1, <1>2, <1>9, TurnsAssumption
  <2>3. /\ s2.outgoing \subseteq Outgoing /\ AtMostOne(s2.outgoing)
        /\ \A o \in s2.outgoing : o.boundary <= s2.boundaries
    BY <1>2, <1>8, <1>9 DEF AtMostOne
  <2>4. s2.claims \subseteq Claims
    BY <1>2, <1>7, <1>9
  <2>5. s2.current \subseteq Roster(s2) /\ AtMostOne(s2.current) /\ IsOrder(s2.roster)
    BY <1>2, <1>4, <1>9 DEF Roster
  <2>6. /\ s2.round \in 1..MaxRound /\ s2.active \subseteq Participants
        /\ s2.frightened \in [Participants -> SUBSET Conditions]
        /\ s2.stunned \in [Participants -> 0..MaxValue]
        /\ s2.conditions \in 0..MaxCondition /\ s2.receipts \subseteq Requests
    BY <1>2, <1>5, <1>6, <1>9
  <2>7. QED
    BY <2>1, <2>2, <2>3, <2>4, <2>5, <2>6, Sounds
<1>11. Writes(s, s2)
  BY <1>2, <1>8, <1>9, <1>10 DEF Writes
<1>12. QED
  BY <1>9, <1>11 DEF turn

\* A write that ends no turn.
LEMMA Rewrites ==
  ASSUME NEW s, Writable(s), NEW s2, IsRecord(s2),
         s2.revision = s.revision + 1, s2.boundaries = s.boundaries, s2.receipts = s.receipts,
         s2.outgoing \subseteq s.outgoing, s2.conditions \in 0..MaxCondition,
         s2.round \in 1..MaxRound, IsOrder(s2.roster),
         s2.current \subseteq Roster(s2), AtMostOne(s2.current), s2.active \subseteq Participants,
         s2.frightened \in [Participants -> SUBSET Conditions],
         s2.stunned \in [Participants -> 0..MaxValue], s2.claims \subseteq Claims
  PROVE  Writes(s, s2)
<1>1. Sound(s) /\ s.revision < MaxRevision
  BY DEF Writable
<1>2. /\ s.revision \in 0..MaxRevision /\ s.outgoing \subseteq Outgoing /\ AtMostOne(s.outgoing)
      /\ s.boundaries \in Nat /\ s.boundaries <= s.revision
      /\ \A o \in s.outgoing : o.boundary <= s.boundaries
      /\ s.receipts \subseteq Requests
  BY <1>1, Fields
<1>3. /\ s2.revision \in 0..MaxRevision /\ s2.boundaries \in Nat /\ s2.boundaries <= s2.revision
  BY <1>1, <1>2, TurnsAssumption
<1>4. /\ s2.outgoing \subseteq Outgoing /\ AtMostOne(s2.outgoing)
      /\ \A o \in s2.outgoing : o.boundary <= s2.boundaries
  BY <1>2 DEF AtMostOne
<1>5. Sound(s2)
  BY <1>2, <1>3, <1>4, Sounds
<1>6. QED
  BY <1>2, <1>5 DEF Writes

\* Only the conditions of a plan are taken from a participant.
Spares(s, s2, p, plan) == \A c \in s.frightened[p] : c \notin s2.frightened[p] => c \in plan

\* The recovery of a participant at the end of a turn.
LEMMA SettleWrites ==
  ASSUME NEW s, Writable(s), NEW p \in Participants, NEW plan \in SUBSET Conditions,
         NEW r \in 1..MaxRound, NEW s2, s2 = Settle(s, p, plan, r)
  PROVE  /\ Writes(s, s2) /\ SameTurn(s, s2) /\ s2.active = s.active
         /\ s2.outgoing = s.outgoing
         /\ s2.claims = s.claims \cup {Claim(p, r, "end")}
         /\ Spares(s, s2, p, plan)
<1> DEFINE rest == (s.frightened[p] \ plan) \cup UNION {Reduced(c) : c \in plan}
           frightened == [s.frightened EXCEPT ![p] = rest]
<1>1. Sound(s) /\ s \in Saved
  BY DEF Writable, Sound
<1>2. /\ s.round \in 1..MaxRound /\ s.current \subseteq Roster(s) /\ AtMostOne(s.current)
      /\ IsOrder(s.roster) /\ s.active \subseteq Participants
      /\ s.frightened \in [Participants -> SUBSET Conditions]
      /\ s.stunned \in [Participants -> 0..MaxValue] /\ s.claims \subseteq Claims
      /\ s.conditions \in 0..MaxCondition
  BY <1>1, Fields
<1>3. rest \subseteq Conditions
  <2>1. ASSUME NEW c \in plan PROVE Reduced(c) \subseteq Conditions
    BY TurnsAssumption DEF Reduced, Conditions
  <2>2. QED
    BY <1>2, <2>1
<1> HIDE DEF rest
<1>4. frightened \in [Participants -> SUBSET Conditions] /\ frightened[p] = rest
  BY <1>2, <1>3
<1>5. Claim(p, r, "end") \in Claims
  BY DEF Claim, Claims
<1>6. s2 = [revision |-> s.revision + 1, round |-> s.round, current |-> s.current,
            roster |-> s.roster, active |-> s.active, frightened |-> frightened,
            stunned |-> s.stunned, claims |-> s.claims \cup {Claim(p, r, "end")},
            outgoing |-> s.outgoing, boundaries |-> s.boundaries,
            conditions |-> s.conditions, receipts |-> s.receipts]
  <2>1. [s EXCEPT !.frightened[p] = (@ \ plan) \cup UNION {Reduced(c) : c \in plan},
                  !.claims = @ \cup {Claim(p, r, "end")}]
        = [s EXCEPT !.frightened = frightened, !.claims = s.claims \cup {Claim(p, r, "end")}]
    BY <1>1 DEF Saved, rest
  <2> HIDE DEF frightened
  <2>2. QED
    BY <1>1, <2>1 DEF Settle, Touched, Saved
<1> HIDE DEF frightened
<1>7. IsRecord(s2)
  BY <1>6 DEF IsRecord
<1>8. Writes(s, s2)
  <2>1. s2.claims \subseteq Claims
    BY <1>2, <1>5, <1>6
  <2>2. s2.current \subseteq Roster(s2) /\ AtMostOne(s2.current) /\ IsOrder(s2.roster)
    BY <1>2, <1>6 DEF Roster
  <2>3. QED
    BY <1>2, <1>4, <1>6, <1>7, <2>1, <2>2, Rewrites
<1>9. QED
  BY <1>4, <1>6, <1>8 DEF SameTurn, Spares, rest

\* The turn is given to a participant.
LEMMA SelectTurnWrites ==
  ASSUME NEW s, Writable(s), NEW p \in Roster(s), NEW s2, s2 = SelectTurn(s, p)
  PROVE  Writes(s, s2) /\ s2.round = s.round /\ s2.outgoing = s.outgoing /\ s2.claims = s.claims
<1>1. Sound(s) /\ s \in Saved
  BY DEF Writable, Sound
<1>2. /\ s.round \in 1..MaxRound /\ IsOrder(s.roster) /\ s.active \subseteq Participants
      /\ s.frightened \in [Participants -> SUBSET Conditions]
      /\ s.stunned \in [Participants -> 0..MaxValue] /\ s.claims \subseteq Claims
      /\ s.conditions \in 0..MaxCondition
  BY <1>1, Fields
<1>3. s2 = [revision |-> s.revision + 1, round |-> s.round, current |-> {p},
            roster |-> s.roster, active |-> s.active, frightened |-> s.frightened,
            stunned |-> s.stunned, claims |-> s.claims,
            outgoing |-> s.outgoing, boundaries |-> s.boundaries,
            conditions |-> s.conditions, receipts |-> s.receipts]
  BY <1>1 DEF SelectTurn, Touched, Saved
<1>4. IsRecord(s2)
  BY <1>3 DEF IsRecord
<1>5. s2.current \subseteq Roster(s2) /\ AtMostOne(s2.current)
  BY <1>3 DEF Roster, AtMostOne
<1>6. Writes(s, s2)
  BY <1>2, <1>3, <1>4, <1>5, Rewrites
<1>7. QED
  BY <1>3, <1>6

\* A participant is removed.
LEMMA WithoutWrites ==
  ASSUME NEW s, Writable(s), NEW p \in Roster(s), NEW s2, s2 = Without(s, p),
         s2.round <= MaxRound
  PROVE  /\ Writes(s, s2) /\ s2.outgoing = s.outgoing
         /\ s2.roster = RemoveAt(s.roster, Place(s, p)) /\ s2.active = s.active \ {p}
         /\ s2.claims = {c \in s.claims : c.participant # p}
         /\ p \in s.current => /\ s2.current = TurnAfterRemoved(s, p).current
                               /\ s2.round = TurnAfterRemoved(s, p).round
         /\ p \notin s.current => s2.current = s.current /\ s2.round = s.round
<1> DEFINE turn == IF p \in s.current THEN TurnAfterRemoved(s, p)
                   ELSE [current |-> s.current, round |-> s.round]
           frightened == [s.frightened EXCEPT ![p] = {}]
           stunned == [s.stunned EXCEPT ![p] = 0]
<1>1. Sound(s) /\ s \in Saved
  BY DEF Writable, Sound
<1>2. /\ s.round \in 1..MaxRound /\ s.current \subseteq Roster(s) /\ AtMostOne(s.current)
      /\ IsOrder(s.roster) /\ Roster(s) \subseteq Participants /\ s.active \subseteq Participants
      /\ s.frightened \in [Participants -> SUBSET Conditions]
      /\ s.stunned \in [Participants -> 0..MaxValue] /\ s.claims \subseteq Claims
      /\ s.conditions \in 0..MaxCondition
  BY <1>1, Fields
<1>3. /\ turn.current \subseteq Roster(s) \ {p} /\ AtMostOne(turn.current)
      /\ turn.round \in {s.round, s.round + 1}
  <2>1. CASE p \in s.current
    <3>1. {p} \subseteq Roster(s) /\ AtMostOne({p}) /\ Eligible(s) \ {p} \subseteq Roster(s) \ {p}
      BY DEF AtMostOne, Eligible
    <3>2. QED
      BY <1>1, <2>1, <3>1, Turns DEF TurnAfterRemoved
  <2>2. CASE p \notin s.current
    BY <1>2, <2>2
  <2>3. QED
    BY <2>1, <2>2
<1> HIDE DEF turn
<1>4. /\ frightened \in [Participants -> SUBSET Conditions]
      /\ stunned \in [Participants -> 0..MaxValue]
  BY <1>2, TurnsAssumption
<1>5. s2 = [revision |-> s.revision + 1, round |-> turn.round, current |-> turn.current,
            roster |-> RemoveAt(s.roster, Place(s, p)), active |-> s.active \ {p},
            frightened |-> frightened,
            stunned |-> stunned, claims |-> {c \in s.claims : c.participant # p},
            outgoing |-> s.outgoing, boundaries |-> s.boundaries,
            conditions |-> s.conditions, receipts |-> s.receipts]
  BY <1>1 DEF Without, Touched, Saved, turn
<1> HIDE DEF frightened, stunned
<1>6. IsRecord(s2)
  BY <1>5 DEF IsRecord
<1>7. IsOrder(s2.roster) /\ Roster(s2) = Roster(s) \ {p}
  BY <1>2, <1>5, Removed DEF Place, Roster
<1>8. s2.current \subseteq Roster(s2) /\ AtMostOne(s2.current) /\ s2.round \in 1..MaxRound
  BY <1>2, <1>3, <1>5, <1>7, TurnsAssumption
<1>9. Writes(s, s2)
  BY <1>2, <1>4, <1>5, <1>6, <1>7, <1>8, Rewrites
<1>10. QED
  BY <1>5, <1>9 DEF turn

\* A rest ends the turn, retires its reminder and releases every claim.
LEMMA EndTurnWrites ==
  ASSUME NEW s, Writable(s), NEW s2, s2 = EndTurn(s)
  PROVE  /\ Writes(s, s2) /\ s2.outgoing = {} /\ s2.claims = {} /\ s2.current = {}
         /\ s2.round = s.round
<1>1. Sound(s) /\ s \in Saved
  BY DEF Writable, Sound
<1>2. /\ s.round \in 1..MaxRound /\ IsOrder(s.roster) /\ s.active \subseteq Participants
      /\ s.frightened \in [Participants -> SUBSET Conditions]
      /\ s.stunned \in [Participants -> 0..MaxValue]
      /\ s.conditions \in 0..MaxCondition
  BY <1>1, Fields
<1>3. s2 = [revision |-> s.revision + 1, round |-> s.round, current |-> {},
            roster |-> s.roster, active |-> s.active, frightened |-> s.frightened,
            stunned |-> s.stunned, claims |-> {},
            outgoing |-> {}, boundaries |-> s.boundaries,
            conditions |-> s.conditions, receipts |-> s.receipts]
  BY <1>1 DEF EndTurn, Touched, Saved
<1>4. IsRecord(s2)
  BY <1>3 DEF IsRecord
<1>5. s2.current \subseteq Roster(s2) /\ AtMostOne(s2.current) /\ s2.outgoing \subseteq s.outgoing
  BY <1>3 DEF Roster, AtMostOne
<1>6. Writes(s, s2)
  BY <1>2, <1>3, <1>4, <1>5, Rewrites
<1>7. QED
  BY <1>3, <1>6

\* The baseline of some participants is about what they are, not about turns.
LEMMA BaselineWrites ==
  ASSUME NEW s, NEW s1, Writes(s, s1), NEW ps, ps \subseteq Participants,
         NEW s2, s2 = Baseline(s1, ps)
  PROVE  /\ Writes(s, s2) /\ SameTurn(s1, s2) /\ s2 \in Saved
         /\ s2.active = s1.active \cup (ps \cap Roster(s1))
         /\ s2.outgoing = s1.outgoing /\ s2.claims = s1.claims
<1> DEFINE frightened == [p \in Participants |-> IF p \in ps THEN {} ELSE s1.frightened[p]]
           stunned == [p \in Participants |-> IF p \in ps THEN 0 ELSE s1.stunned[p]]
<1>1. Sound(s1) /\ s1 \in Saved
  BY DEF Writes, Sound
<1>2. /\ s1.revision \in 0..MaxRevision /\ s1.round \in 1..MaxRound
      /\ s1.current \subseteq Roster(s1) /\ AtMostOne(s1.current) /\ IsOrder(s1.roster)
      /\ Roster(s1) \subseteq Participants
      /\ s1.active \subseteq Participants /\ s1.frightened \in [Participants -> SUBSET Conditions]
      /\ s1.stunned \in [Participants -> 0..MaxValue] /\ s1.claims \subseteq Claims
      /\ s1.outgoing \subseteq Outgoing /\ AtMostOne(s1.outgoing)
      /\ \A o \in s1.outgoing : o.boundary <= s1.boundaries
      /\ s1.boundaries \in Nat /\ s1.boundaries <= s1.revision
      /\ s1.conditions \in 0..MaxCondition
      /\ s1.receipts \subseteq Requests
  BY <1>1, Fields
<1>3. /\ frightened \in [Participants -> SUBSET Conditions]
      /\ stunned \in [Participants -> 0..MaxValue]
  BY <1>2, TurnsAssumption
<1>4. s2 = [revision |-> s1.revision, round |-> s1.round, current |-> s1.current,
            roster |-> s1.roster, active |-> s1.active \cup (ps \cap Roster(s1)),
            frightened |-> frightened, stunned |-> stunned, claims |-> s1.claims,
            outgoing |-> s1.outgoing, boundaries |-> s1.boundaries,
            conditions |-> s1.conditions, receipts |-> s1.receipts]
  BY <1>1 DEF Baseline, Saved
<1> HIDE DEF frightened, stunned
<1>5. IsRecord(s2)
  BY <1>4 DEF IsRecord
<1>6. s2.active \subseteq Participants /\ s2.current \subseteq Roster(s2) /\ IsOrder(s2.roster)
  BY <1>2, <1>4 DEF Roster
<1>7. Sound(s2)
  BY <1>2, <1>3, <1>4, <1>5, <1>6, Sounds
<1>8. Writes(s, s2)
  BY <1>4, <1>7 DEF Writes
<1>9. QED
  BY <1>4, <1>7, <1>8 DEF SameTurn, Sound

\* A participant drops out or comes back.
LEMMA ToggleWrites ==
  ASSUME NEW s, Writable(s), NEW p \in Participants, NEW s2,
         s2 = Touched([s EXCEPT !.active = IF p \in @ THEN @ \ {p} ELSE @ \cup {p}])
  PROVE  /\ Writes(s, s2) /\ SameTurn(s, s2) /\ s.active \ {p} \subseteq s2.active
         /\ s2.outgoing = s.outgoing /\ s2.claims = s.claims
<1> DEFINE active == IF p \in s.active THEN s.active \ {p} ELSE s.active \cup {p}
<1>1. Sound(s) /\ s \in Saved
  BY DEF Writable, Sound
<1>2. /\ s.round \in 1..MaxRound /\ s.current \subseteq Roster(s) /\ AtMostOne(s.current)
      /\ IsOrder(s.roster) /\ Roster(s) \subseteq Participants /\ s.active \subseteq Participants
      /\ s.frightened \in [Participants -> SUBSET Conditions]
      /\ s.stunned \in [Participants -> 0..MaxValue] /\ s.claims \subseteq Claims
      /\ s.conditions \in 0..MaxCondition
  BY <1>1, Fields
<1>3. active \subseteq Participants /\ s.active \ {p} \subseteq active
  BY <1>2
<1>4. s2 = [revision |-> s.revision + 1, round |-> s.round,
            current |-> s.current, roster |-> s.roster, active |-> active,
            frightened |-> s.frightened, stunned |-> s.stunned,
            claims |-> s.claims, outgoing |-> s.outgoing,
            boundaries |-> s.boundaries, conditions |-> s.conditions,
            receipts |-> s.receipts]
  BY <1>1 DEF Touched, Saved
<1> HIDE DEF active
<1>5. IsRecord(s2)
  BY <1>4 DEF IsRecord
<1>6. s2.current \subseteq Roster(s2) /\ AtMostOne(s2.current) /\ IsOrder(s2.roster)
  BY <1>2, <1>4 DEF Roster
<1>7. Writes(s, s2)
  BY <1>2, <1>3, <1>4, <1>5, <1>6, Rewrites
<1>8. QED
  BY <1>3, <1>4, <1>7 DEF SameTurn

\* A participant comes before or after another.
LEMMA ReorderWrites ==
  ASSUME NEW s, Writable(s), NEW p \in Roster(s), NEW q \in Roster(s), p # q, NEW s2,
         NEW roster \in {Before(s.roster, p, q), After(s.roster, p, q)},
         s2 = Touched([s EXCEPT !.roster = roster])
  PROVE  /\ Writes(s, s2) /\ s2.round = s.round /\ s2.outgoing = s.outgoing
         /\ s2.claims = s.claims
<1>1. Sound(s) /\ s \in Saved
  BY DEF Writable, Sound
<1>2. /\ s.round \in 1..MaxRound /\ s.current \subseteq Roster(s) /\ AtMostOne(s.current)
      /\ IsOrder(s.roster) /\ Roster(s) \subseteq Participants /\ s.active \subseteq Participants
      /\ s.frightened \in [Participants -> SUBSET Conditions]
      /\ s.stunned \in [Participants -> 0..MaxValue] /\ s.claims \subseteq Claims
      /\ s.conditions \in 0..MaxCondition
  BY <1>1, Fields
<1>3. IsOrder(roster) /\ ToSet(roster) = Roster(s)
  BY <1>2, Reordered DEF Roster
<1>4. s2 = [revision |-> s.revision + 1, round |-> s.round,
            current |-> s.current, roster |-> roster, active |-> s.active,
            frightened |-> s.frightened, stunned |-> s.stunned,
            claims |-> s.claims, outgoing |-> s.outgoing,
            boundaries |-> s.boundaries, conditions |-> s.conditions,
            receipts |-> s.receipts]
  BY <1>1 DEF Touched, Saved
<1>5. IsRecord(s2)
  BY <1>4 DEF IsRecord
<1>6. s2.current \subseteq Roster(s2) /\ AtMostOne(s2.current) /\ IsOrder(s2.roster)
  BY <1>2, <1>3, <1>4 DEF Roster
<1>7. Writes(s, s2)
  BY <1>2, <1>3, <1>4, <1>5, <1>6, Rewrites
<1>8. QED
  BY <1>4, <1>7

\* What the conditions of a participant become.
Frightened(s, p, v) ==
  Touched([s EXCEPT !.frightened[p] = @ \cup {[id |-> s.conditions + 1, value |-> v]},
                    !.conditions = @ + 1])

Calmed(s, p, c) == Touched([s EXCEPT !.frightened[p] = @ \ {c}])

\* A participant is frightened.
LEMMA FrightenWrites ==
  ASSUME NEW s, Writable(s), NEW p \in Participants, NEW v \in 1..MaxValue,
         s.conditions < MaxCondition, NEW s2,
         s2 = Frightened(s, p, v)
  PROVE  /\ Writes(s, s2) /\ SameTurn(s, s2) /\ s2.active = s.active
         /\ s2.outgoing = s.outgoing /\ s2.claims = s.claims
<1> DEFINE new == [id |-> s.conditions + 1, value |-> v]
           frightened == [s.frightened EXCEPT ![p] = @ \cup {new}]
<1>1. Sound(s) /\ s \in Saved
  BY DEF Writable, Sound
<1>2. /\ s.round \in 1..MaxRound /\ s.current \subseteq Roster(s) /\ AtMostOne(s.current)
      /\ IsOrder(s.roster) /\ Roster(s) \subseteq Participants /\ s.active \subseteq Participants
      /\ s.frightened \in [Participants -> SUBSET Conditions]
      /\ s.stunned \in [Participants -> 0..MaxValue] /\ s.claims \subseteq Claims
      /\ s.conditions \in 0..MaxCondition
  BY <1>1, Fields
<1>3. frightened \in [Participants -> SUBSET Conditions] /\ s.conditions + 1 \in 0..MaxCondition
  BY <1>2, TurnsAssumption DEF Conditions
<1>4. s2 = [revision |-> s.revision + 1, round |-> s.round,
            current |-> s.current, roster |-> s.roster, active |-> s.active,
            frightened |-> frightened, stunned |-> s.stunned,
            claims |-> s.claims, outgoing |-> s.outgoing,
            boundaries |-> s.boundaries, conditions |-> s.conditions + 1,
            receipts |-> s.receipts]
  BY <1>1 DEF Frightened, Touched, Saved
<1> HIDE DEF frightened
<1>5. IsRecord(s2)
  BY <1>4 DEF IsRecord
<1>6. s2.current \subseteq Roster(s2) /\ AtMostOne(s2.current) /\ IsOrder(s2.roster)
  BY <1>2, <1>4 DEF Roster
<1>7. Writes(s, s2)
  BY <1>2, <1>3, <1>4, <1>5, <1>6, Rewrites
<1>8. QED
  BY <1>4, <1>7 DEF SameTurn

\* A condition is removed.
LEMMA CalmWrites ==
  ASSUME NEW s, Writable(s), NEW p \in Participants, NEW c, NEW s2,
         s2 = Calmed(s, p, c)
  PROVE  /\ Writes(s, s2) /\ SameTurn(s, s2) /\ s2.active = s.active
         /\ s2.outgoing = s.outgoing /\ s2.claims = s.claims
<1> DEFINE frightened == [s.frightened EXCEPT ![p] = @ \ {c}]
<1>1. Sound(s) /\ s \in Saved
  BY DEF Writable, Sound
<1>2. /\ s.round \in 1..MaxRound /\ s.current \subseteq Roster(s) /\ AtMostOne(s.current)
      /\ IsOrder(s.roster) /\ Roster(s) \subseteq Participants /\ s.active \subseteq Participants
      /\ s.frightened \in [Participants -> SUBSET Conditions]
      /\ s.stunned \in [Participants -> 0..MaxValue] /\ s.claims \subseteq Claims
      /\ s.conditions \in 0..MaxCondition
  BY <1>1, Fields
<1>3. frightened \in [Participants -> SUBSET Conditions]
  BY <1>2
<1>4. s2 = [revision |-> s.revision + 1, round |-> s.round,
            current |-> s.current, roster |-> s.roster, active |-> s.active,
            frightened |-> frightened, stunned |-> s.stunned,
            claims |-> s.claims, outgoing |-> s.outgoing,
            boundaries |-> s.boundaries, conditions |-> s.conditions,
            receipts |-> s.receipts]
  BY <1>1 DEF Calmed, Touched, Saved
<1> HIDE DEF frightened
<1>5. IsRecord(s2)
  BY <1>4 DEF IsRecord
<1>6. s2.current \subseteq Roster(s2) /\ AtMostOne(s2.current) /\ IsOrder(s2.roster)
  BY <1>2, <1>4 DEF Roster
<1>7. Writes(s, s2)
  BY <1>2, <1>3, <1>4, <1>5, <1>6, Rewrites
<1>8. QED
  BY <1>4, <1>7 DEF SameTurn

\* A participant is stunned.
LEMMA StunWrites ==
  ASSUME NEW s, Writable(s), NEW p \in Participants, NEW v \in 1..MaxValue, NEW s2,
         s2 = Touched([s EXCEPT !.stunned[p] = v])
  PROVE  /\ Writes(s, s2) /\ SameTurn(s, s2) /\ s2.active = s.active
         /\ s2.outgoing = s.outgoing /\ s2.claims = s.claims
<1> DEFINE stunned == [s.stunned EXCEPT ![p] = v]
<1>1. Sound(s) /\ s \in Saved
  BY DEF Writable, Sound
<1>2. /\ s.round \in 1..MaxRound /\ s.current \subseteq Roster(s) /\ AtMostOne(s.current)
      /\ IsOrder(s.roster) /\ Roster(s) \subseteq Participants /\ s.active \subseteq Participants
      /\ s.frightened \in [Participants -> SUBSET Conditions]
      /\ s.stunned \in [Participants -> 0..MaxValue] /\ s.claims \subseteq Claims
      /\ s.conditions \in 0..MaxCondition
  BY <1>1, Fields
<1>3. stunned \in [Participants -> 0..MaxValue]
  BY <1>2, TurnsAssumption
<1>4. s2 = [revision |-> s.revision + 1, round |-> s.round,
            current |-> s.current, roster |-> s.roster, active |-> s.active,
            frightened |-> s.frightened, stunned |-> stunned,
            claims |-> s.claims, outgoing |-> s.outgoing,
            boundaries |-> s.boundaries, conditions |-> s.conditions,
            receipts |-> s.receipts]
  BY <1>1 DEF Touched, Saved
<1> HIDE DEF stunned
<1>5. IsRecord(s2)
  BY <1>4 DEF IsRecord
<1>6. s2.current \subseteq Roster(s2) /\ AtMostOne(s2.current) /\ IsOrder(s2.roster)
  BY <1>2, <1>4 DEF Roster
<1>7. Writes(s, s2)
  BY <1>2, <1>3, <1>4, <1>5, <1>6, Rewrites
<1>8. QED
  BY <1>4, <1>7 DEF SameTurn

\* A participant that has not the turn is reset.
LEMMA ResetOtherWrites ==
  ASSUME NEW s, Writable(s), NEW p \in Participants, NEW s2,
         s2 = ResetOther(s, p)
  PROVE  /\ Writes(s, s2) /\ SameTurn(s, s2) /\ s.active \subseteq s2.active
         /\ s2.outgoing = {} /\ s2.claims = {c \in s.claims : c.participant # p}
<1> DEFINE active == s.active \cup ({p} \cap Roster(s))
           frightened == [q \in Participants |-> IF q \in {p} THEN {} ELSE s.frightened[q]]
           stunned == [q \in Participants |-> IF q \in {p} THEN 0 ELSE s.stunned[q]]
<1>1. Sound(s) /\ s \in Saved
  BY DEF Writable, Sound
<1>2. /\ s.round \in 1..MaxRound /\ s.current \subseteq Roster(s) /\ AtMostOne(s.current)
      /\ IsOrder(s.roster) /\ Roster(s) \subseteq Participants /\ s.active \subseteq Participants
      /\ s.frightened \in [Participants -> SUBSET Conditions]
      /\ s.stunned \in [Participants -> 0..MaxValue] /\ s.claims \subseteq Claims
      /\ s.conditions \in 0..MaxCondition
  BY <1>1, Fields
<1>3. /\ active \subseteq Participants /\ s.active \subseteq active
      /\ frightened \in [Participants -> SUBSET Conditions]
      /\ stunned \in [Participants -> 0..MaxValue]
  BY <1>2, TurnsAssumption
<1>4. s2 = [revision |-> s.revision + 1, round |-> s.round,
            current |-> s.current, roster |-> s.roster, active |-> active,
            frightened |-> frightened, stunned |-> stunned,
            claims |-> {c \in s.claims : c.participant # p}, outgoing |-> {},
            boundaries |-> s.boundaries, conditions |-> s.conditions,
            receipts |-> s.receipts]
  BY <1>1 DEF ResetOther, Baseline, Touched, Saved
<1> HIDE DEF active, frightened, stunned
<1>5. IsRecord(s2)
  BY <1>4 DEF IsRecord
<1>6. s2.current \subseteq Roster(s2) /\ AtMostOne(s2.current) /\ IsOrder(s2.roster)
  BY <1>2, <1>4 DEF Roster
<1>7. Writes(s, s2)
  BY <1>2, <1>3, <1>4, <1>5, <1>6, Rewrites
<1>8. QED
  BY <1>3, <1>4, <1>7 DEF SameTurn

\* The reset of an encounter is a rest, and the baseline of everybody in round 1.
LEMMA ResetWrites ==
  ASSUME NEW s, Writable(s), NEW s2, s2 = Reset(s)
  PROVE  /\ Writes(s, s2) /\ s2.outgoing = {} /\ s2.claims = {} /\ s2.current = {}
         /\ s2.round = 1
<1> DEFINE s1 == EndTurn(s)
           s0 == Baseline(s1, Participants)
<1>1. Writes(s, s1) /\ s1.outgoing = {} /\ s1.claims = {} /\ s1.current = {}
  BY EndTurnWrites
<1> HIDE DEF s1
<1>2. /\ Writes(s, s0) /\ SameTurn(s1, s0) /\ s0 \in Saved
      /\ s0.outgoing = s1.outgoing /\ s0.claims = s1.claims
  BY <1>1, BaselineWrites
<1>3. s2 = [s0 EXCEPT !.round = 1]
  BY DEF Reset, s1
<1> HIDE DEF s0
<1>4. Sound(s2)
  <2>1. s2 \in Saved
    <3>1. 1 \in 1..MaxRound
      BY TurnsAssumption
    <3>2. QED
      BY <1>2, <1>3, <3>1 DEF Saved
  <2>2. /\ s2.roster = s0.roster /\ s2.current = s0.current /\ s2.outgoing = s0.outgoing
        /\ s2.boundaries = s0.boundaries /\ s2.revision = s0.revision
    BY <1>2, <1>3 DEF Saved
  <2>3. QED
    BY <1>2, <2>1, <2>2 DEF Writes, Sound, Roster
<1>5. QED
  BY <1>1, <1>2, <1>3, <1>4 DEF Writes, SameTurn, Saved

-----------------------------------------------------------------------------
(* Attempts.                                                               *)

\* What an encounter begins with.
LEMMA TableFacts ==
  ASSUME table \in Tables
  PROVE  /\ IsOrder(table.order) /\ table.requests \subseteq Requests
         /\ table.revisions \in 0..MaxRevision
BY TurnsAssumption DEF Table, IsOrder

\* A receipt recovers its own request.
LEMMA OwnReceipt ==
  ASSUME NEW r
  PROVE  Recovers(r) <=> r \in saved.receipts
BY DEF Recovers, SameId

\* The attempt of a thread changes nothing of the others.
Alone(t) ==
  \A u \in Threads \ {t} :
    /\ pc'[u] = pc[u] /\ request'[u] = request[u] /\ view'[u] = view[u]
    /\ answer'[u] = answer[u] /\ known'[u] = known[u]

\* A thread that neither fills nor writes has this result.
Ends(t) ==
  /\ Typed' /\ Alone(t)
  /\ pc'[t] # "idle" => asked[request'[t]] # {}
  /\ Attempt(t)'
  /\ pc'[t] = "reading" => Kind[request'[t]] = "next"
  /\ pc'[t] = "committing" /\ Kind[request'[t]] = "settle" =>
       \A v \in view'[t], a \in asked[request'[t]] : FromReminder(v, a, saved)

\* The results of threads suffice.
LEMMA QuietKeeps ==
  ASSUME IndInv, NEW t \in Threads, UNCHANGED <<table, saved, asked, history>>, Ends(t)
  PROVE  IndInv'
<1> USE DEF IndInv, Handled, history
<1>1. Filled'
  BY DEF Filled, Ends, Alone
<1>2. Receipts'
  <2>1. ASSUME NEW u \in Threads PROVE Attempt(u)'
    <3>1. CASE u = t
      BY <3>1 DEF Ends
    <3>2. CASE u # t
      BY <3>2 DEF Ends, Alone, Receipts, Attempt
    <3>3. QED
      BY <3>1, <3>2
  <2>2. QED
    BY <2>1 DEF Receipts
<1>3. Bound'
  <2>1. ASSUME NEW u \in Threads
        PROVE  /\ pc'[u] = "reading" => Kind[request'[u]] = "next"
               /\ pc'[u] = "committing" /\ Kind[request'[u]] = "settle" =>
                    \A v \in view'[u], a \in asked'[request'[u]] : FromReminder(v, a, saved')
    <3>1. CASE u = t
      BY <3>1 DEF Ends
    <3>2. CASE u # t
      BY <3>2 DEF Ends, Alone, Bound
    <3>3. QED
      BY <3>1, <3>2
  <2>2. QED
    BY <2>1 DEF Bound
<1>4. Typed'
  BY DEF Ends
<1>5. Recorded(played', saved') /\ Fair(played', saved')
  OBVIOUS
<1>6. QED
  BY <1>1, <1>2, <1>3, <1>4, <1>5

\* A thread whose attempt ends without a write.
LEMMA RejectedEnds ==
  ASSUME IndInv, NEW t \in Threads, NEW what \in Answers, Rejected(t, what), UNCHANGED table,
         pc[t] \in Places \ {"idle", "answered"},
         what = "ok" => Recovers(request[t]),
         known[t] => what \in {"ok", "failed"}
  PROVE  IndInv'
<1> USE DEF IndInv, Handled, Rejected, Answer
<1>1. Typed'
  BY DEF Typed, Places, history
<1>2. Alone(t)
  BY DEF Typed, Alone
<1>3. Attempt(t)'
  BY OwnReceipt DEF Typed, Receipts, Attempt, history
<1>4. pc'[t] = "answered" /\ asked[request'[t]] # {}
  BY DEF Typed, Filled
<1>5. Ends(t)
  BY <1>1, <1>2, <1>3, <1>4 DEF Ends
<1>6. QED
  BY <1>5, QuietKeeps

\* A thread that goes on.
LEMMA GotoGoesOn ==
  ASSUME IndInv, NEW t \in Threads, NEW where \in Places, Goto(t, where), UNCHANGED table,
         pc[t] \in {"recovering", "reading"}, where \in {"reading", "committing"},
         Kind[request[t]] = "next", ~known[t]
  PROVE  IndInv'
<1> USE DEF IndInv, Handled, Goto
<1>1. Typed'
  BY DEF Typed, history
<1>2. Alone(t)
  BY DEF Typed, Alone
<1>3. Attempt(t)'
  BY DEF Typed, Receipts, Attempt, history
<1>4. pc'[t] = where /\ request'[t] = request[t] /\ asked[request'[t]] # {}
  BY DEF Typed, Filled
<1>5. Ends(t)
  BY <1>1, <1>2, <1>3, <1>4 DEF Ends
<1>6. QED
  BY <1>5, QuietKeeps

\* A settlement takes a view and goes on.
Looks(t, where, v) ==
  /\ pc' = [pc EXCEPT ![t] = where] /\ view' = [view EXCEPT ![t] = {v}]
  /\ UNCHANGED <<table, saved, asked, request, answer, known, history>>

\* What a settlement has seen suffices.
LEMMA LooksGoesOn ==
  ASSUME IndInv, NEW t \in Threads, NEW where \in {"binding", "committing"}, NEW v \in Views,
         Looks(t, where, v), pc[t] \in {"recovering", "binding"}, ~known[t],
         where = "committing" => \A a \in asked[request[t]] : FromReminder(v, a, saved)
  PROVE  IndInv'
<1> USE DEF IndInv, Handled, Looks
<1>1. Typed'
  BY DEF Typed, Places, history
<1>2. Alone(t)
  BY DEF Typed, Alone
<1>3. Attempt(t)'
  BY DEF Typed, Receipts, Attempt, history
<1>4. /\ pc'[t] = where /\ request'[t] = request[t] /\ asked[request'[t]] # {}
      /\ view'[t] = {v}
  BY DEF Typed, Filled
<1>5. Ends(t)
  BY <1>1, <1>2, <1>3, <1>4 DEF Ends
<1>6. QED
  BY <1>5, QuietKeeps

\* A body is filled from the encounter as it is.
LEMMA FillKeeps ==
  ASSUME IndInv, NEW r \in table.requests, Fill(r), UNCHANGED table
  PROVE  IndInv'
<1> USE DEF IndInv, Handled, attempts
<1>1. r \in Requests /\ asked[r] = {} /\ seen' = seen \cup {r}
      /\ UNCHANGED <<table, saved, attempts, ran, played>>
  BY TableFacts DEF Typed, Fill
<1>2. PICK b \in 0..saved.boundaries :
        asked' = [asked EXCEPT ![r] = {[revision |-> saved.revision, boundary |-> b]}]
  <2>1. saved.boundaries \in Nat
    BY Fields DEF Typed
  <2>2. PICK b \in IF Kind[r] = "next" THEN {0} ELSE 0..saved.boundaries :
          asked' = [asked EXCEPT ![r] = {[revision |-> saved.revision, boundary |-> b]}]
    BY DEF Fill
  <2>3. b \in 0..saved.boundaries
    BY <2>1, <2>2
  <2>4. QED
    BY <2>2, <2>3
<1>3. saved.boundaries \in Nat /\ saved.revision \in Nat
  BY Fields DEF Typed
<1>4. [revision |-> saved.revision, boundary |-> b] \in Bodies
  BY <1>3 DEF Bodies
<1>5. Typed'
  BY <1>1, <1>2, <1>4 DEF Typed
<1>6. asked'[r] = {[revision |-> saved.revision, boundary |-> b]}
      /\ \A q \in Requests \ {r} : asked'[q] = asked[q]
  BY <1>1, <1>2 DEF Typed
<1>7. \A t \in Threads : pc[t] # "idle" => request[t] # r
  BY <1>1 DEF Filled
<1>8. Filled'
  <2>1. \A q \in Requests : AtMostOne(asked'[q])
    BY <1>6 DEF Filled, AtMostOne
  <2>2. ASSUME NEW q \in Requests, NEW a \in asked'[q]
        PROVE  /\ a.revision <= saved'.revision /\ a.boundary <= saved'.boundaries
               /\ a.revision = saved'.revision => q \in seen'
    <3>1. CASE q = r
      BY <1>1, <1>3, <1>6, <2>2, <3>1
    <3>2. CASE q # r
      BY <1>1, <1>6, <2>2, <3>2 DEF Filled
    <3>3. QED
      BY <3>1, <3>2
  <2>3. \A t \in Threads : pc'[t] # "idle" => asked'[request'[t]] # {}
    BY <1>1, <1>6, <1>7 DEF Filled, Typed
  <2>4. QED
    BY <2>1, <2>2, <2>3 DEF Filled
<1>9. Receipts'
  BY <1>1 DEF Receipts, Attempt
<1>10. Bound'
  BY <1>1, <1>6, <1>7 DEF Bound, Typed
<1>11. Recorded(played', saved') /\ Fair(played', saved')
  BY <1>1
<1>12. QED
  BY <1>5, <1>8, <1>9, <1>10, <1>11

\* An attempt begins, and its answer is read.
LEMMA BeginKeeps ==
  ASSUME IndInv, NEW t \in Threads, Begin(t) \/ Done(t), UNCHANGED table
  PROVE  IndInv'
<1> USE DEF IndInv, Handled
<1>1. Nobody \in Requests
  BY TurnsAssumption DEF Nobody
<1>2. CASE Begin(t)
  <2>1. PICK r \in Requests :
          /\ asked[r] # {} /\ request' = [request EXCEPT ![t] = r]
          /\ known' = [known EXCEPT ![t] = ran[r] > 0]
    BY <1>2 DEF Begin
  <2>2. Typed' /\ Alone(t)
    BY <1>2, <2>1 DEF Begin, Typed, Alone, Places, history
  <2>3. /\ pc'[t] = "recovering" /\ request'[t] = r /\ known'[t] = (ran[r] > 0)
        /\ answer'[t] = "none"
    BY <1>2, <2>1 DEF Begin, Typed, Receipts, Attempt
  <2>4. Attempt(t)'
    <3>1. ran'[r] = ran[r] /\ ran[r] \in 0..1
      BY <1>2 DEF Begin, history, Typed
    <3>2. ran[r] > 0 => ran[r] = 1
      BY <3>1
    <3>3. QED
      BY <2>3, <3>1, <3>2 DEF Attempt
  <2>5. Ends(t)
    BY <2>1, <2>2, <2>3, <2>4 DEF Ends
  <2>6. QED
    BY <1>2, <2>5, QuietKeeps DEF Begin
<1>3. CASE Done(t)
  <2>1. Typed' /\ Alone(t)
    BY <1>1, <1>3 DEF Done, Typed, Alone, Places, Answers, history
  <2>2. pc'[t] = "idle" /\ known'[t] = FALSE /\ answer'[t] = "none"
    BY <1>3 DEF Done, Typed
  <2>3. Ends(t)
    BY <2>1, <2>2 DEF Ends, Attempt
  <2>4. QED
    BY <1>3, <2>3, QuietKeeps DEF Done
<1>4. QED
  BY <1>2, <1>3

-----------------------------------------------------------------------------
(* Writes and attempts.                                                    *)

\* What a settlement took from its reminder stays what the reminder says.
LEMMA RemindersStay ==
  ASSUME NEW s, NEW s2, \A o \in s2.outgoing : o \in s.outgoing \/ o.boundary > s.boundaries,
         s.boundaries \in Nat, s2.outgoing \subseteq Outgoing,
         NEW a \in Bodies, a.boundary <= s.boundaries, NEW v, FromReminder(v, a, s)
  PROVE  FromReminder(v, a, s2)
<1>1. ASSUME a.boundary # 0, NEW o \in s2.outgoing, o.boundary = a.boundary
      PROVE  o \in s.outgoing
  BY <1>1 DEF Bodies
<1>2. QED
  BY <1>1 DEF FromReminder

\* Another client writes.
LEMMA EditKeeps ==
  ASSUME Handled, NEW s, Writes(saved, s), saved' = s, seen' = Unsurprised(s),
         UNCHANGED <<table, asked, attempts, ran>>
  PROVE  Handled'
<1> USE DEF Handled, attempts
<1>1. saved.revision \in Nat /\ saved.boundaries \in Nat
  BY Fields DEF Typed
<1>2. Sound(saved') /\ saved'.revision = saved.revision + 1 /\ saved.boundaries <= saved'.boundaries
      /\ saved'.receipts = saved.receipts /\ saved'.boundaries \in Nat
      /\ saved'.outgoing \subseteq Outgoing
  BY Fields DEF Writes
<1>3. Typed'
  BY <1>2 DEF Typed, Unsurprised
<1>4. Filled'
  <2>1. ASSUME NEW r \in Requests, NEW a \in asked[r]
        PROVE  a.revision < saved'.revision /\ a.boundary <= saved'.boundaries
    <3>1. a \in Bodies /\ a.revision <= saved.revision /\ a.boundary <= saved.boundaries
      BY DEF Typed, Filled
    <3>2. QED
      BY <1>1, <1>2, <3>1 DEF Bodies
  <2>2. \A r \in Requests : \A a \in asked[r] : a.revision \in Nat
    BY DEF Typed, Bodies
  <2>3. \A r \in Requests : \A a \in asked'[r] :
          /\ a.revision <= saved'.revision /\ a.boundary <= saved'.boundaries
          /\ a.revision = saved'.revision => r \in seen'
    BY <1>1, <1>2, <2>1, <2>2
  <2>4. QED
    BY <2>3 DEF Filled
<1>5. Receipts'
  BY <1>2 DEF Receipts, Attempt
<1>6. Bound'
  <2>1. ASSUME NEW t \in Threads, pc[t] = "committing", Kind[request[t]] = "settle",
               NEW v \in view[t], NEW a \in asked[request[t]]
        PROVE  FromReminder(v, a, saved')
    <3>1. a \in Bodies /\ a.boundary <= saved.boundaries /\ FromReminder(v, a, saved)
      BY <2>1 DEF Typed, Filled, Bound
    <3>2. QED
      BY <1>1, <1>2, <3>1, RemindersStay DEF Writes
  <2>2. QED
    BY <2>1 DEF Bound
<1>7. QED
  BY <1>3, <1>4, <1>5, <1>6

\* The write of a command, with its receipt.
WithReceipt(s, r) == [s EXCEPT !.receipts = @ \cup {r}]

\* What is saved when the write s of a command takes effect.
LEMMA ReceiptWritten ==
  ASSUME NEW s, Writes(saved, s), Sound(saved), NEW r \in Requests,
         NEW s2, s2 = WithReceipt(s, r)
  PROVE  /\ Sound(s2) /\ s2.revision = saved.revision + 1 /\ saved.boundaries <= s2.boundaries
         /\ s2.receipts = saved.receipts \cup {r} /\ SameTurn(s, s2) /\ s2.active = s.active
         /\ s2.outgoing = s.outgoing /\ s2.claims = s.claims /\ s2.boundaries = s.boundaries
         /\ s2.frightened = s.frightened
         /\ \A o \in s2.outgoing : o \in saved.outgoing \/ o.boundary > saved.boundaries
<1>1. s \in Saved /\ Sound(s)
  BY DEF Writes, Sound
<1>2. /\ s2.revision = s.revision /\ s2.receipts = s.receipts \cup {r} /\ SameTurn(s, s2)
      /\ s2.active = s.active /\ s2.outgoing = s.outgoing /\ s2.claims = s.claims
      /\ s2.boundaries = s.boundaries /\ s2.frightened = s.frightened
  BY <1>1 DEF WithReceipt, Saved, SameTurn
<1>3. s2 \in Saved
  BY <1>1 DEF WithReceipt, Saved
<1>4. Sound(s2)
  BY <1>1, <1>2, <1>3 DEF Sound, Roster, SameTurn
<1>5. QED
  BY <1>2, <1>4 DEF Writes

\* A command takes effect.
LEMMA EffectKeeps ==
  ASSUME Handled, NEW t \in Threads, NEW s, Writes(saved, s), Effect(t, s), UNCHANGED table,
         pc[t] = "committing", ~Recovers(request[t])
  PROVE  Handled'
<1> DEFINE r == request[t]
<1> USE DEF Handled
<1>1. saved.revision \in Nat /\ saved.boundaries \in Nat /\ Sound(saved) /\ r \in Requests
  BY Fields DEF Typed
<1>2. /\ Sound(saved') /\ saved'.revision = saved.revision + 1
      /\ saved.boundaries <= saved'.boundaries
      /\ saved'.receipts = saved.receipts \cup {r}
      /\ \A o \in saved'.outgoing : o \in saved.outgoing \/ o.boundary > saved.boundaries
  <2>1. saved' = WithReceipt(s, r)
    BY DEF Effect, WithReceipt
  <2> HIDE DEF r
  <2>2. QED
    BY <1>1, <2>1, ReceiptWritten
<1>3. saved'.boundaries \in Nat /\ saved'.outgoing \subseteq Outgoing
  BY <1>2, Fields
<1>4. ran[r] = 0 /\ ~known[t]
  BY <1>1, OwnReceipt DEF Receipts, Attempt, Typed
<1>5. /\ ran' = [ran EXCEPT ![r] = 1] /\ pc' = [pc EXCEPT ![t] = "answered"]
      /\ answer' = [answer EXCEPT ![t] = "ok"] /\ UNCHANGED <<asked, request, view, known>>
      /\ seen' = Unsurprised(s)
  BY <1>1, <1>4 DEF Effect, Answer, Typed
<1> HIDE DEF r
<1>6. Typed'
  <2>1. seen' \subseteq Requests
    BY <1>5 DEF Typed, Unsurprised
  <2>2. ran' \in [Requests -> 0..1]
    <3>1. ran \in [Requests -> 0..1] /\ 1 \in 0..1
      BY DEF Typed
    <3>2. QED
      BY <1>5, <3>1
  <2>3. pc' \in [Threads -> Places] /\ answer' \in [Threads -> Answers]
    BY <1>5 DEF Typed, Places, Answers
  <2>4. QED
    BY <1>2, <1>5, <2>1, <2>2, <2>3 DEF Typed
<1>7. Filled'
  <2>1. ASSUME NEW q \in Requests, NEW a \in asked[q]
        PROVE  a.revision < saved'.revision /\ a.boundary <= saved'.boundaries
    <3>1. a \in Bodies /\ a.revision <= saved.revision /\ a.boundary <= saved.boundaries
      BY DEF Typed, Filled
    <3>2. QED
      BY <1>1, <1>2, <1>3, <3>1 DEF Bodies
  <2>2. \A q \in Requests : \A a \in asked[q] : a.revision \in Nat
    BY DEF Typed, Bodies
  <2>3. \A q \in Requests : \A a \in asked'[q] :
          /\ a.revision <= saved'.revision /\ a.boundary <= saved'.boundaries
          /\ a.revision = saved'.revision => q \in seen'
    BY <1>1, <1>2, <1>5, <2>1, <2>2
  <2>4. \A u \in Threads : pc'[u] # "idle" => asked'[request'[u]] # {}
    BY <1>5 DEF Filled, Typed
  <2>5. QED
    BY <1>5, <2>3, <2>4 DEF Filled
<1>8. Receipts'
  <2>1. \A q \in Requests : ran'[q] = 1 <=> q \in saved'.receipts
    BY <1>1, <1>2, <1>5 DEF Receipts, Typed
  <2>2. ASSUME NEW u \in Threads PROVE Attempt(u)'
    <3>1. CASE u = t
      BY <1>1, <1>4, <1>5, <3>1 DEF Typed, Attempt, r
    <3>2. CASE u # t
      <4>1. ran'[request[u]] = 1 \/ ran'[request[u]] = ran[request[u]]
        BY <1>1, <1>5 DEF Typed
      <4>2. Attempt(u)
        BY DEF Receipts
      <4>3. pc'[u] = pc[u] /\ answer'[u] = answer[u] /\ known'[u] = known[u]
            /\ request'[u] = request[u]
        BY <1>5, <3>2 DEF Typed
      <4>4. QED
        BY <4>1, <4>2, <4>3 DEF Attempt
    <3>3. QED
      BY <3>1, <3>2
  <2>3. QED
    BY <2>1, <2>2 DEF Receipts
<1>9. Bound'
  <2>1. ASSUME NEW u \in Threads, pc'[u] = "committing", Kind[request[u]] = "settle",
               NEW v \in view[u], NEW a \in asked[request[u]]
        PROVE  FromReminder(v, a, saved')
    <3>1. pc[u] = "committing"
      BY <1>5, <2>1 DEF Typed
    <3>2. a \in Bodies /\ a.boundary <= saved.boundaries /\ FromReminder(v, a, saved)
      BY <2>1, <3>1 DEF Typed, Filled, Bound
    <3>3. QED
      BY <1>1, <1>2, <1>3, <3>2, RemindersStay
  <2>2. \A u \in Threads : pc'[u] = "reading" => Kind[request'[u]] = "next"
    BY <1>5 DEF Typed, Bound
  <2>3. QED
    BY <1>5, <2>1, <2>2 DEF Bound
<1>10. QED
  BY <1>6, <1>7, <1>8, <1>9

\* A command that takes effect had not before, and its client sees the encounter.
LEMMA EffectApplies ==
  ASSUME Handled, NEW t \in Threads, NEW s, Effect(t, s), ~Stale(request[t])
  PROVE  \A r \in Requests : ran'[r] > ran[r] => r = request[t] /\ r \in seen
<1>1. request[t] \in Requests /\ ran \in [Requests -> 0..1]
  BY DEF Handled, Typed
<1>2. PICK a \in asked[request[t]] : a.revision = saved.revision
  BY DEF Stale
<1>3. request[t] \in seen
  BY <1>1, <1>2 DEF Handled, Filled
<1>4. \A r \in Requests : r # request[t] => ran'[r] = ran[r]
  BY <1>1 DEF Effect
<1>5. QED
  BY <1>1, <1>3, <1>4

-----------------------------------------------------------------------------
(* The history.                                                            *)

\* Claims that were free are paid for.
LEMMA PaysOnce ==
  ASSUME NEW past \in Played, NEW claims, PaidUp(past, claims), NEW cs \in SUBSET Claims,
         cs \cap claims = {}, NEW new, new = Paid(past, cs)
  PROVE  /\ new \in Played /\ PaidUp(new, claims \cup cs)
         /\ new.acted = past.acted /\ new.steady = past.steady /\ new.ended = past.ended
<1> DEFINE paid == [c \in Claims |-> past.paid[c] + IF c \in cs THEN 1 ELSE 0]
<1>1. past.paid \in [Claims -> Nat]
  BY DEF Played
<1>2. paid \in [Claims -> Nat]
  BY <1>1
<1>3. new = [past EXCEPT !.paid = paid]
  BY DEF Paid, Played
<1>4. /\ new.paid = paid /\ new.acted = past.acted /\ new.steady = past.steady
      /\ new.ended = past.ended
  <2> HIDE DEF paid
  <2>1. QED
    BY <1>3 DEF Played
<1>5. \A c \in Claims : paid[c] <= 1 /\ (paid[c] = 1 => c \in claims \cup cs)
  BY <1>1 DEF PaidUp
<1> HIDE DEF paid
<1>6. QED
  BY <1>2, <1>3, <1>4, <1>5 DEF PaidUp, Played

\* Claims that are released can be paid for again.
LEMMA Releases ==
  ASSUME NEW past \in Played, NEW claims, PaidUp(past, claims), NEW ps,
         NEW kept, kept = {c \in claims : c.participant \notin ps},
         NEW new, new = Released(past, ps)
  PROVE  /\ new \in Played /\ PaidUp(new, kept)
         /\ new.acted = past.acted /\ new.steady = past.steady /\ new.ended = past.ended
<1> DEFINE paid == [c \in Claims |-> IF c.participant \in ps THEN 0 ELSE past.paid[c]]
<1>1. past.paid \in [Claims -> Nat]
  BY DEF Played
<1>2. paid \in [Claims -> Nat]
  BY <1>1
<1>3. new = [past EXCEPT !.paid = paid]
  BY DEF Released, Played
<1>4. /\ new.paid = paid /\ new.acted = past.acted /\ new.steady = past.steady
      /\ new.ended = past.ended
  <2> HIDE DEF paid
  <2>1. QED
    BY <1>3 DEF Played
<1>5. \A c \in Claims : paid[c] <= 1 /\ (paid[c] = 1 => c \in claims /\ c.participant \notin ps)
  BY <1>1 DEF PaidUp
<1> HIDE DEF paid
<1>6. QED
  BY <1>2, <1>3, <1>4, <1>5 DEF PaidUp, Played

\* What a step may do to the round and the turn, given the history it leaves.
RoundFair(past, s2) ==
  /\ s2.round > saved.round => played.steady \cap Roster(s2) \subseteq played.acted
  /\ s2.round = saved.round /\ saved.current # {} /\ s2.current # saved.current
       /\ past.acted # {} => s2.current \cap played.acted = {}

\* The history of a turn that the order selects.
LEMMA TurnedIs ==
  ASSUME NEW s, NEW s2, played \in Played, NEW past, past = Turned(s, s2)
  PROVE  /\ past.ended = played.ended /\ past.paid = played.paid
         /\ s.current = {} \/ s2.round > s.round =>
              past.acted = s2.current /\ past.steady = Eligible(s2)
         /\ ~(s.current = {} \/ s2.round > s.round) =>
              /\ past.acted = played.acted \cup s2.current
              /\ past.steady = played.steady \cap Eligible(s2)
         /\ s2.current \subseteq Participants /\ Eligible(s2) \subseteq Participants =>
              past \in Played
<1>1. CASE s.current = {} \/ s2.round > s.round
  BY <1>1 DEF Turned, Played
<1>2. CASE ~(s.current = {} \/ s2.round > s.round)
  BY <1>2 DEF Turned, Played
<1>3. QED
  BY <1>1, <1>2

\* A turn that the order selects, also among those who stay.
LEMMA TurnsAreFair ==
  ASSUME Sound(saved), played \in Played, Fair(played, saved),
         NEW s2, Sound(s2), NEW turn, turn = TurnAmong(saved, saved.current, Eligible(s2)),
         s2.current = turn.current, s2.round = turn.round,
         Roster(s2) \subseteq Roster(saved), Eligible(saved) \cap Roster(s2) \subseteq Eligible(s2),
         \A x, y \in Roster(s2) :
           Place(s2, x) <= Place(s2, y) <=> Place(saved, x) <= Place(saved, y),
         NEW past, past = Turned(saved, s2)
  PROVE  past \in Played /\ Fair(past, s2) /\ RoundFair(past, s2)
<1> DEFINE ps == Eligible(s2)
<1>1. /\ saved.current \subseteq Roster(saved) /\ AtMostOne(saved.current) /\ IsOrder(saved.roster)
      /\ Roster(saved) \subseteq Participants /\ saved.round \in Nat
      /\ s2.current \subseteq Roster(s2) /\ IsOrder(s2.roster) /\ Roster(s2) \subseteq Participants
  BY Fields
<1>2. ps \subseteq Roster(s2) /\ ps \subseteq Roster(saved)
  BY DEF Eligible
<1>3. /\ turn.current \subseteq ps /\ AtMostOne(turn.current) /\ (turn.current = {} <=> ps = {})
      /\ turn.round \in {saved.round, saved.round + 1}
      /\ turn.round = saved.round =>
           \A n \in turn.current :
             /\ \A c \in saved.current : Place(saved, c) < Place(saved, n)
             /\ \A q \in ps : (\A c \in saved.current : Place(saved, c) < Place(saved, q)) =>
                  Place(saved, n) <= Place(saved, q)
      /\ turn.round # saved.round =>
           /\ saved.current # {}
           /\ \A q \in ps : \E c \in saved.current : ~(Place(saved, c) < Place(saved, q))
           /\ \A n \in turn.current, q \in ps : Place(saved, n) <= Place(saved, q)
  <2> HIDE DEF ps
  <2>1. turn = TurnAmong(saved, saved.current, ps)
    BY DEF ps
  <2>2. QED
    BY <1>1, <1>2, <2>1, Turns
<1>4. \A p \in Roster(saved) : Place(saved, p) \in Int
  BY <1>1, Listed DEF Place, Roster, IsOrder
<1>5. \A p \in Roster(s2) : Place(s2, p) \in Int
  BY <1>1, Listed DEF Place, Roster, IsOrder
<1>6. \A x, y \in Roster(s2) : Place(s2, x) = Place(s2, y) => x = y
  BY <1>1, Apart DEF Place, Roster
<1>7. /\ saved.current = {} \/ s2.round > saved.round =>
           past.acted = s2.current /\ past.steady = ps
      /\ ~(saved.current = {} \/ s2.round > saved.round) =>
           past.acted = played.acted \cup s2.current /\ past.steady = played.steady \cap ps
      /\ past \in Played
  BY <1>1, <1>2, TurnedIs
<1> HIDE DEF ps
<1>8. Fair(past, s2)
  <2>1. CASE saved.current = {} \/ s2.round > saved.round
    <3>1. past.acted = s2.current /\ past.steady = ps
      BY <1>7, <2>1
    <3>2. ASSUME NEW n \in s2.current, NEW q \in ps PROVE Place(saved, n) <= Place(saved, q)
      BY <1>1, <1>3, <2>1, <3>2
    <3>3. \A n \in s2.current, q \in ps : Place(s2, n) <= Place(s2, q)
      BY <1>1, <1>2, <3>2
    <3>4. \A n, q \in s2.current : n = q
      BY <1>3 DEF AtMostOne
    <3>5. ASSUME NEW c \in s2.current, NEW q \in ps, q \notin s2.current
          PROVE  Place(s2, c) < Place(s2, q)
      <4>1. Place(s2, c) <= Place(s2, q) /\ Place(s2, c) # Place(s2, q)
        BY <1>1, <1>2, <1>6, <3>3, <3>5
      <4>2. QED
        BY <1>1, <1>2, <1>5, <4>1
    <3>6. ASSUME NEW c \in s2.current, NEW q \in s2.current PROVE Place(s2, q) <= Place(s2, c)
      <4>1. q = c /\ Place(s2, c) \in Int
        BY <1>1, <1>5, <3>4
      <4>2. QED
        BY <4>1
    <3>7. s2.current = {} => ps = {}
      BY <1>3
    <3>8. QED
      BY <3>1, <3>5, <3>6, <3>7 DEF Fair, ps
  <2>2. CASE ~(saved.current = {} \/ s2.round > saved.round)
    <3>1. past.acted = played.acted \cup s2.current /\ past.steady = played.steady \cap ps
      BY <1>7, <2>2
    <3>2. turn.round = saved.round
      BY <1>1, <1>3, <2>2
    <3>3. PICK c \in saved.current : TRUE
      BY <2>2
    <3>4. \A d \in saved.current : d = c
      BY <1>1 DEF AtMostOne
    <3>5. ASSUME NEW n \in s2.current
          PROVE  /\ n \in Roster(s2) /\ n \in Roster(saved)
                 /\ Place(saved, c) < Place(saved, n)
      BY <1>1, <1>3, <3>2, <3>3
    <3>6. ASSUME NEW n \in s2.current, NEW q \in past.acted \cap Roster(s2)
          PROVE  Place(s2, q) <= Place(s2, n)
      <4>1. CASE q \in s2.current
        <5>1. q = n /\ Place(s2, n) \in Int
          BY <1>1, <1>3, <1>5, <4>1 DEF AtMostOne
        <5>2. QED
          BY <5>1
      <4>2. CASE q \in played.acted
        <5>1. Place(saved, q) <= Place(saved, c)
          BY <3>3, <3>6, <4>2 DEF Fair
        <5>2. Place(saved, q) <= Place(saved, n)
          BY <1>1, <1>4, <3>3, <3>5, <3>6, <5>1
        <5>3. QED
          BY <3>5, <3>6, <5>2
      <4>3. QED
        BY <3>1, <3>6, <4>1, <4>2
    <3>7. ASSUME NEW n \in s2.current, NEW q \in past.steady \ past.acted
          PROVE  Place(s2, n) < Place(s2, q)
      <4>1. q \in ps /\ q \in played.steady \ played.acted /\ q # n
        BY <3>1, <3>7
      <4>2. Place(saved, c) < Place(saved, q)
        BY <3>3, <4>1 DEF Fair
      <4>3. Place(saved, n) <= Place(saved, q)
        BY <1>3, <3>2, <3>4, <4>1, <4>2
      <4>4. q \in Roster(s2) /\ n \in Roster(s2)
        BY <1>2, <3>5, <4>1
      <4>5. Place(s2, n) <= Place(s2, q) /\ Place(s2, n) # Place(s2, q)
        BY <1>6, <4>1, <4>3, <4>4
      <4>6. QED
        BY <1>5, <4>4, <4>5
    <3>8. s2.current = {} => past.steady = {}
      BY <1>3, <3>1
    <3>9. past.steady \subseteq Eligible(s2)
      BY <3>1 DEF ps
    <3>10. QED
      BY <3>6, <3>7, <3>8, <3>9 DEF Fair
  <2>3. QED
    BY <2>1, <2>2
<1>9. RoundFair(past, s2)
  <2>1. ASSUME s2.round > saved.round, NEW q \in played.steady \cap Roster(s2)
        PROVE  q \in played.acted
    <3>1. q \in ps /\ turn.round # saved.round
      BY <1>1, <2>1 DEF Fair, ps
    <3>2. PICK c \in saved.current : ~(Place(saved, c) < Place(saved, q))
      BY <1>3, <3>1
    <3>3. QED
      BY <2>1, <3>2 DEF Fair
  <2>2. ASSUME s2.round = saved.round, saved.current # {}, NEW n \in s2.current
        PROVE  n \notin played.acted
    <3>1. PICK c \in saved.current : TRUE
      BY <2>2
    <3>2. Place(saved, c) < Place(saved, n) /\ n \in Roster(saved)
      BY <1>2, <1>3, <2>2, <3>1
    <3>3. n \in played.acted => Place(saved, n) <= Place(saved, c)
      BY <3>1, <3>2 DEF Fair
    <3>4. QED
      BY <1>1, <1>4, <3>1, <3>2, <3>3
  <2>3. QED
    BY <2>1, <2>2 DEF RoundFair
<1>10. QED
  BY <1>7, <1>8, <1>9

-----------------------------------------------------------------------------
(* Steps of threads.                                                       *)

\* What a step does right: see the properties of EncounterTurns.
Applies == \A r \in Requests : ran'[r] > ran[r] => r \in seen

Reminds ==
  \A r \in Requests : ran'[r] > ran[r] /\ Kind[r] = "settle" =>
    \A a \in asked[r] : a.boundary # 0 =>
      \E e \in played.ended :
        /\ e.boundary = a.boundary /\ Subject[r] \in e.participant
        /\ \A c \in saved.frightened[Subject[r]] :
             c \notin saved'.frightened[Subject[r]] => c.id \in e.due

Good == IndInv' /\ Applies /\ Reminds /\ RoundFair(played', saved')

\* Where nothing takes effect there is nothing to be wrong.
LEMMA NothingTakesEffect ==
  ASSUME Typed, ran' = ran
  PROVE  Applies /\ Reminds
<1>1. \A r \in Requests : ~(ran'[r] > ran[r])
  BY DEF Typed
<1>2. QED
  BY <1>1 DEF Applies, Reminds

\* A step that writes nothing.
LEMMA QuietIsGood ==
  ASSUME IndInv, IndInv', UNCHANGED <<saved, ran, played>>
  PROVE  Good
<1>1. Typed /\ ~(saved.round > saved.round)
  BY Fields DEF IndInv, Handled, Typed
<1>2. QED
  BY <1>1, NothingTakesEffect DEF Good, RoundFair

\* The same with an edit of another client.
LEMMA EditIsGood ==
  ASSUME IndInv, NEW s, Writes(saved, s), saved' = s, seen' = Unsurprised(s),
         UNCHANGED <<table, asked, attempts, ran>>,
         Recorded(played', s), Fair(played', s), RoundFair(played', s)
  PROVE  Good
<1>1. Handled /\ Typed /\ ran' = ran
  BY DEF IndInv, Handled
<1>2. Handled'
  BY <1>1, EditKeeps
<1>3. IndInv'
  BY <1>2 DEF IndInv
<1>4. QED
  BY <1>1, <1>3, NothingTakesEffect DEF Good

\* The read of the receipt.
LEMMA RecoverKeeps ==
  ASSUME IndInv, NEW t \in Threads, Recover(t), UNCHANGED table
  PROVE  IndInv'
<1> DEFINE r == request[t]
           seeing == [plan |-> saved.frightened[Subject[r]], round |-> saved.round]
<1>1. /\ pc[t] = "recovering" /\ pc[t] \in Places \ {"idle", "answered"} /\ r \in Requests
      /\ Typed /\ Kind[r] \in {"next", "settle"}
  BY TurnsAssumption DEF Recover, IndInv, Handled, Typed, Places
<1>2. known[t] => Recovers(r)
  BY <1>1, OwnReceipt DEF IndInv, Handled, Receipts, Attempt
<1>3. CASE Recovers(r)
  <2>1. Rejected(t, "ok")
    BY <1>3 DEF Recover
  <2>2. QED
    BY <1>1, <1>3, <2>1, RejectedEnds DEF Answers
<1>4. CASE ~Recovers(r) /\ Reused(r)
  <2>1. Rejected(t, "refused")
    BY <1>4 DEF Recover
  <2>2. QED
    BY <1>1, <1>2, <1>4, <2>1, RejectedEnds DEF Answers
<1>5. CASE ~Recovers(r) /\ ~Reused(r) /\ Kind[r] = "next"
  <2>1. Goto(t, "reading")
    BY <1>5 DEF Recover
  <2>2. QED
    BY <1>1, <1>2, <1>5, <2>1, GotoGoesOn DEF Places
<1>6. CASE ~Recovers(r) /\ ~Reused(r) /\ Kind[r] # "next"
  <2>1. IF Stale(r) THEN Rejected(t, "stale")
        ELSE /\ pc' = [pc EXCEPT ![t] = "binding"]
             /\ view' = [view EXCEPT ![t] = {seeing}]
             /\ UNCHANGED <<saved, asked, request, answer, known, history>>
    BY <1>6 DEF Recover
  <2>2. CASE Stale(r)
    BY <1>1, <1>2, <1>6, <2>1, <2>2, RejectedEnds DEF Answers
  <2>3. CASE ~Stale(r)
    <3>1. seeing \in Views
      <4>1. Subject[r] \in Participants
        BY <1>1, TurnsAssumption
      <4>2. /\ saved.frightened \in [Participants -> SUBSET Conditions]
            /\ saved.round \in 1..MaxRound
        BY <1>1, Fields DEF Typed
      <4>3. QED
        BY <4>1, <4>2 DEF Views
    <3> HIDE DEF seeing
    <3>2. Looks(t, "binding", seeing)
      BY <2>1, <2>3 DEF Looks
    <3>3. QED
      BY <1>1, <1>2, <1>6, <3>1, <3>2, LooksGoesOn
  <2>4. QED
    BY <2>2, <2>3
<1>7. QED
  BY <1>3, <1>4, <1>5, <1>6

\* The check of the revision before the write.
LEMMA ReadKeeps ==
  ASSUME IndInv, NEW t \in Threads, Read(t), UNCHANGED table
  PROVE  IndInv'
<1>1. /\ pc[t] = "reading" /\ pc[t] \in Places \ {"idle", "answered"}
      /\ Kind[request[t]] = "next" /\ ~known[t]
  BY DEF Read, IndInv, Handled, Bound, Receipts, Attempt, Places, Typed
<1>2. CASE Stale(request[t])
  BY <1>1, <1>2, RejectedEnds DEF Read, Answers
<1>3. CASE ~Stale(request[t])
  BY <1>1, <1>3, GotoGoesOn DEF Read, Places
<1>4. QED
  BY <1>2, <1>3

\* The plan of a settlement with its reminder.
LEMMA BindKeeps ==
  ASSUME IndInv, NEW t \in Threads, Bind(t), UNCHANGED table
  PROVE  IndInv'
<1> DEFINE r == request[t]
<1>1. /\ pc[t] = "binding" /\ pc[t] \in Places \ {"idle", "answered"} /\ ~known[t]
      /\ r \in Requests /\ AtMostOne(asked[r])
      /\ asked[r] \subseteq Bodies /\ view[t] \subseteq Views
  BY DEF Bind, IndInv, Handled, Filled, Receipts, Attempt, Places, Typed
<1>2. AtMostOne(saved.outgoing) /\ saved.outgoing \subseteq Outgoing
  BY Fields DEF IndInv, Handled, Typed
<1>3. PICK a \in asked[r], v \in view[t] :
        LET plan == IF a.boundary = 0 THEN v.plan
                    ELSE UNION {Due(o, v.plan) : o \in saved.outgoing}
            at == IF a.boundary = 0 THEN v.round
                  ELSE CHOOSE n \in {o.round : o \in saved.outgoing} : TRUE
        IN  IF \/ a.boundary # 0 /\ ~Reminder(saved, Subject[r], a.boundary)
               \/ plan = {}
              THEN Rejected(t, "refused")
              ELSE /\ pc' = [pc EXCEPT ![t] = "committing"]
                   /\ view' = [view EXCEPT ![t] = {[plan |-> plan, round |-> at]}]
                   /\ UNCHANGED <<saved, asked, request, answer, known, history>>
  BY DEF Bind
<1> DEFINE plan == IF a.boundary = 0 THEN v.plan
                   ELSE UNION {Due(o, v.plan) : o \in saved.outgoing}
           at == IF a.boundary = 0 THEN v.round
                 ELSE CHOOSE n \in {o.round : o \in saved.outgoing} : TRUE
<1>4. CASE Rejected(t, "refused")
  BY <1>1, <1>4, RejectedEnds DEF Answers
<1>5. CASE ~Rejected(t, "refused")
  <2>1. /\ a.boundary # 0 => Reminder(saved, Subject[r], a.boundary)
        /\ pc' = [pc EXCEPT ![t] = "committing"]
        /\ view' = [view EXCEPT ![t] = {[plan |-> plan, round |-> at]}]
        /\ UNCHANGED <<saved, asked, request, answer, known, history>>
    BY <1>3, <1>5
  <2>2. v.plan \subseteq Conditions /\ v.round \in 1..MaxRound
    BY <1>1 DEF Views
  <2>3. plan \subseteq Conditions
    BY <2>2 DEF Due
  <2>4. a.boundary # 0 => \A o \in saved.outgoing :
          o.round = at /\ \A c \in plan : c.id \in o.due
    <3>1. ASSUME a.boundary # 0, NEW o \in saved.outgoing PROVE o.round = at
      <4>1. \A p \in saved.outgoing : p.round = o.round
        BY <1>2 DEF AtMostOne
      <4>2. {p.round : p \in saved.outgoing} = {o.round}
        BY <4>1
      <4>3. QED
        BY <3>1, <4>2
    <3>2. ASSUME a.boundary # 0, NEW o \in saved.outgoing, NEW c \in plan PROVE c.id \in o.due
      BY <1>2, <3>2 DEF AtMostOne, Due
    <3>3. QED
      BY <3>1, <3>2
  <2>5. at \in 1..MaxRound
    <3>1. CASE a.boundary = 0
      BY <2>2, <3>1
    <3>2. CASE a.boundary # 0
      <4>1. PICK o \in saved.outgoing : TRUE
        BY <2>1, <3>2 DEF Reminder
      <4>2. at = o.round
        BY <2>4, <3>2, <4>1
      <4>3. o.round \in 1..MaxRound
        BY <1>2, <4>1 DEF Outgoing
      <4>4. QED
        BY <4>2, <4>3
    <3>3. QED
      BY <3>1, <3>2
  <2> HIDE DEF plan, at
  <2> DEFINE bound == [plan |-> plan, round |-> at]
  <2>6. bound \in Views /\ bound.plan = plan /\ bound.round = at
    BY <2>3, <2>5 DEF Views
  <2>7. Looks(t, "committing", bound)
    BY <2>1 DEF Looks
  <2> HIDE DEF bound
  <2>8. \A b \in asked[request[t]] : FromReminder(bound, b, saved)
    <3>1. \A b \in asked[r] : b = a
      BY <1>1, <1>3 DEF AtMostOne
    <3>2. FromReminder(bound, a, saved)
      BY <2>4, <2>6 DEF FromReminder
    <3>3. QED
      BY <3>1, <3>2
  <2>9. QED
    BY <1>1, <2>6, <2>7, <2>8, LooksGoesOn
<1>6. QED
  BY <1>4, <1>5

\* A thread fails.
LEMMA FailsKeeps ==
  ASSUME IndInv, NEW t \in Threads, Fails(t), UNCHANGED table
  PROVE  IndInv'
<1>1. pc[t] \in Places \ {"idle", "answered"}
  BY DEF Fails, Places
<1>2. QED
  BY <1>1, RejectedEnds DEF Fails, Answers

\* There is room for a revision that the model explores.
LEMMA Room ==
  ASSUME Typed, saved.revision < table.revisions
  PROVE  Writable(saved)
<1>1. Sound(saved) /\ table.revisions \in 0..MaxRevision
  BY TableFacts DEF Typed
<1>2. saved.revision \in 0..MaxRevision
  BY <1>1, Fields
<1>3. QED
  BY <1>1, <1>2, TurnsAssumption DEF Writable

-----------------------------------------------------------------------------
(* Commands that take effect.                                              *)

\* The history of a turn that Next turn selects.
LEMMA AdvancedHistory ==
  ASSUME IndInv, Writable(saved), NextTurn(saved).round <= MaxRound,
         Startable(saved, NextTurn(saved)), NEW s, s = Advance(saved),
         NEW s2, Sound(s2), SameTurn(s, s2), s2.active = s.active, s2.outgoing = s.outgoing,
         s2.claims = s.claims, NEW past, past = Advanced(saved, s2)
  PROVE  Recorded(past, s2) /\ Fair(past, s2) /\ RoundFair(past, s2)
<1> DEFINE turn == NextTurn(saved)
           turned == Turned(saved, s2)
           cs == StartClaims(saved, turn)
           paid == Paid(turned, cs)
<1>1. /\ s.current = turn.current /\ s.round = turn.round /\ s.roster = saved.roster
      /\ s.active = saved.active /\ s.claims = saved.claims \cup cs
  BY AdvanceWrites
<1>2. /\ s2.current = turn.current /\ s2.round = turn.round /\ s2.roster = saved.roster
      /\ s2.active = saved.active /\ s2.claims = saved.claims \cup cs
  BY <1>1 DEF SameTurn
<1>3. /\ Sound(saved) /\ played \in Played /\ Fair(played, saved) /\ PaidUp(played, saved.claims)
  BY DEF IndInv, Handled, Typed, Recorded
<1>4. /\ Roster(s2) = Roster(saved) /\ Eligible(s2) = Eligible(saved)
      /\ \A x : Place(s2, x) = Place(saved, x)
  BY <1>2 DEF Roster, Eligible, Place
<1>5. turn = TurnAmong(saved, saved.current, Eligible(s2))
  BY <1>4 DEF NextTurn
<1> HIDE DEF turn
<1>6. turned \in Played /\ Fair(turned, s2) /\ RoundFair(turned, s2)
  BY <1>2, <1>3, <1>4, <1>5, TurnsAreFair
<1>7. turned.paid = played.paid
  BY <1>3, TurnedIs
<1> HIDE DEF turned
<1>8. PaidUp(turned, saved.claims)
  BY <1>3, <1>7 DEF PaidUp
<1>9. cs \subseteq Claims /\ cs \cap saved.claims = {}
  <2>1. turn.current \subseteq Participants /\ turn.round \in 1..MaxRound
    BY <1>2, Fields
  <2>2. cs \cap saved.claims = {}
    BY DEF Startable, turn
  <2>3. QED
    BY <2>1, <2>2, Starts
<1>10. StartClaims(saved, [current |-> s2.current, round |-> s2.round]) = cs
  BY <1>2 DEF StartClaims
<1> HIDE DEF cs
<1>11. /\ paid \in Played /\ PaidUp(paid, s2.claims)
       /\ paid.acted = turned.acted /\ paid.steady = turned.steady
  BY <1>2, <1>6, <1>8, <1>9, PaysOnce
<1>12. past = [paid EXCEPT !.ended = s2.outgoing]
  BY <1>10 DEF Advanced, turned
<1> HIDE DEF paid
<1>13. s2.outgoing \subseteq Outgoing
  BY Fields
<1>14. /\ past \in Played /\ past.ended = s2.outgoing /\ past.paid = paid.paid
       /\ past.acted = turned.acted /\ past.steady = turned.steady
  BY <1>11, <1>12, <1>13 DEF Played
<1>15. QED
  BY <1>6, <1>11, <1>14 DEF Recorded, Fair, RoundFair, PaidUp

\* Next turn is written, or its receipt found.
LEMMA CommitNextIsGood ==
  ASSUME IndInv, NEW t \in Threads, CommitNext(t), UNCHANGED table
  PROVE  Good
<1> DEFINE r == request[t]
           turn == NextTurn(saved)
<1>1. /\ pc[t] = "committing" /\ pc[t] \in Places \ {"idle", "answered"} /\ ~known[t]
      /\ r \in Requests /\ Kind[r] = "next" /\ Typed /\ Handled
  BY DEF CommitNext, IndInv, Handled, Receipts, Attempt, Places, Typed
<1>2. ASSUME NEW what \in Answers, Rejected(t, what), what = "ok" => Recovers(r)
      PROVE  Good
  <2>1. IndInv'
    BY <1>1, <1>2, RejectedEnds
  <2>2. QED
    BY <1>2, <2>1, QuietIsGood DEF Rejected, history
<1>3. CASE Recovers(r)
  BY <1>2, <1>3 DEF CommitNext, Answers
<1>4. CASE ~Recovers(r) /\ Reused(r)
  BY <1>2, <1>4 DEF CommitNext, Answers
<1>5. CASE ~Recovers(r) /\ ~Reused(r) /\ Stale(r)
  BY <1>2, <1>5 DEF CommitNext, Answers
<1>6. CASE ~Recovers(r) /\ ~Reused(r) /\ ~Stale(r) /\ ~Startable(saved, turn)
  BY <1>2, <1>6 DEF CommitNext, Answers
<1>7. CASE ~Recovers(r) /\ ~Reused(r) /\ ~Stale(r) /\ Startable(saved, turn)
  <2> DEFINE s == Advance(saved)
  <2>1. /\ turn.round <= MaxRound /\ saved.revision < table.revisions
        /\ Effect(t, s) /\ played' = Advanced(saved, saved')
    BY <1>7 DEF CommitNext
  <2>2. Writable(saved)
    BY <1>1, <2>1, Room
  <2>3. Writes(saved, s)
    BY <2>1, <2>2, AdvanceWrites
  <2> HIDE DEF s
  <2>4. Handled'
    BY <1>1, <1>7, <2>1, <2>3, EffectKeeps
  <2>5. saved' = WithReceipt(s, r)
    BY <2>1 DEF Effect, WithReceipt
  <2>6. /\ Sound(saved') /\ SameTurn(s, saved') /\ saved'.active = s.active
        /\ saved'.outgoing = s.outgoing /\ saved'.claims = s.claims
    BY <1>1, <2>3, <2>5, ReceiptWritten DEF Typed
  <2>7. Recorded(played', saved') /\ Fair(played', saved') /\ RoundFair(played', saved')
    BY <1>7, <2>1, <2>2, <2>6, AdvancedHistory DEF s
  <2>8. \A q \in Requests : ran'[q] > ran[q] => q = r /\ q \in seen
    BY <1>1, <1>7, <2>1, EffectApplies
  <2>9. Applies /\ Reminds
    BY <1>1, <2>8 DEF Applies, Reminds
  <2>10. QED
    BY <2>4, <2>7, <2>9 DEF Good, IndInv
<1>8. QED
  BY <1>3, <1>4, <1>5, <1>6, <1>7

\* A settlement is written, or its receipt found.
LEMMA CommitSettleIsGood ==
  ASSUME IndInv, NEW t \in Threads, CommitSettle(t), UNCHANGED table
  PROVE  Good
<1> DEFINE r == request[t]
           p == Subject[r]
<1>1. /\ pc[t] = "committing" /\ pc[t] \in Places \ {"idle", "answered"} /\ ~known[t]
      /\ r \in Requests /\ Kind[r] = "settle" /\ Typed /\ Handled
      /\ AtMostOne(asked[r]) /\ asked[r] \subseteq Bodies /\ view[t] \subseteq Views
  BY DEF CommitSettle, IndInv, Handled, Filled, Receipts, Attempt, Places, Typed
<1>2. p \in Participants
  BY <1>1, TurnsAssumption
<1>3. ASSUME NEW what \in Answers, Rejected(t, what), what = "ok" => Recovers(r)
      PROVE  Good
  <2>1. IndInv'
    BY <1>1, <1>3, RejectedEnds
  <2>2. QED
    BY <1>3, <2>1, QuietIsGood DEF Rejected, history
<1>4. PICK a \in asked[r], v \in view[t] :
        CASE Recovers(r) -> Rejected(t, "ok")
          [] ~Recovers(r) /\ Reused(r) -> Rejected(t, "refused")
          [] ~Recovers(r) /\ ~Reused(r) /\ Stale(r) -> Rejected(t, "stale")
          [] OTHER ->
               IF \/ ~Claimable(p, v.round)
                  \/ a.boundary = 0 /\ v.round # saved.round
                  \/ a.boundary # 0 /\ ~Reminder(saved, p, a.boundary)
                 THEN Rejected(t, "refused")
                 ELSE /\ saved.revision < table.revisions
                      /\ Effect(t, Settle(saved, p, v.plan, v.round))
                      /\ played' = Paid(played, {Claim(p, Ending(a), "end")})
  BY DEF CommitSettle
<1> DEFINE refused == \/ ~Claimable(p, v.round)
                      \/ a.boundary = 0 /\ v.round # saved.round
                      \/ a.boundary # 0 /\ ~Reminder(saved, p, a.boundary)
<1>5. CASE Recovers(r)
  BY <1>3, <1>4, <1>5 DEF Answers
<1>6. CASE ~Recovers(r) /\ Reused(r)
  BY <1>3, <1>4, <1>6 DEF Answers
<1>7. CASE ~Recovers(r) /\ ~Reused(r) /\ Stale(r)
  BY <1>3, <1>4, <1>7 DEF Answers
<1>8. CASE ~Recovers(r) /\ ~Reused(r) /\ ~Stale(r) /\ refused
  BY <1>3, <1>4, <1>8 DEF Answers
<1>9. CASE ~Recovers(r) /\ ~Reused(r) /\ ~Stale(r) /\ ~refused
  <2> DEFINE s == Settle(saved, p, v.plan, v.round)
             c == Claim(p, v.round, "end")
  <2>1. /\ saved.revision < table.revisions /\ Effect(t, s)
        /\ played' = Paid(played, {Claim(p, Ending(a), "end")})
    BY <1>4, <1>9
  <2>2. Writable(saved)
    BY <1>1, <2>1, Room
  <2>3. v.plan \in SUBSET Conditions /\ v.round \in 1..MaxRound
    BY <1>1 DEF Views
  <2>4. /\ Writes(saved, s) /\ SameTurn(saved, s) /\ s.active = saved.active
        /\ s.outgoing = saved.outgoing /\ s.claims = saved.claims \cup {c}
        /\ Spares(saved, s, p, v.plan)
    <3>1. s = Settle(saved, p, v.plan, v.round) /\ c = Claim(p, v.round, "end")
      OBVIOUS
    <3> HIDE DEF s, c, p
    <3>2. /\ Writes(saved, s) /\ SameTurn(saved, s) /\ s.active = saved.active
          /\ s.outgoing = saved.outgoing /\ s.claims = saved.claims \cup {Claim(p, v.round, "end")}
          /\ Spares(saved, s, p, v.plan)
      BY <1>2, <2>2, <2>3, <3>1, SettleWrites
    <3>3. QED
      BY <3>1, <3>2
  <2>5. c \in Claims /\ c \notin saved.claims
    BY <1>2, <1>9, <2>3 DEF Claim, Claims, Claimable
  <2>6. a.boundary # 0 =>
          \E o \in saved.outgoing :
            /\ o.boundary = a.boundary /\ p \in o.participant
            /\ o.round = v.round /\ \A x \in v.plan : x.id \in o.due
    <3>1. FromReminder(v, a, saved)
      BY <1>1, <1>4 DEF Handled, Bound
    <3>2. QED
      BY <1>9, <3>1 DEF FromReminder, Reminder
  <2>7. Ending(a) = v.round
    <3>1. CASE a.boundary = 0
      BY <1>9, <3>1 DEF Ending
    <3>2. CASE a.boundary # 0
      <4>1. PICK o \in saved.outgoing : o.round = v.round
        BY <2>6, <3>2
      <4>2. AtMostOne(saved.outgoing)
        BY Fields, <1>1 DEF Typed
      <4>3. {q.round : q \in saved.outgoing} = {v.round}
        BY <4>1, <4>2 DEF AtMostOne
      <4>4. QED
        BY <3>2, <4>3 DEF Ending
    <3>3. QED
      BY <3>1, <3>2
  <2> HIDE DEF s, c
  <2>8. Handled'
    BY <1>1, <1>9, <2>1, <2>4, EffectKeeps
  <2>9. saved' = WithReceipt(s, r)
    BY <2>1 DEF Effect, WithReceipt
  <2>10. /\ SameTurn(s, saved') /\ saved'.active = s.active /\ saved'.outgoing = s.outgoing
         /\ saved'.claims = s.claims /\ saved'.frightened = s.frightened
    BY <1>1, <2>4, <2>9, ReceiptWritten DEF Typed
  <2>11. played' = Paid(played, {c})
    BY <2>1, <2>7 DEF c
  <2>12. played \in Played /\ played.ended = saved.outgoing /\ PaidUp(played, saved.claims)
         /\ Fair(played, saved)
    BY DEF IndInv, Recorded
  <2>13. /\ played' \in Played /\ PaidUp(played', saved.claims \cup {c})
         /\ played'.acted = played.acted /\ played'.steady = played.steady
         /\ played'.ended = played.ended
    BY <2>5, <2>11, <2>12, PaysOnce
  <2>14. Recorded(played', saved')
    BY <2>4, <2>10, <2>12, <2>13 DEF Recorded
  <2>15. SameTurn(saved, saved') /\ saved'.active = saved.active
    BY <2>4, <2>10 DEF SameTurn
  <2>16. Fair(played', saved')
    BY <2>12, <2>13, <2>15 DEF Fair, SameTurn, Eligible, Roster, Place
  <2>17. RoundFair(played', saved')
    BY <1>1, <2>15, Fields DEF RoundFair, SameTurn, Typed
  <2>18. \A q \in Requests : ran'[q] > ran[q] => q = r /\ q \in seen
    BY <1>1, <1>9, <2>1, EffectApplies
  <2>19. Reminds
    <3>1. ASSUME NEW b \in asked[r], b.boundary # 0
          PROVE  \E e \in played.ended :
                   /\ e.boundary = b.boundary /\ p \in e.participant
                   /\ \A x \in saved.frightened[p] :
                        x \notin saved'.frightened[p] => x.id \in e.due
      <4>1. a = b
        BY <1>1, <1>4 DEF AtMostOne
      <4>2. QED
        BY <2>4, <2>6, <2>10, <2>12, <3>1, <4>1 DEF Spares
    <3>2. QED
      BY <2>18, <3>1 DEF Reminds
  <2>20. QED
    BY <2>8, <2>14, <2>16, <2>17, <2>18, <2>19 DEF Good, IndInv, Applies
<1>10. QED
  BY <1>5, <1>6, <1>7, <1>8, <1>9

-----------------------------------------------------------------------------
(* Edits of other clients.                                                 *)

\* What an edit is.
LEMMA EditIs ==
  ASSUME IndInv, NEW what, NEW s, Edit(what, s)
  PROVE  /\ Writable(saved) /\ saved' = s /\ seen' = Unsurprised(s)
         /\ UNCHANGED <<asked, attempts, ran>>
         /\ Sound(saved) /\ played \in Played /\ played.ended = saved.outgoing
         /\ PaidUp(played, saved.claims) /\ Fair(played, saved)
BY Room DEF Edit, IndInv, Handled, Typed, Recorded

\* The order of turns is overruled.
LEMMA Overrules ==
  ASSUME played \in Played
  PROVE  /\ Overruled \in Played /\ Overruled.acted = {} /\ Overruled.steady = {}
         /\ Overruled.ended = played.ended /\ Overruled.paid = played.paid
BY DEF Overruled, Played

\* Then nothing is promised.
LEMMA OverruledIsFair ==
  ASSUME NEW past, past.acted = {}, past.steady = {}, NEW s, s.round <= saved.round,
         s.round \in Int, saved.round \in Int
  PROVE  Fair(past, s) /\ RoundFair(past, s)
BY DEF Fair, RoundFair

\* Another client selects the next turn.
LEMMA AdvanceElsewhereIsGood ==
  ASSUME IndInv, AdvanceElsewhere, UNCHANGED table
  PROVE  Good
<1> DEFINE s == Advance(saved)
<1>1. /\ Startable(saved, NextTurn(saved)) /\ NextTurn(saved).round <= MaxRound
      /\ Edit("advance", s) /\ played' = Advanced(saved, saved')
  BY DEF AdvanceElsewhere
<1>2. /\ Writable(saved) /\ saved' = s /\ seen' = Unsurprised(s)
      /\ UNCHANGED <<asked, attempts, ran>>
  BY <1>1, EditIs
<1>3. Writes(saved, s)
  BY <1>1, <1>2, AdvanceWrites
<1>4. Sound(s) /\ SameTurn(s, s) /\ played' = Advanced(saved, s)
  BY <1>1, <1>2, <1>3 DEF Writes, SameTurn
<1>5. Recorded(played', s) /\ Fair(played', s) /\ RoundFair(played', s)
  BY <1>1, <1>2, <1>4, AdvancedHistory
<1> HIDE DEF s
<1>6. QED
  BY <1>2, <1>3, <1>5, EditIsGood

\* The turn is given by hand.
LEMMA SetTurnIsGood ==
  ASSUME IndInv, SetTurn, UNCHANGED table
  PROVE  Good
<1>1. PICK p \in Roster(saved) : Edit("turn", SelectTurn(saved, p)) /\ played' = Overruled
  BY DEF SetTurn
<1> DEFINE s == SelectTurn(saved, p)
<1>2. /\ Writable(saved) /\ saved' = s /\ seen' = Unsurprised(s)
      /\ UNCHANGED <<asked, attempts, ran>>
      /\ Sound(saved) /\ played \in Played /\ played.ended = saved.outgoing
      /\ PaidUp(played, saved.claims)
  BY <1>1, EditIs
<1>3. /\ Writes(saved, s) /\ s.round = saved.round /\ s.outgoing = saved.outgoing
      /\ s.claims = saved.claims
  BY <1>2, SelectTurnWrites
<1> HIDE DEF s
<1>4. saved.round \in Int
  BY <1>2, Fields
<1>5. Recorded(played', s)
  BY <1>1, <1>2, <1>3, Overrules DEF Recorded, PaidUp
<1>6. Fair(played', s) /\ RoundFair(played', s)
  BY <1>1, <1>2, <1>3, <1>4, Overrules, OverruledIsFair
<1>7. QED
  BY <1>2, <1>3, <1>5, <1>6, EditIsGood

\* A participant drops out or comes back.
LEMMA ToggleIsGood ==
  ASSUME IndInv, Toggle, UNCHANGED table
  PROVE  Good
<1>1. PICK p \in Roster(saved) :
        /\ Edit("toggle",
                Touched([saved EXCEPT !.active = IF p \in @ THEN @ \ {p} ELSE @ \cup {p}]))
        /\ played' = [played EXCEPT !.steady = @ \ {p}]
  BY DEF Toggle
<1> DEFINE s == Touched([saved EXCEPT !.active = IF p \in @ THEN @ \ {p} ELSE @ \cup {p}])
<1>2. /\ Writable(saved) /\ saved' = s /\ seen' = Unsurprised(s)
      /\ UNCHANGED <<asked, attempts, ran>>
      /\ Sound(saved) /\ played \in Played /\ played.ended = saved.outgoing
      /\ PaidUp(played, saved.claims) /\ Fair(played, saved)
  BY <1>1, EditIs
<1>3. p \in Participants /\ saved.round \in Int
  BY <1>2, Fields
<1>4. /\ Writes(saved, s) /\ SameTurn(saved, s) /\ saved.active \ {p} \subseteq s.active
      /\ s.outgoing = saved.outgoing /\ s.claims = saved.claims
  BY <1>2, <1>3, ToggleWrites
<1> HIDE DEF s
<1>5. /\ played' \in Played /\ played'.steady = played.steady \ {p}
      /\ played'.acted = played.acted /\ played'.ended = played.ended
      /\ played'.paid = played.paid
  BY <1>1, <1>2 DEF Played
<1>6. Recorded(played', s)
  BY <1>2, <1>4, <1>5 DEF Recorded, PaidUp
<1>7. Fair(played', s)
  BY <1>2, <1>4, <1>5 DEF Fair, SameTurn, Eligible, Roster, Place
<1>8. RoundFair(played', s)
  BY <1>3, <1>4 DEF RoundFair, SameTurn
<1>9. QED
  BY <1>2, <1>4, <1>6, <1>7, <1>8, EditIsGood

\* A participant comes before or after another.
LEMMA ReorderIsGood ==
  ASSUME IndInv, Reorder, UNCHANGED table
  PROVE  Good
<1>0. PICK p \in Roster(saved), q \in Roster(saved) :
        /\ p # q /\ played' = Overruled
        /\ \E order \in {Before(saved.roster, p, q), After(saved.roster, p, q)} :
             Edit("reorder", Touched([saved EXCEPT !.roster = order]))
  BY DEF Reorder
<1>1. PICK order \in {Before(saved.roster, p, q), After(saved.roster, p, q)} :
        Edit("reorder", Touched([saved EXCEPT !.roster = order]))
  BY <1>0
<1> DEFINE s == Touched([saved EXCEPT !.roster = order])
<1>2. /\ Writable(saved) /\ saved' = s /\ seen' = Unsurprised(s)
      /\ UNCHANGED <<asked, attempts, ran>>
      /\ Sound(saved) /\ played \in Played /\ played.ended = saved.outgoing
      /\ PaidUp(played, saved.claims)
  BY <1>1, EditIs
<1>3. /\ Writes(saved, s) /\ s.round = saved.round /\ s.outgoing = saved.outgoing
      /\ s.claims = saved.claims
  BY <1>0, <1>1, <1>2, ReorderWrites
<1> HIDE DEF s
<1>4. saved.round \in Int
  BY <1>2, Fields
<1>5. Recorded(played', s)
  BY <1>0, <1>2, <1>3, Overrules DEF Recorded, PaidUp
<1>6. Fair(played', s) /\ RoundFair(played', s)
  BY <1>0, <1>2, <1>3, <1>4, Overrules, OverruledIsFair
<1>7. QED
  BY <1>2, <1>3, <1>5, <1>6, EditIsGood

\* A participant is removed, and the turn passes on when it had it.
LEMMA RemoveIsGood ==
  ASSUME IndInv, RemoveParticipant, UNCHANGED table
  PROVE  Good
<1>1. PICK p \in Roster(saved) :
        /\ Without(saved, p).round <= MaxRound /\ Edit("remove", Without(saved, p))
        /\ played' = Released(IF p \in saved.current THEN Turned(saved, saved')
                              ELSE [played EXCEPT !.steady = @ \ {p}], {p})
  BY DEF RemoveParticipant
<1> DEFINE s == Without(saved, p)
           past == IF p \in saved.current THEN Turned(saved, s)
                   ELSE [played EXCEPT !.steady = @ \ {p}]
<1>2. /\ Writable(saved) /\ saved' = s /\ seen' = Unsurprised(s)
      /\ UNCHANGED <<asked, attempts, ran>>
      /\ Sound(saved) /\ played \in Played /\ played.ended = saved.outgoing
      /\ PaidUp(played, saved.claims) /\ Fair(played, saved)
  BY <1>1, EditIs
<1>3. /\ Writes(saved, s) /\ s.outgoing = saved.outgoing
      /\ s.roster = RemoveAt(saved.roster, Place(saved, p)) /\ s.active = saved.active \ {p}
      /\ s.claims = {c \in saved.claims : c.participant # p}
      /\ p \in saved.current => /\ s.current = TurnAfterRemoved(saved, p).current
                                /\ s.round = TurnAfterRemoved(saved, p).round
      /\ p \notin saved.current => s.current = saved.current /\ s.round = saved.round
  BY <1>1, <1>2, WithoutWrites
<1>4. played' = Released(past, {p})
  BY <1>1, <1>2
<1> HIDE DEF s
<1>5. /\ IsOrder(saved.roster) /\ saved.round \in Int /\ AtMostOne(saved.current) /\ Sound(s)
      /\ saved.current \subseteq Roster(saved)
  BY <1>2, <1>3, Fields DEF Writes
<1>6. Roster(s) = Roster(saved) \ {p}
  BY <1>3, <1>5, Removed DEF Roster, Place
<1>7. \A x, y \in Roster(s) : Place(s, x) <= Place(s, y) <=> Place(saved, x) <= Place(saved, y)
  BY <1>3, <1>5, RemovalKeepsOrder DEF Roster, Place
<1>8. Eligible(s) = Eligible(saved) \ {p}
  BY <1>3, <1>6 DEF Eligible
<1>9. /\ past \in Played /\ past.ended = played.ended /\ past.paid = played.paid
      /\ Fair(past, s) /\ RoundFair(past, s)
  <2>1. CASE p \in saved.current
    <3>1. past = Turned(saved, s)
      BY <2>1
    <3> HIDE DEF past
    <3>2. saved.current = {p}
      BY <1>5, <2>1 DEF AtMostOne
    <3>3. TurnAfterRemoved(saved, p) = TurnAmong(saved, saved.current, Eligible(s))
      BY <1>8, <3>2 DEF TurnAfterRemoved
    <3>4. Eligible(saved) \cap Roster(s) \subseteq Eligible(s)
      BY <1>6, <1>8
    <3>5. past \in Played /\ Fair(past, s) /\ RoundFair(past, s)
      BY <1>2, <1>3, <1>5, <1>6, <1>7, <2>1, <3>1, <3>3, <3>4, TurnsAreFair
    <3>6. past.ended = played.ended /\ past.paid = played.paid
      BY <1>2, <3>1, TurnedIs
    <3>7. QED
      BY <3>5, <3>6
  <2>2. CASE p \notin saved.current
    <3>1. past = [played EXCEPT !.steady = @ \ {p}]
      BY <2>2
    <3> HIDE DEF past
    <3>2. /\ past \in Played /\ past.steady = played.steady \ {p}
          /\ past.acted = played.acted /\ past.ended = played.ended /\ past.paid = played.paid
      BY <1>2, <3>1 DEF Played
    <3>3. RoundFair(past, s)
      BY <1>3, <1>5, <2>2 DEF RoundFair
    <3>4. past.steady \subseteq Eligible(s) /\ (s.current = {} => past.steady = {})
      BY <1>2, <1>3, <1>8, <2>2, <3>2 DEF Fair
    <3>5. s.current \subseteq Roster(s) /\ s.current = saved.current
      BY <1>3, <1>5, <1>6, <2>2
    <3>6. ASSUME NEW c \in s.current, NEW q \in past.acted \cap Roster(s)
          PROVE  Place(s, q) <= Place(s, c)
      <4>1. Place(saved, q) <= Place(saved, c)
        BY <1>2, <1>6, <3>2, <3>5, <3>6 DEF Fair
      <4>2. QED
        BY <1>7, <3>5, <3>6, <4>1
    <3>7. ASSUME NEW c \in s.current, NEW q \in past.steady \ past.acted
          PROVE  Place(s, c) < Place(s, q)
      <4>1. Place(saved, c) < Place(saved, q)
        BY <1>2, <3>2, <3>5, <3>7 DEF Fair
      <4>2. q \in Roster(s) /\ c \in Roster(s) /\ q \in Roster(saved) /\ c \in Roster(saved)
        BY <1>6, <3>4, <3>5, <3>7 DEF Eligible
      <4>3. Place(saved, c) \in Int /\ Place(saved, q) \in Int
        BY <1>5, <4>2, Listed DEF Place, Roster, IsOrder
      <4>4. IsOrder(s.roster)
        BY <1>5, Fields
      <4>5. Place(s, c) \in Int /\ Place(s, q) \in Int
        BY <4>2, <4>4, Listed DEF Place, Roster, IsOrder
      <4>6. ~(Place(s, q) <= Place(s, c))
        BY <1>7, <4>1, <4>2, <4>3
      <4>7. QED
        BY <4>5, <4>6
    <3>8. QED
      BY <3>2, <3>3, <3>4, <3>6, <3>7 DEF Fair
  <2>3. QED
    BY <2>1, <2>2
<1> HIDE DEF past
<1>10. PaidUp(past, saved.claims)
  BY <1>2, <1>9 DEF PaidUp
<1>11. s.claims = {c \in saved.claims : c.participant \notin {p}}
  BY <1>3
<1>12. /\ played' \in Played /\ PaidUp(played', s.claims)
       /\ played'.acted = past.acted /\ played'.steady = past.steady
       /\ played'.ended = past.ended
  BY <1>4, <1>9, <1>10, <1>11, Releases
<1>13. Recorded(played', s)
  BY <1>2, <1>3, <1>9, <1>12 DEF Recorded
<1>14. Fair(played', s) /\ RoundFair(played', s)
  BY <1>9, <1>12 DEF Fair, RoundFair
<1>15. QED
  BY <1>2, <1>3, <1>13, <1>14, EditIsGood

\* An edit that is not about turns.
LEMMA ConditionIsGood ==
  ASSUME IndInv, NEW what, NEW s, Edit(what, s), Writes(saved, s), SameTurn(saved, s),
         s.active = saved.active, s.outgoing = saved.outgoing, s.claims = saved.claims,
         UNCHANGED <<table, played>>
  PROVE  Good
<1>1. /\ saved' = s /\ seen' = Unsurprised(s) /\ UNCHANGED <<asked, attempts, ran>>
      /\ Sound(saved) /\ Recorded(played, saved) /\ Fair(played, saved)
  BY EditIs DEF IndInv
<1>2. saved.round \in Int
  BY <1>1, Fields
<1>3. Recorded(played', s)
  BY <1>1 DEF Recorded
<1>4. Fair(played', s)
  BY <1>1 DEF Fair, SameTurn, Eligible, Roster, Place
<1>5. RoundFair(played', s)
  BY <1>2 DEF RoundFair, SameTurn
<1>6. QED
  BY <1>1, <1>3, <1>4, <1>5, EditIsGood

\* A condition is added, removed or taken up.
LEMMA ConditionsAreGood ==
  ASSUME IndInv, Frighten \/ Calm \/ Stun, UNCHANGED table
  PROVE  Good
<1> USE DEF IndInv, Handled, Typed
<1>1. Sound(saved)
  OBVIOUS
<1>2. Roster(saved) \subseteq Participants
  BY <1>1, Fields
<1>3. CASE Frighten
  <2>1. PICK p \in Roster(saved), v \in 1..MaxValue : Edit("frighten", Frightened(saved, p, v))
    BY <1>3 DEF Frighten, Frightened
  <2>2. Writable(saved) /\ saved.conditions < MaxCondition /\ UNCHANGED played
    BY <1>3, <2>1, EditIs DEF Frighten
  <2>3. LET s == Frightened(saved, p, v)
        IN  /\ Writes(saved, s) /\ SameTurn(saved, s) /\ s.active = saved.active
            /\ s.outgoing = saved.outgoing /\ s.claims = saved.claims
    BY <1>2, <2>2, FrightenWrites
  <2>4. QED
    BY <2>1, <2>2, <2>3, ConditionIsGood
<1>4. CASE Calm
  <2>1. PICK p \in Roster(saved) : \E c \in saved.frightened[p] : Edit("calm", Calmed(saved, p, c))
    BY <1>4 DEF Calm, Calmed
  <2>2. PICK c : Edit("calm", Calmed(saved, p, c))
    BY <2>1
  <2>3. Writable(saved) /\ UNCHANGED played
    BY <1>4, <2>2, EditIs DEF Calm
  <2>4. LET s == Calmed(saved, p, c)
        IN  /\ Writes(saved, s) /\ SameTurn(saved, s) /\ s.active = saved.active
            /\ s.outgoing = saved.outgoing /\ s.claims = saved.claims
    BY <1>2, <2>3, CalmWrites
  <2>5. QED
    BY <2>2, <2>3, <2>4, ConditionIsGood
<1>5. CASE Stun
  <2>1. PICK p \in Roster(saved), v \in 1..MaxValue :
          Edit("stun", Touched([saved EXCEPT !.stunned[p] = v]))
    BY <1>5 DEF Stun
  <2> DEFINE s == Touched([saved EXCEPT !.stunned[p] = v])
  <2>2. Writable(saved) /\ UNCHANGED played
    BY <1>5, <2>1, EditIs DEF Stun
  <2>3. /\ Writes(saved, s) /\ SameTurn(saved, s) /\ s.active = saved.active
        /\ s.outgoing = saved.outgoing /\ s.claims = saved.claims
    BY <1>2, <2>2, StunWrites
  <2> HIDE DEF s
  <2>4. Edit("stun", s)
    BY <2>1 DEF s
  <2>5. QED
    BY <2>2, <2>3, <2>4, ConditionIsGood
<1>6. QED
  BY <1>3, <1>4, <1>5

\* A recovery that ends the turn releases every claim.
LEMMA RecoveryIsGood ==
  ASSUME IndInv, NEW what, NEW s, Edit(what, s), Writes(saved, s), s.outgoing = {},
         s.claims = {}, s.current = {}, s.round <= saved.round,
         played' = Recovered(Overruled, Participants), UNCHANGED table
  PROVE  Good
<1> DEFINE past == Released(Overruled, Participants)
           kept == {c \in saved.claims : c.participant \notin Participants}
<1>1. /\ saved' = s /\ seen' = Unsurprised(s) /\ UNCHANGED <<asked, attempts, ran>>
      /\ Sound(saved) /\ played \in Played /\ PaidUp(played, saved.claims)
  BY EditIs
<1>2. saved.round \in Int /\ s.round \in Int /\ saved.claims \subseteq Claims
  BY <1>1, Fields DEF Writes
<1>3. /\ Overruled \in Played /\ Overruled.acted = {} /\ Overruled.steady = {}
      /\ PaidUp(Overruled, saved.claims)
  BY <1>1, Overrules DEF PaidUp
<1>4. kept = {}
  BY <1>2 DEF Claims
<1>5. past \in Played /\ PaidUp(past, {}) /\ past.acted = {} /\ past.steady = {}
  <2>1. /\ kept = {c \in saved.claims : c.participant \notin Participants}
        /\ past = Released(Overruled, Participants)
    OBVIOUS
  <2> HIDE DEF kept, past
  <2>2. past \in Played /\ PaidUp(past, kept) /\ past.acted = {} /\ past.steady = {}
    BY <1>3, <2>1, Releases
  <2>3. QED
    BY <1>4, <2>2
<1>6. played' = [past EXCEPT !.ended = {}]
  BY DEF Recovered
<1> HIDE DEF past
<1>7. /\ played' \in Played /\ played'.ended = {} /\ played'.paid = past.paid
      /\ played'.acted = {} /\ played'.steady = {}
  BY <1>5, <1>6 DEF Played
<1>8. Recorded(played', s)
  BY <1>5, <1>7 DEF Recorded, PaidUp
<1>9. Fair(played', s) /\ RoundFair(played', s)
  BY <1>2, <1>7, OverruledIsFair
<1>10. QED
  BY <1>1, <1>8, <1>9, EditIsGood

\* A rest, or a reset of the encounter.
LEMMA RestsAreGood ==
  ASSUME IndInv, Rest \/ ResetEncounter, UNCHANGED table
  PROVE  Good
<1>1. Sound(saved)
  BY DEF IndInv, Handled, Typed
<1>2. saved.round \in 1..MaxRound
  BY <1>1, Fields
<1>3. CASE Rest
  <2> DEFINE s == EndTurn(saved)
  <2>1. Edit("rest", s) /\ played' = Recovered(Overruled, Participants)
    BY <1>3 DEF Rest
  <2>2. Writable(saved)
    BY <2>1, EditIs
  <2>3. /\ Writes(saved, s) /\ s.outgoing = {} /\ s.claims = {} /\ s.current = {}
        /\ s.round = saved.round
    BY <2>2, EndTurnWrites
  <2> HIDE DEF s
  <2>4. s.round <= saved.round
    BY <1>2, <2>3
  <2>5. QED
    BY <2>1, <2>3, <2>4, RecoveryIsGood
<1>4. CASE ResetEncounter
  <2> DEFINE s == Reset(saved)
  <2>1. Edit("reset", s) /\ played' = Recovered(Overruled, Participants)
    BY <1>4 DEF ResetEncounter
  <2>2. Writable(saved)
    BY <2>1, EditIs
  <2>3. /\ Writes(saved, s) /\ s.outgoing = {} /\ s.claims = {} /\ s.current = {}
        /\ s.round = 1
    BY <2>2, ResetWrites
  <2> HIDE DEF s
  <2>4. s.round <= saved.round
    BY <1>2, <2>3
  <2>5. QED
    BY <2>1, <2>3, <2>4, RecoveryIsGood
<1>5. QED
  BY <1>3, <1>4

\* A reset of one participant.
LEMMA ResetParticipantIsGood ==
  ASSUME IndInv, ResetParticipant, UNCHANGED table
  PROVE  Good
<1>1. PICK p \in Roster(saved) :
        IF p \in saved.current
          THEN /\ Edit("baseline", Baseline(EndTurn(saved), {p}))
               /\ played' = Recovered(Overruled, Participants)
          ELSE Edit("baseline", ResetOther(saved, p)) /\ played' = Recovered(played, {p})
  BY DEF ResetParticipant
<1>2. Sound(saved)
  BY DEF IndInv, Handled, Typed
<1>3. p \in Participants /\ saved.round \in Int
  BY <1>2, Fields
<1>4. CASE p \in saved.current
  <2> DEFINE s1 == EndTurn(saved)
             s == Baseline(s1, {p})
  <2>1. Edit("baseline", s) /\ played' = Recovered(Overruled, Participants)
    BY <1>1, <1>4
  <2>2. Writable(saved)
    BY <2>1, EditIs
  <2>3. /\ Writes(saved, s1) /\ s1.outgoing = {} /\ s1.claims = {} /\ s1.current = {}
        /\ s1.round = saved.round
    BY <2>2, EndTurnWrites
  <2> HIDE DEF s1
  <2>4. /\ Writes(saved, s) /\ SameTurn(s1, s) /\ s.outgoing = s1.outgoing
        /\ s.claims = s1.claims
    BY <1>3, <2>3, BaselineWrites
  <2> HIDE DEF s
  <2>5. s.outgoing = {} /\ s.claims = {} /\ s.current = {} /\ s.round <= saved.round
    BY <1>3, <2>3, <2>4 DEF SameTurn
  <2>6. QED
    BY <2>1, <2>4, <2>5, RecoveryIsGood
<1>5. CASE p \notin saved.current
  <2> DEFINE s == ResetOther(saved, p)
             past == Released(played, {p})
  <2>1. Edit("baseline", s) /\ played' = Recovered(played, {p})
    BY <1>1, <1>5
  <2>2. /\ Writable(saved) /\ saved' = s /\ seen' = Unsurprised(s)
        /\ UNCHANGED <<asked, attempts, ran>>
        /\ played \in Played /\ PaidUp(played, saved.claims) /\ Fair(played, saved)
    BY <2>1, EditIs
  <2>3. /\ Writes(saved, s) /\ SameTurn(saved, s) /\ saved.active \subseteq s.active
        /\ s.outgoing = {} /\ s.claims = {c \in saved.claims : c.participant # p}
    BY <1>3, <2>2, ResetOtherWrites
  <2> HIDE DEF s
  <2>4. s.claims = {c \in saved.claims : c.participant \notin {p}}
    BY <2>3
  <2>5. /\ past \in Played /\ PaidUp(past, s.claims)
        /\ past.acted = played.acted /\ past.steady = played.steady
    BY <2>2, <2>4, Releases
  <2>6. played' = [past EXCEPT !.ended = {}]
    BY <2>1 DEF Recovered
  <2> HIDE DEF past
  <2>7. /\ played' \in Played /\ played'.ended = {} /\ played'.paid = past.paid
        /\ played'.acted = played.acted /\ played'.steady = played.steady
    BY <2>5, <2>6 DEF Played
  <2>8. Recorded(played', s)
    BY <2>3, <2>5, <2>7 DEF Recorded, PaidUp
  <2>9. Fair(played', s)
    BY <2>2, <2>3, <2>7 DEF Fair, SameTurn, Eligible, Roster, Place
  <2>10. RoundFair(played', s)
    BY <1>3, <2>3 DEF RoundFair, SameTurn
  <2>11. QED
    BY <2>2, <2>3, <2>8, <2>9, <2>10, EditIsGood
<1>6. QED
  BY <1>4, <1>5

-----------------------------------------------------------------------------
(* The invariant.                                                          *)

\* An encounter begins without turns, bodies, receipts or claims.
LEMMA Initially == Init => IndInv
<1> SUFFICES ASSUME Init PROVE IndInv
  OBVIOUS
<1>1. IsOrder(table.order) /\ table \in Tables
  BY TableFacts DEF Init
<1>2. Nobody \in Requests
  BY TurnsAssumption DEF Nobody
<1>3. saved = [revision |-> 0, round |-> 1, current |-> {}, roster |-> table.order,
               active |-> ToSet(table.order), frightened |-> [p \in Participants |-> {}],
               stunned |-> [p \in Participants |-> 0], claims |-> {}, outgoing |-> {},
               boundaries |-> 0, conditions |-> 0, receipts |-> {}]
  BY DEF Init
<1>4. ToSet(table.order) \subseteq Participants
  BY <1>1 DEF IsOrder, ToSet
<1>5. Sound(saved)
  <2>1. IsRecord(saved)
    BY <1>3 DEF IsRecord
  <2>2. /\ saved.revision \in 0..MaxRevision /\ saved.round \in 1..MaxRound
        /\ saved.boundaries \in Nat /\ saved.boundaries <= saved.revision
        /\ saved.conditions \in 0..MaxCondition
    BY <1>3, TurnsAssumption
  <2>3. /\ IsOrder(saved.roster) /\ saved.current \subseteq Roster(saved)
        /\ AtMostOne(saved.current) /\ saved.active \subseteq Participants
    BY <1>1, <1>3, <1>4 DEF AtMostOne, Roster
  <2>4. /\ saved.frightened \in [Participants -> SUBSET Conditions]
        /\ saved.stunned \in [Participants -> 0..MaxValue]
    BY <1>3, TurnsAssumption
  <2>5. /\ saved.claims \subseteq Claims /\ saved.outgoing \subseteq Outgoing
        /\ AtMostOne(saved.outgoing) /\ saved.receipts \subseteq Requests
        /\ \A o \in saved.outgoing : o.boundary <= saved.boundaries
    BY <1>3 DEF AtMostOne
  <2>6. QED
    BY <2>1, <2>2, <2>3, <2>4, <2>5, Sounds
<1>6. Typed
  BY <1>1, <1>2, <1>5 DEF Typed, Init, Places, Answers
<1>7. Filled
  BY DEF Filled, Init, AtMostOne
<1>8. Receipts
  BY <1>3 DEF Receipts, Attempt, Init
<1>9. Bound
  BY DEF Bound, Init
<1>10. played = [acted |-> {}, steady |-> {}, ended |-> {}, paid |-> [c \in Claims |-> 0]]
  BY DEF Init
<1>11. Recorded(played, saved)
  BY <1>3, <1>10 DEF Recorded, Played, PaidUp
<1>12. Fair(played, saved)
  BY <1>3, <1>10 DEF Fair
<1>13. QED
  BY <1>6, <1>7, <1>8, <1>9, <1>11, <1>12 DEF IndInv, Handled

\* Every step keeps the invariant and does what the properties ask of it.
LEMMA StepsAreGood == IndInv /\ Next => Good
<1> SUFFICES ASSUME IndInv, Next PROVE Good
  OBVIOUS
<1>1. UNCHANGED table
  BY DEF Next
<1>2. CASE \E r \in table.requests : Fill(r)
  <2>1. IndInv'
    BY <1>1, <1>2, FillKeeps
  <2>2. UNCHANGED <<saved, ran, played>>
    BY <1>2 DEF Fill
  <2>3. QED
    BY <2>1, <2>2, QuietIsGood
<1>3. CASE \E t \in Threads : Step(t)
  <2>1. PICK t \in Threads : Step(t)
    BY <1>3
  <2>2. ASSUME IndInv', UNCHANGED <<saved, ran, played>> PROVE Good
    BY <2>2, QuietIsGood
  <2>3. CASE Begin(t) \/ Done(t)
    <3>1. IndInv'
      BY <1>1, <2>3, BeginKeeps
    <3>2. UNCHANGED <<saved, ran, played>>
      BY <2>3 DEF Begin, Done, history
    <3>3. QED
      BY <2>2, <3>1, <3>2
  <2>4. CASE Recover(t)
    <3>1. IndInv'
      BY <1>1, <2>4, RecoverKeeps
    <3>2. UNCHANGED <<saved, ran, played>>
      BY <2>4 DEF Recover, Rejected, Goto, history
    <3>3. QED
      BY <2>2, <3>1, <3>2
  <2>5. CASE Read(t)
    <3>1. IndInv'
      BY <1>1, <2>5, ReadKeeps
    <3>2. UNCHANGED <<saved, ran, played>>
      BY <2>5 DEF Read, Rejected, Goto, history
    <3>3. QED
      BY <2>2, <3>1, <3>2
  <2>6. CASE Bind(t)
    <3>1. IndInv'
      BY <1>1, <2>6, BindKeeps
    <3>2. UNCHANGED <<saved, ran, played>>
      BY <2>6 DEF Bind, Rejected, history
    <3>3. QED
      BY <2>2, <3>1, <3>2
  <2>7. CASE Fails(t)
    <3>1. IndInv'
      BY <1>1, <2>7, FailsKeeps
    <3>2. UNCHANGED <<saved, ran, played>>
      BY <2>7 DEF Fails, Rejected, history
    <3>3. QED
      BY <2>2, <3>1, <3>2
  <2>8. CASE CommitNext(t)
    BY <1>1, <2>8, CommitNextIsGood
  <2>9. CASE CommitSettle(t)
    BY <1>1, <2>9, CommitSettleIsGood
  <2>10. QED
    BY <2>1, <2>3, <2>4, <2>5, <2>6, <2>7, <2>8, <2>9 DEF Step
<1>4. CASE Edits
  BY <1>1, <1>4, AdvanceElsewhereIsGood, SetTurnIsGood, ToggleIsGood, ReorderIsGood, RemoveIsGood,
     ConditionsAreGood, RestsAreGood, ResetParticipantIsGood DEF Edits
<1>5. QED
  BY <1>2, <1>3, <1>4 DEF Next

\* So does every step, or no step.
LEMMA NextKeeps == IndInv /\ [Next]_vars => IndInv'
<1>1. ASSUME IndInv, UNCHANGED vars PROVE IndInv'
  BY <1>1 DEF IndInv, Handled, Typed, Filled, Receipts, Attempt, Bound, vars, attempts, history
<1>2. QED
  BY <1>1, StepsAreGood DEF Good

\* The invariant holds in every state.
THEOREM InductiveInvariant == Spec => []IndInv
BY Initially, NextKeeps, PTL DEF Spec

-----------------------------------------------------------------------------
(* What follows.                                                           *)

\* A set of at most one element is counted.
LEMMA CountOfOne ==
  ASSUME NEW S, AtMostOne(S)
  PROVE  Cardinality(S) <= 1
<1>1. CASE S = {}
  BY <1>1, FS_EmptySet
<1>2. CASE S # {}
  <2>1. PICK x \in S : TRUE
    BY <1>2
  <2>2. S = {x}
    BY <2>1 DEF AtMostOne
  <2>3. Cardinality({x}) = 1
    BY FS_Singleton
  <2>4. QED
    BY <2>2, <2>3
<1>3. QED
  BY <1>1, <1>2

\* The types of the variables: also that an order of turns has nobody twice, and
\* that whoever has the turn is in it, through removals and moves.
THEOREM TypesHold == Spec => []TypeOK
<1>1. IndInv => TypeOK
  <2> SUFFICES ASSUME IndInv PROVE TypeOK
    OBVIOUS
  <2>1. Typed /\ Sound(saved)
    BY DEF IndInv, Handled, Typed
  <2>2. Cardinality(saved.current) <= 1 /\ Cardinality(saved.outgoing) <= 1
    BY <2>1, CountOfOne DEF Sound
  <2>3. ran \in [Requests -> 0..2]
    <3>1. ran \in [Requests -> 0..1] /\ 0..1 \subseteq 0..2
      BY <2>1 DEF Typed
    <3>2. QED
      BY <3>1
  <2>4. QED
    BY <2>1, <2>2, <2>3 DEF TypeOK, Typed, Sound
<1>2. QED
  BY <1>1, InductiveInvariant, PTL

\* A client that is told ok had its command take effect, once, however many threads
\* worked on copies of it: recover_advance and condition_event_receipt look up the
\* receipt in the transaction that writes.
THEOREM OkIsOnce == Spec => []OkMeansDone
<1>1. IndInv => OkMeansDone
  BY DEF IndInv, Handled, Receipts, Attempt, OkMeansDone
<1>2. QED
  BY <1>1, InductiveInvariant, PTL

\* A command that is sent again after it took effect is answered by its receipt,
\* after any edits, rests, resets and removals: none of them touches receipts.
THEOREM RetriesAlwaysRecover == Spec => []RetriesRecover
<1>1. IndInv => RetriesRecover
  BY DEF IndInv, Handled, Receipts, Attempt, RetriesRecover
<1>2. QED
  BY <1>1, InductiveInvariant, PTL

\* A boundary of a turn is settled once until a recovery releases it: a settlement
\* with a reminder claims the round of that turn, also when the round has passed.
THEOREM BoundariesAreSettledOnce == Spec => []BoundariesSettleOnce
<1>1. IndInv => BoundariesSettleOnce
  BY DEF IndInv, Recorded, PaidUp, BoundariesSettleOnce
<1>2. QED
  BY <1>1, InductiveInvariant, PTL

\* A command takes effect only where its client saw what it changes
\* (event_execution::snapshot, advance_encounter_turn): every write moves the
\* revision that the body names.
THEOREM CommandsApplyToWhatIsSeen == Spec => CommandsApplyToWhatWasSeen
<1>1. IndInv /\ [Next]_vars => [\A r \in Requests : ran'[r] > ran[r] => r \in seen]_vars
  BY StepsAreGood DEF Good, Applies
<1>2. QED
  BY <1>1, InductiveInvariant, PTL DEF Spec, CommandsApplyToWhatWasSeen

\* A reminder settles the last turn that ended, and only what its participant had
\* then (outgoing_turns::boundary, retain_outgoing_frightened), although the plan
\* is made in an earlier session than the write.
THEOREM RemindersStayCurrent == Spec => RemindersAreCurrent
<1>1. IndInv /\ [Next]_vars => [Reminds]_vars
  BY StepsAreGood DEF Good
<1>2. QED
  BY <1>1, InductiveInvariant, PTL DEF Spec, RemindersAreCurrent, Reminds

\* The order of turns is fair for any number of participants (turns.rs): a round
\* ends when all who were eligible throughout took their turn, and nobody takes two,
\* whoever drops out, comes back or is removed.
THEOREM RoundsStayFair == Spec => RoundsAreFair
<1>1. IndInv /\ [Next]_vars => [RoundFair(played', saved')]_vars
  BY StepsAreGood DEF Good
<1>2. QED
  BY <1>1, InductiveInvariant, PTL DEF Spec, RoundsAreFair, RoundFair
=============================================================================
