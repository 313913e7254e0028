--------------------------- MODULE EncounterTurns ---------------------------
(***************************************************************************)
(* The turns of one saved encounter: selection of the next turn, the       *)
(* receipts that let a client repeat a command whose answer it lost, the   *)
(* snapshot of the turn that ended last with the reminder of its end, and  *)
(* the claims that settle what a turn boundary does to conditions          *)
(* (atlas-app-service/src/encounters, atlas-local-state/src/encounters).   *)
(*                                                                         *)
(* Each write is one immediate transaction with one savepoint (Workspace). *)
(* A command reads in one or two sessions before it writes, so everything  *)
(* can change in between.  Two conditions stand for all: Stunned, which    *)
(* the start of a turn consumes, and Frightened, which a client reduces at *)
(* the end of one.  The edits of the other endpoints are one write each.   *)
(***************************************************************************)
EXTENDS InitiativeOrder, FiniteSets

CONSTANTS
  Tables,       \* the encounters that an instance begins with, see Table
  Threads,      \* of the service
  Requests,     \* bodies that clients submit, and submit again
  Kind,         \* next: Next turn; settle: end-of-turn recovery
  Id,           \* the request id in the body
  Subject,      \* the participant of a settlement
  Actions,      \* what a turn start regains, and Stunned takes
  MaxValue,     \* bound of the model: value of a condition
  MaxRound,     \* bound of the model
  MaxRevision,  \* bound of the model: revisions of any encounter
  MaxCondition  \* bound of the model: Frightened conditions ever added

Commands == {"advance", "turn", "toggle", "reorder", "remove", "frighten", "calm", "stun",
             "rest", "reset", "baseline"}

\* An encounter: its initiative order when it begins, the bodies its clients
\* submit, what other clients do to it, and the revisions that are explored.
Table(t) ==
  /\ t.order \in Seq(Participants) /\ IsInjective(t.order)
  /\ t.requests \subseteq Requests /\ t.others \subseteq Commands /\ t.revisions \in 0..MaxRevision

ASSUME TurnsAssumption ==
  /\ \A t \in Tables : Table(t)
  /\ Requests # {}
  /\ \A r \in Requests : Kind[r] \in {"next", "settle"} /\ Subject[r] \in Participants
  /\ Actions \in Nat \ {0} /\ MaxValue \in Nat
  /\ MaxRound \in Nat \ {0} /\ MaxRevision \in Nat /\ MaxCondition \in Nat

VARIABLES
  table,    \* which encounter it is
  saved,    \* the rows of the encounter
  asked,    \* the revision and the boundary in each body, once it is filled
  pc,       \* where each thread is
  request,  \* whose body it works on
  view,     \* the snapshot it read
  answer,   \* what it answered
  known,    \* history: the request had run when the attempt began
  ran,      \* history: how often each request took effect
  seen,     \* history: the requests whose client still sees the encounter as it is
  played    \* history: the turns of this round and what was settled

attempts == <<pc, request, view, answer, known>>
history == <<ran, seen, played>>
vars == <<table, saved, asked, attempts, history>>

\* Whose request an idle thread holds does not matter.
Nobody == CHOOSE r \in Requests : TRUE

Places == {"idle", "recovering", "reading", "binding", "committing", "answered"}
Answers == {"none", "ok", "stale", "refused", "failed"}
Conditions == [id : 1..MaxCondition, value : 1..MaxValue]
Boundaries == 0..MaxRevision  \* 0 is none
Outgoing == [boundary : Boundaries, participant : SUBSET Participants,
             round : 1..MaxRound, next : SUBSET Participants, due : SUBSET (1..MaxCondition)]
Claims == [participant : Participants, round : 1..MaxRound, kind : {"start", "end"}]

Saved ==
  [revision : 0..MaxRevision, round : 1..MaxRound, current : SUBSET Participants,
   roster : Seq(Participants), active : SUBSET Participants,
   frightened : [Participants -> SUBSET Conditions], stunned : [Participants -> 0..MaxValue],
   claims : SUBSET Claims, outgoing : SUBSET Outgoing,
   boundaries : Boundaries, conditions : 0..MaxCondition, receipts : SUBSET Requests]

Roster(s) == ToSet(s.roster)

TypeOK ==
  /\ saved \in Saved /\ Cardinality(saved.current) <= 1 /\ Cardinality(saved.outgoing) <= 1
  /\ saved.current \subseteq Roster(saved) /\ IsInjective(saved.roster)
  /\ pc \in [Threads -> Places] /\ answer \in [Threads -> Answers]
  /\ request \in [Threads -> Requests] /\ ran \in [Requests -> 0..2]

-----------------------------------------------------------------------------
(* The order of turns (turns.rs).                                          *)

Place(s, p) == PlaceIn(s.roster, p)

\* With initiative, not defeated, not disabled, not dead.
Eligible(s) == Roster(s) \cap s.active

First(s, ps) == CHOOSE p \in ps : \A q \in ps : Place(s, p) <= Place(s, q)

\* Mutant: the place of the current participant only counts while it is eligible.
TurnFromEligible(s, from, ps) ==
  LET later == {p \in ps : \A c \in from \cap ps : Place(s, c) < Place(s, p)}
  IN  CASE ps = {} -> [current |-> {}, round |-> s.round]
        [] ps # {} /\ later # {} -> [current |-> {First(s, later)}, round |-> s.round]
        [] OTHER -> [current |-> {First(s, ps)}, round |-> s.round + 1]

\* The first of ps after the current one, or else the first in the next round.
TurnAmong(s, from, ps) ==
  LET later == {p \in ps : \A c \in from : Place(s, c) < Place(s, p)}
  IN  CASE ps = {} -> [current |-> {}, round |-> s.round]
        [] ps # {} /\ later # {} -> [current |-> {First(s, later)}, round |-> s.round]
        [] OTHER -> [current |-> {First(s, ps)}, round |-> s.round + 1]

NextTurn(s) == TurnAmong(s, s.current, Eligible(s))

\* The replacement of a current participant that is removed.
TurnAfterRemoved(s, p) == TurnAmong(s, {p}, Eligible(s) \ {p})

-----------------------------------------------------------------------------
(* Writes.  The several increments of the revision in one write are one.   *)

Touched(s) == [s EXCEPT !.revision = @ + 1]

Claim(p, r, kind) == [participant |-> p, round |-> r, kind |-> kind]

Ids(p, s) == {c.id : c \in s.frightened[p]}

\* What the start of a turn claims: the actions that Stunned takes.
StartClaims(s, turn) ==
  {Claim(p, turn.round, "start") : p \in {q \in turn.current : s.stunned[q] > 0}}

\* Mutant: what the start of a turn claimed before does not matter.
StartableAgain(s, turn) == turn.round >= s.round

Startable(s, turn) == StartClaims(s, turn) \cap s.claims = {}

\* advance_turn_once: the snapshot of the outgoing turn replaces the last one,
\* the turn is set, and the incoming participant pays for Stunned.
Advance(s) ==
  LET turn == NextTurn(s)
      out == [boundary |-> s.boundaries + 1, participant |-> s.current, round |-> s.round,
              next |-> turn.current, due |-> UNION {Ids(p, s) : p \in s.current}]
  IN  Touched([s EXCEPT
        !.boundaries = @ + 1, !.outgoing = {out},
        !.current = turn.current, !.round = turn.round,
        !.claims = @ \cup StartClaims(s, turn),
        !.stunned = [p \in Participants |->
          IF p \in turn.current
            THEN IF @[p] > Actions THEN @[p] - Actions ELSE 0
            ELSE @[p]]])

Reduced(c) == IF c.value > 1 THEN {[c EXCEPT !.value = @ - 1]} ELSE {}

\* End-of-turn recovery of one participant, whose boundary is claimed.
Settle(s, p, plan, r) ==
  Touched([s EXCEPT
    !.frightened[p] = (@ \ plan) \cup UNION {Reduced(c) : c \in plan},
    !.claims = @ \cup {Claim(p, r, "end")}])

\* set_encounter_turn is about the position only.
SelectTurn(s, p) == Touched([s EXCEPT !.current = {p}])

\* Removal cascades to the conditions and the claims of the participant; the
\* snapshot of the last turn stays.
Without(s, p) ==
  LET turn == IF p \in s.current THEN TurnAfterRemoved(s, p)
              ELSE [current |-> s.current, round |-> s.round]
  IN  Touched([s EXCEPT
        !.roster = RemoveAt(@, Place(s, p)), !.active = @ \ {p},
        !.current = turn.current, !.round = turn.round,
        !.frightened[p] = {}, !.stunned[p] = 0,
        !.claims = {c \in @ : c.participant # p}])

\* Mutant: the snapshot of the last turn survives a rest.
EndTurnKeepingSnapshot(s) == Touched([s EXCEPT !.claims = {}, !.current = {}])

\* apply_recovery with end_turn: a rest, or a reset of the current participant.
EndTurn(s) == Touched([s EXCEPT !.outgoing = {}, !.current = {}, !.claims = {}])

\* The baseline of a participant, taken here to be eligible, without conditions
\* and with the initiative it has.
Baseline(s, ps) ==
  [s EXCEPT !.active = @ \cup (ps \cap Roster(s)),
            !.frightened = [p \in Participants |-> IF p \in ps THEN {} ELSE @[p]],
            !.stunned = [p \in Participants |-> IF p \in ps THEN 0 ELSE @[p]]]

\* Mutant: a reset forgets what ran before.
ResetAll(s) == [Baseline(EndTurn(s), Participants) EXCEPT !.round = 1, !.receipts = {}]

\* apply_recovery with reset_encounter: receipts of commands stay.
Reset(s) == [Baseline(EndTurn(s), Participants) EXCEPT !.round = 1]

\* apply_recovery for one participant that is not the current one.
ResetOther(s, p) ==
  Touched([Baseline(s, {p}) EXCEPT !.outgoing = {}, !.claims = {c \in @ : c.participant # p}])

-----------------------------------------------------------------------------
(* History: who took a turn in this round and who was eligible throughout, *)
(* the last turn that ended, and how often each boundary was settled since *)
(* its claims were released.                                               *)

\* A turn was selected by the order of turns, from s with the result s2.
Turned(s, s2) ==
  IF s.current = {} \/ s2.round > s.round
    THEN [played EXCEPT !.acted = s2.current, !.steady = Eligible(s2)]
    ELSE [played EXCEPT !.acted = @ \cup s2.current, !.steady = @ \cap Eligible(s2)]

\* The order was overruled: nothing is promised for this round.
Overruled == [played EXCEPT !.acted = {}, !.steady = {}]

Paid(past, claims) ==
  [past EXCEPT !.paid = [c \in Claims |-> @[c] + IF c \in claims THEN 1 ELSE 0]]

Released(past, ps) ==
  [past EXCEPT !.paid = [c \in Claims |-> IF c.participant \in ps THEN 0 ELSE @[c]]]

Advanced(s, s2) ==
  [Paid(Turned(s, s2), StartClaims(s, [current |-> s2.current, round |-> s2.round]))
     EXCEPT !.ended = s2.outgoing]

Recovered(past, ps) == [Released(past, ps) EXCEPT !.ended = {}]

Shown(s) == [round |-> s.round, current |-> s.current, roster |-> s.roster,
             active |-> s.active, frightened |-> s.frightened, stunned |-> s.stunned]

\* Those who still see the encounter as it is after s is written.
Unsurprised(s) == IF Shown(s) = Shown(saved) THEN seen ELSE {}

Init ==
  /\ table \in Tables
  /\ saved = [revision |-> 0, round |-> 1, current |-> {}, roster |-> table.order,
              active |-> ToSet(table.order), frightened |-> [p \in Participants |-> {}],
              stunned |-> [p \in Participants |-> 0], claims |-> {}, outgoing |-> {},
              boundaries |-> 0, conditions |-> 0, receipts |-> {}]
  /\ asked = [r \in Requests |-> {}]
  /\ pc = [t \in Threads |-> "idle"] /\ request = [t \in Threads |-> Nobody]
  /\ view = [t \in Threads |-> {}] /\ answer = [t \in Threads |-> "none"]
  /\ known = [t \in Threads |-> FALSE]
  /\ ran = [r \in Requests |-> 0] /\ seen = {}
  /\ played = [acted |-> {}, steady |-> {}, ended |-> {}, paid |-> [c \in Claims |-> 0]]

-----------------------------------------------------------------------------
(* A client fills a body once, from what it sees, and submits it any number *)
(* of times, because an answer can be lost.                                 *)

Fill(r) ==
  /\ asked[r] = {}
  /\ \E boundary \in IF Kind[r] = "next" THEN {0} ELSE 0..saved.boundaries :
       asked' = [asked EXCEPT ![r] = {[revision |-> saved.revision, boundary |-> boundary]}]
  /\ seen' = seen \cup {r}
  /\ UNCHANGED <<saved, attempts, ran, played>>

Begin(t) ==
  /\ pc[t] = "idle"
  /\ \E r \in Requests :
       /\ asked[r] # {}
       /\ request' = [request EXCEPT ![t] = r]
       /\ known' = [known EXCEPT ![t] = ran[r] > 0]
  /\ pc' = [pc EXCEPT ![t] = "recovering"]
  /\ UNCHANGED <<saved, asked, view, answer, history>>

Done(t) ==
  /\ pc[t] = "answered"
  /\ pc' = [pc EXCEPT ![t] = "idle"] /\ request' = [request EXCEPT ![t] = Nobody]
  /\ view' = [view EXCEPT ![t] = {}] /\ answer' = [answer EXCEPT ![t] = "none"]
  /\ known' = [known EXCEPT ![t] = FALSE]
  /\ UNCHANGED <<saved, asked, history>>

Goto(t, where) ==
  /\ pc' = [pc EXCEPT ![t] = where]
  /\ UNCHANGED <<saved, asked, request, view, answer, known, history>>

Answer(t, what) ==
  /\ pc' = [pc EXCEPT ![t] = "answered"] /\ answer' = [answer EXCEPT ![t] = what]
  /\ UNCHANGED <<asked, request, view, known>>

Rejected(t, what) == Answer(t, what) /\ UNCHANGED <<saved, history>>

SameId(r) == {q \in saved.receipts : Id[q] = Id[r] /\ Kind[q] = Kind[r]}

\* Mutant: an id that was used recovers whatever the intent is.
RecoversId(r) == SameId(r) # {}

\* recover_advance, condition_event_receipt: the id and the same intent.
Recovers(r) == r \in SameId(r)

Reused(r) == SameId(r) \ {r} # {}

\* Mutant: the comparison is the wrong way round.
StaleAhead(r) == \A a \in asked[r] : a.revision > saved.revision

Stale(r) == \A a \in asked[r] : a.revision # saved.revision

\* The receipt of a matching request is read first, and in a session of its own
\* for Next turn; a settlement reads its snapshot with it.
Recover(t) ==
  /\ pc[t] = "recovering"
  /\ LET r == request[t]
     IN  CASE Recovers(r) -> Rejected(t, "ok")
           [] ~Recovers(r) /\ Reused(r) -> Rejected(t, "refused")
           [] ~Recovers(r) /\ ~Reused(r) /\ Kind[r] = "next" -> Goto(t, "reading")
           [] OTHER ->
                IF Stale(r) THEN Rejected(t, "stale")
                ELSE /\ pc' = [pc EXCEPT ![t] = "binding"]
                     /\ view' = [view EXCEPT ![t] = {[plan |-> saved.frightened[Subject[r]],
                                                      round |-> saved.round]}]
                     /\ UNCHANGED <<saved, asked, request, answer, known, history>>

\* event_execution::snapshot, whose sources are prepared without a session.
Read(t) ==
  /\ pc[t] = "reading"
  /\ IF Stale(request[t]) THEN Rejected(t, "stale") ELSE Goto(t, "committing")

\* outgoing_turns::boundary: only the latest turn, its own participant, and
\* only when another turn followed.
Reminder(s, p, b) ==
  \E o \in s.outgoing : o.boundary = b /\ p \in o.participant /\ o.next # {}

\* retain_outgoing_frightened: what the participant had when its turn ended.
Due(o, plan) == {c \in plan : c.id \in o.due}

\* The reminder is checked in another session, and the plan made from both.
Bind(t) ==
  /\ pc[t] = "binding"
  /\ LET r == request[t]
     IN  \E a \in asked[r], v \in view[t] :
           LET plan == IF a.boundary = 0 THEN v.plan
                       ELSE UNION {Due(o, v.plan) : o \in saved.outgoing}
               at == IF a.boundary = 0 THEN v.round
                     ELSE CHOOSE n \in {o.round : o \in saved.outgoing} : TRUE
           IN  IF \/ a.boundary # 0 /\ ~Reminder(saved, Subject[r], a.boundary)
                  \/ plan = {}
                 THEN Rejected(t, "refused")
                 ELSE /\ pc' = [pc EXCEPT ![t] = "committing"]
                      /\ view' = [view EXCEPT ![t] = {[plan |-> plan, round |-> at]}]
                      /\ UNCHANGED <<saved, asked, request, answer, known, history>>

\* The write of a command takes effect with its receipt.
Effect(t, s) ==
  /\ saved' = [s EXCEPT !.receipts = @ \cup {request[t]}] /\ seen' = Unsurprised(s)
  /\ ran' = [ran EXCEPT ![request[t]] = @ + 1]
  /\ Answer(t, "ok")

\* advance_turn_once in the write of advance_encounter_turn.
CommitNext(t) ==
  /\ pc[t] = "committing" /\ Kind[request[t]] = "next"
  /\ LET r == request[t]
         turn == NextTurn(saved)
     IN  CASE Recovers(r) -> Rejected(t, "ok")
           [] ~Recovers(r) /\ Reused(r) -> Rejected(t, "refused")
           [] ~Recovers(r) /\ ~Reused(r) /\ Stale(r) -> Rejected(t, "stale")
           [] OTHER ->
                IF ~Startable(saved, turn) THEN Rejected(t, "refused")
                ELSE /\ turn.round <= MaxRound /\ saved.revision < table.revisions
                     /\ Effect(t, Advance(saved))
                     /\ played' = Advanced(saved, saved')

Claimable(p, r) == Claim(p, r, "end") \notin saved.claims

\* The round of the turn that a settlement is about.
Ending(a) == IF a.boundary = 0 THEN saved.round ELSE
  CHOOSE n \in {o.round : o \in saved.outgoing} : TRUE

\* write_condition_event for a settlement.
CommitSettle(t) ==
  /\ pc[t] = "committing" /\ Kind[request[t]] = "settle"
  /\ LET r == request[t]
         p == Subject[r]
     IN  \E a \in asked[r], v \in view[t] :
           CASE Recovers(r) -> Rejected(t, "ok")
             [] ~Recovers(r) /\ Reused(r) -> Rejected(t, "refused")
             [] ~Recovers(r) /\ ~Reused(r) /\ Stale(r) -> Rejected(t, "stale")
             [] OTHER ->
                  IF \/ ~Claimable(p, v.round)
                     \/ a.boundary = 0 /\ v.round # saved.round
                     \/ a.boundary # 0 /\ ~Reminder(saved, p, a.boundary)
                    THEN Rejected(t, "refused")
                    ELSE /\ saved.revision < table.revisions
                         /\ Effect(t, Settle(saved, p, v.plan, v.round))
                         /\ played' = Paid(played, {Claim(p, Ending(a), "end")})

\* A session is refused, the reference changed or the thread is cancelled.
Fails(t) ==
  /\ pc[t] \in {"recovering", "reading", "binding", "committing"}
  /\ Rejected(t, "failed")

-----------------------------------------------------------------------------
(* Commands of other clients, each with an id of its own.                  *)

Edit(what, s) ==
  /\ what \in table.others /\ saved.revision < table.revisions
  /\ saved' = s /\ seen' = Unsurprised(s) /\ UNCHANGED <<asked, attempts, ran>>

\* The body was filled from the current revision, with an id of its own.
AdvanceElsewhere ==
  /\ Startable(saved, NextTurn(saved)) /\ NextTurn(saved).round <= MaxRound
  /\ Edit("advance", Advance(saved)) /\ played' = Advanced(saved, saved')

SetTurn ==
  \E p \in Roster(saved) : Edit("turn", SelectTurn(saved, p)) /\ played' = Overruled

\* update_participant: defeated or back, disabled or active.
Toggle ==
  \E p \in Roster(saved) :
    /\ Edit("toggle", Touched([saved EXCEPT !.active = IF p \in @ THEN @ \ {p} ELSE @ \cup {p}]))
    /\ played' = [played EXCEPT !.steady = @ \ {p}]

\* reorder_participant: before or after another one.
Reorder ==
  \E p, q \in Roster(saved) :
    /\ p # q
    /\ \E order \in {Before(saved.roster, p, q), After(saved.roster, p, q)} :
         Edit("reorder", Touched([saved EXCEPT !.roster = order]))
    /\ played' = Overruled

RemoveParticipant ==
  \E p \in Roster(saved) :
    /\ Without(saved, p).round <= MaxRound
    /\ Edit("remove", Without(saved, p))
    /\ played' = Released(IF p \in saved.current THEN Turned(saved, saved')
                          ELSE [played EXCEPT !.steady = @ \ {p}], {p})

Frighten ==
  /\ saved.conditions < MaxCondition
  /\ \E p \in Roster(saved), v \in 1..MaxValue :
       Edit("frighten", Touched([saved EXCEPT
         !.frightened[p] = @ \cup {[id |-> saved.conditions + 1, value |-> v]},
         !.conditions = @ + 1]))
  /\ UNCHANGED played

Calm ==
  /\ \E p \in Roster(saved) : \E c \in saved.frightened[p] :
       Edit("calm", Touched([saved EXCEPT !.frightened[p] = @ \ {c}]))
  /\ UNCHANGED played

Stun ==
  /\ \E p \in Roster(saved), v \in 1..MaxValue :
       saved.stunned[p] # v /\ Edit("stun", Touched([saved EXCEPT !.stunned[p] = v]))
  /\ UNCHANGED played

Rest == Edit("rest", EndTurn(saved)) /\ played' = Recovered(Overruled, Participants)

ResetEncounter == Edit("reset", Reset(saved)) /\ played' = Recovered(Overruled, Participants)

ResetParticipant ==
  \E p \in Roster(saved) :
    IF p \in saved.current
      THEN Edit("baseline", Baseline(EndTurn(saved), {p})) /\ played' = Recovered(Overruled, Participants)
      ELSE Edit("baseline", ResetOther(saved, p)) /\ played' = Recovered(played, {p})

Edits ==
  \/ AdvanceElsewhere \/ SetTurn \/ Toggle \/ Reorder \/ RemoveParticipant
  \/ Frighten \/ Calm \/ Stun \/ Rest \/ ResetEncounter \/ ResetParticipant

Step(t) ==
  \/ Begin(t) \/ Recover(t) \/ Read(t) \/ Bind(t) \/ CommitNext(t) \/ CommitSettle(t)
  \/ Fails(t) \/ Done(t)

Next ==
  /\ (\E r \in table.requests : Fill(r)) \/ (\E t \in Threads : Step(t)) \/ Edits
  /\ UNCHANGED table

Spec == Init /\ [][Next]_vars

-----------------------------------------------------------------------------
\* Who is told that a command succeeded had exactly that command take effect,
\* and once, however often it was submitted and by how many threads.
OkMeansDone == \A t \in Threads : answer[t] = "ok" => ran[request[t]] = 1

\* A command that is submitted again after it took effect is never refused,
\* whatever changed since, not even after a rest or a reset (ADR 0061).
RetriesRecover == \A t \in Threads : known[t] => answer[t] \in {"none", "ok", "failed"}

\* A command takes effect on the encounter its client saw: two clients that
\* press Next turn together do not skip a turn.
CommandsApplyToWhatWasSeen ==
  [][\A r \in Requests : ran'[r] > ran[r] => r \in seen]_vars

\* What the start or the end of a turn does to a condition is done once, from
\* the reminder or without it, by any number of requests, until a recovery
\* releases the boundary.
BoundariesSettleOnce == \A c \in Claims : played.paid[c] <= 1

\* A reminder settles the turn that ended last, and only conditions that the
\* participant had then; a later turn, a rest or a reset retires it.
RemindersAreCurrent ==
  [][\A r \in Requests : ran'[r] > ran[r] /\ Kind[r] = "settle" =>
       \A a \in asked[r] : a.boundary # 0 =>
         \E e \in played.ended :
           /\ e.boundary = a.boundary /\ Subject[r] \in e.participant
           /\ \A c \in saved.frightened[Subject[r]] :
                c \notin saved'.frightened[Subject[r]] => c.id \in e.due]_vars

\* As long as nobody overrules the order of turns, a round ends when everybody
\* who was eligible throughout took a turn, and nobody takes two in a round,
\* also when participants drop out, come back or are removed.
RoundsAreFair ==
  [][/\ saved'.round > saved.round =>
          played.steady \cap Roster(saved') \subseteq played.acted
     /\ saved'.round = saved.round /\ saved.current # {} /\ saved'.current # saved.current
          /\ played'.acted # {} => saved'.current \cap played.acted = {}]_vars

\* ADR 0048:194: "Retry recovery precedes source/revision guards": a request
\* that matches one that took effect is not refused as stale.
MatchingRequestsRecover == \A t \in Threads : answer[t] = "stale" => ran[request[t]] = 0
=============================================================================
