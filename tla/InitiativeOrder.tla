--------------------------- MODULE InitiativeOrder ---------------------------
(***************************************************************************)
(* The order of initiative of an encounter as a sequence of participants   *)
(* (participant_keys_for_initiative, reorder_participant).  Initiative     *)
(* numbers are given anew with every change of the order, so only the      *)
(* places count.                                                           *)
(***************************************************************************)
EXTENDS Integers, SequencesExt

CONSTANT Participants

\* The place of a participant in initiative order.
PlaceIn(order, p) == CHOOSE i \in DOMAIN order : order[i] = p

\* The order with p before q.
Before(order, p, q) ==
  LET rest == RemoveAt(order, PlaceIn(order, p))
  IN  InsertAt(rest, PlaceIn(rest, q), p)

\* The order with p after q.
After(order, p, q) ==
  LET rest == RemoveAt(order, PlaceIn(order, p))
  IN  InsertAt(rest, PlaceIn(rest, q) + 1, p)
=============================================================================
