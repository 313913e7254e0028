--------------------------- MODULE AdmittedStore ---------------------------
(***************************************************************************)
(* What a workspace promises to the code above crates/atlas-storage,       *)
(* without locks, connections or transactions: every change of the         *)
(* database is one atomic step, edits of saved state go on beside readers, *)
(* and nothing replaces the reference, the schema or the admission state   *)
(* while a product session is held.                                        *)
(***************************************************************************)
EXTENDS Integers

CONSTANTS
  Actors,
  Schemas,  \* the schema versions executables know
  Origins   \* the files an earlier program may have left

VARIABLES
  file,  \* a database file exists
  db,    \* its image: schema, revision, content, saved, complete, maintenance
  held   \* the reference each product session reads, or NotHeld

NotHeld == <<>>

vars == <<file, db, held>>

Reference(image) == <<image.schema, image.revision, image.content>>

Open(image) == image.schema > 0 /\ ~image.maintenance

Init ==
  /\ \E origin \in Origins : file = origin.file /\ db = origin.db
  /\ held = [a \in Actors |-> NotHeld]

\* A product session opens on the current, whole reference.
Hold(a) ==
  /\ file /\ Open(db) /\ db.complete
  /\ held[a] = NotHeld
  /\ held' = [held EXCEPT ![a] = Reference(db)]
  /\ UNCHANGED <<file, db>>

\* Sessions end one by one, or together with their process.
Drop ==
  /\ \E ended \in SUBSET Actors :
       held' = [a \in Actors |-> IF a \in ended THEN NotHeld ELSE held[a]]
  /\ UNCHANGED <<file, db>>

\* A session edits saved state and ends; the other sessions stay.
Edit(a) ==
  /\ held[a] = Reference(db)
  /\ db' = [db EXCEPT !.saved = @ + 1]
  /\ held' = [held EXCEPT ![a] = NotHeld]
  /\ UNCHANGED file

Drained == file /\ \A a \in Actors : held[a] = NotHeld

\* One new revision of the reference; a maintenance update ends with it.
Publish ==
  /\ Drained /\ db.schema > 0
  /\ db.maintenance \/ db.complete
  /\ db' = [db EXCEPT !.revision = @ + 1, !.content = @ + 1,
                      !.complete = TRUE, !.maintenance = FALSE]
  /\ UNCHANGED <<file, held>>

Mark ==
  /\ Drained /\ db.schema > 0
  /\ db' = [db EXCEPT !.maintenance = TRUE]
  /\ UNCHANGED <<file, held>>

Checkpoint ==
  /\ Drained /\ db.maintenance
  /\ db' = [db EXCEPT !.content = @ + 1, !.complete = FALSE]
  /\ UNCHANGED <<file, held>>

\* A closed workspace opens again only when its reference is whole.
Reopen ==
  /\ Drained /\ db.maintenance /\ db.complete
  /\ db' = [db EXCEPT !.maintenance = FALSE]
  /\ UNCHANGED <<file, held>>

\* A later schema; saved state, revision and marker are carried over.
Upgrade ==
  /\ Drained
  /\ \E schema \in Schemas, change \in {0, 1} :
       /\ schema > db.schema
       /\ db' = [db EXCEPT !.schema = schema, !.content = @ + change]
  /\ UNCHANGED <<file, held>>

\* An absent file is created without a header, or installed from a seed.
Create ==
  /\ ~file
  /\ file' = TRUE
  /\ UNCHANGED <<db, held>>

Install ==
  /\ ~file
  /\ file' = TRUE
  /\ db'.schema > 0 /\ Open(db') /\ db'.complete
  /\ UNCHANGED held

Next ==
  \/ \E a \in Actors : Hold(a) \/ Edit(a)
  \/ Drop \/ Publish \/ Mark \/ Checkpoint \/ Reopen \/ Upgrade \/ Create \/ Install

Spec == Init /\ [][Next]_vars
=============================================================================
