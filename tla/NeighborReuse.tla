--------------------------- MODULE NeighborReuse ---------------------------
(***************************************************************************)
(* The store of native neighbours that the threads of one runtime share    *)
(* (crates/atlas-search/src/neighbor_reuse.rs) and its use by a search     *)
(* (text.rs, native_vector_candidates).                                    *)
(*                                                                         *)
(* A mutex guards the epoch and the ready entries, an atomic counter the   *)
(* bytes; SQL, hydration and inference run outside both.  Each operation   *)
(* under the mutex and each use of the counter is a step.                  *)
(*                                                                         *)
(* An epoch is the reference revision: a runtime serves one workspace, in  *)
(* which a revision names one reference (Workspace, RevisionNamesReference)*)
(* The store promises to be independent of database lifetimes, so readers  *)
(* of an earlier revision may outlive a publication here although the      *)
(* locks of the workspace do not allow it.                                 *)
(***************************************************************************)
EXTENDS Integers, FiniteSets, SequencesExt

CONSTANTS
  Callers,      \* threads with an admitted search service
  Requests,     \* all that a key encodes besides the epoch
  Hash,         \* the digest of a request's key; it may collide
  Scoped,       \* requests with a scope of explicit record keys
  Unkeyable,    \* requests with a key above MAX_KEY_BYTES
  Oversized,    \* requests with a payload above the bound of an entry
  Charges,      \* identities of the charges that are out
  MaxEntries,   \* MAX_ENTRIES
  Base,         \* bytes of the store itself
  ChargeBytes,  \* bytes one key reserves
  Limit,        \* MAX_BYTES
  MaxRevision   \* bound of the model: publications

ASSUME ReuseAssumption ==
  /\ Scoped \subseteq Requests /\ Unkeyable \subseteq Requests /\ Oversized \subseteq Requests
  /\ MaxEntries \in Nat \ {0} /\ MaxRevision \in Nat
  /\ Base \in Nat /\ ChargeBytes \in Nat \ {0} /\ Limit \in Nat /\ Base <= Limit

VARIABLES
  revision,  \* of the workspace; 0 is not published yet
  session,   \* the revision each caller reads
  pc,        \* where each caller is
  request,   \* what it asks for
  held,      \* the charge of the key it holds, if any
  found,     \* the retained entry it borrows, if any
  answer,    \* the neighbours its search returned, if any
  epoch,     \* State.epoch, if any
  entries,   \* State.entries, the least recently used first
  live       \* Budget.live

callers == <<session, pc, request, held, found, answer>>
store == <<epoch, entries, live>>
vars == <<revision, callers, store>>

Revisions == 0..MaxRevision
Neighbors == [revision : Revisions, request : Requests]

\* RetainedNeighbors: the key with its charge, and the neighbours.
Entry == [charge : Charges, revision : Revisions, request : Requests,
          neighbors : Neighbors]

Places == {"closed", "admitted", "open", "reserved", "keyed", "hydrating",
           "removing", "searching", "inserting", "dropping"}

\* The neighbours a search in the caller's own session finds.
Exact(c) == [revision |-> session[c], request |-> request[c]]

EntrySet == {entries[i] : i \in DOMAIN entries}
Charged(es) == {e.charge : e \in es}
Borrowed == UNION {found[c] : c \in Callers}
Out == (UNION {held[c] : c \in Callers}) \cup Charged(Borrowed) \cup Charged(EntrySet)

TypeOK ==
  /\ revision \in Revisions /\ session \in [Callers -> Revisions]
  /\ pc \in [Callers -> Places] /\ request \in [Callers -> Requests]
  /\ held \in [Callers -> SUBSET Charges] /\ found \in [Callers -> SUBSET Entry]
  /\ answer \in [Callers -> SUBSET Neighbors]
  /\ epoch \in SUBSET Revisions /\ entries \in Seq(Entry) /\ live \in Nat

Init ==
  /\ revision = 0 /\ session = [c \in Callers |-> 0]
  /\ pc = [c \in Callers |-> "closed"]
  /\ request \in [Callers -> Requests]
  /\ held = [c \in Callers |-> {}] /\ found = [c \in Callers |-> {}]
  /\ answer = [c \in Callers |-> {}]
  /\ epoch = {} /\ entries = <<>> /\ live = Base

-----------------------------------------------------------------------------
(* The budget and the entries.                                             *)

\* Mutant: the digest alone identifies a key.
SameDigest(e, c) == e.revision = session[c] /\ Hash[e.request] = Hash[request[c]]

\* equal_key: the digest and all bytes, which hold the epoch and the request.
EqualKey(e, c) ==
  Hash[e.request] = Hash[request[c]] /\ e.revision = session[c] /\ e.request = request[c]

Free(charges) == live' = live - ChargeBytes * Cardinality(charges)

\* Entries leave the ready list; a borrower keeps its entry and the charge.
Unborrowed(es) == Charged(es \ Borrowed)

\* The positions of some of the entries, in their order.
Selections ==
  UNION {{f \in [1..n -> DOMAIN entries] : \A i, j \in 1..n : i < j => f[i] < f[j]} :
           n \in 0..Len(entries)}

\* Mutant: any other revision is a new epoch.
ObserveAny(c) ==
  IF epoch # {session[c]}
    THEN epoch' = {session[c]} /\ entries' = <<>> /\ Free(Unborrowed(EntrySet))
    ELSE UNCHANGED store

\* observe: only a later revision retires the entries.
Observe(c) ==
  IF epoch = {} \/ \E e \in epoch : session[c] > e
    THEN epoch' = {session[c]} /\ entries' = <<>> /\ Free(Unborrowed(EntrySet))
    ELSE UNCHANGED store

\* Mutant: an entry of a retired epoch is admitted.
RetainableLate(c) ==
  request[c] \notin Oversized /\ ~\E e \in EntrySet : EqualKey(e, c)

\* Mutant: a second entry under the same key.
RetainableTwice(c) == request[c] \notin Oversized /\ epoch = {session[c]}

Retainable(c) ==
  request[c] \notin Oversized /\ epoch = {session[c]} /\ ~\E e \in EntrySet : EqualKey(e, c)

-----------------------------------------------------------------------------
(* A caller.                                                               *)

Goto(c, where) == pc' = [pc EXCEPT ![c] = where]

Publish ==
  /\ revision < MaxRevision
  /\ revision' = revision + 1
  /\ UNCHANGED <<callers, store>>

Admit(c) ==
  /\ pc[c] = "closed" /\ revision > 0
  /\ session' = [session EXCEPT ![c] = revision]
  /\ Goto(c, "admitted")
  /\ UNCHANGED <<revision, request, held, found, answer, store>>

\* with_native_neighbor_reuse observes before any lookup.
Attach(c) ==
  /\ pc[c] = "admitted"
  /\ Observe(c)
  /\ Goto(c, "open")
  /\ UNCHANGED <<revision, session, request, held, found, answer>>

Close(c) ==
  /\ pc[c] = "open"
  /\ answer' = [answer EXCEPT ![c] = {}]
  /\ Goto(c, "closed")
  /\ UNCHANGED <<revision, session, request, held, found, store>>

\* Mutant: the last charge exceeds the limit.
Affordable == live <= Limit

Fits == live + ChargeBytes <= Limit

\* key: a scope of keys is not identified.  encode reserves the largest payload
\* before anything is allocated; without capacity the search runs without reuse.
Reserve(c) ==
  /\ pc[c] = "open"
  /\ \E r \in Requests : request' = [request EXCEPT ![c] = r]
  /\ answer' = [answer EXCEPT ![c] = {}]
  /\ IF request'[c] \notin Scoped /\ Fits
       THEN /\ \E id \in Charges \ Out : held' = [held EXCEPT ![c] = {id}]
            /\ live' = live + ChargeBytes
            /\ Goto(c, "reserved")
       ELSE UNCHANGED <<held, live>> /\ Goto(c, "searching")
  /\ UNCHANGED <<revision, session, found, epoch, entries>>

\* A key that cannot be encoded drops its charge.
Encode(c) ==
  /\ pc[c] = "reserved"
  /\ IF request[c] \in Unkeyable
       THEN held' = [held EXCEPT ![c] = {}] /\ Free(held[c]) /\ Goto(c, "searching")
       ELSE UNCHANGED <<held, live>> /\ Goto(c, "keyed")
  /\ UNCHANGED <<revision, session, request, found, answer, epoch, entries>>

\* get: a hit becomes the most recently used entry and is borrowed.
Hit(c) ==
  /\ pc[c] = "keyed" /\ epoch = {session[c]}
  /\ \E i \in DOMAIN entries :
       /\ EqualKey(entries[i], c) /\ \A j \in 1..(i - 1) : ~EqualKey(entries[j], c)
       /\ entries' = Append(RemoveAt(entries, i), entries[i])
       /\ found' = [found EXCEPT ![c] = {entries[i]}]
  /\ Goto(c, "hydrating")
  /\ UNCHANGED <<revision, session, request, held, answer, epoch, live>>

Miss(c) ==
  /\ pc[c] = "keyed"
  /\ epoch # {session[c]} \/ ~\E e \in EntrySet : EqualKey(e, c)
  /\ Goto(c, "searching")
  /\ UNCHANGED <<revision, session, request, held, found, answer, store>>

Hydrate(c) ==
  /\ pc[c] = "hydrating"
  /\ answer' = [answer EXCEPT ![c] = {e.neighbors : e \in found[c]}]
  /\ Goto(c, "dropping")
  /\ UNCHANGED <<revision, session, request, held, found, store>>

HydrateFails(c) ==
  /\ pc[c] = "hydrating"
  /\ Goto(c, "removing")
  /\ UNCHANGED <<revision, session, request, held, found, answer, store>>

\* remove: whatever is retained under the key by now; the others keep their
\* order.
Forget(c) ==
  /\ pc[c] = "removing"
  /\ \E f \in Selections :
       /\ {f[i] : i \in DOMAIN f} = {i \in DOMAIN entries : ~EqualKey(entries[i], c)}
       /\ entries' = [i \in DOMAIN f |-> entries[f[i]]]
  /\ Free(Unborrowed({e \in EntrySet : EqualKey(e, c)}))
  /\ Goto(c, "dropping")
  /\ UNCHANGED <<revision, session, request, held, found, answer, epoch>>

Search(c) ==
  /\ pc[c] = "searching"
  /\ answer' = [answer EXCEPT ![c] = {Exact(c)}]
  /\ Goto(c, IF held[c] = {} THEN "open" ELSE "inserting")
  /\ UNCHANGED <<revision, session, request, held, found, store>>

SearchFails(c) ==
  /\ pc[c] = "searching"
  /\ Goto(c, "dropping")
  /\ UNCHANGED <<revision, session, request, held, found, answer, store>>

\* insert: the key and its charge move into the entry, which may take the
\* place of the least recently used one.
Insert(c) ==
  /\ pc[c] = "inserting" /\ Retainable(c)
  /\ LET full == Len(entries) = MaxEntries
         kept == IF full THEN Tail(entries) ELSE entries
     IN  /\ \E id \in held[c], n \in answer[c] :
              entries' = Append(kept, [charge |-> id, revision |-> session[c],
                                       request |-> request[c], neighbors |-> n])
         /\ IF full THEN Free(Unborrowed({Head(entries)})) ELSE UNCHANGED live
  /\ held' = [held EXCEPT ![c] = {}]
  /\ Goto(c, "open")
  /\ UNCHANGED <<revision, session, request, found, answer, epoch>>

InsertRefused(c) ==
  /\ pc[c] = "inserting" /\ ~Retainable(c)
  /\ Goto(c, "dropping")
  /\ UNCHANGED <<revision, session, request, held, found, answer, store>>

\* The key is dropped, and the last reference to an evicted entry.
Drop(c) ==
  /\ pc[c] = "dropping"
  /\ LET others == EntrySet \cup UNION {found[b] : b \in Callers \ {c}}
     IN  Free(held[c] \cup Charged(found[c] \ others))
  /\ held' = [held EXCEPT ![c] = {}] /\ found' = [found EXCEPT ![c] = {}]
  /\ Goto(c, "open")
  /\ UNCHANGED <<revision, session, request, answer, epoch, entries>>

Step(c) ==
  \/ Admit(c) \/ Attach(c) \/ Close(c) \/ Reserve(c) \/ Encode(c)
  \/ Hit(c) \/ Miss(c) \/ Hydrate(c) \/ HydrateFails(c) \/ Forget(c)
  \/ Search(c) \/ SearchFails(c) \/ Insert(c) \/ InsertRefused(c) \/ Drop(c)

Next == Publish \/ \E c \in Callers : Step(c)

Spec == Init /\ [][Next]_vars

-----------------------------------------------------------------------------
\* What a search returns is what a search without the store returns in the
\* same session, whatever was published, evicted or hashed alike meanwhile.
AnswersAreExact == \A c \in Callers : answer[c] \subseteq {Exact(c)}

\* Nothing computed for a retired epoch is ready, however late it comes.
NothingRetiredIsReady == \A e \in EntrySet : epoch = {e.revision}

\* The counter is the bytes of the store and of every key that is alive, held,
\* ready or evicted but borrowed, and stays within the limit.
BudgetCoversAll ==
  live = Base + ChargeBytes * Cardinality(Out) /\ live <= Limit

\* Concurrent misses of one request retain one entry, and no more than the
\* store has room for.
OneEntryPerKey ==
  /\ Len(entries) <= MaxEntries
  /\ \A i, j \in DOMAIN entries :
       entries[i].revision = entries[j].revision /\ entries[i].request = entries[j].request
         => i = j

\* A reader admitted before a publication never takes the store back to the
\* epoch that the publication retired.
EpochAdvances ==
  [][\A e \in epoch : epoch' # {} /\ \A f \in epoch' : e <= f]_vars
=============================================================================
