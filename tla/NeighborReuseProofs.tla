------------------------ MODULE NeighborReuseProofs ------------------------
(***************************************************************************)
(* Proofs about NeighborReuse, for all callers, requests, digests, charges *)
(* and bounds: what a search returns is exact, nothing retired is ready, a *)
(* key is retained once, the counter is the bytes of the keys that are     *)
(* alive, and the epoch never goes back.                                   *)
(*                                                                         *)
(* That answers are exact rests on what a caller holds between its steps:  *)
(* what it borrowed is under its own key, and the entry of a key holds the *)
(* neighbours of that key.  That the counter is exact rests on the charges *)
(* being apart: no two keys alive, held or retained, have the same one, so *)
(* that the bytes given back are those of the charges that went.           *)
(***************************************************************************)
EXTENDS NeighborReuse, FiniteSetTheorems, SequenceTheorems, TLAPS

\* What a caller holds belongs to its request, and is gone between requests.
Caller(c) ==
  /\ answer[c] \subseteq {Exact(c)}
  /\ \A e \in found[c] :
       e.revision = session[c] /\ e.request = request[c] /\ e.neighbors = Exact(c)
  /\ pc[c] = "closed" => answer[c] = {}
  /\ pc[c] \notin {"hydrating", "removing", "dropping"} => found[c] = {}
  /\ pc[c] \in {"closed", "admitted", "open"} => held[c] = {}
  /\ \A x, y \in held[c] : x = y

\* An entry answers its own key.
Honest(e) == e.neighbors = [revision |-> e.revision, request |-> e.request]

\* There is at most one epoch.
OneEpoch == \A e, f \in epoch : e = f

\* What is behind AnswersAreExact.
Answering ==
  /\ OneEpoch
  /\ \A e \in EntrySet : Honest(e)
  /\ \A c \in Callers : Caller(c)

\* What is said of the ready entries.
Ready == NothingRetiredIsReady /\ OneEntryPerKey

\* No charge is paid for twice.
Charging ==
  /\ \A e, f \in EntrySet \cup Borrowed : e.charge = f.charge => e = f
  /\ \A c, d \in Callers : c # d => held[c] \cap held[d] = {}
  /\ \A c \in Callers : held[c] \cap Charged(EntrySet \cup Borrowed) = {}

\* The counter, and that the charges can be counted.
Accounts == IsFiniteSet(Out) /\ BudgetCoversAll

\* The inductive invariant.
IndInv == TypeOK /\ Answering /\ Ready /\ Charging /\ Accounts

-----------------------------------------------------------------------------
(* Sequences.                                                              *)

\* No two entries of a sequence have the same key.
DistinctKeys(s) ==
  \A i, j \in DOMAIN s : s[i].revision = s[j].revision /\ s[i].request = s[j].request => i = j

\* What a sequence holds.
Elements(s) == {s[i] : i \in DOMAIN s}

\* What a hit makes of the entries.
ToEnd(s, i) == Append(RemoveAt(s, i), s[i])

\* A sequence with one of its entries moved to the end.
LEMMA Moved ==
  ASSUME NEW s \in Seq(Entry), NEW i \in DOMAIN s
  PROVE  /\ ToEnd(s, i) \in Seq(Entry) /\ Len(ToEnd(s, i)) = Len(s)
         /\ Elements(ToEnd(s, i)) = Elements(s)
         /\ DistinctKeys(s) => DistinctKeys(ToEnd(s, i))
<1> DEFINE t == ToEnd(s, i)
           n == Len(s)
           g == [j \in 1..n |-> IF j < i THEN j ELSE IF j < n THEN j + 1 ELSE i]
           left == SubSeq(s, 1, i - 1)
           right == SubSeq(s, i + 1, n)
<1>1. n \in Nat /\ DOMAIN s = 1..n /\ i \in 1..n /\ \A j \in 1..n : s[j] \in Entry
  OBVIOUS
<1> HIDE DEF n
<1>2. left \in Seq(Entry) /\ Len(left) = i - 1 /\ \A j \in 1..(i - 1) : left[j] = s[j]
  BY <1>1
<1>3. right \in Seq(Entry) /\ Len(right) = n - i /\ \A j \in 1..(n - i) : right[j] = s[j + i]
  BY <1>1
<1> HIDE DEF left, right
<1>4. RemoveAt(s, i) = left \o right
  BY DEF RemoveAt, left, right, n
<1>5. /\ left \o right \in Seq(Entry) /\ Len(left \o right) = n - 1
      /\ \A j \in 1..(n - 1) : (left \o right)[j] = s[IF j < i THEN j ELSE j + 1]
  <2>1. /\ left \o right \in Seq(Entry) /\ Len(left \o right) = Len(left) + Len(right)
        /\ \A j \in 1..(Len(left) + Len(right)) :
             (left \o right)[j] = IF j <= Len(left) THEN left[j] ELSE right[j - Len(left)]
    BY <1>2, <1>3, ConcatProperties
  <2>2. Len(left) + Len(right) = n - 1
    BY <1>1, <1>2, <1>3
  <2>3. ASSUME NEW j \in 1..(n - 1) PROVE (left \o right)[j] = s[IF j < i THEN j ELSE j + 1]
    <3>1. CASE j < i
      BY <1>1, <1>2, <2>1, <2>2, <3>1
    <3>2. CASE ~(j < i)
      <4>1. (left \o right)[j] = right[j - (i - 1)]
        BY <1>1, <1>2, <2>1, <2>2, <3>2
      <4>2. j - (i - 1) \in 1..(n - i) /\ (j - (i - 1)) + i = j + 1
        BY <1>1, <3>2
      <4>3. right[j - (i - 1)] = s[j + 1]
        BY <1>3, <4>2
      <4>4. QED
        BY <3>2, <4>1, <4>3
    <3>3. QED
      BY <3>1, <3>2
  <2>4. QED
    BY <2>1, <2>2, <2>3
<1>6. t \in Seq(Entry) /\ Len(t) = n /\ \A j \in 1..n : t[j] = s[g[j]]
  <2> DEFINE rest == left \o right
  <2> HIDE DEF rest
  <2>1. t = Append(rest, s[i]) /\ rest \in Seq(Entry) /\ Len(rest) = n - 1 /\ s[i] \in Entry
    BY <1>1, <1>4, <1>5 DEF rest, ToEnd
  <2> HIDE DEF t
  <2>2. /\ t \in Seq(Entry) /\ Len(t) = n /\ t[n] = s[i]
        /\ \A j \in 1..(n - 1) : t[j] = rest[j]
    BY <1>1, <2>1, AppendProperties
  <2>3. \A j \in 1..(n - 1) : t[j] = s[IF j < i THEN j ELSE j + 1]
    BY <1>5, <2>2 DEF rest
  <2>4. ASSUME NEW j \in 1..n PROVE t[j] = s[g[j]]
    <3>1. CASE j = n
      <4>1. g[j] = i
        BY <1>1, <3>1
      <4>2. QED
        BY <2>2, <3>1, <4>1
    <3>2. CASE j # n
      <4>1. j \in 1..(n - 1) /\ j < n
        BY <1>1, <3>2
      <4>2. g[j] = IF j < i THEN j ELSE j + 1
        BY <4>1
      <4> HIDE DEF g
      <4>3. QED
        BY <2>3, <4>1, <4>2
    <3>3. QED
      BY <3>1, <3>2
  <2>5. QED
    BY <2>2, <2>4
<1> HIDE DEF t
<1>7. g \in [1..n -> DOMAIN s] /\ \A j, k \in 1..n : g[j] = g[k] => j = k
  <2>1. ASSUME NEW j \in 1..n PROVE g[j] \in 1..n
    BY <1>1
  <2>2. ASSUME NEW j \in 1..n, NEW k \in 1..n, g[j] = g[k] PROVE j = k
    <3>1. ASSUME NEW x \in 1..n
          PROVE  \/ x < i /\ g[x] = x
                 \/ x >= i /\ x < n /\ g[x] = x + 1
                 \/ x = n /\ g[x] = i
      <4>1. CASE x < i
        BY <4>1
      <4>2. CASE x >= i /\ x < n
        BY <1>1, <4>2
      <4>3. CASE x = n
        <5>1. ~(x < i) /\ ~(x < n)
          BY <1>1, <4>3
        <5>2. g[x] = i
          BY <5>1, Zenon
        <5>3. QED
          BY <4>3, <5>2
      <4> HIDE DEF g
      <4>4. QED
        BY <1>1, <4>1, <4>2, <4>3
    <3> HIDE DEF g
    <3>2. QED
      BY <1>1, <2>2, <3>1
  <2>3. g \in [1..n -> 1..n]
    BY <2>1
  <2> HIDE DEF g
  <2>4. QED
    BY <1>1, <2>2, <2>3
<1>8. {s[g[j]] : j \in 1..n} = {s[j] : j \in 1..n}
  <2>1. ASSUME NEW j \in 1..n PROVE \E k \in 1..n : g[k] = j
    <3>1. CASE j < i
      BY <1>1, <3>1
    <3>2. CASE j = i
      <4>1. g[n] = i /\ n \in 1..n
        BY <1>1
      <4>2. QED
        BY <3>2, <4>1
    <3>3. CASE j > i
      <4>1. j - 1 \in 1..n /\ g[j - 1] = j
        BY <1>1, <3>3
      <4>2. QED
        BY <4>1
    <3>4. QED
      BY <1>1, <3>1, <3>2, <3>3
  <2> HIDE DEF g
  <2>2. ASSUME NEW j \in 1..n PROVE s[g[j]] \in {s[k] : k \in 1..n}
    BY <1>1, <1>7
  <2>3. ASSUME NEW j \in 1..n PROVE s[j] \in {s[g[k]] : k \in 1..n}
    BY <2>1
  <2>4. QED
    BY <2>2, <2>3
<1> HIDE DEF g
<1>9. DOMAIN t = 1..n
  BY <1>6
<1>10. {t[j] : j \in 1..n} = {s[j] : j \in 1..n}
  <2>1. {t[j] : j \in 1..n} = {s[g[j]] : j \in 1..n}
    BY <1>6
  <2>2. QED
    BY <1>8, <2>1
<1>11. ASSUME DistinctKeys(s) PROVE DistinctKeys(t)
  <2> SUFFICES ASSUME NEW j \in 1..n, NEW k \in 1..n,
                      t[j].revision = t[k].revision, t[j].request = t[k].request
               PROVE  j = k
    BY <1>9 DEF DistinctKeys
  <2>1. g[j] \in DOMAIN s /\ g[k] \in DOMAIN s /\ t[j] = s[g[j]] /\ t[k] = s[g[k]]
    BY <1>6, <1>7
  <2>2. g[j] = g[k]
    BY <1>11, <2>1 DEF DistinctKeys
  <2>3. QED
    BY <1>7, <2>2
<1>12. QED
  BY <1>1, <1>6, <1>9, <1>10, <1>11 DEF n, t, Elements

\* OneEntryPerKey, said of the sequence.
LEMMA OnePerKey ==
  OneEntryPerKey <=> Len(entries) <= MaxEntries /\ DistinctKeys(entries)
BY DEF OneEntryPerKey, DistinctKeys

\* A hit reorders the entries.
LEMMA HitKeeps ==
  ASSUME TypeOK, NEW c \in Callers, Hit(c)
  PROVE  /\ entries' \in Seq(Entry) /\ Len(entries') = Len(entries) /\ EntrySet' = EntrySet
         /\ DistinctKeys(entries) => DistinctKeys(entries')
         /\ \E e \in EntrySet : EqualKey(e, c) /\ found' = [found EXCEPT ![c] = {e}]
<1>1. PICK i \in DOMAIN entries :
        /\ EqualKey(entries[i], c) /\ entries' = Append(RemoveAt(entries, i), entries[i])
        /\ found' = [found EXCEPT ![c] = {entries[i]}]
  BY DEF Hit
<1>2. entries \in Seq(Entry)
  BY DEF TypeOK
<1>3. /\ entries' \in Seq(Entry) /\ Len(entries') = Len(entries)
      /\ Elements(entries') = Elements(entries)
      /\ DistinctKeys(entries) => DistinctKeys(entries')
  <2>1. entries' = ToEnd(entries, i)
    BY <1>1 DEF ToEnd
  <2>2. QED
    BY <1>2, <2>1, Moved
<1>4. QED
  BY <1>1, <1>3 DEF EntrySet, Elements

\* What is forgotten leaves, and no other entry.
LEMMA ForgetKeeps ==
  ASSUME TypeOK, NEW c \in Callers, Forget(c)
  PROVE  /\ entries' \in Seq(Entry) /\ Len(entries') <= Len(entries)
         /\ EntrySet' = {e \in EntrySet : ~EqualKey(e, c)}
         /\ DistinctKeys(entries) => DistinctKeys(entries')
<1>1. PICK f \in Selections :
        /\ {f[i] : i \in DOMAIN f} = {i \in DOMAIN entries : ~EqualKey(entries[i], c)}
        /\ entries' = [i \in DOMAIN f |-> entries[f[i]]]
  BY DEF Forget
<1>2. entries \in Seq(Entry) /\ Len(entries) \in Nat /\ DOMAIN entries = 1..Len(entries)
  BY DEF TypeOK
<1>3. PICK n \in 0..Len(entries) :
        f \in [1..n -> DOMAIN entries] /\ \A i, j \in 1..n : i < j => f[i] < f[j]
  BY DEF Selections
<1>4. n \in Nat /\ n <= Len(entries) /\ DOMAIN f = 1..n /\ \A i \in 1..n : f[i] \in DOMAIN entries
  BY <1>2, <1>3
<1>5. entries' \in Seq(Entry) /\ Len(entries') = n /\ DOMAIN entries' = 1..n
      /\ \A i \in 1..n : entries'[i] = entries[f[i]]
  BY <1>1, <1>2, <1>4
<1>6. EntrySet' = {e \in EntrySet : ~EqualKey(e, c)}
  <2>1. EntrySet' = {entries'[i] : i \in 1..n}
    BY <1>5 DEF EntrySet
  <2>2. ASSUME NEW i \in 1..n PROVE entries'[i] \in {e \in EntrySet : ~EqualKey(e, c)}
    BY <1>1, <1>4, <1>5 DEF EntrySet
  <2>3. ASSUME NEW e \in EntrySet, ~EqualKey(e, c) PROVE \E i \in 1..n : e = entries'[i]
    <3>1. PICK k \in DOMAIN entries : e = entries[k]
      BY DEF EntrySet
    <3>2. PICK i \in DOMAIN f : f[i] = k
      BY <1>1, <2>3, <3>1
    <3>3. QED
      BY <1>4, <1>5, <3>1, <3>2
  <2>4. QED
    BY <2>1, <2>2, <2>3
<1>7. ASSUME DistinctKeys(entries) PROVE DistinctKeys(entries')
  <2> SUFFICES ASSUME NEW i \in 1..n, NEW j \in 1..n,
                      entries'[i].revision = entries'[j].revision,
                      entries'[i].request = entries'[j].request
               PROVE  i = j
    BY <1>5 DEF DistinctKeys
  <2>1. f[i] = f[j]
    BY <1>4, <1>5, <1>7 DEF DistinctKeys
  <2>2. f[i] \in Nat
    BY <1>2, <1>4
  <2>3. QED
    BY <1>3, <2>1, <2>2
<1>8. QED
  BY <1>4, <1>5, <1>6, <1>7

\* The entry that a caller inserts.
Inserted(c, id, n) ==
  [charge |-> id, revision |-> session[c], request |-> request[c], neighbors |-> n]

\* An insertion takes the place of at most one entry.
LEMMA InsertKeeps ==
  ASSUME TypeOK, OneEntryPerKey, NEW c \in Callers, Insert(c)
  PROVE  \E id \in held[c], n \in answer[c], old \in SUBSET EntrySet :
           /\ EntrySet' = (EntrySet \ old) \cup {Inserted(c, id, n)}
           /\ entries' \in Seq(Entry) /\ Len(entries') <= MaxEntries
           /\ DistinctKeys(entries')
           /\ Free(Unborrowed(old))
<1> DEFINE full == Len(entries) = MaxEntries
           kept == IF full THEN Tail(entries) ELSE entries
           old == IF full THEN {Head(entries)} ELSE {}
<1>1. PICK id \in held[c], n \in answer[c] : entries' = Append(kept, Inserted(c, id, n))
  BY DEF Insert, Inserted
<1> DEFINE e == Inserted(c, id, n)
<1>2. /\ entries \in Seq(Entry) /\ Len(entries) \in Nat /\ DOMAIN entries = 1..Len(entries)
      /\ MaxEntries \in Nat \ {0} /\ live \in Nat /\ ChargeBytes \in Nat
  BY ReuseAssumption DEF TypeOK
<1>3. e \in Entry /\ e.revision = session[c] /\ e.request = request[c]
  BY DEF Inserted, Entry, TypeOK, Neighbors
<1>4. Len(entries) <= MaxEntries /\ DistinctKeys(entries)
  BY OnePerKey
<1>5. \A i \in DOMAIN entries : ~(entries[i].revision = session[c] /\ entries[i].request = request[c])
  BY DEF Insert, Retainable, EntrySet, EqualKey
<1>6. /\ kept \in Seq(Entry) /\ Len(kept) + 1 <= MaxEntries
      /\ {kept[i] : i \in DOMAIN kept} = EntrySet \ old
      /\ DistinctKeys(kept) /\ old \subseteq EntrySet
      /\ \A i \in DOMAIN kept : ~(kept[i].revision = e.revision /\ kept[i].request = e.request)
  <2>1. CASE full
    <3>1. /\ entries # <<>> /\ kept = Tail(entries) /\ old = {entries[1]}
          /\ 1 \in DOMAIN entries
      BY <1>2, <2>1
    <3>2. kept \in Seq(Entry) /\ Len(kept) = Len(entries) - 1
          /\ \A i \in 1..Len(kept) : kept[i] = entries[i + 1]
      BY <1>2, <3>1, HeadTailProperties
    <3>3. /\ DOMAIN kept = 1..Len(kept)
          /\ \A i \in 1..Len(kept) : i + 1 \in DOMAIN entries
          /\ \A i \in DOMAIN entries : i # 1 => i - 1 \in 1..Len(kept) /\ kept[i - 1] = entries[i]
      <4> HIDE DEF kept
      <4>1. DOMAIN kept = 1..Len(kept) /\ \A i \in 1..Len(kept) : i + 1 \in DOMAIN entries
        BY <1>2, <3>2
      <4>2. ASSUME NEW i \in DOMAIN entries, i # 1
            PROVE  i - 1 \in 1..Len(kept) /\ kept[i - 1] = entries[i]
        <5>1. i - 1 \in 1..Len(kept) /\ (i - 1) + 1 = i
          BY <1>2, <3>2, <4>2
        <5>2. kept[i - 1] = entries[(i - 1) + 1]
          BY <3>2, <5>1
        <5>3. QED
          BY <5>1, <5>2
      <4>3. QED
        BY <4>1, <4>2
    <3> HIDE DEF kept, old, e
    <3>4. ASSUME NEW i \in DOMAIN entries, i # 1 PROVE entries[i] # entries[1]
      BY <1>4, <3>1, <3>4 DEF DistinctKeys
    <3>5. {kept[i] : i \in DOMAIN kept} = EntrySet \ old
      <4>1. ASSUME NEW i \in 1..Len(kept) PROVE kept[i] \in EntrySet \ old
        <5>1. i + 1 \in DOMAIN entries /\ i + 1 # 1 /\ kept[i] = entries[i + 1]
          BY <3>2, <3>3
        <5>2. QED
          BY <3>1, <3>4, <5>1 DEF EntrySet
      <4>2. ASSUME NEW x \in EntrySet \ old PROVE \E i \in 1..Len(kept) : x = kept[i]
        <5>1. PICK i \in DOMAIN entries : x = entries[i]
          BY DEF EntrySet
        <5>2. i # 1
          BY <3>1, <5>1
        <5>3. QED
          BY <3>3, <5>1, <5>2
      <4>3. QED
        BY <3>3, <4>1, <4>2
    <3>6. DistinctKeys(kept)
      <4> SUFFICES ASSUME NEW i \in 1..Len(kept), NEW j \in 1..Len(kept),
                          kept[i].revision = kept[j].revision, kept[i].request = kept[j].request
                   PROVE  i = j
        BY <3>3 DEF DistinctKeys
      <4>1. /\ i + 1 \in DOMAIN entries /\ kept[i] = entries[i + 1]
            /\ j + 1 \in DOMAIN entries /\ kept[j] = entries[j + 1]
        BY <3>2, <3>3
      <4>2. i + 1 = j + 1
        BY <1>4, <4>1 DEF DistinctKeys
      <4>3. QED
        BY <4>2
    <3>7. \A i \in DOMAIN kept : ~(kept[i].revision = e.revision /\ kept[i].request = e.request)
      BY <1>3, <1>5, <3>2, <3>3
    <3>8. old \subseteq EntrySet
      BY <3>1 DEF EntrySet
    <3>9. QED
      BY <1>2, <1>4, <2>1, <3>2, <3>5, <3>6, <3>7, <3>8
  <2>2. CASE ~full
    <3>1. kept = entries /\ old = {}
      BY <2>2
    <3> HIDE DEF kept, old, e
    <3>2. {kept[i] : i \in DOMAIN kept} = EntrySet \ old /\ old \subseteq EntrySet
      BY <3>1 DEF EntrySet
    <3>3. Len(kept) + 1 <= MaxEntries
      <4>0. Len(entries) \in Nat /\ MaxEntries \in Nat /\ Len(entries) <= MaxEntries
        BY <1>2, <1>4
      <4>1. Len(entries) < MaxEntries
        BY <2>2, <4>0
      <4>2. QED
        BY <1>2, <3>1, <4>1
    <3>4. \A i \in DOMAIN kept : ~(kept[i].revision = e.revision /\ kept[i].request = e.request)
      BY <1>3, <1>5, <3>1
    <3>5. QED
      BY <1>2, <1>4, <3>1, <3>2, <3>3, <3>4
  <2>3. QED
    BY <2>1, <2>2
<1>7. Free(Unborrowed(old))
  <2>1. CASE full
    BY <2>1 DEF Insert
  <2>2. CASE ~full
    <3>1. live' = live
      BY <2>2 DEF Insert
    <3>2. Unborrowed(old) = {}
      BY <2>2 DEF Unborrowed, Charged
    <3>3. Cardinality(Unborrowed(old)) = 0
      BY <3>2, FS_EmptySet
    <3>4. live - ChargeBytes * 0 = live
      BY <1>2
    <3>5. QED
      BY <3>1, <3>3, <3>4 DEF Free
  <2>3. QED
    BY <2>1, <2>2
<1> HIDE DEF kept, old, e
<1>8. /\ entries' \in Seq(Entry) /\ Len(entries') = Len(kept) + 1
      /\ entries'[Len(kept) + 1] = e /\ \A i \in 1..Len(kept) : entries'[i] = kept[i]
  BY <1>1, <1>3, <1>6, AppendProperties DEF e
<1>9. DOMAIN kept = 1..Len(kept) /\ Len(kept) \in Nat /\ DOMAIN entries' = 1..(Len(kept) + 1)
  BY <1>6, <1>8
<1>10. EntrySet' = (EntrySet \ old) \cup {e}
  <2>1. {entries'[i] : i \in DOMAIN entries'} = {kept[i] : i \in DOMAIN kept} \cup {e}
    BY <1>8, <1>9
  <2>2. QED
    BY <1>6, <2>1 DEF EntrySet
<1>11. DistinctKeys(entries')
  BY <1>6, <1>8, <1>9 DEF DistinctKeys
<1>12. QED
  BY <1>6, <1>7, <1>8, <1>10, <1>11 DEF e

-----------------------------------------------------------------------------
(* Types.                                                                  *)

\* What a search finds is well formed.
LEMMA ExactIsNeighbors ==
  ASSUME TypeOK, NEW c \in Callers
  PROVE  Exact(c) \in Neighbors
BY DEF TypeOK, Exact, Neighbors

\* A step writes the values of its own caller only.
LEMMA OthersStay ==
  ASSUME TypeOK, NEW c \in Callers, Step(c), NEW d \in Callers, d # c
  PROVE  /\ pc'[d] = pc[d] /\ session'[d] = session[d] /\ request'[d] = request[d]
         /\ held'[d] = held[d] /\ found'[d] = found[d] /\ answer'[d] = answer[d]
<1> USE DEF TypeOK, Goto
<1>1. CASE Admit(c)
  BY <1>1 DEF Admit
<1>2. CASE Attach(c)
  BY <1>2 DEF Attach
<1>3. CASE Close(c)
  BY <1>3 DEF Close
<1>4. CASE Reserve(c)
  BY <1>4 DEF Reserve
<1>5. CASE Encode(c)
  BY <1>5 DEF Encode
<1>6. CASE Hit(c)
  BY <1>6 DEF Hit
<1>7. CASE Miss(c)
  BY <1>7 DEF Miss
<1>8. CASE Hydrate(c)
  BY <1>8 DEF Hydrate
<1>9. CASE HydrateFails(c)
  BY <1>9 DEF HydrateFails
<1>10. CASE Forget(c)
  BY <1>10 DEF Forget
<1>11. CASE Search(c)
  BY <1>11 DEF Search
<1>12. CASE SearchFails(c)
  BY <1>12 DEF SearchFails
<1>13. CASE Insert(c)
  BY <1>13 DEF Insert
<1>14. CASE InsertRefused(c)
  BY <1>14 DEF InsertRefused
<1>15. CASE Drop(c)
  BY <1>15 DEF Drop
<1>16. QED
  BY <1>1, <1>2, <1>3, <1>4, <1>5, <1>6, <1>7, <1>8, <1>9, <1>10, <1>11, <1>12, <1>13, <1>14, <1>15 DEF Step

\* A step keeps the types, of the counter if it stays a number.
LEMMA TypesKept ==
  ASSUME TypeOK, OneEntryPerKey, NEW c \in Callers, Step(c), live' \in Nat
  PROVE  TypeOK'
<1> USE DEF Goto, Places
<1>1. CASE Admit(c)
  BY <1>1 DEF Admit, TypeOK, store
<1>2. CASE Attach(c)
  <2>1. (epoch' = {session[c]} /\ entries' = <<>>) \/ UNCHANGED <<epoch, entries>>
    BY <1>2 DEF Attach, Observe, store
  <2>2. epoch' \in SUBSET Revisions /\ entries' \in Seq(Entry)
    <3>1. session[c] \in Revisions /\ epoch \in SUBSET Revisions /\ entries \in Seq(Entry)
      BY DEF TypeOK
    <3>2. <<>> \in Seq(Entry)
      OBVIOUS
    <3>3. QED
      BY <2>1, <3>1, <3>2
  <2>3. QED
    BY <1>2, <2>2 DEF Attach, TypeOK
<1>3. CASE Close(c)
  BY <1>3 DEF Close, TypeOK, store
<1>4. CASE Reserve(c)
  BY <1>4 DEF Reserve, TypeOK, store
<1>5. CASE Encode(c)
  BY <1>5 DEF Encode, TypeOK, store
<1>6. CASE Hit(c)
  <2>1. entries' \in Seq(Entry) /\ \E e \in EntrySet : found' = [found EXCEPT ![c] = {e}]
    BY <1>6, HitKeeps
  <2>2. EntrySet \subseteq Entry
    BY DEF EntrySet, TypeOK
  <2>3. found' \in [Callers -> SUBSET Entry]
    BY <2>1, <2>2 DEF TypeOK
  <2>4. QED
    BY <1>6, <2>1, <2>3 DEF Hit, TypeOK
<1>7. CASE Miss(c)
  BY <1>7 DEF Miss, TypeOK, store
<1>8. CASE Hydrate(c)
  <2>1. {e.neighbors : e \in found[c]} \subseteq Neighbors
    BY DEF TypeOK, Entry
  <2>2. QED
    BY <1>8, <2>1 DEF Hydrate, TypeOK, store
<1>9. CASE HydrateFails(c)
  BY <1>9 DEF HydrateFails, TypeOK, store
<1>10. CASE Forget(c)
  <2>1. entries' \in Seq(Entry)
    BY <1>10, ForgetKeeps
  <2>2. QED
    BY <1>10, <2>1 DEF Forget, TypeOK
<1>11. CASE Search(c)
  <2>1. answer' \in [Callers -> SUBSET Neighbors]
    BY <1>11, ExactIsNeighbors DEF Search, TypeOK
  <2>2. QED
    BY <1>11, <2>1 DEF Search, TypeOK, store
<1>12. CASE SearchFails(c)
  BY <1>12 DEF SearchFails, TypeOK, store
<1>13. CASE Insert(c)
  <2>1. entries' \in Seq(Entry)
    BY <1>13, InsertKeeps
  <2>2. QED
    BY <1>13, <2>1 DEF Insert, TypeOK
<1>14. CASE InsertRefused(c)
  BY <1>14 DEF InsertRefused, TypeOK, store
<1>15. CASE Drop(c)
  BY <1>15 DEF Drop, TypeOK, store
<1>16. QED
  BY <1>1, <1>2, <1>3, <1>4, <1>5, <1>6, <1>7, <1>8, <1>9, <1>10, <1>11, <1>12, <1>13, <1>14, <1>15 DEF Step

-----------------------------------------------------------------------------
(* Answers.                                                                *)

\* What another caller has stays with its session and request.
LEMMA OthersKeep ==
  ASSUME TypeOK, NEW c \in Callers, Step(c), NEW d \in Callers, d # c, Caller(d)
  PROVE  Caller(d)'
BY OthersStay DEF Caller, Exact

\* What a caller has after its own step belongs to its request.
LEMMA CallerKeeps ==
  ASSUME TypeOK, Answering, NEW c \in Callers, Step(c)
  PROVE  Caller(c)'
<1> USE DEF TypeOK, Goto, Caller, Exact
<1>0. Caller(c)
  BY DEF Answering
<1>1. CASE Admit(c)
  BY <1>0, <1>1 DEF Admit
<1>2. CASE Attach(c)
  BY <1>0, <1>2 DEF Attach
<1>3. CASE Close(c)
  BY <1>0, <1>3 DEF Close
<1>4. CASE Reserve(c)
  BY <1>0, <1>4 DEF Reserve
<1>5. CASE Encode(c)
  BY <1>0, <1>5 DEF Encode
<1>6. CASE Hit(c)
  <2>1. PICK e \in EntrySet : EqualKey(e, c) /\ found' = [found EXCEPT ![c] = {e}]
    BY <1>6, HitKeeps
  <2>2. e.revision = session[c] /\ e.request = request[c] /\ e.neighbors = Exact(c)
    BY <2>1 DEF EqualKey, Answering, Honest
  <2>3. found'[c] = {e}
    BY <2>1
  <2>4. QED
    BY <1>0, <1>6, <2>2, <2>3 DEF Hit
<1>7. CASE Miss(c)
  BY <1>0, <1>7 DEF Miss
<1>8. CASE Hydrate(c)
  BY <1>0, <1>8 DEF Hydrate
<1>9. CASE HydrateFails(c)
  BY <1>0, <1>9 DEF HydrateFails
<1>10. CASE Forget(c)
  BY <1>0, <1>10 DEF Forget
<1>11. CASE Search(c)
  BY <1>0, <1>11 DEF Search
<1>12. CASE SearchFails(c)
  BY <1>0, <1>12 DEF SearchFails
<1>13. CASE Insert(c)
  BY <1>0, <1>13 DEF Insert
<1>14. CASE InsertRefused(c)
  BY <1>0, <1>14 DEF InsertRefused
<1>15. CASE Drop(c)
  BY <1>0, <1>15 DEF Drop
<1>16. QED
  BY <1>1, <1>2, <1>3, <1>4, <1>5, <1>6, <1>7, <1>8, <1>9, <1>10, <1>11, <1>12, <1>13, <1>14, <1>15 DEF Step

\* Only four operations touch the epoch or the entries.
LEMMA StoreStays ==
  ASSUME NEW c \in Callers, Step(c),
         ~Attach(c), ~Hit(c), ~Forget(c), ~Insert(c)
  PROVE  UNCHANGED <<epoch, entries>>
BY DEF Step, Admit, Close, Reserve, Encode, Miss, Hydrate, HydrateFails, Search, SearchFails,
       InsertRefused, Drop, store

\* Observing retires all ready entries or none.
LEMMA AttachChanges ==
  ASSUME NEW c \in Callers, Attach(c)
  PROVE  \/ /\ epoch' = {session[c]} /\ entries' = <<>> /\ EntrySet' = {}
            /\ epoch = {} \/ \E e \in epoch : session[c] > e
            /\ Free(Unborrowed(EntrySet))
         \/ UNCHANGED store
BY DEF Attach, Observe, EntrySet

\* No step returns or retains what is not exact.
LEMMA AnsweringKept ==
  ASSUME TypeOK, Answering, OneEntryPerKey, NEW c \in Callers, Step(c)
  PROVE  Answering'
<1>1. \A d \in Callers : Caller(d)'
  BY CallerKeeps, OthersKeep DEF Answering
<1>2. OneEpoch' /\ \A e \in EntrySet' : Honest(e)
  <2>1. CASE Attach(c)
    BY <2>1, AttachChanges DEF Answering, OneEpoch, store, EntrySet
  <2>2. CASE Hit(c)
    BY <2>2, HitKeeps DEF Answering, OneEpoch, Hit
  <2>3. CASE Forget(c)
    BY <2>3, ForgetKeeps DEF Answering, OneEpoch, Forget
  <2>4. CASE Insert(c)
    <3>1. PICK id \in held[c], n \in answer[c], old \in SUBSET EntrySet :
             EntrySet' = (EntrySet \ old) \cup {Inserted(c, id, n)}
      BY <2>4, InsertKeeps
    <3>2. n = Exact(c)
      BY DEF Answering, Caller
    <3>3. Honest(Inserted(c, id, n))
      BY <3>2 DEF Honest, Inserted, Exact
    <3>4. QED
      BY <2>4, <3>1, <3>3 DEF Answering, OneEpoch, Insert
  <2>5. CASE UNCHANGED <<epoch, entries>>
    BY <2>5 DEF Answering, OneEpoch, EntrySet
  <2>6. QED
    BY <2>1, <2>2, <2>3, <2>4, <2>5, StoreStays
<1>3. QED
  BY <1>1, <1>2 DEF Answering, Honest

-----------------------------------------------------------------------------
(* Ready entries.                                                          *)

\* No step leaves a retired entry or a second one under a key ready.
LEMMA ReadyKept ==
  ASSUME TypeOK, Ready, NEW c \in Callers, Step(c)
  PROVE  Ready'
<1>1. OneEntryPerKey /\ NothingRetiredIsReady /\ Len(entries) <= MaxEntries /\ DistinctKeys(entries)
  BY OnePerKey DEF Ready
<1> SUFFICES Len(entries') <= MaxEntries /\ DistinctKeys(entries') /\ NothingRetiredIsReady'
  BY DEF Ready, OneEntryPerKey, DistinctKeys
<1>2. Len(entries) \in Nat /\ MaxEntries \in Nat
  BY ReuseAssumption DEF TypeOK
<1>3. CASE Attach(c)
  <2>1. CASE entries' = <<>> /\ EntrySet' = {}
    BY <1>2, <2>1 DEF NothingRetiredIsReady, DistinctKeys
  <2>2. CASE UNCHANGED store
    BY <1>1, <2>2 DEF NothingRetiredIsReady, EntrySet, store
  <2>3. QED
    BY <1>3, <2>1, <2>2, AttachChanges
<1>4. CASE Hit(c)
  BY <1>1, <1>4, HitKeeps DEF NothingRetiredIsReady, Hit
<1>5. CASE Forget(c)
  <2>1. Len(entries') <= Len(entries) /\ Len(entries') \in Nat /\ DistinctKeys(entries')
    BY <1>1, <1>5, ForgetKeeps
  <2>2. NothingRetiredIsReady'
    BY <1>1, <1>5, ForgetKeeps DEF NothingRetiredIsReady, Forget
  <2>3. QED
    BY <1>1, <1>2, <2>1, <2>2
<1>6. CASE Insert(c)
  <2>1. PICK id \in held[c], n \in answer[c], old \in SUBSET EntrySet :
           /\ EntrySet' = (EntrySet \ old) \cup {Inserted(c, id, n)}
           /\ Len(entries') <= MaxEntries /\ DistinctKeys(entries')
    BY <1>1, <1>6, InsertKeeps
  <2>2. Inserted(c, id, n).revision = session[c] /\ epoch = {session[c]} /\ epoch' = epoch
    BY <1>6 DEF Inserted, Insert, Retainable
  <2>3. QED
    BY <1>1, <2>1, <2>2 DEF NothingRetiredIsReady
<1>7. CASE UNCHANGED <<epoch, entries>>
  BY <1>1, <1>7 DEF NothingRetiredIsReady, EntrySet
<1>8. QED
  BY <1>3, <1>4, <1>5, <1>6, <1>7, StoreStays

-----------------------------------------------------------------------------
(* Charges.                                                                *)

\* The entries that are ready or borrowed.
Alive == EntrySet \cup Borrowed

\* The charges of the keys that are not retained.
Owned == UNION {held[c] : c \in Callers}

\* The charges that are out, before and after a step.
LEMMA OutIs ==
  Out = Owned \cup Charged(Alive) /\ Out' = Owned' \cup Charged(Alive')
<1>1. Charged(Alive) = Charged(Borrowed) \cup Charged(EntrySet)
  BY DEF Charged, Alive
<1>2. Charged(Alive') = Charged(Borrowed') \cup Charged(EntrySet')
  BY DEF Charged, Alive
<1>3. Out = (Owned \cup Charged(Borrowed)) \cup Charged(EntrySet)
  BY Zenon DEF Out, Owned
<1>4. Out' = (Owned' \cup Charged(Borrowed')) \cup Charged(EntrySet')
  BY Zenon DEF Out, Owned, Charged
<1>5. QED
  BY <1>1, <1>2, <1>3, <1>4

\* The charges of what is dropped are the ones that are no longer out.
LEMMA Dropped ==
  ASSUME Charging, NEW h \in SUBSET Owned, NEW gone \in SUBSET Alive
  PROVE  /\ h \cup Charged(gone) \subseteq Out
         /\ (Owned \ h) \cup Charged(Alive \ gone) = Out \ (h \cup Charged(gone))
<1>1. Owned \cap Charged(Alive) = {}
  <2>1. ASSUME NEW x \in Owned PROVE x \notin Charged(Alive)
    <3>1. PICK c \in Callers : x \in held[c]
      BY DEF Owned
    <3>2. QED
      BY <3>1 DEF Charging, Alive
  <2>2. QED
    BY <2>1
<1>2. Charged(Alive) = Charged(gone) \cup Charged(Alive \ gone)
  BY DEF Charged
<1>3. Charged(gone) \cap Charged(Alive \ gone) = {}
  BY DEF Charged, Charging, Alive
<1>4. QED
  BY <1>1, <1>2, <1>3, OutIs

\* Bytes given back are the bytes of the charges that went.
LEMMA Freed ==
  ASSUME Accounts, NEW S \in SUBSET Out, Out' = Out \ S, Free(S)
  PROVE  Accounts' /\ live' \in Nat
<1> DEFINE n == Cardinality(Out)
           m == Cardinality(S)
<1>1. IsFiniteSet(Out) /\ live = Base + ChargeBytes * n /\ live <= Limit
  BY DEF Accounts, BudgetCoversAll
<1>2. IsFiniteSet(S) /\ m \in Nat /\ n \in Nat /\ m <= n
  BY <1>1, FS_Subset, FS_CardinalityType
<1>3. IsFiniteSet(Out') /\ Cardinality(Out') = n - m
  <2>1. IsFiniteSet(Out \ S) /\ Cardinality(Out \ S) = n - Cardinality(Out \cap S)
    BY <1>1, FS_Difference
  <2>2. Out \cap S = S
    OBVIOUS
  <2>3. QED
    BY <2>1, <2>2
<1>4. live' = live - ChargeBytes * m
  BY DEF Free
<1> HIDE DEF n, m
<1>5. Base \in Nat /\ ChargeBytes \in Nat /\ Limit \in Nat
  BY ReuseAssumption
<1>6. /\ ChargeBytes * n - ChargeBytes * m = ChargeBytes * (n - m)
      /\ ChargeBytes * m >= 0 /\ ChargeBytes * (n - m) >= 0 /\ ChargeBytes * n >= 0
      /\ ChargeBytes * n \in Int /\ ChargeBytes * m \in Int /\ ChargeBytes * (n - m) \in Int
  BY <1>2, <1>5
<1>7. live' = Base + ChargeBytes * (n - m) /\ live' <= Limit /\ live' \in Nat
  BY <1>1, <1>4, <1>5, <1>6
<1>8. QED
  BY <1>3, <1>7 DEF Accounts, BudgetCoversAll

\* Where no charge comes or goes the counter stays.
LEMMA NothingFreed ==
  ASSUME Accounts, live \in Nat, Out' = Out, live' = live
  PROVE  Accounts' /\ live' \in Nat
BY DEF Accounts, BudgetCoversAll

\* What is held and alive shrinks or stays.
LEMMA Shrunk ==
  ASSUME Charging, Alive' \subseteq Alive, \A c \in Callers : held'[c] \subseteq held[c]
  PROVE  Charging'
BY DEF Charging, Alive, Charged

\* What the other callers own is not what a caller owns.
LEMMA OwnedAfter ==
  ASSUME TypeOK, Charging, NEW c \in Callers, NEW h \in SUBSET held[c],
         held' = [held EXCEPT ![c] = held[c] \ h]
  PROVE  Owned' = Owned \ h /\ h \subseteq Owned
<1>1. ASSUME NEW x \in Owned' PROVE x \in Owned \ h
  BY <1>1 DEF Owned, Charging, TypeOK
<1>2. ASSUME NEW x \in Owned \ h PROVE x \in Owned'
  BY <1>2 DEF Owned, TypeOK
<1>3. h \subseteq Owned
  BY DEF Owned
<1>4. QED
  BY <1>1, <1>2, <1>3

\* Dropping what a caller holds, and entries that nobody has any more.
LEMMA DropsKeep ==
  ASSUME TypeOK, Charging, Accounts, NEW c \in Callers, NEW h \in SUBSET held[c],
         NEW gone \in SUBSET Alive,
         held' = [held EXCEPT ![c] = held[c] \ h],
         Alive' = Alive \ gone, Free(h \cup Charged(gone))
  PROVE  Charging' /\ Accounts' /\ live' \in Nat
<1>1. Owned' = Owned \ h /\ h \subseteq Owned
  BY OwnedAfter
<1>2. Out' = Out \ (h \cup Charged(gone)) /\ h \cup Charged(gone) \subseteq Out
  <2>1. Out' = Owned' \cup Charged(Alive')
    BY OutIs
  <2>2. QED
    BY <1>1, <2>1, Dropped
<1>3. Accounts' /\ live' \in Nat
  BY <1>2, Freed
<1>4. \A d \in Callers : held'[d] \subseteq held[d]
  BY DEF TypeOK
<1>5. Charging'
  BY <1>4, Shrunk
<1>6. QED
  BY <1>3, <1>5

\* A new charge.
LEMMA ReserveKeeps ==
  ASSUME TypeOK, Answering, Charging, Accounts, NEW c \in Callers, Reserve(c)
  PROVE  Charging' /\ Accounts' /\ live' \in Nat
<1>1. EntrySet' = EntrySet /\ Borrowed' = Borrowed /\ pc[c] = "open" /\ held[c] = {}
  BY DEF Reserve, EntrySet, Borrowed, Answering, Caller
<1>2. CASE request'[c] \notin Scoped /\ Fits
  <2>1. PICK id \in Charges \ Out : held' = [held EXCEPT ![c] = {id}]
    BY <1>2 DEF Reserve
  <2>2. live' = live + ChargeBytes /\ live + ChargeBytes <= Limit
    BY <1>2 DEF Reserve, Fits
  <2>3. \A d \in Callers : held'[d] = IF d = c THEN {id} ELSE held[d]
    BY <2>1 DEF TypeOK
  <2>4. Owned' = Owned \cup {id}
    <3>1. ASSUME NEW x \in Owned' PROVE x \in Owned \cup {id}
      BY <2>3, <3>1 DEF Owned
    <3>2. ASSUME NEW x \in Owned \cup {id} PROVE x \in Owned'
      BY <1>1, <2>3, <3>2 DEF Owned
    <3>3. QED
      BY <3>1, <3>2
  <2>5. Out' = Out \cup {id}
    <3>1. Out' = Owned' \cup Charged(Alive') /\ Alive' = Alive
      BY <1>1, OutIs DEF Alive
    <3>2. QED
      BY <2>4, <3>1, OutIs
  <2>6. Charging'
    <3>1. id \notin Owned /\ id \notin Charged(Alive)
      BY OutIs
    <3>2. \A d \in Callers : id \notin held[d]
      BY <3>1 DEF Owned
    <3>3. QED
      BY <1>1, <2>3, <3>1, <3>2 DEF Charging, Alive, Charged
  <2>7. IsFiniteSet(Out') /\ Cardinality(Out') = Cardinality(Out) + 1
    BY <2>1, <2>5, FS_AddElement DEF Accounts
  <2>8. live' = Base + ChargeBytes * Cardinality(Out')
    <3> DEFINE n == Cardinality(Out)
    <3>1. n \in Nat /\ live = Base + ChargeBytes * n
      BY FS_CardinalityType DEF Accounts, BudgetCoversAll
    <3> HIDE DEF n
    <3>2. ChargeBytes * (n + 1) = ChargeBytes * n + ChargeBytes
          /\ ChargeBytes * n \in Nat /\ Base \in Nat /\ ChargeBytes \in Nat
      BY <3>1, ReuseAssumption
    <3>3. live + ChargeBytes = Base + ChargeBytes * (n + 1)
      BY <3>1, <3>2
    <3>4. QED
      BY <2>2, <2>7, <3>3 DEF n
  <2>9. live' \in Nat
    BY <2>2, ReuseAssumption DEF TypeOK
  <2>10. QED
    BY <2>2, <2>6, <2>7, <2>8, <2>9 DEF Accounts, BudgetCoversAll
<1>3. CASE ~(request'[c] \notin Scoped /\ Fits)
  <2>1. held' = held /\ live' = live
    BY <1>3 DEF Reserve
  <2>2. Owned' = Owned /\ Alive' = Alive
    BY <1>1, <2>1 DEF Owned, Alive
  <2>3. Charging'
    BY <2>1, <2>2, Shrunk
  <2>4. Out' = Out
    BY <2>2, OutIs
  <2>5. QED
    BY <2>1, <2>3, <2>4, NothingFreed DEF TypeOK
<1>4. QED
  BY <1>2, <1>3

\* An operation that neither takes nor gives up a charge.
LEMMA RestKeeps ==
  ASSUME TypeOK, Charging, Accounts, held' = held, Alive' = Alive, live' = live
  PROVE  Charging' /\ Accounts' /\ live' \in Nat
<1>1. Charging'
  BY Shrunk
<1>2. Out' = Out
  BY OutIs DEF Owned
<1>3. QED
  BY <1>1, <1>2, NothingFreed DEF TypeOK

\* The charge of an inserted key moves into its entry.
LEMMA InsertAccounts ==
  ASSUME TypeOK, Answering, Charging, Accounts, OneEntryPerKey, NEW c \in Callers, Insert(c)
  PROVE  Charging' /\ Accounts' /\ live' \in Nat
<1>1. PICK id \in held[c], n \in answer[c], old \in SUBSET EntrySet :
         /\ EntrySet' = (EntrySet \ old) \cup {Inserted(c, id, n)}
         /\ Free(Unborrowed(old))
  BY InsertKeeps
<1> DEFINE new == Inserted(c, id, n)
           gone == old \ Borrowed
<1>2. new.charge = id /\ held[c] = {id}
  BY DEF Inserted, Answering, Caller
<1>3. Borrowed' = Borrowed /\ held' = [held EXCEPT ![c] = {}]
  BY DEF Insert, Borrowed
<1>4. gone \subseteq Alive /\ Unborrowed(old) = Charged(gone)
  BY DEF Alive, Unborrowed
<1> HIDE DEF new
<1>5. Alive' = (Alive \ gone) \cup {new}
  BY <1>1, <1>3 DEF Alive, new
<1>6. Owned' = Owned \ {id} /\ id \in Owned
  <2>1. held' = [held EXCEPT ![c] = held[c] \ {id}]
    BY <1>2, <1>3
  <2>2. {id} \in SUBSET held[c]
    OBVIOUS
  <2>3. QED
    BY <2>1, <2>2, OwnedAfter
<1>7. Out' = Out \ Charged(gone) /\ Charged(gone) \subseteq Out
  <2>1. Charged(Alive') = Charged(Alive \ gone) \cup {id}
    BY <1>2, <1>5 DEF Charged
  <2>2. {} \cup Charged(gone) \subseteq Out
        /\ (Owned \ {}) \cup Charged(Alive \ gone) = Out \ ({} \cup Charged(gone))
    BY <1>4, Dropped
  <2>3. QED
    BY <1>6, <2>1, <2>2, OutIs
<1>8. Accounts' /\ live' \in Nat
  BY <1>1, <1>4, <1>7, Freed
<1>9. \A d \in Callers : held'[d] = IF d = c THEN {} ELSE held[d]
  BY <1>3 DEF TypeOK
<1>10. \A e \in Alive : e.charge # id
  BY <1>2 DEF Charging, Alive, Charged
<1>11. Charging'
  <2>1. \A e, f \in Alive' : e.charge = f.charge => e = f
    BY <1>2, <1>5, <1>10 DEF Charging, Alive
  <2>2. \A d, b \in Callers : d # b => held'[d] \cap held'[b] = {}
    BY <1>9 DEF Charging
  <2>3. \A d \in Callers : held'[d] \cap Charged(Alive') = {}
    <3>1. ASSUME NEW d \in Callers, NEW x \in held'[d], x \in Charged(Alive') PROVE FALSE
      <4>1. d # c /\ x \in held[d] /\ x # id
        BY <1>2, <1>9, <3>1 DEF Charging
      <4>2. x \in Charged(Alive)
        BY <1>2, <1>5, <3>1, <4>1 DEF Charged
      <4>3. QED
        BY <4>1, <4>2 DEF Charging, Alive
    <3>2. QED
      BY <3>1
  <2>4. QED
    BY <2>1, <2>2, <2>3 DEF Charging, Alive, Charged
<1>12. QED
  BY <1>8, <1>11

\* Every step keeps the charges apart and the counter exact.
LEMMA AccountsKept ==
  ASSUME TypeOK, Answering, Ready, Charging, Accounts, NEW c \in Callers, Step(c)
  PROVE  Charging' /\ Accounts' /\ live' \in Nat
<1>0. OneEntryPerKey /\ Caller(c)
  BY DEF Ready, Answering
<1>1. CASE Attach(c)
  <2> DEFINE gone == EntrySet \ Borrowed
  <2>1. held' = held /\ Borrowed' = Borrowed
    BY <1>1 DEF Attach, Borrowed
  <2>2. CASE UNCHANGED store
    <3>1. Alive' = Alive /\ live' = live
      BY <2>1, <2>2 DEF Alive, EntrySet, store
    <3>2. QED
      BY <2>1, <3>1, RestKeeps
  <2>3. CASE EntrySet' = {} /\ Free(Unborrowed(EntrySet))
    <3>1. Alive' = Alive \ gone /\ gone \subseteq Alive
      BY <2>1, <2>3 DEF Alive
    <3>2. Unborrowed(EntrySet) = {} \cup Charged(gone)
      BY DEF Unborrowed
    <3>3. held' = [held EXCEPT ![c] = held[c] \ {}] /\ {} \in SUBSET held[c]
      BY <2>1 DEF TypeOK
    <3> HIDE DEF gone
    <3>4. QED
      BY <2>3, <3>1, <3>2, <3>3, DropsKeep
  <2>4. QED
    BY <1>1, <2>2, <2>3, AttachChanges
<1>2. CASE Reserve(c)
  BY <1>2, ReserveKeeps
<1>3. CASE Encode(c)
  <2>1. EntrySet' = EntrySet /\ Borrowed' = Borrowed
    BY <1>3 DEF Encode, EntrySet, Borrowed
  <2>2. Alive' = Alive
    BY <2>1 DEF Alive
  <2>3. CASE request[c] \in Unkeyable
    <3>1. held' = [held EXCEPT ![c] = held[c] \ held[c]]
      BY <1>3, <2>3 DEF Encode
    <3>2. held[c] = held[c] \cup Charged({}) /\ Alive = Alive \ {}
      BY DEF Charged
    <3>3. Free(held[c] \cup Charged({}))
      BY <1>3, <2>3, <3>2 DEF Encode
    <3>4. QED
      BY <2>2, <3>1, <3>2, <3>3, DropsKeep
  <2>4. CASE request[c] \notin Unkeyable
    BY <1>3, <2>2, <2>4, RestKeeps DEF Encode
  <2>5. QED
    BY <2>3, <2>4
<1>4. CASE Hit(c)
  <2>1. PICK e \in EntrySet : found' = [found EXCEPT ![c] = {e}]
    BY <1>4, HitKeeps
  <2>2. EntrySet' = EntrySet /\ held' = held /\ live' = live
    BY <1>4, HitKeeps DEF Hit
  <2>3. \A d \in Callers : found'[d] = IF d = c THEN {e} ELSE found[d]
    BY <2>1 DEF TypeOK
  <2>4. found[c] = {}
    BY <1>0, <1>4 DEF Hit, Caller
  <2>5. Alive' = Alive
    <3>1. ASSUME NEW x \in Alive PROVE x \in Alive'
      BY <2>2, <2>3, <2>4, <3>1 DEF Alive, Borrowed
    <3>2. ASSUME NEW x \in Alive' PROVE x \in Alive
      BY <2>2, <2>3, <3>2 DEF Alive, Borrowed
    <3>3. QED
      BY <3>1, <3>2
  <2>6. QED
    BY <2>2, <2>5, RestKeeps
<1>5. CASE Forget(c)
  <2> DEFINE same == {e \in EntrySet : EqualKey(e, c)}
             gone == same \ Borrowed
  <2>1. EntrySet' = EntrySet \ same
    BY <1>5, ForgetKeeps
  <2>2. Borrowed' = Borrowed /\ held' = held /\ Free(Unborrowed(same))
    BY <1>5 DEF Forget, Borrowed
  <2>3. Alive' = Alive \ gone /\ gone \subseteq Alive
    BY <2>1, <2>2 DEF Alive
  <2>4. Unborrowed(same) = {} \cup Charged(gone)
    BY DEF Unborrowed
  <2>5. held' = [held EXCEPT ![c] = held[c] \ {}] /\ {} \in SUBSET held[c]
    BY <2>2 DEF TypeOK
  <2> HIDE DEF gone, same
  <2>6. QED
    BY <2>2, <2>3, <2>4, <2>5, DropsKeep
<1>6. CASE Insert(c)
  BY <1>0, <1>6, InsertAccounts
<1>7. CASE Drop(c)
  <2> DEFINE others == EntrySet \cup UNION {found[b] : b \in Callers \ {c}}
             gone == found[c] \ others
  <2>1. Free(held[c] \cup Charged(gone))
    BY <1>7 DEF Drop
  <2>2. \A d \in Callers : found'[d] = IF d = c THEN {} ELSE found[d]
    BY <1>7 DEF Drop, TypeOK
  <2>3. EntrySet' = EntrySet /\ held' = [held EXCEPT ![c] = held[c] \ held[c]]
    BY <1>7 DEF Drop, EntrySet
  <2>4. Alive' = others
    <3>1. ASSUME NEW x \in others PROVE x \in Alive'
      BY <2>2, <2>3, <3>1 DEF Alive, Borrowed
    <3>2. ASSUME NEW x \in Alive' PROVE x \in others
      BY <2>2, <2>3, <3>2 DEF Alive, Borrowed
    <3>3. QED
      BY <3>1, <3>2
  <2>5. Alive = others \cup found[c]
    <3>1. ASSUME NEW x \in Alive PROVE x \in others \cup found[c]
      BY <3>1 DEF Alive, Borrowed
    <3>2. ASSUME NEW x \in others \cup found[c] PROVE x \in Alive
      BY <3>2 DEF Alive, Borrowed
    <3>3. QED
      BY <3>1, <3>2
  <2> HIDE DEF others
  <2>6. Alive' = Alive \ gone /\ gone \subseteq Alive
    BY <2>4, <2>5
  <2> HIDE DEF gone
  <2>7. QED
    BY <2>1, <2>3, <2>6, DropsKeep
<1>8. CASE ~Attach(c) /\ ~Reserve(c) /\ ~Encode(c) /\ ~Hit(c) /\ ~Forget(c) /\ ~Insert(c) /\ ~Drop(c)
  <2>1. held' = held /\ found' = found /\ entries' = entries /\ live' = live
    BY <1>8 DEF Step, Admit, Close, Miss, Hydrate, HydrateFails, Search, SearchFails,
                InsertRefused, store
  <2>2. Alive' = Alive
    BY <2>1 DEF Alive, EntrySet, Borrowed
  <2>3. QED
    BY <2>1, <2>2, RestKeeps
<1>9. QED
  BY <1>1, <1>2, <1>3, <1>4, <1>5, <1>6, <1>7, <1>8

-----------------------------------------------------------------------------
(* The invariant.                                                          *)

\* The invariant holds of the empty store.
LEMMA InitHolds ==
  ASSUME Init
  PROVE  IndInv
<1>1. EntrySet = {} /\ Borrowed = {} /\ Owned = {}
  BY DEF Init, EntrySet, Borrowed, Owned
<1>2. Out = {}
  BY <1>1, OutIs DEF Alive, Charged
<1>3. Accounts
  <2>1. IsFiniteSet(Out) /\ Cardinality(Out) = 0
    BY <1>2, FS_EmptySet
  <2>2. ChargeBytes * 0 = 0 /\ Base \in Nat /\ Base <= Limit
    BY ReuseAssumption
  <2>3. live = Base + ChargeBytes * 0
    BY <2>2 DEF Init
  <2>4. QED
    BY <2>1, <2>2, <2>3 DEF Accounts, BudgetCoversAll
<1>4. Charging
  BY <1>1 DEF Charging, Init
<1>5. Answering
  BY <1>1 DEF Answering, OneEpoch, Caller, Init
<1>6. Ready
  BY <1>1, ReuseAssumption DEF Ready, NothingRetiredIsReady, OneEntryPerKey, Init
<1>7. TypeOK
  <2>1. 0 \in Revisions /\ Base \in Nat
    BY ReuseAssumption DEF Revisions
  <2>2. QED
    BY <2>1 DEF Init, TypeOK, Places
<1>8. QED
  BY <1>3, <1>4, <1>5, <1>6, <1>7 DEF IndInv

\* Every step keeps it.
LEMMA NextKeeps ==
  ASSUME IndInv, [Next]_vars
  PROVE  IndInv'
<1> USE DEF IndInv
<1>1. CASE Publish
  <2>1. UNCHANGED <<session, pc, request, held, found, answer, epoch, entries, live>>
    BY <1>1 DEF Publish, callers, store
  <2>2. TypeOK'
    BY <1>1, <2>1, ReuseAssumption DEF TypeOK, Publish, Revisions
  <2>3. Answering'
    BY <2>1 DEF Answering, OneEpoch, EntrySet, Caller, Exact
  <2>4. Ready'
    BY <2>1 DEF Ready, NothingRetiredIsReady, OneEntryPerKey, EntrySet
  <2>5. Alive' = Alive
    BY <2>1 DEF Alive, EntrySet, Borrowed
  <2>6. QED
    BY <2>1, <2>2, <2>3, <2>4, <2>5, RestKeeps
<1>2. ASSUME NEW c \in Callers, Step(c) PROVE IndInv'
  <2>1. OneEntryPerKey
    BY DEF Ready
  <2>2. QED
    BY <1>2, <2>1, AccountsKept, AnsweringKept, ReadyKept, TypesKept
<1>3. CASE UNCHANGED vars
  <2>1. UNCHANGED <<revision, session, pc, request, held, found, answer, epoch, entries, live>>
    BY <1>3 DEF vars, callers, store
  <2>2. TypeOK'
    BY <2>1 DEF TypeOK
  <2>3. Answering'
    BY <2>1 DEF Answering, OneEpoch, EntrySet, Caller, Exact
  <2>4. Ready'
    BY <2>1 DEF Ready, NothingRetiredIsReady, OneEntryPerKey, EntrySet
  <2>5. Alive' = Alive
    BY <2>1 DEF Alive, EntrySet, Borrowed
  <2>6. QED
    BY <2>1, <2>2, <2>3, <2>4, <2>5, RestKeeps
<1>4. QED
  BY <1>1, <1>2, <1>3 DEF Next

\* From there no step takes the epoch back or forgets it.
LEMMA EpochKeeps ==
  ASSUME IndInv, [Next]_vars, NEW e \in epoch
  PROVE  epoch' # {} /\ \A f \in epoch' : e <= f
<1>1. epoch = {e} /\ e \in Int
  <2>1. OneEpoch /\ epoch \subseteq Revisions
    BY DEF IndInv, Answering, TypeOK
  <2>2. epoch = {e}
    BY <2>1 DEF OneEpoch
  <2>3. e \in 0..MaxRevision /\ MaxRevision \in Int
    BY <2>1, ReuseAssumption DEF Revisions
  <2>4. QED
    BY <2>2, <2>3
<1>2. CASE UNCHANGED epoch
  BY <1>1, <1>2
<1>3. ASSUME NEW c \in Callers, Attach(c), epoch' # epoch
      PROVE  epoch' # {} /\ \A f \in epoch' : e <= f
  <2>1. epoch' = {session[c]} /\ session[c] > e
    BY <1>1, <1>3, AttachChanges DEF store
  <2>2. session[c] \in Int
    BY DEF IndInv, TypeOK, Revisions
  <2>3. QED
    BY <1>1, <2>1, <2>2
<1>4. \/ UNCHANGED epoch
      \/ \E c \in Callers : Attach(c)
  <2>1. ASSUME NEW c \in Callers, Step(c), ~Attach(c) PROVE epoch' = epoch
    BY <2>1, StoreStays DEF Hit, Forget, Insert
  <2>2. QED
    BY <2>1 DEF Next, Publish, vars, store
<1>5. QED
  BY <1>2, <1>3, <1>4

\* IndInv holds in every state of the store.
THEOREM InductiveInvariant == Spec => []IndInv
BY InitHolds, NextKeeps, PTL DEF Spec

\* The variables keep their types.
THEOREM TypesHold == Spec => []TypeOK
<1>1. IndInv => TypeOK
  BY DEF IndInv
<1>2. QED
  BY <1>1, InductiveInvariant, PTL

\* Whatever was published, evicted or hashed alike meanwhile, a search returns
\* what a search without the store returns in its session.
THEOREM AnswersStayExact == Spec => []AnswersAreExact
<1>1. IndInv => AnswersAreExact
  BY DEF IndInv, Answering, Caller, AnswersAreExact
<1>2. QED
  BY <1>1, InductiveInvariant, PTL

\* No entry of a retired epoch is ready, however late its insertion comes.
THEOREM RetiredEntriesStayOut == Spec => []NothingRetiredIsReady
<1>1. IndInv => NothingRetiredIsReady
  BY DEF IndInv, Ready
<1>2. QED
  BY <1>1, InductiveInvariant, PTL

\* Concurrent misses retain one entry per key, within the room of the store.
THEOREM KeysStayDistinct == Spec => []OneEntryPerKey
<1>1. IndInv => OneEntryPerKey
  BY DEF IndInv, Ready
<1>2. QED
  BY <1>1, InductiveInvariant, PTL

\* The counter is the bytes of the store and the keys alive, and never above
\* the limit.
THEOREM BudgetStaysExact == Spec => []BudgetCoversAll
<1>1. IndInv => BudgetCoversAll
  BY DEF IndInv, Accounts
<1>2. QED
  BY <1>1, InductiveInvariant, PTL

\* observe never takes the store back to an earlier epoch.
THEOREM EpochOnlyAdvances == Spec => EpochAdvances
<1>1. IndInv /\ [Next]_vars => [\A e \in epoch : epoch' # {} /\ \A f \in epoch' : e <= f]_vars
  BY EpochKeeps
<1>2. QED
  BY <1>1, InductiveInvariant, PTL DEF Spec, EpochAdvances
=============================================================================
