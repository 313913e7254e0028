------------------------ MODULE InitiativeOrderProofs ------------------------
(***************************************************************************)
(* Facts about InitiativeOrder, for any participants: removing one, and    *)
(* putting one before another, lose and repeat nobody, and a removal keeps *)
(* who comes before whom.                                                  *)
(***************************************************************************)
EXTENDS InitiativeOrder, SequenceTheorems, TLAPS

\* An order of participants.
IsOrder(o) == o \in Seq(Participants) /\ IsInjective(o)

\* The place of who is in an order.
LEMMA Listed ==
  ASSUME NEW o, IsOrder(o), NEW p \in ToSet(o)
  PROVE  /\ PlaceIn(o, p) \in 1..Len(o) /\ o[PlaceIn(o, p)] = p
         /\ \A i \in 1..Len(o) : o[i] = p => i = PlaceIn(o, p)
<1>1. DOMAIN o = 1..Len(o) /\ Len(o) \in Nat
  BY DEF IsOrder
<1>2. \E i \in DOMAIN o : o[i] = p
  BY DEF ToSet
<1>3. PlaceIn(o, p) \in DOMAIN o /\ o[PlaceIn(o, p)] = p
  BY <1>2 DEF PlaceIn
<1>4. QED
  BY <1>1, <1>3 DEF IsOrder, IsInjective

\* Two participants have two places.
LEMMA Apart ==
  ASSUME NEW o, IsOrder(o), NEW p \in ToSet(o), NEW q \in ToSet(o)
  PROVE  PlaceIn(o, p) = PlaceIn(o, q) => p = q
BY Listed

\* An order without its place i.
LEMMA Dropped ==
  ASSUME NEW o \in Seq(Participants), NEW i \in 1..Len(o)
  PROVE  /\ RemoveAt(o, i) \in Seq(Participants) /\ Len(RemoveAt(o, i)) = Len(o) - 1
         /\ \A j \in 1..(Len(o) - 1) : RemoveAt(o, i)[j] = o[IF j < i THEN j ELSE j + 1]
<1> DEFINE n == Len(o)
           left == SubSeq(o, 1, i - 1)
           right == SubSeq(o, i + 1, n)
<1>1. n \in Nat /\ DOMAIN o = 1..n /\ i \in 1..n /\ \A j \in 1..n : o[j] \in Participants
  OBVIOUS
<1> HIDE DEF n
<1>2. left \in Seq(Participants) /\ Len(left) = i - 1 /\ \A j \in 1..(i - 1) : left[j] = o[j]
  BY <1>1
<1>3. right \in Seq(Participants) /\ Len(right) = n - i
      /\ \A j \in 1..(n - i) : right[j] = o[j + i]
  BY <1>1
<1> HIDE DEF left, right
<1>4. RemoveAt(o, i) = left \o right
  BY DEF RemoveAt, left, right, n
<1>5. /\ left \o right \in Seq(Participants) /\ Len(left \o right) = Len(left) + Len(right)
      /\ \A j \in 1..(Len(left) + Len(right)) :
           (left \o right)[j] = IF j <= Len(left) THEN left[j] ELSE right[j - Len(left)]
  BY <1>2, <1>3, ConcatProperties
<1>6. Len(left) + Len(right) = n - 1
  BY <1>1, <1>2, <1>3
<1>7. ASSUME NEW j \in 1..(n - 1) PROVE (left \o right)[j] = o[IF j < i THEN j ELSE j + 1]
  <2>1. CASE j < i
    BY <1>1, <1>2, <1>5, <1>6, <2>1
  <2>2. CASE ~(j < i)
    <3>1. (left \o right)[j] = right[j - (i - 1)]
      BY <1>1, <1>2, <1>5, <1>6, <2>2
    <3>2. j - (i - 1) \in 1..(n - i) /\ (j - (i - 1)) + i = j + 1
      BY <1>1, <2>2
    <3>3. right[j - (i - 1)] = o[j + 1]
      BY <1>3, <3>2
    <3>4. QED
      BY <2>2, <3>1, <3>3
  <2>3. QED
    BY <2>1, <2>2
<1>8. QED
  BY <1>4, <1>5, <1>6, <1>7 DEF n

\* Removal keeps the order of those who stay.
LEMMA Removed ==
  ASSUME NEW o, IsOrder(o), NEW p \in ToSet(o), NEW rest, rest = RemoveAt(o, PlaceIn(o, p))
  PROVE  /\ IsOrder(rest) /\ ToSet(rest) = ToSet(o) \ {p}
         /\ \A q \in ToSet(rest) :
              PlaceIn(rest, q) = IF PlaceIn(o, q) < PlaceIn(o, p) THEN PlaceIn(o, q)
                                 ELSE PlaceIn(o, q) - 1
<1> DEFINE n == Len(o)
           i == PlaceIn(o, p)
           g == [j \in 1..(n - 1) |-> IF j < i THEN j ELSE j + 1]
<1>1. /\ n \in Nat /\ DOMAIN o = 1..n /\ i \in 1..n /\ o[i] = p /\ o \in Seq(Participants)
      /\ \A j, k \in 1..n : o[j] = o[k] => j = k
  BY Listed DEF IsOrder, IsInjective
<1>2. \A j \in 1..(n - 1) :
        g[j] \in 1..n /\ g[j] # i /\ g[j] = IF j < i THEN j ELSE j + 1
  BY <1>1
<1>3. \A j, k \in 1..(n - 1) : g[j] = g[k] => j = k
  BY <1>1, <1>2
<1>4. \A k \in 1..n : k # i =>
        /\ (IF k < i THEN k ELSE k - 1) \in 1..(n - 1)
        /\ g[IF k < i THEN k ELSE k - 1] = k
  BY <1>1
<1> HIDE DEF n, i
<1>5. /\ rest \in Seq(Participants) /\ Len(rest) = n - 1
      /\ \A j \in 1..(n - 1) : rest[j] = o[IF j < i THEN j ELSE j + 1]
  BY <1>1, Dropped DEF n, i
<1>6. \A j \in 1..(n - 1) : rest[j] = o[g[j]]
  BY <1>5
<1> HIDE DEF g
<1>7. DOMAIN rest = 1..(n - 1)
  BY <1>5
<1>8. IsInjective(rest)
  BY <1>1, <1>2, <1>3, <1>6, <1>7 DEF IsInjective
<1>9. ToSet(rest) = ToSet(o) \ {p}
  <2>1. ASSUME NEW q \in ToSet(rest) PROVE q \in ToSet(o) \ {p}
    <3>1. PICK j \in 1..(n - 1) : q = rest[j]
      BY <1>7 DEF ToSet
    <3>2. q = o[g[j]] /\ g[j] \in 1..n /\ g[j] # i
      BY <1>2, <1>6, <3>1
    <3>3. QED
      BY <1>1, <3>2 DEF ToSet
  <2>2. ASSUME NEW q \in ToSet(o), q # p PROVE q \in ToSet(rest)
    <3>1. PICK k \in 1..n : q = o[k]
      BY <1>1 DEF ToSet
    <3>2. k # i
      BY <1>1, <2>2, <3>1
    <3>3. PICK j \in 1..(n - 1) : g[j] = k
      BY <1>4, <3>2
    <3>4. q = rest[j]
      BY <1>6, <3>1, <3>3
    <3>5. QED
      BY <1>7, <3>4 DEF ToSet
  <2>3. QED
    BY <2>1, <2>2
<1>10. IsOrder(rest)
  BY <1>5, <1>8 DEF IsOrder
<1>11. ASSUME NEW q \in ToSet(rest)
       PROVE  PlaceIn(rest, q) = IF PlaceIn(o, q) < i THEN PlaceIn(o, q) ELSE PlaceIn(o, q) - 1
  <2> DEFINE k == PlaceIn(o, q)
  <2>1. q \in ToSet(o) /\ q # p
    BY <1>9
  <2>2. k \in 1..n /\ o[k] = q
    BY <2>1, Listed DEF n
  <2> HIDE DEF k
  <2>3. k # i
    BY <1>1, <2>1, <2>2
  <2> DEFINE j == IF k < i THEN k ELSE k - 1
  <2>4. j \in 1..(n - 1) /\ g[j] = k
    BY <1>4, <2>2, <2>3
  <2> HIDE DEF j
  <2>5. rest[j] = q
    BY <1>6, <2>2, <2>4
  <2>6. j = PlaceIn(rest, q)
    BY <1>5, <1>10, <2>4, <2>5, Listed
  <2>7. QED
    BY <2>6 DEF j, k
<1>12. QED
  BY <1>9, <1>10, <1>11 DEF i

\* Removal keeps who comes before whom.
LEMMA RemovalKeepsOrder ==
  ASSUME NEW o, IsOrder(o), NEW p \in ToSet(o), NEW rest, rest = RemoveAt(o, PlaceIn(o, p)),
         NEW x \in ToSet(rest), NEW y \in ToSet(rest)
  PROVE  PlaceIn(rest, x) <= PlaceIn(rest, y) <=> PlaceIn(o, x) <= PlaceIn(o, y)
<1>1. x \in ToSet(o) \ {p} /\ y \in ToSet(o) \ {p}
  BY Removed
<1>2. /\ PlaceIn(o, p) \in Int /\ PlaceIn(o, x) \in Int /\ PlaceIn(o, y) \in Int
      /\ PlaceIn(o, x) # PlaceIn(o, p) /\ PlaceIn(o, y) # PlaceIn(o, p)
  BY <1>1, Listed, Apart DEF IsOrder
<1>3. /\ PlaceIn(rest, x) = IF PlaceIn(o, x) < PlaceIn(o, p) THEN PlaceIn(o, x)
                            ELSE PlaceIn(o, x) - 1
      /\ PlaceIn(rest, y) = IF PlaceIn(o, y) < PlaceIn(o, p) THEN PlaceIn(o, y)
                            ELSE PlaceIn(o, y) - 1
  BY Removed
<1>4. QED
  BY <1>2, <1>3

\* Insertion into an order.
LEMMA Inserted ==
  ASSUME NEW o, IsOrder(o), NEW i \in 1..(Len(o) + 1), NEW p \in Participants, p \notin ToSet(o)
  PROVE  IsOrder(InsertAt(o, i, p)) /\ ToSet(InsertAt(o, i, p)) = ToSet(o) \cup {p}
<1> DEFINE n == Len(o)
           left == SubSeq(o, 1, i - 1)
           right == SubSeq(o, i, n)
           new == InsertAt(o, i, p)
<1>1. /\ n \in Nat /\ DOMAIN o = 1..n /\ i \in 1..(n + 1) /\ \A j \in 1..n : o[j] \in Participants
      /\ o \in Seq(Participants) /\ \A j, k \in 1..n : o[j] = o[k] => j = k
  BY DEF IsOrder, IsInjective
<1> HIDE DEF n
<1>2. left \in Seq(Participants) /\ Len(left) = i - 1 /\ \A j \in 1..(i - 1) : left[j] = o[j]
  BY <1>1
<1>3. right \in Seq(Participants) /\ Len(right) = n - i + 1
      /\ \A j \in 1..(n - i + 1) : right[j] = o[j + i - 1]
  BY <1>1
<1> HIDE DEF left, right
<1>4. new = (left \o <<p>>) \o right
  BY DEF InsertAt, left, right, n
<1> HIDE DEF new
<1> DEFINE start == left \o <<p>>
<1>5. /\ start \in Seq(Participants) /\ Len(start) = i /\ start[i] = p
      /\ \A j \in 1..(i - 1) : start[j] = o[j]
  <2> DEFINE one == <<p>>
  <2>1. one \in Seq(Participants) /\ Len(one) = 1 /\ one[1] = p
    OBVIOUS
  <2> HIDE DEF one
  <2>2. /\ left \o one \in Seq(Participants) /\ Len(left \o one) = Len(left) + Len(one)
        /\ \A j \in 1..(Len(left) + Len(one)) :
             (left \o one)[j] = IF j <= Len(left) THEN left[j] ELSE one[j - Len(left)]
    BY <1>2, <2>1, ConcatProperties
  <2>3. start = left \o one /\ Len(left) + Len(one) = i
    BY <1>1, <1>2, <2>1 DEF one
  <2> HIDE DEF start
  <2>4. start[i] = one[1]
    BY <1>1, <1>2, <2>1, <2>2, <2>3
  <2>5. QED
    BY <1>1, <1>2, <2>1, <2>2, <2>3, <2>4
<1> HIDE DEF start
<1>6. new \in Seq(Participants) /\ Len(new) = n + 1
      /\ \A j \in 1..(n + 1) : new[j] = IF j <= i THEN start[j] ELSE right[j - i]
  <2>1. new = start \o right /\ Len(start) + Len(right) = n + 1
    <3>1. new = start \o right
      BY <1>4 DEF start
    <3>2. Len(start) + Len(right) = n + 1
      BY <1>1, <1>3, <1>5
    <3>3. QED
      BY <3>1, <3>2
  <2>2. /\ start \o right \in Seq(Participants) /\ Len(start \o right) = Len(start) + Len(right)
        /\ \A j \in 1..(Len(start) + Len(right)) :
             (start \o right)[j] = IF j <= Len(start) THEN start[j] ELSE right[j - Len(start)]
    BY <1>3, <1>5, ConcatProperties
  <2>3. QED
    BY <1>5, <2>1, <2>2
<1>7. new[i] = p /\ \A j \in 1..(n + 1) :
        j # i => new[j] = o[IF j < i THEN j ELSE j - 1] /\ (IF j < i THEN j ELSE j - 1) \in 1..n
  <2>1. new[i] = p
    BY <1>1, <1>5, <1>6
  <2>2. ASSUME NEW j \in 1..(n + 1), j < i PROVE new[j] = o[j] /\ j \in 1..n
    BY <1>1, <1>5, <1>6, <2>2
  <2>3. ASSUME NEW j \in 1..(n + 1), j > i PROVE new[j] = o[j - 1] /\ j - 1 \in 1..n
    <3>1. new[j] = right[j - i]
      BY <1>1, <1>6, <2>3
    <3>2. j - i \in 1..(n - i + 1) /\ (j - i) + i - 1 = j - 1
      BY <1>1, <2>3
    <3>3. right[j - i] = o[(j - i) + i - 1]
      BY <1>3, <3>2
    <3>4. QED
      BY <1>1, <2>3, <3>1, <3>2, <3>3
  <2>4. QED
    BY <1>1, <2>1, <2>2, <2>3
<1>8. DOMAIN new = 1..(n + 1)
  BY <1>6
<1>9. \A j \in 1..n : o[j] # p
  BY <1>1 DEF ToSet
<1>10. IsInjective(new)
  <2>1. ASSUME NEW j \in 1..(n + 1), NEW k \in 1..(n + 1), new[j] = new[k] PROVE j = k
    BY <1>1, <1>7, <1>9, <2>1
  <2>2. QED
    BY <1>8, <2>1 DEF IsInjective
<1>11. ASSUME NEW q PROVE q \in ToSet(new) <=> q \in ToSet(o) \cup {p}
  <2>1. ASSUME q \in ToSet(new) PROVE q \in ToSet(o) \cup {p}
    <3>1. PICK j \in 1..(n + 1) : q = new[j]
      BY <1>8, <2>1 DEF ToSet
    <3>2. QED
      BY <1>1, <1>7, <3>1 DEF ToSet
  <2>2. p \in ToSet(new)
    BY <1>1, <1>7, <1>8 DEF ToSet
  <2>3. ASSUME q \in ToSet(o) PROVE q \in ToSet(new)
    <3>1. PICK k \in 1..n : q = o[k]
      BY <1>1, <2>3 DEF ToSet
    <3>2. PICK j \in 1..(n + 1) : j # i /\ (IF j < i THEN j ELSE j - 1) = k
      <4>1. CASE k < i
        BY <1>1, <4>1
      <4>2. CASE ~(k < i)
        <5>1. k + 1 \in 1..(n + 1) /\ k + 1 # i /\ (IF k + 1 < i THEN k + 1 ELSE (k + 1) - 1) = k
          BY <1>1, <4>2
        <5>2. QED
          BY <5>1
      <4>3. QED
        BY <4>1, <4>2
    <3>3. QED
      BY <1>7, <1>8, <3>1, <3>2 DEF ToSet
  <2>4. QED
    BY <2>1, <2>2, <2>3
<1>12. QED
  BY <1>6, <1>10, <1>11 DEF IsOrder, new

\* Putting one before or after another keeps who is in the order.
LEMMA Reordered ==
  ASSUME NEW o, IsOrder(o), NEW p \in ToSet(o), NEW q \in ToSet(o), p # q
  PROVE  /\ IsOrder(Before(o, p, q)) /\ ToSet(Before(o, p, q)) = ToSet(o)
         /\ IsOrder(After(o, p, q)) /\ ToSet(After(o, p, q)) = ToSet(o)
<1> DEFINE rest == RemoveAt(o, PlaceIn(o, p))
<1>1. IsOrder(rest) /\ ToSet(rest) = ToSet(o) \ {p}
  BY Removed
<1> HIDE DEF rest
<1>2. /\ PlaceIn(rest, q) \in 1..(Len(rest) + 1)
      /\ PlaceIn(rest, q) + 1 \in 1..(Len(rest) + 1)
  <2>1. PlaceIn(rest, q) \in 1..Len(rest) /\ Len(rest) \in Nat
    BY <1>1, Listed DEF IsOrder
  <2>2. QED
    BY <2>1
<1>3. p \in Participants
  BY DEF IsOrder, ToSet
<1>4. IsOrder(InsertAt(rest, PlaceIn(rest, q), p))
      /\ ToSet(InsertAt(rest, PlaceIn(rest, q), p)) = ToSet(rest) \cup {p}
      /\ IsOrder(InsertAt(rest, PlaceIn(rest, q) + 1, p))
      /\ ToSet(InsertAt(rest, PlaceIn(rest, q) + 1, p)) = ToSet(rest) \cup {p}
  BY <1>1, <1>2, <1>3, Inserted
<1>5. /\ Before(o, p, q) = InsertAt(rest, PlaceIn(rest, q), p)
      /\ After(o, p, q) = InsertAt(rest, PlaceIn(rest, q) + 1, p)
  BY DEF Before, After, rest
<1>6. QED
  BY <1>1, <1>4, <1>5
=============================================================================
