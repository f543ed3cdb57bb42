------------------------ MODULE SmopMessagesProofs ------------------------
(***************************************************************************)
(* Every reference that captures, arrays, hashes, bvalues and scopes keep  *)
(* is counted once, whatever messages are sent to them, what is bound      *)
(* stays bound, and what a capture was made with is found in it: for any   *)
(* number of objects, identifiers, arguments and programs.                 *)
(***************************************************************************)
EXTENDS SmopMessages, FiniteSetTheorems, SequenceTheorems, WellFoundedInduction,
        NaturalsInduction, TLAPS

-----------------------------------------------------------------------------
(* Occurrences in sequences *)

One(x, o) == IF x = o THEN 1 ELSE 0

LEMMA WhereFinite ==
    ASSUME NEW S, NEW seq \in Seq(S), NEW o
    PROVE  IsFiniteSet(Where(seq, o)) /\ Occurrences(seq, o) \in Nat
<1>1. DOMAIN seq = 1 .. Len(seq) /\ Len(seq) \in Nat
  OBVIOUS
<1>2. IsFiniteSet(DOMAIN seq)
  BY <1>1, FS_Interval
<1>3. Where(seq, o) \in SUBSET DOMAIN seq
  BY DEF Where
<1> QED BY <1>2, <1>3, FS_Subset, FS_CardinalityType DEF Occurrences

LEMMA OccEmpty == \A o : Occurrences(<<>>, o) = 0
<1>1. \A o : Where(<<>>, o) = {}
  BY DEF Where
<1> QED BY <1>1, FS_EmptySet DEF Occurrences

LEMMA OccAppend ==
    ASSUME NEW S, NEW seq \in Seq(S), NEW x \in S, NEW o
    PROVE  Occurrences(Append(seq, x), o) = Occurrences(seq, o) + One(x, o)
<1> DEFINE n == Len(seq) + 1
           longer == Append(seq, x)
<1>1. /\ DOMAIN longer = DOMAIN seq \cup {n} /\ n \notin DOMAIN seq
      /\ longer[n] = x /\ \A i \in DOMAIN seq : longer[i] = seq[i]
  OBVIOUS
<1>2. CASE x = o
  <2>1. Where(longer, o) = Where(seq, o) \cup {n} /\ n \notin Where(seq, o)
    BY <1>1, <1>2 DEF Where
  <2> QED BY <2>1, <1>2, WhereFinite, FS_AddElement DEF Occurrences, One
<1>3. CASE x # o
  <2>1. Where(longer, o) = Where(seq, o)
    BY <1>1, <1>3 DEF Where
  <2> QED BY <2>1, <1>3, WhereFinite DEF Occurrences, One
<1> QED BY <1>2, <1>3

LEMMA OccTuples ==
    ASSUME NEW o, NEW x, NEW y, NEW z
    PROVE  /\ Occurrences(<<x>>, o) = One(x, o)
           /\ Occurrences(<<x, y>>, o) = One(x, o) + One(y, o)
           /\ Occurrences(<<x, y, z>>, o) = One(x, o) + One(y, o) + One(z, o)
<1> DEFINE S == {x, y, z}
<1>1. /\ <<>> \in Seq(S) /\ <<x>> \in Seq(S) /\ <<x, y>> \in Seq(S)
      /\ <<x>> = Append(<<>>, x) /\ <<x, y>> = Append(<<x>>, y)
      /\ <<x, y, z>> = Append(<<x, y>>, z)
  OBVIOUS
<1>2. /\ Occurrences(<<x>>, o) = Occurrences(<<>>, o) + One(x, o)
      /\ Occurrences(<<x, y>>, o) = Occurrences(<<x>>, o) + One(y, o)
      /\ Occurrences(<<x, y, z>>, o) = Occurrences(<<x, y>>, o) + One(z, o)
  <2> x \in S /\ y \in S /\ z \in S
    OBVIOUS
  <2> HIDE DEF S
  <2>1. Occurrences(Append(<<>>, x), o) = Occurrences(<<>>, o) + One(x, o)
    BY <1>1, OccAppend
  <2>2. Occurrences(Append(<<x>>, y), o) = Occurrences(<<x>>, o) + One(y, o)
    BY <1>1, OccAppend
  <2>3. Occurrences(Append(<<x, y>>, z), o) = Occurrences(<<x, y>>, o) + One(z, o)
    BY <1>1, OccAppend
  <2> QED BY <1>1, <2>1, <2>2, <2>3
<1> QED BY <1>2, OccEmpty DEF One

LEMMA OccOne == \A x, o : Occurrences(<<x>>, o) = One(x, o)
BY OccTuples

LEMMA OccTwo == \A x, y, o : Occurrences(<<x, y>>, o) = One(x, o) + One(y, o)
BY OccTuples

LEMMA OccThree ==
    \A x, y, z, o : Occurrences(<<x, y, z>>, o) = One(x, o) + One(y, o) + One(z, o)
<1> TAKE x, y, z, o
<1>1. \A a, b, c : Occurrences(<<a, b, c>>, o) = One(a, o) + One(b, o) + One(c, o)
  <2> TAKE a, b, c
  <2> DEFINE S == {a, b, c}
  <2>1. <<a, b>> \in Seq(S) /\ c \in S /\ <<a, b, c>> = Append(<<a, b>>, c)
    OBVIOUS
  <2> HIDE DEF S
  <2>2. Occurrences(<<a, b, c>>, o) = Occurrences(<<a, b>>, o) + One(c, o)
    BY <2>1, OccAppend, ZenonT(40)
  <2> QED BY <2>2, OccTwo
<1> QED BY <1>1

LEMMA SameSize ==
    ASSUME NEW S, IsFiniteSet(S), NEW T, NEW f \in Bijection(S, T)
    PROVE  IsFiniteSet(T) /\ Cardinality(T) = Cardinality(S)
BY FS_Bijection DEF ExistsBijection

LEMMA OccConcat ==
    ASSUME NEW S, NEW s \in Seq(S), NEW t \in Seq(S), NEW o
    PROVE  Occurrences(s \o t, o) = Occurrences(s, o) + Occurrences(t, o)
<1> DEFINE st == s \o t
           A == Where(s, o)
           B == Where(t, o)
           C == Where(st, o) \ A
           f == [i \in B |-> i + Len(s)]
<1>1. /\ Len(s) \in Nat /\ Len(t) \in Nat
      /\ DOMAIN s = 1 .. Len(s) /\ DOMAIN t = 1 .. Len(t)
      /\ DOMAIN st = 1 .. Len(s) + Len(t)
      /\ \A i \in 1 .. Len(s) : st[i] = s[i]
      /\ \A i \in Len(s) + 1 .. Len(s) + Len(t) : st[i] = t[i - Len(s)]
  OBVIOUS
<1>2. A \subseteq Where(st, o)
  BY <1>1 DEF Where
<1>3. C = {i \in Len(s) + 1 .. Len(s) + Len(t) : t[i - Len(s)] = o}
  BY <1>1 DEF Where
<1>4. f \in Bijection(B, C)
  <2>1. B = {i \in 1 .. Len(t) : t[i] = o}
    BY <1>1 DEF Where
  <2>2. f \in [B -> C]
    <3> SUFFICES ASSUME NEW i \in B PROVE i + Len(s) \in C
      OBVIOUS
    <3>1. i \in 1 .. Len(t) /\ t[i] = o /\ (i + Len(s)) - Len(s) = i
      BY <2>1, <1>1
    <3>2. i + Len(s) \in Len(s) + 1 .. Len(s) + Len(t)
      BY <3>1, <1>1
    <3> QED BY <3>1, <3>2, <1>3
  <2>3. \A i, j \in B : f[i] = f[j] => i = j
    BY <2>1, <1>1
  <2>4. \A k \in C : \E i \in B : f[i] = k
    <3> SUFFICES ASSUME NEW k \in C PROVE \E i \in B : f[i] = k
      OBVIOUS
    <3>1. k - Len(s) \in B
      BY <1>3, <2>1, <1>1
    <3>2. f[k - Len(s)] = k
      BY <3>1, <1>3, <1>1
    <3> QED BY <3>1, <3>2
  <2> QED BY <2>2, <2>3, <2>4, Zenon DEF Bijection, Injection, Surjection, IsInjective
<1>5. IsFiniteSet(A) /\ IsFiniteSet(B) /\ IsFiniteSet(C)
  BY <1>4, WhereFinite, SameSize
<1>6. Cardinality(C) = Cardinality(B)
  BY <1>4, <1>5, SameSize
<1>7. Where(st, o) = A \cup C /\ A \cap C = {}
  BY <1>2
<1>8. Cardinality(A \cup C) = Cardinality(A) + Cardinality(C) - Cardinality(A \cap C)
  BY <1>5, FS_Union
<1>9. Cardinality(A) \in Nat /\ Cardinality(B) \in Nat /\ Cardinality({}) = 0
  BY <1>5, FS_CardinalityType, FS_EmptySet
<1>10. Cardinality(A \cap C) = 0
  BY <1>7, <1>9
<1>11. Cardinality(A \cup C) = Cardinality(A) + Cardinality(B)
  BY <1>6, <1>8, <1>9, <1>10
<1>12. Cardinality(Where(st, o)) = Cardinality(A \cup C)
  BY <1>7
<1> QED BY <1>11, <1>12 DEF Occurrences

LEMMA OccExcept ==
    ASSUME NEW S, NEW seq \in Seq(S), NEW i \in DOMAIN seq, NEW x \in S, NEW o
    PROVE  Occurrences([seq EXCEPT ![i] = x], o) + One(seq[i], o)
               = Occurrences(seq, o) + One(x, o)
<1> DEFINE new == [seq EXCEPT ![i] = x]
           rest == Where(seq, o) \ {i}
<1>1. /\ DOMAIN new = DOMAIN seq /\ new[i] = x
      /\ \A j \in DOMAIN seq : j # i => new[j] = seq[j]
  OBVIOUS
<1>2. IsFiniteSet(rest) /\ Cardinality(rest) \in Nat /\ i \notin rest
  BY WhereFinite, FS_RemoveElement, FS_CardinalityType
<1> HIDE DEF new
<1>3. Cardinality(Where(seq, o)) = Cardinality(rest) + One(seq[i], o)
  <2>1. CASE seq[i] = o
    <3>1. Where(seq, o) = rest \cup {i}
      BY <2>1 DEF Where
    <3>2. Cardinality(rest \cup {i}) = Cardinality(rest) + 1
      BY <1>2, FS_AddElement
    <3> QED BY <3>1, <3>2, <2>1 DEF One
  <2>2. CASE seq[i] # o
    <3>1. Where(seq, o) = rest
      BY <2>2 DEF Where
    <3>2. One(seq[i], o) = 0
      BY <2>2 DEF One
    <3>3. Cardinality(Where(seq, o)) = Cardinality(rest)
      BY <3>1
    <3> HIDE DEF rest
    <3> QED BY <3>2, <3>3, <1>2
  <2> QED BY <2>1, <2>2
<1>4. Cardinality(Where(new, o)) = Cardinality(rest) + One(x, o)
  <2>1. CASE x = o
    <3>1. Where(new, o) = rest \cup {i}
      BY <2>1, <1>1 DEF Where
    <3>2. Cardinality(rest \cup {i}) = Cardinality(rest) + 1
      BY <1>2, FS_AddElement
    <3> QED BY <3>1, <3>2, <2>1 DEF One
  <2>2. CASE x # o
    <3>1. Where(new, o) = rest
      BY <2>2, <1>1 DEF Where
    <3> QED BY <3>1, <2>2, <1>2 DEF One
  <2> QED BY <2>1, <2>2
<1>5. Occurrences(new, o) + One(seq[i], o) = Occurrences(seq, o) + One(x, o)
  BY <1>2, <1>3, <1>4 DEF Occurrences, One
<1> QED BY <1>5 DEF new

LEMMA OccAbsent ==
    ASSUME NEW S, NEW seq \in Seq(S), NEW o
    PROVE  Occurrences(seq, o) = 0 <=> \A i \in DOMAIN seq : seq[i] # o
<1>1. Occurrences(seq, o) = 0 <=> Where(seq, o) = {}
  BY WhereFinite, FS_EmptySet DEF Occurrences
<1>2. Where(seq, o) = {} <=> \A i \in DOMAIN seq : seq[i] # o
  BY DEF Where
<1> QED BY <1>1, <1>2

\* A sequence is what its two parts are together.
LEMMA OccSplit ==
    ASSUME NEW S, NEW seq \in Seq(S), NEW n \in 0 .. Len(seq), NEW o
    PROVE  /\ SubSeq(seq, 1, n) \in Seq(S) /\ SubSeq(seq, n + 1, Len(seq)) \in Seq(S)
           /\ Occurrences(seq, o) = Occurrences(SubSeq(seq, 1, n), o)
                                    + Occurrences(SubSeq(seq, n + 1, Len(seq)), o)
<1> DEFINE front == SubSeq(seq, 1, n)
           back == SubSeq(seq, n + 1, Len(seq))
<1>1. front \in Seq(S) /\ back \in Seq(S)
  BY Z3
<1>2. Len(front) = n /\ Len(back) = Len(seq) - n
  BY Z3
<1>3. \A i \in 1 .. n : front[i] = seq[i]
  BY Z3
<1>4. \A i \in 1 .. Len(seq) - n : back[i] = seq[n + i]
  BY Z3
<1>5. seq = front \o back
  <2> HIDE DEF front, back
  <2>1. front \o back \in Seq(S) /\ Len(front \o back) = Len(seq)
    BY <1>1, <1>2, SMTT(30)
  <2>2. \A i \in 1 .. Len(seq) : (front \o back)[i] = seq[i]
    <3> SUFFICES ASSUME NEW i \in 1 .. Len(seq) PROVE (front \o back)[i] = seq[i]
      OBVIOUS
    <3>1. CASE i <= n
      BY <3>1, <1>1, <1>2, <1>3
    <3>2. CASE i > n
      <4>1. (front \o back)[i] = back[i - n]
        BY <3>2, <1>1, <1>2
      <4>2. i - n \in 1 .. Len(seq) - n /\ n + (i - n) = i
        BY <3>2
      <4> QED BY <4>1, <4>2, <1>4
    <3>3. i <= n \/ i > n
      OBVIOUS
    <3> QED BY <3>1, <3>2, <3>3, Zenon
  <2>3. front \o back = seq
    BY <2>1, <2>2, SeqEqual
  <2> QED BY <2>3
<1> HIDE DEF front, back
<1>6. Occurrences(front \o back, o) = Occurrences(front, o) + Occurrences(back, o)
  BY <1>1, OccConcat
<1>7. Occurrences(seq, o) = Occurrences(front, o) + Occurrences(back, o)
  BY <1>5, <1>6
<1> QED BY <1>1, <1>7 DEF front, back

-----------------------------------------------------------------------------
(* Occurrences in all slots of some objects *)

Pairs(slots, o) == UNION {{a} \X Where(slots[a], o) : a \in DOMAIN slots}
InSlots(slots, o) == Cardinality(Pairs(slots, o))

LEMMA PairsFinite ==
    ASSUME NEW S, NEW slots \in [Object -> Seq(S)], NEW o
    PROVE  IsFiniteSet(Pairs(slots, o)) /\ InSlots(slots, o) \in Nat
<1>1. IsFiniteSet({{a} \X Where(slots[a], o) : a \in Object})
  <2> DEFINE Of(a) == {a} \X Where(slots[a], o)
             f == [a \in Object |-> Of(a)]
             all == {Of(a) : a \in Object}
  <2>1. f \in Surjection(Object, all)
    <3>1. f \in [Object -> all]
      OBVIOUS
    <3>2. \A s \in all : \E a \in Object : f[a] = s
      OBVIOUS
    <3> QED BY <3>1, <3>2, Zenon DEF Surjection
  <2> QED BY <2>1, FS_Surjection, MessagesAssumption
<1>2. \A a \in Object : IsFiniteSet({a} \X Where(slots[a], o))
  <2> SUFFICES ASSUME NEW a \in Object PROVE IsFiniteSet({a} \X Where(slots[a], o))
    OBVIOUS
  <2>1. slots[a] \in Seq(S)
    OBVIOUS
  <2>2. IsFiniteSet({a}) /\ IsFiniteSet(Where(slots[a], o))
    BY <2>1, WhereFinite, FS_Singleton
  <2> QED BY <2>2, FS_Product
<1>3. IsFiniteSet(UNION {{a} \X Where(slots[a], o) : a \in Object})
  BY <1>1, <1>2, FS_UNION
<1>4. DOMAIN slots = Object
  OBVIOUS
<1> QED BY <1>3, <1>4, FS_CardinalityType DEF Pairs, InSlots

LEMMA InSlotsZero ==
    ASSUME NEW S, NEW slots \in [Object -> Seq(S)], NEW o
    PROVE  InSlots(slots, o) = 0 <=>
               \A a \in Object, i \in Nat : i \in DOMAIN slots[a] => slots[a][i] # o
<1>1. InSlots(slots, o) = 0 <=> Pairs(slots, o) = {}
  BY PairsFinite, FS_EmptySet DEF InSlots
<1>2. Pairs(slots, o) = {} <=> \A a \in Object : Where(slots[a], o) = {}
  <2>1. DOMAIN slots = Object
    OBVIOUS
  <2>2. ASSUME NEW a \in Object, NEW i \in Where(slots[a], o) PROVE <<a, i>> \in Pairs(slots, o)
    BY <2>1 DEF Pairs
  <2>3. ASSUME NEW p \in Pairs(slots, o) PROVE \E a \in Object : Where(slots[a], o) # {}
    BY <2>1 DEF Pairs
  <2> QED BY <2>2, <2>3
<1>3. \A a \in Object : Where(slots[a], o) = {} <=>
                            \A i \in Nat : i \in DOMAIN slots[a] => slots[a][i] # o
  <2> SUFFICES ASSUME NEW a \in Object
               PROVE  Where(slots[a], o) = {} <=>
                         \A i \in Nat : i \in DOMAIN slots[a] => slots[a][i] # o
    OBVIOUS
  <2>1. DOMAIN slots[a] \subseteq Nat
    <3>1. slots[a] \in Seq(S)
      OBVIOUS
    <3> QED BY <3>1
  <2> QED BY <2>1 DEF Where
<1> QED BY <1>1, <1>2, <1>3

Put(f, a, x) == [f EXCEPT ![a] = x]

PutCounts(S, slots, a, seq, o) ==
    /\ Put(slots, a, seq) \in [Object -> Seq(S)]
    /\ InSlots(Put(slots, a, seq), o) + Occurrences(slots[a], o)
           = InSlots(slots, o) + Occurrences(seq, o)

LEMMA InSlotsExcept ==
    ASSUME NEW S, NEW slots \in [Object -> Seq(S)], NEW a \in Object, NEW seq \in Seq(S), NEW o
    PROVE  PutCounts(S, slots, a, seq, o)
<1> DEFINE new == Put(slots, a, seq)
           rest == UNION {{b} \X Where(slots[b], o) : b \in Object \ {a}}
<1>1. /\ new \in [Object -> Seq(S)] /\ new[a] = seq
      /\ \A b \in Object \ {a} : new[b] = slots[b]
  BY DEF Put
<1> HIDE DEF new
<1>2. /\ Pairs(slots, o) = rest \cup ({a} \X Where(slots[a], o))
      /\ rest \cap ({a} \X Where(slots[a], o)) = {}
  BY DEF Pairs
<1>3. /\ Pairs(new, o) = rest \cup ({a} \X Where(seq, o))
      /\ rest \cap ({a} \X Where(seq, o)) = {}
  BY <1>1 DEF Pairs
<1>4. IsFiniteSet(rest) /\ Cardinality(rest) \in Nat
  <2>1. rest \in SUBSET Pairs(slots, o)
    BY <1>2
  <2> QED BY <2>1, PairsFinite, FS_Subset, FS_CardinalityType
<1>5. ASSUME NEW t \in Seq(S), rest \cap ({a} \X Where(t, o)) = {}
      PROVE  Cardinality(rest \cup ({a} \X Where(t, o))) = Cardinality(rest) + Occurrences(t, o)
  <2> DEFINE col == {a} \X Where(t, o)
  <2>1. IsFiniteSet({a}) /\ Cardinality({a}) = 1
    BY FS_Singleton
  <2>2. IsFiniteSet(Where(t, o)) /\ Occurrences(t, o) \in Nat
    BY WhereFinite
  <2>3. IsFiniteSet(col) /\ Cardinality(col) = Cardinality({a}) * Cardinality(Where(t, o))
    BY <2>1, <2>2, FS_Product
  <2>4. Cardinality(col) = Occurrences(t, o)
    BY <2>1, <2>2, <2>3 DEF Occurrences
  <2>5. Cardinality(rest \cup col) = Cardinality(rest) + Cardinality(col) - Cardinality(rest \cap col)
    BY <1>4, <2>3, FS_Union
  <2>6. Cardinality(rest \cap col) = 0
    BY <1>5, FS_EmptySet
  <2> HIDE DEF col
  <2>7. Cardinality(rest \cup col) = Cardinality(rest) + Occurrences(t, o)
    BY <2>4, <2>5, <2>6, <1>4, <2>2
  <2> QED BY <2>7 DEF col
<1>6. slots[a] \in Seq(S)
  OBVIOUS
<1>7. InSlots(slots, o) = Cardinality(rest) + Occurrences(slots[a], o)
  BY <1>2, <1>5, <1>6 DEF InSlots
<1>8. InSlots(new, o) = Cardinality(rest) + Occurrences(seq, o)
  BY <1>3, <1>5 DEF InSlots
<1>9. Occurrences(slots[a], o) \in Nat /\ Occurrences(seq, o) \in Nat
  BY <1>6, WhereFinite
<1>10. InSlots(new, o) + Occurrences(slots[a], o) = InSlots(slots, o) + Occurrences(seq, o)
  BY <1>4, <1>7, <1>8, <1>9
<1> QED BY <1>1, <1>10 DEF new, PutCounts

-----------------------------------------------------------------------------
(* Sorting and splitting the named arguments of a capture                   *)

IsOrder(places, before) ==
    /\ \A i \in places : <<i, i>> \notin before
    /\ \A i, j, k \in places :
          <<i, j>> \in before /\ <<j, k>> \in before => <<i, k>> \in before
    /\ \A i, j \in places : i # j => <<i, j>> \in before \/ <<j, i>> \in before

LEMMA PlacesFinite ==
    ASSUME NEW S, NEW seq \in Seq(S), NEW places \in SUBSET DOMAIN seq
    PROVE  IsFiniteSet(places) /\ Cardinality(places) \in Nat /\ places \subseteq Nat
<1>1. DOMAIN seq = 1 .. Len(seq) /\ Len(seq) \in Nat
  OBVIOUS
<1>2. IsFiniteSet(DOMAIN seq)
  BY <1>1, FS_Interval
<1> QED BY <1>1, <1>2, FS_Subset, FS_CardinalityType

\* Whatever the order, every place is taken once, the earlier ones first.
LEMMA ArrangedOnce ==
    ASSUME NEW S, NEW seq \in Seq(S), NEW places \in SUBSET DOMAIN seq,
           NEW before, IsOrder(places, before)
    PROVE  \E nth \in Bijection(1 .. Cardinality(places), places) :
              /\ \A n \in 1 .. Cardinality(places) : Arranged(seq, places, before)[n] = seq[nth[n]]
              /\ \A m, n \in 1 .. Cardinality(places) : m < n => <<nth[m], nth[n]>> \in before
<1> DEFINE N == Cardinality(places)
           R(i) == {j \in places : <<j, i>> \in before}
           rank(i) == Cardinality(R(i))
           f == [i \in places |-> rank(i) + 1]
           nth == [n \in 1 .. N |-> CHOOSE i \in places : rank(i) = n - 1]
<1>1. IsFiniteSet(places) /\ N \in Nat
  BY PlacesFinite
<1>2. ASSUME NEW i \in places
      PROVE  IsFiniteSet(R(i)) /\ rank(i) \in Nat /\ rank(i) < N
  <2>1. R(i) \in SUBSET places /\ R(i) # places
    BY DEF IsOrder
  <2>2. IsFiniteSet(R(i)) /\ rank(i) <= N /\ rank(i) # N
    BY <2>1, <1>1, FS_Subset
  <2> QED BY <2>2, <1>1, FS_CardinalityType
<1>3. ASSUME NEW i \in places, NEW j \in places, <<i, j>> \in before
      PROVE  rank(i) < rank(j)
  <2>1. R(i) \in SUBSET R(j) /\ R(i) # R(j)
    BY <1>3 DEF IsOrder
  <2>2. rank(i) <= rank(j) /\ rank(i) # rank(j)
    BY <2>1, <1>2, FS_Subset
  <2>3. rank(i) \in Nat /\ rank(j) \in Nat
    BY <1>2
  <2> HIDE DEF rank
  <2> QED BY <2>2, <2>3
<1>4. \A i, j \in places : rank(i) = rank(j) => i = j
  <2> SUFFICES ASSUME NEW i \in places, NEW j \in places, rank(i) = rank(j), i # j
               PROVE  FALSE
    OBVIOUS
  <2>1. <<i, j>> \in before \/ <<j, i>> \in before
    BY Zenon DEF IsOrder
  <2>2. rank(i) < rank(j) \/ rank(j) < rank(i)
    BY <2>1, <1>3
  <2>3. rank(i) \in Nat /\ rank(j) \in Nat
    BY <1>2
  <2> HIDE DEF rank
  <2> QED BY <2>2, <2>3
<1> HIDE DEF R
<1>5. f \in Injection(places, 1 .. N)
  <2>1. f \in [places -> 1 .. N]
    BY <1>1, <1>2
  <2>2. \A i, j \in places : f[i] = f[j] => i = j
    BY <1>2, <1>4
  <2> QED BY <2>1, <2>2, Zenon DEF Injection, IsInjective
<1>6. \A n \in 1 .. N : \E i \in places : rank(i) = n - 1
  <2>1. IsFiniteSet(1 .. N) /\ Cardinality(1 .. N) = N
    BY <1>1, FS_Interval
  <2>2. f \in Surjection(places, 1 .. N)
    BY <2>1, <1>5, FS_Injection
  <2>3. \A n \in 1 .. N : \E i \in places : f[i] = n
    BY <2>2, Zenon DEF Surjection
  <2> QED BY <2>3, <1>2
<1>7. \A n \in 1 .. N : nth[n] \in places /\ rank(nth[n]) = n - 1
  BY <1>6
<1> HIDE DEF rank
<1>8. nth \in Bijection(1 .. N, places)
  <2>1. nth \in [1 .. N -> places]
    BY <1>7
  <2>2. \A m, n \in 1 .. N : nth[m] = nth[n] => m = n
    BY <1>7
  <2>3. \A i \in places : \E n \in 1 .. N : nth[n] = i
    <3> SUFFICES ASSUME NEW i \in places PROVE \E n \in 1 .. N : nth[n] = i
      OBVIOUS
    <3>1. rank(i) + 1 \in 1 .. N /\ (rank(i) + 1) - 1 = rank(i)
      BY <1>1, <1>2
    <3>2. nth[rank(i) + 1] = i
      BY <3>1, <1>7, <1>4
    <3> QED BY <3>1, <3>2
  <2> QED BY <2>1, <2>2, <2>3, Zenon DEF Bijection, Injection, Surjection, IsInjective
<1>9. \A n \in 1 .. N : Arranged(seq, places, before)[n] = seq[nth[n]]
  BY DEF Arranged, rank, R
<1>10. ASSUME NEW m \in 1 .. N, NEW n \in 1 .. N, m < n PROVE <<nth[m], nth[n]>> \in before
  <2>1. /\ nth[m] \in places /\ nth[n] \in places
        /\ rank(nth[m]) = m - 1 /\ rank(nth[n]) = n - 1
    BY <1>7
  <2>2. nth[m] # nth[n]
    BY <2>1, <1>1, <1>10
  <2>3. <<nth[m], nth[n]>> \in before \/ <<nth[n], nth[m]>> \in before
    BY <2>1, <2>2, Zenon DEF IsOrder
  <2>4. ~(rank(nth[n]) < rank(nth[m]))
    BY <2>1, <1>1, <1>10
  <2> HIDE DEF nth
  <2> QED BY <2>1, <2>3, <2>4, <1>3
<1> QED BY <1>8, <1>9, <1>10

\* The places, of some, where u has o
Among(u, places, o) == {i \in places : u[i] = o}

LEMMA Rearranged ==
    ASSUME NEW N \in Nat, NEW places, NEW nth \in Bijection(1 .. N, places),
           NEW u, NEW o
    PROVE  Occurrences([n \in 1 .. N |-> u[nth[n]]], o) = Cardinality(Among(u, places, o))
<1> DEFINE t == [n \in 1 .. N |-> u[nth[n]]]
           A == Among(u, places, o)
           g == [n \in Where(t, o) |-> nth[n]]
<1>1. /\ nth \in [1 .. N -> places]
      /\ \A m, n \in 1 .. N : nth[m] = nth[n] => m = n
      /\ \A i \in places : \E n \in 1 .. N : nth[n] = i
  BY Zenon DEF Bijection, Injection, Surjection, IsInjective
<1> USE DEF Among
<1>2. Where(t, o) = {n \in 1 .. N : u[nth[n]] = o}
  BY DEF Where
<1>3. g \in Bijection(Where(t, o), A)
  <2>1. g \in [Where(t, o) -> A]
    BY <1>1, <1>2
  <2>2. \A m, n \in Where(t, o) : g[m] = g[n] => m = n
    BY <1>1, <1>2
  <2>3. \A i \in A : \E n \in Where(t, o) : g[n] = i
    BY <1>1, <1>2
  <2> QED BY <2>1, <2>2, <2>3, Zenon DEF Bijection, Injection, Surjection, IsInjective
<1>4. IsFiniteSet(Where(t, o))
  <2>1. Where(t, o) \in SUBSET (1 .. N) /\ IsFiniteSet(1 .. N)
    BY <1>2, FS_Interval
  <2> QED BY <2>1, FS_Subset
<1> QED BY <1>3, <1>4, SameSize DEF Occurrences

-----------------------------------------------------------------------------
(* The inductive invariant *)

\* What a slot, a variable of a handler or the C stack may hold
Pointer == Counted \cup Id \cup {IntptrCapture, NoObject}
NamedArgs(K) == Seq([key : K, value : Item])

StrBody == [kind : {"str"}, id : Id]
ArrayBody == [kind : {"array"}, content : Seq(Item \cup {NoObject}), elems : Nat]
ProxyBody == [kind : {"proxy"}, array : Object, index : 0 .. MaxElems - 1]
Buckets == [key : Item, cell : Item]
HashBody == [kind : {"hash"}, buckets : Seq(Buckets)]
BValueBody == [kind : {"bvalue"}, owner : Object, key : Item]
ScopeBody == [kind : {"scope"}, entries : Object, outer : Object]
CaptureBody == [kind : {"capture"}, invocant : Counted \cup {IntptrCapture, NoObject},
                positional : Seq(Item), o_named : NamedArgs(Id), named : NamedArgs(Object)]
Body == {Free, Value} \cup StrBody \cup ArrayBody \cup ProxyBody \cup HashBody
        \cup BValueBody \cup ScopeBody \cup CaptureBody

PendingType ==
    [op : {"none", "STORE", "bind_key", "lookup_key"}, obj : Pointer, slot : Nat,
     value : Pointer, then : Seq(Pointer)]

Typed ==
    /\ heap \in [Object -> Body]
    /\ refCnt \in [Counted -> Nat]
    /\ held \subseteq Object
    /\ todo \in Seq(Pointer)
    /\ chain \in Seq(Object)
    /\ pending \in PendingType
    /\ lost \in [Counted -> Nat]
    /\ bound \in [Object -> SUBSET Buckets]
    /\ client \in Clients

\* An array has room for its elements, and NULL in the slots behind them.
ArrayFits(a) ==
    heap[a].kind = "array" =>
        /\ Len(heap[a].content) <= MaxElems
        /\ heap[a].elems <= Len(heap[a].content)
        /\ \A i \in heap[a].elems + 1 .. Len(heap[a].content) : heap[a].content[i] = NoObject

\* A proxy is one of an array, and a scope delegates to a hash.
Linked(o) ==
    /\ heap[o].kind = "proxy" => heap[heap[o].array].kind = "array"
    /\ heap[o].kind = "scope" => heap[heap[o].entries].kind = "hash"

\* What a handler in the middle goes on with
PendingFits ==
    /\ pending.op = "none" => pending = NoPending
    /\ pending.op = "STORE" =>
          \E p, c \in Object :
             /\ pending.then = <<p, c>>
             /\ heap[p].kind = "proxy" /\ heap[p].array = pending.obj
             /\ heap[c].kind = "capture"
             /\ pending.obj \in Object /\ heap[pending.obj].kind = "array"
             /\ pending.slot \in DOMAIN heap[pending.obj].content
             /\ pending.value = NoObject
    /\ pending.op \in {"bind_key", "lookup_key"} =>
          /\ pending.obj \in Object /\ heap[pending.obj].kind = "hash"
          /\ \E n \in DOMAIN heap[pending.obj].buckets : pending.slot = 2 * n
    /\ pending.op = "bind_key" => pending.value \in Item
    /\ pending.op = "lookup_key" => pending.value = NoObject /\ pending.then = <<>>

\* Only what nobody refers to, and no capture, waits to be destroyed.
ChainFits ==
    /\ IsInjective(chain)
    /\ \A o \in Range(chain) : refCnt[o] = 0 /\ heap[o].kind # "capture"

BoundFits ==
    \A h \in Object : heap[h].kind # "hash" => bound[h] = {}

IInv ==
    /\ Typed
    /\ \A o \in Object : ArrayFits(o) /\ Linked(o)
    /\ PendingFits
    /\ ChainFits
    /\ CountsExact
    /\ BoundFits
    /\ BindingsKept

-----------------------------------------------------------------------------
(* What the bodies of objects refer to                                      *)

LEMMA BodyOfKind ==
    ASSUME NEW b \in Body
    PROVE  /\ b.kind = "array" => b \in ArrayBody
           /\ b.kind = "proxy" => b \in ProxyBody
           /\ b.kind = "hash" => b \in HashBody
           /\ b.kind = "bvalue" => b \in BValueBody
           /\ b.kind = "scope" => b \in ScopeBody
           /\ b.kind = "capture" => b \in CaptureBody
           /\ b.kind = "free" => b = Free
           /\ b.kind = "value" => b = Value
           /\ b.kind = "str" => b \in StrBody
           /\ b.kind \in {"str", "array", "proxy", "hash", "bvalue", "scope", "capture", "free", "value"}
<1>1. b \in {Free, Value} \/ b \in StrBody \/ b \in ArrayBody \/ b \in ProxyBody \/ b \in HashBody
      \/ b \in BValueBody \/ b \in ScopeBody \/ b \in CaptureBody
  BY DEF Body
<1>2. CASE b \in {Free, Value}
  BY <1>2 DEF Free, Value
<1>3. CASE b \in ArrayBody
  <2>1. b.kind = "array"
    BY <1>3 DEF ArrayBody
  <2> QED BY <2>1, <1>3
<1>4. CASE b \in ProxyBody
  <2>1. b.kind = "proxy"
    BY <1>4 DEF ProxyBody
  <2> QED BY <2>1, <1>4
<1>5. CASE b \in HashBody
  <2>1. b.kind = "hash"
    BY <1>5 DEF HashBody
  <2> QED BY <2>1, <1>5
<1>6. CASE b \in BValueBody
  <2>1. b.kind = "bvalue"
    BY <1>6 DEF BValueBody
  <2> QED BY <2>1, <1>6
<1>7. CASE b \in ScopeBody
  <2>1. b.kind = "scope"
    BY <1>7 DEF ScopeBody
  <2> QED BY <2>1, <1>7
<1>8. CASE b \in CaptureBody
  <2>1. b.kind = "capture"
    BY <1>8 DEF CaptureBody
  <2> QED BY <2>1, <1>8
<1>9. CASE b \in StrBody
  <2>1. b.kind = "str"
    BY <1>9 DEF StrBody
  <2> QED BY <2>1, <1>9
<1> QED BY <1>1, <1>2, <1>3, <1>4, <1>5, <1>6, <1>7, <1>8, <1>9

LEMMA FunctionIsSeq ==
    ASSUME NEW S, NEW n \in Nat, NEW f \in [1 .. n -> S]
    PROVE  f \in Seq(S) /\ Len(f) = n
OBVIOUS

LEMMA KeysAndValues ==
    ASSUME NEW K, NEW V, NEW named \in Seq([key : K, value : V])
    PROVE  /\ Keys(named) \in Seq(K) /\ Values(named) \in Seq(V)
           /\ Len(Keys(named)) = Len(named) /\ Len(Values(named)) = Len(named)
<1>1. DOMAIN named = 1 .. Len(named) /\ Len(named) \in Nat
  OBVIOUS
<1>2. \A i \in 1 .. Len(named) : named[i].key \in K /\ named[i].value \in V
  <2> SUFFICES ASSUME NEW i \in 1 .. Len(named)
               PROVE  named[i].key \in K /\ named[i].value \in V
    OBVIOUS
  <2>1. named[i] \in [key : K, value : V]
    BY <1>1, ElementOfSeq
  <2> QED BY <2>1
<1>3. /\ Keys(named) = [i \in 1 .. Len(named) |-> named[i].key]
      /\ Values(named) = [i \in 1 .. Len(named) |-> named[i].value]
  BY <1>1 DEF Keys, Values
<1>4. Keys(named) \in [1 .. Len(named) -> K]
  BY <1>2, <1>3
<1>5. Values(named) \in [1 .. Len(named) -> V]
  BY <1>2, <1>3
<1>6. Keys(named) \in Seq(K) /\ Len(Keys(named)) = Len(named)
  BY <1>1, <1>4, FunctionIsSeq
<1>7. Values(named) \in Seq(V) /\ Len(Values(named)) = Len(named)
  BY <1>1, <1>5, FunctionIsSeq
<1> QED BY <1>6, <1>7

LEMMA BucketAt ==
    ASSUME NEW buckets \in Seq(Buckets), NEW n \in DOMAIN buckets
    PROVE  n \in Nat /\ n > 0 /\ n <= Len(buckets)
           /\ buckets[n].key \in Item /\ buckets[n].cell \in Item
<1>1. n \in 1 .. Len(buckets) /\ Len(buckets) \in Nat
  OBVIOUS
<1>2. buckets[n] \in Buckets
  BY <1>1, ElementOfSeq
<1> QED BY <1>1, <1>2 DEF Buckets

LEMMA Halves ==
    ASSUME NEW n \in Nat, NEW i \in 1 .. 2 * n
    PROVE  /\ (i + 1) \div 2 \in 1 .. n
           /\ i % 2 = 1 => i = 2 * ((i + 1) \div 2) - 1
           /\ i % 2 # 1 => i = 2 * ((i + 1) \div 2)
OBVIOUS

LEMMA TwiceOf ==
    ASSUME NEW n \in Nat
    PROVE  /\ (2 * n + 1) \div 2 = n /\ (2 * n) \div 2 = n /\ (2 * n) % 2 # 1
           /\ n > 0 => (2 * n - 1 + 1) \div 2 = n /\ (2 * n - 1) % 2 = 1
OBVIOUS

LEMMA KeysAndCellsType ==
    ASSUME NEW buckets \in Seq(Buckets)
    PROVE  /\ KeysAndCells(buckets) \in Seq(Item)
           /\ Len(KeysAndCells(buckets)) = 2 * Len(buckets)
           /\ \A n \in DOMAIN buckets : /\ 2 * n \in DOMAIN KeysAndCells(buckets)
                                        /\ KeysAndCells(buckets)[2 * n] = buckets[n].cell
                                        /\ KeysAndCells(buckets)[2 * n - 1] = buckets[n].key
<1> DEFINE N == 2 * Len(buckets)
           at(i) == LET b == buckets[(i + 1) \div 2] IN IF i % 2 = 1 THEN b.key ELSE b.cell
<1>1. DOMAIN buckets = 1 .. Len(buckets) /\ Len(buckets) \in Nat /\ N \in Nat
  OBVIOUS
<1>2. KeysAndCells(buckets) = [i \in 1 .. N |-> at(i)]
  BY DEF KeysAndCells
<1>3. \A i \in 1 .. N : at(i) \in Item
  <2> SUFFICES ASSUME NEW i \in 1 .. N PROVE at(i) \in Item
    OBVIOUS
  <2>1. (i + 1) \div 2 \in DOMAIN buckets
    BY <1>1, Halves
  <2> QED BY <2>1, BucketAt
<1>4. \A n \in DOMAIN buckets : /\ 2 * n \in 1 .. N /\ at(2 * n) = buckets[n].cell
                                /\ 2 * n - 1 \in 1 .. N /\ at(2 * n - 1) = buckets[n].key
  <2> SUFFICES ASSUME NEW n \in 1 .. Len(buckets)
               PROVE  /\ 2 * n \in 1 .. N /\ at(2 * n) = buckets[n].cell
                      /\ 2 * n - 1 \in 1 .. N /\ at(2 * n - 1) = buckets[n].key
    BY <1>1
  <2>1. n \in Nat /\ n > 0 /\ 2 * n \in 1 .. N /\ 2 * n - 1 \in 1 .. N
    BY <1>1
  <2>2. at(2 * n) = buckets[n].cell
    BY <2>1, TwiceOf
  <2>3. at(2 * n - 1) = buckets[n].key
    BY <2>1, TwiceOf
  <2> QED BY <2>1, <2>2, <2>3
<1> HIDE DEF at, N
<1>5. KeysAndCells(buckets) \in [1 .. N -> Item]
  BY <1>2, <1>3
<1>6. KeysAndCells(buckets) \in Seq(Item) /\ Len(KeysAndCells(buckets)) = N
  BY <1>1, <1>5, FunctionIsSeq
<1>7. DOMAIN KeysAndCells(buckets) = 1 .. N
  BY <1>2
<1> QED BY <1>2, <1>4, <1>6, <1>7 DEF N

LEMMA KeysAndCellsAt ==
    ASSUME NEW buckets \in Seq(Buckets), NEW i \in DOMAIN KeysAndCells(buckets)
    PROVE  \E n \in DOMAIN buckets :
              \/ i = 2 * n /\ KeysAndCells(buckets)[i] = buckets[n].cell
              \/ i = 2 * n - 1 /\ KeysAndCells(buckets)[i] = buckets[n].key
<1> DEFINE n == (i + 1) \div 2
<1>1. DOMAIN buckets = 1 .. Len(buckets) /\ Len(buckets) \in Nat
  OBVIOUS
<1>2. i \in 1 .. 2 * Len(buckets)
  BY DEF KeysAndCells
<1>3. n \in DOMAIN buckets /\ (i = 2 * n \/ i = 2 * n - 1)
  BY <1>1, <1>2, Halves
<1> HIDE DEF n
<1> QED BY <1>3, KeysAndCellsType

LEMMA SeqOfMore ==
    ASSUME NEW S, NEW T, S \subseteq T, NEW s \in Seq(S)
    PROVE  s \in Seq(T)
OBVIOUS

LEMMA PointerSets ==
    /\ Item \subseteq Pointer /\ Item \cup {NoObject} \subseteq Pointer
    /\ Object \subseteq Pointer /\ Id \subseteq Pointer /\ Counted \subseteq Pointer
    /\ Counted \cup {IntptrCapture, NoObject} \subseteq Pointer
    /\ Object \subseteq Counted /\ Object \subseteq Item /\ Id \subseteq Item
    /\ NoObject \notin Counted /\ NoObject \notin Item
    /\ IntptrCapture \notin Counted /\ IntptrCapture \notin Item
    /\ Id \cap Counted = {} /\ Interpreter \in Counted /\ Interpreter \notin Object
    /\ NoObject \in Pointer
BY MessagesAssumption DEF Pointer, Item, Counted

LEMMA CaptureReferences ==
    ASSUME NEW b \in CaptureBody
    PROVE  /\ References(b) \in Seq(Pointer)
           /\ \A o : Occurrences(References(b), o) =
                       One(b.invocant, o) + Occurrences(b.positional, o)
                       + Occurrences(Keys(b.o_named), o) + Occurrences(Values(b.o_named), o)
                       + Occurrences(Keys(b.named), o) + Occurrences(Values(b.named), o)
<1>1. /\ b.kind = "capture" /\ b.invocant \in Pointer /\ b.positional \in Seq(Pointer)
      /\ b.o_named \in NamedArgs(Id) /\ b.named \in NamedArgs(Object)
  BY PointerSets, SeqOfMore DEF CaptureBody
<1>2. /\ Keys(b.o_named) \in Seq(Id) /\ Values(b.o_named) \in Seq(Item)
      /\ Keys(b.named) \in Seq(Object) /\ Values(b.named) \in Seq(Item)
  BY <1>1, KeysAndValues DEF NamedArgs
<1>3. /\ Keys(b.o_named) \in Seq(Pointer) /\ Values(b.o_named) \in Seq(Pointer)
      /\ Keys(b.named) \in Seq(Pointer) /\ Values(b.named) \in Seq(Pointer)
  BY <1>2, PointerSets, SeqOfMore
<1> DEFINE r0 == <<b.invocant>>
           r1 == r0 \o b.positional
           r2 == r1 \o Keys(b.o_named)
           r3 == r2 \o Values(b.o_named)
           r4 == r3 \o Keys(b.named)
           r5 == r4 \o Values(b.named)
<1>4. References(b) = r5
  BY <1>1 DEF References
<1>5. r0 \in Seq(Pointer)
  BY <1>1
<1> HIDE DEF r0
<1>6. r1 \in Seq(Pointer)
  BY <1>5, <1>1
<1>7. \A o : Occurrences(r1, o) = Occurrences(r0, o) + Occurrences(b.positional, o)
  BY <1>5, <1>1, OccConcat
<1> HIDE DEF r1
<1>8. r2 \in Seq(Pointer)
  BY <1>6, <1>3
<1>9. \A o : Occurrences(r2, o) = Occurrences(r1, o) + Occurrences(Keys(b.o_named), o)
  BY <1>6, <1>3, OccConcat
<1> HIDE DEF r2
<1>10. r3 \in Seq(Pointer)
  BY <1>8, <1>3
<1>11. \A o : Occurrences(r3, o) = Occurrences(r2, o) + Occurrences(Values(b.o_named), o)
  BY <1>8, <1>3, OccConcat
<1> HIDE DEF r3
<1>12. r4 \in Seq(Pointer)
  BY <1>10, <1>3
<1>13. \A o : Occurrences(r4, o) = Occurrences(r3, o) + Occurrences(Keys(b.named), o)
  BY <1>10, <1>3, OccConcat
<1> HIDE DEF r4
<1>14. r5 \in Seq(Pointer)
  BY <1>12, <1>3
<1>15. \A o : Occurrences(r5, o) = Occurrences(r4, o) + Occurrences(Values(b.named), o)
  BY <1>12, <1>3, OccConcat
<1>16. \A o : Occurrences(r0, o) = One(b.invocant, o)
  BY OccTuples DEF r0
<1> HIDE DEF r5
<1> QED BY <1>4, <1>7, <1>9, <1>11, <1>13, <1>14, <1>15, <1>16

LEMMA ReferencesOf ==
    ASSUME NEW b \in Body
    PROVE  /\ References(b) \in Seq(Pointer)
           /\ b.kind = "array" => References(b) = b.content
           /\ b.kind = "proxy" => References(b) = <<b.array>>
           /\ b.kind = "hash" => References(b) = KeysAndCells(b.buckets)
           /\ b.kind = "bvalue" => References(b) = <<b.owner, b.key>>
           /\ b.kind = "scope" => References(b) = <<b.entries, b.outer>>
           /\ b.kind \in {"free", "value", "str"} => References(b) = <<>>
<1>1. /\ b.kind = "array" => References(b) = b.content
      /\ b.kind = "proxy" => References(b) = <<b.array>>
      /\ b.kind = "hash" => References(b) = KeysAndCells(b.buckets)
      /\ b.kind = "bvalue" => References(b) = <<b.owner, b.key>>
      /\ b.kind = "scope" => References(b) = <<b.entries, b.outer>>
      /\ b.kind \in {"free", "value", "str"} => References(b) = <<>>
  BY DEF References
<1>2. CASE b.kind = "array"
  <2>1. b.content \in Seq(Item \cup {NoObject})
    BY <1>2, BodyOfKind DEF ArrayBody
  <2> QED BY <1>1, <1>2, <2>1, PointerSets, SeqOfMore
<1>3. CASE b.kind = "proxy"
  <2>1. b.array \in Pointer
    BY <1>3, BodyOfKind, PointerSets DEF ProxyBody
  <2>2. <<b.array>> \in Seq(Pointer)
    BY <2>1
  <2> QED BY <1>1, <1>3, <2>2
<1>4. CASE b.kind = "hash"
  <2>1. b.buckets \in Seq(Buckets)
    BY <1>4, BodyOfKind DEF HashBody
  <2>2. KeysAndCells(b.buckets) \in Seq(Item)
    BY <2>1, KeysAndCellsType
  <2> QED BY <1>1, <1>4, <2>2, PointerSets, SeqOfMore
<1>5. CASE b.kind = "bvalue"
  <2>1. b.owner \in Pointer /\ b.key \in Pointer
    BY <1>5, BodyOfKind, PointerSets DEF BValueBody
  <2>2. <<b.owner, b.key>> \in Seq(Pointer)
    BY <2>1
  <2> QED BY <1>1, <1>5, <2>2
<1>6. CASE b.kind = "scope"
  <2>1. b.entries \in Pointer /\ b.outer \in Pointer
    BY <1>6, BodyOfKind, PointerSets DEF ScopeBody
  <2>2. <<b.entries, b.outer>> \in Seq(Pointer)
    BY <2>1
  <2> QED BY <1>1, <1>6, <2>2
<1>7. CASE b.kind = "capture"
  BY <1>1, <1>7, BodyOfKind, CaptureReferences
<1>8. CASE b.kind \in {"free", "value", "str"}
  <2>1. <<>> \in Seq(Pointer)
    OBVIOUS
  <2> QED BY <1>1, <1>8, <2>1
<1> QED BY <1>1, <1>2, <1>3, <1>4, <1>5, <1>6, <1>7, <1>8, BodyOfKind

-----------------------------------------------------------------------------
(* capture_create keeps every argument                                      *)

LEMMA NamedElement ==
    ASSUME NEW K, NEW V, NEW named \in Seq([key : K, value : V]), NEW i \in DOMAIN named
    PROVE  named[i].key \in K /\ named[i].value \in V
<1>1. i \in 1 .. Len(named)
  OBVIOUS
<1>2. named[i] \in [key : K, value : V]
  BY <1>1, ElementOfSeq
<1> QED BY <1>2

KeysIn(named, places, K) == \A i \in places : named[i].key \in K

IsPart(part, named, places, K) ==
    /\ part \in NamedArgs(K)
    /\ \A o : /\ Occurrences(Keys(part), o) = Cardinality(Among(Keys(named), places, o))
              /\ Occurrences(Values(part), o) = Cardinality(Among(Values(named), places, o))

LEMMA PartOfNamed ==
    ASSUME NEW named \in NamedArgs(Item), NEW places \in SUBSET DOMAIN named,
           NEW before, IsOrder(places, before), NEW K,
           KeysIn(named, places, K),
           NEW part, part = Arranged(named, places, before)
    PROVE  IsPart(part, named, places, K)
<1> DEFINE N == Cardinality(places)
<1>1. named \in Seq([key : Item, value : Item])
  BY DEF NamedArgs
<1>2. N \in Nat
  BY <1>1, PlacesFinite
<1>3. PICK nth \in Bijection(1 .. N, places) : part = [n \in 1 .. N |-> named[nth[n]]]
  <2>1. PICK nth \in Bijection(1 .. N, places) :
           \A n \in 1 .. N : Arranged(named, places, before)[n] = named[nth[n]]
    BY <1>1, ArrangedOnce
  <2>2. part = [n \in 1 .. N |-> part[n]]
    BY DEF Arranged
  <2>3. part = [n \in 1 .. N |-> named[nth[n]]]
    BY <2>1, <2>2
  <2> QED BY <2>3
<1>4. nth \in [1 .. N -> places]
  BY Zenon DEF Bijection, Injection
<1> HIDE DEF N
<1>5. \A i \in places : named[i] \in [key : K, value : Item]
  <2> SUFFICES ASSUME NEW i \in places PROVE named[i] \in [key : K, value : Item]
    OBVIOUS
  <2>1. i \in 1 .. Len(named)
    BY <1>1
  <2>2. named[i] \in [key : Item, value : Item]
    BY <2>1, <1>1, ElementOfSeq
  <2> QED BY <2>2 DEF KeysIn
<1>6. part \in [1 .. N -> [key : K, value : Item]]
  BY <1>3, <1>4, <1>5
<1>7. part \in NamedArgs(K) /\ Len(part) = N
  <2>1. \A T : part \in [1 .. N -> T] => part \in Seq(T) /\ Len(part) = N
    BY <1>2
  <2> QED BY <2>1, <1>6 DEF NamedArgs
<1>8. /\ Keys(part) = [n \in 1 .. N |-> Keys(named)[nth[n]]]
      /\ Values(part) = [n \in 1 .. N |-> Values(named)[nth[n]]]
  BY <1>3, <1>4 DEF Keys, Values
<1>9. \A o : /\ Occurrences(Keys(part), o) = Cardinality(Among(Keys(named), places, o))
             /\ Occurrences(Values(part), o) = Cardinality(Among(Values(named), places, o))
  BY <1>2, <1>8, Rearranged
<1> QED BY <1>7, <1>9 DEF IsPart

\* Two parts that share no place and leave out none
LEMMA TwoParts ==
    ASSUME NEW S, NEW u \in Seq(S), NEW P, NEW Q,
           P \cup Q = DOMAIN u, P \cap Q = {}, NEW o
    PROVE  Cardinality(Among(u, P, o)) + Cardinality(Among(u, Q, o))
               = Occurrences(u, o)
<1> DEFINE A == Among(u, P, o)
           B == Among(u, Q, o)
<1>1. Where(u, o) = A \cup B /\ A \cap B = {}
  BY DEF Where, Among
<1>2. IsFiniteSet(Where(u, o))
  BY WhereFinite
<1>3. IsFiniteSet(A) /\ IsFiniteSet(B)
  BY <1>1, <1>2, FS_Subset
<1>4. Cardinality(A \cup B) = Cardinality(A) + Cardinality(B) - Cardinality(A \cap B)
  BY <1>3, FS_Union
<1>5. Cardinality(A \cap B) = 0
  BY <1>1, FS_EmptySet
<1>6. Cardinality(A) \in Nat /\ Cardinality(B) \in Nat
  BY <1>3, FS_CardinalityType
<1>7. Cardinality(Where(u, o)) = Cardinality(A \cup B)
  BY <1>1
<1> HIDE DEF A, B
<1>8. Cardinality(A) + Cardinality(B) = Cardinality(Where(u, o))
  BY <1>4, <1>5, <1>6, <1>7
<1> QED BY <1>8 DEF A, B, Occurrences

IdPlaces(named) == {i \in DOMAIN named : IdKey(named[i])}
OtherPlaces(named) == {i \in DOMAIN named : OtherKey(named[i])}

\* The argument that Sorted orders by
SortedBefore(named, places) ==
    {p \in places \X places :
       LET m == named[p[1]]  n == named[p[2]]
       IN  cmp_opt_named(m, n) \/ (~cmp_opt_named(n, m) /\ p[1] < p[2])}

LEMMA SortedIsOrder ==
    ASSUME NEW named \in NamedArgs(Item)
    PROVE  IsOrder(IdPlaces(named), SortedBefore(named, IdPlaces(named)))
<1> DEFINE P == IdPlaces(named)
           before == SortedBefore(named, P)
           at(i) == Address[named[i].key]
<1>1. \A i \in P : i \in Nat /\ at(i) \in Nat
  <2> SUFFICES ASSUME NEW i \in P PROVE i \in Nat /\ at(i) \in Nat
    OBVIOUS
  <2>1. named \in Seq([key : Item, value : Item])
    BY DEF NamedArgs
  <2>2. i \in DOMAIN named /\ named[i].key \in Id
    BY DEF IdPlaces, IdKey
  <2>3. DOMAIN named = 1 .. Len(named)
    BY <2>1
  <2> QED BY <2>2, <2>3, MessagesAssumption
<1>2. \A i, j \in P : <<i, j>> \in before <=> at(i) < at(j) \/ (~(at(j) < at(i)) /\ i < j)
  <2> SUFFICES ASSUME NEW i \in P, NEW j \in P
               PROVE  <<i, j>> \in before <=> at(i) < at(j) \/ (~(at(j) < at(i)) /\ i < j)
    OBVIOUS
  <2> HIDE DEF P
  <2> QED BY DEF SortedBefore, cmp_opt_named
<1> HIDE DEF P, before, at
<1>3. \A i \in P : <<i, i>> \notin before
  BY <1>1, <1>2
<1>4. \A i, j, k \in P : <<i, j>> \in before /\ <<j, k>> \in before => <<i, k>> \in before
  <2> SUFFICES ASSUME NEW i \in P, NEW j \in P, NEW k \in P,
                      <<i, j>> \in before, <<j, k>> \in before
               PROVE  <<i, k>> \in before
    OBVIOUS
  <2>1. /\ at(i) < at(j) \/ (~(at(j) < at(i)) /\ i < j)
        /\ at(j) < at(k) \/ (~(at(k) < at(j)) /\ j < k)
    BY <1>2
  <2>2. /\ at(i) \in Nat /\ at(j) \in Nat /\ at(k) \in Nat
        /\ i \in Nat /\ j \in Nat /\ k \in Nat
    BY <1>1
  <2>3. at(i) < at(k) \/ (~(at(k) < at(i)) /\ i < k)
    BY <2>1, <2>2
  <2> QED BY <2>3, <1>2
<1>5. \A i, j \in P : i # j => <<i, j>> \in before \/ <<j, i>> \in before
  <2> SUFFICES ASSUME NEW i \in P, NEW j \in P, i # j
               PROVE  <<i, j>> \in before \/ <<j, i>> \in before
    OBVIOUS
  <2>1. at(i) \in Nat /\ at(j) \in Nat /\ i \in Nat /\ j \in Nat
    BY <1>1
  <2>2. \/ at(i) < at(j) \/ (~(at(j) < at(i)) /\ i < j)
        \/ at(j) < at(i) \/ (~(at(i) < at(j)) /\ j < i)
    BY <2>1
  <2> QED BY <2>2, <1>2
<1>6. IsOrder(P, before)
  BY <1>3, <1>4, <1>5, Zenon DEF IsOrder
<1> QED BY <1>6 DEF P, before

LEMMA InOrderIsOrder ==
    ASSUME NEW places \in SUBSET Nat
    PROVE  IsOrder(places, {p \in places \X places : p[1] < p[2]})
<1> DEFINE before == {p \in places \X places : p[1] < p[2]}
<1>1. \A i, j \in places : <<i, j>> \in before <=> i < j
  OBVIOUS
<1>2. \A i \in places : i \in Nat
  OBVIOUS
<1> HIDE DEF before
<1>3. IsOrder(places, before)
  BY <1>1, <1>2 DEF IsOrder
<1> QED BY <1>3 DEF before

LEMMA CaptureFacts ==
    ASSUME NEW invocant \in Counted \cup {IntptrCapture, NoObject}, NEW args,
           args.positional \in Seq(Item), args.named \in NamedArgs(Item)
    PROVE  /\ Capture(invocant, args) \in CaptureBody
           /\ References(Capture(invocant, args)) \in Seq(Pointer)
           /\ \A o : Occurrences(References(Capture(invocant, args)), o) =
                        One(invocant, o) + Occurrences(args.positional, o)
                        + Occurrences(Keys(args.named), o) + Occurrences(Values(args.named), o)
<1> DEFINE named == args.named
           P == IdPlaces(named)
           Q == OtherPlaces(named)
           c == Capture(invocant, args)
<1>1. named \in Seq([key : Item, value : Item])
  BY DEF NamedArgs
<1>2. P \in SUBSET DOMAIN named /\ Q \in SUBSET DOMAIN named
      /\ P \cup Q = DOMAIN named /\ P \cap Q = {}
  BY DEF IdPlaces, OtherPlaces, IdKey, OtherKey
<1>3. KeysIn(named, P, Id)
  BY DEF IdPlaces, IdKey, KeysIn
<1>4. KeysIn(named, Q, Object)
  <2> SUFFICES ASSUME NEW i \in Q PROVE named[i].key \in Object
    BY DEF KeysIn
  <2>1. i \in DOMAIN named /\ named[i].key \notin Id
    BY DEF OtherPlaces, OtherKey
  <2>2. named[i].key \in Item
    BY <1>1, <2>1, NamedElement
  <2> QED BY <2>1, <2>2 DEF Item
<1>5. Q \in SUBSET Nat
  BY <1>1, <1>2, PlacesFinite
<1>6. /\ c.kind = "capture" /\ c.invocant = invocant /\ c.positional = args.positional
      /\ c.o_named = Arranged(named, P, SortedBefore(named, P))
      /\ c.named = Arranged(named, Q, {p \in Q \X Q : p[1] < p[2]})
      /\ c = [kind |-> "capture", invocant |-> c.invocant, positional |-> c.positional,
              o_named |-> c.o_named, named |-> c.named]
  BY DEF Capture, Sorted, InOrder, SortedBefore, IdPlaces, OtherPlaces
<1>0. named \in NamedArgs(Item)
  OBVIOUS
<1> HIDE DEF P, Q, c, named
<1>7. /\ c.o_named \in NamedArgs(Id)
      /\ \A o : /\ Occurrences(Keys(c.o_named), o) = Cardinality(Among(Keys(named), P, o))
                /\ Occurrences(Values(c.o_named), o) = Cardinality(Among(Values(named), P, o))
  <2>1. IsOrder(P, SortedBefore(named, P))
    BY <1>0, SortedIsOrder DEF P
  <2> DEFINE before == SortedBefore(named, P)
  <2>2. IsOrder(P, before) /\ c.o_named = Arranged(named, P, before)
    BY <2>1, <1>6
  <2> HIDE DEF before
  <2>3. P \in SUBSET DOMAIN named
    BY <1>2
  <2>4. IsPart(c.o_named, named, P, Id)
    BY <2>2, <2>3, <1>0, <1>3, PartOfNamed
  <2> QED BY <2>4 DEF IsPart
<1>8. /\ c.named \in NamedArgs(Object)
      /\ \A o : /\ Occurrences(Keys(c.named), o) = Cardinality(Among(Keys(named), Q, o))
                /\ Occurrences(Values(c.named), o) = Cardinality(Among(Values(named), Q, o))
  <2>1. IsOrder(Q, {p \in Q \X Q : p[1] < p[2]})
    BY <1>5, InOrderIsOrder
  <2> DEFINE before == {p \in Q \X Q : p[1] < p[2]}
  <2>2. IsOrder(Q, before) /\ c.named = Arranged(named, Q, before)
    BY <2>1, <1>6
  <2> HIDE DEF before
  <2>3. Q \in SUBSET DOMAIN named
    BY <1>2
  <2>4. IsPart(c.named, named, Q, Object)
    BY <2>2, <2>3, <1>0, <1>4, PartOfNamed
  <2> QED BY <2>4 DEF IsPart
<1>9. c \in CaptureBody
  BY <1>6, <1>7, <1>8 DEF CaptureBody
<1>10. Keys(named) \in Seq(Item) /\ Values(named) \in Seq(Item)
  BY <1>1, KeysAndValues
<1>11. DOMAIN Keys(named) = DOMAIN named /\ DOMAIN Values(named) = DOMAIN named
  BY DEF Keys, Values
<1>12. \A o : /\ Occurrences(Keys(c.o_named), o) + Occurrences(Keys(c.named), o)
                   = Occurrences(Keys(named), o)
              /\ Occurrences(Values(c.o_named), o) + Occurrences(Values(c.named), o)
                   = Occurrences(Values(named), o)
  <2> TAKE o
  <2> DEFINE keys == Keys(named)
             values == Values(named)
  <2>1. /\ keys \in Seq(Item) /\ values \in Seq(Item)
        /\ P \cup Q = DOMAIN keys /\ P \cup Q = DOMAIN values
    BY <1>2, <1>10, <1>11
  <2> HIDE DEF keys, values
  <2>2. /\ Cardinality(Among(keys, P, o)) + Cardinality(Among(keys, Q, o))
             = Occurrences(keys, o)
        /\ Cardinality(Among(values, P, o)) + Cardinality(Among(values, Q, o))
             = Occurrences(values, o)
    BY <1>2, <2>1, TwoParts
  <2> QED BY <2>2, <1>7, <1>8 DEF keys, values
<1>13. /\ References(c) \in Seq(Pointer)
       /\ \A o : Occurrences(References(c), o) =
                    One(invocant, o) + Occurrences(args.positional, o)
                    + Occurrences(Keys(c.o_named), o) + Occurrences(Values(c.o_named), o)
                    + Occurrences(Keys(c.named), o) + Occurrences(Values(c.named), o)
  BY <1>6, <1>9, CaptureReferences
<1>14. \A o : /\ One(invocant, o) \in Nat /\ Occurrences(args.positional, o) \in Nat
              /\ Occurrences(Keys(c.o_named), o) \in Nat /\ Occurrences(Values(c.o_named), o) \in Nat
              /\ Occurrences(Keys(c.named), o) \in Nat /\ Occurrences(Values(c.named), o) \in Nat
  <2>1. /\ Keys(c.o_named) \in Seq(Id) /\ Values(c.o_named) \in Seq(Item)
        /\ Keys(c.named) \in Seq(Object) /\ Values(c.named) \in Seq(Item)
    BY <1>7, <1>8, KeysAndValues DEF NamedArgs
  <2> QED BY <2>1, WhereFinite DEF One
<1>15. \A o : Occurrences(References(c), o) =
                    One(invocant, o) + Occurrences(args.positional, o)
                    + Occurrences(Keys(named), o) + Occurrences(Values(named), o)
  <2> TAKE o
  <2>1. /\ Occurrences(References(c), o) =
             One(invocant, o) + Occurrences(args.positional, o)
             + Occurrences(Keys(c.o_named), o) + Occurrences(Values(c.o_named), o)
             + Occurrences(Keys(c.named), o) + Occurrences(Values(c.named), o)
        /\ Occurrences(Keys(c.o_named), o) + Occurrences(Keys(c.named), o)
             = Occurrences(Keys(named), o)
        /\ Occurrences(Values(c.o_named), o) + Occurrences(Values(c.named), o)
             = Occurrences(Values(named), o)
        /\ One(invocant, o) \in Nat /\ Occurrences(args.positional, o) \in Nat
        /\ Occurrences(Keys(c.o_named), o) \in Nat /\ Occurrences(Values(c.o_named), o) \in Nat
        /\ Occurrences(Keys(c.named), o) \in Nat /\ Occurrences(Values(c.named), o) \in Nat
    BY <1>12, <1>13, <1>14
  <2> QED BY <2>1
<1>16. /\ c \in CaptureBody /\ References(c) \in Seq(Pointer)
       /\ \A o : Occurrences(References(c), o) =
                    One(invocant, o) + Occurrences(args.positional, o)
                    + Occurrences(Keys(args.named), o) + Occurrences(Values(args.named), o)
  BY <1>9, <1>13, <1>15 DEF named
<1> QED BY <1>16 DEF c

-----------------------------------------------------------------------------
(* Counting the references                                                  *)

SlotsOf(h) == [a \in Object |-> References(h[a])]
InHeap(h, o) == InSlots(SlotsOf(h), o)
Held(o) == IF o \in held THEN 1 ELSE 0
Root(o) == IF o = Interpreter THEN 1 ELSE 0

\* The reference that the pending handler has released and not yet overwritten
Masked(o) ==
    IF pending.op \in {"STORE", "bind_key"}
    THEN One(References(heap[pending.obj])[pending.slot], o) ELSE 0

LEMMA SlotsOfType ==
    ASSUME NEW h \in [Object -> Body]
    PROVE  /\ SlotsOf(h) \in [Object -> Seq(Pointer)]
           /\ \A o : InHeap(h, o) \in Nat
<1>1. \A a \in Object : References(h[a]) \in Seq(Pointer)
  <2> SUFFICES ASSUME NEW a \in Object PROVE References(h[a]) \in Seq(Pointer)
    OBVIOUS
  <2>1. h[a] \in Body
    OBVIOUS
  <2> QED BY <2>1, ReferencesOf
<1>2. SlotsOf(h) \in [Object -> Seq(Pointer)]
  BY <1>1 DEF SlotsOf
<1> QED BY <1>2, PairsFinite DEF InHeap

LEMMA InHeapExcept ==
    ASSUME NEW h \in [Object -> Body], NEW a \in Object, NEW b \in Body, NEW o
    PROVE  /\ Put(h, a, b) \in [Object -> Body]
           /\ \A x \in Object : Put(h, a, b)[x] = IF x = a THEN b ELSE h[x]
           /\ InHeap(Put(h, a, b), o) + Occurrences(References(h[a]), o)
                 = InHeap(h, o) + Occurrences(References(b), o)
<1>1. References(b) \in Seq(Pointer) /\ SlotsOf(h) \in [Object -> Seq(Pointer)]
  BY ReferencesOf, SlotsOfType
<1>2. SlotsOf(Put(h, a, b)) = Put(SlotsOf(h), a, References(b))
  BY DEF SlotsOf, Put
<1>3. SlotsOf(h)[a] = References(h[a])
  BY DEF SlotsOf
<1>4. PutCounts(Pointer, SlotsOf(h), a, References(b), o)
  BY <1>1, InSlotsExcept
<1>5. /\ Put(h, a, b) \in [Object -> Body]
      /\ \A x \in Object : Put(h, a, b)[x] = IF x = a THEN b ELSE h[x]
  BY DEF Put
<1> QED BY <1>2, <1>3, <1>4, <1>5 DEF InHeap, PutCounts

LEMMA InHeapZero ==
    ASSUME NEW h \in [Object -> Body], NEW o
    PROVE  InHeap(h, o) = 0 <=> \A a \in Object : Occurrences(References(h[a]), o) = 0
<1>1. SlotsOf(h) \in [Object -> Seq(Pointer)] /\ \A a \in Object : SlotsOf(h)[a] = References(h[a])
  BY SlotsOfType DEF SlotsOf
<1>2. InHeap(h, o) = 0 <=>
         \A a \in Object, i \in Nat : i \in DOMAIN References(h[a]) => References(h[a])[i] # o
  BY <1>1, InSlotsZero DEF InHeap
<1>3. \A a \in Object : Occurrences(References(h[a]), o) = 0 <=>
         \A i \in Nat : i \in DOMAIN References(h[a]) => References(h[a])[i] # o
  <2> SUFFICES ASSUME NEW a \in Object
               PROVE  Occurrences(References(h[a]), o) = 0 <=>
                        \A i \in Nat : i \in DOMAIN References(h[a]) => References(h[a])[i] # o
    OBVIOUS
  <2>1. References(h[a]) \in Seq(Pointer)
    BY <1>1
  <2>2. DOMAIN References(h[a]) \subseteq Nat
    BY <2>1
  <2> QED BY <2>1, <2>2, OccAbsent
<1> QED BY <1>2, <1>3

LEMMA NoOneIsNull == \A o \in Counted : One(NoObject, o) = 0 /\ One(IntptrCapture, o) = 0
BY PointerSets DEF One

\* One slot is not looked at.
Without(h, obj, slot) ==
    [a \in Object |-> IF a = obj THEN [References(h[a]) EXCEPT ![slot] = NoObject]
                     ELSE References(h[a])]

LEMMA MaskedSlot ==
    ASSUME NEW h \in [Object -> Body], NEW obj \in Object,
           NEW slot \in DOMAIN References(h[obj]), NEW o \in Counted
    PROVE  /\ InSlots(Without(h, obj, slot), o) \in Nat
           /\ InSlots(Without(h, obj, slot), o) + One(References(h[obj])[slot], o) = InHeap(h, o)
<1> DEFINE refs == References(h[obj])
           new == [refs EXCEPT ![slot] = NoObject]
           slots == SlotsOf(h)
           map == Without(h, obj, slot)
<1>1. refs \in Seq(Pointer) /\ slots \in [Object -> Seq(Pointer)]
  BY ReferencesOf, SlotsOfType
<1>2. map = Put(slots, obj, new) /\ slots[obj] = refs
  BY DEF SlotsOf, Put, Without
<1>3. new \in Seq(Pointer)
  BY <1>1, PointerSets
<1>4. Occurrences(new, o) + One(refs[slot], o) = Occurrences(refs, o) + One(NoObject, o)
  BY <1>1, PointerSets, OccExcept
<1>5. Occurrences(new, o) \in Nat /\ Occurrences(refs, o) \in Nat
  BY <1>1, <1>3, WhereFinite
<1>6. InHeap(h, o) = InSlots(slots, o) /\ InHeap(h, o) \in Nat
  BY SlotsOfType DEF InHeap
<1>7. One(NoObject, o) = 0 /\ One(refs[slot], o) \in Nat
  BY NoOneIsNull DEF One
<1> HIDE DEF new, slots, map
<1>8. PutCounts(Pointer, slots, obj, new, o)
  BY <1>1, <1>3, InSlotsExcept
<1>9. /\ map \in [Object -> Seq(Pointer)]
      /\ InSlots(map, o) + Occurrences(refs, o) = InSlots(slots, o) + Occurrences(new, o)
  BY <1>2, <1>8 DEF PutCounts
<1>10. InSlots(map, o) \in Nat
  BY <1>9, PairsFinite
<1>11. InSlots(map, o) + One(refs[slot], o) = InHeap(h, o)
  <2>1. InSlots(slots, o) \in Nat /\ InHeap(h, o) = InSlots(slots, o)
    BY <1>6
  <2>2. InSlots(map, o) + Occurrences(refs, o) = InSlots(slots, o) + Occurrences(new, o)
    BY <1>9
  <2>3. Occurrences(new, o) + One(refs[slot], o) = Occurrences(refs, o)
    BY <1>4, <1>5, <1>7
  <2> QED BY <2>1, <2>2, <2>3, <1>5, <1>7, <1>10
<1> QED BY <1>10, <1>11 DEF map

LEMMA OwnersAre ==
    ASSUME Typed, PendingFits, NEW o \in Counted
    PROVE  /\ Owners(o) + Masked(o)
                 = InHeap(heap, o) + Held(o) + Occurrences(todo, o) + Occurrences(pending.then, o)
                   + One(pending.value, o) + lost[o] + Root(o)
           /\ Owners(o) \in Nat /\ Masked(o) \in Nat /\ InHeap(heap, o) \in Nat
           /\ Held(o) \in Nat /\ Occurrences(todo, o) \in Nat
           /\ Occurrences(pending.then, o) \in Nat /\ One(pending.value, o) \in Nat
           /\ lost[o] \in Nat /\ Root(o) \in Nat
<1> DEFINE map == [a \in Object |-> Slots(a)]
           obj == pending.obj
           slot == pending.slot
           refs == References(heap[obj])
<1>1. heap \in [Object -> Body] /\ SlotsOf(heap) \in [Object -> Seq(Pointer)]
      /\ InHeap(heap, o) \in Nat
  BY SlotsOfType DEF Typed
<1>2. /\ todo \in Seq(Pointer) /\ pending.then \in Seq(Pointer) /\ pending.value \in Pointer
      /\ lost[o] \in Nat
  BY DEF Typed, PendingType
<1>3. Occurrences(todo, o) \in Nat /\ Occurrences(pending.then, o) \in Nat
  BY <1>2, WhereFinite
<1>4. Occurrences(InHandler, o) = Occurrences(pending.then, o) + One(pending.value, o)
  BY <1>2, OccAppend DEF InHandler
<1>5. Held(o) \in Nat /\ One(pending.value, o) \in Nat /\ Root(o) \in Nat /\ Masked(o) \in Nat
  BY DEF Held, One, Root, Masked
<1>6. Referring(o) = Pairs(map, o)
  BY DEF Referring, Pairs
<1>7. Cardinality(Referring(o)) = InSlots(map, o)
  BY <1>6 DEF InSlots
<1>8. InSlots(map, o) + Masked(o) = InHeap(heap, o) /\ InSlots(map, o) \in Nat
  <2>1. CASE pending.op \notin {"STORE", "bind_key"}
    <3>1. map = SlotsOf(heap) /\ Masked(o) = 0
      BY <2>1 DEF Slots, SlotsOf, Masked
    <3>2. InSlots(map, o) = InHeap(heap, o)
      BY <3>1 DEF InHeap
    <3> QED BY <3>1, <3>2, <1>1
  <2>2. CASE pending.op \in {"STORE", "bind_key"}
    <3>1. obj \in Object /\ slot \in DOMAIN refs
      <4>1. CASE pending.op = "STORE"
        <5>1. obj \in Object /\ heap[obj].kind = "array" /\ slot \in DOMAIN heap[obj].content
          BY <4>1 DEF PendingFits
        <5>2. refs = heap[obj].content
          BY <1>1, <5>1, ReferencesOf
        <5> QED BY <5>1, <5>2
      <4>2. CASE pending.op = "bind_key"
        <5>1. /\ obj \in Object /\ heap[obj].kind = "hash"
              /\ \E n \in DOMAIN heap[obj].buckets : slot = 2 * n
          BY <4>2 DEF PendingFits
        <5>2. refs = KeysAndCells(heap[obj].buckets) /\ heap[obj].buckets \in Seq(Buckets)
          BY <1>1, <5>1, ReferencesOf, BodyOfKind DEF HashBody
        <5> QED BY <5>1, <5>2, KeysAndCellsType
      <4> QED BY <4>1, <4>2, <2>2
    <3>2. heap[obj] \in Body /\ refs \in Seq(Pointer)
      BY <3>1, <1>1, ReferencesOf
    <3>3. map = Without(heap, obj, slot)
      BY <2>2, <3>1 DEF Slots, Without
    <3>4. Masked(o) = One(refs[slot], o)
      BY <2>2 DEF Masked
    <3>5. InSlots(map, o) \in Nat /\ InSlots(map, o) + One(refs[slot], o) = InHeap(heap, o)
      <4>1. slot \in DOMAIN References(heap[obj])
        BY <3>1
      <4>2. /\ InSlots(Without(heap, obj, slot), o) \in Nat
            /\ InSlots(Without(heap, obj, slot), o) + One(References(heap[obj])[slot], o)
                  = InHeap(heap, o)
        BY <3>1, <4>1, <1>1, MaskedSlot
      <4> QED BY <4>2, <3>3
    <3> QED BY <3>4, <3>5
  <2> QED BY <2>1, <2>2
<1> HIDE DEF map
<1>9. Owners(o) = InSlots(map, o) + Held(o) + Occurrences(todo, o) + Occurrences(pending.then, o)
                  + One(pending.value, o) + lost[o] + Root(o)
  <2>1. Owners(o) = InSlots(map, o) + Held(o) + Occurrences(todo, o) + Occurrences(InHandler, o)
                    + lost[o] + Root(o)
    BY <1>7 DEF Owners, Held, Root
  <2>2. InSlots(map, o) \in Nat
    BY <1>8
  <2> QED BY <2>1, <2>2, <1>2, <1>3, <1>4, <1>5
<1>10. InSlots(map, o) \in Nat /\ InSlots(map, o) + Masked(o) = InHeap(heap, o)
  BY <1>8
<1>11. /\ InHeap(heap, o) \in Nat /\ Held(o) \in Nat /\ Occurrences(todo, o) \in Nat
       /\ Occurrences(pending.then, o) \in Nat /\ One(pending.value, o) \in Nat
       /\ lost[o] \in Nat /\ Root(o) \in Nat /\ Masked(o) \in Nat
  BY <1>1, <1>2, <1>3, <1>5
<1> QED BY <1>9, <1>10, <1>11

-----------------------------------------------------------------------------
(* What holds while no handler runs                                         *)

LEMMA OwnersExact ==
    IInv => \A o \in Counted : refCnt[o] = Owners(o) /\ refCnt[o] \in Nat
BY DEF IInv, CountsExact, Typed

LEMMA IdleFacts ==
    ASSUME IInv, Idle
    PROVE  /\ todo = <<>> /\ pending = NoPending /\ chain = <<>>
           /\ heap \in [Object -> Body]
           /\ \A o \in Counted :
                 /\ refCnt[o] = InHeap(heap, o) + Held(o) + lost[o] + Root(o)
                 /\ refCnt[o] \in Nat /\ InHeap(heap, o) \in Nat /\ Held(o) \in Nat
                 /\ lost[o] \in Nat /\ Root(o) \in Nat
           /\ \A o \in Object : heap[o].kind # "free" <=> refCnt[o] > 0
<1>1. todo = <<>> /\ pending = NoPending /\ chain = <<>>
  BY DEF Idle, CCode
<1>2. Typed /\ PendingFits /\ CountsExact
  BY DEF IInv
<1>3. /\ pending.op = "none" /\ pending.then = <<>> /\ pending.value = NoObject
  BY <1>1 DEF NoPending, Pending
<1>4. ASSUME NEW o \in Counted
      PROVE  /\ refCnt[o] = InHeap(heap, o) + Held(o) + lost[o] + Root(o)
             /\ refCnt[o] \in Nat /\ InHeap(heap, o) \in Nat /\ Held(o) \in Nat
             /\ lost[o] \in Nat /\ Root(o) \in Nat
  <2>1. Masked(o) = 0
    BY <1>3 DEF Masked
  <2>2. Occurrences(todo, o) = 0 /\ Occurrences(pending.then, o) = 0 /\ One(pending.value, o) = 0
    BY <1>1, <1>3, OccEmpty, NoOneIsNull
  <2>3. refCnt[o] = Owners(o)
    BY <1>2 DEF CountsExact
  <2> QED BY <1>2, <2>1, <2>2, <2>3, OwnersAre
<1>5. Range(chain) = {}
  BY <1>1 DEF Range
<1>6. \A o \in Object : heap[o].kind # "free" <=> refCnt[o] > 0
  BY <1>2, <1>5 DEF CountsExact
<1> QED BY <1>1, <1>2, <1>4, <1>6 DEF Typed

Alive(x) == x \in Object => heap[x].kind # "free"

\* What is referred to is there.
LEMMA ReferredIsAlive ==
    ASSUME IInv, Idle
    PROVE  /\ \A x \in held : x \in Object /\ Alive(x)
           /\ \A a \in Object, x \in Counted : Occurrences(References(heap[a]), x) > 0 => Alive(x)
<1>1. ASSUME NEW x \in held PROVE x \in Object /\ Alive(x)
  <2>1. x \in Object /\ x \in Counted
    BY PointerSets DEF IInv, Typed
  <2>2. Held(x) = 1
    BY DEF Held
  <2>3. refCnt[x] > 0
    BY <2>1, <2>2, IdleFacts
  <2> QED BY <2>1, <2>3, IdleFacts DEF Alive
<1>2. ASSUME NEW a \in Object, NEW x \in Counted, Occurrences(References(heap[a]), x) > 0,
             x \in Object
      PROVE  heap[x].kind # "free"
  <2>1. heap \in [Object -> Body]
    BY IdleFacts
  <2>2. InHeap(heap, x) # 0
    <3>1. Occurrences(References(heap[a]), x) # 0
      <4>1. Occurrences(References(heap[a]), x) \in Nat
        BY <2>1, ReferencesOf, WhereFinite
      <4> QED BY <4>1, <1>2
    <3> QED BY <2>1, <3>1, InHeapZero
  <2>3. refCnt[x] > 0
    BY <2>2, IdleFacts
  <2> QED BY <1>2, <2>3, IdleFacts
<1> QED BY <1>1, <1>2 DEF Alive

LEMMA FreeIsUnreferred ==
    ASSUME IInv, Idle, NEW n \in Object, heap[n].kind = "free"
    PROVE  /\ n \in Counted /\ refCnt[n] = 0 /\ n \notin held /\ lost[n] = 0
           /\ heap[n] = Free /\ References(heap[n]) = <<>> /\ bound[n] = {}
<1>1. n \in Counted /\ heap[n] \in Body /\ Root(n) = 0
  BY PointerSets, IdleFacts DEF Root
<1>2. refCnt[n] = 0 /\ lost[n] = 0 /\ Held(n) = 0
  <2>1. ~(refCnt[n] > 0)
    BY IdleFacts
  <2> QED BY <2>1, <1>1, IdleFacts
<1>3. n \notin held
  BY <1>2 DEF Held
<1>4. bound[n] = {}
  BY DEF IInv, BoundFits
<1> QED BY <1>1, <1>2, <1>3, <1>4, BodyOfKind, ReferencesOf

LEMMA PlusCounts ==
    ASSUME Typed, NEW taken \in Seq(Pointer)
    PROVE  /\ Plus(refCnt, taken) \in [Counted -> Nat]
           /\ \A o \in Counted : Plus(refCnt, taken)[o] = refCnt[o] + Occurrences(taken, o)
<1>1. refCnt \in [Counted -> Nat]
  BY DEF Typed
<1>2. \A o \in Counted : Occurrences(taken, o) \in Nat
  BY WhereFinite
<1> QED BY <1>1, <1>2 DEF Plus

AllAlive(taken) == \A i \in DOMAIN taken : Alive(taken[i])

LEMMA AliveTaken ==
    ASSUME NEW taken \in Seq(Pointer), AllAlive(taken), NEW x \in Object, heap[x].kind = "free"
    PROVE  Occurrences(taken, x) = 0
BY OccAbsent DEF AllAlive, Alive

-----------------------------------------------------------------------------
(* A step that begins while no handler runs                                 *)

\* Every reference that is made has one new owner.
Conserved(o) ==
    refCnt'[o] + InHeap(heap, o) + Held(o) + lost[o] + Masked(o)'
        = refCnt[o] + InHeap(heap', o) + Held(o)' + Occurrences(todo', o)
          + Occurrences(pending'.then, o) + One(pending'.value, o) + lost'[o]

LEMMA CountsNext ==
    ASSUME IInv, Idle, Typed', PendingFits', NEW o \in Counted, Conserved(o)
    PROVE  refCnt'[o] = Owners(o)'
<1>1. /\ (Owners(o) + Masked(o)
             = InHeap(heap, o) + Held(o) + Occurrences(todo, o) + Occurrences(pending.then, o)
               + One(pending.value, o) + lost[o] + Root(o))'
      /\ (Owners(o) \in Nat)' /\ (Masked(o) \in Nat)' /\ (InHeap(heap, o) \in Nat)'
      /\ (Held(o) \in Nat)' /\ (Occurrences(todo, o) \in Nat)'
      /\ (Occurrences(pending.then, o) \in Nat)' /\ (One(pending.value, o) \in Nat)'
      /\ (lost[o] \in Nat)' /\ (Root(o) \in Nat)'
  BY OwnersAre, PTL
<1>2. /\ refCnt[o] = InHeap(heap, o) + Held(o) + lost[o] + Root(o)
      /\ refCnt[o] \in Nat /\ InHeap(heap, o) \in Nat /\ Held(o) \in Nat
      /\ lost[o] \in Nat /\ Root(o) \in Nat
  BY IdleFacts
<1>3. Root(o)' = Root(o) /\ refCnt'[o] \in Nat
  BY DEF Root, Typed
<1> DEFINE r == refCnt[o]
           ho == InHeap(heap, o)
           he == Held(o)
           lo == lost[o]
           ro == Root(o)
           rn == refCnt'[o]
           ow == Owners(o)'
           ma == Masked(o)'
           hn == InHeap(heap', o)
           hen == Held(o)'
           td == Occurrences(todo', o)
           th == Occurrences(pending'.then, o)
           va == One(pending'.value, o)
           lon == lost'[o]
<1>4. ow + ma = hn + hen + td + th + va + lon + ro
  BY <1>1, <1>3
<1>5. rn + ho + he + lo + ma = r + hn + hen + td + th + va + lon
  BY DEF Conserved
<1>6. r = ho + he + lo + ro
  BY <1>2
<1>7. /\ ow \in Nat /\ ma \in Nat /\ hn \in Nat /\ hen \in Nat /\ td \in Nat
      /\ th \in Nat /\ va \in Nat /\ lon \in Nat /\ rn \in Nat
  BY <1>1, <1>3
<1>8. r \in Nat /\ ho \in Nat /\ he \in Nat /\ lo \in Nat /\ ro \in Nat
  BY <1>2
<1>9. rn = ow
  <2> HIDE DEF r, ho, he, lo, ro, rn, ow, ma, hn, hen, td, th, va, lon
  <2> QED BY <1>4, <1>5, <1>6, <1>7, <1>8
<1> QED BY <1>9

\* What an object is, while it is there, and that its body still fits
Stays(o) == heap[o].kind # "free" => heap'[o].kind = heap[o].kind
Sound(o) == heap'[o] = heap[o] \/ (ArrayFits(o)' /\ Linked(o)')
AliveIfCounted(o) == heap'[o].kind # "free" <=> refCnt'[o] > 0

LEMMA IdleStep ==
    ASSUME IInv, Idle, Typed', PendingFits', chain' = chain,
           \A o \in Object : Stays(o) /\ Sound(o) /\ AliveIfCounted(o),
           \A o \in Counted : Conserved(o),
           BoundFits', BindingsKept'
    PROVE  IInv'
<1>1. chain' = <<>> /\ Range(chain') = {} /\ heap \in [Object -> Body]
  BY IdleFacts DEF Range
<1>2. ChainFits'
  BY <1>1 DEF ChainFits, IsInjective
<1>3. \A o \in Counted : refCnt'[o] = Owners(o)'
  BY CountsNext
<1>4. CountsExact'
  BY <1>1, <1>3 DEF CountsExact, AliveIfCounted
<1>5. ASSUME NEW o \in Object PROVE ArrayFits(o)' /\ Linked(o)'
  <2>1. CASE heap'[o] = heap[o]
    <3>1. ArrayFits(o) /\ Linked(o) /\ heap[o] \in Body
      BY <1>1 DEF IInv
    <3>2. ArrayFits(o)'
      BY <2>1, <3>1 DEF ArrayFits
    <3>3. heap[o].kind = "proxy" => heap'[heap[o].array].kind = "array"
      <4> SUFFICES ASSUME heap[o].kind = "proxy" PROVE heap'[heap[o].array].kind = "array"
        OBVIOUS
      <4>1. heap[o].array \in Object
        BY <3>1, BodyOfKind DEF ProxyBody
      <4>2. heap[heap[o].array].kind = "array"
        BY <3>1 DEF Linked
      <4>3. Stays(heap[o].array)
        BY <4>1
      <4> QED BY <4>2, <4>3 DEF Stays
    <3>4. heap[o].kind = "scope" => heap'[heap[o].entries].kind = "hash"
      <4> SUFFICES ASSUME heap[o].kind = "scope" PROVE heap'[heap[o].entries].kind = "hash"
        OBVIOUS
      <4>1. heap[o].entries \in Object
        BY <3>1, BodyOfKind DEF ScopeBody
      <4>2. heap[heap[o].entries].kind = "hash"
        BY <3>1 DEF Linked
      <4>3. Stays(heap[o].entries)
        BY <4>1
      <4> QED BY <4>2, <4>3 DEF Stays
    <3> QED BY <2>1, <3>2, <3>3, <3>4 DEF Linked
  <2>2. CASE ArrayFits(o)' /\ Linked(o)'
    BY <2>2
  <2>3. heap'[o] = heap[o] \/ (ArrayFits(o)' /\ Linked(o)')
    BY DEF Sound
  <2> QED BY <2>1, <2>2, <2>3
<1> QED BY <1>2, <1>4, <1>5 DEF IInv

\* References are made to what is there.
LEMMA AliveNext ==
    ASSUME IInv, Idle, NEW x \in Object, NEW taken \in Seq(Pointer), AllAlive(taken),
           refCnt'[x] = refCnt[x] + Occurrences(taken, x),
           heap'[x].kind = "free" <=> heap[x].kind = "free"
    PROVE  AliveIfCounted(x)
<1>1. x \in Counted /\ Occurrences(taken, x) \in Nat /\ refCnt[x] \in Nat
  <2>1. x \in Counted
    BY PointerSets
  <2> QED BY <2>1, WhereFinite, IdleFacts
<1>2. heap[x].kind # "free" <=> refCnt[x] > 0
  BY IdleFacts
<1>3. CASE heap[x].kind = "free"
  <2>1. Occurrences(taken, x) = 0
    BY <1>3, AliveTaken
  <2> QED BY <1>1, <1>2, <1>3, <2>1 DEF AliveIfCounted
<1>4. CASE heap[x].kind # "free"
  <2>1. refCnt'[x] > 0
    BY <1>1, <1>2, <1>4
  <2> QED BY <1>4, <2>1 DEF AliveIfCounted
<1> QED BY <1>3, <1>4

\* No binding changes.
LEMMA BindingsSame ==
    ASSUME IInv, bound' = bound,
           \A h \in Object :
              \/ heap'[h] = heap[h]
              \/ heap[h].kind = "free" /\ heap'[h] = Hash(<<>>)
              \/ heap[h].kind # "hash" /\ heap'[h].kind # "hash"
    PROVE  BoundFits' /\ BindingsKept'
<1>1. \A h \in Object : /\ heap[h].kind # "hash" => bound[h] = {}
                        /\ heap[h].kind = "hash" =>
                              Range(heap[h].buckets) = bound[h] /\ IsInjective(Keys(heap[h].buckets))
  BY DEF IInv, BoundFits, BindingsKept
<1>2. /\ Hash(<<>>).kind = "hash" /\ Range(Hash(<<>>).buckets) = {}
      /\ IsInjective(Keys(Hash(<<>>).buckets))
  BY DEF Hash, Range, Keys, IsInjective
<1>3. ASSUME NEW h \in Object
      PROVE  /\ heap'[h].kind # "hash" => bound'[h] = {}
             /\ heap'[h].kind = "hash" =>
                   Range(heap'[h].buckets) = bound'[h] /\ IsInjective(Keys(heap'[h].buckets))
  <2>1. CASE heap'[h] = heap[h]
    BY <1>1, <2>1
  <2>2. CASE heap[h].kind = "free" /\ heap'[h] = Hash(<<>>)
    BY <1>1, <1>2, <2>2
  <2>3. CASE heap[h].kind # "hash" /\ heap'[h].kind # "hash"
    BY <1>1, <2>3
  <2> QED BY <2>1, <2>2, <2>3
<1> QED BY <1>3 DEF BoundFits, BindingsKept

\* Nothing is pending before or after.
LEMMA NothingPending ==
    ASSUME IInv, Idle, pending' = pending
    PROVE  /\ PendingFits'
           /\ pending'.then = <<>> /\ pending'.value = NoObject
           /\ \A o \in Counted :
                 Masked(o)' = 0 /\ Occurrences(pending'.then, o) = 0 /\ One(pending'.value, o) = 0
<1>1. pending = NoPending /\ pending' = NoPending
  BY IdleFacts
<1>2. /\ pending'.op = "none" /\ pending'.then = <<>> /\ pending'.value = NoObject
  BY <1>1 DEF NoPending, Pending
<1>3. PendingFits'
  BY <1>1, <1>2 DEF PendingFits
<1>4. \A o : Masked(o)' = 0
  BY <1>2 DEF Masked
<1> QED BY <1>2, <1>3, <1>4, OccEmpty, NoOneIsNull

-----------------------------------------------------------------------------
(* What a handler finds in its capture                                      *)

LEMMA CaptureContents ==
    ASSUME IInv, Idle, NEW k \in Object, heap[k].kind = "capture"
    PROVE  /\ heap[k] \in CaptureBody /\ At(k) = heap[k]
           /\ Alive(heap[k].invocant) /\ AllAlive(heap[k].positional)
           /\ AllAlive(Keys(heap[k].o_named)) /\ AllAlive(Values(heap[k].o_named))
           /\ AllAlive(Keys(heap[k].named)) /\ AllAlive(Values(heap[k].named))
<1> DEFINE b == heap[k]
<1>1. b \in CaptureBody
  BY IdleFacts, BodyOfKind
<1>2. At(k) = b
  BY MessagesAssumption DEF At
<1>3. /\ b.invocant \in Counted \cup {IntptrCapture, NoObject} /\ b.positional \in Seq(Item)
      /\ b.o_named \in NamedArgs(Id) /\ b.named \in NamedArgs(Object)
  BY <1>1 DEF CaptureBody
<1>4. /\ Keys(b.o_named) \in Seq(Id) /\ Values(b.o_named) \in Seq(Item)
      /\ Keys(b.named) \in Seq(Object) /\ Values(b.named) \in Seq(Item)
  BY <1>3, KeysAndValues DEF NamedArgs
<1> DEFINE parts == {b.positional, Keys(b.o_named), Values(b.o_named), Keys(b.named),
                     Values(b.named)}
<1>5. \A s \in parts : s \in Seq(Pointer)
  BY <1>3, <1>4, PointerSets, SeqOfMore
<1>6. ASSUME NEW x \in Object, x = b.invocant \/ \E s \in parts : Occurrences(s, x) # 0
      PROVE  Alive(x)
  <2>1. /\ One(b.invocant, x) \in Nat /\ Occurrences(b.positional, x) \in Nat
        /\ Occurrences(Keys(b.o_named), x) \in Nat /\ Occurrences(Values(b.o_named), x) \in Nat
        /\ Occurrences(Keys(b.named), x) \in Nat /\ Occurrences(Values(b.named), x) \in Nat
    BY <1>5, WhereFinite DEF One
  <2>2. Occurrences(References(b), x) =
            One(b.invocant, x) + Occurrences(b.positional, x)
            + Occurrences(Keys(b.o_named), x) + Occurrences(Values(b.o_named), x)
            + Occurrences(Keys(b.named), x) + Occurrences(Values(b.named), x)
    BY <1>1, CaptureReferences
  <2>3. x = b.invocant => One(b.invocant, x) = 1
    BY DEF One
  <2>4. Occurrences(References(b), x) > 0
    <3>1. \/ One(b.invocant, x) = 1 \/ Occurrences(b.positional, x) # 0
          \/ Occurrences(Keys(b.o_named), x) # 0 \/ Occurrences(Values(b.o_named), x) # 0
          \/ Occurrences(Keys(b.named), x) # 0 \/ Occurrences(Values(b.named), x) # 0
      BY <1>6, <2>3
    <3> QED BY <3>1, <2>1, <2>2
  <2>5. x \in Counted
    BY PointerSets
  <2> QED BY <2>4, <2>5, ReferredIsAlive
<1>7. ASSUME NEW s \in parts, NEW i \in DOMAIN s PROVE Alive(s[i])
  <2>1. s \in Seq(Pointer)
    BY <1>5
  <2>2. CASE s[i] \in Object
    <3>1. Occurrences(s, s[i]) # 0
      BY <2>1, OccAbsent
    <3> QED BY <2>2, <3>1, <1>6
  <2> QED BY <2>2 DEF Alive
<1>8. Alive(b.invocant)
  BY <1>6 DEF Alive
<1>9. \A s \in parts : AllAlive(s)
  BY <1>7 DEF AllAlive
<1> QED BY <1>1, <1>2, <1>8, <1>9

LEMMA NullIsAlive == Alive(NoObject) /\ Alive(Interpreter) /\ Alive(IntptrCapture)
BY PointerSets, MessagesAssumption DEF Alive

LEMMA PositionalIsAlive ==
    ASSUME IInv, Idle, NEW k \in Object, heap[k].kind = "capture", NEW p \in Nat
    PROVE  /\ capture_positional(k, p) \in Item \cup {NoObject}
           /\ capture_positional(k, p) \in Pointer
           /\ Alive(capture_positional(k, p))
<1> DEFINE positional == heap[k].positional
<1>1. /\ At(k) = heap[k] /\ positional \in Seq(Item) /\ AllAlive(positional)
  BY CaptureContents DEF CaptureBody
<1>2. CASE p < Len(positional)
  <2>1. p + 1 \in DOMAIN positional /\ positional[p + 1] \in Item
    BY <1>1, <1>2
  <2>2. capture_positional(k, p) = positional[p + 1]
    BY <1>1, <1>2 DEF capture_positional
  <2>3. Alive(positional[p + 1])
    BY <1>1, <2>1 DEF AllAlive
  <2> QED BY <2>1, <2>2, <2>3, PointerSets
<1>3. CASE ~(p < Len(positional))
  <2>1. capture_positional(k, p) = NoObject
    BY <1>1, <1>3 DEF capture_positional
  <2> QED BY <2>1, NullIsAlive, PointerSets
<1> QED BY <1>2, <1>3

LEMMA ReceiverFacts ==
    ASSUME IInv, NEW c \in Object, NEW kind, Receives(c, kind)
    PROVE  /\ Idle /\ c \in held /\ heap[c].kind = "capture" /\ At(c) = heap[c]
           /\ capture_invocant(c) = heap[c].invocant
           /\ capture_invocant(c) \in Object /\ capture_invocant(c) \in Pointer
           /\ heap[capture_invocant(c)].kind = kind
           /\ c \in Pointer /\ Alive(c) /\ Alive(capture_invocant(c))
<1>1. Idle /\ c \in held /\ heap[c].kind = "capture"
      /\ capture_invocant(c) \in Object /\ heap[capture_invocant(c)].kind = kind
  BY DEF Receives
<1>2. At(c) = heap[c] /\ Alive(heap[c].invocant)
  BY <1>1, CaptureContents
<1>3. Alive(c)
  BY <1>1, ReferredIsAlive
<1> QED BY <1>1, <1>2, <1>3, PointerSets DEF capture_invocant

-----------------------------------------------------------------------------
(* Handlers that change no object                                           *)

LEMMA RepliesHeld ==
    ASSUME IInv, Idle, NEW c \in held, NEW taken, NEW ret \in Pointer,
           NEW released \in Seq(Pointer), Replies(c, taken, ret, released)
    PROVE  /\ held' \subseteq Object /\ todo' \in Seq(Pointer)
           /\ \A o \in Counted : Held(o)' + Occurrences(todo', o) + One(c, o)
                                    = Held(o) + Occurrences(released, o) + One(ret, o)
<1>1. held \subseteq Object
  BY DEF IInv, Typed
<1>2. /\ held' = (held \ {c}) \cup ({ret} \cap Object)
      /\ todo' = released \o (IF ret \in (held \ {c}) \cup {Interpreter} THEN <<ret>> ELSE <<>>)
  BY DEF Replies
<1>3. CASE ret \in (held \ {c}) \cup {Interpreter}
  <2>1. todo' = released \o <<ret>> /\ <<ret>> \in Seq(Pointer)
    BY <1>2, <1>3
  <2>0. todo' = Append(released, ret)
    BY <2>1
  <2>2. \A o : Occurrences(todo', o) = Occurrences(released, o) + One(ret, o)
    BY <2>0, OccAppend
  <2>3. \A o \in Counted : Held(o)' + One(c, o) = Held(o)
    BY <1>1, <1>2, <1>3, PointerSets DEF Held, One
  <2>4. \A o \in Counted : Held(o)' \in Nat /\ One(c, o) \in Nat /\ One(ret, o) \in Nat
                           /\ Occurrences(released, o) \in Nat /\ Held(o) \in Nat
    BY WhereFinite DEF Held, One
  <2>5. \A o \in Counted : Held(o)' + Occurrences(todo', o) + One(c, o)
                              = Held(o) + Occurrences(released, o) + One(ret, o)
    <3> TAKE o \in Counted
    <3>1. /\ Occurrences(todo', o) = Occurrences(released, o) + One(ret, o)
          /\ Held(o)' + One(c, o) = Held(o)
          /\ Held(o)' \in Nat /\ One(c, o) \in Nat /\ One(ret, o) \in Nat
          /\ Occurrences(released, o) \in Nat /\ Held(o) \in Nat
      BY <2>2, <2>3, <2>4
    <3> QED BY <3>1
  <2>6. todo' \in Seq(Pointer)
    BY <2>1
  <2> QED BY <1>1, <1>2, <2>5, <2>6
<1>4. CASE ret \notin (held \ {c}) \cup {Interpreter}
  <2>1. todo' = released
    BY <1>2, <1>4
  <2>2. \A o \in Counted : Held(o)' + One(c, o) = Held(o) + One(ret, o)
    <3> TAKE o \in Counted
    <3>1. CASE o = Interpreter
      BY <3>1, <1>1, <1>2, <1>4, PointerSets DEF Held, One
    <3>2. CASE o \in Object
      BY <3>2, <1>1, <1>2, <1>4 DEF Held, One
    <3> QED BY <3>1, <3>2 DEF Counted
  <2>3. \A o \in Counted : Held(o)' \in Nat /\ One(c, o) \in Nat /\ One(ret, o) \in Nat
                           /\ Occurrences(released, o) \in Nat /\ Held(o) \in Nat
    BY WhereFinite DEF Held, One
  <2>4. \A o \in Counted : Held(o)' + Occurrences(todo', o) + One(c, o)
                              = Held(o) + Occurrences(released, o) + One(ret, o)
    <3> TAKE o \in Counted
    <3>1. /\ Occurrences(todo', o) = Occurrences(released, o)
          /\ Held(o)' + One(c, o) = Held(o) + One(ret, o)
          /\ Held(o)' \in Nat /\ One(c, o) \in Nat /\ One(ret, o) \in Nat
          /\ Occurrences(released, o) \in Nat /\ Held(o) \in Nat
      BY <2>1, <2>2, <2>3
    <3> QED BY <3>1
  <2> QED BY <1>1, <1>2, <2>1, <2>4
<1> QED BY <1>3, <1>4

\* What a handler takes and its capture's reference are released or returned.
Balanced(c, taken, ret, released) ==
    \A o \in Counted : Occurrences(taken, o) + One(c, o) = Occurrences(released, o) + One(ret, o)

LEMMA TypedNext ==
    ASSUME Typed, heap' \in [Object -> Body], refCnt' \in [Counted -> Nat], held' \subseteq Object,
           todo' \in Seq(Pointer), chain' = chain, pending' = pending,
           lost' \in [Counted -> Nat], bound' = bound, client' = client
    PROVE  Typed'
BY DEF Typed

\* A step that changes no object
BalancedPlain(taken) ==
    \A o \in Counted : Occurrences(taken, o) + Held(o) + lost[o]
                          = Held(o)' + Occurrences(todo', o) + lost'[o]

LEMMA PlainStep ==
    ASSUME IInv, Idle, NEW taken \in Seq(Pointer), AllAlive(taken),
           refCnt' = Plus(refCnt, taken), held' \subseteq Object, todo' \in Seq(Pointer),
           lost' \in [Counted -> Nat], BalancedPlain(taken),
           UNCHANGED <<heap, chain, pending, bound, client>>
    PROVE  IInv'
<1>1. Typed /\ heap \in [Object -> Body]
  BY DEF IInv, Typed
<1>2. /\ refCnt' \in [Counted -> Nat]
      /\ \A o \in Counted : refCnt'[o] = refCnt[o] + Occurrences(taken, o)
  BY <1>1, PlusCounts
<1>3. Typed'
  BY <1>1, <1>2, TypedNext
<1>4. ASSUME NEW o \in Counted PROVE Conserved(o)
  <2> DEFINE r == refCnt[o]
             ho == InHeap(heap, o)
             he == Held(o)
             hen == Held(o)'
             ta == Occurrences(taken, o)
             td == Occurrences(todo', o)
             lo == lost[o]
             lon == lost'[o]
  <2>1. ta + he + lo = hen + td + lon
    BY DEF BalancedPlain
  <2>2. /\ r \in Nat /\ ho \in Nat /\ he \in Nat /\ hen \in Nat /\ ta \in Nat /\ td \in Nat
        /\ lo \in Nat /\ lon \in Nat
    BY IdleFacts, WhereFinite DEF Held
  <2>3. r + ta + ho + he + lo + 0 = r + ho + hen + td + 0 + 0 + lon
    <3> HIDE DEF r, ho, he, hen, ta, td, lo, lon
    <3> QED BY <2>1, <2>2
  <2>4. /\ heap' = heap /\ refCnt'[o] = r + ta /\ Masked(o)' = 0
        /\ Occurrences(pending'.then, o) = 0 /\ One(pending'.value, o) = 0
    BY <1>2, NothingPending
  <2> QED BY <2>3, <2>4 DEF Conserved
<1>5. ASSUME NEW o \in Object PROVE Stays(o) /\ Sound(o) /\ AliveIfCounted(o)
  <2>1. AliveIfCounted(o)
    <3>1. o \in Counted
      BY PointerSets
    <3> QED BY <3>1, <1>2, AliveNext
  <2> QED BY <2>1 DEF Stays, Sound
<1>6. BoundFits' /\ BindingsKept'
  BY BindingsSame
<1> QED BY <1>3, <1>4, <1>5, <1>6, NothingPending, IdleStep

\* A handler that may forget references
BalancedBut(c, taken, ret, released) ==
    \A o \in Counted : Occurrences(taken, o) + One(c, o) + lost[o]
                          = Occurrences(released, o) + One(ret, o) + lost'[o]

LEMMA ForgetsStep ==
    ASSUME IInv, Idle, NEW c \in held, NEW taken \in Seq(Pointer), AllAlive(taken),
           NEW ret \in Pointer, NEW released \in Seq(Pointer),
           Replies(c, taken, ret, released), BalancedBut(c, taken, ret, released),
           lost' \in [Counted -> Nat], UNCHANGED <<heap, chain, pending, bound, client>>
    PROVE  IInv'
<1>1. held' \subseteq Object /\ todo' \in Seq(Pointer) /\ refCnt' = Plus(refCnt, taken)
      /\ lost \in [Counted -> Nat]
  BY RepliesHeld DEF Replies, IInv, Typed
<1>2. ASSUME NEW o \in Counted
      PROVE  Occurrences(taken, o) + Held(o) + lost[o] = Held(o)' + Occurrences(todo', o) + lost'[o]
  <2> DEFINE ta == Occurrences(taken, o)
             td == Occurrences(todo', o)
             he == Held(o)
             hen == Held(o)'
             rel == Occurrences(released, o)
             lo == lost[o]
             lon == lost'[o]
             oc == One(c, o)
             or == One(ret, o)
  <2>1. hen + td + oc = he + rel + or /\ ta + oc + lo = rel + or + lon
    BY RepliesHeld DEF BalancedBut
  <2>2. /\ ta \in Nat /\ td \in Nat /\ he \in Nat /\ hen \in Nat /\ rel \in Nat /\ lo \in Nat
        /\ lon \in Nat /\ oc \in Nat /\ or \in Nat
    BY <1>1, WhereFinite DEF Held, One
  <2>3. ta + he + lo = hen + td + lon
    <3> HIDE DEF ta, td, he, hen, rel, lo, lon, oc, or
    <3> QED BY <2>1, <2>2
  <2> QED BY <2>3
<1>3. BalancedPlain(taken)
  BY <1>2 DEF BalancedPlain
<1> QED BY <1>1, <1>3, PlainStep

LEMMA ReplyStep ==
    ASSUME IInv, Idle, NEW c \in held, NEW taken \in Seq(Pointer), AllAlive(taken),
           NEW ret \in Pointer, NEW released \in Seq(Pointer),
           Replies(c, taken, ret, released), Balanced(c, taken, ret, released),
           UNCHANGED <<heap, chain, pending, lost, bound, client>>
    PROVE  IInv'
<1>1. lost \in [Counted -> Nat]
  BY DEF IInv, Typed
<1>2. BalancedBut(c, taken, ret, released)
  BY DEF Balanced, BalancedBut
<1> QED BY <1>1, <1>2, ForgetsStep

LEMMA AliveTuples ==
    ASSUME NEW x \in Pointer, NEW y \in Pointer, NEW z \in Pointer
    PROVE  /\ <<x>> \in Seq(Pointer) /\ (Alive(x) => AllAlive(<<x>>))
           /\ <<x, y>> \in Seq(Pointer) /\ (Alive(x) /\ Alive(y) => AllAlive(<<x, y>>))
           /\ <<x, y, z>> \in Seq(Pointer)
           /\ (Alive(x) /\ Alive(y) /\ Alive(z) => AllAlive(<<x, y, z>>))
<1>1. DOMAIN <<x>> = {1} /\ DOMAIN <<x, y>> = {1, 2} /\ DOMAIN <<x, y, z>> = {1, 2, 3}
  OBVIOUS
<1> QED BY <1>1 DEF AllAlive

LEMMA OneIsNat == \A x, o : One(x, o) \in Nat
BY DEF One

\* ___VALUE_FETCH___
LEMMA ValueFetchStep ==
    ASSUME IInv, NEW c \in Object, NEW kind, Receives(c, kind), ValueFetch(c)
    PROVE  IInv'
<1> DEFINE o == capture_invocant(c)
<1>1. o \in Pointer /\ c \in Pointer /\ Alive(o) /\ Idle /\ c \in held
  BY ReceiverFacts
<1> HIDE DEF o
<1>2. /\ Replies(c, <<o, o>>, o, <<o, c>>)
      /\ UNCHANGED <<heap, chain, pending, lost, bound, client>>
  BY DEF ValueFetch, o
<1>3. <<o, o>> \in Seq(Pointer) /\ AllAlive(<<o, o>>) /\ <<o, c>> \in Seq(Pointer)
  BY <1>1, AliveTuples
<1>4. Balanced(c, <<o, o>>, o, <<o, c>>)
  BY OccTwo, OneIsNat DEF Balanced
<1> QED BY <1>1, <1>2, <1>3, <1>4, ReplyStep

LEMMA AsksStep ==
    ASSUME IInv, NEW c \in Object, NEW kind, Receives(c, kind), Asks(c)
    PROVE  IInv'
<1> DEFINE o == capture_invocant(c)
<1>1. o \in Pointer /\ c \in Pointer /\ NoObject \in Pointer /\ Alive(o) /\ Idle /\ c \in held
  BY ReceiverFacts, PointerSets
<1> HIDE DEF o
<1>2. /\ Replies(c, <<o>>, NoObject, <<o, c>>)
      /\ UNCHANGED <<heap, chain, pending, lost, bound, client>>
  BY DEF Asks, o
<1>3. <<o>> \in Seq(Pointer) /\ AllAlive(<<o>>) /\ <<o, c>> \in Seq(Pointer)
  BY <1>1, AliveTuples
<1>4. Balanced(c, <<o>>, NoObject, <<o, c>>)
  BY OccOne, OccTwo, OneIsNat, NoOneIsNull DEF Balanced
<1> QED BY <1>1, <1>2, <1>3, <1>4, ReplyStep

\* A handler that returns a pointer it has found, with a reference
LEMMA ReturnsStep ==
    ASSUME IInv, NEW c \in Object, NEW kind, Receives(c, kind), NEW ret \in Pointer, Alive(ret),
           Replies(c, <<capture_invocant(c), ret>>, ret, <<capture_invocant(c), c>>),
           UNCHANGED <<heap, chain, pending, lost, bound, client>>
    PROVE  IInv'
<1> DEFINE o == capture_invocant(c)
<1>1. o \in Pointer /\ c \in Pointer /\ Alive(o) /\ Idle /\ c \in held
  BY ReceiverFacts
<1> HIDE DEF o
<1>2. Replies(c, <<o, ret>>, ret, <<o, c>>)
  BY DEF o
<1>3. <<o, ret>> \in Seq(Pointer) /\ AllAlive(<<o, ret>>) /\ <<o, c>> \in Seq(Pointer)
  BY <1>1, AliveTuples
<1>4. Balanced(c, <<o, ret>>, ret, <<o, c>>)
  BY OccTwo, OneIsNat DEF Balanced
<1> QED BY <1>1, <1>2, <1>3, <1>4, ReplyStep

\* What is in an object is there.
LEMMA SlotIsAlive ==
    ASSUME IInv, Idle, NEW a \in Object, NEW i \in DOMAIN References(heap[a])
    PROVE  References(heap[a])[i] \in Pointer /\ Alive(References(heap[a])[i])
<1> DEFINE refs == References(heap[a])
<1>1. refs \in Seq(Pointer)
  BY IdleFacts, ReferencesOf
<1>2. refs[i] \in Pointer
  BY <1>1
<1>3. CASE refs[i] \in Object
  <2>1. refs[i] \in Counted
    BY <1>3, PointerSets
  <2>2. Occurrences(refs, refs[i]) # 0 /\ Occurrences(refs, refs[i]) \in Nat
    BY <1>1, OccAbsent, WhereFinite
  <2>3. Occurrences(refs, refs[i]) > 0
    BY <2>2
  <2> QED BY <1>2, <2>1, <2>3, ReferredIsAlive
<1> QED BY <1>2, <1>3 DEF Alive

LEMMA ProxyFetchStep ==
    ASSUME IInv, NEW c \in Object, Receives(c, "proxy"), ProxyFetch(c)
    PROVE  IInv'
<1> DEFINE p == capture_invocant(c)
           a == heap[p].array
           i == heap[p].index
<1>1. p \in Object /\ heap[p].kind = "proxy" /\ Idle
  BY ReceiverFacts
<1>2. heap[p] \in ProxyBody /\ a \in Object /\ i \in Nat
  <2>1. heap[p] \in Body
    BY <1>1, IdleFacts
  <2>2. heap[p] \in ProxyBody
    BY <1>1, <2>1, BodyOfKind
  <2> QED BY <2>2 DEF ProxyBody
<1>3. heap[a].kind = "array" /\ ArrayFits(a)
  BY <1>1, <1>2 DEF IInv, Linked
<1>4. heap[a] \in ArrayBody /\ References(heap[a]) = heap[a].content
  <2>1. heap[a] \in Body
    BY <1>1, <1>2, IdleFacts
  <2> QED BY <1>3, <2>1, BodyOfKind, ReferencesOf
<1>5. Element(p) \in Pointer /\ Alive(Element(p))
  <2>1. CASE i < heap[a].elems
    <3>1. i + 1 \in DOMAIN heap[a].content
      <4>1. /\ heap[a].content \in Seq(Item \cup {NoObject}) /\ heap[a].elems \in Nat
            /\ heap[a].elems <= Len(heap[a].content)
        BY <1>3, <1>4 DEF ArrayBody, ArrayFits
      <4> QED BY <4>1, <2>1, <1>2
    <3>2. Element(p) = References(heap[a])[i + 1]
      BY <1>4, <2>1 DEF Element
    <3> QED BY <1>1, <1>2, <1>4, <3>1, <3>2, SlotIsAlive
  <2>2. CASE ~(i < heap[a].elems)
    <3>1. Element(p) = NoObject
      BY <2>2 DEF Element
    <3> QED BY <3>1, NullIsAlive, PointerSets
  <2> QED BY <2>1, <2>2
<1>6. /\ Replies(c, <<p, Element(p)>>, Element(p), <<p, c>>)
      /\ UNCHANGED <<heap, chain, pending, lost, bound, client>>
  BY DEF ProxyFetch
<1> QED BY <1>5, <1>6, ReturnsStep

\* owner and key of a bvalue
LEMMA GetOfBValueStep ==
    ASSUME IInv, NEW c \in Object, Receives(c, "bvalue"), Get(c, "owner") \/ Get(c, "key")
    PROVE  IInv'
<1> DEFINE o == capture_invocant(c)
<1>1. o \in Object /\ heap[o].kind = "bvalue" /\ Idle
  BY ReceiverFacts
<1>2. References(heap[o]) = <<heap[o].owner, heap[o].key>>
  BY <1>1, IdleFacts, ReferencesOf
<1>3. /\ 1 \in DOMAIN References(heap[o]) /\ References(heap[o])[1] = heap[o].owner
      /\ 2 \in DOMAIN References(heap[o]) /\ References(heap[o])[2] = heap[o].key
  BY <1>2
<1>4. /\ heap[o].owner \in Pointer /\ Alive(heap[o].owner)
      /\ heap[o].key \in Pointer /\ Alive(heap[o].key)
  BY <1>1, <1>3, SlotIsAlive
<1>5. PICK ret \in {heap[o].owner, heap[o].key} :
         /\ Replies(c, <<o, ret>>, ret, <<o, c>>)
         /\ UNCHANGED <<heap, chain, pending, lost, bound, client>>
  BY DEF Get
<1> QED BY <1>4, <1>5, ReturnsStep

\* entries and outer of a scope
LEMMA GetOfScopeStep ==
    ASSUME IInv, NEW c \in Object, Receives(c, "scope"), Get(c, "entries") \/ Get(c, "outer")
    PROVE  IInv'
<1> DEFINE o == capture_invocant(c)
<1>1. o \in Object /\ heap[o].kind = "scope" /\ Idle
  BY ReceiverFacts
<1>2. References(heap[o]) = <<heap[o].entries, heap[o].outer>>
  BY <1>1, IdleFacts, ReferencesOf
<1>3. /\ 1 \in DOMAIN References(heap[o]) /\ References(heap[o])[1] = heap[o].entries
      /\ 2 \in DOMAIN References(heap[o]) /\ References(heap[o])[2] = heap[o].outer
  BY <1>2
<1>4. /\ heap[o].entries \in Pointer /\ Alive(heap[o].entries)
      /\ heap[o].outer \in Pointer /\ Alive(heap[o].outer)
  BY <1>1, <1>3, SlotIsAlive
<1>5. PICK ret \in {heap[o].entries, heap[o].outer} :
         /\ Replies(c, <<o, ret>>, ret, <<o, c>>)
         /\ UNCHANGED <<heap, chain, pending, lost, bound, client>>
  BY DEF Get
<1> QED BY <1>4, <1>5, ReturnsStep

LEMMA CaptureInvocantStep ==
    ASSUME IInv, NEW c \in Object, Receives(c, "capture"), CaptureInvocant(c)
    PROVE  IInv'
<1> DEFINE k == capture_invocant(c)
           ret == capture_invocant(k)
<1>1. k \in Object /\ heap[k].kind = "capture" /\ Idle
  BY ReceiverFacts
<1>2. ret \in Pointer /\ Alive(ret)
  <2>1. At(k) = heap[k] /\ heap[k] \in CaptureBody /\ Alive(heap[k].invocant)
    BY <1>1, CaptureContents
  <2>2. heap[k].invocant \in Pointer
    BY <2>1, PointerSets DEF CaptureBody
  <2> QED BY <2>1, <2>2 DEF capture_invocant
<1>3. /\ Replies(c, <<k, ret>>, ret, <<k, c>>)
      /\ UNCHANGED <<heap, chain, pending, lost, bound, client>>
  BY DEF CaptureInvocant
<1> HIDE DEF ret
<1> QED BY <1>2, <1>3, ReturnsStep

\* A handler that takes an argument as well, and releases it
LEMMA ReturnsForStep ==
    ASSUME IInv, NEW c \in Object, NEW kind, Receives(c, kind),
           NEW arg \in Pointer, Alive(arg), NEW ret \in Pointer, Alive(ret),
           Replies(c, <<capture_invocant(c), arg, ret>>, ret, <<arg, capture_invocant(c), c>>),
           UNCHANGED <<heap, chain, pending, lost, bound, client>>
    PROVE  IInv'
<1> DEFINE k == capture_invocant(c)
<1>1. k \in Pointer /\ c \in Pointer /\ Alive(k) /\ Idle /\ c \in held
  BY ReceiverFacts
<1> HIDE DEF k
<1>2. Replies(c, <<k, arg, ret>>, ret, <<arg, k, c>>)
  BY DEF k
<1>3. <<k, arg, ret>> \in Seq(Pointer) /\ AllAlive(<<k, arg, ret>>) /\ <<arg, k, c>> \in Seq(Pointer)
  BY <1>1, AliveTuples
<1>4. Balanced(c, <<k, arg, ret>>, ret, <<arg, k, c>>)
  BY OccThree, OneIsNat DEF Balanced
<1> QED BY <1>1, <1>2, <1>3, <1>4, ReplyStep

LEMMA CapturePositionalStep ==
    ASSUME IInv, NEW c \in Object, Receives(c, "capture"), NEW p \in 0 .. 1, CapturePositional(c, p)
    PROVE  IInv'
<1> DEFINE k == capture_invocant(c)
           intask == capture_positional(c, 0)
           ret == capture_positional(k, p)
<1>1. k \in Object /\ heap[k].kind = "capture" /\ Idle /\ heap[c].kind = "capture" /\ p \in Nat
  BY ReceiverFacts
<1>2. intask \in Pointer /\ Alive(intask) /\ ret \in Pointer /\ Alive(ret)
  BY <1>1, PositionalIsAlive
<1>3. /\ Replies(c, <<k, intask, ret>>, ret, <<intask, k, c>>)
      /\ UNCHANGED <<heap, chain, pending, lost, bound, client>>
  BY DEF CapturePositional
<1> HIDE DEF intask, ret
<1> QED BY <1>2, <1>3, ReturnsForStep

-----------------------------------------------------------------------------
(* The search in a capture ends                                             *)

\* capture_named looks for the address in the places from r[1] + 1 to r[2].
Ranges(n) == (0 .. n) \X (0 .. n)
Middle(r) == (r[1] + r[2]) \div 2
Look(o_named, id, find) ==
    [r \in Ranges(Len(o_named)) |->
        IF r[1] >= r[2] THEN NoObject
        ELSE LET n == o_named[Middle(r) + 1]
             IN  CASE Address[id] = Address[n.key] -> n.value
                   [] Address[id] < Address[n.key] -> find[<<r[1], Middle(r)>>]
                   [] OTHER -> find[<<Middle(r) + 1, r[2]>>]]
Find(o_named, id) == CHOOSE find : find = Look(o_named, id, find)

LEMMA NamedIsFind ==
    \A c, id : capture_named(c, id) =
        IF id \in Id THEN Find(At(c).o_named, id)[<<0, Len(At(c).o_named)>>] ELSE NoObject
BY DEF capture_named, Find, Look, Ranges, Middle

LEMMA LeastNumber ==
    ASSUME NEW S, S \subseteq Nat, S # {}
    PROVE  \E n \in S : \A m \in S : n <= m
<1>1. \E n \in S : \A m \in S : <<m, n>> \notin OpToRel(<, Nat)
  BY NatLessThanWellFounded, WFMin, Zenon
<1>2. PICK n \in S : \A m \in S : <<m, n>> \notin OpToRel(<, Nat)
  BY <1>1
<1>3. ASSUME NEW m \in S PROVE n <= m
  <2>1. ~(m < n)
    BY <1>2 DEF OpToRel
  <2>2. m \in Nat /\ n \in Nat
    OBVIOUS
  <2> QED BY <2>1, <2>2
<1> QED BY <1>3

LEMMA MiddleIsBetween ==
    ASSUME NEW n \in Nat, NEW r \in Ranges(n), r[1] < r[2]
    PROVE  /\ Middle(r) \in Nat /\ r[1] <= Middle(r) /\ Middle(r) < r[2]
           /\ <<r[1], Middle(r)>> \in Ranges(n) /\ <<Middle(r) + 1, r[2]>> \in Ranges(n)
<1>1. r[1] \in Nat /\ r[2] \in Nat /\ r[1] <= n /\ r[2] <= n
  BY DEF Ranges
<1>2. Middle(r) \in Nat /\ r[1] <= Middle(r) /\ Middle(r) < r[2]
  BY <1>1 DEF Middle
<1> QED BY <1>1, <1>2 DEF Ranges

\* find is right about the ranges of at most m places.
FindsWithin(o_named, id, find, m) ==
    /\ find = [r \in Ranges(Len(o_named)) |-> find[r]]
    /\ \A r \in Ranges(Len(o_named)) : r[2] - r[1] <= m => find[r] = Look(o_named, id, find)[r]

LEMMA FindsMore ==
    ASSUME NEW o_named, Len(o_named) \in Nat, NEW id, NEW find, NEW m \in Nat, m > 0,
           FindsWithin(o_named, id, find, m - 1)
    PROVE  FindsWithin(o_named, id, Look(o_named, id, find), m)
<1> DEFINE R == Ranges(Len(o_named))
           more == Look(o_named, id, find)
<1>1. more = [r \in R |-> more[r]]
  BY DEF Look
<1>2. ASSUME NEW r \in R, r[2] - r[1] <= m - 1 PROVE find[r] = more[r]
  BY <1>2 DEF FindsWithin
<1>3. ASSUME NEW r \in R, r[2] - r[1] <= m
      PROVE  more[r] = Look(o_named, id, more)[r]
  <2>1. r[1] \in Nat /\ r[2] \in Nat
    BY DEF Ranges
  <2>2. CASE r[1] >= r[2]
    <3>1. more[r] = NoObject
      BY <2>2 DEF Look
    <3> HIDE DEF more
    <3>2. Look(o_named, id, more)[r] = NoObject
      BY <2>2 DEF Look
    <3> QED BY <3>1, <3>2
  <2>3. CASE ~(r[1] >= r[2])
    <3> DEFINE left == <<r[1], Middle(r)>>
               right == <<Middle(r) + 1, r[2]>>
    <3>1. /\ Middle(r) \in Nat /\ r[1] <= Middle(r) /\ Middle(r) < r[2]
          /\ left \in R /\ right \in R
      BY <2>1, <2>3, MiddleIsBetween
    <3>2. left[2] - left[1] <= m - 1 /\ right[2] - right[1] <= m - 1
      BY <1>3, <2>1, <3>1
    <3>3. find[left] = more[left] /\ find[right] = more[right]
      BY <3>1, <3>2, <1>2
    <3> HIDE DEF more, left, right
    <3>4. ASSUME NEW f
          PROVE  Look(o_named, id, f)[r] =
                    LET n == o_named[Middle(r) + 1]
                    IN  CASE Address[id] = Address[n.key] -> n.value
                          [] Address[id] < Address[n.key] -> f[left]
                          [] OTHER -> f[right]
      BY <2>3 DEF Look, left, right
    <3>5. Look(o_named, id, find)[r] = Look(o_named, id, more)[r]
      BY <3>3, <3>4
    <3> QED BY <3>5 DEF more
  <2> QED BY <2>2, <2>3
<1> QED BY <1>1, <1>3 DEF FindsWithin

\* The search is well defined.
LEMMA FindIsLook ==
    ASSUME NEW o_named, Len(o_named) \in Nat, NEW id
    PROVE  Find(o_named, id) = Look(o_named, id, Find(o_named, id))
<1> DEFINE n == Len(o_named)
           bad == {m \in Nat : ~ \E find : FindsWithin(o_named, id, find, m)}
<1>1. bad = {}
  <2> SUFFICES ASSUME bad # {} PROVE FALSE
    OBVIOUS
  <2>1. PICK m \in bad : \A k \in bad : m <= k
    BY LeastNumber
  <2>2. m \in Nat /\ ~ \E find : FindsWithin(o_named, id, find, m)
    OBVIOUS
  <2>3. CASE m = 0
    <3> DEFINE none == [r \in Ranges(n) |-> NoObject]
    <3>1. ASSUME NEW r \in Ranges(n), r[2] - r[1] <= 0
          PROVE  none[r] = Look(o_named, id, none)[r]
      <4>1. r[1] \in Nat /\ r[2] \in Nat
        BY DEF Ranges
      <4>2. r[1] >= r[2]
        BY <3>1, <4>1
      <4>3. none[r] = NoObject
        OBVIOUS
      <4> HIDE DEF none
      <4> QED BY <4>2, <4>3 DEF Look
    <3>2. FindsWithin(o_named, id, none, 0)
      BY <3>1 DEF FindsWithin
    <3> HIDE DEF none
    <3> QED BY <2>2, <2>3, <3>2
  <2>4. CASE m # 0
    <3>1. m - 1 \in Nat /\ m > 0
      BY <2>2, <2>4
    <3>2. m - 1 \notin bad
      BY <2>1, <2>2, <3>1
    <3>3. PICK find : FindsWithin(o_named, id, find, m - 1)
      BY <3>1, <3>2
    <3>4. FindsWithin(o_named, id, Look(o_named, id, find), m)
      BY <2>2, <3>1, <3>3, FindsMore
    <3> QED BY <2>2, <3>4
  <2> QED BY <2>3, <2>4
<1>2. PICK find : FindsWithin(o_named, id, find, n)
  BY <1>1
<1>3. find = Look(o_named, id, find)
  <2>1. \A r \in Ranges(n) : find[r] = Look(o_named, id, find)[r]
    <3> SUFFICES ASSUME NEW r \in Ranges(n) PROVE find[r] = Look(o_named, id, find)[r]
      OBVIOUS
    <3>1. r[2] - r[1] <= n
      BY DEF Ranges
    <3> QED BY <1>2, <3>1 DEF FindsWithin
  <2>2. find = [r \in Ranges(n) |-> find[r]]
    BY <1>2 DEF FindsWithin
  <2>3. Look(o_named, id, find) = [r \in Ranges(n) |-> Look(o_named, id, find)[r]]
    BY DEF Look
  <2> QED BY <2>1, <2>2, <2>3
<1> QED BY <1>3 DEF Find

LEMMA ShortestRange ==
    ASSUME NEW n \in Nat, NEW S, S \subseteq Ranges(n), S # {}
    PROVE  \E r \in S : \A q \in S : r[2] - r[1] <= q[2] - q[1]
<1> DEFINE sizes == {n + r[2] - r[1] : r \in S}
<1>1. \A r \in S : r[1] \in 0 .. n /\ r[2] \in 0 .. n
  BY DEF Ranges
<1>2. sizes \subseteq Nat /\ sizes # {}
  BY <1>1
<1>3. PICK m \in sizes : \A k \in sizes : m <= k
  <2> HIDE DEF sizes
  <2> QED BY <1>2, LeastNumber
<1>4. PICK r \in S : m = n + r[2] - r[1]
  BY <1>3
<1>5. ASSUME NEW q \in S PROVE r[2] - r[1] <= q[2] - q[1]
  <2>1. n + r[2] - r[1] <= n + q[2] - q[1]
    BY <1>3, <1>4
  <2>2. r[1] \in Nat /\ r[2] \in Nat /\ q[1] \in Nat /\ q[2] \in Nat
    BY <1>1
  <2> QED BY <2>1, <2>2
<1> QED BY <1>5

LEMMA FindStops ==
    ASSUME NEW o_named, Len(o_named) \in Nat, NEW id, NEW r \in Ranges(Len(o_named)), r[1] >= r[2]
    PROVE  Find(o_named, id)[r] = NoObject
<1> DEFINE f == Find(o_named, id)
<1>1. f[r] = Look(o_named, id, f)[r]
  BY FindIsLook
<1> HIDE DEF f
<1>2. f[r] = NoObject
  BY <1>1 DEF Look
<1> QED BY <1>2 DEF f

\* One step of the search
LEMMA FindAt ==
    ASSUME NEW o_named, Len(o_named) \in Nat, NEW id, NEW r \in Ranges(Len(o_named)), r[1] < r[2]
    PROVE  LET n == o_named[Middle(r) + 1]
               left == <<r[1], Middle(r)>>
               right == <<Middle(r) + 1, r[2]>>
           IN  /\ left \in Ranges(Len(o_named)) /\ right \in Ranges(Len(o_named))
               /\ left[2] - left[1] < r[2] - r[1] /\ right[2] - right[1] < r[2] - r[1]
               /\ Middle(r) + 1 \in r[1] + 1 .. r[2]
               /\ Find(o_named, id)[r] =
                     CASE Address[id] = Address[n.key] -> n.value
                       [] Address[id] < Address[n.key] -> Find(o_named, id)[left]
                       [] OTHER -> Find(o_named, id)[right]
<1> DEFINE f == Find(o_named, id)
<1>1. f[r] = Look(o_named, id, f)[r]
  BY FindIsLook
<1> HIDE DEF f
<1>2. r[1] \in Nat /\ r[2] \in Nat /\ ~(r[1] >= r[2])
  BY DEF Ranges
<1>3. f[r] = LET n == o_named[Middle(r) + 1]
             IN  CASE Address[id] = Address[n.key] -> n.value
                   [] Address[id] < Address[n.key] -> f[<<r[1], Middle(r)>>]
                   [] OTHER -> f[<<Middle(r) + 1, r[2]>>]
  BY <1>1, <1>2 DEF Look
<1>4. /\ Middle(r) \in Nat /\ r[1] <= Middle(r) /\ Middle(r) < r[2]
      /\ <<r[1], Middle(r)>> \in Ranges(Len(o_named))
      /\ <<Middle(r) + 1, r[2]>> \in Ranges(Len(o_named))
  BY <1>2, MiddleIsBetween
<1>5. /\ Middle(r) - r[1] < r[2] - r[1] /\ r[2] - (Middle(r) + 1) < r[2] - r[1]
      /\ Middle(r) + 1 \in r[1] + 1 .. r[2]
  BY <1>2, <1>4
<1> QED BY <1>3, <1>4, <1>5 DEF f

LEMMA LongerRange ==
    \A a, b, c, d \in Nat : b - a < d - c => ~(d - c <= b - a)
OBVIOUS

\* What is found is a value of the list.
LEMMA FindAmong ==
    ASSUME NEW o_named, Len(o_named) \in Nat, NEW id, NEW r \in Ranges(Len(o_named))
    PROVE  \/ Find(o_named, id)[r] = NoObject
           \/ \E i \in 1 .. Len(o_named) : Find(o_named, id)[r] = o_named[i].value
<1> DEFINE n == Len(o_named)
           f == Find(o_named, id)
           Good(q) == f[q] = NoObject \/ \E i \in 1 .. n : f[q] = o_named[i].value
           bad == {q \in Ranges(n) : ~Good(q)}
<1>1. bad = {}
  <2> SUFFICES ASSUME bad # {} PROVE FALSE
    OBVIOUS
  <2>1. PICK q \in bad : \A p \in bad : q[2] - q[1] <= p[2] - p[1]
    BY ShortestRange
  <2>2. q \in Ranges(n) /\ ~Good(q) /\ q[1] \in Nat /\ q[2] \in Nat /\ q[2] <= n
    BY DEF Ranges
  <2>3. q[1] < q[2]
    <3>1. q[1] >= q[2] => f[q] = NoObject
      BY <2>2, FindStops
    <3> QED BY <2>2, <3>1
  <2> DEFINE left == <<q[1], Middle(q)>>
             right == <<Middle(q) + 1, q[2]>>
             m == o_named[Middle(q) + 1]
  <2>4. /\ left \in Ranges(n) /\ right \in Ranges(n)
        /\ left[2] - left[1] < q[2] - q[1] /\ right[2] - right[1] < q[2] - q[1]
        /\ Middle(q) + 1 \in q[1] + 1 .. q[2]
        /\ \/ f[q] = m.value \/ f[q] = f[left] \/ f[q] = f[right]
    BY <2>2, <2>3, FindAt
  <2>5. Good(left) /\ Good(right)
    <3>1. left[1] \in Nat /\ left[2] \in Nat /\ right[1] \in Nat /\ right[2] \in Nat
      BY <2>4 DEF Ranges
    <3> HIDE DEF left, right
    <3>2. /\ left \in bad => q[2] - q[1] <= left[2] - left[1]
          /\ right \in bad => q[2] - q[1] <= right[2] - right[1]
      BY <2>1
    <3>3. left \notin bad /\ right \notin bad
      <4>1. ~(q[2] - q[1] <= left[2] - left[1]) /\ ~(q[2] - q[1] <= right[2] - right[1])
        BY <2>2, <2>4, <3>1, LongerRange
      <4> QED BY <3>2, <4>1, Zenon
    <3> QED BY <2>4, <3>3
  <2>6. Middle(q) + 1 \in 1 .. n
    BY <2>2, <2>4
  <2> HIDE DEF left, right, f, m
  <2>7. CASE f[q] = m.value
    BY <2>2, <2>6, <2>7 DEF m
  <2>8. CASE f[q] = f[left]
    BY <2>2, <2>5, <2>8
  <2>9. CASE f[q] = f[right]
    BY <2>2, <2>5, <2>9
  <2> QED BY <2>4, <2>7, <2>8, <2>9
<1> QED BY <1>1

LEMMA NamedIsAlive ==
    ASSUME IInv, Idle, NEW k \in Object, heap[k].kind = "capture", NEW id
    PROVE  /\ capture_named(k, id) \in Item \cup {NoObject}
           /\ capture_named(k, id) \in Pointer
           /\ Alive(capture_named(k, id))
<1> DEFINE o_named == heap[k].o_named
           all == <<0, Len(o_named)>>
           ret == Find(o_named, id)[all]
<1>1. /\ At(k) = heap[k] /\ o_named \in NamedArgs(Id) /\ AllAlive(Values(o_named))
  BY CaptureContents DEF CaptureBody
<1>2. o_named \in Seq([key : Id, value : Item]) /\ Len(o_named) \in Nat
      /\ DOMAIN o_named = 1 .. Len(o_named)
  BY <1>1 DEF NamedArgs
<1>3. all \in Ranges(Len(o_named))
  BY <1>2 DEF Ranges
<1>4. capture_named(k, id) = IF id \in Id THEN ret ELSE NoObject
  BY <1>1, NamedIsFind
<1>5. ret = NoObject \/ \E i \in 1 .. Len(o_named) : ret = o_named[i].value
  BY <1>2, <1>3, FindAmong
<1> HIDE DEF ret, all
<1>6. ASSUME NEW i \in 1 .. Len(o_named)
      PROVE  o_named[i].value \in Item /\ Alive(o_named[i].value)
  <2>1. o_named[i].value \in Item
    BY <1>2, NamedElement
  <2>2. i \in DOMAIN Values(o_named) /\ Values(o_named)[i] = o_named[i].value
    BY <1>2 DEF Values
  <2> QED BY <2>1, <2>2, <1>1 DEF AllAlive
<1> QED BY <1>4, <1>5, <1>6, NullIsAlive, PointerSets

LEMMA CaptureNamedStep ==
    ASSUME IInv, NEW c \in Object, Receives(c, "capture"), CaptureNamed(c)
    PROVE  IInv'
<1> DEFINE k == capture_invocant(c)
           named_ask == capture_positional(c, 0)
           ret == capture_named(k, named_ask)
<1>1. k \in Object /\ heap[k].kind = "capture" /\ Idle /\ heap[c].kind = "capture"
  BY ReceiverFacts
<1>2. named_ask \in Pointer /\ Alive(named_ask)
  BY <1>1, PositionalIsAlive
<1>3. /\ Replies(c, <<k, named_ask, ret>>, ret, <<named_ask, k, c>>)
      /\ UNCHANGED <<heap, chain, pending, lost, bound, client>>
  BY DEF CaptureNamed
<1> HIDE DEF k, named_ask
<1>4. ret \in Pointer /\ Alive(ret)
  BY <1>1, NamedIsAlive
<1> HIDE DEF ret
<1> QED BY <1>2, <1>3, <1>4, ReturnsForStep DEF k

LEMMA PlusOf ==
    ASSUME NEW bag \in [Counted -> Nat], NEW seq \in Seq(Pointer)
    PROVE  /\ Plus(bag, seq) \in [Counted -> Nat]
           /\ \A o \in Counted : Plus(bag, seq)[o] = bag[o] + Occurrences(seq, o)
<1>1. \A o \in Counted : Occurrences(seq, o) \in Nat
  BY WhereFinite
<1> QED BY <1>1 DEF Plus

LEMMA CaptureFetchStep ==
    ASSUME IInv, NEW c \in Object, Receives(c, "capture"), CaptureFetch(c)
    PROVE  IInv'
<1> DEFINE k == capture_invocant(c)
<1>1. k \in Pointer /\ c \in Pointer /\ Alive(k) /\ Idle /\ c \in held
  BY ReceiverFacts
<1> HIDE DEF k
<1>2. /\ Replies(c, <<k, k>>, k, <<>>) /\ lost' = Plus(lost, <<k, c>>)
      /\ UNCHANGED <<heap, chain, pending, bound, client>>
  BY DEF CaptureFetch, Forgets, k
<1>3. /\ <<k, k>> \in Seq(Pointer) /\ AllAlive(<<k, k>>) /\ <<k, c>> \in Seq(Pointer)
      /\ <<>> \in Seq(Pointer)
  <2>1. <<>> \in Seq(Pointer)
    OBVIOUS
  <2> QED BY <2>1, <1>1, AliveTuples
<1>4. lost \in [Counted -> Nat]
  BY DEF IInv, Typed
<1>5. /\ lost' \in [Counted -> Nat]
      /\ \A o \in Counted : lost'[o] = lost[o] + Occurrences(<<k, c>>, o)
  BY <1>2, <1>3, <1>4, PlusOf
<1>6. BalancedBut(c, <<k, k>>, k, <<>>)
  <2> SUFFICES ASSUME NEW o \in Counted
               PROVE  Occurrences(<<k, k>>, o) + One(c, o) + lost[o]
                         = Occurrences(<<>>, o) + One(k, o) + lost'[o]
    BY DEF BalancedBut
  <2>1. /\ Occurrences(<<k, k>>, o) = One(k, o) + One(k, o)
        /\ Occurrences(<<k, c>>, o) = One(k, o) + One(c, o) /\ Occurrences(<<>>, o) = 0
    BY OccTwo, OccEmpty
  <2>2. lost[o] \in Nat /\ One(k, o) \in Nat /\ One(c, o) \in Nat
    BY <1>4, OneIsNat
  <2> QED BY <2>1, <2>2, <1>5, SMTT(30)
<1> QED BY <1>1, <1>2, <1>3, <1>5, <1>6, ForgetsStep

-----------------------------------------------------------------------------
(* The keys of hashes                                                       *)

\* A string is made an identifier: then nothing is counted, nor kept.
LEMMA KeyFacts ==
    ASSUME IInv, Idle, NEW key \in Item, Alive(key)
    PROVE  /\ KeyOf(key) \in Item /\ KeyOf(key) \in Pointer
           /\ Kept(key) \in Pointer /\ Alive(Kept(key))
           /\ \A o \in Counted : One(Kept(key), o) = One(KeyOf(key), o)
<1>1. CASE IsStr(key)
  <2>1. heap[key] \in StrBody
    <3>1. key \in Object /\ heap[key].kind = "str"
      BY <1>1 DEF IsStr
    <3> QED BY <3>1, IdleFacts, BodyOfKind
  <2>2. KeyOf(key) \in Id /\ Kept(key) = NoObject
    BY <1>1, <2>1 DEF KeyOf, Kept, StrBody
  <2>3. \A o \in Counted : One(KeyOf(key), o) = 0
    BY <2>2, PointerSets DEF One
  <2> QED BY <2>2, <2>3, PointerSets, NullIsAlive, NoOneIsNull
<1>2. CASE ~IsStr(key)
  BY <1>2, PointerSets DEF KeyOf, Kept
<1> QED BY <1>1, <1>2

\* The key in a message to a hash
LEMMA KeyArgument ==
    ASSUME IInv, Idle, NEW c \in Object, heap[c].kind = "capture",
           NEW p \in DOMAIN At(c).positional
    PROVE  At(c).positional[p] \in Item /\ Alive(At(c).positional[p])
<1>1. At(c) = heap[c] /\ heap[c] \in CaptureBody /\ AllAlive(heap[c].positional)
  BY CaptureContents
<1>2. heap[c].positional \in Seq(Item)
  BY <1>1 DEF CaptureBody
<1> QED BY <1>1, <1>2 DEF AllAlive

LEMMA OneForgotten ==
    ASSUME Typed, NEW x \in Pointer, lost' = Plus(lost, <<x>>)
    PROVE  /\ lost' \in [Counted -> Nat] /\ lost \in [Counted -> Nat]
           /\ \A o \in Counted : lost'[o] = lost[o] + One(x, o)
<1>1. lost \in [Counted -> Nat] /\ <<x>> \in Seq(Pointer)
  BY DEF Typed
<1>2. \A o \in Counted : Occurrences(<<x>>, o) = One(x, o)
  BY OccOne
<1> QED BY <1>1, <1>2, PlusOf

LEMMA ExistsStep ==
    ASSUME IInv, NEW c \in Object, Receives(c, "hash"), Exists(c)
    PROVE  IInv'
<1> DEFINE h == capture_invocant(c)
           kept == Kept(At(c).positional[1])
<1>1. /\ h \in Pointer /\ c \in Pointer /\ NoObject \in Pointer /\ Alive(h) /\ Idle
      /\ c \in held /\ heap[c].kind = "capture"
  BY ReceiverFacts, PointerSets
<1>2. kept \in Pointer /\ Alive(kept)
  <2>1. 1 \in DOMAIN At(c).positional
    <3>1. At(c) = heap[c] /\ heap[c] \in CaptureBody
      BY <1>1, CaptureContents
    <3> QED BY <3>1 DEF Exists, CaptureBody
  <2> QED BY <2>1, <1>1, KeyArgument, KeyFacts
<1> HIDE DEF h, kept
<1>3. /\ Replies(c, <<h, kept>>, NoObject, <<h, c>>) /\ lost' = Plus(lost, <<kept>>)
      /\ UNCHANGED <<heap, chain, pending, bound, client>>
  BY DEF Exists, Forgets, h, kept
<1>4. <<h, kept>> \in Seq(Pointer) /\ AllAlive(<<h, kept>>) /\ <<h, c>> \in Seq(Pointer)
  BY <1>1, <1>2, AliveTuples
<1>5. /\ lost' \in [Counted -> Nat] /\ lost \in [Counted -> Nat]
      /\ \A o \in Counted : lost'[o] = lost[o] + One(kept, o)
  BY <1>2, <1>3, OneForgotten DEF IInv
<1>6. BalancedBut(c, <<h, kept>>, NoObject, <<h, c>>)
  <2> SUFFICES ASSUME NEW o \in Counted
               PROVE  Occurrences(<<h, kept>>, o) + One(c, o) + lost[o]
                         = Occurrences(<<h, c>>, o) + One(NoObject, o) + lost'[o]
    BY DEF BalancedBut
  <2>1. /\ Occurrences(<<h, kept>>, o) = One(h, o) + One(kept, o)
        /\ Occurrences(<<h, c>>, o) = One(h, o) + One(c, o) /\ One(NoObject, o) = 0
    BY OccTwo, NoOneIsNull
  <2>2. lost[o] \in Nat /\ One(h, o) \in Nat /\ One(c, o) \in Nat /\ One(kept, o) \in Nat
    BY <1>5, OneIsNat
  <2> QED BY <2>1, <2>2, <1>5, SMTT(30)
<1> QED BY <1>1, <1>3, <1>4, <1>5, <1>6, ForgetsStep

-----------------------------------------------------------------------------
(* Code that makes no object                                                *)

LEMMA PlusNothing == \A bag \in [Counted -> Nat] : Plus(bag, <<>>) = bag
<1> TAKE bag \in [Counted -> Nat]
<1>1. \A o \in Counted : bag[o] + Occurrences(<<>>, o) = bag[o]
  BY OccEmpty
<1> QED BY <1>1 DEF Plus

LEMMA ReleaseStep ==
    ASSUME IInv, NEW o \in Object, Release(o)
    PROVE  IInv'
<1>1. /\ Idle /\ o \in held /\ o \in Pointer
      /\ held' = held \ {o} /\ todo' = <<o>>
      /\ UNCHANGED <<heap, refCnt, chain, pending, lost, bound, client>>
  BY PointerSets DEF Release
<1>2. held \subseteq Object /\ refCnt \in [Counted -> Nat] /\ lost \in [Counted -> Nat]
  BY DEF IInv, Typed
<1>3. <<>> \in Seq(Pointer) /\ AllAlive(<<>>) /\ refCnt' = Plus(refCnt, <<>>)
  BY <1>1, <1>2, PlusNothing DEF AllAlive
<1>4. BalancedPlain(<<>>)
  <2> SUFFICES ASSUME NEW x \in Counted
               PROVE  Occurrences(<<>>, x) + Held(x) + lost[x] = Held(x)' + Occurrences(todo', x) + lost'[x]
    BY DEF BalancedPlain
  <2>1. Held(x)' + One(o, x) = Held(x) /\ Held(x)' \in Nat /\ One(o, x) \in Nat
    BY <1>1, <1>2 DEF Held, One
  <2>2. Occurrences(<<>>, x) = 0 /\ Occurrences(todo', x) = One(o, x)
    BY <1>1, OccEmpty, OccOne
  <2>3. lost[x] \in Nat /\ lost'[x] = lost[x]
    BY <1>1, <1>2
  <2> QED BY <2>1, <2>2, <2>3
<1>5. held' \subseteq Object /\ todo' \in Seq(Pointer) /\ lost' \in [Counted -> Nat]
  BY <1>1, <1>2
<1> QED BY <1>1, <1>3, <1>4, <1>5, PlainStep

-----------------------------------------------------------------------------
(* Code that makes one object                                               *)

BalancedNew(n, body, taken) ==
    \A o \in Counted :
        Occurrences(taken, o) + One(n, o) + Held(o) + lost[o]
            = Occurrences(References(body), o) + Held(o)' + Occurrences(todo', o) + lost'[o]

LEMMA NewCounts ==
    ASSUME IInv, Idle, NEW n \in Object, heap[n].kind = "free",
           NEW taken \in Seq(Pointer), AllAlive(taken),
           refCnt' = [Plus(refCnt, taken) EXCEPT ![n] = 1]
    PROVE  /\ refCnt' \in [Counted -> Nat]
           /\ \A o \in Counted : refCnt'[o] = refCnt[o] + Occurrences(taken, o) + One(n, o)
<1>1. /\ Plus(refCnt, taken) \in [Counted -> Nat]
      /\ \A o \in Counted : Plus(refCnt, taken)[o] = refCnt[o] + Occurrences(taken, o)
  BY PlusCounts DEF IInv
<1>2. n \in Counted /\ refCnt[n] = 0 /\ Occurrences(taken, n) = 0
  BY FreeIsUnreferred, AliveTaken
<1>3. refCnt' \in [Counted -> Nat]
  BY <1>1
<1>4. \A o \in Counted : refCnt'[o] = IF o = n THEN 1 ELSE Plus(refCnt, taken)[o]
  BY <1>1
<1>5. ASSUME NEW o \in Counted PROVE refCnt'[o] = refCnt[o] + Occurrences(taken, o) + One(n, o)
  <2>1. CASE o = n
    BY <1>2, <1>4, <2>1 DEF One
  <2>2. CASE o # n
    <3>1. refCnt'[o] = refCnt[o] + Occurrences(taken, o) /\ One(n, o) = 0
      BY <1>1, <1>4, <2>2 DEF One
    <3>2. refCnt[o] \in Nat /\ Occurrences(taken, o) \in Nat
      BY IdleFacts, WhereFinite
    <3> QED BY <3>1, <3>2
  <2> QED BY <2>1, <2>2
<1> QED BY <1>3, <1>5

LEMMA NewStep ==
    ASSUME IInv, Idle, NEW n \in Object, heap[n].kind = "free",
           NEW body \in Body, body.kind # "free", body.kind = "hash" => body = Hash(<<>>),
           NEW taken \in Seq(Pointer), AllAlive(taken),
           heap' = Put(heap, n, body), refCnt' = [Plus(refCnt, taken) EXCEPT ![n] = 1],
           ArrayFits(n)', Linked(n)',
           held' \subseteq Object, todo' \in Seq(Pointer), lost' \in [Counted -> Nat],
           BalancedNew(n, body, taken), UNCHANGED <<chain, pending, bound, client>>
    PROVE  IInv'
<1>1. Typed /\ heap \in [Object -> Body]
  BY DEF IInv, Typed
<1>2. /\ heap' \in [Object -> Body]
      /\ \A x \in Object : heap'[x] = IF x = n THEN body ELSE heap[x]
      /\ \A o : InHeap(heap', o) + Occurrences(References(heap[n]), o)
                   = InHeap(heap, o) + Occurrences(References(body), o)
  <2>1. \A o :
           /\ Put(heap, n, body) \in [Object -> Body]
           /\ \A x \in Object : Put(heap, n, body)[x] = IF x = n THEN body ELSE heap[x]
           /\ InHeap(Put(heap, n, body), o) + Occurrences(References(heap[n]), o)
                 = InHeap(heap, o) + Occurrences(References(body), o)
    BY <1>1, InHeapExcept, SMTT(30)
  <2> QED BY <2>1
<1>3. /\ refCnt' \in [Counted -> Nat]
      /\ \A o \in Counted : refCnt'[o] = refCnt[o] + Occurrences(taken, o) + One(n, o)
  BY NewCounts
<1>4. Typed'
  BY <1>1, <1>2, <1>3, TypedNext
<1>5. References(heap[n]) = <<>> /\ refCnt[n] = 0 /\ n \in Counted
  BY FreeIsUnreferred
<1>6. ASSUME NEW o \in Counted PROVE Conserved(o)
  <2> DEFINE r == refCnt[o]
             ho == InHeap(heap, o)
             hn == InHeap(heap', o)
             ta == Occurrences(taken, o)
             re == Occurrences(References(body), o)
             td == Occurrences(todo', o)
             he == Held(o)
             hen == Held(o)'
             on == One(n, o)
             lo == lost[o]
             lon == lost'[o]
  <2>1. ta + on + he + lo = re + hen + td + lon
    BY DEF BalancedNew
  <2>2. hn + 0 = ho + re
    BY <1>2, <1>5, OccEmpty
  <2>3. /\ r \in Nat /\ ho \in Nat /\ hn \in Nat /\ ta \in Nat /\ re \in Nat /\ td \in Nat
        /\ he \in Nat /\ hen \in Nat /\ on \in Nat /\ lo \in Nat /\ lon \in Nat
    <3>1. References(body) \in Seq(Pointer)
      BY ReferencesOf
    <3> QED BY <3>1, <1>2, IdleFacts, WhereFinite, SlotsOfType DEF Held, One
  <2>4. refCnt'[o] = r + ta + on
    BY <1>3
  <2>5. r + ta + on + ho + he + lo + 0 = r + hn + hen + td + 0 + 0 + lon
    <3> HIDE DEF r, ho, hn, ta, re, td, he, hen, on, lo, lon
    <3> QED BY <2>1, <2>2, <2>3
  <2>6. Masked(o)' = 0 /\ Occurrences(pending'.then, o) = 0 /\ One(pending'.value, o) = 0
    BY NothingPending
  <2> QED BY <2>4, <2>5, <2>6 DEF Conserved
<1>7. ASSUME NEW x \in Object PROVE Stays(x) /\ Sound(x) /\ AliveIfCounted(x)
  <2>1. CASE x = n
    <3>1. heap'[x] = body /\ refCnt'[x] = 1
      BY <1>2, <2>1, <1>1, <1>5, PlusCounts
    <3> QED BY <2>1, <3>1 DEF Stays, Sound, AliveIfCounted
  <2>2. CASE x # n
    <3>1. heap'[x] = heap[x] /\ x \in Counted /\ One(n, x) = 0
      BY <1>2, <2>2, PointerSets DEF One
    <3>2. refCnt'[x] = refCnt[x] + Occurrences(taken, x)
      BY <1>3, <3>1, IdleFacts, WhereFinite
    <3>3. AliveIfCounted(x)
      BY <3>1, <3>2, AliveNext
    <3> QED BY <3>1, <3>3 DEF Stays, Sound
  <2> QED BY <2>1, <2>2
<1>8. BoundFits' /\ BindingsKept'
  <2>1. \A h \in Object :
           \/ heap'[h] = heap[h]
           \/ heap[h].kind = "free" /\ heap'[h] = Hash(<<>>)
           \/ heap[h].kind # "hash" /\ heap'[h].kind # "hash"
    BY <1>2
  <2> QED BY <2>1, BindingsSame
<1> QED BY <1>4, <1>6, <1>7, <1>8, NothingPending, IdleStep

LEMMA SimpleBodies ==
    /\ Value \in Body /\ Value.kind = "value" /\ References(Value) = <<>>
    /\ Array(<<>>, 0) \in Body /\ Array(<<>>, 0).kind = "array" /\ References(Array(<<>>, 0)) = <<>>
    /\ Array(<<>>, 0).content = <<>> /\ Array(<<>>, 0).elems = 0
    /\ Hash(<<>>) \in Body /\ Hash(<<>>).kind = "hash" /\ References(Hash(<<>>)) = <<>>
<1>1. Value \in Body /\ Value.kind = "value"
  BY DEF Value, Body
<1>2. /\ Array(<<>>, 0) \in ArrayBody /\ Array(<<>>, 0).kind = "array"
      /\ Array(<<>>, 0).content = <<>> /\ Array(<<>>, 0).elems = 0
  BY DEF Array, ArrayBody
<1>3. Hash(<<>>) \in HashBody /\ Hash(<<>>).kind = "hash" /\ Hash(<<>>).buckets = <<>>
  BY DEF Hash, HashBody
<1>4. Array(<<>>, 0) \in Body /\ Hash(<<>>) \in Body
  BY <1>2, <1>3 DEF Body
<1>5. KeysAndCells(<<>>) = <<>>
  BY DEF KeysAndCells
<1> QED BY <1>1, <1>2, <1>3, <1>4, <1>5, ReferencesOf

\* A body that has no links and is no used array fits.
LEMMA FitsAnyway ==
    ASSUME NEW n \in Object, NEW body, heap'[n] = body,
           body.kind \notin {"array", "proxy", "scope"} \/ body = Array(<<>>, 0)
    PROVE  ArrayFits(n)' /\ Linked(n)'
<1>1. CASE body.kind \notin {"array", "proxy", "scope"}
  BY <1>1 DEF ArrayFits, Linked
<1>2. CASE body = Array(<<>>, 0)
  <2>1. heap'[n].kind = "array" /\ heap'[n].content = <<>> /\ heap'[n].elems = 0
    BY <1>2, SimpleBodies
  <2>2. ArrayFits(n)'
    BY <2>1, MessagesAssumption DEF ArrayFits
  <2>3. Linked(n)'
    BY <2>1 DEF Linked
  <2> QED BY <2>2, <2>3
<1> QED BY <1>1, <1>2

LEMMA NewObjectStep ==
    ASSUME IInv, NEW o \in Object,
           New(o) \/ Array_create(o) \/ Hash_create(o) \/ \E id \in Id : Str_create(o, id)
    PROVE  IInv'
<1>1. PICK body \in {Value, Array(<<>>, 0), Hash(<<>>)} \cup {Str(id) : id \in Id} : NewObject(o, body)
  BY DEF New, Array_create, Hash_create, Str_create
<1>2. /\ Idle /\ heap[o].kind = "free"
      /\ heap' = Put(heap, o, body) /\ refCnt' = [refCnt EXCEPT ![o] = 1]
      /\ held' = held \cup {o}
      /\ UNCHANGED <<todo, chain, pending, lost, bound, client>>
  BY <1>1 DEF NewObject, Unused, Put
<1>3. body \in Body /\ body.kind # "free" /\ References(body) = <<>>
      /\ (body.kind = "hash" => body = Hash(<<>>))
      /\ (body.kind \notin {"array", "proxy", "scope"} \/ body = Array(<<>>, 0))
  <2>1. \A id \in Id : Str(id) \in Body /\ Str(id).kind = "str"
    BY DEF Str, StrBody, Body
  <2>2. \A id \in Id : References(Str(id)) = <<>>
    BY <2>1, ReferencesOf
  <2> QED BY <2>1, <2>2, SimpleBodies
<1>4. /\ heap \in [Object -> Body] /\ refCnt \in [Counted -> Nat] /\ lost \in [Counted -> Nat]
      /\ held \subseteq Object /\ todo = <<>>
  BY <1>2, IdleFacts DEF IInv, Typed
<1>5. ArrayFits(o)' /\ Linked(o)'
  <2>1. heap'[o] = body
    BY <1>2, <1>4 DEF Put
  <2> QED BY <1>3, <2>1, FitsAnyway
<1>6. /\ refCnt' = [Plus(refCnt, <<>>) EXCEPT ![o] = 1]
      /\ <<>> \in Seq(Pointer) /\ AllAlive(<<>>)
  <2>1. <<>> \in Seq(Pointer) /\ AllAlive(<<>>)
    BY DEF AllAlive
  <2> QED BY <1>2, <1>4, <2>1, PlusNothing
<1>7. held' \subseteq Object /\ todo' \in Seq(Pointer) /\ lost' \in [Counted -> Nat]
  BY <1>2, <1>4, <1>6
<1>8. BalancedNew(o, body, <<>>)
  <2> SUFFICES ASSUME NEW x \in Counted
               PROVE  Occurrences(<<>>, x) + One(o, x) + Held(x) + lost[x]
                        = Occurrences(References(body), x) + Held(x)' + Occurrences(todo', x) + lost'[x]
    BY DEF BalancedNew
  <2>1. Occurrences(<<>>, x) = 0 /\ Occurrences(References(body), x) = 0 /\ Occurrences(todo', x) = 0
    BY <1>2, <1>3, <1>4, OccEmpty
  <2>2. o \notin held
    BY <1>2, FreeIsUnreferred
  <2>3. Held(x)' = Held(x) + One(o, x)
    BY <1>2, <2>2 DEF Held, One
  <2>4. Held(x) \in Nat /\ One(o, x) \in Nat /\ lost[x] \in Nat /\ lost'[x] = lost[x]
    BY <1>2, <1>4 DEF Held, One
  <2> QED BY <2>1, <2>3, <2>4
<1> QED BY <1>2, <1>3, <1>5, <1>6, <1>7, <1>8, NewStep

\* A handler that returns a new object
LEMMA RepliesNewStep ==
    ASSUME IInv, NEW c \in Object, NEW kind, Receives(c, kind), NEW n \in Object,
           NEW body \in Body, body.kind \in {"value", "proxy", "bvalue"},
           NEW taken \in Seq(Pointer), AllAlive(taken), NEW released \in Seq(Pointer),
           RepliesNew(c, n, body, taken, released),
           ArrayFits(n)', Linked(n)', lost' \in [Counted -> Nat],
           \A o \in Counted :
              Occurrences(taken, o) + One(c, o) + lost[o]
                 = Occurrences(References(body), o) + Occurrences(released, o) + lost'[o]
    PROVE  IInv'
<1>1. /\ heap[n].kind = "free" /\ heap' = Put(heap, n, body)
      /\ refCnt' = [Plus(refCnt, taken) EXCEPT ![n] = 1]
      /\ held' = (held \ {c}) \cup {n} /\ todo' = released
      /\ UNCHANGED <<chain, pending, bound, client>>
  BY DEF RepliesNew, Unused, Put
<1>2. Idle /\ c \in held /\ heap[c].kind = "capture"
  BY ReceiverFacts
<1>3. held \subseteq Object /\ lost \in [Counted -> Nat]
  BY DEF IInv, Typed
<1>4. n \notin held /\ n # c
  BY <1>1, <1>2, FreeIsUnreferred
<1>5. BalancedNew(n, body, taken)
  <2> SUFFICES ASSUME NEW o \in Counted
               PROVE  Occurrences(taken, o) + One(n, o) + Held(o) + lost[o]
                        = Occurrences(References(body), o) + Held(o)' + Occurrences(todo', o) + lost'[o]
    BY DEF BalancedNew
  <2> DEFINE ta == Occurrences(taken, o)
             re == Occurrences(References(body), o)
             rel == Occurrences(released, o)
  <2>1. Held(o)' + One(c, o) = Held(o) + One(n, o)
    BY <1>1, <1>2, <1>4 DEF Held, One
  <2>2. ta + One(c, o) + lost[o] = re + rel + lost'[o]
    OBVIOUS
  <2>3. /\ ta \in Nat /\ re \in Nat /\ rel \in Nat /\ One(c, o) \in Nat /\ One(n, o) \in Nat
        /\ Held(o) \in Nat /\ Held(o)' \in Nat /\ lost[o] \in Nat /\ lost'[o] \in Nat
    <3>1. References(body) \in Seq(Pointer)
      BY ReferencesOf
    <3> QED BY <3>1, <1>3, WhereFinite DEF Held, One
  <2> HIDE DEF ta, re, rel
  <2>4. ta + One(n, o) + Held(o) + lost[o] = re + Held(o)' + rel + lost'[o]
    <3> DEFINE he == Held(o)
               hen == Held(o)'
               oc == One(c, o)
               on == One(n, o)
               lo == lost[o]
               lon == lost'[o]
    <3>1. hen + oc = he + on /\ ta + oc + lo = re + rel + lon
      BY <2>1, <2>2
    <3>2. /\ ta \in Nat /\ re \in Nat /\ rel \in Nat /\ oc \in Nat /\ on \in Nat
          /\ he \in Nat /\ hen \in Nat /\ lo \in Nat /\ lon \in Nat
      BY <2>3
    <3>3. ta + on + he + lo = re + hen + rel + lon
      <4> HIDE DEF he, hen, oc, on, lo, lon
      <4> QED BY <3>1, <3>2
    <3> QED BY <3>3
  <2> QED BY <1>1, <2>4 DEF ta, re, rel
<1>6. held' \subseteq Object /\ todo' \in Seq(Pointer)
  BY <1>1, <1>3
<1> QED BY <1>1, <1>2, <1>5, <1>6, NewStep

LEMMA ElemsStep ==
    ASSUME IInv, NEW c \in Object, NEW kind, Receives(c, kind), NEW n \in Object, Elems(c, n)
    PROVE  IInv'
<1> DEFINE o == capture_invocant(c)
<1>1. o \in Pointer /\ c \in Pointer /\ Alive(o) /\ heap \in [Object -> Body]
  BY ReceiverFacts, IdleFacts
<1> HIDE DEF o
<1>2. RepliesNew(c, n, Value, <<o>>, <<o, c>>)
  BY DEF Elems, o
<1>7. lost \in [Counted -> Nat] /\ lost' = lost
  BY DEF Elems, IInv, Typed
<1>3. <<o>> \in Seq(Pointer) /\ AllAlive(<<o>>) /\ <<o, c>> \in Seq(Pointer)
  BY <1>1, AliveTuples
<1>4. Value \in Body /\ Value.kind = "value" /\ References(Value) = <<>>
  BY SimpleBodies
<1>5. ArrayFits(n)' /\ Linked(n)'
  <2>1. heap'[n] = Value
    BY <1>1, <1>2 DEF RepliesNew
  <2> QED BY <1>4, <2>1, FitsAnyway
<1>6. \A x \in Counted :
         Occurrences(<<o>>, x) + One(c, x) + lost[x]
            = Occurrences(References(Value), x) + Occurrences(<<o, c>>, x) + lost'[x]
  BY <1>4, <1>7, OccEmpty, OccOne, OccTwo, OneIsNat
<1> QED BY <1>2, <1>3, <1>4, <1>5, <1>6, <1>7, RepliesNewStep

LEMMA SquareStep ==
    ASSUME IInv, NEW c \in Object, Receives(c, "array"), NEW p \in Object,
           NEW i \in 0 .. MaxElems - 1, Square(c, p, i)
    PROVE  IInv'
<1> DEFINE a == capture_invocant(c)
           pos0 == capture_positional(c, 0)
<1>1. /\ a \in Object /\ a \in Pointer /\ c \in Pointer /\ Alive(a) /\ heap[a].kind = "array"
      /\ heap \in [Object -> Body]
  BY ReceiverFacts, IdleFacts
<1> HIDE DEF a, pos0
<1>2. /\ pos0 \in Object /\ heap[pos0].kind = "value"
      /\ RepliesNew(c, p, Proxy(a, i), <<a, pos0, a>>, <<pos0, a, c>>)
  BY DEF Square, a, pos0
<1>3. pos0 \in Pointer /\ Alive(pos0)
  BY <1>2, PointerSets DEF Alive
<1>4. /\ <<a, pos0, a>> \in Seq(Pointer) /\ AllAlive(<<a, pos0, a>>)
      /\ <<pos0, a, c>> \in Seq(Pointer)
  BY <1>1, <1>3, AliveTuples
<1>5. /\ Proxy(a, i) \in Body /\ Proxy(a, i).kind = "proxy" /\ Proxy(a, i).array = a
      /\ References(Proxy(a, i)) = <<a>>
  <2>1. Proxy(a, i) \in ProxyBody /\ Proxy(a, i).kind = "proxy" /\ Proxy(a, i).array = a
    BY <1>1 DEF Proxy, ProxyBody
  <2> QED BY <2>1, ReferencesOf DEF Body
<1>6. ArrayFits(p)' /\ Linked(p)'
  <2>1. heap'[p] = Proxy(a, i) /\ heap[p].kind = "free" /\ \A x \in Object \ {p} : heap'[x] = heap[x]
    BY <1>1, <1>2 DEF RepliesNew, Unused
  <2>2. heap'[a].kind = "array"
    BY <1>1, <2>1
  <2> QED BY <1>5, <2>1, <2>2 DEF ArrayFits, Linked
<1>8. lost \in [Counted -> Nat] /\ lost' = lost
  BY DEF Square, IInv, Typed
<1>7. \A x \in Counted :
         Occurrences(<<a, pos0, a>>, x) + One(c, x) + lost[x]
            = Occurrences(References(Proxy(a, i)), x) + Occurrences(<<pos0, a, c>>, x) + lost'[x]
  BY <1>5, <1>8, OccOne, OccThree, OneIsNat
<1> QED BY <1>2, <1>4, <1>5, <1>6, <1>7, <1>8, RepliesNewStep

LEMMA OccFour ==
    ASSUME NEW x \in Pointer, NEW y \in Pointer, NEW z \in Pointer, NEW w \in Pointer
    PROVE  /\ <<x, y, z, w>> \in Seq(Pointer)
           /\ Alive(x) /\ Alive(y) /\ Alive(z) /\ Alive(w) => AllAlive(<<x, y, z, w>>)
           /\ \A o : Occurrences(<<x, y, z, w>>, o) = One(x, o) + One(y, o) + One(z, o) + One(w, o)
<1>1. /\ <<x, y, z>> \in Seq(Pointer) /\ <<x, y, z, w>> \in Seq(Pointer)
      /\ <<x, y, z, w>> = Append(<<x, y, z>>, w)
  OBVIOUS
<1>2. Alive(x) /\ Alive(y) /\ Alive(z) /\ Alive(w) => AllAlive(<<x, y, z, w>>)
  <2>1. DOMAIN <<x, y, z, w>> = {1, 2, 3, 4}
    OBVIOUS
  <2> QED BY <2>1 DEF AllAlive
<1>3. ASSUME NEW o
      PROVE  Occurrences(<<x, y, z, w>>, o) = One(x, o) + One(y, o) + One(z, o) + One(w, o)
  <2>1. Occurrences(Append(<<x, y, z>>, w), o) = Occurrences(<<x, y, z>>, o) + One(w, o)
    BY <1>1, OccAppend
  <2>2. Occurrences(<<x, y, z, w>>, o) = Occurrences(<<x, y, z>>, o) + One(w, o)
    BY <1>1, <2>1, Zenon
  <2>3. Occurrences(<<x, y, z>>, o) = One(x, o) + One(y, o) + One(z, o)
    BY OccThree
  <2> QED BY <2>2, <2>3, Zenon
<1> QED BY <1>1, <1>2, <1>3

LEMMA CurlyStep ==
    ASSUME IInv, NEW c \in Object, Receives(c, "hash"), NEW b \in Object, Curly(c, b)
    PROVE  IInv'
<1> DEFINE h == capture_invocant(c)
           key == KeyOf(At(c).positional[1])
           kept == Kept(At(c).positional[1])
           body == BValue(h, key)
<1>1. /\ h \in Object /\ h \in Pointer /\ c \in Pointer /\ Alive(h) /\ Idle
      /\ heap \in [Object -> Body] /\ heap[c].kind = "capture"
  BY ReceiverFacts, IdleFacts
<1>2. /\ key \in Item /\ kept \in Pointer /\ Alive(kept)
      /\ \A o \in Counted : One(kept, o) = One(key, o)
  <2>1. 1 \in DOMAIN At(c).positional
    <3>1. At(c) = heap[c] /\ heap[c] \in CaptureBody
      BY <1>1, CaptureContents
    <3> QED BY <3>1 DEF Curly, CaptureBody
  <2>2. At(c).positional[1] \in Item /\ Alive(At(c).positional[1])
    BY <2>1, <1>1, KeyArgument
  <2> QED BY <2>2, <1>1, KeyFacts
<1> HIDE DEF h, key, kept
<1>3. RepliesNew(c, b, body, <<h, h, kept, kept>>, <<h, c>>) /\ lost' = Plus(lost, <<kept>>)
  BY DEF Curly, Forgets, h, key, kept
<1>4. /\ <<h, h, kept, kept>> \in Seq(Pointer) /\ AllAlive(<<h, h, kept, kept>>)
      /\ <<h, c>> \in Seq(Pointer)
  BY <1>1, <1>2, AliveTuples, OccFour
<1>5. body \in Body /\ body.kind = "bvalue" /\ References(body) = <<h, key>>
  <2>1. body \in BValueBody /\ body.kind = "bvalue" /\ body.owner = h /\ body.key = key
    BY <1>1, <1>2 DEF BValue, BValueBody
  <2> QED BY <2>1, ReferencesOf DEF Body
<1>6. ArrayFits(b)' /\ Linked(b)'
  <2>1. heap'[b] = body
    BY <1>1, <1>3 DEF RepliesNew
  <2> QED BY <1>5, <2>1, FitsAnyway
<1>7. /\ lost' \in [Counted -> Nat] /\ lost \in [Counted -> Nat]
      /\ \A o \in Counted : lost'[o] = lost[o] + One(kept, o)
  BY <1>2, <1>3, OneForgotten DEF IInv
<1> HIDE DEF body
<1>8. ASSUME NEW x \in Counted
      PROVE  Occurrences(<<h, h, kept, kept>>, x) + One(c, x) + lost[x]
                = Occurrences(References(body), x) + Occurrences(<<h, c>>, x) + lost'[x]
  <2>1. /\ Occurrences(<<h, h, kept, kept>>, x) = One(h, x) + One(h, x) + One(kept, x) + One(kept, x)
        /\ Occurrences(References(body), x) = One(h, x) + One(kept, x)
        /\ Occurrences(<<h, c>>, x) = One(h, x) + One(c, x)
    BY <1>1, <1>2, <1>5, OccFour, OccTwo
  <2>2. lost[x] \in Nat /\ One(h, x) \in Nat /\ One(c, x) \in Nat /\ One(kept, x) \in Nat
    BY <1>7, OneIsNat
  <2> QED BY <2>1, <2>2, <1>7, SMTT(30)
<1> QED BY <1>3, <1>4, <1>5, <1>6, <1>7, <1>8, RepliesNewStep

-----------------------------------------------------------------------------
(* The arguments that are passed on                                         *)

LEMMA ConcatHead ==
    ASSUME NEW S, NEW s \in Seq(S), NEW t \in Seq(S), s # <<>>
    PROVE  s \o t \in Seq(S) /\ s \o t # <<>> /\ Head(s \o t) = Head(s)
OBVIOUS

LEMMA ReceiverFirst ==
    ASSUME NEW b \in CaptureBody
    PROVE  References(b) # <<>> /\ Head(References(b)) = b.invocant
<1>1. /\ b.kind = "capture" /\ b.invocant \in Pointer /\ b.positional \in Seq(Pointer)
      /\ b.o_named \in NamedArgs(Id) /\ b.named \in NamedArgs(Object)
  BY PointerSets, SeqOfMore DEF CaptureBody
<1>2. /\ Keys(b.o_named) \in Seq(Id) /\ Values(b.o_named) \in Seq(Item)
      /\ Keys(b.named) \in Seq(Object) /\ Values(b.named) \in Seq(Item)
  BY <1>1, KeysAndValues DEF NamedArgs
<1>3. /\ Keys(b.o_named) \in Seq(Pointer) /\ Values(b.o_named) \in Seq(Pointer)
      /\ Keys(b.named) \in Seq(Pointer) /\ Values(b.named) \in Seq(Pointer)
  BY <1>2, PointerSets, SeqOfMore
<1> DEFINE r0 == <<b.invocant>>
           r1 == r0 \o b.positional
           r2 == r1 \o Keys(b.o_named)
           r3 == r2 \o Values(b.o_named)
           r4 == r3 \o Keys(b.named)
           r5 == r4 \o Values(b.named)
           Starts(r) == r \in Seq(Pointer) /\ r # <<>> /\ Head(r) = b.invocant
<1>4. References(b) = r5
  BY <1>1 DEF References
<1>5. Starts(r0)
  BY <1>1
<1> HIDE DEF r0
<1>6. Starts(r1)
  BY <1>1, <1>5, ConcatHead
<1> HIDE DEF r1
<1>7. Starts(r2)
  BY <1>3, <1>6, ConcatHead
<1> HIDE DEF r2
<1>8. Starts(r3)
  BY <1>3, <1>7, ConcatHead
<1> HIDE DEF r3
<1>9. Starts(r4)
  BY <1>3, <1>8, ConcatHead
<1> HIDE DEF r4
<1>10. Starts(r5)
  BY <1>3, <1>9, ConcatHead
<1> QED BY <1>4, <1>10

LEMMA OccTail ==
    ASSUME NEW S, NEW seq \in Seq(S), seq # <<>>, NEW o
    PROVE  /\ Tail(seq) \in Seq(S) /\ \A i \in DOMAIN Tail(seq) : i + 1 \in DOMAIN seq /\ Tail(seq)[i] = seq[i + 1]
           /\ Occurrences(seq, o) = One(Head(seq), o) + Occurrences(Tail(seq), o)
<1>1. /\ Tail(seq) \in Seq(S) /\ <<Head(seq)>> \in Seq(S) /\ seq = <<Head(seq)>> \o Tail(seq)
      /\ \A i \in DOMAIN Tail(seq) : i + 1 \in DOMAIN seq /\ Tail(seq)[i] = seq[i + 1]
  OBVIOUS
<1>2. Occurrences(<<Head(seq)>> \o Tail(seq), o) = Occurrences(<<Head(seq)>>, o) + Occurrences(Tail(seq), o)
  BY <1>1, OccConcat
<1> QED BY <1>1, <1>2, OccOne

LEMMA KeyAt ==
    ASSUME NEW named, NEW i \in DOMAIN named
    PROVE  Keys(named)[i] = named[i].key /\ Values(named)[i] = named[i].value
BY DEF Keys, Values

LEMMA PartOf ==
    ASSUME NEW S, NEW seq \in Seq(S), NEW m \in Nat, m > 0, NEW n \in 0 .. Len(seq)
    PROVE  /\ SubSeq(seq, m, n) \in Seq(S)
           /\ Len(SubSeq(seq, m, n)) = IF m <= n THEN n - m + 1 ELSE 0
           /\ \A i \in 1 .. Len(SubSeq(seq, m, n)) :
                 SubSeq(seq, m, n)[i] = seq[m + i - 1] /\ m + i - 1 \in 1 .. Len(seq)
<1>1. \A i \in m .. n : seq[i] \in S
  OBVIOUS
<1>2. m \in Int /\ n \in Int /\ Len(seq) \in Nat
  OBVIOUS
<1>3. /\ SubSeq(seq, m, n) \in Seq(S)
      /\ Len(SubSeq(seq, m, n)) = IF m <= n THEN n - m + 1 ELSE 0
      /\ \A i \in 1 .. n - m + 1 : SubSeq(seq, m, n)[i] = seq[m + i - 1]
  BY <1>1, <1>2, SubSeqProperties
<1>4. ASSUME NEW i \in 1 .. Len(SubSeq(seq, m, n))
      PROVE  i \in 1 .. n - m + 1 /\ m + i - 1 \in 1 .. Len(seq)
  BY <1>2, <1>3
<1> QED BY <1>3, <1>4

LEMMA NamedFacts ==
    ASSUME NEW K, NEW named \in NamedArgs(K)
    PROVE  /\ Len(named) \in Nat /\ DOMAIN named = 1 .. Len(named)
           /\ Keys(named) \in Seq(K) /\ Values(named) \in Seq(Item)
           /\ Len(Keys(named)) = Len(named) /\ Len(Values(named)) = Len(named)
<1>1. named \in Seq([key : K, value : Item])
  BY DEF NamedArgs
<1>2. /\ Keys(named) \in Seq(K) /\ Values(named) \in Seq(Item)
      /\ Len(Keys(named)) = Len(named) /\ Len(Values(named)) = Len(named)
  BY <1>1, KeysAndValues, Zenon
<1>3. Len(named) \in Nat /\ DOMAIN named = 1 .. Len(named)
  BY <1>1
<1> QED BY <1>2, <1>3

LEMMA NamedParts ==
    ASSUME NEW K, NEW named \in NamedArgs(K),
           NEW m \in Nat, m > 0, NEW n \in 0 .. Len(named)
    PROVE  /\ SubSeq(named, m, n) \in NamedArgs(K)
           /\ Keys(SubSeq(named, m, n)) = SubSeq(Keys(named), m, n)
           /\ Values(SubSeq(named, m, n)) = SubSeq(Values(named), m, n)
<1> DEFINE part == SubSeq(named, m, n)
           keys == SubSeq(Keys(named), m, n)
           values == SubSeq(Values(named), m, n)
           size == IF m <= n THEN n - m + 1 ELSE 0
<1>1. /\ part \in NamedArgs(K) /\ Len(part) = size
      /\ \A i \in 1 .. Len(part) : part[i] = named[m + i - 1] /\ m + i - 1 \in 1 .. Len(named)
  BY PartOf DEF NamedArgs
<1>2. /\ Keys(named) \in Seq(K) /\ Values(named) \in Seq(Item)
      /\ Len(Keys(named)) = Len(named) /\ Len(Values(named)) = Len(named)
  BY NamedFacts
<1>3. /\ keys \in Seq(K) /\ Len(keys) = size
      /\ \A i \in 1 .. Len(keys) : keys[i] = Keys(named)[m + i - 1]
  BY <1>2, PartOf
<1>4. /\ values \in Seq(Item) /\ Len(values) = size
      /\ \A i \in 1 .. Len(values) : values[i] = Values(named)[m + i - 1]
  BY <1>2, PartOf
<1> HIDE DEF part, keys, values, size
<1>5. /\ Keys(part) \in Seq(K) /\ Values(part) \in Seq(Item)
      /\ Len(Keys(part)) = size /\ Len(Values(part)) = size
  BY <1>1, NamedFacts
<1>6. \A i \in 1 .. size : Keys(part)[i] = keys[i] /\ Values(part)[i] = values[i]
  <2> TAKE i \in 1 .. size
  <2>1. i \in DOMAIN part /\ m + i - 1 \in DOMAIN named /\ part[i] = named[m + i - 1]
    BY <1>1, NamedFacts
  <2>2. /\ Keys(part)[i] = part[i].key /\ Values(part)[i] = part[i].value
        /\ Keys(named)[m + i - 1] = named[m + i - 1].key
        /\ Values(named)[m + i - 1] = named[m + i - 1].value
    BY <2>1, KeyAt
  <2> QED BY <2>1, <2>2, <1>3, <1>4
<1>7. Keys(part) = keys /\ Values(part) = values
  BY <1>3, <1>4, <1>5, <1>6, SeqEqual
<1> QED BY <1>1, <1>7 DEF part, keys, values

LEMMA NamedConcat ==
    ASSUME NEW K, NEW s \in NamedArgs(K), NEW t \in NamedArgs(K)
    PROVE  /\ s \o t \in NamedArgs(K)
           /\ Keys(s \o t) = Keys(s) \o Keys(t) /\ Values(s \o t) = Values(s) \o Values(t)
<1> DEFINE u == s \o t
           keys == Keys(s) \o Keys(t)
           values == Values(s) \o Values(t)
           n == Len(s) + Len(t)
<1>1. /\ Keys(s) \in Seq(K) /\ Values(s) \in Seq(Item) /\ Keys(t) \in Seq(K) /\ Values(t) \in Seq(Item)
      /\ Len(Keys(s)) = Len(s) /\ Len(Values(s)) = Len(s)
      /\ Len(Keys(t)) = Len(t) /\ Len(Values(t)) = Len(t)
  BY NamedFacts
<1>2. /\ u \in NamedArgs(K) /\ Len(u) = n
      /\ \A i \in 1 .. n : u[i] = IF i <= Len(s) THEN s[i] ELSE t[i - Len(s)]
  BY ConcatProperties DEF NamedArgs
<1>3. /\ keys \in Seq(K) /\ Len(keys) = n
      /\ \A i \in 1 .. n : keys[i] = IF i <= Len(s) THEN Keys(s)[i] ELSE Keys(t)[i - Len(s)]
  <2> DEFINE ks == Keys(s)
             kt == Keys(t)
  <2>1. ks \in Seq(K) /\ kt \in Seq(K) /\ Len(ks) = Len(s) /\ Len(kt) = Len(t)
    BY <1>1
  <2> HIDE DEF ks, kt
  <2>2. /\ ks \o kt \in Seq(K) /\ Len(ks \o kt) = Len(ks) + Len(kt)
        /\ \A i \in 1 .. Len(ks) + Len(kt) :
              (ks \o kt)[i] = IF i <= Len(ks) THEN ks[i] ELSE kt[i - Len(ks)]
    BY <2>1, ConcatProperties
  <2> QED BY <2>1, <2>2 DEF ks, kt
<1>4. /\ values \in Seq(Item) /\ Len(values) = n
      /\ \A i \in 1 .. n : values[i] = IF i <= Len(s) THEN Values(s)[i] ELSE Values(t)[i - Len(s)]
  <2> DEFINE ks == Values(s)
             kt == Values(t)
  <2>1. ks \in Seq(Item) /\ kt \in Seq(Item) /\ Len(ks) = Len(s) /\ Len(kt) = Len(t)
    BY <1>1
  <2> HIDE DEF ks, kt
  <2>2. /\ ks \o kt \in Seq(Item) /\ Len(ks \o kt) = Len(ks) + Len(kt)
        /\ \A i \in 1 .. Len(ks) + Len(kt) :
              (ks \o kt)[i] = IF i <= Len(ks) THEN ks[i] ELSE kt[i - Len(ks)]
    BY <2>1, ConcatProperties
  <2> QED BY <2>1, <2>2 DEF ks, kt
<1> HIDE DEF u, keys, values
<1>5. /\ Keys(u) \in Seq(K) /\ Values(u) \in Seq(Item) /\ Len(Keys(u)) = n /\ Len(Values(u)) = n
  BY <1>2, NamedFacts
<1>6. \A i \in 1 .. n : Keys(u)[i] = keys[i] /\ Values(u)[i] = values[i]
  <2> TAKE i \in 1 .. n
  <2>1. i \in DOMAIN u /\ Len(s) \in Nat /\ Len(t) \in Nat
    BY <1>2, NamedFacts
  <2>2. Keys(u)[i] = u[i].key /\ Values(u)[i] = u[i].value
    BY <2>1, KeyAt
  <2>3. CASE i <= Len(s)
    <3>1. i \in DOMAIN s
      BY <2>1, <2>3, NamedFacts
    <3>2. Keys(s)[i] = s[i].key /\ Values(s)[i] = s[i].value
      BY <3>1, KeyAt
    <3> QED BY <1>2, <1>3, <1>4, <2>2, <2>3, <3>2
  <2>4. CASE ~(i <= Len(s))
    <3>1. i - Len(s) \in DOMAIN t
      BY <2>1, <2>4, NamedFacts
    <3>2. Keys(t)[i - Len(s)] = t[i - Len(s)].key /\ Values(t)[i - Len(s)] = t[i - Len(s)].value
      BY <3>1, KeyAt
    <3> QED BY <1>2, <1>3, <1>4, <2>2, <2>4, <3>2
  <2> QED BY <2>3, <2>4
<1>7. Keys(u) = keys /\ Values(u) = values
  BY <1>3, <1>4, <1>5, <1>6, SeqEqual
<1> QED BY <1>2, <1>7 DEF u, keys, values

LEMMA NamedMore ==
    ASSUME NEW K, NEW L, K \subseteq L, NEW named \in NamedArgs(K)
    PROVE  named \in NamedArgs(L)
<1> DEFINE R == [key : K, value : Item]
           T == [key : L, value : Item]
<1>1. R \subseteq T /\ named \in Seq(R)
  BY DEF NamedArgs
<1> HIDE DEF R, T
<1>2. named \in Seq(T)
  BY <1>1, SeqOfMore
<1> QED BY <1>2 DEF T, NamedArgs

Smaller(m, n) == Min({m, n})

LEMMA SmallerOfTwo ==
    ASSUME NEW m \in Nat, NEW n \in Nat
    PROVE  Smaller(m, n) = IF m <= n THEN m ELSE n
<1> DEFINE x == IF m <= n THEN m ELSE n
<1>1. x \in {m, n} /\ \A y \in {m, n} : x <= y
  OBVIOUS
<1>2. \A z \in {m, n} : (\A y \in {m, n} : z <= y) => z = x
  OBVIOUS
<1> QED BY <1>1, <1>2 DEF Min, Smaller

\* What capture_delegate overwrites
Gone(k) == Keys(Overwritten(k)) \o Values(Overwritten(k))

\* A delegate refers to what its original refers to, but for the receiver and
\* what is overwritten.
LEMMA PassedFacts ==
    ASSUME IInv, Idle, NEW k \in Object, heap[k].kind = "capture"
    PROVE  /\ At(k).positional \in Seq(Item) /\ Passed(k) \in NamedArgs(Item)
           /\ Gone(k) \in Seq(Pointer)
           /\ Tail(References(At(k))) \in Seq(Pointer) /\ AllAlive(Tail(References(At(k))))
           /\ \A o : Occurrences(Tail(References(At(k))), o) =
                        Occurrences(At(k).positional, o) + Occurrences(Keys(Passed(k)), o)
                        + Occurrences(Values(Passed(k)), o) + Occurrences(Gone(k), o)
<1> DEFINE b == heap[k]
           os == b.o_named
           ns == b.named
           over == SubSeq(ns, 1, Smaller(Len(os), Len(ns)))
           rest == SubSeq(ns, Len(os) + 1, Len(ns))
           refs == References(b)
<1>1. At(k) = b /\ b \in CaptureBody
  BY CaptureContents
<1>2. /\ b.invocant \in Pointer /\ b.positional \in Seq(Item)
      /\ os \in NamedArgs(Item) /\ ns \in NamedArgs(Item)
  <2>1. os \in NamedArgs(Id) /\ ns \in NamedArgs(Object)
        /\ b.invocant \in Pointer /\ b.positional \in Seq(Item)
    BY <1>1, PointerSets DEF CaptureBody
  <2> QED BY <2>1, PointerSets, NamedMore
<1>3. Overwritten(k) = over /\ Passed(k) = os \o rest
  BY <1>1 DEF Overwritten, Passed, Smaller
<1>0. over = SubSeq(ns, 1, Smaller(Len(os), Len(ns))) /\ rest = SubSeq(ns, Len(os) + 1, Len(ns))
  OBVIOUS
<1> HIDE DEF over, rest, os, ns
<1>15. Len(os) \in Nat /\ Len(ns) \in Nat
  BY <1>2, NamedFacts
<1>4. /\ rest \in NamedArgs(Item) /\ Keys(rest) = SubSeq(Keys(ns), Len(os) + 1, Len(ns))
      /\ Values(rest) = SubSeq(Values(ns), Len(os) + 1, Len(ns))
  <2>1. Len(os) + 1 \in Nat /\ Len(os) + 1 > 0 /\ Len(ns) \in 0 .. Len(ns)
    BY <1>15
  <2> QED BY <2>1, <1>0, <1>2, NamedParts
<1>5. /\ over \in NamedArgs(Item)
      /\ Keys(over) = SubSeq(Keys(ns), 1, Smaller(Len(os), Len(ns)))
      /\ Values(over) = SubSeq(Values(ns), 1, Smaller(Len(os), Len(ns)))
  <2>1. Smaller(Len(os), Len(ns)) \in 0 .. Len(ns)
    BY <1>15, SmallerOfTwo
  <2>2. 1 \in Nat /\ 1 > 0
    OBVIOUS
  <2> QED BY <2>1, <2>2, <1>0, <1>2, NamedParts
<1>6. /\ os \o rest \in NamedArgs(Item) /\ Keys(os \o rest) = Keys(os) \o Keys(rest)
      /\ Values(os \o rest) = Values(os) \o Values(rest)
  BY <1>2, <1>4, NamedConcat
<1>7. /\ Keys(os) \in Seq(Item) /\ Values(os) \in Seq(Item)
      /\ Keys(ns) \in Seq(Item) /\ Values(ns) \in Seq(Item)
      /\ Keys(over) \in Seq(Item) /\ Values(over) \in Seq(Item)
      /\ Keys(rest) \in Seq(Item) /\ Values(rest) \in Seq(Item)
      /\ Len(Keys(ns)) = Len(ns) /\ Len(Values(ns)) = Len(ns)
  BY <1>2, <1>4, <1>5, NamedFacts
<1>8. ASSUME NEW u \in Seq(Item), Len(u) = Len(ns), NEW o
      PROVE  Occurrences(u, o) = Occurrences(SubSeq(u, 1, Smaller(Len(os), Len(ns))), o)
                                 + Occurrences(SubSeq(u, Len(os) + 1, Len(ns)), o)
  <2>1. CASE Len(os) <= Len(ns)
    <3>1. Smaller(Len(os), Len(ns)) = Len(os) /\ Len(os) \in 0 .. Len(u)
      BY <2>1, <1>15, <1>8, SmallerOfTwo
    <3>2. Occurrences(u, o) = Occurrences(SubSeq(u, 1, Len(os)), o)
                              + Occurrences(SubSeq(u, Len(os) + 1, Len(u)), o)
      BY <3>1, OccSplit
    <3> QED BY <3>1, <3>2, <1>8
  <2>2. CASE ~(Len(os) <= Len(ns))
    <3>1. Smaller(Len(os), Len(ns)) = Len(ns)
      BY <2>2, <1>15, SmallerOfTwo
    <3>2. SubSeq(u, 1, Len(ns)) = u
      BY <1>8, SubSeqFull
    <3>3. SubSeq(u, Len(os) + 1, Len(ns)) = <<>>
      <4>1. Len(os) + 1 \in Int /\ Len(ns) \in Int /\ Len(ns) < Len(os) + 1
        BY <2>2, <1>15
      <4> QED BY <4>1, SubSeqEmpty
    <3>4. Occurrences(u, o) \in Nat
      BY WhereFinite
    <3>5. Occurrences(<<>>, o) = 0
      BY OccEmpty
    <3> DEFINE front == SubSeq(u, 1, Len(ns))
               back == SubSeq(u, Len(os) + 1, Len(ns))
    <3>6. Occurrences(u, o) = Occurrences(front, o) + Occurrences(back, o)
      <4>1. front = u /\ back = <<>>
        BY <3>2, <3>3
      <4> HIDE DEF front, back
      <4> QED BY <4>1, <3>4, <3>5
    <3> QED BY <3>1, <3>6
  <2> QED BY <2>1, <2>2
<1>9. ASSUME NEW o
      PROVE  /\ Occurrences(Keys(ns), o) = Occurrences(Keys(over), o) + Occurrences(Keys(rest), o)
             /\ Occurrences(Values(ns), o) = Occurrences(Values(over), o) + Occurrences(Values(rest), o)
  BY <1>4, <1>5, <1>7, <1>8
<1>10. ASSUME NEW o
       PROVE  /\ Occurrences(Keys(Passed(k)), o) = Occurrences(Keys(os), o) + Occurrences(Keys(rest), o)
              /\ Occurrences(Values(Passed(k)), o) = Occurrences(Values(os), o) + Occurrences(Values(rest), o)
              /\ Occurrences(Gone(k), o) = Occurrences(Keys(over), o) + Occurrences(Values(over), o)
  <2> DEFINE ko == Keys(os)
             kr == Keys(rest)
             vo == Values(os)
             vr == Values(rest)
             kv == Keys(over)
             vv == Values(over)
  <2>1. /\ ko \in Seq(Item) /\ kr \in Seq(Item) /\ vo \in Seq(Item) /\ vr \in Seq(Item)
        /\ kv \in Seq(Item) /\ vv \in Seq(Item)
    BY <1>7
  <2> HIDE DEF ko, kr, vo, vr, kv, vv
  <2>2. /\ Occurrences(ko \o kr, o) = Occurrences(ko, o) + Occurrences(kr, o)
        /\ Occurrences(vo \o vr, o) = Occurrences(vo, o) + Occurrences(vr, o)
        /\ Occurrences(kv \o vv, o) = Occurrences(kv, o) + Occurrences(vv, o)
    BY <2>1, OccConcat
  <2> QED BY <2>2, <1>3, <1>6 DEF Gone, ko, kr, vo, vr, kv, vv
<1>11. /\ refs \in Seq(Pointer) /\ refs # <<>> /\ Head(refs) = b.invocant
  BY <1>1, CaptureReferences, ReceiverFirst
<1>12. AllAlive(Tail(refs))
  <2> SUFFICES ASSUME NEW i \in DOMAIN Tail(refs) PROVE Alive(Tail(refs)[i])
    BY DEF AllAlive
  <2>1. i + 1 \in DOMAIN refs /\ Tail(refs)[i] = refs[i + 1]
    BY <1>11, OccTail
  <2> QED BY <2>1, SlotIsAlive
<1>13. ASSUME NEW o
       PROVE  Occurrences(Tail(refs), o) =
                 Occurrences(b.positional, o) + Occurrences(Keys(Passed(k)), o)
                 + Occurrences(Values(Passed(k)), o) + Occurrences(Gone(k), o)
  <2> DEFINE tl == Occurrences(Tail(refs), o)
             iv == One(b.invocant, o)
             po == Occurrences(b.positional, o)
             ko == Occurrences(Keys(os), o)
             vo == Occurrences(Values(os), o)
             kn == Occurrences(Keys(ns), o)
             vn == Occurrences(Values(ns), o)
             kr == Occurrences(Keys(rest), o)
             vr == Occurrences(Values(rest), o)
             kv == Occurrences(Keys(over), o)
             vv == Occurrences(Values(over), o)
  <2>1. Occurrences(refs, o) = iv + tl /\ Tail(refs) \in Seq(Pointer)
    BY <1>11, OccTail
  <2>2. Occurrences(refs, o) = iv + po + ko + vo + kn + vn
    BY <1>1, CaptureReferences DEF os, ns
  <2>3. kn = kv + kr /\ vn = vv + vr
    BY <1>9
  <2>4. /\ tl \in Nat /\ iv \in Nat /\ po \in Nat /\ ko \in Nat /\ vo \in Nat /\ kn \in Nat /\ vn \in Nat
        /\ kr \in Nat /\ vr \in Nat /\ kv \in Nat /\ vv \in Nat
    BY <1>2, <1>7, <2>1, WhereFinite, OneIsNat
  <2>5. iv + tl = iv + po + ko + vo + kn + vn
    BY <2>1, <2>2
  <2>6. tl = po + (ko + kr) + (vo + vr) + (kv + vv)
    <3> HIDE DEF tl, iv, po, ko, vo, kn, vn, kr, vr, kv, vv
    <3> QED BY <2>3, <2>4, <2>5
  <2> QED BY <2>6, <1>10
<1>14. Gone(k) \in Seq(Pointer)
  <2>1. Keys(over) \in Seq(Pointer) /\ Values(over) \in Seq(Pointer)
    BY <1>7, PointerSets, SeqOfMore
  <2> HIDE DEF over
  <2>2. Keys(over) \o Values(over) \in Seq(Pointer)
    BY <2>1
  <2> QED BY <2>2, <1>3 DEF Gone
<1>17. Passed(k) \in NamedArgs(Item)
  BY <1>3, <1>6
<1>16. Tail(refs) \in Seq(Pointer)
  BY <1>11, OccTail
<1> QED BY <1>1, <1>2, <1>12, <1>13, <1>14, <1>16, <1>17

-----------------------------------------------------------------------------
(* Captures                                                                 *)

LEMMA StutterStep == IInv /\ UNCHANGED vars => IInv'
<1> SUFFICES ASSUME IInv, UNCHANGED vars PROVE IInv'
  OBVIOUS
<1>1. /\ heap' = heap /\ refCnt' = refCnt /\ held' = held /\ todo' = todo /\ chain' = chain
      /\ pending' = pending /\ lost' = lost /\ bound' = bound /\ client' = client
  BY DEF vars
<1>2. Typed' /\ PendingFits' /\ ChainFits' /\ BoundFits' /\ BindingsKept'
  BY <1>1 DEF IInv, Typed, PendingFits, ChainFits, BoundFits, BindingsKept
<1>3. \A o \in Object : ArrayFits(o)' /\ Linked(o)'
  BY <1>1 DEF IInv, ArrayFits, Linked
<1>4. CountsExact'
  <2>1. \A o : Owners(o)' = Owners(o)
    BY <1>1 DEF Owners, Referring, Slots, InHandler
  <2> QED BY <1>1, <2>1 DEF IInv, CountsExact
<1> QED BY <1>2, <1>3, <1>4 DEF IInv

LEMMA ArgumentsTyped ==
    ASSUME Typed, NEW invocant \in Counted \cup {IntptrCapture, NoObject},
           NEW args \in client.calls[Kind(invocant)]
    PROVE  args.positional \in Seq(Item) /\ args.named \in NamedArgs(Item)
<1>1. Kind(invocant) \in Kinds \cup {"free", "interpreter", "none"}
  <2>1. CASE invocant \in Object
    <3>1. heap[invocant] \in Body
      BY <2>1 DEF Typed
    <3> DEFINE kind == heap[invocant].kind
    <3>2. kind \in {"str", "array", "proxy", "hash", "bvalue", "scope", "capture", "free", "value"}
      BY <3>1, BodyOfKind
    <3>3. Kind(invocant) = kind
      BY <2>1, PointerSets DEF Kind
    <3> HIDE DEF kind
    <3> QED BY <3>2, <3>3 DEF Kinds
  <2>2. CASE invocant \notin Object
    BY <2>2 DEF Kind, Kinds
  <2> QED BY <2>1, <2>2
<1>2. client \in Clients
  BY DEF Typed
<1>3. /\ DOMAIN client.calls = Kinds \cup {"free", "interpreter", "none"}
      /\ \A a \in UNION Range(client.calls) :
            /\ a.positional \in Seq(Object \cup Id)
            /\ a.named \in Seq([key : Object \cup Id, value : Object \cup Id])
  BY <1>2, MessagesAssumption
<1>4. args \in UNION Range(client.calls)
  BY <1>1, <1>3 DEF Range
<1> QED BY <1>3, <1>4 DEF Item, NamedArgs

LEMMA AliveElement ==
    ASSUME NEW seq \in Seq(Pointer), AllAlive(seq), NEW x \in Object, Occurrences(seq, x) # 0
    PROVE  Alive(x)
BY OccAbsent DEF AllAlive, Alive

LEMMA ConcatAlive ==
    ASSUME NEW s \in Seq(Pointer), NEW t \in Seq(Pointer), AllAlive(s), AllAlive(t)
    PROVE  s \o t \in Seq(Pointer) /\ AllAlive(s \o t)
<1>1. s \o t \in Seq(Pointer)
  OBVIOUS
<1>2. ASSUME NEW i \in DOMAIN (s \o t), (s \o t)[i] \in Object PROVE Alive((s \o t)[i])
  <2> DEFINE st == s \o t
             x == st[i]
  <2>1. Occurrences(st, x) # 0
    BY <1>1, OccAbsent
  <2>2. Occurrences(st, x) = Occurrences(s, x) + Occurrences(t, x)
    BY OccConcat
  <2>3. Occurrences(s, x) \in Nat /\ Occurrences(t, x) \in Nat
    BY WhereFinite
  <2>4. x \in Object
    BY <1>2
  <2> HIDE DEF st, x
  <2>5. Occurrences(s, x) # 0 \/ Occurrences(t, x) # 0
    BY <2>1, <2>2, <2>3
  <2>6. Alive(x)
    BY <2>4, <2>5, AliveElement
  <2> QED BY <2>6 DEF x, st
<1> QED BY <1>1, <1>2 DEF AllAlive, Alive

LEMMA CaptureAlive ==
    ASSUME NEW invocant \in Counted \cup {IntptrCapture, NoObject}, Alive(invocant),
           NEW args, args.positional \in Seq(Item), AllAlive(args.positional),
           args.named \in NamedArgs(Item), AllAlive(Keys(args.named)), AllAlive(Values(args.named))
    PROVE  AllAlive(References(Capture(invocant, args)))
<1> DEFINE refs == References(Capture(invocant, args))
           keys == Keys(args.named)
           values == Values(args.named)
<1>1. /\ refs \in Seq(Pointer)
      /\ \A o : Occurrences(refs, o) = One(invocant, o) + Occurrences(args.positional, o)
                                       + Occurrences(keys, o) + Occurrences(values, o)
  BY CaptureFacts
<1>2. keys \in Seq(Pointer) /\ values \in Seq(Pointer) /\ args.positional \in Seq(Pointer)
  <2>1. keys \in Seq(Item) /\ values \in Seq(Item)
    BY NamedFacts
  <2> QED BY <2>1, PointerSets, SeqOfMore
<1>3. AllAlive(keys) /\ AllAlive(values)
  OBVIOUS
<1> HIDE DEF refs, keys, values
<1>4. ASSUME NEW x \in Object, Occurrences(refs, x) # 0 PROVE Alive(x)
  <2>1. /\ One(invocant, x) \in Nat /\ Occurrences(args.positional, x) \in Nat
        /\ Occurrences(keys, x) \in Nat /\ Occurrences(values, x) \in Nat
    BY <1>2, WhereFinite, OneIsNat
  <2>2. \/ One(invocant, x) # 0 \/ Occurrences(args.positional, x) # 0
        \/ Occurrences(keys, x) # 0 \/ Occurrences(values, x) # 0
    BY <1>1, <1>4, <2>1
  <2>3. One(invocant, x) # 0 => x = invocant
    BY DEF One
  <2> QED BY <1>2, <1>3, <2>2, <2>3, AliveElement
<1>5. ASSUME NEW i \in DOMAIN refs PROVE Alive(refs[i])
  <2>1. CASE refs[i] \in Object
    <3>1. Occurrences(refs, refs[i]) # 0
      BY <1>1, OccAbsent
    <3> QED BY <2>1, <3>1, <1>4
  <2> QED BY <2>1 DEF Alive
<1>6. AllAlive(refs)
  BY <1>5 DEF AllAlive
<1> QED BY <1>6 DEF refs

\* What a scope passes on
LEMMA DelegateFacts ==
    ASSUME IInv, NEW c \in Object, Receives(c, "scope"), Passed(c) = <<>>
    PROVE  /\ heap[capture_invocant(c)].entries \in Object
           /\ Alive(heap[capture_invocant(c)].entries)
           /\ heap[heap[capture_invocant(c)].entries].kind = "hash"
           /\ Delegate(c) \in CaptureBody /\ Delegate(c).positional = At(c).positional
           /\ References(Delegate(c)) \in Seq(Pointer) /\ AllAlive(References(Delegate(c)))
<1> DEFINE s == capture_invocant(c)
           body == Delegate(c)
           args == Arguments(At(c).positional, Passed(c))
<1>1. /\ Idle /\ s \in Object /\ heap[c].kind = "capture" /\ heap[s].kind = "scope"
  BY ReceiverFacts
<1>2. heap[s].entries \in Object /\ Alive(heap[s].entries) /\ heap[heap[s].entries].kind = "hash"
  <2>1. heap[s] \in Body
    BY <1>1, IdleFacts
  <2>2. heap[s] \in ScopeBody /\ References(heap[s]) = <<heap[s].entries, heap[s].outer>>
    BY <1>1, <2>1, BodyOfKind, ReferencesOf
  <2>3. 1 \in DOMAIN References(heap[s]) /\ References(heap[s])[1] = heap[s].entries
    BY <2>2
  <2>4. Alive(heap[s].entries)
    BY <1>1, <2>3, SlotIsAlive
  <2>5. Linked(s)
    BY <1>1 DEF IInv
  <2> QED BY <2>2, <2>4, <2>5, <1>1 DEF ScopeBody, Linked
<1>3. /\ args.positional = At(c).positional /\ args.named = Passed(c)
      /\ args.positional \in Seq(Item) /\ args.named \in NamedArgs(Item)
  BY <1>1, PassedFacts DEF Arguments
<1>4. AllAlive(args.positional)
  BY <1>1, <1>3, CaptureContents
<1>5. AllAlive(Keys(args.named)) /\ AllAlive(Values(args.named))
  BY <1>3 DEF AllAlive, Keys, Values
<1>6. body = Capture(heap[s].entries, args)
  BY DEF Delegate
<1>7. heap[s].entries \in Counted \cup {IntptrCapture, NoObject}
  BY <1>2, PointerSets
<1> HIDE DEF args, body, s
<1>8. /\ body \in CaptureBody /\ References(body) \in Seq(Pointer) /\ AllAlive(References(body))
  BY <1>2, <1>3, <1>4, <1>5, <1>6, <1>7, CaptureFacts, CaptureAlive
<1>9. body.positional = At(c).positional
  BY <1>3, <1>6 DEF Capture
<1> QED BY <1>2, <1>8, <1>9 DEF s, body

LEMMA ScopePassStep ==
    ASSUME IInv, NEW c \in Object, Receives(c, "scope"), NEW d \in Object, ScopePass(c, d)
    PROVE  IInv'
<1> DEFINE s == capture_invocant(c)
           body == Delegate(c)
           taken == <<s>> \o References(body)
<1>1. /\ Idle /\ c \in held /\ c \in Pointer /\ s \in Object /\ s \in Pointer /\ Alive(s)
  BY ReceiverFacts
<1>5. /\ heap[d].kind = "free" /\ Passed(c) = <<>> /\ heap' = Put(heap, d, body)
      /\ refCnt' = [Plus(refCnt, taken) EXCEPT ![d] = 1]
      /\ held' = (held \ {c}) \cup {d} /\ todo' = <<s, c>>
      /\ UNCHANGED <<chain, pending, lost, bound, client>>
  BY DEF ScopePass, Unused, Put
<1>9. /\ body \in CaptureBody /\ References(body) \in Seq(Pointer) /\ AllAlive(References(body))
  BY <1>5, DelegateFacts
<1> HIDE DEF body, s
<1>10. taken \in Seq(Pointer) /\ AllAlive(taken)
  <2>1. <<s>> \in Seq(Pointer) /\ AllAlive(<<s>>)
    BY <1>1, AliveTuples
  <2> QED BY <2>1, <1>9, ConcatAlive
<1>11. body \in Body /\ body.kind = "capture"
  BY <1>9 DEF Body, CaptureBody
<1>12. ArrayFits(d)' /\ Linked(d)'
  <2>1. heap'[d] = body
    BY <1>1, <1>5, IdleFacts DEF Put
  <2> QED BY <1>11, <2>1, FitsAnyway
<1>13. held \subseteq Object /\ lost \in [Counted -> Nat]
  BY DEF IInv, Typed
<1>14. BalancedNew(d, body, taken)
  <2> SUFFICES ASSUME NEW o \in Counted
               PROVE  Occurrences(taken, o) + One(d, o) + Held(o) + lost[o]
                        = Occurrences(References(body), o) + Held(o)' + Occurrences(todo', o) + lost'[o]
    BY DEF BalancedNew
  <2> DEFINE re == Occurrences(References(body), o)
  <2>1. Occurrences(taken, o) = One(s, o) + re
    <3>1. <<s>> \in Seq(Pointer)
      BY <1>1
    <3>2. Occurrences(<<s>> \o References(body), o)
             = Occurrences(<<s>>, o) + Occurrences(References(body), o)
      BY <3>1, <1>9, OccConcat
    <3> QED BY <3>2, OccOne
  <2>2. Occurrences(todo', o) = One(s, o) + One(c, o)
    BY <1>5, OccTwo
  <2>3. d \notin held /\ d # c
    BY <1>1, <1>5, FreeIsUnreferred
  <2>4. Held(o)' + One(c, o) = Held(o) + One(d, o)
    BY <1>1, <1>5, <2>3 DEF Held, One
  <2>5. /\ re \in Nat /\ One(s, o) \in Nat /\ One(c, o) \in Nat /\ One(d, o) \in Nat
        /\ Held(o) \in Nat /\ Held(o)' \in Nat /\ lost[o] \in Nat /\ lost'[o] = lost[o]
    BY <1>5, <1>9, <1>13, WhereFinite DEF Held, One
  <2> DEFINE he == Held(o)
             hen == Held(o)'
             os == One(s, o)
             oc == One(c, o)
             od == One(d, o)
             lo == lost[o]
  <2>6. os + re + od + he + lo = re + hen + (os + oc) + lo
    <3>1. hen + oc = he + od
      BY <2>4
    <3>2. /\ re \in Nat /\ os \in Nat /\ oc \in Nat /\ od \in Nat /\ he \in Nat /\ hen \in Nat /\ lo \in Nat
      BY <2>5
    <3> HIDE DEF re, he, hen, os, oc, od, lo
    <3> QED BY <3>1, <3>2
  <2> QED BY <2>1, <2>2, <2>5, <2>6
<1>15. held' \subseteq Object /\ todo' \in Seq(Pointer) /\ lost' \in [Counted -> Nat]
  BY <1>1, <1>5, <1>13
<1>16. body.kind # "free" /\ (body.kind = "hash" => body = Hash(<<>>))
  BY <1>11
<1> HIDE DEF taken
<1> QED BY <1>1, <1>5, <1>10, <1>11, <1>12, <1>14, <1>15, <1>16, NewStep

LEMMA ConcatCounts ==
    ASSUME NEW S, NEW s \in Seq(S), NEW t \in Seq(S), NEW u \in Seq(S), NEW v \in Seq(S), NEW o
    PROVE  /\ s \o t \o u \o v \in Seq(S)
           /\ Occurrences(s \o t \o u \o v, o) = Occurrences(s, o) + Occurrences(t, o)
                                                 + Occurrences(u, o) + Occurrences(v, o)
<1> DEFINE st == s \o t
           stu == st \o u
<1>1. st \in Seq(S) /\ stu \in Seq(S) /\ stu \o v \in Seq(S)
  OBVIOUS
<1>2. Occurrences(st, o) = Occurrences(s, o) + Occurrences(t, o)
  BY OccConcat
<1> HIDE DEF st
<1>3. Occurrences(stu, o) = Occurrences(st, o) + Occurrences(u, o)
  BY <1>1, OccConcat
<1> HIDE DEF stu
<1>4. Occurrences(stu \o v, o) = Occurrences(stu, o) + Occurrences(v, o)
  BY <1>1, OccConcat
<1>5. stu \o v = s \o t \o u \o v
  BY DEF st, stu
<1> HIDE DEF st, stu
<1>6. Occurrences(s \o t \o u \o v, o) = Occurrences(stu, o) + Occurrences(v, o)
  BY <1>4, <1>5
<1> QED BY <1>1, <1>2, <1>3, <1>5, <1>6

\* What the registers refer to is there.
LEMMA KnownIsAlive ==
    ASSUME IInv, Idle, NEW seq \in Seq(Pointer), Known(seq)
    PROVE  AllAlive(seq)
<1> SUFFICES ASSUME NEW i \in DOMAIN seq, seq[i] \in Object PROVE Alive(seq[i])
  BY DEF AllAlive, Alive
<1>1. seq[i] \in held
  BY DEF Known, Range
<1> QED BY <1>1, ReferredIsAlive

LEMMA CaptureCreateStep ==
    ASSUME IInv, NEW c \in Object, NEW invocant \in Counted \cup {IntptrCapture, NoObject},
           NEW args \in client.calls[Kind(invocant)], capture_create(c, invocant, args)
    PROVE  IInv'
<1> DEFINE keys == Keys(args.named)
           values == Values(args.named)
           refs == <<invocant>> \o args.positional \o keys \o values
           body == Capture(invocant, args)
<1>1. args.positional \in Seq(Item) /\ args.named \in NamedArgs(Item)
  BY ArgumentsTyped DEF IInv
<1>2. <<invocant>> \in Seq(Pointer) /\ args.positional \in Seq(Pointer)
      /\ keys \in Seq(Pointer) /\ values \in Seq(Pointer)
  <2>1. keys \in Seq(Item) /\ values \in Seq(Item)
    BY <1>1, NamedFacts
  <2>2. invocant \in Pointer
    BY PointerSets
  <2> QED BY <1>1, <2>1, <2>2, PointerSets, SeqOfMore
<1> HIDE DEF keys, values
<1>3. /\ refs \in Seq(Pointer)
      /\ \A o : Occurrences(refs, o) = One(invocant, o) + Occurrences(args.positional, o)
                                       + Occurrences(keys, o) + Occurrences(values, o)
  <2> DEFINE first == <<invocant>>
             positional == args.positional
  <2>1. \A o : /\ refs \in Seq(Pointer)
               /\ Occurrences(refs, o) = Occurrences(first, o) + Occurrences(positional, o)
                                         + Occurrences(keys, o) + Occurrences(values, o)
    <3> TAKE o
    <3>1. first \in Seq(Pointer) /\ positional \in Seq(Pointer)
      BY <1>2
    <3>2. refs = first \o positional \o keys \o values
      OBVIOUS
    <3> HIDE DEF refs, first, positional
    <3> QED BY <1>2, <3>1, <3>2, ConcatCounts
  <2> QED BY <2>1, OccOne
<1>4. Idle /\ heap[c].kind = "free" /\ Known(refs)
  BY DEF capture_create, Unused, keys, values
<1>5. AllAlive(refs)
  BY <1>3, <1>4, KnownIsAlive
<1>6. todo = <<>> /\ held \subseteq Object /\ lost \in [Counted -> Nat]
  BY <1>4, IdleFacts DEF IInv, Typed
<1>7. CASE UNCHANGED vars
  BY <1>7, StutterStep
<1>8. CASE /\ args = NoArguments /\ invocant = Interpreter
           /\ refCnt' = Plus(refCnt, refs) /\ todo' = <<Interpreter>>
           /\ UNCHANGED <<heap, held, chain, pending, lost, given, bound, client>>
  <2>1. BalancedPlain(refs)
    <3> SUFFICES ASSUME NEW o \in Counted
                 PROVE  Occurrences(refs, o) + Held(o) + lost[o]
                           = Held(o)' + Occurrences(todo', o) + lost'[o]
      BY DEF BalancedPlain
    <3>1. keys = <<>> /\ values = <<>> /\ args.positional = <<>>
      BY <1>8 DEF NoArguments, Arguments, keys, values, Keys, Values
    <3>2. Occurrences(refs, o) = One(Interpreter, o)
      BY <1>3, <1>8, <3>1, OccEmpty, OneIsNat
    <3>3. Occurrences(todo', o) = One(Interpreter, o)
      BY <1>8, OccOne
    <3>4. Held(o)' = Held(o) /\ lost'[o] = lost[o] /\ Held(o) \in Nat /\ lost[o] \in Nat
      BY <1>6, <1>8 DEF Held
    <3> QED BY <3>2, <3>3, <3>4, OneIsNat
  <2>2. todo' \in Seq(Pointer) /\ held' \subseteq Object /\ lost' \in [Counted -> Nat]
    <3>1. Interpreter \in Pointer
      BY PointerSets
    <3> QED BY <3>1, <1>6, <1>8
  <2> HIDE DEF refs
  <2> QED BY <1>3, <1>4, <1>5, <1>8, <2>1, <2>2, PlainStep
<1>9. CASE /\ heap' = Put(heap, c, body) /\ refCnt' = [Plus(refCnt, refs) EXCEPT ![c] = 1]
           /\ held' = held \cup {c} /\ UNCHANGED <<todo, chain, pending, lost, bound, client>>
  <2>1. /\ body \in CaptureBody
        /\ \A o : Occurrences(References(body), o) =
                     One(invocant, o) + Occurrences(args.positional, o)
                     + Occurrences(keys, o) + Occurrences(values, o)
    BY <1>1, CaptureFacts DEF keys, values
  <2>2. body \in Body /\ body.kind = "capture"
    BY <2>1 DEF Body, CaptureBody
  <2> HIDE DEF body, refs
  <2>3. ArrayFits(c)' /\ Linked(c)'
    <3>1. heap'[c] = body
      BY <1>4, <1>9, IdleFacts DEF Put
    <3> QED BY <2>2, <3>1, FitsAnyway
  <2>4. BalancedNew(c, body, refs)
    <3> SUFFICES ASSUME NEW o \in Counted
                 PROVE  Occurrences(refs, o) + One(c, o) + Held(o) + lost[o]
                          = Occurrences(References(body), o) + Held(o)' + Occurrences(todo', o) + lost'[o]
      BY DEF BalancedNew
    <3>1. Occurrences(refs, o) = Occurrences(References(body), o) /\ Occurrences(todo', o) = 0
      BY <1>3, <1>6, <1>9, <2>1, OccEmpty
    <3>2. c \notin held
      BY <1>4, FreeIsUnreferred
    <3>3. Held(o)' = Held(o) + One(c, o)
      BY <1>9, <3>2 DEF Held, One
    <3>4. /\ Held(o) \in Nat /\ One(c, o) \in Nat /\ lost[o] \in Nat /\ lost'[o] = lost[o]
          /\ Occurrences(refs, o) \in Nat
      BY <1>3, <1>6, <1>9, WhereFinite DEF Held, One
    <3> QED BY <3>1, <3>3, <3>4
  <2>5. held' \subseteq Object /\ todo' \in Seq(Pointer) /\ lost' \in [Counted -> Nat]
    BY <1>6, <1>9
  <2>6. body.kind # "free" /\ (body.kind = "hash" => body = Hash(<<>>))
    BY <2>2
  <2> QED BY <1>3, <1>4, <1>5, <1>9, <2>2, <2>3, <2>4, <2>5, <2>6, NewStep
<1>10. \/ UNCHANGED vars
       \/ /\ args = NoArguments /\ invocant = Interpreter
          /\ refCnt' = Plus(refCnt, refs) /\ todo' = <<Interpreter>>
          /\ UNCHANGED <<heap, held, chain, pending, lost, given, bound, client>>
       \/ /\ heap' = Put(heap, c, body) /\ refCnt' = [Plus(refCnt, refs) EXCEPT ![c] = 1]
          /\ held' = held \cup {c} /\ UNCHANGED <<todo, chain, pending, lost, bound, client>>
  BY DEF capture_create, Put, keys, values
<1> HIDE DEF refs, body
<1> QED BY <1>7, <1>8, <1>9, <1>10

LEMMA CaptureDelegateStep ==
    ASSUME IInv, NEW c \in Object, NEW k \in Object, NEW invocant \in Counted,
           capture_delegate(c, invocant, k)
    PROVE  IInv'
<1> DEFINE args == Arguments(At(k).positional, Passed(k))
           both == <<invocant, k>>
           rest == Tail(References(At(k)))
           refs == both \o rest
           gone == Gone(k)
           body == Capture(invocant, args)
<1>1. /\ Idle /\ heap[c].kind = "free" /\ heap[k].kind = "capture" /\ Known(both)
      /\ lost' = Plus(lost, gone)
      /\ UNCHANGED <<chain, pending, bound, client>>
  BY DEF capture_delegate, Unused, Forgets, Gone
<1>2. /\ args.positional = At(k).positional /\ args.named = Passed(k)
      /\ args.positional \in Seq(Item) /\ args.named \in NamedArgs(Item)
      /\ gone \in Seq(Pointer) /\ rest \in Seq(Pointer) /\ AllAlive(rest)
      /\ \A o : Occurrences(rest, o) = Occurrences(args.positional, o)
                   + Occurrences(Keys(args.named), o) + Occurrences(Values(args.named), o)
                   + Occurrences(gone, o)
  BY <1>1, PassedFacts DEF Arguments
<1>3. both \in Seq(Pointer) /\ AllAlive(both) /\ k \in Pointer
  <2>1. both \in Seq(Pointer) /\ k \in Pointer
    BY PointerSets
  <2> QED BY <1>1, <2>1, KnownIsAlive
<1>4. /\ lost \in [Counted -> Nat] /\ held \subseteq Object /\ c \in Counted
      /\ lost' \in [Counted -> Nat]
      /\ \A o \in Counted : lost'[o] = lost[o] + Occurrences(gone, o)
  <2>1. lost \in [Counted -> Nat] /\ held \subseteq Object /\ c \in Counted
    BY PointerSets DEF IInv, Typed
  <2> HIDE DEF gone
  <2> QED BY <1>1, <1>2, <2>1, PlusOf
<1>5. \/ /\ args = NoArguments /\ invocant = Interpreter
         /\ refCnt' = [Plus(refCnt, refs) EXCEPT ![c] = 0]
         /\ todo' = <<k, Interpreter>> /\ UNCHANGED <<heap, held>>
      \/ /\ heap' = Put(heap, c, body) /\ refCnt' = [Plus(refCnt, refs) EXCEPT ![c] = 1]
         /\ held' = held \cup {c} /\ todo' = <<k>>
  BY DEF capture_delegate, Put
<1> HIDE DEF rest, both
<1>6. /\ refs \in Seq(Pointer) /\ AllAlive(refs)
      /\ \A o : Occurrences(refs, o) = One(invocant, o) + One(k, o) + Occurrences(rest, o)
  <2>1. \A o : Occurrences(refs, o) = Occurrences(both, o) + Occurrences(rest, o)
    BY <1>2, <1>3, OccConcat
  <2>2. \A o : Occurrences(both, o) = One(invocant, o) + One(k, o)
    BY OccTwo DEF both
  <2> QED BY <1>2, <1>3, <2>1, <2>2, ConcatAlive
<1> HIDE DEF refs, gone
<1>7. ASSUME NEW o \in Counted
      PROVE  /\ One(invocant, o) \in Nat /\ One(k, o) \in Nat /\ One(c, o) \in Nat
             /\ Held(o) \in Nat /\ lost[o] \in Nat
             /\ Occurrences(gone, o) \in Nat /\ Occurrences(args.positional, o) \in Nat
             /\ Occurrences(Keys(args.named), o) \in Nat /\ Occurrences(Values(args.named), o) \in Nat
  <2>1. Keys(args.named) \in Seq(Item) /\ Values(args.named) \in Seq(Item)
    BY <1>2, NamedFacts
  <2> QED BY <1>2, <1>4, <2>1, WhereFinite, OneIsNat DEF Held
<1>8. CASE /\ args = NoArguments /\ invocant = Interpreter
           /\ refCnt' = [Plus(refCnt, refs) EXCEPT ![c] = 0]
           /\ todo' = <<k, Interpreter>> /\ UNCHANGED <<heap, held>>
  <2>1. refCnt' = Plus(refCnt, refs)
    <3>1. Plus(refCnt, refs) \in [Counted -> Nat] /\ Plus(refCnt, refs)[c] = 0
      <4>1. refCnt[c] = 0 /\ Occurrences(refs, c) = 0
        BY <1>1, <1>6, FreeIsUnreferred, AliveTaken
      <4> QED BY <1>4, <1>6, <4>1, PlusCounts DEF IInv
    <3> QED BY <1>4, <1>8, <3>1
  <2>2. BalancedPlain(refs)
    <3> SUFFICES ASSUME NEW o \in Counted
                 PROVE  Occurrences(refs, o) + Held(o) + lost[o]
                           = Held(o)' + Occurrences(todo', o) + lost'[o]
      BY DEF BalancedPlain
    <3>1. args.positional = <<>> /\ Keys(args.named) = <<>> /\ Values(args.named) = <<>>
      BY <1>8 DEF NoArguments, Arguments, Keys, Values
    <3>2. Occurrences(rest, o) = Occurrences(gone, o)
      <4>1. Occurrences(gone, o) \in Nat
        BY <1>7
      <4>2. Occurrences(rest, o) = 0 + 0 + 0 + Occurrences(gone, o)
        BY <1>2, <3>1, OccEmpty
      <4> QED BY <4>1, <4>2
    <3>3. Occurrences(todo', o) = One(k, o) + One(invocant, o)
      BY <1>8, OccTwo
    <3>4. Held(o)' = Held(o)
      BY <1>8 DEF Held
    <3>5. Occurrences(refs, o) = One(invocant, o) + One(k, o) + Occurrences(gone, o)
      BY <1>6, <3>2
    <3> DEFINE oi == One(invocant, o)
               ok == One(k, o)
               go == Occurrences(gone, o)
               he == Held(o)
               lo == lost[o]
    <3>6. oi + ok + go + he + lo = he + (ok + oi) + (lo + go)
      <4>1. oi \in Nat /\ ok \in Nat /\ go \in Nat /\ he \in Nat /\ lo \in Nat
        BY <1>7
      <4> HIDE DEF oi, ok, go, he, lo
      <4> QED BY <4>1
    <3> QED BY <1>4, <3>3, <3>4, <3>5, <3>6
  <2>3. todo' \in Seq(Pointer) /\ held' \subseteq Object
    <3>1. Interpreter \in Pointer
      BY PointerSets
    <3> QED BY <3>1, <1>3, <1>4, <1>8
  <2> QED BY <1>1, <1>4, <1>6, <1>8, <2>1, <2>2, <2>3, PlainStep
<1>9. CASE /\ heap' = Put(heap, c, body) /\ refCnt' = [Plus(refCnt, refs) EXCEPT ![c] = 1]
           /\ held' = held \cup {c} /\ todo' = <<k>>
  <2>1. /\ body \in CaptureBody
        /\ \A o : Occurrences(References(body), o) =
                     One(invocant, o) + Occurrences(args.positional, o)
                     + Occurrences(Keys(args.named), o) + Occurrences(Values(args.named), o)
    <3> HIDE DEF args
    <3> QED BY <1>2, CaptureFacts
  <2>2. body \in Body /\ body.kind = "capture"
    BY <2>1 DEF Body, CaptureBody
  <2> HIDE DEF body, args
  <2>3. ArrayFits(c)' /\ Linked(c)'
    <3>1. heap'[c] = body
      BY <1>1, <1>9, IdleFacts DEF Put
    <3> QED BY <2>2, <3>1, FitsAnyway
  <2>4. BalancedNew(c, body, refs)
    <3> SUFFICES ASSUME NEW o \in Counted
                 PROVE  Occurrences(refs, o) + One(c, o) + Held(o) + lost[o]
                          = Occurrences(References(body), o) + Held(o)' + Occurrences(todo', o) + lost'[o]
      BY DEF BalancedNew
    <3>1. c \notin held
      BY <1>1, FreeIsUnreferred
    <3>2. Held(o)' = Held(o) + One(c, o)
      BY <1>9, <3>1 DEF Held, One
    <3>3. Occurrences(todo', o) = One(k, o)
      BY <1>9, OccOne
    <3> DEFINE oi == One(invocant, o)
               ok == One(k, o)
               oc == One(c, o)
               po == Occurrences(args.positional, o)
               ke == Occurrences(Keys(args.named), o)
               va == Occurrences(Values(args.named), o)
               go == Occurrences(gone, o)
               he == Held(o)
               lo == lost[o]
    <3>4. oi + ok + (po + ke + va + go) + oc + he + lo = oi + po + ke + va + (he + oc) + ok + (lo + go)
      <4>1. /\ oi \in Nat /\ ok \in Nat /\ oc \in Nat /\ po \in Nat /\ ke \in Nat /\ va \in Nat
            /\ go \in Nat /\ he \in Nat /\ lo \in Nat
        BY <1>7
      <4> HIDE DEF oi, ok, oc, po, ke, va, go, he, lo
      <4> QED BY <4>1
    <3>5. /\ Occurrences(refs, o) = oi + ok + (po + ke + va + go)
          /\ Occurrences(References(body), o) = oi + po + ke + va
      BY <1>2, <1>6, <2>1
    <3> QED BY <1>4, <3>2, <3>3, <3>4, <3>5
  <2>5. held' \subseteq Object /\ todo' \in Seq(Pointer)
    BY <1>3, <1>4, <1>9
  <2>6. body.kind # "free" /\ (body.kind = "hash" => body = Hash(<<>>))
    BY <2>2
  <2> QED BY <1>1, <1>4, <1>6, <1>9, <2>2, <2>3, <2>4, <2>5, <2>6, NewStep
<1> HIDE DEF body, args
<1> QED BY <1>5, <1>8, <1>9

\* g is h with b at a.
Replaced(h, a, b, g) ==
    /\ g \in [Object -> Body]
    /\ \A x \in Object : g[x] = IF x = a THEN b ELSE h[x]
    /\ \A o : InHeap(g, o) + Occurrences(References(h[a]), o)
                 = InHeap(h, o) + Occurrences(References(b), o)

LEMMA HeapPut ==
    ASSUME NEW h \in [Object -> Body], NEW a \in Object, NEW b \in Body
    PROVE  Replaced(h, a, b, Put(h, a, b))
<1>1. ASSUME NEW o
      PROVE  /\ Put(h, a, b) \in [Object -> Body]
             /\ \A x \in Object : Put(h, a, b)[x] = IF x = a THEN b ELSE h[x]
             /\ InHeap(Put(h, a, b), o) + Occurrences(References(h[a]), o)
                   = InHeap(h, o) + Occurrences(References(b), o)
  BY InHeapExcept
<1> QED BY <1>1 DEF Replaced

LEMMA NewScopeStep ==
    ASSUME IInv, NEW s \in Object, NEW entries \in Object, NEW outer \in Object,
           NewScope(s, entries, outer)
    PROVE  IInv'
<1> DEFINE h1 == Put(heap, s, Scope(entries, outer))
           h2 == Put(h1, entries, Hash(<<>>))
<1>1. s # entries /\ s # outer /\ entries # outer
  <2> DEFINE three == {s, entries, outer}
  <2>1. Cardinality(three) = 3
    BY DEF NewScope
  <2>2. \A x, y : Cardinality({x, y}) # 3
    <3> TAKE x, y
    <3>1. IsFiniteSet({x}) /\ Cardinality({x}) = 1
      BY FS_Singleton
    <3>2. Cardinality({x} \cup {y}) \in {1, 2}
      BY <3>1, FS_AddElement
    <3>3. {x, y} = {x} \cup {y}
      OBVIOUS
    <3> QED BY <3>2, <3>3
  <2>3. (s = entries => three = {s, outer}) /\ (s = outer => three = {s, entries})
        /\ (entries = outer => three = {s, entries})
    OBVIOUS
  <2> HIDE DEF three
  <2> QED BY <2>1, <2>2, <2>3
<1>2. /\ Idle
      /\ heap[s].kind = "free" /\ heap[entries].kind = "free" /\ heap[outer].kind = "free"
      /\ heap' = Put(h2, outer, Value)
      /\ refCnt' = [refCnt EXCEPT ![s] = 1, ![entries] = 1, ![outer] = 1]
      /\ held' = held \cup {s}
      /\ UNCHANGED <<todo, chain, pending, lost, bound, client>>
  <2>1. heap' = [heap EXCEPT ![s] = Scope(entries, outer), ![entries] = Hash(<<>>), ![outer] = Value]
    BY DEF NewScope
  <2>2. heap' = Put(h2, outer, Value)
    BY <2>1 DEF Put
  <2> QED BY <2>2 DEF NewScope, Unused
<1>3. /\ heap \in [Object -> Body] /\ refCnt \in [Counted -> Nat] /\ lost \in [Counted -> Nat]
      /\ held \subseteq Object /\ todo = <<>>
  BY <1>2, IdleFacts DEF IInv, Typed
<1>4. Scope(entries, outer) \in Body /\ Scope(entries, outer).kind = "scope"
      /\ References(Scope(entries, outer)) = <<entries, outer>>
  <2>1. Scope(entries, outer) \in ScopeBody /\ Scope(entries, outer).kind = "scope"
        /\ Scope(entries, outer).entries = entries /\ Scope(entries, outer).outer = outer
    BY DEF Scope, ScopeBody
  <2>2. Scope(entries, outer) \in Body
    BY <2>1 DEF Body
  <2> QED BY <2>1, <2>2, ReferencesOf
<1>5. /\ refCnt[s] = 0 /\ References(heap[s]) = <<>> /\ s \notin held
      /\ refCnt[entries] = 0 /\ References(heap[entries]) = <<>>
      /\ refCnt[outer] = 0 /\ References(heap[outer]) = <<>>
      /\ s \in Counted /\ entries \in Counted /\ outer \in Counted
  BY <1>2, FreeIsUnreferred
<1>6. /\ h1 \in [Object -> Body]
      /\ \A x \in Object : h1[x] = IF x = s THEN Scope(entries, outer) ELSE heap[x]
      /\ \A o : InHeap(h1, o) + 0 = InHeap(heap, o) + (One(entries, o) + One(outer, o))
  <2> DEFINE body == Scope(entries, outer)
  <2>1. body \in Body /\ h1 = Put(heap, s, body)
    BY <1>4
  <2>2. \A o : Occurrences(References(body), o) = One(entries, o) + One(outer, o)
    BY <1>4, OccTwo
  <2>3. \A o : Occurrences(References(heap[s]), o) = 0
    BY <1>5, OccEmpty
  <2> HIDE DEF h1, body
  <2>4. /\ h1 \in [Object -> Body] /\ \A x \in Object : h1[x] = IF x = s THEN body ELSE heap[x]
        /\ \A o : InHeap(h1, o) + Occurrences(References(heap[s]), o)
                     = InHeap(heap, o) + Occurrences(References(body), o)
    <3>1. Replaced(heap, s, body, h1)
      BY <1>3, <2>1, HeapPut
    <3> QED BY <3>1 DEF Replaced
  <2>5. \A o : InHeap(h1, o) + 0 = InHeap(heap, o) + (One(entries, o) + One(outer, o))
    BY <2>2, <2>3, <2>4
  <2> QED BY <2>4, <2>5 DEF body
<1> HIDE DEF h1
<1>8. /\ h2 \in [Object -> Body]
      /\ \A x \in Object : h2[x] = IF x = entries THEN Hash(<<>>) ELSE h1[x]
      /\ \A o : InHeap(h2, o) + 0 = InHeap(h1, o) + 0
  <2>1. References(h1[entries]) = <<>>
    BY <1>1, <1>5, <1>6
  <2>2. Hash(<<>>) \in Body /\ h2 = Put(h1, entries, Hash(<<>>)) /\ References(Hash(<<>>)) = <<>>
    BY SimpleBodies
  <2> HIDE DEF h2
  <2>3. /\ h2 \in [Object -> Body] /\ \A x \in Object : h2[x] = IF x = entries THEN Hash(<<>>) ELSE h1[x]
        /\ \A o : InHeap(h2, o) + Occurrences(References(h1[entries]), o)
                     = InHeap(h1, o) + Occurrences(References(Hash(<<>>)), o)
    <3>1. Replaced(h1, entries, Hash(<<>>), h2)
      BY <1>6, <2>2, HeapPut
    <3> QED BY <3>1 DEF Replaced
  <2> QED BY <2>1, <2>2, <2>3, OccEmpty
<1> HIDE DEF h2
<1>10. /\ heap' \in [Object -> Body]
       /\ \A x \in Object : heap'[x] = IF x = outer THEN Value ELSE h2[x]
       /\ \A o : InHeap(heap', o) + 0 = InHeap(h2, o) + 0
  <2>1. References(h2[outer]) = <<>>
    BY <1>1, <1>5, <1>6, <1>8
  <2>2. Value \in Body /\ References(Value) = <<>>
    BY SimpleBodies
  <2>3. /\ heap' \in [Object -> Body] /\ \A x \in Object : heap'[x] = IF x = outer THEN Value ELSE h2[x]
        /\ \A o : InHeap(heap', o) + Occurrences(References(h2[outer]), o)
                     = InHeap(h2, o) + Occurrences(References(Value), o)
    <3>1. Replaced(h2, outer, Value, heap')
      BY <1>2, <1>8, <2>2, HeapPut
    <3> QED BY <3>1 DEF Replaced
  <2> QED BY <2>1, <2>2, <2>3, OccEmpty
<1>11. /\ heap' \in [Object -> Body]
       /\ heap'[s] = Scope(entries, outer) /\ heap'[entries] = Hash(<<>>) /\ heap'[outer] = Value
       /\ \A x \in Object \ {s, entries, outer} : heap'[x] = heap[x]
  BY <1>1, <1>6, <1>8, <1>10
<1>12. /\ refCnt' \in [Counted -> Nat]
       /\ refCnt'[s] = 1 /\ refCnt'[entries] = 1 /\ refCnt'[outer] = 1
       /\ \A o \in Counted : refCnt'[o] = refCnt[o] + One(s, o) + One(entries, o) + One(outer, o)
  <2>1. refCnt' \in [Counted -> Nat]
    BY <1>2, <1>3
  <2>2. refCnt'[s] = 1 /\ refCnt'[entries] = 1 /\ refCnt'[outer] = 1
    BY <1>1, <1>2, <1>3, <1>5
  <2>3. ASSUME NEW o \in Counted
        PROVE  refCnt'[o] = refCnt[o] + One(s, o) + One(entries, o) + One(outer, o)
    <3>1. CASE o \in {s, entries, outer}
      BY <3>1, <2>2, <1>1, <1>5 DEF One
    <3>2. CASE o \notin {s, entries, outer}
      <4>1. refCnt'[o] = refCnt[o]
        BY <3>2, <1>2, <1>3
      <4> QED BY <4>1, <3>2, <1>3 DEF One
    <3> QED BY <3>1, <3>2
  <2> QED BY <2>1, <2>2, <2>3
<1>13. Typed'
  <2>1. Typed
    BY DEF IInv
  <2>2. <<>> \in Seq(Pointer)
    OBVIOUS
  <2> QED BY <1>2, <1>3, <1>11, <1>12, <2>1, <2>2, TypedNext
<1>14. ASSUME NEW o \in Counted PROVE Conserved(o)
  <2> DEFINE r == refCnt[o]
             ho == InHeap(heap, o)
             hn == InHeap(heap', o)
             he == Held(o)
             hen == Held(o)'
             os == One(s, o)
             oe == One(entries, o)
             oo == One(outer, o)
             lo == lost[o]
  <2>1. hn = ho + (oe + oo) /\ ho \in Nat /\ hn \in Nat
    <3>1. InHeap(heap, o) \in Nat /\ InHeap(h1, o) \in Nat /\ InHeap(h2, o) \in Nat /\ InHeap(heap', o) \in Nat
      BY <1>3, <1>6, <1>8, <1>11, SlotsOfType
    <3> QED BY <3>1, <1>6, <1>8, <1>10
  <2>2. hen = he + os
    BY <1>2, <1>5 DEF Held, One
  <2>3. /\ r \in Nat /\ he \in Nat /\ hen \in Nat /\ os \in Nat /\ oe \in Nat /\ oo \in Nat /\ lo \in Nat
    BY <1>3 DEF Held, One
  <2>4. (r + os + oe + oo) + ho + he + lo + 0 = r + hn + hen + 0 + 0 + 0 + lo
    <3> HIDE DEF r, ho, hn, he, hen, os, oe, oo, lo
    <3> QED BY <2>1, <2>2, <2>3
  <2>5. refCnt'[o] = r + os + oe + oo /\ Occurrences(todo', o) = 0 /\ lost'[o] = lo
    BY <1>2, <1>3, <1>12, OccEmpty
  <2>6. Masked(o)' = 0 /\ Occurrences(pending'.then, o) = 0 /\ One(pending'.value, o) = 0
    BY <1>2, NothingPending
  <2> QED BY <2>4, <2>5, <2>6 DEF Conserved
<1>15. ASSUME NEW x \in Object PROVE Stays(x) /\ Sound(x) /\ AliveIfCounted(x)
  <2>1. CASE x = s
    <3>1. heap'[x].kind = "scope" /\ heap'[x].entries = entries /\ heap'[entries].kind = "hash"
      BY <2>1, <1>11, SimpleBodies DEF Scope
    <3> QED BY <2>1, <3>1, <1>2, <1>12
        DEF Stays, Sound, AliveIfCounted, ArrayFits, Linked
  <2>2. CASE x = entries \/ x = outer
    <3>1. heap'[x].kind \in {"hash", "value"} /\ refCnt'[x] = 1 /\ heap[x].kind = "free"
      BY <2>2, <1>2, <1>11, <1>12, SimpleBodies
    <3>2. ArrayFits(x)' /\ Linked(x)'
      BY <3>1, FitsAnyway
    <3> QED BY <3>1, <3>2 DEF Stays, Sound, AliveIfCounted
  <2>3. CASE x \notin {s, entries, outer}
    <3>1. heap'[x] = heap[x] /\ x \in Counted
      BY <2>3, <1>11, PointerSets
    <3>2. refCnt'[x] = refCnt[x] + Occurrences(<<>>, x)
      <4>1. One(s, x) = 0 /\ One(entries, x) = 0 /\ One(outer, x) = 0
        BY <2>3 DEF One
      <4> QED BY <4>1, <3>1, <1>3, <1>12, OccEmpty
    <3>3. <<>> \in Seq(Pointer) /\ AllAlive(<<>>)
      BY DEF AllAlive
    <3>4. AliveIfCounted(x)
      BY <1>2, <3>1, <3>2, <3>3, AliveNext
    <3> QED BY <3>1, <3>4 DEF Stays, Sound
  <2> QED BY <2>1, <2>2, <2>3
<1>16. BoundFits' /\ BindingsKept'
  <2>1. \A h \in Object :
           \/ heap'[h] = heap[h]
           \/ heap[h].kind = "free" /\ heap'[h] = Hash(<<>>)
           \/ heap[h].kind # "hash" /\ heap'[h].kind # "hash"
    BY <1>2, <1>4, <1>11, SimpleBodies
  <2> QED BY <1>2, <2>1, BindingsSame
<1> QED BY <1>2, <1>13, <1>14, <1>15, <1>16, NothingPending, IdleStep

-----------------------------------------------------------------------------
(* Code that changes one object                                             *)

\* Every reference made, and every one that was in the object, has an owner.
BalancedChange(a, body, taken) ==
    \A o \in Counted :
        Occurrences(taken, o) + Occurrences(References(heap[a]), o) + Held(o) + Masked(o)'
            = Occurrences(References(body), o) + Held(o)' + Occurrences(todo', o)
              + Occurrences(pending'.then, o) + One(pending'.value, o)

\* The same for a handler that may forget references
BalancedChangeBut(a, body, taken) ==
    \A o \in Counted :
        Occurrences(taken, o) + Occurrences(References(heap[a]), o) + Held(o) + Masked(o)' + lost[o]
            = Occurrences(References(body), o) + Held(o)' + Occurrences(todo', o)
              + Occurrences(pending'.then, o) + One(pending'.value, o) + lost'[o]

LEMMA ChangeButStep ==
    ASSUME IInv, Idle, NEW a \in Object, heap[a].kind # "free",
           NEW body \in Body, body.kind = heap[a].kind,
           NEW taken \in Seq(Pointer), AllAlive(taken),
           heap' = Put(heap, a, body), refCnt' = Plus(refCnt, taken),
           ArrayFits(a)', Linked(a)', Typed', PendingFits', BoundFits', BindingsKept',
           BalancedChangeBut(a, body, taken), chain' = chain
    PROVE  IInv'
<1>1. Typed /\ heap \in [Object -> Body] /\ lost \in [Counted -> Nat]
  BY DEF IInv, Typed
<1>2. /\ heap' \in [Object -> Body]
      /\ \A x \in Object : heap'[x] = IF x = a THEN body ELSE heap[x]
      /\ \A o : InHeap(heap', o) + Occurrences(References(heap[a]), o)
                   = InHeap(heap, o) + Occurrences(References(body), o)
  <2>1. Replaced(heap, a, body, heap')
    BY <1>1, HeapPut
  <2> QED BY <2>1 DEF Replaced
<1>3. \A o \in Counted : refCnt'[o] = refCnt[o] + Occurrences(taken, o)
  BY <1>1, PlusCounts
<1>4. ASSUME NEW o \in Counted PROVE Conserved(o)
  <2> DEFINE r == refCnt[o]
             ho == InHeap(heap, o)
             hn == InHeap(heap', o)
             ta == Occurrences(taken, o)
             ra == Occurrences(References(heap[a]), o)
             rb == Occurrences(References(body), o)
             td == Occurrences(todo', o)
             th == Occurrences(pending'.then, o)
             va == One(pending'.value, o)
             ma == Masked(o)'
             he == Held(o)
             hen == Held(o)'
             lo == lost[o]
             lon == lost'[o]
  <2>1. ta + ra + he + ma + lo = rb + hen + td + th + va + lon
    BY DEF BalancedChangeBut
  <2>2. hn + ra = ho + rb
    BY <1>2
  <2>3. /\ r \in Nat /\ ho \in Nat /\ hn \in Nat /\ ta \in Nat /\ ra \in Nat /\ rb \in Nat /\ td \in Nat
        /\ th \in Nat /\ va \in Nat /\ ma \in Nat /\ he \in Nat /\ hen \in Nat /\ lo \in Nat
        /\ lon \in Nat
    <3>1. References(body) \in Seq(Pointer) /\ References(heap[a]) \in Seq(Pointer)
      BY <1>1, ReferencesOf
    <3>2. todo' \in Seq(Pointer) /\ pending'.then \in Seq(Pointer)
      BY DEF Typed, PendingType
    <3>3. ma \in Nat /\ he \in Nat /\ hen \in Nat /\ va \in Nat
      BY DEF Masked, Held, One
    <3>4. lost' \in [Counted -> Nat]
      BY DEF Typed
    <3> QED BY <3>1, <3>2, <3>3, <3>4, <1>1, <1>2, IdleFacts, WhereFinite, SlotsOfType
  <2>4. refCnt'[o] = r + ta
    BY <1>3
  <2>5. r + ta + ho + he + lo + ma = r + hn + hen + td + th + va + lon
    <3> HIDE DEF r, ho, hn, ta, ra, rb, td, th, va, ma, he, hen, lo, lon
    <3> QED BY <2>1, <2>2, <2>3
  <2> QED BY <2>4, <2>5 DEF Conserved
<1>5. ASSUME NEW x \in Object PROVE Stays(x) /\ Sound(x) /\ AliveIfCounted(x)
  <2>1. Stays(x) /\ Sound(x)
    BY <1>2 DEF Stays, Sound
  <2>2. AliveIfCounted(x)
    <3>1. x \in Counted /\ (heap'[x].kind = "free" <=> heap[x].kind = "free")
      BY <1>2, PointerSets
    <3>2. refCnt'[x] = refCnt[x] + Occurrences(taken, x)
      BY <1>3, <3>1
    <3> QED BY <3>1, <3>2, AliveNext
  <2> QED BY <2>1, <2>2
<1> QED BY <1>4, <1>5, IdleStep

LEMMA ChangeStep ==
    ASSUME IInv, Idle, NEW a \in Object, heap[a].kind # "free",
           NEW body \in Body, body.kind = heap[a].kind,
           NEW taken \in Seq(Pointer), AllAlive(taken),
           heap' = Put(heap, a, body), refCnt' = Plus(refCnt, taken),
           ArrayFits(a)', Linked(a)', Typed', PendingFits', BoundFits', BindingsKept',
           BalancedChange(a, body, taken), UNCHANGED <<chain, lost>>
    PROVE  IInv'
<1>1. BalancedChangeBut(a, body, taken)
  BY DEF BalancedChange, BalancedChangeBut
<1> QED BY <1>1, ChangeButStep

-----------------------------------------------------------------------------
(* Arrays                                                                   *)

\* The new slots are NULL and refer to nothing.
Resized(content, size, new) ==
    /\ new \in Seq(Item \cup {NoObject})
    /\ Len(new) = IF size > Len(content) THEN size ELSE Len(content)
    /\ \A i \in 1 .. Len(new) : new[i] = IF i <= Len(content) THEN content[i] ELSE NoObject
    /\ \A o \in Counted : Occurrences(new, o) = Occurrences(content, o)

LEMMA ResizeFacts ==
    ASSUME NEW content \in Seq(Item \cup {NoObject}), NEW size \in Nat
    PROVE  Resized(content, size, resize_array(content, size))
<1>1. CASE ~(size > Len(content))
  BY <1>1 DEF Resized, resize_array
<1>2. CASE size > Len(content)
  <2> DEFINE pad == [i \in 1 .. size - Len(content) |-> NoObject]
             new == content \o pad
  <2>1. pad \in Seq(Item \cup {NoObject}) /\ Len(pad) = size - Len(content) /\ Len(content) \in Nat
        /\ \A i \in 1 .. size - Len(content) : pad[i] = NoObject
    <3>1. Len(content) \in Nat /\ size - Len(content) \in Nat
      BY <1>2
    <3> QED BY <3>1
  <2>2. \A o \in Counted : Occurrences(pad, o) = 0
    <3> TAKE o \in Counted
    <3>1. \A i \in DOMAIN pad : pad[i] # o
      BY PointerSets
    <3> HIDE DEF pad
    <3> QED BY <3>1, <2>1, OccAbsent
  <2> HIDE DEF pad
  <2>3. /\ new \in Seq(Item \cup {NoObject}) /\ Len(new) = size
        /\ \A i \in 1 .. size : new[i] = IF i <= Len(content) THEN content[i] ELSE NoObject
    <3>1. new \in Seq(Item \cup {NoObject}) /\ Len(new) = Len(content) + Len(pad)
      BY <2>1
    <3>2. Len(new) = size
      BY <2>1, <3>1
    <3>3. \A i \in 1 .. size : new[i] = IF i <= Len(content) THEN content[i] ELSE pad[i - Len(content)]
      BY <2>1
    <3> QED BY <2>1, <3>1, <3>2, <3>3
  <2>4. \A o \in Counted : Occurrences(new, o) = Occurrences(content, o)
    <3> TAKE o \in Counted
    <3>1. Occurrences(new, o) = Occurrences(content, o) + Occurrences(pad, o)
      BY <2>1, OccConcat
    <3>2. Occurrences(content, o) \in Nat
      BY WhereFinite
    <3> QED BY <2>2, <3>1, <3>2
  <2>5. resize_array(content, size) = new
    BY <1>2 DEF resize_array, pad
  <2> QED BY <1>2, <2>3, <2>4, <2>5 DEF Resized
<1> QED BY <1>1, <1>2

LEMMA ArrayFacts ==
    ASSUME IInv, NEW a \in Object, heap[a].kind = "array"
    PROVE  /\ heap[a].content \in Seq(Item \cup {NoObject}) /\ heap[a].elems \in Nat
           /\ Len(heap[a].content) \in Nat
           /\ Len(heap[a].content) <= MaxElems /\ heap[a].elems <= Len(heap[a].content)
           /\ \A i \in heap[a].elems + 1 .. Len(heap[a].content) : heap[a].content[i] = NoObject
           /\ References(heap[a]) = heap[a].content
<1>1. heap[a] \in Body /\ ArrayFits(a)
  BY DEF IInv, Typed
<1>2. heap[a] \in ArrayBody /\ References(heap[a]) = heap[a].content
  BY <1>1, BodyOfKind, ReferencesOf
<1>3. heap[a].content \in Seq(Item \cup {NoObject}) /\ heap[a].elems \in Nat
  BY <1>2 DEF ArrayBody
<1> QED BY <1>1, <1>2, <1>3 DEF ArrayFits

LEMMA ArrayOf ==
    ASSUME NEW content \in Seq(Item \cup {NoObject}), NEW elems \in Nat
    PROVE  /\ Array(content, elems) \in Body /\ Array(content, elems).kind = "array"
           /\ Array(content, elems).content = content /\ Array(content, elems).elems = elems
           /\ References(Array(content, elems)) = content
<1>1. /\ Array(content, elems) \in ArrayBody /\ Array(content, elems).kind = "array"
      /\ Array(content, elems).content = content /\ Array(content, elems).elems = elems
  BY DEF Array, ArrayBody
<1>2. Array(content, elems) \in Body
  BY <1>1 DEF Body
<1> QED BY <1>1, <1>2, ReferencesOf

\* An array takes over one more reference, the first argument.
LEMMA InsertStep ==
    ASSUME IInv, NEW c \in Object, Receives(c, "array"),
           NEW a, a = capture_invocant(c), NEW value, value = capture_positional(c, 0),
           NEW content \in Seq(Item \cup {NoObject}), NEW elems \in Nat,
           Len(content) <= MaxElems, elems <= Len(content),
           \A i \in elems + 1 .. Len(content) : content[i] = NoObject,
           \A o \in Counted : Occurrences(content, o) = Occurrences(heap[a].content, o) + One(value, o),
           heap' = Put(heap, a, Array(content, elems)),
           Replies(c, <<a, value>>, NoObject, <<a, c>>),
           UNCHANGED <<chain, pending, lost, bound, client>>
    PROVE  IInv'
<1> DEFINE body == Array(content, elems)
           taken == <<a, value>>
           released == <<a, c>>
<1>1. /\ Idle /\ c \in held /\ c \in Pointer /\ Alive(c) /\ a \in Object /\ a \in Pointer /\ Alive(a)
      /\ heap[c].kind = "capture" /\ heap[a].kind = "array"
  BY ReceiverFacts
<1>2. value \in Pointer /\ Alive(value)
  BY <1>1, PositionalIsAlive
<1>3. \A o \in Counted : Occurrences(content, o) = Occurrences(heap[a].content, o) + One(value, o)
  OBVIOUS
<1>4. /\ body \in Body /\ body.kind = "array" /\ body.content = content /\ body.elems = elems
      /\ References(body) = content
  BY ArrayOf
<1>5. /\ heap[a].content \in Seq(Item \cup {NoObject}) /\ References(heap[a]) = heap[a].content
  BY <1>1, ArrayFacts
<1>6. /\ heap' = Put(heap, a, body) /\ refCnt' = Plus(refCnt, taken)
      /\ Replies(c, taken, NoObject, released)
  BY DEF Replies
<1>7. /\ Typed /\ heap \in [Object -> Body] /\ lost \in [Counted -> Nat] /\ NoObject \in Pointer
  BY PointerSets DEF IInv, Typed
<1> HIDE DEF body
<1>8. taken \in Seq(Pointer) /\ AllAlive(taken) /\ released \in Seq(Pointer)
  BY <1>1, <1>2, AliveTuples
<1>9. /\ held' \subseteq Object /\ todo' \in Seq(Pointer)
      /\ \A o \in Counted : Held(o)' + Occurrences(todo', o) + One(c, o)
                               = Held(o) + Occurrences(released, o) + One(NoObject, o)
  <2> HIDE DEF taken, released
  <2> QED BY <1>1, <1>6, <1>7, <1>8, RepliesHeld
<1>10. heap' \in [Object -> Body] /\ \A x \in Object : heap'[x] = IF x = a THEN body ELSE heap[x]
  <2>1. Replaced(heap, a, body, heap')
    BY <1>1, <1>4, <1>6, <1>7, HeapPut
  <2> QED BY <2>1 DEF Replaced
<1>11. Typed'
  <2>1. refCnt' \in [Counted -> Nat]
    BY <1>6, <1>7, <1>8, PlusCounts
  <2> QED BY <2>1, <1>7, <1>9, <1>10, TypedNext
<1>12. ArrayFits(a)' /\ Linked(a)'
  <2>1. heap'[a].kind = "array" /\ heap'[a].content = content /\ heap'[a].elems = elems
    BY <1>1, <1>4, <1>10
  <2>2. ArrayFits(a)'
    BY <2>1 DEF ArrayFits
  <2>3. Linked(a)'
    BY <2>1 DEF Linked
  <2> QED BY <2>2, <2>3
<1>13. BalancedChange(a, body, taken)
  <2> SUFFICES ASSUME NEW o \in Counted
               PROVE  Occurrences(taken, o) + Occurrences(References(heap[a]), o) + Held(o) + Masked(o)'
                        = Occurrences(References(body), o) + Held(o)' + Occurrences(todo', o)
                          + Occurrences(pending'.then, o) + One(pending'.value, o)
    BY DEF BalancedChange
  <2> DEFINE oa == One(a, o)
             ov == One(value, o)
             oc == One(c, o)
             re == Occurrences(heap[a].content, o)
             td == Occurrences(todo', o)
             he == Held(o)
             hen == Held(o)'
  <2>1. hen + td + oc = he + (oa + oc) + 0
    BY <1>9, OccTwo, NoOneIsNull
  <2>2. /\ oa \in Nat /\ ov \in Nat /\ oc \in Nat /\ re \in Nat /\ td \in Nat /\ he \in Nat /\ hen \in Nat
    BY <1>5, <1>9, WhereFinite DEF Held, One
  <2>3. oa + ov + re + he + 0 = (re + ov) + hen + td + 0 + 0
    <3> HIDE DEF oa, ov, oc, re, td, he, hen
    <3> QED BY <2>1, <2>2
  <2>4. Masked(o)' = 0 /\ Occurrences(pending'.then, o) = 0 /\ One(pending'.value, o) = 0
    BY <1>1, NothingPending
  <2>5. /\ Occurrences(taken, o) = oa + ov
        /\ Occurrences(References(heap[a]), o) = re /\ Occurrences(References(body), o) = re + ov
    BY <1>3, <1>4, <1>5, OccTwo
  <2> QED BY <2>3, <2>4, <2>5
<1>14. BoundFits' /\ BindingsKept'
  <2>1. \A h \in Object :
           \/ heap'[h] = heap[h]
           \/ heap[h].kind = "free" /\ heap'[h] = Hash(<<>>)
           \/ heap[h].kind # "hash" /\ heap'[h].kind # "hash"
    BY <1>1, <1>4, <1>10
  <2> QED BY <2>1, BindingsSame
<1>15. heap[a].kind # "free" /\ body.kind = heap[a].kind
  BY <1>1, <1>4
<1>16. PendingFits' /\ UNCHANGED <<chain, lost>>
  BY <1>1, NothingPending
<1> HIDE DEF taken
<1> QED BY <1>1, <1>4, <1>6, <1>8, <1>11, <1>12, <1>13, <1>14, <1>15, <1>16, ChangeStep

LEMMA PutInSeq ==
    ASSUME NEW S, NEW seq \in Seq(S), NEW i \in DOMAIN seq, NEW x \in S
    PROVE  Put(seq, i, x) \in Seq(S) /\ Len(Put(seq, i, x)) = Len(seq)
BY DEF Put

LEMMA PushStep ==
    ASSUME IInv, NEW c \in Object, Receives(c, "array"), Push(c)
    PROVE  IInv'
<1> PICK a : a = capture_invocant(c)
  OBVIOUS
<1> PICK value : value = capture_positional(c, 0)
  OBVIOUS
<1> DEFINE old == heap[a].content
           n == heap[a].elems
           room == resize_array(old, n + 1)
           content == [room EXCEPT ![n + 1] = value]
<1>1. /\ Idle /\ a \in Object /\ heap[c].kind = "capture" /\ heap[a].kind = "array"
  BY ReceiverFacts
<1>2. value \in Item \cup {NoObject} /\ NoObject \in Item \cup {NoObject}
  BY <1>1, PositionalIsAlive
<1>3. /\ old \in Seq(Item \cup {NoObject}) /\ n \in Nat /\ Len(old) \in Nat
      /\ Len(old) <= MaxElems /\ n <= Len(old)
      /\ \A i \in n + 1 .. Len(old) : old[i] = NoObject
  BY <1>1, ArrayFacts
<1>4. n < MaxElems /\ MaxElems \in Nat
  BY MessagesAssumption DEF Push
<1> HIDE DEF old, n
<1>5. Resized(old, n + 1, room)
  <2>1. n + 1 \in Nat
    BY <1>3
  <2> QED BY <2>1, <1>3, ResizeFacts
<1> HIDE DEF room
<1>6. /\ room \in Seq(Item \cup {NoObject}) /\ Len(room) \in Nat /\ Len(room) <= MaxElems
      /\ n + 1 <= Len(room)
      /\ \A i \in n + 1 .. Len(room) : room[i] = NoObject
      /\ \A o \in Counted : Occurrences(room, o) = Occurrences(old, o)
  BY <1>3, <1>4, <1>5 DEF Resized
<1>7. /\ content \in Seq(Item \cup {NoObject}) /\ Len(content) = Len(room)
      /\ \A i \in n + 2 .. Len(content) : content[i] = NoObject
  <2>1. n + 1 \in DOMAIN room /\ DOMAIN room = 1 .. Len(room)
    BY <1>3, <1>6
  <2>2. content \in Seq(Item \cup {NoObject}) /\ Len(content) = Len(room)
    BY <2>1, <1>2, <1>6, PutInSeq DEF Put
  <2>3. \A i \in n + 2 .. Len(room) : content[i] = room[i]
    BY <1>3, <1>6, <2>1
  <2> QED BY <2>2, <2>3, <1>3, <1>6
<1>8. \A o \in Counted : Occurrences(content, o) = Occurrences(old, o) + One(value, o)
  <2> TAKE o \in Counted
  <2>1. n + 1 \in DOMAIN room /\ room[n + 1] = NoObject
    BY <1>3, <1>6
  <2>2. Occurrences(content, o) + One(room[n + 1], o) = Occurrences(room, o) + One(value, o)
    BY <2>1, <1>2, <1>6, OccExcept
  <2>3. One(room[n + 1], o) = 0
    BY <2>1, NoOneIsNull
  <2>4. Occurrences(content, o) \in Nat
    BY <1>7, WhereFinite
  <2> QED BY <2>2, <2>3, <2>4, <1>6
<1>9. /\ heap' = Put(heap, a, Array(content, n + 1))
      /\ Replies(c, <<a, value>>, NoObject, <<a, c>>)
      /\ UNCHANGED <<chain, pending, lost, bound, client>>
  BY DEF Push, Put, room, n, old
<1> HIDE DEF content
<1>10. /\ n + 1 \in Nat /\ Len(content) <= MaxElems /\ n + 1 <= Len(content)
       /\ \A i \in (n + 1) + 1 .. Len(content) : content[i] = NoObject
  <2>1. (n + 1) + 1 = n + 2
    BY <1>3
  <2> QED BY <2>1, <1>3, <1>6, <1>7
<1>11. \A o \in Counted : Occurrences(content, o) = Occurrences(heap[a].content, o) + One(value, o)
  BY <1>8 DEF old
<1> QED BY <1>7, <1>9, <1>10, <1>11, InsertStep

\* The front of a sequence grows by one element.
LEMMA OccGrows ==
    ASSUME NEW S, NEW seq \in Seq(S), NEW n \in Nat, n + 1 \in DOMAIN seq, NEW o
    PROVE  /\ seq[n + 1] \in S
           /\ Occurrences(SubSeq(seq, 1, n + 1), o) = Occurrences(SubSeq(seq, 1, n), o) + One(seq[n + 1], o)
<1> DEFINE front == SubSeq(seq, 1, n)
           more == SubSeq(seq, 1, n + 1)
           x == seq[n + 1]
<1>1. /\ Len(seq) \in Nat /\ n + 1 \in 1 .. Len(seq) /\ n \in 0 .. Len(seq) /\ n + 1 \in 0 .. Len(seq)
      /\ x \in S
  OBVIOUS
<1>2. /\ front \in Seq(S) /\ Len(front) = n /\ \A i \in 1 .. n : front[i] = seq[i]
  <2>1. 1 \in Nat /\ 1 > 0
    OBVIOUS
  <2>2. /\ front \in Seq(S)
        /\ Len(front) = IF 1 <= n THEN n - 1 + 1 ELSE 0
        /\ \A i \in 1 .. Len(front) : front[i] = seq[1 + i - 1] /\ 1 + i - 1 \in 1 .. Len(seq)
    BY <1>1, <2>1, PartOf
  <2> HIDE DEF front
  <2>3. Len(front) = n
    BY <2>2
  <2>4. \A i \in 1 .. n : 1 + i - 1 = i
    OBVIOUS
  <2> QED BY <2>2, <2>3, <2>4
<1>3. /\ more \in Seq(S) /\ Len(more) = n + 1 /\ \A i \in 1 .. n + 1 : more[i] = seq[i]
  <2>1. 1 \in Nat /\ 1 > 0
    OBVIOUS
  <2>2. /\ more \in Seq(S)
        /\ Len(more) = IF 1 <= n + 1 THEN n + 1 - 1 + 1 ELSE 0
        /\ \A i \in 1 .. Len(more) : more[i] = seq[1 + i - 1] /\ 1 + i - 1 \in 1 .. Len(seq)
    BY <1>1, <2>1, PartOf
  <2> HIDE DEF more
  <2>3. Len(more) = n + 1
    BY <2>2
  <2>4. \A i \in 1 .. n + 1 : 1 + i - 1 = i
    OBVIOUS
  <2> QED BY <2>2, <2>3, <2>4
<1> HIDE DEF front, more, x
<1>4. more = Append(front, x)
  <2>1. Append(front, x) \in Seq(S) /\ Len(Append(front, x)) = n + 1
    BY <1>1, <1>2
  <2>2. \A i \in 1 .. n + 1 : Append(front, x)[i] = more[i]
    <3> TAKE i \in 1 .. n + 1
    <3>1. CASE i <= n
      <4>1. i \in 1 .. n /\ Append(front, x)[i] = front[i]
        BY <3>1, <1>2
      <4> QED BY <4>1, <1>2, <1>3
    <3>2. CASE ~(i <= n)
      <4>1. i = n + 1
        BY <3>2
      <4>2. Append(front, x)[i] = x
        BY <4>1, <1>2
      <4> QED BY <4>1, <4>2, <1>3 DEF x
    <3> QED BY <3>1, <3>2
  <2> QED BY <2>1, <2>2, <1>3, SeqEqual
<1>5. Occurrences(more, o) = Occurrences(front, o) + One(x, o)
  BY <1>1, <1>2, <1>4, OccAppend
<1> QED BY <1>1, <1>5 DEF front, more, x

LEMMA UnshiftStep ==
    ASSUME IInv, NEW c \in Object, Receives(c, "array"), Unshift(c)
    PROVE  IInv'
<1> PICK a : a = capture_invocant(c)
  OBVIOUS
<1> PICK value : value = capture_positional(c, 0)
  OBVIOUS
<1> DEFINE old == heap[a].content
           n == heap[a].elems
           S == Item \cup {NoObject}
           room == resize_array(old, n + 1)
           first == <<value>>
           front == SubSeq(room, 1, n)
           back == SubSeq(room, n + 2, Len(room))
           both == first \o front
           content == both \o back
<1>1. /\ Idle /\ a \in Object /\ heap[c].kind = "capture" /\ heap[a].kind = "array"
  BY ReceiverFacts
<1>2. value \in S /\ NoObject \in S
  BY <1>1, PositionalIsAlive
<1>3. /\ old \in Seq(S) /\ n \in Nat /\ Len(old) \in Nat
      /\ Len(old) <= MaxElems /\ n <= Len(old)
      /\ \A i \in n + 1 .. Len(old) : old[i] = NoObject
  BY <1>1, ArrayFacts
<1>4. n < MaxElems /\ MaxElems \in Nat
  BY MessagesAssumption DEF Unshift
<1> HIDE DEF old, n
<1>5. Resized(old, n + 1, room)
  <2>1. n + 1 \in Nat
    BY <1>3
  <2> QED BY <2>1, <1>3, ResizeFacts
<1> HIDE DEF room
<1>6. /\ room \in Seq(S) /\ Len(room) \in Nat /\ Len(room) <= MaxElems
      /\ n + 1 <= Len(room)
      /\ \A i \in n + 1 .. Len(room) : room[i] = NoObject
      /\ \A o \in Counted : Occurrences(room, o) = Occurrences(old, o)
  BY <1>3, <1>4, <1>5 DEF Resized
<1>7. /\ heap' = Put(heap, a, Array(content, n + 1))
      /\ Replies(c, <<a, value>>, NoObject, <<a, c>>)
      /\ UNCHANGED <<chain, pending, lost, bound, client>>
  BY DEF Unshift, Put, room, n, old
<1> HIDE DEF S
<1>8. front \in Seq(S) /\ Len(front) = n
  <2>1. n \in 0 .. Len(room) /\ 1 \in Nat /\ 1 > 0
    BY <1>3, <1>6
  <2>2. front \in Seq(S) /\ Len(front) = IF 1 <= n THEN n - 1 + 1 ELSE 0
    BY <1>6, <2>1, PartOf
  <2> QED BY <2>2, <1>3
<1>9. /\ back \in Seq(S) /\ Len(back) = Len(room) - (n + 1)
      /\ \A i \in 1 .. Len(back) : back[i] = room[n + 2 + i - 1]
  <2>1. n + 2 \in Nat /\ n + 2 > 0 /\ Len(room) \in 0 .. Len(room)
    BY <1>3, <1>6
  <2>2. /\ back \in Seq(S) /\ Len(back) = IF n + 2 <= Len(room) THEN Len(room) - (n + 2) + 1 ELSE 0
        /\ \A i \in 1 .. Len(back) : back[i] = room[n + 2 + i - 1]
    BY <1>6, <2>1, PartOf
  <2> HIDE DEF back
  <2> QED BY <2>2, <1>3, <1>6
<1>10. first \in Seq(S) /\ Len(first) = 1
  BY <1>2
<1> HIDE DEF front, back, first
<1>11. /\ both \in Seq(S) /\ Len(both) = n + 1 /\ content \in Seq(S) /\ Len(content) = Len(room)
       /\ \A i \in n + 2 .. Len(content) : content[i] = NoObject
  <2>1. both \in Seq(S) /\ Len(both) = n + 1
    <3>1. both \in Seq(S) /\ Len(both) = Len(first) + Len(front)
      BY <1>8, <1>10, ConcatProperties
    <3> QED BY <3>1, <1>3, <1>8, <1>10
  <2> HIDE DEF both
  <2>2. content \in Seq(S) /\ Len(content) = Len(room)
    <3>1. content \in Seq(S) /\ Len(content) = Len(both) + Len(back)
      BY <2>1, <1>9, ConcatProperties
    <3> QED BY <2>1, <3>1, <1>3, <1>6, <1>9
  <2>3. ASSUME NEW i \in n + 2 .. Len(content) PROVE content[i] = NoObject
    <3> DEFINE j == i - (n + 1)
    <3>1. i \in Len(both) + 1 .. Len(both) + Len(back) /\ i - Len(both) = j
      BY <2>1, <2>2, <1>3, <1>6, <1>9
    <3>2. content[i] = back[j]
      BY <2>1, <3>1, <1>9
    <3>3. j \in 1 .. Len(back) /\ n + 2 + j - 1 = i /\ i \in n + 1 .. Len(room)
      BY <2>2, <1>3, <1>6, <1>9
    <3> HIDE DEF content, j
    <3> QED BY <3>2, <3>3, <1>6, <1>9
  <2> QED BY <2>1, <2>2, <2>3
<1>12. \A o \in Counted : Occurrences(content, o) = Occurrences(old, o) + One(value, o)
  <2> TAKE o \in Counted
  <2> DEFINE upto == SubSeq(room, 1, n + 1)
  <2>1. Occurrences(content, o) = Occurrences(both, o) + Occurrences(back, o)
    <3> HIDE DEF both
    <3> QED BY <1>9, <1>11, OccConcat
  <2>2. Occurrences(both, o) = Occurrences(first, o) + Occurrences(front, o)
    BY <1>8, <1>10, OccConcat
  <2>3. Occurrences(first, o) = One(value, o)
    BY OccOne DEF first
  <2>4. Occurrences(upto, o) = Occurrences(front, o) + 0
    <3>1. n + 1 \in DOMAIN room /\ room[n + 1] = NoObject
      BY <1>3, <1>6
    <3>2. Occurrences(SubSeq(room, 1, n + 1), o) = Occurrences(SubSeq(room, 1, n), o) + One(room[n + 1], o)
      BY <1>3, <1>6, <3>1, OccGrows
    <3> QED BY <3>1, <3>2, NoOneIsNull DEF front
  <2>5. Occurrences(room, o) = Occurrences(upto, o) + Occurrences(back, o)
    <3>1. n + 1 \in 0 .. Len(room) /\ (n + 1) + 1 = n + 2
      BY <1>3, <1>6
    <3>2. Occurrences(room, o) = Occurrences(SubSeq(room, 1, n + 1), o)
                                 + Occurrences(SubSeq(room, (n + 1) + 1, Len(room)), o)
      BY <1>6, <3>1, OccSplit
    <3> QED BY <3>1, <3>2 DEF back
  <2>6. Occurrences(front, o) \in Nat /\ Occurrences(back, o) \in Nat /\ One(value, o) \in Nat
    BY <1>8, <1>9, WhereFinite, OneIsNat
  <2>7. Occurrences(room, o) = Occurrences(old, o)
    BY <1>6
  <2> HIDE DEF content, both, upto
  <2> QED BY <2>1, <2>2, <2>3, <2>4, <2>5, <2>6, <2>7
<1> HIDE DEF content
<1>13. /\ n + 1 \in Nat /\ Len(content) <= MaxElems /\ n + 1 <= Len(content)
       /\ \A i \in (n + 1) + 1 .. Len(content) : content[i] = NoObject
  <2>1. (n + 1) + 1 = n + 2
    BY <1>3
  <2> QED BY <2>1, <1>3, <1>6, <1>11
<1>14. \A o \in Counted : Occurrences(content, o) = Occurrences(heap[a].content, o) + One(value, o)
  BY <1>12 DEF old
<1>15. content \in Seq(Item \cup {NoObject})
  BY <1>11 DEF S
<1> QED BY <1>7, <1>13, <1>14, <1>15, InsertStep

LEMMA PendingOf ==
    ASSUME NEW op \in {"none", "STORE", "bind_key", "lookup_key"}, NEW obj \in Pointer,
           NEW slot \in Nat, NEW value \in Pointer, NEW then \in Seq(Pointer)
    PROVE  /\ Pending(op, obj, slot, value, then) \in PendingType
           /\ Pending(op, obj, slot, value, then).op = op
           /\ Pending(op, obj, slot, value, then).obj = obj
           /\ Pending(op, obj, slot, value, then).slot = slot
           /\ Pending(op, obj, slot, value, then).value = value
           /\ Pending(op, obj, slot, value, then).then = then
BY DEF Pending, PendingType

LEMMA TypedPending ==
    ASSUME Typed, heap' \in [Object -> Body], refCnt' \in [Counted -> Nat], held' \subseteq Object,
           todo' \in Seq(Pointer), chain' = chain, pending' \in PendingType,
           lost' \in [Counted -> Nat], bound' \in [Object -> SUBSET Buckets],
           client' = client
    PROVE  Typed'
BY DEF Typed

LEMMA ProxyFacts ==
    ASSUME IInv, NEW p \in Object, heap[p].kind = "proxy"
    PROVE  /\ heap[p].array \in Object /\ heap[p].index \in 0 .. MaxElems - 1
           /\ heap[heap[p].array].kind = "array"
<1>1. heap[p] \in Body /\ Linked(p)
  BY DEF IInv, Typed
<1>2. heap[p] \in ProxyBody
  BY <1>1, BodyOfKind
<1> QED BY <1>1, <1>2 DEF ProxyBody, Linked

\* What an array with n elements may have as its content
RoomFor(n, content) ==
    /\ content \in Seq(Item \cup {NoObject}) /\ n \in Nat /\ Len(content) \in Nat
    /\ Len(content) <= MaxElems /\ n <= Len(content)
    /\ \A j \in n + 1 .. Len(content) : content[j] = NoObject

LEMMA ResizedFits ==
    ASSUME NEW old, NEW n, RoomFor(n, old), NEW i, i \in 1 .. MaxElems,
           NEW room, Resized(old, i, room)
    PROVE  RoomFor(n, room) /\ i \in DOMAIN room
<1>0. /\ old \in Seq(Item \cup {NoObject}) /\ n \in Nat /\ Len(old) \in Nat
      /\ Len(old) <= MaxElems /\ n <= Len(old)
      /\ \A j \in n + 1 .. Len(old) : old[j] = NoObject
  BY DEF RoomFor
<1>1. /\ room \in Seq(Item \cup {NoObject})
      /\ Len(room) = IF i > Len(old) THEN i ELSE Len(old)
      /\ \A j \in 1 .. Len(room) : room[j] = IF j <= Len(old) THEN old[j] ELSE NoObject
      /\ \A o \in Counted : Occurrences(room, o) = Occurrences(old, o)
  BY DEF Resized
<1>2. MaxElems \in Nat /\ DOMAIN room = 1 .. Len(room)
  BY <1>1, MessagesAssumption
<1>3. Len(room) \in Nat /\ Len(room) <= MaxElems /\ n <= Len(room) /\ i \in 1 .. Len(room)
  BY <1>0, <1>1, <1>2
<1>4. ASSUME NEW j \in n + 1 .. Len(room)
      PROVE  room[j] = NoObject
  <2>1. j \in 1 .. Len(room) /\ (j <= Len(old) => j \in n + 1 .. Len(old))
    BY <1>0, <1>3
  <2> QED BY <2>1, <1>0, <1>1
<1> QED BY <1>0, <1>1, <1>2, <1>3, <1>4 DEF RoomFor

LEMMA ProxyStoreStep ==
    ASSUME IInv, NEW c \in Object, Receives(c, "proxy"), ProxyStore(c)
    PROVE  IInv'
<1> PICK p : p = capture_invocant(c)
  OBVIOUS
<1> PICK a : a = heap[p].array
  OBVIOUS
<1> PICK i : i = heap[p].index + 1
  OBVIOUS
<1> PICK old : old = heap[a].content
  OBVIOUS
<1> PICK n : n = heap[a].elems
  OBVIOUS
<1> PICK room : room = resize_array(old, i)
  OBVIOUS
<1> DEFINE x == room[i]
           body == Array(room, n)
           taken == <<p>>
           released == <<x>>
           then == <<p, c>>
<1>1. /\ Idle /\ c \in held /\ c \in Pointer /\ Alive(c) /\ p \in Object /\ p \in Pointer /\ Alive(p)
      /\ heap[c].kind = "capture" /\ heap[p].kind = "proxy"
  BY ReceiverFacts
<1>2. /\ a \in Object /\ a \in Pointer /\ heap[a].kind = "array" /\ i \in 1 .. MaxElems /\ i \in Nat
  <2>1. MaxElems \in Nat /\ heap[p].index \in 0 .. MaxElems - 1
    BY <1>1, ProxyFacts, MessagesAssumption
  <2>2. i \in 1 .. MaxElems /\ i \in Nat
    BY <2>1
  <2>3. a \in Object /\ heap[a].kind = "array"
    BY <1>1, ProxyFacts
  <2> QED BY <2>2, <2>3, PointerSets
<1>3. /\ old \in Seq(Item \cup {NoObject}) /\ n \in Nat /\ Len(old) \in Nat
      /\ Len(old) <= MaxElems /\ n <= Len(old)
      /\ \A j \in n + 1 .. Len(old) : old[j] = NoObject
      /\ References(heap[a]) = old
  BY <1>2, ArrayFacts
<1>4. Resized(old, i, room)
  BY <1>2, <1>3, ResizeFacts
<1>5. /\ room \in Seq(Item \cup {NoObject}) /\ Len(room) \in Nat /\ Len(room) <= MaxElems
      /\ n <= Len(room) /\ i \in DOMAIN room
      /\ \A j \in n + 1 .. Len(room) : room[j] = NoObject
      /\ \A o \in Counted : Occurrences(room, o) = Occurrences(old, o)
  <2>1. RoomFor(n, old)
    BY <1>3 DEF RoomFor
  <2>2. i \in 1 .. MaxElems
    BY <1>2
  <2>3. RoomFor(n, room) /\ i \in DOMAIN room
    BY <2>1, <2>2, <1>4, ResizedFits, Zenon
  <2>4. \A o \in Counted : Occurrences(room, o) = Occurrences(old, o)
    BY <1>4 DEF Resized
  <2> QED BY <2>3, <2>4 DEF RoomFor
<1>6. x \in Pointer
  <2>1. x \in Item \cup {NoObject}
    BY <1>5, SMTT(30)
  <2> QED BY <2>1, PointerSets
<1>7. /\ heap' = Put(heap, a, body) /\ refCnt' = Plus(refCnt, taken)
      /\ Replies(c, taken, NoObject, released)
      /\ pending' = Pending("STORE", a, i, NoObject, then)
      /\ UNCHANGED <<chain, lost, bound, client>>
  BY DEF ProxyStore, Put, Replies
<1>8. /\ body \in Body /\ body.kind = "array" /\ body.content = room /\ body.elems = n
      /\ References(body) = room
  BY <1>3, <1>5, ArrayOf
<1> HIDE DEF body, x
<1>9. /\ Typed /\ heap \in [Object -> Body] /\ lost \in [Counted -> Nat] /\ NoObject \in Pointer
      /\ bound \in [Object -> SUBSET Buckets]
  BY PointerSets DEF IInv, Typed
<1>10. taken \in Seq(Pointer) /\ AllAlive(taken) /\ released \in Seq(Pointer) /\ then \in Seq(Pointer)
  BY <1>1, <1>6, AliveTuples
<1> HIDE DEF taken, released, then
<1>11. /\ held' \subseteq Object /\ todo' \in Seq(Pointer)
       /\ \A o \in Counted : Held(o)' + Occurrences(todo', o) + One(c, o)
                                = Held(o) + Occurrences(released, o) + One(NoObject, o)
  BY <1>1, <1>7, <1>9, <1>10, RepliesHeld
<1>12. heap' \in [Object -> Body] /\ \A y \in Object : heap'[y] = IF y = a THEN body ELSE heap[y]
  <2>1. Replaced(heap, a, body, heap')
    BY <1>2, <1>7, <1>8, <1>9, HeapPut
  <2> QED BY <2>1 DEF Replaced
<1>13. /\ pending' \in PendingType /\ pending'.op = "STORE" /\ pending'.obj = a /\ pending'.slot = i
       /\ pending'.value = NoObject /\ pending'.then = then
  BY <1>2, <1>7, <1>9, <1>10, PendingOf
<1>14. Typed'
  <2>1. refCnt' \in [Counted -> Nat]
    BY <1>7, <1>9, <1>10, PlusCounts
  <2> QED BY <2>1, <1>7, <1>9, <1>11, <1>12, <1>13, TypedPending
<1>15. ArrayFits(a)' /\ Linked(a)'
  <2>1. heap'[a].kind = "array" /\ heap'[a].content = room /\ heap'[a].elems = n
    BY <1>2, <1>8, <1>12
  <2>2. ArrayFits(a)'
    BY <2>1, <1>5 DEF ArrayFits
  <2>3. Linked(a)'
    BY <2>1 DEF Linked
  <2> QED BY <2>2, <2>3
<1>16. PendingFits'
  <2>1. heap'[p] = heap[p] /\ heap'[c] = heap[c]
    BY <1>1, <1>2, <1>12
  <2>2. heap'[a].kind = "array" /\ heap'[a].content = room
    BY <1>2, <1>8, <1>12
  <2>3. then = <<p, c>>
    BY DEF then
  <2>4. /\ pending'.then = <<p, c>>
        /\ heap'[p].kind = "proxy" /\ heap'[p].array = pending'.obj
        /\ heap'[c].kind = "capture"
        /\ pending'.obj \in Object /\ heap'[pending'.obj].kind = "array"
        /\ pending'.slot \in DOMAIN heap'[pending'.obj].content
        /\ pending'.value = NoObject
    BY <2>1, <2>2, <2>3, <1>1, <1>2, <1>5, <1>13
  <2> QED BY <2>4, <1>1, <1>13 DEF PendingFits
<1>17. BalancedChange(a, body, taken)
  <2> SUFFICES ASSUME NEW o \in Counted
               PROVE  Occurrences(taken, o) + Occurrences(References(heap[a]), o) + Held(o) + Masked(o)'
                        = Occurrences(References(body), o) + Held(o)' + Occurrences(todo', o)
                          + Occurrences(pending'.then, o) + One(pending'.value, o)
    BY DEF BalancedChange
  <2> DEFINE op == One(p, o)
             ox == One(x, o)
             oc == One(c, o)
             re == Occurrences(old, o)
             td == Occurrences(todo', o)
             he == Held(o)
             hen == Held(o)'
  <2>1. hen + td + oc = he + ox + 0
    BY <1>11, OccOne, NoOneIsNull DEF released
  <2>2. /\ op \in Nat /\ ox \in Nat /\ oc \in Nat /\ re \in Nat /\ td \in Nat /\ he \in Nat /\ hen \in Nat
    BY <1>3, <1>11, WhereFinite DEF Held, One
  <2>3. op + re + he + ox = re + hen + td + (op + oc) + 0
    <3> HIDE DEF op, ox, oc, re, td, he, hen
    <3> QED BY <2>1, <2>2
  <2>4. Masked(o)' = ox
    <3>1. References(heap'[a]) = room
      BY <1>2, <1>8, <1>12
    <3> QED BY <3>1, <1>13 DEF Masked, x
  <2>5. /\ Occurrences(taken, o) = op
        /\ Occurrences(References(heap[a]), o) = re /\ Occurrences(References(body), o) = re
        /\ Occurrences(pending'.then, o) = op + oc /\ One(pending'.value, o) = 0
    <3>1. Occurrences(taken, o) = op
      BY OccOne DEF taken
    <3>2. Occurrences(pending'.then, o) = op + oc
      BY <1>13, OccTwo DEF then
    <3>3. One(pending'.value, o) = 0
      BY <1>13, NoOneIsNull
    <3> QED BY <3>1, <3>2, <3>3, <1>3, <1>5, <1>8
  <2> QED BY <2>3, <2>4, <2>5
<1>18. BoundFits' /\ BindingsKept'
  <2>1. \A h \in Object :
           \/ heap'[h] = heap[h]
           \/ heap[h].kind = "free" /\ heap'[h] = Hash(<<>>)
           \/ heap[h].kind # "hash" /\ heap'[h].kind # "hash"
    BY <1>2, <1>8, <1>12
  <2> QED BY <2>1, <1>7, BindingsSame
<1>19. heap[a].kind # "free" /\ body.kind = heap[a].kind
  BY <1>2, <1>8
<1> QED BY <1>1, <1>2, <1>7, <1>8, <1>10, <1>14, <1>15, <1>16, <1>17, <1>18, <1>19, ChangeStep

-----------------------------------------------------------------------------
(* Hashes                                                                   *)

LEMMA HashFacts ==
    ASSUME IInv, NEW h \in Object, heap[h].kind = "hash"
    PROVE  /\ heap[h].buckets \in Seq(Buckets)
           /\ References(heap[h]) = KeysAndCells(heap[h].buckets)
           /\ Range(heap[h].buckets) = bound[h] /\ IsInjective(Keys(heap[h].buckets))
<1>1. heap[h] \in Body /\ BindingsKept
  BY DEF IInv, Typed
<1>2. heap[h] \in HashBody /\ References(heap[h]) = KeysAndCells(heap[h].buckets)
  BY <1>1, BodyOfKind, ReferencesOf
<1> QED BY <1>1, <1>2 DEF HashBody, BindingsKept

LEMMA FirstOf ==
    ASSUME NEW S, S \subseteq Nat, S # {}
    PROVE  Min(S) \in S
<1>1. \E n \in S : \A m \in S : n <= m
  BY LeastNumber
<1> QED BY <1>1 DEF Min

LEMMA FoundFirst ==
    ASSUME IInv, NEW h \in Object, heap[h].kind = "hash", NEW key, Found(h, key) # {}
    PROVE  /\ Min(Found(h, key)) \in DOMAIN heap[h].buckets /\ Min(Found(h, key)) \in Nat
           /\ heap[h].buckets[Min(Found(h, key))].key = key
           /\ heap[h].buckets[Min(Found(h, key))].cell \in Item
           /\ 2 * Min(Found(h, key)) \in DOMAIN References(heap[h])
           /\ References(heap[h])[2 * Min(Found(h, key))] = heap[h].buckets[Min(Found(h, key))].cell
<1>1. heap[h].buckets \in Seq(Buckets)
  BY HashFacts
<1>2. DOMAIN heap[h].buckets \subseteq Nat
  BY <1>1
<1>3. Found(h, key) \subseteq Nat
  BY <1>2 DEF Found
<1>4. Min(Found(h, key)) \in Found(h, key)
  BY <1>3, FirstOf
<1>5. Min(Found(h, key)) \in DOMAIN heap[h].buckets /\ heap[h].buckets[Min(Found(h, key))].key = key
  BY <1>4 DEF Found
<1>6. heap[h].buckets[Min(Found(h, key))].cell \in Item
  BY <1>1, <1>5, BucketAt
<1>7. References(heap[h]) = KeysAndCells(heap[h].buckets)
  BY HashFacts
<1> QED BY <1>1, <1>2, <1>5, <1>6, <1>7, KeysAndCellsType

\* What a handler of a hash reads out of its capture
LEMMA KeyOfMessage ==
    ASSUME IInv, NEW c \in Object, Receives(c, "hash"), Len(At(c).positional) > 0
    PROVE  LET key == At(c).positional[1]
           IN  /\ KeyOf(key) \in Item /\ KeyOf(key) \in Pointer
               /\ Kept(key) \in Pointer /\ Alive(Kept(key))
               /\ \A o \in Counted : One(Kept(key), o) = One(KeyOf(key), o)
<1>1. Idle /\ heap[c].kind = "capture"
  BY ReceiverFacts
<1>2. 1 \in DOMAIN At(c).positional
  <2>1. At(c).positional \in Seq(Item)
    BY <1>1, CaptureContents DEF CaptureBody
  <2> QED BY <2>1
<1>3. At(c).positional[1] \in Item /\ Alive(At(c).positional[1])
  BY <1>1, <1>2, KeyArgument
<1> QED BY <1>1, <1>3, KeyFacts

LEMMA LookupKeyStep ==
    ASSUME IInv, NEW c \in Object, Receives(c, "hash"), LookupKey(c)
    PROVE  IInv'
<1> PICK h : h = capture_invocant(c)
  OBVIOUS
<1> PICK key : key = KeyOf(At(c).positional[1])
  OBVIOUS
<1> PICK kept : kept = Kept(At(c).positional[1])
  OBVIOUS
<1> PICK i : i = Min(Found(h, key))
  OBVIOUS
<1> DEFINE body == heap[h]
           taken == <<h, kept>>
           released == <<h, c>>
<1>1. /\ Idle /\ c \in held /\ c \in Pointer /\ Alive(c) /\ h \in Object /\ h \in Pointer /\ Alive(h)
      /\ heap[c].kind = "capture" /\ heap[h].kind = "hash"
  BY ReceiverFacts
<1>2. /\ Found(h, key) # {} /\ Len(At(c).positional) > 0
      /\ heap' = heap /\ refCnt' = Plus(refCnt, taken)
      /\ Replies(c, taken, NoObject, released)
      /\ pending' = Pending("lookup_key", h, 2 * i, NoObject, <<>>)
      /\ lost' = Plus(lost, <<kept>>) /\ UNCHANGED <<chain, bound, client>>
  BY DEF LookupKey, Replies, Forgets
<1>0. kept \in Pointer /\ Alive(kept)
  BY <1>2, KeyOfMessage
<1>3. i \in DOMAIN heap[h].buckets /\ i \in Nat
  BY <1>1, <1>2, FoundFirst
<1>4. /\ Typed /\ heap \in [Object -> Body] /\ lost \in [Counted -> Nat] /\ NoObject \in Pointer
      /\ bound \in [Object -> SUBSET Buckets]
  BY PointerSets DEF IInv, Typed
<1>5. taken \in Seq(Pointer) /\ AllAlive(taken) /\ released \in Seq(Pointer)
  BY <1>0, <1>1, AliveTuples
<1>14. /\ lost' \in [Counted -> Nat]
       /\ \A o \in Counted : lost'[o] = lost[o] + One(kept, o)
  BY <1>0, <1>2, <1>4, OneForgotten
<1> HIDE DEF taken, released
<1>6. /\ held' \subseteq Object /\ todo' \in Seq(Pointer)
      /\ \A o \in Counted : Held(o)' + Occurrences(todo', o) + One(c, o)
                               = Held(o) + Occurrences(released, o) + One(NoObject, o)
  BY <1>1, <1>2, <1>4, <1>5, RepliesHeld
<1>7. body \in Body /\ heap' = Put(heap, h, body) /\ body.kind = heap[h].kind /\ heap[h].kind # "free"
  BY <1>1, <1>2, <1>4 DEF Put
<1>8. /\ pending' \in PendingType /\ pending'.op = "lookup_key" /\ pending'.obj = h
      /\ pending'.slot = 2 * i /\ pending'.value = NoObject /\ pending'.then = <<>>
  <2>1. <<>> \in Seq(Pointer)
    OBVIOUS
  <2> QED BY <2>1, <1>1, <1>2, <1>3, <1>4 DEF Pending, PendingType
<1>9. Typed'
  <2>1. refCnt' \in [Counted -> Nat]
    BY <1>2, <1>4, <1>5, PlusCounts
  <2> QED BY <2>1, <1>2, <1>4, <1>6, <1>8, <1>14, TypedPending
<1>10. PendingFits'
  <2>1. heap'[h].kind = "hash" /\ i \in DOMAIN heap'[h].buckets
    BY <1>1, <1>2, <1>3
  <2> QED BY <2>1, <1>1, <1>8 DEF PendingFits
<1>11. ArrayFits(h)' /\ Linked(h)'
  <2>1. heap'[h].kind = "hash"
    BY <1>1, <1>2
  <2> QED BY <2>1 DEF ArrayFits, Linked
<1>12. BoundFits' /\ BindingsKept'
  BY <1>2, BindingsSame
<1>13. BalancedChangeBut(h, body, taken)
  <2> SUFFICES ASSUME NEW o \in Counted
               PROVE  Occurrences(taken, o) + Occurrences(References(heap[h]), o) + Held(o) + Masked(o)'
                      + lost[o]
                        = Occurrences(References(body), o) + Held(o)' + Occurrences(todo', o)
                          + Occurrences(pending'.then, o) + One(pending'.value, o)
                          + lost'[o]
    BY DEF BalancedChangeBut
  <2> DEFINE oh == One(h, o)
             oc == One(c, o)
             re == Occurrences(References(heap[h]), o)
             td == Occurrences(todo', o)
             ok == One(kept, o)
             lo == lost[o]
             he == Held(o)
             hen == Held(o)'
  <2>1. hen + td + oc = he + (oh + oc) + 0
    BY <1>6, OccTwo, NoOneIsNull DEF released
  <2>2. /\ oh \in Nat /\ oc \in Nat /\ re \in Nat /\ td \in Nat /\ he \in Nat /\ hen \in Nat
        /\ ok \in Nat /\ lo \in Nat
    <3>1. References(heap[h]) \in Seq(Pointer)
      BY <1>1, <1>4, ReferencesOf
    <3> QED BY <3>1, <1>4, <1>6, WhereFinite DEF Held, One
  <2>3. (oh + ok) + re + he + 0 + lo = re + hen + td + 0 + 0 + (lo + ok)
    <3> HIDE DEF oh, oc, ok, lo, re, td, he, hen
    <3> QED BY <2>1, <2>2
  <2>4. Masked(o)' = 0
    BY <1>8 DEF Masked
  <2>5. /\ Occurrences(taken, o) = oh + ok /\ lost'[o] = lo + ok
        /\ Occurrences(pending'.then, o) = 0 /\ One(pending'.value, o) = 0
    BY <1>8, <1>14, OccTwo, OccEmpty, NoOneIsNull DEF taken
  <2> QED BY <2>3, <2>4, <2>5
<1> HIDE DEF body
<1> QED BY <1>1, <1>2, <1>5, <1>7, <1>9, <1>10, <1>11, <1>12, <1>13, ChangeButStep

LEMMA HashOf ==
    ASSUME NEW buckets \in Seq(Buckets)
    PROVE  /\ Hash(buckets) \in Body /\ Hash(buckets).kind = "hash"
           /\ Hash(buckets).buckets = buckets /\ References(Hash(buckets)) = KeysAndCells(buckets)
<1>1. Hash(buckets) \in HashBody /\ Hash(buckets).kind = "hash" /\ Hash(buckets).buckets = buckets
  BY DEF Hash, HashBody
<1>2. Hash(buckets) \in Body
  BY <1>1 DEF Body
<1> QED BY <1>1, <1>2, ReferencesOf

\* new has what is in the hash h, and the cell under the key.
Rebound(h, key, cell, new) ==
    /\ new \in Seq(Buckets)
    /\ Range(new) = Bound(bound[h], key, cell)
    /\ IsInjective(Keys(new))

Longer(h, key, cell) == Append(heap[h].buckets, Bucket(key, cell))

LEMMA AppendBucket ==
    ASSUME IInv, NEW h \in Object, heap[h].kind = "hash", NEW key \in Item, NEW cell \in Item,
           Found(h, key) = {}
    PROVE  /\ Rebound(h, key, cell, Longer(h, key, cell))
           /\ \A o : Occurrences(KeysAndCells(Longer(h, key, cell)), o)
                        = Occurrences(KeysAndCells(heap[h].buckets), o) + One(key, o) + One(cell, o)
<1> PICK new : new = Longer(h, key, cell)
  OBVIOUS
<1> DEFINE buckets == heap[h].buckets
           n == Len(buckets)
           b == Bucket(key, cell)
           B == Buckets
<1>1. /\ buckets \in Seq(B) /\ Range(buckets) = bound[h] /\ IsInjective(Keys(buckets))
  BY HashFacts
<1>2. b \in B /\ b.key = key /\ b.cell = cell
  BY DEF Bucket, Buckets
<1>3. \A i \in DOMAIN buckets : buckets[i].key # key
  BY DEF Found
<1>4. new = Append(buckets, b)
  BY DEF Longer
<1> HIDE DEF buckets, b, B
<1>5. /\ new \in Seq(B) /\ Len(new) = n + 1 /\ n \in Nat
      /\ DOMAIN new = 1 .. n + 1 /\ DOMAIN buckets = 1 .. n
      /\ new[n + 1] = b /\ \A i \in 1 .. n : new[i] = buckets[i]
  BY <1>1, <1>2, <1>4
<1>6. Range(new) = Bound(bound[h], key, cell)
  <2>1. Range(new) = Range(buckets) \cup {b}
    <3>1. ASSUME NEW x \in Range(new) PROVE x \in Range(buckets) \cup {b}
      BY <1>5 DEF Range
    <3>2. ASSUME NEW x \in Range(buckets) \cup {b} PROVE x \in Range(new)
      <4>1. CASE x = b
        <5>1. n + 1 \in DOMAIN new
          BY <1>5
        <5> QED BY <4>1, <5>1, <1>5 DEF Range
      <4>2. CASE x # b
        <5>1. PICK i \in DOMAIN buckets : buckets[i] = x
          BY <4>2 DEF Range
        <5>2. i \in DOMAIN new /\ new[i] = x
          BY <5>1, <1>5
        <5> QED BY <5>2 DEF Range
      <4> QED BY <4>1, <4>2
    <3> QED BY <3>1, <3>2
  <2>2. \A x \in Range(buckets) : x.key # key
    BY <1>3 DEF Range
  <2> QED BY <2>1, <2>2, <1>1 DEF Bound, b
<1>7. IsInjective(Keys(new))
  <2>1. DOMAIN Keys(new) = 1 .. n + 1 /\ \A i \in 1 .. n + 1 : Keys(new)[i] = new[i].key
    BY <1>5 DEF Keys
  <2>2. DOMAIN Keys(buckets) = 1 .. n /\ \A i \in 1 .. n : Keys(buckets)[i] = buckets[i].key
    BY <1>5 DEF Keys
  <2>3. \A i, j \in 1 .. n : buckets[i].key = buckets[j].key => i = j
    BY <1>1, <2>2 DEF IsInjective
  <2>4. \A i, j \in 1 .. n + 1 : new[i].key = new[j].key => i = j
    <3> TAKE i, j \in 1 .. n + 1
    <3>1. CASE i \in 1 .. n /\ j \in 1 .. n
      BY <3>1, <2>3, <1>5
    <3>2. CASE i \in 1 .. n /\ j = n + 1
      BY <3>2, <1>2, <1>3, <1>5
    <3>3. CASE i = n + 1 /\ j \in 1 .. n
      BY <3>3, <1>2, <1>3, <1>5
    <3>4. CASE i = n + 1 /\ j = n + 1
      BY <3>4
    <3> QED BY <3>1, <3>2, <3>3, <3>4, <1>5
  <2>5. \A i, j \in DOMAIN Keys(new) : Keys(new)[i] = Keys(new)[j] => i = j
    <3> TAKE i, j \in DOMAIN Keys(new)
    <3>1. i \in 1 .. n + 1 /\ j \in 1 .. n + 1
      BY <2>1
    <3>2. Keys(new)[i] = new[i].key /\ Keys(new)[j] = new[j].key
      BY <3>1, <2>1
    <3> QED BY <3>1, <3>2, <2>4
  <2> QED BY <2>5, Zenon DEF IsInjective
<1>8. \A o : Occurrences(KeysAndCells(new), o)
                = Occurrences(KeysAndCells(buckets), o) + One(key, o) + One(cell, o)
  <2> DEFINE old == KeysAndCells(buckets)
             longer == Append(old, key)
             longest == Append(longer, cell)
  <2>1. /\ old \in Seq(Item) /\ Len(old) = 2 * n
        /\ \A m \in 1 .. n : old[2 * m] = buckets[m].cell /\ old[2 * m - 1] = buckets[m].key
        /\ DOMAIN old = 1 .. 2 * n
    <3>1. DOMAIN old = 1 .. Len(old)
      BY <1>1, KeysAndCellsType DEF B
    <3> QED BY <3>1, <1>1, <1>5, KeysAndCellsType DEF B
  <2>2. /\ KeysAndCells(new) \in Seq(Item) /\ Len(KeysAndCells(new)) = 2 * (n + 1)
        /\ \A m \in 1 .. n + 1 : /\ KeysAndCells(new)[2 * m] = new[m].cell
                                  /\ KeysAndCells(new)[2 * m - 1] = new[m].key
    BY <1>5, KeysAndCellsType DEF B
  <2>6. \A i \in 1 .. 2 * n : \E m \in 1 .. n :
            \/ i = 2 * m /\ old[i] = buckets[m].cell
            \/ i = 2 * m - 1 /\ old[i] = buckets[m].key
    <3> SUFFICES ASSUME NEW i \in DOMAIN KeysAndCells(buckets)
                 PROVE  \E m \in DOMAIN buckets :
                            \/ i = 2 * m /\ KeysAndCells(buckets)[i] = buckets[m].cell
                            \/ i = 2 * m - 1 /\ KeysAndCells(buckets)[i] = buckets[m].key
      BY <1>5, <2>1
    <3>1. buckets \in Seq(Buckets)
      BY <1>1 DEF B
    <3> QED BY <3>1, KeysAndCellsAt
  <2> HIDE DEF old
  <2>3. KeysAndCells(new) = longest
    <3>1. /\ longest \in Seq(Item) /\ Len(longest) = 2 * (n + 1)
          /\ \A i \in 1 .. 2 * n : longest[i] = old[i]
          /\ longest[2 * n + 1] = key /\ longest[2 * n + 2] = cell
      <4>1. /\ longer \in Seq(Item) /\ Len(longer) = 2 * n + 1
            /\ \A i \in 1 .. 2 * n : longer[i] = old[i]
            /\ longer[2 * n + 1] = key
        <5>1. old \in Seq(Item) /\ Len(old) \in Nat /\ Len(old) = 2 * n
          BY <2>1
        <5>2. /\ longer \in Seq(Item) /\ Len(longer) = Len(old) + 1
              /\ \A i \in 1 .. Len(old) : longer[i] = old[i]
              /\ longer[Len(old) + 1] = key
          BY <5>1
        <5> QED BY <5>1, <5>2
      <4> HIDE DEF longer
      <4>2. /\ longest \in Seq(Item) /\ Len(longest) = 2 * n + 2
            /\ \A i \in 1 .. 2 * n + 1 : longest[i] = longer[i]
            /\ longest[2 * n + 2] = cell
        BY <4>1, <1>5
      <4> HIDE DEF longest
      <4> QED BY <4>1, <4>2, <1>5
    <3>2. \A i \in 1 .. 2 * (n + 1) : longest[i] = KeysAndCells(new)[i]
      <4> SUFFICES ASSUME NEW i \in 1 .. 2 * (n + 1) PROVE longest[i] = KeysAndCells(new)[i]
        OBVIOUS
      <4> HIDE DEF longest
      <4>1. CASE i <= 2 * n
        <5>1. PICK m \in 1 .. n : \/ i = 2 * m /\ old[i] = buckets[m].cell
                                  \/ i = 2 * m - 1 /\ old[i] = buckets[m].key
          BY <4>1, <1>5, <2>6
        <5>2. new[m] = buckets[m] /\ m \in 1 .. n + 1 /\ longest[i] = old[i]
          BY <4>1, <1>5, <3>1
        <5> QED BY <5>1, <5>2, <2>2
      <4>2. CASE i = 2 * n + 1
        <5>1. n + 1 \in 1 .. n + 1 /\ 2 * (n + 1) - 1 = i
          BY <4>2, <1>5
        <5>2. KeysAndCells(new)[i] = new[n + 1].key
          BY <5>1, <2>2
        <5> QED BY <5>2, <4>2, <3>1, <1>2, <1>5
      <4>3. CASE i = 2 * n + 2
        <5>1. n + 1 \in 1 .. n + 1 /\ 2 * (n + 1) = i
          BY <4>3, <1>5
        <5>2. KeysAndCells(new)[i] = new[n + 1].cell
          BY <5>1, <2>2
        <5> QED BY <5>2, <4>3, <3>1, <1>2, <1>5
      <4> QED BY <4>1, <4>2, <4>3, <1>5
    <3> HIDE DEF longest
    <3> QED BY <2>2, <3>1, <3>2, SeqEqual
  <2>4. longer \in Seq(Item)
    BY <2>1
  <2>5. ASSUME NEW o
        PROVE  Occurrences(longest, o) = Occurrences(old, o) + One(key, o) + One(cell, o)
    <3>1. Occurrences(longer, o) = Occurrences(old, o) + One(key, o)
      BY <2>1, OccAppend
    <3> HIDE DEF longer
    <3>2. Occurrences(longest, o) = Occurrences(longer, o) + One(cell, o)
      BY <2>4, OccAppend
    <3> QED BY <3>1, <3>2, Zenon
  <2> QED BY <2>3, <2>5 DEF old
<1> QED BY <1>5, <1>6, <1>7, <1>8 DEF Rebound, B, buckets

\* One hash is bound to.
LEMMA BindingsOne ==
    ASSUME IInv, NEW h \in Object, NEW key, NEW cell, NEW new,
           Rebound(h, key, cell, new), heap'[h] = Hash(new),
           bound' = [bound EXCEPT ![h] = Bound(@, key, cell)],
           \A g \in Object \ {h} : \/ heap'[g] = heap[g]
                                   \/ heap[g].kind # "hash" /\ heap'[g].kind # "hash"
    PROVE  BoundFits' /\ BindingsKept'
<1>1. \A g \in Object : /\ heap[g].kind # "hash" => bound[g] = {}
                        /\ heap[g].kind = "hash" =>
                              Range(heap[g].buckets) = bound[g] /\ IsInjective(Keys(heap[g].buckets))
  BY DEF IInv, BoundFits, BindingsKept
<1>2. bound'[h] = Bound(bound[h], key, cell) /\ \A g \in Object \ {h} : bound'[g] = bound[g]
  BY DEF IInv, Typed
<1>3. heap'[h].kind = "hash" /\ heap'[h].buckets = new
  BY DEF Hash
<1>4. ASSUME NEW g \in Object
      PROVE  /\ heap'[g].kind # "hash" => bound'[g] = {}
             /\ heap'[g].kind = "hash" =>
                   Range(heap'[g].buckets) = bound'[g] /\ IsInjective(Keys(heap'[g].buckets))
  <2>1. CASE g = h
    BY <2>1, <1>2, <1>3 DEF Rebound
  <2>2. CASE g # h /\ heap'[g] = heap[g]
    BY <2>2, <1>1, <1>2
  <2>3. CASE g # h /\ heap[g].kind # "hash" /\ heap'[g].kind # "hash"
    BY <2>3, <1>1, <1>2
  <2> QED BY <2>1, <2>2, <2>3
<1> QED BY <1>4 DEF BoundFits, BindingsKept

LEMMA BoundType ==
    ASSUME Typed, NEW h \in Object, NEW key \in Item, NEW cell \in Item,
           bound' = [bound EXCEPT ![h] = Bound(@, key, cell)]
    PROVE  bound' \in [Object -> SUBSET Buckets]
<1>1. bound \in [Object -> SUBSET Buckets]
  BY DEF Typed
<1>2. Bound(bound[h], key, cell) \subseteq Buckets
  BY <1>1 DEF Bound, Bucket, Buckets
<1> QED BY <1>1, <1>2

-----------------------------------------------------------------------------
(* Code that makes an object and changes another                            *)

Some(n, k, o) == IF o = n THEN k ELSE 0

BalancedBoth(n, k, new, a, body, taken) ==
    \A o \in Counted :
        Occurrences(taken, o) + Some(n, k, o) + Occurrences(References(heap[a]), o)
        + Held(o) + Masked(o)'
            = Occurrences(References(new), o) + Occurrences(References(body), o)
              + Held(o)' + Occurrences(todo', o) + Occurrences(pending'.then, o) + One(pending'.value, o)

BalancedBothBut(n, k, new, a, body, taken) ==
    \A o \in Counted :
        Occurrences(taken, o) + Some(n, k, o) + Occurrences(References(heap[a]), o)
        + Held(o) + Masked(o)' + lost[o]
            = Occurrences(References(new), o) + Occurrences(References(body), o)
              + Held(o)' + Occurrences(todo', o) + Occurrences(pending'.then, o)
              + One(pending'.value, o) + lost'[o]

LEMMA NewAndChangeButStep ==
    ASSUME IInv, Idle, NEW n \in Object, heap[n].kind = "free", NEW k \in Nat, k > 0,
           NEW new \in Body, new.kind # "free",
           NEW a \in Object, a # n, heap[a].kind # "free",
           NEW body \in Body, body.kind = heap[a].kind,
           NEW taken \in Seq(Pointer), AllAlive(taken),
           heap' = Put(Put(heap, n, new), a, body),
           refCnt' = [Plus(refCnt, taken) EXCEPT ![n] = k],
           ArrayFits(n)', Linked(n)', ArrayFits(a)', Linked(a)',
           Typed', PendingFits', BoundFits', BindingsKept',
           BalancedBothBut(n, k, new, a, body, taken), chain' = chain
    PROVE  IInv'
<1> DEFINE mid == Put(heap, n, new)
<1>1. Typed /\ heap \in [Object -> Body] /\ lost \in [Counted -> Nat]
  BY DEF IInv, Typed
<1>2. References(heap[n]) = <<>> /\ refCnt[n] = 0 /\ n \in Counted
  BY FreeIsUnreferred
<1>3. /\ mid \in [Object -> Body]
      /\ \A x \in Object : mid[x] = IF x = n THEN new ELSE heap[x]
      /\ \A o : InHeap(mid, o) + 0 = InHeap(heap, o) + Occurrences(References(new), o)
  <2>1. Replaced(heap, n, new, mid)
    BY <1>1, HeapPut
  <2> HIDE DEF mid
  <2> QED BY <2>1, <1>2, OccEmpty DEF Replaced
<1>4. /\ heap' \in [Object -> Body]
      /\ \A x \in Object : heap'[x] = IF x = a THEN body ELSE mid[x]
      /\ \A o : InHeap(heap', o) + Occurrences(References(heap[a]), o)
                   = InHeap(mid, o) + Occurrences(References(body), o)
  <2>1. heap' = Put(mid, a, body)
    OBVIOUS
  <2> HIDE DEF mid
  <2>2. Replaced(mid, a, body, heap')
    BY <1>3, <2>1, HeapPut
  <2>3. mid[a] = heap[a]
    BY <1>3
  <2> QED BY <2>2, <2>3 DEF Replaced
<1> HIDE DEF mid
<1>5. /\ refCnt' \in [Counted -> Nat] /\ refCnt'[n] = k
      /\ \A o \in Counted : refCnt'[o] = refCnt[o] + Occurrences(taken, o) + Some(n, k, o)
  <2>1. /\ Plus(refCnt, taken) \in [Counted -> Nat]
        /\ \A o \in Counted : Plus(refCnt, taken)[o] = refCnt[o] + Occurrences(taken, o)
    BY <1>1, PlusCounts
  <2>2. Occurrences(taken, n) = 0
    BY AliveTaken
  <2>3. refCnt'[n] = k /\ \A o \in Counted \ {n} : refCnt'[o] = refCnt[o] + Occurrences(taken, o)
    BY <2>1, <1>2
  <2>4. \A o \in Counted : refCnt[o] \in Nat /\ Occurrences(taken, o) \in Nat
    BY <1>1, WhereFinite DEF Typed
  <2>5. ASSUME NEW o \in Counted PROVE refCnt'[o] = refCnt[o] + Occurrences(taken, o) + Some(n, k, o)
    <3>1. CASE o = n
      BY <3>1, <2>2, <2>3, <1>2 DEF Some
    <3>2. CASE o # n
      BY <3>2, <2>3, <2>4 DEF Some
    <3> QED BY <3>1, <3>2
  <2> QED BY <2>1, <2>3, <2>5
<1>6. ASSUME NEW o \in Counted PROVE Conserved(o)
  <2> DEFINE r == refCnt[o]
             ho == InHeap(heap, o)
             hm == InHeap(mid, o)
             hn == InHeap(heap', o)
             ta == Occurrences(taken, o)
             so == Some(n, k, o)
             ra == Occurrences(References(heap[a]), o)
             rb == Occurrences(References(body), o)
             rn == Occurrences(References(new), o)
             td == Occurrences(todo', o)
             th == Occurrences(pending'.then, o)
             va == One(pending'.value, o)
             ma == Masked(o)'
             he == Held(o)
             hen == Held(o)'
             lo == lost[o]
             lon == lost'[o]
  <2>1. ta + so + ra + he + ma + lo = rn + rb + hen + td + th + va + lon
    BY DEF BalancedBothBut
  <2>2. hm + 0 = ho + rn /\ hn + ra = hm + rb
    BY <1>3, <1>4
  <2>3. /\ r \in Nat /\ ho \in Nat /\ hm \in Nat /\ hn \in Nat /\ ta \in Nat /\ ra \in Nat /\ rb \in Nat
        /\ rn \in Nat /\ td \in Nat /\ th \in Nat /\ lo \in Nat /\ lon \in Nat
    <3>1. /\ References(body) \in Seq(Pointer) /\ References(heap[a]) \in Seq(Pointer)
          /\ References(new) \in Seq(Pointer)
      BY <1>1, ReferencesOf
    <3>2. todo' \in Seq(Pointer) /\ pending'.then \in Seq(Pointer)
      BY DEF Typed, PendingType
    <3>3. lost' \in [Counted -> Nat]
      BY DEF Typed
    <3> QED BY <3>1, <3>2, <3>3, <1>1, <1>3, <1>4, IdleFacts, WhereFinite, SlotsOfType
  <2>4. ma \in Nat /\ he \in Nat /\ hen \in Nat /\ va \in Nat /\ so \in Nat
    BY DEF Masked, Held, One, Some
  <2>5. refCnt'[o] = r + ta + so
    BY <1>5
  <2>6. r + ta + so + ho + he + lo + ma = r + hn + hen + td + th + va + lon
    <3> HIDE DEF r, ho, hm, hn, ta, so, ra, rb, rn, td, th, va, ma, he, hen, lo, lon
    <3> QED BY <2>1, <2>2, <2>3, <2>4
  <2> QED BY <2>5, <2>6 DEF Conserved
<1>7. ASSUME NEW x \in Object PROVE Stays(x) /\ Sound(x) /\ AliveIfCounted(x)
  <2>1. Stays(x) /\ Sound(x)
    BY <1>3, <1>4 DEF Stays, Sound
  <2>2. CASE x = n
    BY <2>1, <2>2, <1>3, <1>4, <1>5 DEF AliveIfCounted
  <2>3. CASE x # n
    <3>1. x \in Counted /\ (heap'[x].kind = "free" <=> heap[x].kind = "free")
      BY <2>3, <1>3, <1>4, PointerSets
    <3>2. refCnt'[x] = refCnt[x] + Occurrences(taken, x)
      <4>1. refCnt[x] \in Nat /\ Occurrences(taken, x) \in Nat
        BY <3>1, <1>1, WhereFinite DEF Typed
      <4> QED BY <2>3, <3>1, <4>1, <1>5 DEF Some
    <3> QED BY <2>1, <3>1, <3>2, AliveNext
  <2> QED BY <2>2, <2>3
<1> QED BY <1>6, <1>7, IdleStep

LEMMA NewAndChangeStep ==
    ASSUME IInv, Idle, NEW n \in Object, heap[n].kind = "free", NEW k \in Nat, k > 0,
           NEW new \in Body, new.kind # "free",
           NEW a \in Object, a # n, heap[a].kind # "free",
           NEW body \in Body, body.kind = heap[a].kind,
           NEW taken \in Seq(Pointer), AllAlive(taken),
           heap' = Put(Put(heap, n, new), a, body),
           refCnt' = [Plus(refCnt, taken) EXCEPT ![n] = k],
           ArrayFits(n)', Linked(n)', ArrayFits(a)', Linked(a)',
           Typed', PendingFits', BoundFits', BindingsKept',
           BalancedBoth(n, k, new, a, body, taken), UNCHANGED <<chain, lost>>
    PROVE  IInv'
<1>1. BalancedBothBut(n, k, new, a, body, taken)
  BY DEF BalancedBoth, BalancedBothBut
<1> QED BY <1>1, NewAndChangeButStep

LEMMA LookupNewStep ==
    ASSUME IInv, NEW c \in Object, Receives(c, "hash"), NEW cell \in Object, LookupNew(c, cell)
    PROVE  IInv'
<1> PICK h : h = capture_invocant(c)
  OBVIOUS
<1> PICK key : key = KeyOf(At(c).positional[1])
  OBVIOUS
<1> PICK kept : kept = Kept(At(c).positional[1])
  OBVIOUS
<1> PICK new : new = Longer(h, key, cell)
  OBVIOUS
<1> DEFINE old == heap[h].buckets
           body == Hash(new)
           taken == <<h, kept>>
<1>1. /\ Idle /\ c \in held /\ c \in Pointer /\ Alive(c) /\ h \in Object /\ h \in Pointer /\ Alive(h)
      /\ heap[c].kind = "capture" /\ heap[h].kind = "hash"
  BY ReceiverFacts
<1>0. /\ key \in Item /\ kept \in Pointer /\ Alive(kept)
      /\ \A o \in Counted : One(kept, o) = One(key, o)
  BY KeyOfMessage DEF LookupNew
<1>2. /\ Found(h, key) = {} /\ heap[cell].kind = "free" /\ cell # h /\ cell # c
      /\ heap' = Put(Put(heap, cell, Value), h, body)
      /\ refCnt' = [Plus(refCnt, taken) EXCEPT ![cell] = 2]
      /\ held' = (held \ {c}) \cup {cell} /\ todo' = <<h, c>>
      /\ bound' = [bound EXCEPT ![h] = Bound(@, key, cell)]
      /\ UNCHANGED <<chain, pending, lost, client>>
  <2>1. heap[cell].kind = "free" /\ cell # h /\ cell # c
    BY <1>1 DEF LookupNew, Unused
  <2>2. heap' = Put(Put(heap, cell, Value), h, body)
    <3>1. heap' = [heap EXCEPT ![cell] = Value, ![h] = Hash(Append(@.buckets, Bucket(key, cell)))]
      BY DEF LookupNew, Longer
    <3>2. [heap EXCEPT ![cell] = Value][h] = heap[h]
      BY <2>1
    <3> QED BY <3>1, <3>2 DEF Put, Longer
  <2> QED BY <2>1, <2>2 DEF LookupNew
<1>3. cell \in Item
  BY PointerSets
<1>4. /\ Rebound(h, key, cell, new)
      /\ \A o : Occurrences(KeysAndCells(new), o)
                   = Occurrences(KeysAndCells(old), o) + One(key, o) + One(cell, o)
  BY <1>0, <1>1, <1>2, <1>3, AppendBucket
<1>5. /\ body \in Body /\ body.kind = "hash" /\ References(body) = KeysAndCells(new)
      /\ References(heap[h]) = KeysAndCells(old) /\ KeysAndCells(old) \in Seq(Item)
  <2>1. new \in Seq(Buckets) /\ old \in Seq(Buckets)
    BY <1>1, <1>4, HashFacts DEF Rebound
  <2> QED BY <2>1, <1>1, HashOf, HashFacts, KeysAndCellsType
<1> HIDE DEF body
<1>6. /\ Typed /\ heap \in [Object -> Body] /\ lost \in [Counted -> Nat] /\ held \subseteq Object
  BY DEF IInv, Typed
<1>7. taken \in Seq(Pointer) /\ AllAlive(taken)
  BY <1>0, <1>1, AliveTuples
<1> HIDE DEF taken
<1>8. /\ heap' \in [Object -> Body] /\ heap'[h] = body /\ heap'[cell] = Value
      /\ \A x \in Object \ {h, cell} : heap'[x] = heap[x]
  <2> DEFINE mid == Put(heap, cell, Value)
  <2>1. Replaced(heap, cell, Value, mid)
    BY <1>6, SimpleBodies, HeapPut
  <2> HIDE DEF mid
  <2>2. Replaced(mid, h, body, heap')
    <3>1. mid \in [Object -> Body] /\ heap' = Put(mid, h, body)
      BY <2>1, <1>2 DEF Replaced, mid
    <3> QED BY <3>1, <1>1, <1>5, HeapPut
  <2> QED BY <2>1, <2>2, <1>1, <1>2 DEF Replaced
<1>9. Typed'
  <2>1. refCnt' \in [Counted -> Nat]
    <3>1. Plus(refCnt, taken) \in [Counted -> Nat]
      BY <1>6, <1>7, PlusCounts
    <3> QED BY <3>1, <1>2
  <2>2. held' \subseteq Object /\ todo' \in Seq(Pointer)
    BY <1>1, <1>2, <1>6
  <2>3. bound' \in [Object -> SUBSET Buckets]
    BY <1>0, <1>1, <1>2, <1>3, <1>6, BoundType
  <2>4. pending' \in PendingType
    BY <1>2, <1>6 DEF Typed
  <2> QED BY <2>1, <2>2, <2>3, <2>4, <1>2, <1>6, <1>8, TypedPending
<1>10. ArrayFits(cell)' /\ Linked(cell)' /\ ArrayFits(h)' /\ Linked(h)'
  <2>1. heap'[h].kind = "hash" /\ heap'[cell].kind = "value"
    BY <1>5, <1>8, SimpleBodies
  <2> QED BY <2>1 DEF ArrayFits, Linked
<1>11. BoundFits' /\ BindingsKept'
  <2>1. heap'[h] = Hash(new)
    BY <1>8 DEF body
  <2>2. \A g \in Object \ {h} : \/ heap'[g] = heap[g]
                                \/ heap[g].kind # "hash" /\ heap'[g].kind # "hash"
    BY <1>2, <1>8, SimpleBodies
  <2> QED BY <2>1, <2>2, <1>1, <1>2, <1>4, BindingsOne
<1>12. BalancedBoth(cell, 2, Value, h, body, taken)
  <2> SUFFICES ASSUME NEW o \in Counted
               PROVE  Occurrences(taken, o) + Some(cell, 2, o) + Occurrences(References(heap[h]), o)
                      + Held(o) + Masked(o)'
                        = Occurrences(References(Value), o) + Occurrences(References(body), o)
                          + Held(o)' + Occurrences(todo', o) + Occurrences(pending'.then, o)
                          + One(pending'.value, o)
    BY DEF BalancedBoth
  <2> DEFINE oh == One(h, o)
             oc == One(c, o)
             oo == One(cell, o)
             ok == One(kept, o)
             re == Occurrences(KeysAndCells(old), o)
             he == Held(o)
             hen == Held(o)'
  <2>1. hen + oc = he + oo
    <3>1. cell \notin held
      BY <1>1, <1>2, FreeIsUnreferred
    <3> QED BY <3>1, <1>1, <1>2 DEF Held, One
  <2>2. /\ oh \in Nat /\ oc \in Nat /\ oo \in Nat /\ re \in Nat /\ he \in Nat /\ hen \in Nat
        /\ ok \in Nat
    BY <1>5, WhereFinite DEF Held, One
  <2>3. (oh + ok) + (oo + oo) + re + he + 0 = 0 + (re + ok + oo) + hen + (oh + oc) + 0 + 0
    <3>1. hen + oc = he + oo
      BY <2>1
    <3>2. /\ oh \in Nat /\ oc \in Nat /\ oo \in Nat /\ re \in Nat /\ he \in Nat /\ hen \in Nat
        /\ ok \in Nat
      BY <2>2
    <3> HIDE DEF oh, oc, oo, ok, re, he, hen
    <3> QED BY <3>1, <3>2
  <2>4. Masked(o)' = 0 /\ Occurrences(pending'.then, o) = 0 /\ One(pending'.value, o) = 0
    BY <1>1, <1>2, NothingPending
  <2>5. Some(cell, 2, o) = oo + oo
    BY DEF Some, One
  <2>6. Occurrences(taken, o) = oh + ok /\ Occurrences(todo', o) = oh + oc
    BY <1>2, OccTwo DEF taken
  <2>7. /\ Occurrences(References(heap[h]), o) = re /\ Occurrences(References(body), o) = re + ok + oo
        /\ Occurrences(References(Value), o) = 0
    BY <1>0, <1>4, <1>5, SimpleBodies, OccEmpty
  <2> HIDE DEF oh, oc, oo, ok, re, he, hen
  <2> QED BY <2>3, <2>4, <2>5, <2>6, <2>7 DEF he, hen
<1>13. PendingFits' /\ Value \in Body /\ Value.kind # "free" /\ heap[h].kind # "free"
       /\ body.kind = heap[h].kind /\ 2 \in Nat /\ 2 > 0
  BY <1>1, <1>2, <1>5, NothingPending, SimpleBodies
<1> QED BY <1>1, <1>2, <1>5, <1>7, <1>9, <1>10, <1>11, <1>12, <1>13, NewAndChangeStep

-----------------------------------------------------------------------------
(* bind_key                                                                 *)

LEMMA PairThen ==
    ASSUME NEW x \in Pointer, NEW y \in Pointer, NEW t \in Seq(Pointer), NEW o
    PROVE  /\ <<x, y>> \o t \in Seq(Pointer)
           /\ Occurrences(<<x, y>> \o t, o) = One(x, o) + One(y, o) + Occurrences(t, o)
<1> DEFINE xy == <<x, y>>
<1>1. xy \in Seq(Pointer) /\ Occurrences(xy, o) = One(x, o) + One(y, o)
  BY OccTwo
<1> HIDE DEF xy
<1>2. xy \o t \in Seq(Pointer) /\ Occurrences(xy \o t, o) = Occurrences(xy, o) + Occurrences(t, o)
  BY <1>1, OccConcat
<1> QED BY <1>1, <1>2 DEF xy

LEMMA BindArguments ==
    ASSUME IInv, Idle, NEW c \in Object, heap[c].kind = "capture", Len(At(c).positional) = 2
    PROVE  /\ KeyOf(At(c).positional[1]) \in Item
           /\ Kept(At(c).positional[1]) \in Pointer /\ Alive(Kept(At(c).positional[1]))
           /\ \A o \in Counted : One(Kept(At(c).positional[1]), o) = One(KeyOf(At(c).positional[1]), o)
           /\ At(c).positional[2] \in Item /\ At(c).positional[2] \in Pointer
           /\ Alive(At(c).positional[2])
<1>1. At(c).positional \in Seq(Item)
  BY CaptureContents DEF CaptureBody
<1>2. 1 \in DOMAIN At(c).positional /\ 2 \in DOMAIN At(c).positional
  BY <1>1
<1>3. /\ At(c).positional[1] \in Item /\ Alive(At(c).positional[1])
      /\ At(c).positional[2] \in Item /\ Alive(At(c).positional[2])
  BY <1>2, KeyArgument
<1> QED BY <1>3, KeyFacts, PointerSets

\* What a hash does that has the key
PutsLater(h, i, value, x, d, then) ==
    /\ todo' = <<h, d>> \o <<x>>
    /\ pending' = Pending("bind_key", h, 2 * i, value, then)
    /\ bound' = bound

\* What a hash does that has not
Appends(h, key, value, d, then) ==
    /\ todo' = <<h, d>> \o then
    /\ bound' = [bound EXCEPT ![h] = Bound(@, key, value)]
    /\ pending' = pending

\* The state of a handler that has put off the change of a bucket
HasPutOff(h, value, x, d, then) ==
    /\ pending' \in PendingType /\ pending'.then = then /\ pending'.value = value
    /\ PendingFits' /\ todo' \in Seq(Pointer)
    /\ \A o : /\ Masked(o)' = One(x, o)
              /\ Occurrences(todo', o) = One(h, o) + One(d, o) + One(x, o)

LEMMA PutsLaterFacts ==
    ASSUME IInv, Idle, NEW h \in Object, heap'[h] = heap[h], heap[h].kind = "hash",
           NEW i \in DOMAIN heap[h].buckets, NEW value \in Item, NEW then \in Seq(Pointer),
           NEW d \in Object, NEW x, x = heap[h].buckets[i].cell,
           PutsLater(h, i, value, x, d, then)
    PROVE  HasPutOff(h, value, x, d, then)
<1>1. /\ heap[h].buckets \in Seq(Buckets)
      /\ References(heap[h]) = KeysAndCells(heap[h].buckets)
  BY HashFacts
<1>2. /\ i \in Nat /\ 2 * i \in Nat /\ x \in Item
      /\ KeysAndCells(heap[h].buckets)[2 * i] = x
  <2>1. i \in Nat /\ heap[h].buckets[i].cell \in Item
    BY <1>1, BucketAt
  <2> QED BY <2>1, <1>1, KeysAndCellsType
<1>3. h \in Pointer /\ d \in Pointer /\ value \in Pointer /\ x \in Pointer
  BY <1>2, PointerSets
<1>4. pending' = Pending("bind_key", h, 2 * i, value, then)
  BY DEF PutsLater
<1>5. /\ pending' \in PendingType /\ pending'.op = "bind_key" /\ pending'.obj = h /\ pending'.slot = 2 * i
      /\ pending'.value = value /\ pending'.then = then
  BY <1>2, <1>3, <1>4, PendingOf, SMTT(30)
<1>6. PendingFits'
  BY <1>5 DEF PendingFits
<1>7. \A o : Masked(o)' = One(x, o)
  <2>1. References(heap'[h])[2 * i] = x
    BY <1>1, <1>2
  <2> QED BY <2>1, <1>5 DEF Masked
<1>8. todo' \in Seq(Pointer) /\ \A o : Occurrences(todo', o) = One(h, o) + One(d, o) + One(x, o)
  <2>1. <<x>> \in Seq(Pointer)
    BY <1>3
  <2>2. \A o : /\ <<h, d>> \o <<x>> \in Seq(Pointer)
               /\ Occurrences(<<h, d>> \o <<x>>, o) = One(h, o) + One(d, o) + Occurrences(<<x>>, o)
    BY <2>1, <1>3, PairThen
  <2>3. todo' = <<h, d>> \o <<x>>
    BY DEF PutsLater
  <2> QED BY <2>2, <2>3, OccOne
<1> QED BY <1>5, <1>6, <1>7, <1>8 DEF HasPutOff

\* The state of one that has made a bucket
HasAppended(h, key, value, d, then) ==
    /\ Hash(Longer(h, key, value)) \in Body /\ Hash(Longer(h, key, value)).kind = "hash"
    /\ \A o : Occurrences(References(Hash(Longer(h, key, value))), o)
                 = Occurrences(References(heap[h]), o) + One(key, o) + One(value, o)
    /\ BoundFits' /\ BindingsKept' /\ PendingFits' /\ todo' \in Seq(Pointer)
    /\ bound' \in [Object -> SUBSET Buckets]
    /\ \A o : Occurrences(todo', o) = One(h, o) + One(d, o) + Occurrences(then, o)

LEMMA AppendsFacts ==
    ASSUME IInv, Idle, NEW h \in Object, heap[h].kind = "hash", NEW key \in Item, NEW value \in Item,
           Found(h, key) = {}, NEW d \in Object, NEW then \in Seq(Pointer),
           Appends(h, key, value, d, then), heap'[h] = Hash(Longer(h, key, value)),
           \A g \in Object \ {h} : \/ heap'[g] = heap[g]
                                   \/ heap[g].kind # "hash" /\ heap'[g].kind # "hash"
    PROVE  HasAppended(h, key, value, d, then)
<1> PICK new : new = Longer(h, key, value)
  OBVIOUS
<1>1. /\ Rebound(h, key, value, new)
      /\ \A o : Occurrences(KeysAndCells(new), o)
                   = Occurrences(KeysAndCells(heap[h].buckets), o) + One(key, o) + One(value, o)
  BY AppendBucket
<1>2. /\ Hash(new) \in Body /\ Hash(new).kind = "hash" /\ References(Hash(new)) = KeysAndCells(new)
      /\ References(heap[h]) = KeysAndCells(heap[h].buckets)
  <2>1. new \in Seq(Buckets)
    BY <1>1 DEF Rebound
  <2> QED BY <2>1, HashOf, HashFacts
<1>3. BoundFits' /\ BindingsKept'
  <2>1. bound' = [bound EXCEPT ![h] = Bound(@, key, value)]
    BY DEF Appends
  <2>2. heap'[h] = Hash(new)
    OBVIOUS
  <2> QED BY <2>1, <2>2, <1>1, BindingsOne
<1>4. bound' \in [Object -> SUBSET Buckets]
  BY BoundType DEF IInv, Appends
<1>5. PendingFits'
  BY NothingPending DEF Appends
<1>6. todo' \in Seq(Pointer)
      /\ \A o : Occurrences(todo', o) = One(h, o) + One(d, o) + Occurrences(then, o)
  <2>1. h \in Pointer /\ d \in Pointer
    BY PointerSets
  <2> QED BY <2>1, PairThen DEF Appends
<1> QED BY <1>1, <1>2, <1>3, <1>4, <1>5, <1>6 DEF HasAppended

LEMMA BindKeyStep ==
    ASSUME IInv, NEW c \in Object, Receives(c, "hash"), BindKey(c)
    PROVE  IInv'
<1> PICK h : h = capture_invocant(c)
  OBVIOUS
<1> PICK key : key = KeyOf(At(c).positional[1])
  OBVIOUS
<1> PICK kept : kept = Kept(At(c).positional[1])
  OBVIOUS
<1> PICK value : value = At(c).positional[2]
  OBVIOUS
<1> PICK i : i = Min(Found(h, key))
  OBVIOUS
<1> DEFINE taken == <<h, kept, value>>
<1>1. /\ Idle /\ c \in held /\ c \in Pointer /\ Alive(c) /\ h \in Object /\ h \in Pointer /\ Alive(h)
      /\ heap[c].kind = "capture" /\ heap[h].kind = "hash" /\ At(c) = heap[c] /\ h # c
  BY ReceiverFacts
<1>2. /\ Bind(h, c, heap[c], <<>>) /\ Len(At(c).positional) = 2
      /\ refCnt' = Plus(refCnt, taken) /\ held' = held \ {c} /\ UNCHANGED <<chain, client>>
  BY <1>1 DEF BindKey, Bind
<1>3. /\ key \in Item /\ kept \in Pointer /\ Alive(kept)
      /\ \A o \in Counted : One(kept, o) = One(key, o)
      /\ value \in Item /\ value \in Pointer /\ Alive(value)
  BY <1>1, <1>2, BindArguments
<1>4. /\ Typed /\ heap \in [Object -> Body] /\ lost \in [Counted -> Nat] /\ held \subseteq Object
      /\ bound \in [Object -> SUBSET Buckets] /\ pending \in PendingType
  BY DEF IInv, Typed
<1>5. taken \in Seq(Pointer) /\ AllAlive(taken) /\ <<>> \in Seq(Pointer)
  <2>1. <<>> \in Seq(Pointer)
    OBVIOUS
  <2> QED BY <2>1, <1>1, <1>3, AliveTuples
<1>6. \A o : Occurrences(taken, o) = One(h, o) + One(kept, o) + One(value, o)
  BY OccThree
<1> HIDE DEF taken
<1>7. refCnt' \in [Counted -> Nat] /\ held' \subseteq Object
  BY <1>2, <1>4, <1>5, PlusCounts
<1>8. \A o : Held(o)' + One(c, o) = Held(o)
  BY <1>1, <1>2 DEF Held, One
<1>9. CASE Found(h, key) = {}
  <2> DEFINE body == Hash(Longer(h, key, value))
  <2>1. heap' = Put(heap, h, body) /\ lost' = lost /\ Appends(h, key, value, c, <<>>)
    <3>1. /\ heap' = [heap EXCEPT ![c] = heap[c], ![h] = Hash(Append(@.buckets, Bucket(key, value)))]
          /\ bound' = [bound EXCEPT ![h] = Bound(@, key, value)]
          /\ todo' = <<h, c>> \o <<>> /\ UNCHANGED <<pending, lost>>
      BY <1>1, <1>2, <1>9 DEF Bind
    <3>2. [heap EXCEPT ![c] = heap[c]] = heap
      BY <1>4
    <3> QED BY <3>1, <3>2, Zenon DEF Put, Appends, Longer
  <2>2. /\ heap' \in [Object -> Body] /\ heap'[h] = body /\ \A g \in Object \ {h} : heap'[g] = heap[g]
    <3>1. body \in Body
      <4>1. Longer(h, key, value) \in Seq(Buckets)
        BY <1>1, <1>3, <1>9, AppendBucket DEF Rebound
      <4> QED BY <4>1, HashOf
    <3> HIDE DEF body
    <3>2. Replaced(heap, h, body, heap')
      BY <2>1, <3>1, <1>1, <1>4, HeapPut
    <3> QED BY <3>2, <1>1 DEF Replaced
  <2>3. /\ body \in Body /\ body.kind = "hash"
        /\ \A o : Occurrences(References(body), o)
                     = Occurrences(References(heap[h]), o) + One(key, o) + One(value, o)
        /\ BoundFits' /\ BindingsKept' /\ PendingFits' /\ todo' \in Seq(Pointer)
        /\ bound' \in [Object -> SUBSET Buckets]
        /\ \A o : Occurrences(todo', o) = One(h, o) + One(c, o) + Occurrences(<<>>, o)
    <3>1. HasAppended(h, key, value, c, <<>>)
      BY <1>1, <1>3, <1>5, <1>9, <2>1, <2>2, AppendsFacts
    <3> QED BY <3>1 DEF HasAppended
  <2> HIDE DEF body
  <2>4. Typed'
    <3>1. pending' \in PendingType
      BY <2>1, <1>4 DEF Appends
    <3> QED BY <3>1, <1>2, <1>4, <1>7, <2>1, <2>2, <2>3, TypedPending
  <2>5. ArrayFits(h)' /\ Linked(h)'
    <3>1. heap'[h].kind = "hash"
      BY <2>2, <2>3
    <3> QED BY <3>1 DEF ArrayFits, Linked
  <2>6. BalancedChange(h, body, taken)
    <3> SUFFICES ASSUME NEW o \in Counted
                 PROVE  Occurrences(taken, o) + Occurrences(References(heap[h]), o) + Held(o) + Masked(o)'
                          = Occurrences(References(body), o) + Held(o)' + Occurrences(todo', o)
                            + Occurrences(pending'.then, o) + One(pending'.value, o)
      BY DEF BalancedChange
    <3> DEFINE oh == One(h, o)
               oc == One(c, o)
               ov == One(value, o)
               ok == One(kept, o)
               re == Occurrences(References(heap[h]), o)
               he == Held(o)
               hen == Held(o)'
    <3>1. hen + oc = he
      BY <1>8
    <3>2. oh \in Nat /\ oc \in Nat /\ ov \in Nat /\ ok \in Nat /\ re \in Nat /\ he \in Nat /\ hen \in Nat
      <4>1. References(heap[h]) \in Seq(Pointer)
        BY <1>1, <1>4, ReferencesOf
      <4> QED BY <4>1, WhereFinite DEF Held, One
    <3>3. (oh + ok + ov) + re + he + 0 = (re + ok + ov) + hen + (oh + oc + 0) + 0 + 0
      <4> HIDE DEF oh, oc, ov, ok, re, he, hen
      <4> QED BY <3>1, <3>2
    <3>4. Masked(o)' = 0 /\ Occurrences(pending'.then, o) = 0 /\ One(pending'.value, o) = 0
      BY <1>1, <2>1, NothingPending DEF Appends
    <3>5. Occurrences(todo', o) = oh + oc + 0
      BY <2>3, OccEmpty
    <3> QED BY <1>3, <1>6, <2>3, <3>3, <3>4, <3>5
  <2> QED BY <1>1, <1>2, <1>5, <2>1, <2>3, <2>4, <2>5, <2>6, ChangeStep
<1>10. CASE Found(h, key) # {}
  <2> DEFINE body == heap[h]
             x == heap[h].buckets[i].cell
  <2>1. i \in DOMAIN heap[h].buckets /\ i \in Nat
    BY <1>1, <1>10, FoundFirst
  <2>2. /\ heap' = heap /\ bound' = bound /\ lost' = Plus(lost, <<kept>>)
        /\ PutsLater(h, i, value, x, c, <<>>)
    <3>1. /\ heap' = [heap EXCEPT ![c] = heap[c]]
          /\ bound' = bound /\ todo' = <<h, c>> \o <<heap[h].buckets[i].cell>>
          /\ pending' = Pending("bind_key", h, 2 * i, value, <<>>)
          /\ lost' = Plus(lost, <<kept>>)
      BY <1>1, <1>2, <1>10, Zenon DEF Bind, Forgets
    <3>2. [heap EXCEPT ![c] = heap[c]] = heap
      BY <1>4
    <3> QED BY <3>1, <3>2 DEF PutsLater
  <2>3. body \in Body /\ heap' = Put(heap, h, body) /\ body.kind = heap[h].kind /\ heap[h].kind # "free"
    BY <1>1, <1>4, <2>2 DEF Put
  <2>4. heap'[h] = heap[h]
    BY <2>2
  <2> HIDE DEF x
  <2>5. /\ pending' \in PendingType /\ pending'.then = <<>> /\ pending'.value = value
        /\ PendingFits' /\ todo' \in Seq(Pointer)
        /\ \A o : /\ Masked(o)' = One(x, o)
                  /\ Occurrences(todo', o) = One(h, o) + One(c, o) + One(x, o)
    <3>1. HasPutOff(h, value, x, c, <<>>)
      BY <1>1, <1>3, <1>5, <2>1, <2>2, <2>4, PutsLaterFacts DEF x
    <3> QED BY <3>1 DEF HasPutOff
  <2>10. lost' \in [Counted -> Nat] /\ \A o \in Counted : lost'[o] = lost[o] + One(kept, o)
    BY <1>3, <1>4, <2>2, OneForgotten
  <2>6. Typed'
    BY <1>2, <1>4, <1>7, <2>2, <2>5, <2>10, TypedPending
  <2>7. ArrayFits(h)' /\ Linked(h)'
    <3>1. heap'[h].kind = "hash"
      BY <1>1, <2>2
    <3> QED BY <3>1 DEF ArrayFits, Linked
  <2>8. BoundFits' /\ BindingsKept'
    BY <2>2, BindingsSame
  <2>9. BalancedChangeBut(h, body, taken)
    <3> SUFFICES ASSUME NEW o \in Counted
                 PROVE  Occurrences(taken, o) + Occurrences(References(heap[h]), o) + Held(o) + Masked(o)'
                        + lost[o]
                          = Occurrences(References(body), o) + Held(o)' + Occurrences(todo', o)
                            + Occurrences(pending'.then, o) + One(pending'.value, o) + lost'[o]
      BY DEF BalancedChangeBut
    <3> DEFINE oh == One(h, o)
               oc == One(c, o)
               ov == One(value, o)
               ok == One(kept, o)
               ox == One(x, o)
               lo == lost[o]
               re == Occurrences(References(heap[h]), o)
               he == Held(o)
               hen == Held(o)'
    <3>1. hen + oc = he
      BY <1>8
    <3>2. /\ oh \in Nat /\ oc \in Nat /\ ov \in Nat /\ ox \in Nat /\ re \in Nat /\ he \in Nat /\ hen \in Nat
          /\ ok \in Nat /\ lo \in Nat
      <4>1. References(heap[h]) \in Seq(Pointer)
        BY <1>1, <1>4, ReferencesOf
      <4> QED BY <4>1, <1>4, WhereFinite DEF Held, One
    <3>3. (oh + ok + ov) + re + he + ox + lo = re + hen + (oh + oc + ox) + 0 + ov + (lo + ok)
      <4> HIDE DEF oh, oc, ov, ok, ox, lo, re, he, hen
      <4> QED BY <3>1, <3>2
    <3> QED BY <1>6, <2>5, <2>10, <3>3, OccEmpty
  <2> HIDE DEF body
  <2> QED BY <1>1, <1>2, <1>5, <2>2, <2>3, <2>5, <2>6, <2>7, <2>8, <2>9, ChangeButStep
<1> QED BY <1>9, <1>10

LEMMA ScopeBindStep ==
    ASSUME IInv, NEW c \in Object, Receives(c, "scope"), NEW d \in Object, ScopeBind(c, d)
    PROVE  IInv'
<1> PICK s : s = capture_invocant(c)
  OBVIOUS
<1> PICK h : h = heap[s].entries
  OBVIOUS
<1> PICK key : key = KeyOf(At(c).positional[1])
  OBVIOUS
<1> PICK kept : kept = Kept(At(c).positional[1])
  OBVIOUS
<1> PICK value : value = At(c).positional[2]
  OBVIOUS
<1> PICK i : i = Min(Found(h, key))
  OBVIOUS
<1> PICK new : new = Delegate(c)
  OBVIOUS
<1> DEFINE first == <<s, h, kept, value>>
           taken == first \o References(new)
           then == <<s, c>>
<1>1. /\ Idle /\ c \in held /\ c \in Pointer /\ Alive(c) /\ s \in Object /\ s \in Pointer /\ Alive(s)
      /\ heap[c].kind = "capture" /\ heap[s].kind = "scope" /\ At(c) = heap[c]
  BY ReceiverFacts
<1>2. /\ Unused(d, "capture") /\ Passed(c) = <<>>
      /\ Bind(h, d, new, then)
      /\ refCnt' = [Plus(refCnt, taken) EXCEPT ![d] = 1]
      /\ held' = held \ {c} /\ UNCHANGED <<chain, client>>
  BY Zenon DEF ScopeBind
<1>3. /\ h \in Object /\ Alive(h) /\ heap[h].kind = "hash"
      /\ new \in CaptureBody /\ new.positional = At(c).positional
      /\ References(new) \in Seq(Pointer) /\ AllAlive(References(new))
  BY <1>2, DelegateFacts
<1>4. Len(At(c).positional) = 2
  BY <1>2, <1>3 DEF Bind
<1>5. /\ key \in Item /\ kept \in Pointer /\ Alive(kept)
      /\ \A o \in Counted : One(kept, o) = One(key, o)
      /\ value \in Item /\ value \in Pointer /\ Alive(value)
  BY <1>1, <1>4, BindArguments
<1>6. heap[d].kind = "free" /\ d # h /\ h \in Pointer
  BY <1>2, <1>3, PointerSets DEF Unused
<1>7. /\ Typed /\ heap \in [Object -> Body] /\ lost \in [Counted -> Nat] /\ held \subseteq Object
      /\ bound \in [Object -> SUBSET Buckets] /\ pending \in PendingType
  BY DEF IInv, Typed
<1>8. new \in Body /\ new.kind = "capture"
  BY <1>3 DEF Body, CaptureBody
<1>9. /\ taken \in Seq(Pointer) /\ AllAlive(taken) /\ then \in Seq(Pointer)
      /\ \A o : /\ Occurrences(then, o) = One(s, o) + One(c, o)
                /\ Occurrences(taken, o) = One(s, o) + One(h, o) + One(kept, o) + One(value, o)
                                           + Occurrences(References(new), o)
  <2>1. first \in Seq(Pointer) /\ AllAlive(first) /\ then \in Seq(Pointer)
    BY <1>1, <1>3, <1>5, <1>6, AliveTuples, OccFour
  <2>2. \A o : /\ Occurrences(first, o) = One(s, o) + One(h, o) + One(kept, o) + One(value, o)
               /\ Occurrences(then, o) = One(s, o) + One(c, o)
    BY <1>1, <1>5, <1>6, OccTwo, OccFour
  <2> HIDE DEF first, then
  <2>3. taken \in Seq(Pointer) /\ AllAlive(taken)
    BY <2>1, <1>3, ConcatAlive
  <2>4. \A o : Occurrences(taken, o) = Occurrences(first, o) + Occurrences(References(new), o)
    BY <2>1, <1>3, OccConcat
  <2> QED BY <2>1, <2>2, <2>3, <2>4
<1> HIDE DEF taken, then
<1>10. refCnt' \in [Counted -> Nat] /\ held' \subseteq Object
  <2>1. Plus(refCnt, taken) \in [Counted -> Nat]
    BY <1>7, <1>9, PlusCounts
  <2> QED BY <2>1, <1>2, <1>7
<1>11. \A o : Held(o)' + One(c, o) = Held(o)
  BY <1>1, <1>2 DEF Held, One
<1>12. ASSUME NEW body \in Body, body.kind = "hash", heap' = Put(Put(heap, d, new), h, body)
       PROVE  /\ heap' \in [Object -> Body] /\ heap'[h] = body /\ heap'[d] = new
              /\ \A g \in Object \ {h, d} : heap'[g] = heap[g]
              /\ ArrayFits(d)' /\ Linked(d)' /\ ArrayFits(h)' /\ Linked(h)'
  <2> DEFINE mid == Put(heap, d, new)
  <2>1. Replaced(heap, d, new, mid)
    BY <1>7, <1>8, HeapPut
  <2>2. heap' = Put(mid, h, body)
    BY <1>12
  <2> HIDE DEF mid
  <2>3. Replaced(mid, h, body, heap')
    <3>1. mid \in [Object -> Body] /\ h \in Object /\ body \in Body
      BY <2>1, <1>3 DEF Replaced
    <3>2. Replaced(mid, h, body, Put(mid, h, body))
      BY <3>1, HeapPut
    <3> QED BY <3>2, <2>2
  <2>4. /\ heap' \in [Object -> Body] /\ heap'[h] = body /\ heap'[d] = new
        /\ \A g \in Object \ {h, d} : heap'[g] = heap[g]
    BY <2>1, <2>3, <1>3, <1>6 DEF Replaced
  <2>5. heap'[h].kind = "hash" /\ heap'[d].kind = "capture"
    BY <2>4, <1>8, <1>12
  <2>6. ArrayFits(d)' /\ Linked(d)' /\ ArrayFits(h)' /\ Linked(h)'
    BY <2>5 DEF ArrayFits, Linked
  <2> QED BY <2>4, <2>6
<1>13. ASSUME NEW o \in Counted
       PROVE  /\ One(s, o) \in Nat /\ One(h, o) \in Nat /\ One(d, o) \in Nat /\ One(c, o) \in Nat
              /\ One(value, o) \in Nat /\ One(kept, o) \in Nat /\ lost[o] \in Nat /\ Held(o) \in Nat /\ Held(o)' \in Nat
              /\ Occurrences(References(heap[h]), o) \in Nat /\ Occurrences(References(new), o) \in Nat
              /\ Some(d, 1, o) = One(d, o)
  <2>1. References(heap[h]) \in Seq(Pointer)
    BY <1>3, <1>7, ReferencesOf
  <2> QED BY <2>1, <1>3, <1>7, WhereFinite DEF Held, One, Some
<1>14. CASE Found(h, key) = {}
  <2> DEFINE body == Hash(Longer(h, key, value))
  <2>1. heap' = Put(Put(heap, d, new), h, body) /\ lost' = lost /\ Appends(h, key, value, d, then)
    <3>1. /\ heap' = [heap EXCEPT ![d] = new, ![h] = Hash(Append(@.buckets, Bucket(key, value)))]
          /\ bound' = [bound EXCEPT ![h] = Bound(@, key, value)]
          /\ todo' = <<h, d>> \o then /\ UNCHANGED <<pending, lost>>
      BY <1>2, <1>3, <1>14 DEF Bind
    <3>2. [heap EXCEPT ![d] = new][h] = heap[h]
      BY <1>6, <1>7
    <3> QED BY <3>1, <3>2 DEF Put, Appends, Longer
  <2>2. body \in Body /\ body.kind = "hash"
    <3>1. Longer(h, key, value) \in Seq(Buckets)
      BY <1>3, <1>5, <1>14, AppendBucket DEF Rebound
    <3> QED BY <3>1, HashOf
  <2> HIDE DEF body
  <2>3. /\ heap' \in [Object -> Body] /\ heap'[h] = body /\ heap'[d] = new
        /\ \A g \in Object \ {h, d} : heap'[g] = heap[g]
        /\ ArrayFits(d)' /\ Linked(d)' /\ ArrayFits(h)' /\ Linked(h)'
    BY <1>12, <2>1, <2>2
  <2>4. \A g \in Object \ {h} : \/ heap'[g] = heap[g]
                                \/ heap[g].kind # "hash" /\ heap'[g].kind # "hash"
    BY <2>3, <1>6, <1>8
  <2>5. HasAppended(h, key, value, d, then)
    BY <1>1, <1>3, <1>5, <1>9, <1>14, <2>1, <2>3, <2>4, AppendsFacts DEF body
  <2>6. /\ \A o : Occurrences(References(body), o)
                     = Occurrences(References(heap[h]), o) + One(key, o) + One(value, o)
        /\ BoundFits' /\ BindingsKept' /\ PendingFits' /\ todo' \in Seq(Pointer)
        /\ bound' \in [Object -> SUBSET Buckets]
        /\ \A o : Occurrences(todo', o) = One(h, o) + One(d, o) + Occurrences(then, o)
    BY <2>5 DEF HasAppended, body
  <2>7. Typed'
    <3>1. pending' \in PendingType
      BY <2>1, <1>7 DEF Appends
    <3> QED BY <3>1, <1>2, <1>7, <1>10, <2>1, <2>3, <2>6, TypedPending
  <2>8. BalancedBoth(d, 1, new, h, body, taken)
    <3> SUFFICES ASSUME NEW o \in Counted
                 PROVE  Occurrences(taken, o) + Some(d, 1, o) + Occurrences(References(heap[h]), o)
                        + Held(o) + Masked(o)'
                          = Occurrences(References(new), o) + Occurrences(References(body), o)
                            + Held(o)' + Occurrences(todo', o) + Occurrences(pending'.then, o)
                            + One(pending'.value, o)
      BY DEF BalancedBoth
    <3> DEFINE os == One(s, o)
               oh == One(h, o)
               oc == One(c, o)
               od == One(d, o)
               ov == One(value, o)
               ok == One(kept, o)
               re == Occurrences(References(heap[h]), o)
               rd == Occurrences(References(new), o)
               he == Held(o)
               hen == Held(o)'
    <3>1. hen + oc = he
      BY <1>11
    <3>2. (os + oh + ok + ov + rd) + od + re + he + 0
            = rd + (re + ok + ov) + hen + (oh + od + (os + oc)) + 0 + 0
      <4>1. /\ os \in Nat /\ oh \in Nat /\ oc \in Nat /\ od \in Nat /\ ov \in Nat /\ re \in Nat
            /\ rd \in Nat /\ he \in Nat /\ hen \in Nat /\ ok \in Nat
        BY <1>13
      <4> HIDE DEF os, oh, oc, od, ov, ok, re, rd, he, hen
      <4> QED BY <3>1, <4>1
    <3>3. Masked(o)' = 0 /\ Occurrences(pending'.then, o) = 0 /\ One(pending'.value, o) = 0
      BY <1>1, <2>1, NothingPending DEF Appends
    <3> QED BY <1>5, <1>9, <1>13, <2>6, <3>2, <3>3, ZenonT(40)
  <2>9. new.kind # "free" /\ heap[h].kind # "free" /\ body.kind = heap[h].kind /\ 1 \in Nat /\ 1 > 0
    BY <1>3, <1>8, <2>2
  <2> QED BY <1>1, <1>2, <1>3, <1>6, <1>8, <1>9, <2>1, <2>2, <2>3, <2>6, <2>7, <2>8, <2>9, NewAndChangeStep
<1>15. CASE Found(h, key) # {}
  <2> DEFINE body == heap[h]
             x == heap[h].buckets[i].cell
  <2>1. i \in DOMAIN heap[h].buckets /\ i \in Nat
    BY <1>3, <1>15, FoundFirst
  <2>2. /\ heap' = Put(Put(heap, d, new), h, body) /\ bound' = bound
        /\ lost' = Plus(lost, <<kept>>) /\ PutsLater(h, i, value, x, d, then)
    <3>1. /\ heap' = [heap EXCEPT ![d] = new]
          /\ bound' = bound /\ todo' = <<h, d>> \o <<heap[h].buckets[i].cell>>
          /\ pending' = Pending("bind_key", h, 2 * i, value, then)
          /\ lost' = Plus(lost, <<kept>>)
      <4>1. /\ KeyOf(new.positional[1]) = key /\ Kept(new.positional[1]) = kept
            /\ new.positional[2] = value
        BY <1>3
      <4> QED BY <4>1, <1>2, <1>15, Zenon DEF Bind, Forgets
    <3>2. Put(Put(heap, d, new), h, heap[h]) = [heap EXCEPT ![d] = new]
      BY <1>3, <1>6, <1>7 DEF Put
    <3> QED BY <3>1, <3>2 DEF PutsLater
  <2>3. body \in Body /\ body.kind = "hash"
    BY <1>3, <1>7
  <2> HIDE DEF body, x
  <2>4. /\ heap' \in [Object -> Body] /\ heap'[h] = body /\ heap'[d] = new
        /\ \A g \in Object \ {h, d} : heap'[g] = heap[g]
        /\ ArrayFits(d)' /\ Linked(d)' /\ ArrayFits(h)' /\ Linked(h)'
    BY <1>12, <2>2, <2>3
  <2>5. heap'[h] = heap[h]
    BY <2>4 DEF body
  <2>6. HasPutOff(h, value, x, d, then)
    BY <1>1, <1>3, <1>5, <1>9, <2>1, <2>2, <2>5, PutsLaterFacts DEF x
  <2>7. /\ pending' \in PendingType /\ pending'.then = then /\ pending'.value = value
        /\ PendingFits' /\ todo' \in Seq(Pointer)
        /\ \A o : /\ Masked(o)' = One(x, o)
                  /\ Occurrences(todo', o) = One(h, o) + One(d, o) + One(x, o)
    BY <2>6 DEF HasPutOff
  <2>12. lost' \in [Counted -> Nat] /\ \A o \in Counted : lost'[o] = lost[o] + One(kept, o)
    BY <1>5, <1>7, <2>2, OneForgotten
  <2>8. Typed'
    BY <1>2, <1>7, <1>10, <2>2, <2>4, <2>7, <2>12, TypedPending
  <2>9. BoundFits' /\ BindingsKept'
    <3>1. \A g \in Object : \/ heap'[g] = heap[g]
                            \/ heap[g].kind = "free" /\ heap'[g] = Hash(<<>>)
                            \/ heap[g].kind # "hash" /\ heap'[g].kind # "hash"
      BY <2>4, <2>5, <1>6, <1>8
    <3> QED BY <3>1, <2>2, BindingsSame
  <2>10. BalancedBothBut(d, 1, new, h, body, taken)
    <3> SUFFICES ASSUME NEW o \in Counted
                 PROVE  Occurrences(taken, o) + Some(d, 1, o) + Occurrences(References(heap[h]), o)
                        + Held(o) + Masked(o)' + lost[o]
                          = Occurrences(References(new), o) + Occurrences(References(body), o)
                            + Held(o)' + Occurrences(todo', o) + Occurrences(pending'.then, o)
                            + One(pending'.value, o) + lost'[o]
      BY DEF BalancedBothBut
    <3> DEFINE os == One(s, o)
               oh == One(h, o)
               oc == One(c, o)
               od == One(d, o)
               ov == One(value, o)
               ok == One(kept, o)
               ox == One(x, o)
               lo == lost[o]
               re == Occurrences(References(heap[h]), o)
               rd == Occurrences(References(new), o)
               he == Held(o)
               hen == Held(o)'
    <3>1. hen + oc = he
      BY <1>11
    <3>2. (os + oh + ok + ov + rd) + od + re + he + ox + lo
            = rd + re + hen + (oh + od + ox) + (os + oc) + ov + (lo + ok)
      <4>1. /\ os \in Nat /\ oh \in Nat /\ oc \in Nat /\ od \in Nat /\ ov \in Nat /\ re \in Nat
            /\ rd \in Nat /\ he \in Nat /\ hen \in Nat /\ ox \in Nat
            /\ ok \in Nat /\ lo \in Nat
        BY <1>13 DEF One
      <4> HIDE DEF os, oh, oc, od, ov, ok, ox, lo, re, rd, he, hen
      <4> QED BY <3>1, <4>1
    <3> QED BY <1>9, <1>13, <2>7, <2>12, <3>2 DEF body
  <2>11. new.kind # "free" /\ heap[h].kind # "free" /\ body.kind = heap[h].kind /\ 1 \in Nat /\ 1 > 0
    BY <1>3, <1>8 DEF body
  <2> QED BY <1>1, <1>2, <1>3, <1>6, <1>8, <1>9, <2>2, <2>3, <2>4, <2>7, <2>8, <2>9, <2>10, <2>11, NewAndChangeButStep
<1> QED BY <1>14, <1>15

-----------------------------------------------------------------------------
(* Steps of a handler in the middle, and of the run loop                    *)

\* The slot that is released and not yet written
LEMMA MaskedIn ==
    ASSUME Typed, PendingFits, pending.op \in {"STORE", "bind_key"}
    PROVE  /\ pending.obj \in Object /\ heap[pending.obj].kind \in {"array", "hash"}
           /\ pending.slot \in DOMAIN References(heap[pending.obj])
<1>1. heap \in [Object -> Body]
  BY DEF Typed
<1>2. CASE pending.op = "STORE"
  <2>1. /\ pending.obj \in Object /\ heap[pending.obj].kind = "array"
        /\ pending.slot \in DOMAIN heap[pending.obj].content
    BY <1>2 DEF PendingFits
  <2>2. References(heap[pending.obj]) = heap[pending.obj].content
    BY <1>1, <2>1, ReferencesOf
  <2> QED BY <2>1, <2>2
<1>3. CASE pending.op = "bind_key"
  <2>1. /\ pending.obj \in Object /\ heap[pending.obj].kind = "hash"
        /\ \E n \in DOMAIN heap[pending.obj].buckets : pending.slot = 2 * n
    BY <1>3 DEF PendingFits
  <2>2. /\ References(heap[pending.obj]) = KeysAndCells(heap[pending.obj].buckets)
        /\ heap[pending.obj].buckets \in Seq(Buckets)
    <3>1. heap[pending.obj] \in HashBody
      BY <1>1, <2>1, BodyOfKind
    <3> QED BY <3>1, <1>1, <2>1, ReferencesOf DEF HashBody
  <2> QED BY <2>1, <2>2, KeysAndCellsType
<1> QED BY <1>2, <1>3

LEMMA SlotsType ==
    ASSUME Typed, PendingFits, NEW a \in Object
    PROVE  /\ Slots(a) \in Seq(Pointer)
           /\ heap[a].kind \notin {"array", "hash"} => Slots(a) = References(heap[a])
<1>1. References(heap[a]) \in Seq(Pointer)
  BY ReferencesOf DEF Typed
<1>2. CASE pending.obj = a /\ pending.op \in {"STORE", "bind_key"}
  <2>1. heap[a].kind \in {"array", "hash"} /\ pending.slot \in DOMAIN References(heap[a])
    BY <1>2, MaskedIn
  <2>2. Put(References(heap[a]), pending.slot, NoObject) \in Seq(Pointer)
    BY <1>1, <2>1, PutInSeq, PointerSets
  <2>3. Slots(a) = Put(References(heap[a]), pending.slot, NoObject)
    BY <1>2 DEF Slots, Put
  <2> QED BY <2>1, <2>2, <2>3
<1>3. CASE ~(pending.obj = a /\ pending.op \in {"STORE", "bind_key"})
  BY <1>1, <1>3 DEF Slots
<1> QED BY <1>2, <1>3

\* What is referred to is counted.
Owned(x) ==
    \/ x \in held \/ x \in Range(todo) \/ x \in Range(InHandler) \/ x = Interpreter
    \/ \E a \in Object : x \in Range(Slots(a))

LEMMA OwnedIsCounted ==
    ASSUME Typed, PendingFits, NEW x \in Counted, refCnt[x] = Owners(x), Owned(x)
    PROVE  refCnt[x] > 0
<1> DEFINE map == [a \in Object |-> Slots(a)]
<1>1. map \in [Object -> Seq(Pointer)]
  BY SlotsType
<1>2. IsFiniteSet(Referring(x)) /\ Cardinality(Referring(x)) \in Nat
  <2>1. Referring(x) = Pairs(map, x)
    BY DEF Referring, Pairs
  <2> HIDE DEF map
  <2> QED BY <1>1, <2>1, PairsFinite DEF InSlots
<1>3. todo \in Seq(Pointer) /\ InHandler \in Seq(Pointer) /\ lost[x] \in Nat
  BY DEF Typed, PendingType, InHandler
<1>4. Occurrences(todo, x) \in Nat /\ Occurrences(InHandler, x) \in Nat
  BY <1>3, WhereFinite
<1>5. x \in Range(todo) => Occurrences(todo, x) # 0
  BY <1>3, OccAbsent DEF Range
<1>6. x \in Range(InHandler) => Occurrences(InHandler, x) # 0
  BY <1>3, OccAbsent DEF Range
<1>7. (\E a \in Object : x \in Range(Slots(a))) => Cardinality(Referring(x)) # 0
  <2> SUFFICES ASSUME NEW a \in Object, x \in Range(Slots(a)) PROVE Cardinality(Referring(x)) # 0
    OBVIOUS
  <2>1. PICK i \in DOMAIN Slots(a) : Slots(a)[i] = x
    BY DEF Range
  <2>2. <<a, i>> \in Referring(x)
    BY <2>1 DEF Referring, Where
  <2> QED BY <2>2, <1>2, FS_EmptySet
<1>8. Owners(x) = Cardinality(Referring(x)) + Held(x) + Occurrences(todo, x)
                  + Occurrences(InHandler, x) + lost[x] + Root(x)
  BY DEF Owners, Held, Root
<1>9. Held(x) \in Nat /\ Root(x) \in Nat /\ (x \in held => Held(x) = 1) /\ (x = Interpreter => Root(x) = 1)
  BY DEF Held, Root
<1>10. \/ Held(x) # 0 \/ Occurrences(todo, x) # 0 \/ Occurrences(InHandler, x) # 0 \/ Root(x) # 0
       \/ Cardinality(Referring(x)) # 0
  BY <1>5, <1>6, <1>7, <1>9 DEF Owned
<1> QED BY <1>2, <1>3, <1>4, <1>8, <1>9, <1>10, SMTT(30)

\* The same of all objects, to be used of the next state
SlotsRight ==
    \A a \in Object :
       /\ Slots(a) \in Seq(Pointer)
       /\ heap[a].kind \notin {"array", "hash"} => Slots(a) = References(heap[a])
OwnedRight == \A x \in Counted : refCnt[x] = Owners(x) /\ Owned(x) => refCnt[x] > 0

LEMMA AllOwned == Typed /\ PendingFits => SlotsRight /\ OwnedRight
BY SlotsType, OwnedIsCounted DEF SlotsRight, OwnedRight

LEMMA SlotsNext ==
    ASSUME SlotsRight', NEW p \in Object, heap'[p].kind \notin {"array", "hash"}
    PROVE  Slots(p)' \in Seq(Pointer) /\ Slots(p)' = References(heap'[p])
BY DEF SlotsRight

\* Every reference still has one owner.
Moved(o) ==
    refCnt'[o] + Masked(o)' + InHeap(heap, o) + Held(o) + Occurrences(todo, o)
    + Occurrences(pending.then, o) + One(pending.value, o) + lost[o]
        = refCnt[o] + Masked(o) + InHeap(heap', o) + Held(o)' + Occurrences(todo', o)
          + Occurrences(pending'.then, o) + One(pending'.value, o) + lost'[o]

LEMMA CountsMoved ==
    ASSUME IInv, Typed', PendingFits', NEW o \in Counted, Moved(o)
    PROVE  refCnt'[o] = Owners(o)'
<1>1. /\ (Owners(o) + Masked(o)
             = InHeap(heap, o) + Held(o) + Occurrences(todo, o) + Occurrences(pending.then, o)
               + One(pending.value, o) + lost[o] + Root(o))'
      /\ (Owners(o) \in Nat)' /\ (Masked(o) \in Nat)' /\ (InHeap(heap, o) \in Nat)'
      /\ (Held(o) \in Nat)' /\ (Occurrences(todo, o) \in Nat)'
      /\ (Occurrences(pending.then, o) \in Nat)' /\ (One(pending.value, o) \in Nat)'
      /\ (lost[o] \in Nat)' /\ (Root(o) \in Nat)'
  BY OwnersAre, PTL
<1>2. /\ Owners(o) + Masked(o)
             = InHeap(heap, o) + Held(o) + Occurrences(todo, o) + Occurrences(pending.then, o)
               + One(pending.value, o) + lost[o] + Root(o)
      /\ Owners(o) \in Nat /\ Masked(o) \in Nat /\ InHeap(heap, o) \in Nat
      /\ Held(o) \in Nat /\ Occurrences(todo, o) \in Nat
      /\ Occurrences(pending.then, o) \in Nat /\ One(pending.value, o) \in Nat
      /\ lost[o] \in Nat /\ Root(o) \in Nat
  BY OwnersAre DEF IInv
<1>3. Root(o)' = Root(o) /\ refCnt'[o] \in Nat /\ refCnt[o] \in Nat /\ refCnt[o] = Owners(o)
  BY OwnersExact DEF Root, Typed
<1> DEFINE r == refCnt[o]
           m == Masked(o)
           ho == InHeap(heap, o)
           he == Held(o)
           td == Occurrences(todo, o)
           th == Occurrences(pending.then, o)
           va == One(pending.value, o)
           lo == lost[o]
           ro == Root(o)
           rn == refCnt'[o]
           ow == Owners(o)'
           mn == Masked(o)'
           hn == InHeap(heap', o)
           hen == Held(o)'
           tdn == Occurrences(todo', o)
           thn == Occurrences(pending'.then, o)
           van == One(pending'.value, o)
           lon == lost'[o]
<1>4. ow + mn = hn + hen + tdn + thn + van + lon + ro
  BY <1>1, <1>3
<1>5. rn + mn + ho + he + td + th + va + lo = r + m + hn + hen + tdn + thn + van + lon
  BY DEF Moved
<1>6. r + m = ho + he + td + th + va + lo + ro
  BY <1>2, <1>3
<1>7. /\ ow \in Nat /\ mn \in Nat /\ hn \in Nat /\ hen \in Nat /\ tdn \in Nat
      /\ thn \in Nat /\ van \in Nat /\ lon \in Nat /\ rn \in Nat
  BY <1>1, <1>3
<1>8. /\ r \in Nat /\ m \in Nat /\ ho \in Nat /\ he \in Nat /\ td \in Nat /\ th \in Nat /\ va \in Nat
      /\ lo \in Nat /\ ro \in Nat
  BY <1>2, <1>3
<1>9. rn = ow
  <2> HIDE DEF r, m, ho, he, td, th, va, lo, ro, rn, ow, mn, hn, hen, tdn, thn, van, lon
  <2> QED BY <1>4, <1>5, <1>6, <1>7, <1>8
<1> QED BY <1>9

\* What an object becomes: something of its kind that fits, or nothing
Keeps(o) ==
    \/ heap'[o] = heap[o]
    \/ heap'[o].kind = heap[o].kind /\ ArrayFits(o)' /\ heap[o].kind \notin {"proxy", "scope"}
    \/ heap'[o] = Free
There(o) == heap[o].kind # "free" <=> refCnt[o] > 0 \/ o \in Range(chain)

LEMMA RunStep ==
    ASSUME IInv, Typed', PendingFits', ChainFits', BoundFits', BindingsKept',
           \A o \in Counted : Moved(o),
           \A o \in Object : Keeps(o) /\ There(o)'
    PROVE  IInv'
<1>1. \A o \in Counted : refCnt'[o] = Owners(o)'
  BY CountsMoved
<1>2. CountsExact'
  BY <1>1 DEF CountsExact, There
<1>3. Object \subseteq Counted
  BY PointerSets
<1>4. \A o \in Object : ArrayFits(o) /\ Linked(o) /\ heap[o] \in Body /\ heap'[o] \in Body
  BY DEF IInv, Typed
<1>5. ASSUME NEW p \in Object, NEW o \in Object, heap'[p].kind \notin {"array", "hash"},
             Occurrences(References(heap'[p]), o) # 0
      PROVE  heap'[o].kind = heap[o].kind
  <2>1. o \in Counted /\ refCnt'[o] = Owners(o)'
    BY <1>1, <1>3
  <2>2. Slots(p)' \in Seq(Pointer) /\ Slots(p)' = References(heap'[p])
    <3>1. SlotsRight'
      BY AllOwned, PTL
    <3> QED BY <3>1, <1>5, SlotsNext
  <2>3. o \in Range(Slots(p)')
    BY <2>2, <1>5, OccAbsent DEF Range
  <2>4. (refCnt[o] > 0)'
    <3>1. OwnedRight'
      BY AllOwned, PTL
    <3>2. Owned(o)'
      BY <2>3 DEF Owned
    <3> QED BY <2>1, <3>1, <3>2 DEF OwnedRight
  <2>5. heap'[o] # Free
    BY <2>4 DEF There, Free
  <2> QED BY <2>5 DEF Keeps
<1>6. ASSUME NEW o \in Object PROVE ArrayFits(o)' /\ Linked(o)'
  <2>1. CASE heap'[o] = heap[o]
    <3>1. ArrayFits(o)'
      BY <2>1, <1>4 DEF ArrayFits
    <3>2. heap[o].kind = "proxy" => heap'[heap[o].array].kind = "array"
      <4> SUFFICES ASSUME heap[o].kind = "proxy" PROVE heap'[heap[o].array].kind = "array"
        OBVIOUS
      <4> DEFINE a == heap[o].array
      <4>1. a \in Object /\ heap[a].kind = "array" /\ References(heap[o]) = <<a>>
        BY <1>4, BodyOfKind, ReferencesOf DEF ProxyBody, Linked
      <4> HIDE DEF a
      <4>2. Occurrences(References(heap'[o]), a) # 0
        BY <2>1, <4>1, OccOne DEF One
      <4>3. heap'[o].kind \notin {"array", "hash"}
        BY <2>1
      <4>4. heap'[a].kind = heap[a].kind
        BY <1>5, <4>1, <4>2, <4>3
      <4> QED BY <4>1, <4>4 DEF a
    <3>3. heap[o].kind = "scope" => heap'[heap[o].entries].kind = "hash"
      <4> SUFFICES ASSUME heap[o].kind = "scope" PROVE heap'[heap[o].entries].kind = "hash"
        OBVIOUS
      <4> DEFINE a == heap[o].entries
                 b == heap[o].outer
      <4>1. a \in Object /\ heap[a].kind = "hash" /\ References(heap[o]) = <<a, b>>
        BY <1>4, BodyOfKind, ReferencesOf DEF ScopeBody, Linked
      <4> HIDE DEF a, b
      <4>2. Occurrences(References(heap'[o]), a) # 0
        <5>1. Occurrences(<<a, b>>, a) = One(a, a) + One(b, a)
          BY OccTwo
        <5> QED BY <2>1, <4>1, <5>1 DEF One
      <4>3. heap'[o].kind \notin {"array", "hash"}
        BY <2>1
      <4>4. heap'[a].kind = heap[a].kind
        BY <1>5, <4>1, <4>2, <4>3
      <4> QED BY <4>1, <4>4 DEF a
    <3> QED BY <2>1, <3>1, <3>2, <3>3 DEF Linked
  <2>2. CASE heap'[o].kind = heap[o].kind /\ ArrayFits(o)' /\ heap[o].kind \notin {"proxy", "scope"}
    BY <2>2 DEF Linked
  <2>3. CASE heap'[o] = Free
    BY <2>3 DEF Free, ArrayFits, Linked
  <2> QED BY <2>1, <2>2, <2>3 DEF Keeps
<1> QED BY <1>2, <1>6 DEF IInv

\* What is referenced anew, in the middle, is counted already.
AllCounted(taken) == \A i \in DOMAIN taken : taken[i] \in Counted => refCnt[taken[i]] > 0

BalancedResume(a, body, taken) ==
    \A o \in Counted :
        Occurrences(taken, o) + Masked(o)' + Occurrences(References(heap[a]), o) + Held(o)
        + Occurrences(todo, o) + Occurrences(pending.then, o) + One(pending.value, o)
            = Masked(o) + Occurrences(References(body), o) + Held(o)' + Occurrences(todo', o)
              + Occurrences(pending'.then, o) + One(pending'.value, o)

LEMMA ResumeStep ==
    ASSUME IInv, NEW a \in Object, heap[a].kind \in {"array", "hash"},
           NEW body \in Body, body.kind = heap[a].kind, heap' = Put(heap, a, body),
           NEW taken \in Seq(Pointer), AllCounted(taken), refCnt' = Plus(refCnt, taken),
           ArrayFits(a)', Typed', PendingFits', BoundFits', BindingsKept',
           BalancedResume(a, body, taken), UNCHANGED <<chain, lost>>
    PROVE  IInv'
<1>1. Typed /\ PendingFits /\ ChainFits /\ CountsExact /\ heap \in [Object -> Body]
  BY DEF IInv, Typed
<1>2. /\ heap' \in [Object -> Body]
      /\ \A x \in Object : heap'[x] = IF x = a THEN body ELSE heap[x]
      /\ \A o : InHeap(heap', o) + Occurrences(References(heap[a]), o)
                   = InHeap(heap, o) + Occurrences(References(body), o)
  <2>1. Replaced(heap, a, body, heap')
    BY <1>1, HeapPut
  <2> QED BY <2>1 DEF Replaced
<1>3. \A o \in Counted : refCnt'[o] = refCnt[o] + Occurrences(taken, o)
  BY <1>1, PlusCounts
<1>4. ASSUME NEW o \in Counted
      PROVE  /\ refCnt[o] \in Nat /\ Occurrences(taken, o) \in Nat
             /\ refCnt'[o] > 0 <=> refCnt[o] > 0
  <2>1. refCnt[o] \in Nat /\ Occurrences(taken, o) \in Nat
    BY <1>1, WhereFinite DEF Typed
  <2>2. Occurrences(taken, o) # 0 => refCnt[o] > 0
    BY OccAbsent DEF AllCounted
  <2> QED BY <2>1, <2>2, <1>3
<1>5. Object \subseteq Counted
  BY PointerSets
<1>6. ASSUME NEW o \in Object PROVE Keeps(o) /\ There(o)'
  <2>1. Keeps(o)
    BY <1>2 DEF Keeps
  <2>2. heap[o].kind # "free" <=> refCnt[o] > 0 \/ o \in Range(chain)
    BY <1>1 DEF CountsExact
  <2>3. heap'[o].kind = heap[o].kind
    BY <1>2
  <2>4. refCnt'[o] > 0 <=> refCnt[o] > 0
    BY <1>4, <1>5
  <2> QED BY <2>1, <2>2, <2>3, <2>4 DEF There
<1>7. ChainFits'
  <2>1. ASSUME NEW o \in Range(chain') PROVE refCnt'[o] = 0 /\ heap'[o].kind # "capture"
    <3>1. chain \in Seq(Object) /\ o \in Range(chain)
      BY <1>1 DEF Typed
    <3>2. o \in Object
      BY <3>1 DEF Range
    <3>3. refCnt[o] = 0 /\ heap[o].kind # "capture"
      BY <3>1, <1>1 DEF ChainFits
    <3>4. refCnt'[o] = 0
      BY <3>2, <3>3, <1>3, <1>4, <1>5
    <3>5. heap'[o].kind = heap[o].kind
      BY <3>2, <1>2
    <3> QED BY <3>3, <3>4, <3>5
  <2> QED BY <2>1, <1>1 DEF ChainFits
<1>8. ASSUME NEW o \in Counted PROVE Moved(o)
  <2> DEFINE r == refCnt[o]
             ta == Occurrences(taken, o)
             m == Masked(o)
             mn == Masked(o)'
             ho == InHeap(heap, o)
             hn == InHeap(heap', o)
             ra == Occurrences(References(heap[a]), o)
             rb == Occurrences(References(body), o)
             he == Held(o)
             hen == Held(o)'
             td == Occurrences(todo, o)
             tdn == Occurrences(todo', o)
             th == Occurrences(pending.then, o)
             thn == Occurrences(pending'.then, o)
             va == One(pending.value, o)
             van == One(pending'.value, o)
             lo == lost[o]
  <2>1. ta + mn + ra + he + td + th + va = m + rb + hen + tdn + thn + van
    BY DEF BalancedResume
  <2>2. hn + ra = ho + rb
    BY <1>2
  <2>3. /\ r \in Nat /\ ta \in Nat /\ ho \in Nat /\ hn \in Nat /\ ra \in Nat /\ rb \in Nat
        /\ td \in Nat /\ tdn \in Nat /\ th \in Nat /\ thn \in Nat /\ lo \in Nat
    <3>1. References(body) \in Seq(Pointer) /\ References(heap[a]) \in Seq(Pointer)
      BY <1>1, ReferencesOf
    <3>2. /\ todo \in Seq(Pointer) /\ todo' \in Seq(Pointer)
          /\ pending.then \in Seq(Pointer) /\ pending'.then \in Seq(Pointer) /\ lost[o] \in Nat
      BY <1>1 DEF Typed, PendingType
    <3> QED BY <3>1, <3>2, <1>1, <1>2, <1>4, WhereFinite, SlotsOfType
  <2>4. m \in Nat /\ mn \in Nat /\ he \in Nat /\ hen \in Nat /\ va \in Nat /\ van \in Nat
    BY DEF Masked, Held, One
  <2>5. (r + ta) + mn + ho + he + td + th + va + lo = r + m + hn + hen + tdn + thn + van + lo
    <3> HIDE DEF r, ta, m, mn, ho, hn, ra, rb, he, hen, td, tdn, th, thn, va, van, lo
    <3> QED BY <2>1, <2>2, <2>3, <2>4
  <2>6. refCnt'[o] = r + ta /\ lost'[o] = lo
    BY <1>3
  <2> QED BY <2>5, <2>6 DEF Moved
<1> QED BY <1>6, <1>7, <1>8, RunStep

LEMMA NothingLater ==
    ASSUME pending' = NoPending
    PROVE  /\ pending' \in PendingType /\ PendingFits'
           /\ pending'.then = <<>> /\ pending'.value = NoObject
           /\ \A o \in Counted :
                 Masked(o)' = 0 /\ Occurrences(pending'.then, o) = 0 /\ One(pending'.value, o) = 0
<1>1. <<>> \in Seq(Pointer)
  OBVIOUS
<1>2. /\ pending' \in PendingType /\ pending'.op = "none"
      /\ pending'.then = <<>> /\ pending'.value = NoObject
  BY <1>1, PointerSets DEF NoPending, Pending, PendingType
<1>3. PendingFits'
  BY <1>2 DEF PendingFits
<1>4. \A o : Masked(o)' = 0
  BY <1>2 DEF Masked
<1> QED BY <1>2, <1>3, <1>4, OccEmpty, NoOneIsNull

\* A reference in a handler, on the stack or in an object is to what is counted.
LEMMA CountedNow ==
    ASSUME IInv, NEW x \in Counted, Owned(x)
    PROVE  refCnt[x] > 0
BY OwnersExact, OwnedIsCounted DEF IInv

\* The bucket that a handler of a hash goes on with
LEMMA PendingBucket ==
    ASSUME Typed, PendingFits, pending.op \in {"bind_key", "lookup_key"}
    PROVE  /\ pending.obj \in Object /\ heap[pending.obj].kind = "hash"
           /\ heap[pending.obj].buckets \in Seq(Buckets)
           /\ pending.slot \div 2 \in DOMAIN heap[pending.obj].buckets
           /\ pending.slot = 2 * (pending.slot \div 2)
<1>1. pending.obj \in Object /\ heap[pending.obj].kind = "hash"
  BY DEF PendingFits
<1>2. PICK n \in DOMAIN heap[pending.obj].buckets : pending.slot = 2 * n
  BY DEF PendingFits
<1>3. heap[pending.obj].buckets \in Seq(Buckets)
  <2>1. heap[pending.obj] \in HashBody
    BY <1>1, BodyOfKind DEF Typed
  <2> QED BY <2>1 DEF HashBody
<1>4. (2 * n) \div 2 = n
  BY <1>3, BucketAt, TwiceOf
<1> QED BY <1>1, <1>2, <1>3, <1>4

LEMMA LookupReturnStep ==
    ASSUME IInv, LookupReturn
    PROVE  IInv'
<1> PICK h : h = pending.obj
  OBVIOUS
<1> PICK i : i = pending.slot \div 2
  OBVIOUS
<1> PICK cell : cell = heap[h].buckets[i].cell
  OBVIOUS
<1> DEFINE taken == <<cell>>
           body == heap[h]
<1>1. /\ pending.op = "lookup_key" /\ todo = <<>> /\ heap' = heap
      /\ refCnt' = Plus(refCnt, taken)
      /\ held' = held \cup ({cell} \cap Object)
      /\ todo' = IF cell \in held \cup {Interpreter} THEN <<cell>> ELSE <<>>
      /\ pending' = NoPending
      /\ UNCHANGED <<chain, lost, bound, client>>
  BY DEF LookupReturn
<1>2. /\ Typed /\ PendingFits /\ heap \in [Object -> Body] /\ lost \in [Counted -> Nat]
      /\ held \subseteq Object /\ bound \in [Object -> SUBSET Buckets]
  BY DEF IInv, Typed
<1>3. /\ h \in Object /\ heap[h].kind = "hash" /\ i \in DOMAIN heap[h].buckets
      /\ pending.value = NoObject /\ pending.then = <<>>
  BY <1>1, <1>2, PendingBucket DEF PendingFits
<1>4. cell \in Item /\ cell \in Range(References(heap[h]))
  <2>1. heap[h].buckets \in Seq(Buckets) /\ References(heap[h]) = KeysAndCells(heap[h].buckets)
    BY <1>3, HashFacts
  <2>2. 2 * i \in DOMAIN References(heap[h]) /\ References(heap[h])[2 * i] = cell /\ cell \in Item
    BY <2>1, <1>3, KeysAndCellsType, BucketAt
  <2> QED BY <2>2 DEF Range
<1>5. /\ taken \in Seq(Pointer) /\ cell \in Pointer /\ Interpreter # cell
      /\ \A o \in Counted : One(cell, o) = 1 => cell \in Object
  BY <1>4, PointerSets DEF One, Item, Counted
<1>6. AllCounted(taken)
  <2>1. ASSUME cell \in Counted PROVE refCnt[cell] > 0
    <3>1. cell \in Range(Slots(h))
      BY <1>1, <1>4 DEF Slots
    <3> QED BY <3>1, <2>1, <1>3, CountedNow DEF Owned
  <2> QED BY <2>1 DEF AllCounted
<1>7. body \in Body /\ heap' = Put(heap, h, body)
  BY <1>1, <1>2, <1>3 DEF Put
<1>8. /\ \A o : Occurrences(taken, o) = One(cell, o)
      /\ todo' \in Seq(Pointer) /\ held' \subseteq Object
  <2>1. <<>> \in Seq(Pointer) /\ <<cell>> \in Seq(Pointer)
    BY <1>5
  <2> QED BY <2>1, <1>1, <1>2, OccOne
<1>9. /\ pending' \in PendingType /\ PendingFits'
      /\ pending'.then = <<>> /\ pending'.value = NoObject
      /\ \A o \in Counted :
            Masked(o)' = 0 /\ Occurrences(pending'.then, o) = 0 /\ One(pending'.value, o) = 0
  BY <1>1, NothingLater
<1>10. Typed'
  <2>1. refCnt' \in [Counted -> Nat]
    BY <1>1, <1>2, <1>5, PlusCounts
  <2> QED BY <2>1, <1>1, <1>2, <1>8, <1>9, TypedPending
<1>11. ArrayFits(h)' /\ BoundFits' /\ BindingsKept'
  <2>1. ArrayFits(h)'
    BY <1>1, <1>3 DEF ArrayFits
  <2> QED BY <2>1, <1>1, BindingsSame
<1>12. BalancedResume(h, body, taken)
  <2> SUFFICES ASSUME NEW o \in Counted
               PROVE  Occurrences(taken, o) + Masked(o)' + Occurrences(References(heap[h]), o) + Held(o)
                      + Occurrences(todo, o) + Occurrences(pending.then, o) + One(pending.value, o)
                          = Masked(o) + Occurrences(References(body), o) + Held(o)' + Occurrences(todo', o)
                            + Occurrences(pending'.then, o) + One(pending'.value, o)
    BY DEF BalancedResume
  <2> DEFINE ov == One(cell, o)
             re == Occurrences(References(heap[h]), o)
             he == Held(o)
             hen == Held(o)'
             tdn == Occurrences(todo', o)
  <2>1. he + ov = hen + tdn
    <3>1. CASE cell \in held
      <4>1. hen = he
        BY <3>1, <1>1 DEF Held
      <4>2. tdn = ov
        BY <3>1, <1>1, OccOne
      <4> QED BY <4>1, <4>2 DEF Held, One
    <3>2. CASE cell \notin held
      <4>1. tdn = 0
        BY <3>2, <1>1, <1>5, OccEmpty
      <4>2. hen = he + ov
        <5>1. CASE o = cell
          <6>1. ov = 1 /\ o \in Object /\ o \in held'
            BY <5>1, <1>1, <1>5 DEF One
          <6> QED BY <6>1, <5>1, <3>2 DEF Held
        <5>2. CASE o # cell
          <6>1. ov = 0 /\ (o \in held' <=> o \in held)
            BY <5>2, <1>1 DEF One
          <6> QED BY <6>1 DEF Held
        <5> QED BY <5>1, <5>2
      <4> QED BY <4>1, <4>2 DEF Held, One
    <3> QED BY <3>1, <3>2
  <2>2. ov \in Nat /\ re \in Nat /\ he \in Nat /\ hen \in Nat /\ tdn \in Nat
    <3>1. References(heap[h]) \in Seq(Pointer)
      BY <1>2, <1>3, ReferencesOf
    <3> QED BY <3>1, <1>8, WhereFinite DEF Held, One
  <2>3. ov + 0 + re + he + 0 + 0 + 0 = 0 + re + hen + tdn + 0 + 0
    <3> HIDE DEF ov, re, he, hen, tdn
    <3> QED BY <2>1, <2>2
  <2>4. /\ Masked(o) = 0 /\ Occurrences(todo, o) = 0 /\ Occurrences(pending.then, o) = 0
        /\ One(pending.value, o) = 0
    BY <1>1, <1>3, OccEmpty, NoOneIsNull DEF Masked
  <2> QED BY <2>3, <2>4, <1>8, <1>9
<1> HIDE DEF taken, body
<1>13. body.kind = heap[h].kind /\ heap[h].kind \in {"array", "hash"} /\ UNCHANGED <<chain, lost>>
  BY <1>1, <1>3 DEF body
<1> QED BY <1>1, <1>3, <1>5, <1>6, <1>7, <1>9, <1>10, <1>11, <1>12, <1>13, ResumeStep

Rewritten(h, i, value) == Put(heap[h].buckets, i, Bucket(heap[h].buckets[i].key, value))

\* The cell of a bucket is replaced.
LEMMA RewriteBucket ==
    ASSUME IInv, NEW h \in Object, heap[h].kind = "hash", NEW i \in DOMAIN heap[h].buckets,
           NEW value \in Item
    PROVE  /\ heap[h].buckets[i].key \in Item /\ heap[h].buckets[i].cell \in Item
           /\ Rebound(h, heap[h].buckets[i].key, value, Rewritten(h, i, value))
           /\ \A o : Occurrences(KeysAndCells(Rewritten(h, i, value)), o) + One(heap[h].buckets[i].cell, o)
                        = Occurrences(KeysAndCells(heap[h].buckets), o) + One(value, o)
<1> DEFINE old == heap[h].buckets
           new == Rewritten(h, i, value)
           key == old[i].key
           B == Buckets
<1>1. /\ old \in Seq(B) /\ Range(old) = bound[h] /\ IsInjective(Keys(old)) /\ i \in DOMAIN old
  BY HashFacts
<1>3. key \in Item /\ old[i].cell \in Item
  BY <1>1, BucketAt
<1>4. Bucket(key, value) \in B /\ Bucket(key, value).key = key /\ Bucket(key, value).cell = value
  BY <1>3 DEF Bucket, Buckets
<1>5. new = Put(old, i, Bucket(key, value))
  BY DEF Rewritten
<1> HIDE DEF old, new, key, B
<1>6. /\ new \in Seq(B) /\ DOMAIN new = DOMAIN old
      /\ \A j \in DOMAIN old : new[j] = IF j = i THEN Bucket(key, value) ELSE old[j]
  <2>1. new \in Seq(B)
    BY <1>1, <1>4, <1>5, PutInSeq
  <2> QED BY <2>1, <1>1, <1>5 DEF Put
<1>7. \A j \in DOMAIN old : old[j].key = key => j = i
  <2> SUFFICES ASSUME NEW j \in DOMAIN old, old[j].key = key PROVE j = i
    OBVIOUS
  <2>1. DOMAIN Keys(old) = DOMAIN old /\ Keys(old)[j] = Keys(old)[i]
    BY <1>1 DEF Keys, key
  <2> QED BY <2>1, <1>1, Zenon DEF IsInjective
<1>8. Range(new) = Bound(bound[h], key, value)
  <2>1. ASSUME NEW b \in Range(new) PROVE b \in Bound(bound[h], key, value)
    <3>1. PICK j \in DOMAIN old : b = new[j]
      BY <1>6 DEF Range
    <3>2. CASE j = i
      BY <3>1, <3>2, <1>6 DEF Bound
    <3>3. CASE j # i
      <4>1. b = old[j] /\ old[j].key # key
        BY <3>1, <3>3, <1>6, <1>7
      <4>2. b \in bound[h]
        BY <4>1, <1>1 DEF Range
      <4> QED BY <4>1, <4>2 DEF Bound
    <3> QED BY <3>2, <3>3
  <2>2. ASSUME NEW b \in Bound(bound[h], key, value) PROVE b \in Range(new)
    <3>1. CASE b = Bucket(key, value)
      BY <3>1, <1>1, <1>6 DEF Range
    <3>2. CASE b \in bound[h] /\ b.key # key
      <4>1. PICK j \in DOMAIN old : b = old[j]
        BY <3>2, <1>1 DEF Range
      <4>2. j # i
        BY <4>1, <3>2 DEF key
      <4> QED BY <4>1, <4>2, <1>6 DEF Range
    <3> QED BY <3>1, <3>2 DEF Bound
  <2> QED BY <2>1, <2>2
<1>9. Keys(new) = Keys(old)
  <2>1. \A j \in DOMAIN old : new[j].key = old[j].key
    BY <1>4, <1>6 DEF key
  <2> QED BY <2>1, <1>6 DEF Keys
<1>10. Rebound(h, key, value, new)
  BY <1>1, <1>6, <1>8, <1>9 DEF Rebound, B
<1>11. \A o : Occurrences(KeysAndCells(new), o) + One(old[i].cell, o)
                 = Occurrences(KeysAndCells(old), o) + One(value, o)
  <2> PICK refs : refs = KeysAndCells(old)
    OBVIOUS
  <2>1. /\ refs \in Seq(Item) /\ Len(refs) = 2 * Len(old) /\ 2 * i \in DOMAIN refs
        /\ refs[2 * i] = old[i].cell
        /\ \A n \in DOMAIN old : refs[2 * n] = old[n].cell /\ refs[2 * n - 1] = old[n].key
    BY <1>1, KeysAndCellsType DEF B
  <2>2. /\ KeysAndCells(new) \in Seq(Item) /\ Len(KeysAndCells(new)) = 2 * Len(new)
        /\ \A n \in DOMAIN old : /\ KeysAndCells(new)[2 * n] = new[n].cell
                                 /\ KeysAndCells(new)[2 * n - 1] = new[n].key
    BY <1>6, KeysAndCellsType DEF B
  <2>3. Len(new) = Len(old) /\ DOMAIN old = 1 .. Len(old) /\ Len(old) \in Nat /\ i \in Nat
    BY <1>1, <1>6
  <2>4. \A j \in DOMAIN refs : KeysAndCells(new)[j] = IF j = 2 * i THEN value ELSE refs[j]
    <3> SUFFICES ASSUME NEW j \in DOMAIN refs
                 PROVE  KeysAndCells(new)[j] = IF j = 2 * i THEN value ELSE refs[j]
      OBVIOUS
    <3>1. PICK n \in DOMAIN old : j = 2 * n \/ j = 2 * n - 1
      BY <1>1, KeysAndCellsAt DEF B
    <3>2. n \in Nat
      BY <2>3
    <3>3. new[n].key = old[n].key /\ new[n].cell = IF n = i THEN value ELSE old[n].cell
      BY <1>4, <1>6 DEF key
    <3>4. CASE j = 2 * n
      <4>1. KeysAndCells(new)[j] = new[n].cell /\ refs[j] = old[n].cell
        BY <3>4, <2>1, <2>2
      <4>2. j = 2 * i <=> n = i
        BY <3>2, <3>4, <2>3
      <4> QED BY <4>1, <4>2, <3>3
    <3>5. CASE j = 2 * n - 1
      <4>1. j # 2 * i
        BY <3>2, <3>5, <2>3
      <4> QED BY <4>1, <3>3, <3>5, <2>1, <2>2
    <3> QED BY <3>1, <3>4, <3>5
  <2>5. KeysAndCells(new) = [refs EXCEPT ![2 * i] = value]
    BY <2>1, <2>2, <2>3, <2>4
  <2>6. \A o : Occurrences([refs EXCEPT ![2 * i] = value], o) + One(refs[2 * i], o)
                  = Occurrences(refs, o) + One(value, o)
    <3> TAKE o
    <3>1. refs \in Seq(Item) /\ 2 * i \in DOMAIN refs
      BY <2>1
    <3>2. \A j \in DOMAIN refs :
             Occurrences([refs EXCEPT ![j] = value], o) + One(refs[j], o)
                  = Occurrences(refs, o) + One(value, o)
      BY <3>1, OccExcept
    <3> QED BY <3>1, <3>2
  <2> QED BY <2>1, <2>5, <2>6
<1> QED BY <1>3, <1>10, <1>11 DEF old, new, key

LEMMA BindPutStep ==
    ASSUME IInv, BindPut
    PROVE  IInv'
<1> PICK h : h = pending.obj
  OBVIOUS
<1> PICK i : i = pending.slot \div 2
  OBVIOUS
<1> PICK value : value = pending.value
  OBVIOUS
<1> PICK key : key = heap[h].buckets[i].key
  OBVIOUS
<1> PICK then : then = pending.then
  OBVIOUS
<1> PICK new : new = Rewritten(h, i, value)
  OBVIOUS
<1> PICK x : x = heap[h].buckets[i].cell
  OBVIOUS
<1> DEFINE body == Hash(new)
           taken == <<>>
<1>1. /\ Typed /\ PendingFits /\ heap \in [Object -> Body] /\ lost \in [Counted -> Nat]
      /\ held \subseteq Object /\ bound \in [Object -> SUBSET Buckets]
      /\ refCnt \in [Counted -> Nat] /\ then \in Seq(Pointer)
  BY DEF IInv, Typed, PendingType
<1>2. /\ pending.op = "bind_key" /\ todo = <<>>
      /\ heap' = [heap EXCEPT ![h] = Hash([heap[h].buckets EXCEPT ![i].cell = value])]
      /\ bound' = [bound EXCEPT ![h] = Bound(@, key, value)]
      /\ todo' = then /\ pending' = NoPending
      /\ UNCHANGED <<refCnt, held, chain, lost, client>>
  BY DEF BindPut
<1>3. h \in Object /\ heap[h].kind = "hash" /\ i \in DOMAIN heap[h].buckets /\ value \in Item
      /\ pending.slot = 2 * i
  BY <1>1, <1>2, PendingBucket DEF PendingFits
<1>4. /\ key \in Item /\ x \in Item /\ Rebound(h, key, value, new)
      /\ \A o : Occurrences(KeysAndCells(new), o) + One(x, o)
                   = Occurrences(KeysAndCells(heap[h].buckets), o) + One(value, o)
  BY <1>3, RewriteBucket
<1>5. heap' = Put(heap, h, body)
  <2> DEFINE buckets == heap[h].buckets
  <2>2. buckets[i] \in Buckets
    <3>1. buckets \in Seq(Buckets)
      BY <1>3, HashFacts
    <3> QED BY <3>1, <1>3, ElementOfSeq
  <2>3. [buckets[i] EXCEPT !.cell = value] = Bucket(key, value)
    BY <2>2 DEF Bucket, Buckets
  <2>4. [buckets EXCEPT ![i].cell = value] = Put(buckets, i, Bucket(key, value))
    BY <2>3 DEF Put
  <2>5. new = Put(buckets, i, Bucket(key, value))
    BY DEF Rewritten
  <2> QED BY <1>2, <2>4, <2>5 DEF Put
<1>6. /\ body \in Body /\ body.kind = "hash" /\ References(body) = KeysAndCells(new)
      /\ References(heap[h]) = KeysAndCells(heap[h].buckets)
      /\ KeysAndCells(heap[h].buckets) \in Seq(Item) /\ KeysAndCells(new) \in Seq(Item)
  <2>1. new \in Seq(Buckets) /\ heap[h].buckets \in Seq(Buckets)
    BY <1>3, <1>4, HashFacts DEF Rebound
  <2> QED BY <2>1, <1>3, HashOf, HashFacts, KeysAndCellsType
<1>7. /\ pending' \in PendingType /\ PendingFits'
      /\ pending'.then = <<>> /\ pending'.value = NoObject
      /\ \A o \in Counted :
            Masked(o)' = 0 /\ Occurrences(pending'.then, o) = 0 /\ One(pending'.value, o) = 0
  BY <1>2, NothingLater
<1>8. heap' \in [Object -> Body] /\ heap'[h] = body /\ \A g \in Object \ {h} : heap'[g] = heap[g]
  <2> HIDE DEF body
  <2>1. Replaced(heap, h, body, heap')
    BY <1>1, <1>3, <1>5, <1>6, HeapPut
  <2> QED BY <2>1, <1>3 DEF Replaced
<1>9. Typed'
  <2>1. bound' \in [Object -> SUBSET Buckets]
    BY <1>1, <1>2, <1>3, <1>4, BoundType
  <2> QED BY <2>1, <1>1, <1>2, <1>7, <1>8, TypedPending
<1>10. BoundFits' /\ BindingsKept'
  <2>1. heap'[h] = Hash(new)
    BY <1>8
  <2>2. \A g \in Object \ {h} : \/ heap'[g] = heap[g]
                                \/ heap[g].kind # "hash" /\ heap'[g].kind # "hash"
    BY <1>8
  <2> QED BY <2>1, <2>2, <1>2, <1>3, <1>4, BindingsOne
<1>11. ArrayFits(h)'
  <2>1. heap'[h].kind = "hash"
    BY <1>6, <1>8
  <2> QED BY <2>1 DEF ArrayFits
<1> HIDE DEF body
<1>12. taken \in Seq(Pointer) /\ AllCounted(taken) /\ refCnt' = Plus(refCnt, taken)
  <2>1. taken \in Seq(Pointer) /\ DOMAIN taken = {}
    OBVIOUS
  <2>2. \A o \in Counted : Plus(refCnt, taken)[o] = refCnt[o]
    BY <1>1, OccEmpty DEF Plus
  <2>3. refCnt = Plus(refCnt, taken)
    BY <1>1, <2>2 DEF Plus
  <2> QED BY <2>1, <2>3, <1>2 DEF AllCounted
<1>13. BalancedResume(h, body, taken)
  <2> SUFFICES ASSUME NEW o \in Counted
               PROVE  Occurrences(taken, o) + Masked(o)' + Occurrences(References(heap[h]), o) + Held(o)
                      + Occurrences(todo, o) + Occurrences(pending.then, o) + One(pending.value, o)
                          = Masked(o) + Occurrences(References(body), o) + Held(o)' + Occurrences(todo', o)
                            + Occurrences(pending'.then, o) + One(pending'.value, o)
    BY DEF BalancedResume
  <2> DEFINE ox == One(x, o)
             ov == One(value, o)
             re == Occurrences(References(heap[h]), o)
             rb == Occurrences(References(body), o)
             th == Occurrences(then, o)
             he == Held(o)
  <2>1. rb + ox = re + ov
    BY <1>4, <1>6
  <2>2. ox \in Nat /\ ov \in Nat /\ re \in Nat /\ rb \in Nat /\ th \in Nat /\ he \in Nat
    BY <1>1, <1>6, WhereFinite DEF Held, One
  <2>3. 0 + 0 + re + he + 0 + th + ov = ox + rb + he + th + 0 + 0
    <3> HIDE DEF ox, ov, re, rb, th, he
    <3> QED BY <2>1, <2>2
  <2>4. Masked(o) = ox
    <3>1. References(heap[h])[2 * i] = x
      <4>1. heap[h].buckets \in Seq(Buckets)
        BY <1>3, HashFacts
      <4> QED BY <4>1, <1>3, <1>6, KeysAndCellsType
    <3> QED BY <3>1, <1>2, <1>3 DEF Masked
  <2>5. Occurrences(taken, o) = 0 /\ Occurrences(todo, o) = 0 /\ Held(o)' = he
    BY <1>2, OccEmpty DEF Held
  <2> QED BY <2>3, <2>4, <2>5, <1>2, <1>7
<1> HIDE DEF taken
<1>14. body.kind = heap[h].kind /\ heap[h].kind \in {"array", "hash"} /\ UNCHANGED <<chain, lost>>
  BY <1>2, <1>3, <1>6
<1> QED BY <1>3, <1>5, <1>6, <1>7, <1>9, <1>10, <1>11, <1>12, <1>13, <1>14, ResumeStep

Larger(m, n) == Max({m, n})

LEMMA LargerOfTwo ==
    ASSUME NEW m \in Nat, NEW n \in Nat
    PROVE  Larger(m, n) = IF m <= n THEN n ELSE m
<1>1. \E x \in {m, n} : \A y \in {m, n} : x >= y
  OBVIOUS
<1>2. Larger(m, n) \in {m, n} /\ \A y \in {m, n} : Larger(m, n) >= y
  BY <1>1 DEF Larger, Max
<1> QED BY <1>2

\* STORE goes on with the array of its proxy and its capture, which are there.
LEMMA ProxyPutStep ==
    ASSUME IInv, ProxyPut
    PROVE  IInv'
<1> PICK a : a = pending.obj
  OBVIOUS
<1> PICK i : i = pending.slot
  OBVIOUS
<1> PICK c : c = pending.then[2]
  OBVIOUS
<1> PICK then : then = pending.then
  OBVIOUS
<1> PICK value : value = capture_positional(c, 0)
  OBVIOUS
<1> PICK old : old = heap[a].content
  OBVIOUS
<1> PICK elems : elems = heap[a].elems
  OBVIOUS
<1> PICK x : x = old[i]
  OBVIOUS
<1> DEFINE new == Put(old, i, value)
           n == Larger(elems, i)
           body == Array(new, n)
           taken == <<value>>
<1>1. /\ Typed /\ PendingFits /\ heap \in [Object -> Body] /\ lost \in [Counted -> Nat]
      /\ held \subseteq Object /\ bound \in [Object -> SUBSET Buckets]
      /\ refCnt \in [Counted -> Nat] /\ then \in Seq(Pointer)
  BY DEF IInv, Typed, PendingType
<1>2. /\ pending.op = "STORE" /\ todo = <<>>
      /\ heap' = Put(heap, a, body) /\ refCnt' = Plus(refCnt, taken)
      /\ todo' = then /\ pending' = NoPending
      /\ UNCHANGED <<held, chain, lost, bound, client>>
  BY DEF ProxyPut, Put, Larger
<1>3. /\ a \in Object /\ heap[a].kind = "array" /\ i \in DOMAIN old
      /\ pending.value = NoObject /\ c \in Object /\ heap[c].kind = "capture"
      /\ c \in Range(pending.then)
  <2>1. PICK p \in Object, d \in Object :
           /\ pending.then = <<p, d>> /\ heap[d].kind = "capture"
           /\ pending.obj \in Object /\ heap[pending.obj].kind = "array"
           /\ pending.slot \in DOMAIN heap[pending.obj].content
           /\ pending.value = NoObject
    BY <1>1, <1>2 DEF PendingFits
  <2>2. <<p, d>>[2] = d /\ d \in Range(<<p, d>>)
    BY DEF Range
  <2> QED BY <2>1, <2>2
<1>4. /\ old \in Seq(Item \cup {NoObject}) /\ elems \in Nat /\ Len(old) \in Nat /\ Len(old) <= MaxElems
      /\ elems <= Len(old) /\ (\A j \in elems + 1 .. Len(old) : old[j] = NoObject)
      /\ References(heap[a]) = old /\ i \in 1 .. Len(old) /\ i \in Nat
  BY <1>3, ArrayFacts
<1>5. /\ value \in Item \cup {NoObject} /\ value \in Pointer
      /\ value \in Object => Occurrences(References(heap[c]), value) # 0
  <2> DEFINE b == heap[c]
  <2>1. At(c) = b /\ b \in CaptureBody
    BY <1>1, <1>3, BodyOfKind, MessagesAssumption DEF At
  <2>2. b.positional \in Seq(Item) /\ b.o_named \in NamedArgs(Id) /\ b.named \in NamedArgs(Object)
    BY <2>1 DEF CaptureBody
  <2>3. value = IF 0 < Len(b.positional) THEN b.positional[1] ELSE NoObject
    BY <2>1 DEF capture_positional
  <2>4. value \in Item \cup {NoObject}
    <3> DEFINE q == b.positional
    <3>1. q \in Seq(Item)
      BY <2>2
    <3> HIDE DEF q
    <3>2. 0 < Len(q) => q[1] \in Item
      BY <3>1
    <3> QED BY <3>2, <2>3 DEF q
  <2>5. ASSUME value \in Object PROVE Occurrences(References(b), value) # 0
    <3>1. 0 < Len(b.positional) /\ b.positional[1] = value /\ 1 \in DOMAIN b.positional
      BY <2>2, <2>3, <2>5, PointerSets
    <3>2. Occurrences(b.positional, value) # 0
      BY <2>2, <3>1, OccAbsent
    <3>3. Occurrences(References(b), value) =
              One(b.invocant, value) + Occurrences(b.positional, value)
              + Occurrences(Keys(b.o_named), value) + Occurrences(Values(b.o_named), value)
              + Occurrences(Keys(b.named), value) + Occurrences(Values(b.named), value)
      BY <2>1, CaptureReferences
    <3>4. /\ Keys(b.o_named) \in Seq(Id) /\ Values(b.o_named) \in Seq(Item)
          /\ Keys(b.named) \in Seq(Object) /\ Values(b.named) \in Seq(Item)
      BY <2>2, KeysAndValues DEF NamedArgs
    <3>5. /\ One(b.invocant, value) \in Nat /\ Occurrences(b.positional, value) \in Nat
          /\ Occurrences(Keys(b.o_named), value) \in Nat /\ Occurrences(Values(b.o_named), value) \in Nat
          /\ Occurrences(Keys(b.named), value) \in Nat /\ Occurrences(Values(b.named), value) \in Nat
      <4>1. One(b.invocant, value) \in Nat
        BY DEF One
      <4> DEFINE s1 == Keys(b.o_named)
                 s2 == Values(b.o_named)
                 s3 == Keys(b.named)
                 s4 == Values(b.named)
                 s5 == b.positional
      <4>2. s1 \in Seq(Id) /\ s2 \in Seq(Item) /\ s3 \in Seq(Object) /\ s4 \in Seq(Item) /\ s5 \in Seq(Item)
        BY <2>2, <3>4
      <4> HIDE DEF s1, s2, s3, s4, s5
      <4>3. /\ Occurrences(s1, value) \in Nat /\ Occurrences(s2, value) \in Nat
            /\ Occurrences(s3, value) \in Nat /\ Occurrences(s4, value) \in Nat
            /\ Occurrences(s5, value) \in Nat
        BY <4>2, WhereFinite
      <4> QED BY <4>1, <4>3 DEF s1, s2, s3, s4, s5
    <3> DEFINE all == Occurrences(References(b), value)
               n0 == One(b.invocant, value)
               n1 == Occurrences(b.positional, value)
               n2 == Occurrences(Keys(b.o_named), value)
               n3 == Occurrences(Values(b.o_named), value)
               n4 == Occurrences(Keys(b.named), value)
               n5 == Occurrences(Values(b.named), value)
    <3>6. n1 # 0 /\ all = n0 + n1 + n2 + n3 + n4 + n5
      BY <3>2, <3>3
    <3>7. n0 \in Nat /\ n1 \in Nat /\ n2 \in Nat /\ n3 \in Nat /\ n4 \in Nat /\ n5 \in Nat
      BY <3>5
    <3>8. all # 0
      <4> HIDE DEF all, n0, n1, n2, n3, n4, n5
      <4> QED BY <3>6, <3>7
    <3> QED BY <3>8
  <2> QED BY <2>4, <2>5, PointerSets
<1>6. taken \in Seq(Pointer) /\ AllCounted(taken)
  <2>1. ASSUME value \in Counted PROVE refCnt[value] > 0
    <3>1. value \in Object
      BY <2>1, <1>5, PointerSets DEF Counted, Item
    <3>2. Slots(c) \in Seq(Pointer) /\ Slots(c) = References(heap[c])
      BY <1>1, <1>3, SlotsType
    <3>3. value \in Range(Slots(c))
      BY <1>5, <3>1, <3>2, OccAbsent DEF Range
    <3> QED BY <2>1, <3>3, <1>3, CountedNow DEF Owned
  <2> QED BY <2>1, <1>5 DEF AllCounted
<1>7. /\ new \in Seq(Item \cup {NoObject}) /\ Len(new) = Len(old)
      /\ n \in Nat /\ n <= Len(old) /\ elems <= n /\ i <= n
      /\ \A j \in n + 1 .. Len(new) : new[j] = NoObject
  <2>1. new \in Seq(Item \cup {NoObject}) /\ Len(new) = Len(old)
    <3> DEFINE S == Item \cup {NoObject}
    <3>1. old \in Seq(S) /\ i \in DOMAIN old /\ value \in S
      BY <1>3, <1>4, <1>5
    <3> HIDE DEF S
    <3>2. new \in Seq(S) /\ Len(new) = Len(old)
      <4>1. Put(old, i, value) \in Seq(S)
        BY <3>1, PutInSeq
      <4>2. Len(Put(old, i, value)) = Len(old)
        BY <3>1, PutInSeq
      <4> QED BY <4>1, <4>2
    <3> QED BY <3>2 DEF S
  <2>2. n = IF elems <= i THEN i ELSE elems
    BY <1>4, LargerOfTwo
  <2> HIDE DEF n
  <2>3. n \in Nat /\ n <= Len(old) /\ elems <= n /\ i <= n
    BY <2>2, <1>4
  <2>4. ASSUME NEW j \in n + 1 .. Len(new) PROVE new[j] = NoObject
    <3>1. j \in elems + 1 .. Len(old) /\ j # i /\ j \in DOMAIN old
      BY <2>1, <2>3, <1>4
    <3>2. new[j] = old[j]
      BY <3>1, <1>4 DEF Put
    <3> QED BY <3>1, <3>2, <1>4
  <2> QED BY <2>1, <2>3, <2>4
<1>8. \A o : Occurrences(new, o) + One(x, o) = Occurrences(old, o) + One(value, o)
  BY <1>3, <1>4, <1>5, OccExcept DEF Put
<1> HIDE DEF new, n
<1>9. /\ body \in Body /\ body.kind = "array" /\ body.content = new /\ body.elems = n
      /\ References(body) = new
  BY <1>7, ArrayOf
<1> HIDE DEF body
<1>10. /\ pending' \in PendingType /\ PendingFits'
       /\ pending'.then = <<>> /\ pending'.value = NoObject
       /\ \A o \in Counted :
             Masked(o)' = 0 /\ Occurrences(pending'.then, o) = 0 /\ One(pending'.value, o) = 0
  BY <1>2, NothingLater
<1>11. heap' \in [Object -> Body] /\ heap'[a] = body /\ \A g \in Object \ {a} : heap'[g] = heap[g]
  <2>1. Replaced(heap, a, body, heap')
    BY <1>1, <1>2, <1>3, <1>9, HeapPut
  <2> QED BY <2>1, <1>3 DEF Replaced
<1> HIDE DEF taken
<1>12. Typed'
  <2>1. refCnt' \in [Counted -> Nat]
    BY <1>1, <1>2, <1>6, PlusCounts
  <2> QED BY <2>1, <1>1, <1>2, <1>10, <1>11, TypedPending
<1>13. BoundFits' /\ BindingsKept'
  <2>1. \A g \in Object : \/ heap'[g] = heap[g]
                          \/ heap[g].kind = "free" /\ heap'[g] = Hash(<<>>)
                          \/ heap[g].kind # "hash" /\ heap'[g].kind # "hash"
    BY <1>3, <1>9, <1>11
  <2> QED BY <2>1, <1>2, BindingsSame
<1>14. ArrayFits(a)'
  BY <1>4, <1>7, <1>9, <1>11 DEF ArrayFits
<1>15. BalancedResume(a, body, taken)
  <2> SUFFICES ASSUME NEW o \in Counted
               PROVE  Occurrences(taken, o) + Masked(o)' + Occurrences(References(heap[a]), o) + Held(o)
                      + Occurrences(todo, o) + Occurrences(pending.then, o) + One(pending.value, o)
                          = Masked(o) + Occurrences(References(body), o) + Held(o)' + Occurrences(todo', o)
                            + Occurrences(pending'.then, o) + One(pending'.value, o)
    BY DEF BalancedResume
  <2> DEFINE ox == One(x, o)
             ov == One(value, o)
             re == Occurrences(old, o)
             rb == Occurrences(new, o)
             th == Occurrences(then, o)
             he == Held(o)
  <2>1. rb + ox = re + ov
    BY <1>8
  <2>2. ox \in Nat /\ ov \in Nat /\ re \in Nat /\ rb \in Nat /\ th \in Nat /\ he \in Nat
    BY <1>1, <1>4, <1>7, WhereFinite DEF Held, One
  <2>3. ov + 0 + re + he + 0 + th + 0 = ox + rb + he + th + 0 + 0
    <3> HIDE DEF ox, ov, re, rb, th, he
    <3> QED BY <2>1, <2>2
  <2>4. Masked(o) = ox
    BY <1>2, <1>4 DEF Masked
  <2>5. Occurrences(taken, o) = ov
    BY OccOne DEF taken
  <2>6. Occurrences(todo, o) = 0 /\ Held(o)' = he /\ One(pending.value, o) = 0
    BY <1>2, <1>3, OccEmpty, NoOneIsNull DEF Held
  <2> QED BY <2>3, <2>4, <2>5, <2>6, <1>2, <1>4, <1>9, <1>10
<1>16. body.kind = heap[a].kind /\ heap[a].kind \in {"array", "hash"} /\ UNCHANGED <<chain, lost>>
  BY <1>2, <1>3, <1>9
<1> QED BY <1>2, <1>3, <1>6, <1>9, <1>10, <1>12, <1>13, <1>14, <1>15, <1>16, ResumeStep

-----------------------------------------------------------------------------
(* Releases                                                                 *)

\* The release at this place takes the count of an object to zero.
GoesToZero(i) ==
    /\ todo[i] \in Counted
    /\ Occurrences(SubSeq(todo, 1, i), todo[i]) = refCnt[todo[i]]
Zeros == {i \in DOMAIN todo : GoesToZero(i)}
Until(n) == SubSeq(todo, 1, n)
Beyond(n) == SubSeq(todo, n + 1, Len(todo))

LEMMA UntilAndBeyond ==
    ASSUME IInv, NEW n \in 0 .. Len(todo)
    PROVE  /\ Until(n) \in Seq(Pointer) /\ Beyond(n) \in Seq(Pointer)
           /\ \A x : /\ Occurrences(todo, x) = Occurrences(Until(n), x) + Occurrences(Beyond(n), x)
                     /\ Occurrences(Until(n), x) \in Nat /\ Occurrences(Beyond(n), x) \in Nat
<1>1. todo \in Seq(Pointer)
  BY DEF IInv, Typed
<1>2. \A x : /\ Until(n) \in Seq(Pointer) /\ Beyond(n) \in Seq(Pointer)
             /\ Occurrences(todo, x) = Occurrences(Until(n), x) + Occurrences(Beyond(n), x)
  BY <1>1, OccSplit DEF Until, Beyond
<1> QED BY <1>2, WhereFinite

\* Nothing is released more often than it is counted, and what is released as
\* often has no other owner.
LEMMA FrontCounted ==
    ASSUME IInv, NEW n \in 0 .. Len(todo), NEW x \in Counted
    PROVE  /\ Occurrences(Until(n), x) <= refCnt[x] /\ refCnt[x] \in Nat
           /\ Occurrences(Until(n), x) = refCnt[x] =>
                 /\ x \notin held /\ x # Interpreter
                 /\ Occurrences(pending.then, x) = 0 /\ pending.value # x
<1> DEFINE m == Masked(x)
           io == Cardinality(Referring(x))
           ow == Owners(x)
           f == Occurrences(Until(n), x)
           b == Occurrences(Beyond(n), x)
           td == Occurrences(todo, x)
           ih == Occurrences(InHandler, x)
           th == Occurrences(pending.then, x)
           va == One(pending.value, x)
           he == Held(x)
           lo == lost[x]
           ro == Root(x)
<1>1. Typed /\ PendingFits /\ refCnt[x] = ow /\ refCnt[x] \in Nat
  BY OwnersExact DEF IInv
<1>2. ow = io + he + td + ih + lo + ro
  BY DEF Owners, Held, Root
<1>3. td = f + b /\ f \in Nat /\ b \in Nat
  BY UntilAndBeyond
<1>4. ih = th + va /\ th \in Nat /\ lo \in Nat
  <2>1. pending.then \in Seq(Pointer) /\ pending.value \in Pointer /\ lo \in Nat
    BY <1>1 DEF Typed, PendingType
  <2> QED BY <2>1, OccAppend, WhereFinite DEF InHandler
<1>5. io \in Nat
  <2> DEFINE map == [a \in Object |-> Slots(a)]
  <2>1. map \in [Object -> Seq(Pointer)]
    BY <1>1, SlotsType
  <2>2. Referring(x) = Pairs(map, x)
    BY DEF Referring, Pairs
  <2> HIDE DEF map
  <2> QED BY <2>1, <2>2, PairsFinite DEF InSlots
<1>6. he \in Nat /\ ro \in Nat /\ va \in Nat
  BY DEF Held, Root, One
<1>7. (x \in held => he = 1) /\ (x = Interpreter => ro = 1) /\ (pending.value = x => va = 1)
  BY DEF Held, Root, One
<1>8. f <= ow /\ (f = ow => he = 0 /\ ro = 0 /\ th = 0 /\ va = 0)
  <2> HIDE DEF io, ow, f, b, td, ih, th, va, he, lo, ro
  <2> QED BY <1>2, <1>3, <1>4, <1>5, <1>6
<1> QED BY <1>1, <1>7, <1>8

LEMMA MinusCounts ==
    ASSUME IInv, NEW n \in 0 .. Len(todo)
    PROVE  /\ Minus(refCnt, Until(n)) \in [Counted -> Nat]
           /\ \A x \in Counted : Minus(refCnt, Until(n))[x] = refCnt[x] - Occurrences(Until(n), x)
<1>1. refCnt \in [Counted -> Nat]
  BY DEF IInv, Typed
<1>2. \A x \in Counted : /\ Minus(refCnt, Until(n))[x] = refCnt[x] - Occurrences(Until(n), x)
                         /\ DOMAIN Minus(refCnt, Until(n)) = Counted
  BY <1>1 DEF Minus
<1>3. \A x \in Counted : refCnt[x] - Occurrences(Until(n), x) \in Nat
  <2> TAKE x \in Counted
  <2>1. /\ Occurrences(Until(n), x) <= refCnt[x] /\ refCnt[x] \in Nat /\ Occurrences(Until(n), x) \in Nat
    BY FrontCounted, UntilAndBeyond
  <2> QED BY <2>1
<1> QED BY <1>1, <1>2, <1>3 DEF Minus

\* What is released as often as it is counted is so at some place.
LEMMA ReachesZero ==
    ASSUME IInv, NEW n \in 0 .. Len(todo), NEW x \in Counted, refCnt[x] # 0,
           Occurrences(Until(n), x) = refCnt[x]
    PROVE  \E i \in Zeros : i <= n /\ todo[i] = x
<1> DEFINE S == {m \in 0 .. n : Occurrences(Until(m), x) = refCnt[x]}
<1>1. n \in S /\ S \subseteq Nat
  BY DEF IInv, Typed
<1>2. PICK m \in S : \A k \in S : m <= k
  BY <1>1, LeastNumber
<1>3. m \in 0 .. n /\ Occurrences(Until(m), x) = refCnt[x]
  BY <1>2
<1>4. todo \in Seq(Pointer) /\ Len(todo) \in Nat /\ DOMAIN todo = 1 .. Len(todo)
  BY DEF IInv, Typed
<1>5. m # 0
  <2>1. Until(0) = <<>>
    BY <1>4 DEF Until
  <2> QED BY <2>1, <1>3, OccEmpty
<1>6. m - 1 \in Nat /\ m - 1 \in 0 .. n /\ (m - 1) + 1 = m /\ m \in DOMAIN todo /\ m - 1 \in 0 .. Len(todo)
  BY <1>3, <1>4, <1>5
<1>7. Occurrences(Until(m - 1), x) # refCnt[x]
  <2>1. m - 1 \notin S
    BY <1>2, <1>6
  <2> QED BY <2>1, <1>6
<1>8. Occurrences(Until(m), x) = Occurrences(Until(m - 1), x) + One(todo[m], x)
  <2> DEFINE k == m - 1
  <2>1. k \in Nat /\ k + 1 \in DOMAIN todo /\ k + 1 = m
    BY <1>6
  <2> HIDE DEF k
  <2>2. Occurrences(SubSeq(todo, 1, k + 1), x) = Occurrences(SubSeq(todo, 1, k), x) + One(todo[k + 1], x)
    BY <2>1, <1>4, OccGrows
  <2> QED BY <2>1, <2>2 DEF Until, k
<1>9. Occurrences(Until(m - 1), x) \in Nat
  BY <1>6, UntilAndBeyond
<1>10. todo[m] = x
  BY <1>3, <1>7, <1>8, <1>9 DEF One
<1>11. m \in Zeros
  BY <1>3, <1>6, <1>10 DEF Zeros, GoesToZero, Until
<1> QED BY <1>3, <1>10, <1>11

\* What is released next, and what is left when it is
ReleasesUpTo(n) ==
    /\ n \in 0 .. Len(todo) /\ todo # <<>>
    /\ refCnt' = Minus(refCnt, Until(n))
    /\ UNCHANGED <<held, pending, lost, bound, client>>
NoneGone == todo' = <<>> /\ UNCHANGED <<heap, chain>>
CaptureGone(o, n) ==
    /\ heap[o].kind = "capture"
    /\ todo' = References(heap[o]) \o Beyond(n)
    /\ heap' = Put(heap, o, Free) /\ chain' = chain
OtherGone(o, n) ==
    /\ heap[o].kind # "capture"
    /\ todo' = Beyond(n) /\ chain' = <<o>> \o chain /\ heap' = heap

\* One object at most loses its last reference, and it is not pending's.
LEMMA ReleaseFacts ==
    ASSUME IInv, ReleaseNext
    PROVE  \E n \in 0 .. Len(todo) :
              /\ ReleasesUpTo(n)
              /\ \/ /\ NoneGone /\ n = Len(todo)
                    /\ \A x \in Counted : refCnt'[x] = 0 => refCnt[x] = 0
                 \/ \E o \in Object :
                       /\ refCnt[o] > 0 /\ refCnt[o] = Occurrences(Until(n), o)
                       /\ CaptureGone(o, n) \/ OtherGone(o, n)
                       /\ \A x \in Counted \ {o} : refCnt'[x] = 0 => refCnt[x] = 0
<1> DEFINE n == IF Zeros = {} THEN Len(todo) ELSE Min(Zeros)
           o == todo[n]
<1>1. todo \in Seq(Pointer) /\ Len(todo) \in Nat /\ DOMAIN todo = 1 .. Len(todo)
      /\ refCnt \in [Counted -> Nat]
  BY DEF IInv, Typed
<1>2. /\ todo # <<>> /\ refCnt' = Minus(refCnt, Until(n))
      /\ UNCHANGED <<held, pending, lost, bound, client>>
      /\ Zeros = {} => todo' = Beyond(n) /\ UNCHANGED <<heap, chain>>
      /\ Zeros # {} /\ heap[o].kind = "capture" =>
            todo' = References(heap[o]) \o Beyond(n) /\ heap' = [heap EXCEPT ![o] = Free] /\ chain' = chain
      /\ Zeros # {} /\ heap[o].kind # "capture" =>
            todo' = Beyond(n) /\ chain' = <<o>> \o chain /\ heap' = heap
  BY DEF ReleaseNext, Zeros, GoesToZero, Until, Beyond
<1>3. Zeros # {} => n \in Zeros
  <2>1. Zeros \subseteq Nat
    BY <1>1 DEF Zeros
  <2> QED BY <2>1, FirstOf
<1>4. n \in 0 .. Len(todo)
  BY <1>1, <1>3 DEF Zeros
<1> HIDE DEF n
<1>5. ReleasesUpTo(n)
  BY <1>2, <1>4 DEF ReleasesUpTo
<1>6. \A x \in Counted : /\ refCnt[x] \in Nat /\ Occurrences(Until(n), x) \in Nat
                         /\ refCnt'[x] = refCnt[x] - Occurrences(Until(n), x)
  BY <1>1, <1>2, <1>4, MinusCounts, UntilAndBeyond
<1>7. ASSUME NEW x \in Counted, refCnt'[x] = 0, refCnt[x] # 0
      PROVE  \E i \in Zeros : i <= n /\ todo[i] = x
  <2>1. Occurrences(Until(n), x) = refCnt[x]
    BY <1>6, <1>7
  <2> QED BY <2>1, <1>4, <1>7, ReachesZero
<1>8. CASE Zeros = {}
  <2>1. NoneGone /\ n = Len(todo)
    <3>1. n = Len(todo)
      BY <1>8 DEF n
    <3>2. Beyond(n) = <<>>
      BY <1>1, <3>1 DEF Beyond
    <3> QED BY <1>2, <1>8, <3>1, <3>2 DEF NoneGone
  <2>2. \A x \in Counted : refCnt'[x] = 0 => refCnt[x] = 0
    BY <1>7, <1>8
  <2> QED BY <1>4, <1>5, <2>1, <2>2
<1>9. CASE Zeros # {}
  <2>1. n \in Zeros /\ \A i \in Zeros : n <= i
    <3>1. Zeros \subseteq Nat
      BY <1>1 DEF Zeros
    <3>2. \E m \in Zeros : \A i \in Zeros : m <= i
      BY <3>1, <1>9, LeastNumber
    <3>3. n = CHOOSE m \in Zeros : \A i \in Zeros : m <= i
      BY <1>9, Zenon DEF n, Min
    <3> QED BY <3>2, <3>3
  <2>2. n \in 1 .. Len(todo) /\ o \in Counted /\ Occurrences(Until(n), o) = refCnt[o]
    BY <2>1, <1>1 DEF Zeros, GoesToZero, Until
  <2>3. refCnt[o] > 0
    <3> DEFINE k == n - 1
    <3>1. k \in Nat /\ k + 1 \in DOMAIN todo /\ k + 1 = n /\ k \in 0 .. Len(todo)
      BY <2>2, <1>1
    <3> HIDE DEF k
    <3>2. Occurrences(SubSeq(todo, 1, k + 1), o) = Occurrences(SubSeq(todo, 1, k), o) + One(todo[k + 1], o)
      BY <3>1, <1>1, OccGrows
    <3>3. Occurrences(Until(n), o) = Occurrences(Until(k), o) + 1 /\ Occurrences(Until(k), o) \in Nat
      BY <3>1, <3>2, UntilAndBeyond DEF Until, One
    <3> QED BY <2>2, <3>3
  <2>4. o \in Object
    <3>1. o # Interpreter
      BY <1>4, <2>2, FrontCounted
    <3> QED BY <3>1, <2>2 DEF Counted
  <2>5. CaptureGone(o, n) \/ OtherGone(o, n)
    BY <1>2, <1>9 DEF CaptureGone, OtherGone, Put
  <2>6. \A x \in Counted \ {o} : refCnt'[x] = 0 => refCnt[x] = 0
    <3> SUFFICES ASSUME NEW x \in Counted \ {o}, refCnt'[x] = 0, refCnt[x] # 0 PROVE FALSE
      OBVIOUS
    <3>1. PICK i \in Zeros : i <= n /\ todo[i] = x
      BY <1>7
    <3>2. i = n
      BY <2>1, <3>1, <1>1, <2>2 DEF Zeros
    <3> QED BY <3>1, <3>2
  <2> HIDE DEF o
  <2>7. \E q \in Object :
           /\ refCnt[q] > 0 /\ refCnt[q] = Occurrences(Until(n), q)
           /\ CaptureGone(q, n) \/ OtherGone(q, n)
           /\ \A x \in Counted \ {q} : refCnt'[x] = 0 => refCnt[x] = 0
    BY <2>2, <2>3, <2>4, <2>5, <2>6
  <2> QED BY <1>4, <1>5, <2>7
<1> QED BY <1>8, <1>9

LEMMA ChainLonger ==
    ASSUME NEW seq \in Seq(Object), IsInjective(seq), NEW o \in Object, o \notin Range(seq)
    PROVE  /\ <<o>> \o seq \in Seq(Object) /\ Range(<<o>> \o seq) = Range(seq) \cup {o}
           /\ IsInjective(<<o>> \o seq)
<1> DEFINE s == <<o>> \o seq
           n == Len(seq)
<1>1. /\ s \in Seq(Object) /\ n \in Nat /\ Len(s) = n + 1 /\ DOMAIN seq = 1 .. n
      /\ DOMAIN s = 1 .. n + 1 /\ s[1] = o /\ \A i \in 2 .. n + 1 : s[i] = seq[i - 1]
  OBVIOUS
<1> HIDE DEF s, n
<1>2. \A i \in 1 .. n : seq[i] # o /\ seq[i] \in Range(seq)
  BY <1>1 DEF Range
<1>3. \A i, j \in 1 .. n : seq[i] = seq[j] => i = j
  BY <1>1, Zenon DEF IsInjective
<1>4. \A i \in 2 .. n + 1 : i - 1 \in 1 .. n
  BY <1>1
<1>5. Range(s) = Range(seq) \cup {o}
  <2>1. ASSUME NEW x \in Range(s) PROVE x \in Range(seq) \cup {o}
    <3>1. PICK i \in 1 .. n + 1 : x = s[i]
      BY <1>1 DEF Range
    <3>2. CASE i = 1
      BY <3>1, <3>2, <1>1
    <3>3. CASE i # 1
      <4>1. i \in 2 .. n + 1
        BY <3>3, <1>1
      <4> QED BY <3>1, <4>1, <1>1, <1>2, <1>4
    <3> QED BY <3>2, <3>3
  <2>2. ASSUME NEW x \in Range(seq) \cup {o} PROVE x \in Range(s)
    <3>1. CASE x = o
      <4>1. 1 \in DOMAIN s /\ s[1] = o
        BY <1>1
      <4> QED BY <3>1, <4>1 DEF Range
    <3>2. CASE x # o
      <4>1. PICK i \in 1 .. n : x = seq[i]
        BY <3>2, <1>1 DEF Range
      <4>2. i + 1 \in 2 .. n + 1 /\ (i + 1) - 1 = i /\ i + 1 \in DOMAIN s
        BY <1>1
      <4>3. s[i + 1] = x
        BY <4>1, <4>2, <1>1
      <4> QED BY <4>2, <4>3 DEF Range
    <3> QED BY <3>1, <3>2
  <2> QED BY <2>1, <2>2
<1>6. \A i, j \in DOMAIN s : s[i] = s[j] => i = j
  <2> SUFFICES ASSUME NEW i \in 1 .. n + 1, NEW j \in 1 .. n + 1, s[i] = s[j] PROVE i = j
    BY <1>1
  <2>1. \A k \in 1 .. n + 1 : k = 1 \/ k \in 2 .. n + 1
    BY <1>1
  <2>2. CASE i = 1 /\ j \in 2 .. n + 1
    BY <2>2, <1>1, <1>2, <1>4
  <2>3. CASE j = 1 /\ i \in 2 .. n + 1
    BY <2>3, <1>1, <1>2, <1>4
  <2>4. CASE i \in 2 .. n + 1 /\ j \in 2 .. n + 1
    <3>1. i - 1 = j - 1
      BY <2>4, <1>1, <1>3, <1>4
    <3> QED BY <3>1, <2>4
  <2> QED BY <2>1, <2>2, <2>3, <2>4
<1>7. IsInjective(s)
  BY <1>6, Zenon DEF IsInjective
<1> QED BY <1>1, <1>5, <1>7 DEF s
\* How the owners of references change when n releases are made
BalancedRelease(n) ==
    \A x \in Counted : InHeap(heap', x) + Occurrences(todo', x)
                          = InHeap(heap, x) + Occurrences(Beyond(n), x)

LEMMA ReleasesStep ==
    ASSUME IInv, NEW n \in 0 .. Len(todo), ReleasesUpTo(n), BalancedRelease(n),
           heap' \in [Object -> Body], todo' \in Seq(Pointer), chain' \in Seq(Object),
           PendingFits', ChainFits', BoundFits', BindingsKept',
           \A x \in Counted : Masked(x)' = Masked(x),
           \A x \in Object : Keeps(x) /\ There(x)'
    PROVE  IInv'
<1>1. Typed
  BY DEF IInv
<1>2. /\ refCnt' \in [Counted -> Nat] /\ UNCHANGED <<held, pending, lost, bound, client>>
      /\ \A x \in Counted : /\ refCnt'[x] = refCnt[x] - Occurrences(Until(n), x)
                            /\ refCnt[x] \in Nat /\ Occurrences(Until(n), x) \in Nat
  <2>1. refCnt' = Minus(refCnt, Until(n)) /\ UNCHANGED <<held, pending, lost, bound, client>>
    BY DEF ReleasesUpTo
  <2> QED BY <2>1, <1>1, MinusCounts, UntilAndBeyond DEF Typed
<1>3. Typed'
  BY <1>1, <1>2 DEF Typed
<1>4. ASSUME NEW x \in Counted PROVE Moved(x)
  <2> DEFINE r == refCnt[x]
             rn == refCnt'[x]
             m == Masked(x)
             ho == InHeap(heap, x)
             hn == InHeap(heap', x)
             f == Occurrences(Until(n), x)
             b == Occurrences(Beyond(n), x)
             td == Occurrences(todo, x)
             tdn == Occurrences(todo', x)
             he == Held(x)
             th == Occurrences(pending.then, x)
             va == One(pending.value, x)
             lo == lost[x]
  <2>1. hn + tdn = ho + b
    BY DEF BalancedRelease
  <2>2. td = f + b /\ rn = r - f
    BY <1>2, UntilAndBeyond
  <2>3. /\ r \in Nat /\ rn \in Nat /\ m \in Nat /\ ho \in Nat /\ hn \in Nat /\ f \in Nat /\ b \in Nat
        /\ tdn \in Nat /\ he \in Nat /\ th \in Nat /\ va \in Nat /\ lo \in Nat
    <3>1. pending.then \in Seq(Pointer) /\ lo \in Nat /\ heap \in [Object -> Body]
      BY <1>1 DEF Typed, PendingType
    <3>2. th \in Nat /\ tdn \in Nat /\ ho \in Nat /\ hn \in Nat
      BY <3>1, WhereFinite, SlotsOfType
    <3>3. m \in Nat /\ he \in Nat /\ va \in Nat
      BY DEF Masked, Held, One
    <3> QED BY <3>1, <3>2, <3>3, <1>2, UntilAndBeyond
  <2>4. rn + m + ho + he + td + th + va + lo = r + m + hn + he + tdn + th + va + lo
    <3> HIDE DEF r, rn, m, ho, hn, f, b, td, tdn, he, th, va, lo
    <3> QED BY <2>1, <2>2, <2>3
  <2>5. Held(x)' = he /\ pending' = pending /\ lost'[x] = lo
    BY <1>2 DEF Held
  <2> QED BY <2>4, <2>5 DEF Moved
<1> QED BY <1>3, <1>4, RunStep

\* The objects of a chain stay in it: nothing that is left has a count of zero.
LEMMA ChainStays ==
    ASSUME IInv, NEW n \in 0 .. Len(todo), ReleasesUpTo(n), NEW o \in Range(chain)
    PROVE  o \in Object /\ refCnt[o] = 0 /\ refCnt'[o] = 0 /\ heap[o].kind # "capture"
<1>1. o \in Object /\ refCnt[o] = 0 /\ heap[o].kind # "capture"
  <2>1. chain \in Seq(Object)
    BY DEF IInv, Typed
  <2> QED BY <2>1 DEF IInv, ChainFits, Range
<1>2. /\ refCnt'[o] = refCnt[o] - Occurrences(Until(n), o) /\ refCnt[o] \in Nat
      /\ Occurrences(Until(n), o) <= refCnt[o] /\ Occurrences(Until(n), o) \in Nat
  <2>1. o \in Counted
    BY <1>1, PointerSets
  <2>2. refCnt' = Minus(refCnt, Until(n))
    BY DEF ReleasesUpTo
  <2> QED BY <2>1, <2>2, MinusCounts, FrontCounted, UntilAndBeyond
<1> QED BY <1>1, <1>2

LEMMA ReleaseNextStep ==
    ASSUME IInv, ReleaseNext
    PROVE  IInv'
<1>1. PICK n \in 0 .. Len(todo) :
         /\ ReleasesUpTo(n)
         /\ \/ /\ NoneGone /\ n = Len(todo)
               /\ \A x \in Counted : refCnt'[x] = 0 => refCnt[x] = 0
            \/ \E o \in Object :
                  /\ refCnt[o] > 0 /\ refCnt[o] = Occurrences(Until(n), o)
                  /\ CaptureGone(o, n) \/ OtherGone(o, n)
                  /\ \A x \in Counted \ {o} : refCnt'[x] = 0 => refCnt[x] = 0
  BY ReleaseFacts
<1>2. /\ Typed /\ PendingFits /\ ChainFits /\ CountsExact /\ heap \in [Object -> Body]
      /\ chain \in Seq(Object)
  BY DEF IInv, Typed
<1>3. /\ Beyond(n) \in Seq(Pointer) /\ UNCHANGED <<pending, bound>>
      /\ \A x \in Counted : /\ refCnt'[x] = refCnt[x] - Occurrences(Until(n), x)
                            /\ refCnt[x] \in Nat /\ Occurrences(Until(n), x) \in Nat
                            /\ Occurrences(Until(n), x) <= refCnt[x]
  <2>1. refCnt' = Minus(refCnt, Until(n)) /\ UNCHANGED <<pending, bound>>
    BY <1>1 DEF ReleasesUpTo
  <2> QED BY <2>1, MinusCounts, FrontCounted, UntilAndBeyond
<1>4. Object \subseteq Counted
  BY PointerSets
<1>5. \A o \in Range(chain) : o \in Object /\ refCnt[o] = 0 /\ refCnt'[o] = 0 /\ heap[o].kind # "capture"
  BY <1>1, ChainStays
<1>6. ASSUME heap' = heap
      PROVE  /\ PendingFits' /\ BoundFits' /\ BindingsKept' /\ heap' \in [Object -> Body]
             /\ \A x \in Counted : Masked(x)' = Masked(x)
             /\ \A x \in Object : Keeps(x)
             /\ \A x \in Counted : InHeap(heap', x) = InHeap(heap, x)
  <2>1. PendingFits'
    BY <1>2, <1>3, <1>6 DEF PendingFits
  <2>2. \A x \in Counted : Masked(x)' = Masked(x)
    BY <1>3, <1>6 DEF Masked
  <2>3. BoundFits' /\ BindingsKept'
    BY <1>3, <1>6, BindingsSame
  <2> QED BY <2>1, <2>2, <2>3, <1>2, <1>6 DEF Keeps
<1>7. ASSUME NEW x \in Object, refCnt'[x] = 0 => refCnt[x] = 0
      PROVE  heap[x].kind # "free" <=> refCnt'[x] > 0 \/ x \in Range(chain)
  <2>1. heap[x].kind # "free" <=> refCnt[x] > 0 \/ x \in Range(chain)
    BY <1>2 DEF CountsExact
  <2>2. refCnt'[x] > 0 <=> refCnt[x] > 0
    BY <1>3, <1>4, <1>7
  <2> QED BY <2>1, <2>2
<1>8. CASE NoneGone /\ n = Len(todo) /\ \A x \in Counted : refCnt'[x] = 0 => refCnt[x] = 0
  <2>1. todo' = <<>> /\ heap' = heap /\ chain' = chain
    BY <1>8 DEF NoneGone
  <2>2. todo' \in Seq(Pointer)
    BY <2>1
  <2>3. BalancedRelease(n)
    <3>1. Beyond(n) = <<>>
      <4>1. todo \in Seq(Pointer)
        BY <1>2 DEF Typed
      <4> QED BY <4>1, <1>8 DEF Beyond
    <3> QED BY <3>1, <2>1 DEF BalancedRelease
  <2>4. ChainFits'
    BY <1>2, <1>5, <2>1 DEF ChainFits
  <2>5. \A x \in Object : There(x)'
    BY <1>4, <1>7, <1>8, <2>1 DEF There
  <2> QED BY <1>1, <1>2, <1>6, <2>1, <2>2, <2>3, <2>4, <2>5, ReleasesStep
<1>9. ASSUME NEW o \in Object, refCnt[o] > 0, refCnt[o] = Occurrences(Until(n), o),
             \A x \in Counted \ {o} : refCnt'[x] = 0 => refCnt[x] = 0,
             OtherGone(o, n)
      PROVE  IInv'
  <2>1. /\ heap[o].kind # "capture"
        /\ todo' = Beyond(n) /\ chain' = <<o>> \o chain /\ heap' = heap
    BY <1>9 DEF OtherGone
  <2>2. refCnt'[o] = 0
    BY <1>3, <1>4, <1>9
  <2>3. o \notin Range(chain)
    BY <1>5, <1>9
  <2>4. /\ chain' \in Seq(Object) /\ Range(chain') = Range(chain) \cup {o} /\ IsInjective(chain')
    BY <1>2, <2>1, <2>3, ChainLonger DEF ChainFits
  <2>5. BalancedRelease(n)
    BY <1>6, <2>1 DEF BalancedRelease
  <2>6. ChainFits'
    BY <1>5, <2>1, <2>2, <2>4 DEF ChainFits
  <2>7. ASSUME NEW x \in Object PROVE There(x)'
    <3>1. CASE x = o
      <4>1. heap[o].kind # "free"
        BY <1>2, <1>9 DEF CountsExact
      <4> QED BY <3>1, <4>1, <2>1, <2>4 DEF There
    <3>2. CASE x # o
      BY <3>2, <1>4, <1>7, <1>9, <2>1, <2>4 DEF There
    <3> QED BY <3>1, <3>2
  <2> QED BY <1>1, <1>3, <1>6, <2>1, <2>4, <2>5, <2>6, <2>7, ReleasesStep
<1>10. ASSUME NEW o \in Object, refCnt[o] > 0, refCnt[o] = Occurrences(Until(n), o),
              \A x \in Counted \ {o} : refCnt'[x] = 0 => refCnt[x] = 0,
              CaptureGone(o, n)
       PROVE  IInv'
  <2>1. /\ heap[o].kind = "capture"
        /\ todo' = References(heap[o]) \o Beyond(n) /\ heap' = Put(heap, o, Free) /\ chain' = chain
    BY <1>10 DEF CaptureGone
  <2>2. /\ heap' \in [Object -> Body] /\ heap'[o] = Free
        /\ \A x \in Object \ {o} : heap'[x] = heap[x]
        /\ \A x : InHeap(heap', x) + Occurrences(References(heap[o]), x) = InHeap(heap, x) + 0
        /\ \A x : InHeap(heap', x) \in Nat /\ InHeap(heap, x) \in Nat
    <3>1. Free \in Body /\ References(Free) = <<>>
      BY DEF Free, Body, References
    <3>2. Replaced(heap, o, Free, heap')
      BY <1>2, <2>1, <3>1, HeapPut
    <3>3. \A x : Occurrences(References(Free), x) = 0
      BY <3>1, OccEmpty
    <3>4. \A x : InHeap(heap', x) + Occurrences(References(heap[o]), x)
                   = InHeap(heap, x) + Occurrences(References(Free), x)
      BY <3>2 DEF Replaced
    <3>5. /\ heap' \in [Object -> Body] /\ heap'[o] = Free
          /\ \A x \in Object \ {o} : heap'[x] = heap[x]
      BY <3>2 DEF Replaced
    <3> QED BY <3>3, <3>4, <3>5, <1>2, SlotsOfType
  <2>3. References(heap[o]) \in Seq(Pointer)
    BY <1>2, ReferencesOf
  <2>4. /\ todo' \in Seq(Pointer)
        /\ \A x : Occurrences(todo', x) = Occurrences(References(heap[o]), x) + Occurrences(Beyond(n), x)
    BY <1>3, <2>1, <2>3, OccConcat
  <2>5. BalancedRelease(n)
    <3> SUFFICES ASSUME NEW x \in Counted
                 PROVE  InHeap(heap', x) + Occurrences(todo', x)
                           = InHeap(heap, x) + Occurrences(Beyond(n), x)
      BY DEF BalancedRelease
    <3>1. Occurrences(References(heap[o]), x) \in Nat /\ Occurrences(Beyond(n), x) \in Nat
      BY <1>3, <2>3, WhereFinite
    <3> QED BY <2>2, <2>4, <3>1
  <2>6. refCnt'[o] = 0
    BY <1>3, <1>4, <1>10
  <2>7. o \notin Range(chain)
    BY <1>5, <1>10
  <2>8. Occurrences(pending.then, o) = 0
    BY <1>4, <1>10, FrontCounted
  <2>9. pending.obj \in Object /\ heap[pending.obj].kind # "capture" => heap'[pending.obj] = heap[pending.obj]
    BY <2>1, <2>2
  <2>10. PendingFits'
    <3>1. ASSUME pending.op = "STORE"
          PROVE  \E p, c \in Object :
                    /\ pending.then = <<p, c>>
                    /\ heap'[p].kind = "proxy" /\ heap'[p].array = pending.obj
                    /\ heap'[c].kind = "capture"
                    /\ pending.obj \in Object /\ heap'[pending.obj].kind = "array"
                    /\ pending.slot \in DOMAIN heap'[pending.obj].content
                    /\ pending.value = NoObject
      <4>1. PICK p \in Object, c \in Object :
                    /\ pending.then = <<p, c>>
                    /\ heap[p].kind = "proxy" /\ heap[p].array = pending.obj
                    /\ heap[c].kind = "capture"
                    /\ pending.obj \in Object /\ heap[pending.obj].kind = "array"
                    /\ pending.slot \in DOMAIN heap[pending.obj].content
                    /\ pending.value = NoObject
        BY <3>1, <1>2 DEF PendingFits
      <4>2. p # o /\ c # o /\ pending.obj # o
        <5>1. One(p, o) + One(c, o) = 0
          BY <2>8, <4>1, OccTwo
        <5> QED BY <5>1, <4>1, <2>1 DEF One
      <4>3. heap'[p] = heap[p] /\ heap'[c] = heap[c] /\ heap'[pending.obj] = heap[pending.obj]
        BY <2>2, <4>1, <4>2
      <4> QED BY <4>1, <4>3
    <3>2. ASSUME pending.op \in {"bind_key", "lookup_key"}
          PROVE  /\ pending.obj \in Object /\ heap'[pending.obj].kind = "hash"
                 /\ \E m \in DOMAIN heap'[pending.obj].buckets : pending.slot = 2 * m
      BY <3>2, <1>2, <2>9 DEF PendingFits
    <3>3. pending' = pending
      BY <1>3
    <3> QED BY <3>1, <3>2, <3>3, <1>2 DEF PendingFits
  <2>11. \A x \in Counted : Masked(x)' = Masked(x)
    <3>1. pending.op \in {"STORE", "bind_key"} => heap'[pending.obj] = heap[pending.obj]
      BY <1>2, <2>9, MaskedIn
    <3> QED BY <3>1, <1>3 DEF Masked
  <2>12. BoundFits' /\ BindingsKept'
    <3>1. \A h \in Object : \/ heap'[h] = heap[h]
                            \/ heap[h].kind = "free" /\ heap'[h] = Hash(<<>>)
                            \/ heap[h].kind # "hash" /\ heap'[h].kind # "hash"
      <4>1. heap'[o].kind # "hash" /\ heap[o].kind # "hash"
        BY <2>1, <2>2 DEF Free
      <4> QED BY <4>1, <2>2
    <3> QED BY <3>1, <1>3, BindingsSame
  <2>13. ChainFits'
    <3>1. \A x \in Range(chain') : x \in Range(chain) /\ x # o
      BY <2>1, <2>7
    <3>2. IsInjective(chain')
      BY <1>2, <2>1 DEF ChainFits
    <3> QED BY <1>5, <2>2, <3>1, <3>2 DEF ChainFits
  <2>14. ASSUME NEW x \in Object PROVE Keeps(x) /\ There(x)'
    <3>1. CASE x = o
      BY <3>1, <2>1, <2>2, <2>6, <2>7 DEF Keeps, There, Free
    <3>2. CASE x # o
      BY <3>2, <1>4, <1>7, <1>10, <2>1, <2>2 DEF Keeps, There
    <3> QED BY <3>1, <3>2
  <2> QED BY <1>1, <1>2, <2>1, <2>2, <2>4, <2>5, <2>10, <2>11, <2>12, <2>13, <2>14, ReleasesStep
<1> QED BY <1>1, <1>8, <1>9, <1>10

LEMMA ChainTail ==
    ASSUME NEW seq \in Seq(Object), IsInjective(seq), seq # <<>>
    PROVE  /\ Head(seq) \in Range(seq) /\ Head(seq) \in Object
           /\ Tail(seq) \in Seq(Object) /\ IsInjective(Tail(seq))
           /\ \A x : x \in Range(Tail(seq)) <=> x \in Range(seq) /\ x # Head(seq)
<1> DEFINE s == Tail(seq)
           o == Head(seq)
           n == Len(seq)
<1>1. /\ n \in Nat /\ n > 0 /\ DOMAIN seq = 1 .. n /\ o = seq[1] /\ s \in Seq(Object)
      /\ DOMAIN s = 1 .. n - 1 /\ \A i \in 1 .. n - 1 : s[i] = seq[i + 1]
  OBVIOUS
<1>2. \A i \in 1 .. n : seq[i] \in Object
  OBVIOUS
<1> HIDE DEF s, o, n
<1>3. 1 \in DOMAIN seq /\ o \in Range(seq) /\ o \in Object
  BY <1>1, <1>2 DEF Range
<1>4. \A i, j \in 1 .. n : seq[i] = seq[j] => i = j
  BY <1>1, Zenon DEF IsInjective
<1>5. \A i \in 1 .. n - 1 : i + 1 \in 1 .. n /\ i + 1 # 1
  BY <1>1
<1>6. \A i, j \in DOMAIN s : s[i] = s[j] => i = j
  <2> SUFFICES ASSUME NEW i \in 1 .. n - 1, NEW j \in 1 .. n - 1, s[i] = s[j] PROVE i = j
    BY <1>1
  <2>1. i + 1 = j + 1
    BY <1>1, <1>4, <1>5
  <2> QED BY <2>1
<1>7. IsInjective(s)
  BY <1>6, Zenon DEF IsInjective
<1>8. ASSUME NEW x PROVE x \in Range(s) <=> x \in Range(seq) /\ x # o
  <2>1. ASSUME x \in Range(s) PROVE x \in Range(seq) /\ x # o
    <3>1. PICK i \in 1 .. n - 1 : x = s[i]
      BY <2>1, <1>1 DEF Range
    <3>2. x = seq[i + 1] /\ i + 1 \in DOMAIN seq /\ x # seq[1]
      BY <3>1, <1>1, <1>3, <1>4, <1>5
    <3> QED BY <3>2, <1>1 DEF Range
  <2>2. ASSUME x \in Range(seq), x # o PROVE x \in Range(s)
    <3>1. PICK i \in 1 .. n : x = seq[i]
      BY <2>2, <1>1 DEF Range
    <3>2. i # 1
      BY <2>2, <3>1, <1>1
    <3>3. i - 1 \in 1 .. n - 1 /\ (i - 1) + 1 = i
      BY <3>2, <1>1
    <3>4. s[i - 1] = x
      BY <3>1, <3>3, <1>1
    <3> QED BY <3>3, <3>4, <1>1 DEF Range
  <2> QED BY <2>1, <2>2
<1> QED BY <1>1, <1>3, <1>7, <1>8 DEF s, o

\* DESTROYALL of an array releases all that it refers to.
LEMMA ElementsCounted ==
    ASSUME Typed, NEW a \in Object, heap[a].kind = "array", ArrayFits(a), NEW x \in Counted
    PROVE  /\ SubSeq(heap[a].content, 1, heap[a].elems) \in Seq(Pointer)
           /\ Occurrences(SubSeq(heap[a].content, 1, heap[a].elems), x)
                 = Occurrences(References(heap[a]), x)
<1> PICK content : content = heap[a].content
  OBVIOUS
<1> PICK elems : elems = heap[a].elems
  OBVIOUS
<1> DEFINE front == SubSeq(content, 1, elems)
           back == SubSeq(content, elems + 1, Len(content))
<1>1. References(heap[a]) \in Seq(Pointer) /\ References(heap[a]) = content
  BY ReferencesOf DEF Typed
<1>2. /\ elems \in Nat /\ elems <= Len(content)
      /\ \A i \in elems + 1 .. Len(content) : content[i] = NoObject
  <2>1. heap[a] \in ArrayBody
    BY BodyOfKind DEF Typed
  <2> QED BY <2>1 DEF ArrayFits, ArrayBody
<1>3. content \in Seq(Pointer) /\ Len(content) \in Nat /\ elems \in 0 .. Len(content)
  BY <1>1, <1>2
<1>4. /\ front \in Seq(Pointer) /\ back \in Seq(Pointer)
      /\ Occurrences(content, x) = Occurrences(front, x) + Occurrences(back, x)
  BY <1>3, OccSplit
<1>5. Occurrences(back, x) = 0
  <2>1. \A i \in DOMAIN back : elems + i \in elems + 1 .. Len(content) /\ back[i] = content[elems + i]
    <3> DEFINE n == Len(content)
    <3>1. \A i \in elems + 1 .. n : content[i] \in Pointer
      BY <1>3
    <3>2. DOMAIN back = 1 .. n - elems /\ \A i \in 1 .. n - elems : back[i] = content[elems + i]
      <4>1. /\ Len(back) = IF elems + 1 <= n THEN n - (elems + 1) + 1 ELSE 0
            /\ \A i \in 1 .. Len(back) : back[i] = content[elems + 1 + i - 1]
        BY <1>3, <3>1, SubSeqProperties, SMTT(30)
      <4>2. Len(back) = n - elems /\ DOMAIN back = 1 .. Len(back)
        BY <4>1, <1>3
      <4> HIDE DEF back
      <4>3. \A i \in 1 .. n - elems : elems + 1 + i - 1 = elems + i
        BY <1>3
      <4> QED BY <4>1, <4>2, <4>3
    <3> HIDE DEF back
    <3> QED BY <3>2, <1>3, SMTT(30)
  <2>2. \A i \in DOMAIN back : back[i] = NoObject
    BY <2>1, <1>2, SMTT(30)
  <2>3. NoObject # x
    BY PointerSets, NoOneIsNull DEF One
  <2> HIDE DEF back
  <2> QED BY <2>2, <2>3, <1>4, OccAbsent
<1>6. Occurrences(front, x) \in Nat
  BY <1>4, WhereFinite
<1> QED BY <1>1, <1>4, <1>5, <1>6

LEMMA DestroyStep ==
    ASSUME IInv, Destroy
    PROVE  IInv'
<1> PICK o : o = Head(chain)
  OBVIOUS
<1>1. /\ ~CCode /\ chain # <<>>
      /\ todo' = IF heap[o].kind = "array" THEN SubSeq(heap[o].content, 1, heap[o].elems)
                 ELSE References(heap[o])
      /\ heap' = Put(heap, o, Free) /\ chain' = Tail(chain)
      /\ bound' = [bound EXCEPT ![o] = {}]
      /\ UNCHANGED <<refCnt, held, pending, lost, given, client>>
  BY DEF Destroy, Put
<1>2. /\ Typed /\ PendingFits /\ ChainFits /\ CountsExact /\ BoundFits /\ BindingsKept
      /\ heap \in [Object -> Body] /\ chain \in Seq(Object) /\ Object \subseteq Counted
      /\ bound \in [Object -> SUBSET Buckets] /\ refCnt \in [Counted -> Nat]
  BY PointerSets DEF IInv, Typed
<1>3. /\ o \in Range(chain) /\ o \in Object
      /\ chain' \in Seq(Object) /\ IsInjective(chain')
      /\ \A x : x \in Range(chain') <=> x \in Range(chain) /\ x # o
  BY <1>1, <1>2, ChainTail DEF ChainFits
<1>4. refCnt[o] = 0 /\ heap[o].kind # "capture"
  BY <1>2, <1>3 DEF ChainFits
<1>5. todo = <<>> /\ pending = NoPending /\ pending' = NoPending
  BY <1>1 DEF CCode
<1>6. /\ pending' \in PendingType /\ PendingFits'
      /\ \A x \in Counted :
            Masked(x)' = 0 /\ Occurrences(pending'.then, x) = 0 /\ One(pending'.value, x) = 0
  BY <1>5, NothingLater
<1>7. /\ heap' \in [Object -> Body] /\ heap'[o] = Free
      /\ \A x \in Object \ {o} : heap'[x] = heap[x]
      /\ \A x : InHeap(heap', x) + Occurrences(References(heap[o]), x) = InHeap(heap, x) + 0
      /\ \A x : InHeap(heap', x) \in Nat /\ InHeap(heap, x) \in Nat
  <2>1. Free \in Body /\ References(Free) = <<>>
    BY DEF Free, Body, References
  <2>2. Replaced(heap, o, Free, heap')
    BY <1>1, <1>2, <1>3, <2>1, HeapPut
  <2>3. \A x : Occurrences(References(Free), x) = 0
    BY <2>1, OccEmpty
  <2>4. \A x : InHeap(heap', x) + Occurrences(References(heap[o]), x)
                 = InHeap(heap, x) + Occurrences(References(Free), x)
    BY <2>2 DEF Replaced
  <2>5. /\ heap' \in [Object -> Body] /\ heap'[o] = Free
        /\ \A x \in Object \ {o} : heap'[x] = heap[x]
    BY <1>3, <2>2 DEF Replaced
  <2> QED BY <2>3, <2>4, <2>5, <1>2, SlotsOfType
<1>8. References(heap[o]) \in Seq(Pointer)
  BY <1>2, <1>3, ReferencesOf
<1>9. /\ todo' \in Seq(Pointer)
      /\ \A x \in Counted : Occurrences(todo', x) = Occurrences(References(heap[o]), x)
  <2>1. CASE heap[o].kind = "array"
    <3>1. \A x \in Counted :
             /\ SubSeq(heap[o].content, 1, heap[o].elems) \in Seq(Pointer)
             /\ Occurrences(SubSeq(heap[o].content, 1, heap[o].elems), x)
                   = Occurrences(References(heap[o]), x)
      BY <2>1, <1>2, <1>3, ElementsCounted DEF IInv
    <3>2. \E x : x \in Counted
      BY <1>2, <1>3
    <3> QED BY <3>1, <3>2, <2>1, <1>1
  <2>2. CASE heap[o].kind # "array"
    BY <2>2, <1>1, <1>8
  <2> QED BY <2>1, <2>2
<1>10. Typed'
  <2>1. bound' \in [Object -> SUBSET Buckets]
    BY <1>1, <1>2
  <2> QED BY <2>1, <1>1, <1>2, <1>3, <1>6, <1>7, <1>9 DEF Typed
<1>11. ChainFits'
  <2>1. ASSUME NEW x \in Range(chain') PROVE refCnt'[x] = 0 /\ heap'[x].kind # "capture"
    <3>1. x \in Range(chain) /\ x # o
      BY <2>1, <1>3
    <3>2. x \in Object /\ refCnt[x] = 0 /\ heap[x].kind # "capture"
      BY <3>1, <1>2 DEF Range, ChainFits
    <3> QED BY <3>1, <3>2, <1>1, <1>7
  <2> QED BY <2>1, <1>3 DEF ChainFits
<1>12. BoundFits' /\ BindingsKept'
  <2>1. /\ bound'[o] = {} /\ heap'[o].kind # "hash"
        /\ \A h \in Object \ {o} : bound'[h] = bound[h] /\ heap'[h] = heap[h]
    BY <1>1, <1>2, <1>3, <1>7 DEF Free
  <2>2. BoundFits'
    BY <2>1, <1>2 DEF BoundFits
  <2>3. ASSUME NEW h \in Object, heap'[h].kind = "hash"
        PROVE  Range(heap'[h].buckets) = bound'[h] /\ IsInjective(Keys(heap'[h].buckets))
    <3>1. h # o
      BY <2>1, <2>3
    <3>2. heap'[h] = heap[h] /\ bound'[h] = bound[h] /\ heap[h].kind = "hash"
      BY <3>1, <2>1, <2>3
    <3>3. Range(heap[h].buckets) = bound[h] /\ IsInjective(Keys(heap[h].buckets))
      BY <3>2, <1>2 DEF BindingsKept
    <3> QED BY <3>2, <3>3
  <2> QED BY <2>2, <2>3 DEF BindingsKept
<1>13. ASSUME NEW x \in Counted PROVE Moved(x)
  <2> DEFINE r == refCnt[x]
             ho == InHeap(heap, x)
             hn == InHeap(heap', x)
             re == Occurrences(References(heap[o]), x)
             he == Held(x)
             lo == lost[x]
  <2>1. hn + re = ho + 0
    BY <1>7
  <2>2. /\ r \in Nat /\ ho \in Nat /\ hn \in Nat /\ re \in Nat /\ he \in Nat /\ lo \in Nat
    BY <1>2, <1>7, <1>8, WhereFinite DEF Typed, Held
  <2>3. r + 0 + ho + he + 0 + 0 + 0 + lo = r + 0 + hn + he + re + 0 + 0 + lo
    <3> HIDE DEF r, ho, hn, re, he, lo
    <3> QED BY <2>1, <2>2
  <2>4. /\ Masked(x) = 0 /\ Occurrences(todo, x) = 0 /\ Occurrences(pending.then, x) = 0
        /\ One(pending.value, x) = 0
    BY <1>5, OccEmpty, NoOneIsNull DEF Masked, NoPending, Pending
  <2>5. refCnt'[x] = r /\ Held(x)' = he /\ lost'[x] = lo /\ Occurrences(todo', x) = re
    BY <1>1, <1>9 DEF Held
  <2> QED BY <2>3, <2>4, <2>5, <1>6 DEF Moved
<1>14. ASSUME NEW x \in Object PROVE Keeps(x) /\ There(x)'
  <2>1. heap[x].kind # "free" <=> refCnt[x] > 0 \/ x \in Range(chain)
    BY <1>2 DEF CountsExact
  <2>2. refCnt'[x] = refCnt[x]
    BY <1>1
  <2>3. CASE x = o
    BY <2>2, <2>3, <1>3, <1>4, <1>7 DEF Keeps, There, Free
  <2>4. CASE x # o
    BY <2>1, <2>2, <2>4, <1>3, <1>7 DEF Keeps, There
  <2> QED BY <2>3, <2>4
<1> QED BY <1>6, <1>10, <1>11, <1>12, <1>13, <1>14, RunStep

-----------------------------------------------------------------------------
(* The invariant                                                            *)

LEMMA InitHolds == Init => IInv
<1> SUFFICES ASSUME Init PROVE IInv
  OBVIOUS
<1>1. /\ heap = [o \in Object |-> Free] /\ held = {} /\ todo = <<>> /\ chain = <<>>
      /\ refCnt = [o \in Counted |-> IF o = Interpreter THEN 1 ELSE 0]
      /\ pending = NoPending /\ lost = [o \in Counted |-> 0]
      /\ bound = [o \in Object |-> {}] /\ client \in Clients
  BY DEF Init
<1>2. Free \in Body /\ Free.kind = "free" /\ References(Free) = <<>>
  BY DEF Free, Body, References
<1>3. /\ pending \in PendingType /\ PendingFits /\ pending.op = "none"
      /\ pending.then = <<>> /\ pending.value = NoObject
  <2>1. <<>> \in Seq(Pointer)
    OBVIOUS
  <2>2. /\ pending.op = "none" /\ pending.then = <<>> /\ pending.value = NoObject
        /\ pending \in PendingType
    BY <1>1, <2>1, PointerSets DEF NoPending, Pending, PendingType
  <2> QED BY <2>2, <1>1 DEF PendingFits
<1>4. Typed
  <2>1. <<>> \in Seq(Pointer) /\ <<>> \in Seq(Object)
    OBVIOUS
  <2> QED BY <1>1, <1>2, <1>3, <2>1 DEF Typed
<1>5. \A o \in Object : heap[o] = Free /\ heap[o].kind = "free" /\ bound[o] = {}
  BY <1>1, <1>2
<1>6. \A o \in Object : ArrayFits(o) /\ Linked(o)
  BY <1>5 DEF ArrayFits, Linked
<1>7. ChainFits
  BY <1>1 DEF ChainFits, Range, IsInjective
<1>8. BoundFits /\ BindingsKept
  BY <1>5 DEF BoundFits, BindingsKept
<1>9. CountsExact
  <2>1. ASSUME NEW o \in Counted PROVE refCnt[o] = Owners(o)
    <3>1. /\ Owners(o) + Masked(o)
                 = InHeap(heap, o) + Held(o) + Occurrences(todo, o) + Occurrences(pending.then, o)
                   + One(pending.value, o) + lost[o] + Root(o)
          /\ Owners(o) \in Nat
      BY <1>3, <1>4, OwnersAre
    <3>2. InHeap(heap, o) = 0
      BY <1>2, <1>4, <1>5, OccEmpty, InHeapZero DEF Typed
    <3>3. /\ Masked(o) = 0 /\ Held(o) = 0 /\ Occurrences(todo, o) = 0 /\ One(pending.value, o) = 0
          /\ Occurrences(pending.then, o) = 0 /\ lost[o] = 0
      BY <1>1, <1>3, OccEmpty, NoOneIsNull DEF Masked, Held
    <3>4. refCnt[o] = Root(o) /\ Root(o) \in Nat
      BY <1>1 DEF Root
    <3> QED BY <3>1, <3>2, <3>3, <3>4
  <2>2. ASSUME NEW o \in Object PROVE refCnt[o] = 0 /\ o \notin Range(chain)
    <3>1. o \in Counted /\ o # Interpreter
      BY PointerSets
    <3> QED BY <3>1, <1>1 DEF Range
  <2> QED BY <2>1, <2>2, <1>5 DEF CountsExact
<1> QED BY <1>3, <1>4, <1>6, <1>7, <1>8, <1>9 DEF IInv

LEMMA ClientStep ==
    ASSUME IInv, Client
    PROVE  IInv'
<1>1. CASE \E o \in Object : New(o) \/ Array_create(o) \/ Hash_create(o)
  BY <1>1, NewObjectStep
<1>6. CASE \E o \in Object, id \in Id : Str_create(o, id)
  BY <1>6, NewObjectStep
<1>2. CASE \E s, entries, outer \in Object : NewScope(s, entries, outer)
  BY <1>2, NewScopeStep
<1>3. CASE \E o \in Object : Release(o)
  BY <1>3, ReleaseStep
<1>4. CASE \E c \in Object, invocant \in Counted \cup {IntptrCapture, NoObject} :
              \E args \in client.calls[Kind(invocant)] : capture_create(c, invocant, args)
  BY <1>4, CaptureCreateStep
<1>5. CASE \E c, k \in Object, invocant \in Counted : capture_delegate(c, invocant, k)
  BY <1>5, CaptureDelegateStep
<1> QED BY <1>1, <1>2, <1>3, <1>4, <1>5, <1>6 DEF Client

LEMMA SendStep ==
    ASSUME IInv, Send
    PROVE  IInv'
<1> SUFFICES ASSUME NEW c \in Object,
                    \/ /\ Receives(c, "array")
                       /\ \/ Push(c) \/ Unshift(c) \/ ValueFetch(c)
                          \/ \E n \in Object : Elems(c, n)
                          \/ \E p \in Object, i \in 0 .. MaxElems - 1 : Square(c, p, i)
                    \/ /\ Receives(c, "proxy")
                       /\ \/ ProxyFetch(c) \/ ProxyStore(c) \/ ValueFetch(c) \/ Asks(c)
                          \/ \E n \in Object : Elems(c, n)
                    \/ /\ Receives(c, "hash")
                       /\ \/ BindKey(c) \/ LookupKey(c) \/ Exists(c) \/ ValueFetch(c) \/ Asks(c)
                          \/ \E n \in Object : LookupNew(c, n) \/ Curly(c, n)
                    \/ /\ Receives(c, "bvalue")
                       /\ Get(c, "owner") \/ Get(c, "key")
                    \/ /\ Receives(c, "scope")
                       /\ \/ Get(c, "entries") \/ Get(c, "outer") \/ Asks(c)
                          \/ \E d \in Object : ScopePass(c, d) \/ ScopeBind(c, d)
                    \/ /\ Receives(c, "capture")
                       /\ \/ CaptureInvocant(c) \/ CaptureNamed(c) \/ CaptureFetch(c)
                          \/ \E p \in 0 .. 1 : CapturePositional(c, p)
                          \/ \E n \in Object : Elems(c, n)
             PROVE  IInv'
  BY DEF Send
<1>1. ASSUME Receives(c, "array"),
             \/ Push(c) \/ Unshift(c) \/ ValueFetch(c)
             \/ \E n \in Object : Elems(c, n)
             \/ \E p \in Object, i \in 0 .. MaxElems - 1 : Square(c, p, i)
      PROVE  IInv'
  BY <1>1, PushStep, UnshiftStep, ValueFetchStep, ElemsStep, SquareStep
<1>2. ASSUME Receives(c, "proxy"),
             \/ ProxyFetch(c) \/ ProxyStore(c) \/ ValueFetch(c) \/ Asks(c)
             \/ \E n \in Object : Elems(c, n)
      PROVE  IInv'
  BY <1>2, ProxyFetchStep, ProxyStoreStep, ValueFetchStep, AsksStep, ElemsStep
<1>3. ASSUME Receives(c, "hash"),
             \/ BindKey(c) \/ LookupKey(c) \/ Exists(c) \/ ValueFetch(c) \/ Asks(c)
             \/ \E n \in Object : LookupNew(c, n) \/ Curly(c, n)
      PROVE  IInv'
  BY <1>3, BindKeyStep, LookupKeyStep, ExistsStep, ValueFetchStep, AsksStep, LookupNewStep, CurlyStep
<1>4. ASSUME Receives(c, "bvalue"), Get(c, "owner") \/ Get(c, "key")
      PROVE  IInv'
  BY <1>4, GetOfBValueStep
<1>5. ASSUME Receives(c, "scope"),
             \/ Get(c, "entries") \/ Get(c, "outer") \/ Asks(c)
             \/ \E d \in Object : ScopePass(c, d) \/ ScopeBind(c, d)
      PROVE  IInv'
  BY <1>5, GetOfScopeStep, AsksStep, ScopePassStep, ScopeBindStep
<1>6. ASSUME Receives(c, "capture"),
             \/ CaptureInvocant(c) \/ CaptureNamed(c) \/ CaptureFetch(c)
             \/ \E p \in 0 .. 1 : CapturePositional(c, p)
             \/ \E n \in Object : Elems(c, n)
      PROVE  IInv'
  BY <1>6, CaptureInvocantStep, CaptureNamedStep, CaptureFetchStep, CapturePositionalStep, ElemsStep
<1> QED BY <1>1, <1>2, <1>3, <1>4, <1>5, <1>6

LEMMA InvariantStep == IInv /\ [Next]_vars => IInv'
<1> SUFFICES ASSUME IInv, [Next]_vars PROVE IInv'
  OBVIOUS
<1>1. CASE Client
  BY <1>1, ClientStep
<1>2. CASE Send
  BY <1>2, SendStep
<1>3. CASE Runtime
  BY <1>3, ReleaseNextStep, ProxyPutStep, BindPutStep, LookupReturnStep, DestroyStep DEF Runtime
<1>4. CASE UNCHANGED vars
  BY <1>4, StutterStep
<1> QED BY <1>1, <1>2, <1>3, <1>4 DEF Next

\* The inductive invariant holds of every program: counts are exact between any
\* two releases of a handler, what a handler goes on with is there, and a hash
\* has what was bound in it.
THEOREM Invariance == Spec => []IInv
BY InitHolds, InvariantStep, PTL DEF Spec

LEMMA RangeInside ==
    ASSUME NEW S, NEW seq \in Seq(S)
    PROVE  Range(seq) \subseteq S
<1>1. \A i \in 1 .. Len(seq) : seq[i] \in S
  BY ElementOfSeq
<1>2. DOMAIN seq = 1 .. Len(seq)
  OBVIOUS
<1> QED BY <1>1, <1>2 DEF Range

LEMMA BoundedContent ==
    ASSUME NEW S, NEW seq \in Seq(S), Len(seq) <= MaxElems
    PROVE  seq \in BoundedSeq(S, MaxElems)
<1>1. Len(seq) \in 0 .. MaxElems /\ seq \in [1 .. Len(seq) -> S]
  BY MessagesAssumption
<1> QED BY <1>1 DEF BoundedSeq, SeqOf

\* Every part of the state has its type.
LEMMA InvariantType == IInv => TypeOK
<1> SUFFICES ASSUME IInv PROVE TypeOK
  OBVIOUS
<1>1. /\ Typed /\ PendingFits /\ ChainFits /\ heap \in [Object -> Body]
      /\ \A o \in Object : ArrayFits(o)
  BY DEF IInv, Typed
<1>2. ASSUME NEW o \in Object
      PROVE  CASE heap[o].kind = "array" ->
                     /\ heap[o].elems \in 0 .. Len(heap[o].content)
                     /\ heap[o].content \in BoundedSeq(Item \cup {NoObject}, MaxElems)
               [] heap[o].kind = "proxy" ->
                     heap[o].array \in Object /\ heap[o].index \in 0 .. MaxElems - 1
               [] heap[o].kind = "hash" ->
                     Range(heap[o].buckets) \subseteq [key : Item, cell : Item]
               [] heap[o].kind = "bvalue" -> heap[o].owner \in Object /\ heap[o].key \in Item
               [] heap[o].kind = "str" -> heap[o].id \in Id
               [] heap[o].kind = "scope" -> {heap[o].entries, heap[o].outer} \subseteq Object
               [] heap[o].kind = "capture" ->
                     /\ heap[o].invocant \in Counted \cup {IntptrCapture, NoObject}
                     /\ heap[o].positional \in Seq(Item)
                     /\ Range(heap[o].o_named) \subseteq [key : Id, value : Item]
                     /\ Range(heap[o].named) \subseteq [key : Object, value : Item]
               [] OTHER -> heap[o] \in {Free, Value}
  <2> PICK b \in Body : b = heap[o]
    BY <1>1
  <2>1. ASSUME heap[o].kind = "array"
        PROVE  /\ heap[o].elems \in 0 .. Len(heap[o].content)
               /\ heap[o].content \in BoundedSeq(Item \cup {NoObject}, MaxElems)
    <3>1. /\ heap[o].content \in Seq(Item \cup {NoObject}) /\ heap[o].elems \in Nat
          /\ Len(heap[o].content) \in Nat
          /\ Len(heap[o].content) <= MaxElems /\ heap[o].elems <= Len(heap[o].content)
      BY <2>1, ArrayFacts
    <3>2. heap[o].content \in BoundedSeq(Item \cup {NoObject}, MaxElems)
      BY <3>1, BoundedContent
    <3> QED BY <3>1, <3>2
  <2>2. ASSUME heap[o].kind = "proxy"
        PROVE  heap[o].array \in Object /\ heap[o].index \in 0 .. MaxElems - 1
    BY <2>2, BodyOfKind DEF ProxyBody
  <2>3. ASSUME heap[o].kind = "hash"
        PROVE  Range(heap[o].buckets) \subseteq [key : Item, cell : Item]
    <3>1. heap[o].buckets \in Seq(Buckets)
      BY <2>3, HashFacts
    <3> QED BY <3>1, RangeInside DEF Buckets
  <2>4. ASSUME heap[o].kind = "bvalue"
        PROVE  heap[o].owner \in Object /\ heap[o].key \in Item
    BY <2>4, BodyOfKind DEF BValueBody
  <2>5. ASSUME heap[o].kind = "scope"
        PROVE  {heap[o].entries, heap[o].outer} \subseteq Object
    BY <2>5, BodyOfKind DEF ScopeBody
  <2>6. ASSUME heap[o].kind = "capture"
        PROVE  /\ heap[o].invocant \in Counted \cup {IntptrCapture, NoObject}
               /\ heap[o].positional \in Seq(Item)
               /\ Range(heap[o].o_named) \subseteq [key : Id, value : Item]
               /\ Range(heap[o].named) \subseteq [key : Object, value : Item]
    <3>1. /\ heap[o].invocant \in Counted \cup {IntptrCapture, NoObject}
          /\ heap[o].positional \in Seq(Item)
          /\ heap[o].o_named \in NamedArgs(Id) /\ heap[o].named \in NamedArgs(Object)
      BY <2>6, BodyOfKind DEF CaptureBody
    <3>2. \A K : \A seq \in NamedArgs(K) : Range(seq) \subseteq [key : K, value : Item]
      BY RangeInside DEF NamedArgs
    <3> QED BY <3>1, <3>2
  <2>8. ASSUME heap[o].kind = "str"
        PROVE  heap[o].id \in Id
    BY <2>8, BodyOfKind DEF StrBody
  <2>7. ASSUME heap[o].kind \notin {"str", "array", "proxy", "hash", "bvalue", "scope", "capture"}
        PROVE  heap[o] \in {Free, Value}
    BY <2>7 DEF Body, StrBody, ArrayBody, ProxyBody, HashBody, BValueBody, ScopeBody, CaptureBody
  <2> QED BY <2>1, <2>2, <2>3, <2>4, <2>5, <2>6, <2>7, <2>8
<1>3. pending # NoPending => /\ heap[pending.obj].kind \in {"array", "hash"}
                             /\ pending.slot \in DOMAIN References(heap[pending.obj])
  <2>1. CASE pending.op = "none"
    BY <2>1, <1>1 DEF PendingFits
  <2>2. CASE pending.op \in {"STORE", "bind_key"}
    BY <2>2, <1>1, MaskedIn
  <2>3. CASE pending.op = "lookup_key"
    <3>1. PendingFits /\ pending.obj \in Object /\ heap[pending.obj].kind = "hash"
      BY <2>3, <1>1 DEF PendingFits
    <3>2. /\ heap[pending.obj].buckets \in Seq(Buckets)
          /\ References(heap[pending.obj]) = KeysAndCells(heap[pending.obj].buckets)
      BY <3>1, HashFacts
    <3> QED BY <2>3, <1>1, <3>1, <3>2, PendingBucket, KeysAndCellsType
  <2> QED BY <2>1, <2>2, <2>3, <1>1 DEF Typed, PendingType
<1>4. /\ refCnt \in [Counted -> Nat] /\ held \subseteq Object /\ IsInjective(chain)
      /\ pending.op \in {"none", "STORE", "bind_key", "lookup_key"} /\ client \in Clients
  BY <1>1 DEF Typed, PendingType, ChainFits
<1> QED BY <1>2, <1>3, <1>4 DEF TypeOK

\* What is referred to is counted, so it is there.
LEMMA InvariantAlive == IInv => PointersAlive
<1> SUFFICES ASSUME IInv PROVE PointersAlive
  OBVIOUS
<1>1. Typed /\ PendingFits /\ ChainFits /\ CountsExact /\ chain \in Seq(Object)
  BY DEF IInv, Typed
<1>2. ASSUME NEW o \in Object, Owned(o) PROVE heap[o].kind # "free" /\ o \notin Range(chain)
  <2>1. refCnt[o] > 0
    BY <1>2, CountedNow, PointerSets
  <2>2. o \notin Range(chain)
    BY <2>1, <1>1 DEF ChainFits
  <2> QED BY <2>1, <2>2, <1>1 DEF CountsExact
<1> DEFINE slots == UNION {Range(Slots(a)) : a \in Object}
<1>3. ASSUME NEW o \in Object, o \in slots \cup Range(todo) \cup held \cup Range(InHandler)
      PROVE  Owned(o)
  <2>1. o \in slots => \E a \in Object : o \in Range(Slots(a))
    OBVIOUS
  <2> HIDE DEF slots
  <2> QED BY <1>3, <2>1, Zenon DEF Owned
<1>4. pending.obj \in Object => heap[pending.obj].kind \in {"array", "hash"}
  <2>1. CASE pending.op = "none"
    BY <2>1, <1>1, PointerSets DEF PendingFits, NoPending, Pending
  <2>2. CASE pending.op \in {"STORE", "bind_key"}
    BY <2>2, <1>1, MaskedIn
  <2>3. CASE pending.op = "lookup_key"
    BY <2>3, <1>1 DEF PendingFits
  <2> QED BY <2>1, <2>2, <2>3, <1>1 DEF Typed, PendingType
<1>5. \A o \in (slots \cup Range(todo) \cup held \cup Range(InHandler)) \cap Object :
         heap[o].kind # "free" /\ o \notin Range(chain)
  <2> HIDE DEF slots
  <2> QED BY <1>2, <1>3
<1> QED BY <1>4, <1>5 DEF PointersAlive

\* Objects have the fields of their kind, and what the handlers go on with is
\* there to go on with.
THEOREM TypeCorrect == Spec => []TypeOK
BY Invariance, InvariantType, PTL

\* Whatever programs call on captures, arrays, hashes and scopes, a count is the
\* number of owners: no handler references or releases once too often, but for
\* what is counted as lost, by FETCH of a capture, by capture_delegate of two
\* kinds of arguments, and by a hash that is asked with a counted key.
THEOREM CountsAreExact == Spec => []CountsExact
<1>1. IInv => CountsExact
  BY DEF IInv
<1> QED BY <1>1, Invariance, PTL

\* No variable, slot, argument or pending release refers to what has been
\* destroyed, or will be.
THEOREM PointersAreAlive == Spec => []PointersAlive
BY Invariance, InvariantAlive, PTL

\* What is bound under a key of a hash, or of a scope, stays bound there.
THEOREM BindingsAreKept == Spec => []BindingsKept
<1>1. IInv => BindingsKept
  BY DEF IInv
<1> QED BY <1>1, Invariance, PTL

-----------------------------------------------------------------------------
(* What a capture was made with is found in it                              *)

\* The named arguments that are optimised
IdArgs(named) == {n \in Range(named) : IdKey(n)}

Ordered(o_named) ==
    \A i, j \in DOMAIN o_named : i < j => Address[o_named[i].key] <= Address[o_named[j].key]

LEMMA SortedFacts ==
    ASSUME NEW named \in NamedArgs(Item), NEW s, s = Sorted(named, IdPlaces(named))
    PROVE  Ordered(s) /\ Range(s) = IdArgs(named)
<1> DEFINE P == IdPlaces(named)
           N == Cardinality(P)
           before == SortedBefore(named, P)
<1>1. named \in Seq([key : Item, value : Item]) /\ P \in SUBSET DOMAIN named
  BY DEF NamedArgs, IdPlaces
<1>2. IsOrder(P, before)
  BY SortedIsOrder
<1>3. s = Arranged(named, P, before)
  BY DEF Sorted, SortedBefore
<1>4. \A i, j \in P : <<i, j>> \in before => ~ (Address[named[j].key] < Address[named[i].key])
  <2> SUFFICES ASSUME NEW i \in P, NEW j \in P, <<i, j>> \in before
               PROVE  ~ (Address[named[j].key] < Address[named[i].key])
    OBVIOUS
  <2>1. /\ named[i].key \in Id /\ named[j].key \in Id
    BY DEF IdPlaces, IdKey
  <2>2. Address[named[i].key] \in Nat /\ Address[named[j].key] \in Nat
    BY <2>1, MessagesAssumption
  <2>3. Address[named[i].key] < Address[named[j].key] \/ ~ (Address[named[j].key] < Address[named[i].key])
    <3> HIDE DEF P
    <3> QED BY DEF SortedBefore, cmp_opt_named
  <2> QED BY <2>2, <2>3
<1>5. \A i : i \in P <=> i \in DOMAIN named /\ IdKey(named[i])
  BY DEF IdPlaces
<1> HIDE DEF before, P
<1>6. PICK nth \in Bijection(1 .. N, P) :
         /\ \A n \in 1 .. N : Arranged(named, P, before)[n] = named[nth[n]]
         /\ \A m, n \in 1 .. N : m < n => <<nth[m], nth[n]>> \in before
  BY <1>1, <1>2, ArrangedOnce
<1>7. /\ nth \in [1 .. N -> P]
      /\ \A i \in P : \E n \in 1 .. N : nth[n] = i
  BY Zenon DEF Bijection, Injection, Surjection
<1>8. DOMAIN s = 1 .. N /\ \A n \in 1 .. N : s[n] = named[nth[n]]
  BY <1>3, <1>6 DEF Arranged
<1>9. \A i \in P : named[i].key \in Id /\ Address[named[i].key] \in Nat
  BY <1>5, MessagesAssumption DEF IdKey
<1> HIDE DEF N
<1>10. Ordered(s)
  <2> SUFFICES ASSUME NEW m \in 1 .. N, NEW n \in 1 .. N, m < n
               PROVE  Address[s[m].key] <= Address[s[n].key]
    BY <1>8 DEF Ordered
  <2>1. nth[m] \in P /\ nth[n] \in P /\ <<nth[m], nth[n]>> \in before
    BY <1>6, <1>7
  <2>2. ~ (Address[named[nth[n]].key] < Address[named[nth[m]].key])
    BY <2>1, <1>4
  <2>3. /\ s[m] = named[nth[m]] /\ s[n] = named[nth[n]]
        /\ Address[named[nth[m]].key] \in Nat /\ Address[named[nth[n]].key] \in Nat
    BY <1>8, <1>9, <2>1
  <2> QED BY <2>2, <2>3
<1>11. Range(s) = IdArgs(named)
  <2>1. \A x : x \in Range(s) <=> \E n \in 1 .. N : x = named[nth[n]]
    BY <1>8 DEF Range
  <2>2. \A x : x \in IdArgs(named) <=> \E i \in P : x = named[i]
    BY <1>5 DEF IdArgs, Range
  <2>3. \A x : x \in Range(s) <=> x \in IdArgs(named)
    BY <1>7, <2>1, <2>2
  <2> QED BY <2>3
<1> QED BY <1>10, <1>11

\* Where the search goes on
LEMMA FindTurns ==
    ASSUME NEW o_named, Len(o_named) \in Nat, NEW id, NEW r \in Ranges(Len(o_named)), r[1] < r[2],
           NEW m, m = o_named[Middle(r) + 1], Address[id] \in Nat, Address[m.key] \in Nat,
           NEW left, left = <<r[1], Middle(r)>>, NEW right, right = <<Middle(r) + 1, r[2]>>
    PROVE  /\ Address[id] = Address[m.key] => Find(o_named, id)[r] = m.value
           /\ Address[id] < Address[m.key] => Find(o_named, id)[r] = Find(o_named, id)[left]
           /\ Address[m.key] < Address[id] => Find(o_named, id)[r] = Find(o_named, id)[right]
<1> DEFINE f == Find(o_named, id)
<1>1. f[r] = Look(o_named, id, f)[r]
  BY FindIsLook
<1> HIDE DEF f
<1>2. ~(r[1] >= r[2])
  BY DEF Ranges
<1>3. f[r] = CASE Address[id] = Address[m.key] -> m.value
               [] Address[id] < Address[m.key] -> f[left]
               [] OTHER -> f[right]
  BY <1>1, <1>2 DEF Look
<1>4. /\ Address[id] = Address[m.key] => f[r] = m.value
      /\ Address[id] < Address[m.key] => f[r] = f[left]
      /\ Address[m.key] < Address[id] => f[r] = f[right]
  BY <1>3
<1> QED BY <1>4 DEF f

\* The search finds a key that is in the list.
LEMMA FindsKey ==
    ASSUME NEW o_named \in NamedArgs(Id), Ordered(o_named),
           NEW i \in 1 .. Len(o_named), NEW id, id = o_named[i].key
    PROVE  \E j \in 1 .. Len(o_named) :
              o_named[j].key = id /\ Find(o_named, id)[<<0, Len(o_named)>>] = o_named[j].value
<1> DEFINE n == Len(o_named)
           f == Find(o_named, id)
           at(j) == Address[o_named[j].key]
           Good(q) == i \in q[1] + 1 .. q[2] =>
                         \E j \in 1 .. n : o_named[j].key = id /\ f[q] = o_named[j].value
           bad == {q \in Ranges(n) : ~Good(q)}
<1>1. n \in Nat /\ DOMAIN o_named = 1 .. n /\ o_named \in Seq([key : Id, value : Item])
  BY NamedFacts DEF NamedArgs
<1>2. \A j \in 1 .. n : o_named[j].key \in Id /\ at(j) \in Nat
  <2> SUFFICES ASSUME NEW j \in 1 .. n PROVE o_named[j].key \in Id /\ at(j) \in Nat
    OBVIOUS
  <2>1. o_named[j].key \in Id
    BY <1>1, NamedElement
  <2> QED BY <2>1, MessagesAssumption
<1>3. \A j \in 1 .. n : at(j) = Address[id] => o_named[j].key = id
  <2>1. \A a, b \in Id : Address[a] = Address[b] => a = b
    <3>1. IsInjective(Address) /\ DOMAIN Address = Id
      BY MessagesAssumption
    <3> QED BY <3>1, Zenon DEF IsInjective
  <2> QED BY <1>2, <2>1
<1>4. \A j, k \in 1 .. n : j < k => at(j) <= at(k)
  BY <1>1 DEF Ordered
<1>5. bad = {}
  <2> SUFFICES ASSUME bad # {} PROVE FALSE
    OBVIOUS
  <2>1. PICK q \in bad : \A p \in bad : q[2] - q[1] <= p[2] - p[1]
    BY <1>1, ShortestRange
  <2>2. /\ q \in Ranges(n) /\ ~Good(q) /\ q[1] \in Nat /\ q[2] \in Nat /\ q[2] <= n
        /\ i \in q[1] + 1 .. q[2] /\ q[1] < q[2]
    BY DEF Ranges
  <2> DEFINE left == <<q[1], Middle(q)>>
             right == <<Middle(q) + 1, q[2]>>
             k == Middle(q) + 1
  <2>0. PICK m : m = o_named[k]
    OBVIOUS
  <2>3. /\ left \in Ranges(n) /\ right \in Ranges(n)
        /\ left[2] - left[1] < q[2] - q[1] /\ right[2] - right[1] < q[2] - q[1]
        /\ k \in q[1] + 1 .. q[2]
    BY <1>1, <2>2, FindAt
  <2>11. /\ Address[id] = Address[m.key] => f[q] = m.value
         /\ Address[id] < Address[m.key] => f[q] = f[left]
         /\ Address[m.key] < Address[id] => f[q] = f[right]
    <3>1. Address[id] \in Nat /\ Address[m.key] \in Nat
      <4>1. k \in 1 .. n
        <5> HIDE DEF k
        <5> QED BY <1>1, <2>2, <2>3
      <4> QED BY <1>2, <2>0, <4>1
    <3>2. q \in Ranges(Len(o_named)) /\ q[1] < q[2] /\ Len(o_named) \in Nat
      BY <1>1, <2>2
    <3>3. m = o_named[Middle(q) + 1]
      BY <2>0
    <3>4. left = <<q[1], Middle(q)>> /\ right = <<Middle(q) + 1, q[2]>>
      OBVIOUS
    <3> HIDE DEF bad, left, right
    <3> QED BY <3>1, <3>2, <3>3, <3>4, FindTurns
  <2>4. Good(left) /\ Good(right)
    <3>1. left[1] \in Nat /\ left[2] \in Nat /\ right[1] \in Nat /\ right[2] \in Nat
      BY <2>3 DEF Ranges
    <3> HIDE DEF left, right
    <3>2. /\ left \in bad => q[2] - q[1] <= left[2] - left[1]
          /\ right \in bad => q[2] - q[1] <= right[2] - right[1]
      BY <2>1
    <3>3. left \notin bad /\ right \notin bad
      <4>1. ~(q[2] - q[1] <= left[2] - left[1]) /\ ~(q[2] - q[1] <= right[2] - right[1])
        BY <2>2, <2>3, <3>1, LongerRange
      <4> QED BY <3>2, <4>1, Zenon
    <3> QED BY <2>3, <3>3
  <2>5. k \in 1 .. n /\ k \in Nat /\ i \in Nat /\ i \in 1 .. n /\ Middle(q) = k - 1
    <3>1. Middle(q) \in Nat
      BY <1>1, <2>2, MiddleIsBetween
    <3>2. k = Middle(q) + 1
      OBVIOUS
    <3>3. q[1] \in Nat /\ q[2] \in Nat /\ q[2] <= n /\ k \in q[1] + 1 .. q[2] /\ i \in q[1] + 1 .. q[2]
      BY <2>2, <2>3
    <3> HIDE DEF k
    <3> QED BY <1>1, <3>1, <3>2, <3>3
  <2>6. at(k) \in Nat /\ at(i) \in Nat /\ at(i) = Address[id] /\ at(k) = Address[m.key]
    BY <1>2, <2>0, <2>5
  <2>7. CASE Address[id] = Address[m.key]
    <3>1. f[q] = m.value /\ m.key = id
      BY <1>3, <2>0, <2>11, <2>5, <2>6, <2>7
    <3> HIDE DEF f
    <3> QED BY <2>0, <2>2, <2>5, <3>1
  <2>8. CASE Address[id] < Address[m.key]
    <3>1. i < k
      <4>1. k < i => at(k) <= at(i)
        BY <1>4, <2>5
      <4>2. k = i => at(k) = at(i)
        OBVIOUS
      <4> HIDE DEF at, k
      <4> QED BY <2>5, <2>6, <2>8, <4>1, <4>2
    <3>2. i \in left[1] + 1 .. left[2]
      BY <2>2, <2>5, <3>1
    <3>3. f[q] = f[left]
      BY <2>11, <2>8
    <3> HIDE DEF left, right, f
    <3> QED BY <2>2, <2>4, <3>2, <3>3
  <2>9. CASE Address[m.key] < Address[id]
    <3>1. k < i
      <4>1. i < k => at(i) <= at(k)
        BY <1>4, <2>5
      <4>2. k = i => at(k) = at(i)
        OBVIOUS
      <4> HIDE DEF at, k
      <4> QED BY <2>5, <2>6, <2>9, <4>1, <4>2
    <3>2. i \in right[1] + 1 .. right[2]
      BY <2>2, <2>5, <3>1
    <3>3. f[q] = f[right]
      BY <2>11, <2>9
    <3> HIDE DEF left, right, f
    <3> QED BY <2>2, <2>4, <3>2, <3>3
  <2>10. \/ Address[id] = Address[m.key] \/ Address[id] < Address[m.key] \/ Address[m.key] < Address[id]
    BY <2>6
  <2> QED BY <2>7, <2>8, <2>9, <2>10
<1>6. <<0, n>> \in Ranges(n) /\ i \in 0 + 1 .. n
  BY <1>1 DEF Ranges
<1>7. Good(<<0, n>>)
  <2> HIDE DEF Good
  <2> QED BY <1>5, <1>6
<1>8. i \in <<0, n>>[1] + 1 .. <<0, n>>[2]
  BY <1>6
<1> QED BY <1>7, <1>8

\* What a capture keeps of the arguments it was asked to carry
Carried(c) ==
    heap[c].kind = "capture" =>
        /\ heap[c].positional = given[c].positional
        /\ Ordered(heap[c].o_named)
        /\ Range(heap[c].o_named) = IdArgs(given[c].named)

AInv == DOMAIN given = Object /\ \A c \in Object : Carried(c)

LEMMA CarriedIsFound == Typed /\ AInv => ArgumentsFound
<1> SUFFICES ASSUME Typed, AInv, NEW c \in Object, heap[c].kind = "capture"
             PROVE  /\ heap[c].positional = given[c].positional
                    /\ \A n \in Range(given[c].named) :
                          IdKey(n) => Named(n.key, capture_named(c, n.key)) \in Range(given[c].named)
  BY DEF ArgumentsFound
<1> DEFINE o_named == heap[c].o_named
<1>1. o_named \in NamedArgs(Id)
  <2>1. heap[c] \in Body
    BY DEF Typed
  <2> QED BY <2>1, BodyOfKind DEF CaptureBody
<1>2. /\ heap[c].positional = given[c].positional /\ Ordered(o_named)
      /\ Range(o_named) = IdArgs(given[c].named)
  BY DEF AInv, Carried
<1>3. At(c) = heap[c]
  BY MessagesAssumption DEF At
<1>4. o_named \in Seq([key : Id, value : Item]) /\ DOMAIN o_named = 1 .. Len(o_named)
  BY <1>1, NamedFacts DEF NamedArgs
<1>5. ASSUME NEW n \in Range(given[c].named), IdKey(n)
      PROVE  Named(n.key, capture_named(c, n.key)) \in Range(given[c].named)
  <2>1. n \in Range(o_named) /\ n.key \in Id
    BY <1>2, <1>5 DEF IdArgs, IdKey
  <2>2. PICK i \in 1 .. Len(o_named) : n = o_named[i]
    BY <1>4, <2>1 DEF Range
  <2>3. capture_named(c, n.key) = Find(o_named, n.key)[<<0, Len(o_named)>>]
    BY <1>3, <2>1, NamedIsFind
  <2> HIDE DEF o_named
  <2>4. PICK j \in 1 .. Len(o_named) :
           o_named[j].key = n.key /\ Find(o_named, n.key)[<<0, Len(o_named)>>] = o_named[j].value
    BY <1>1, <1>2, <2>2, FindsKey
  <2>5. o_named[j] \in [key : Id, value : Item]
    BY <1>4, ElementOfSeq
  <2>6. Named(n.key, capture_named(c, n.key)) = o_named[j]
    BY <2>3, <2>4, <2>5 DEF Named
  <2>7. o_named[j] \in Range(o_named)
    BY <1>4 DEF Range
  <2> QED BY <1>2, <2>6, <2>7 DEF IdArgs
<1> QED BY <1>2, <1>5

LEMMA NewCarried ==
    ASSUME NEW c, NEW invocant, NEW args, args.named \in NamedArgs(Item),
           heap'[c] = Capture(invocant, args), given'[c].positional = args.positional,
           IdArgs(given'[c].named) = IdArgs(args.named)
    PROVE  Carried(c)'
<1> DEFINE s == Sorted(args.named, IdPlaces(args.named))
<1>1. Ordered(s) /\ Range(s) = IdArgs(args.named)
  BY SortedFacts
<1>2. heap'[c].positional = args.positional /\ heap'[c].o_named = s
  BY DEF Capture, IdPlaces
<1> HIDE DEF s
<1>3. /\ heap'[c].positional = given'[c].positional /\ Ordered(heap'[c].o_named)
      /\ Range(heap'[c].o_named) = IdArgs(given'[c].named)
  BY <1>1, <1>2
<1> QED BY <1>3 DEF Carried

\* A delegate gets the optimised arguments of its original.
LEMMA PassedIds ==
    ASSUME IInv, Idle, NEW k \in Object, heap[k].kind = "capture"
    PROVE  IdArgs(Passed(k)) = Range(heap[k].o_named)
<1> DEFINE os == heap[k].o_named
           ns == heap[k].named
           rest == SubSeq(ns, Len(os) + 1, Len(ns))
<1>1. At(k) = heap[k] /\ os \in NamedArgs(Id) /\ ns \in NamedArgs(Object)
  BY CaptureContents DEF CaptureBody
<1>2. Passed(k) = os \o rest
  BY <1>1 DEF Passed
<1>3. Len(os) + 1 \in Nat /\ Len(os) + 1 > 0 /\ Len(ns) \in 0 .. Len(ns)
  BY <1>1, NamedFacts
<1>0. PICK n : n = Len(os) + 1
  OBVIOUS
<1>4. rest \in NamedArgs(Object)
  <2>1. rest = SubSeq(ns, n, Len(ns)) /\ n \in Nat /\ n > 0
    BY <1>0, <1>3
  <2> HIDE DEF ns, os, rest
  <2> QED BY <1>1, <1>3, <2>1, NamedParts
<1> HIDE DEF os, rest
<1>5. /\ os \in Seq([key : Id, value : Item]) /\ rest \in Seq([key : Object, value : Item])
      /\ Len(os) \in Nat /\ Len(rest) \in Nat
      /\ DOMAIN os = 1 .. Len(os) /\ DOMAIN rest = 1 .. Len(rest)
  BY <1>1, <1>4, NamedFacts DEF NamedArgs
<1>6. \A i \in 1 .. Len(os) : IdKey(os[i])
  BY <1>5, NamedElement DEF IdKey
<1>7. \A i \in 1 .. Len(rest) : ~IdKey(rest[i])
  BY <1>5, NamedElement, MessagesAssumption DEF IdKey
<1>8. /\ DOMAIN (os \o rest) = 1 .. Len(os) + Len(rest)
      /\ \A i \in 1 .. Len(os) + Len(rest) :
            (os \o rest)[i] = IF i <= Len(os) THEN os[i] ELSE rest[i - Len(os)]
  <2>1. os \in NamedArgs(Item) /\ rest \in NamedArgs(Item)
    BY <1>1, <1>4, NamedMore, PointerSets
  <2>2. os \in Seq([key : Item, value : Item]) /\ rest \in Seq([key : Item, value : Item])
    BY <2>1 DEF NamedArgs
  <2> QED BY <2>2, ConcatProperties
<1> DEFINE all == os \o rest
<1>9. /\ DOMAIN all = 1 .. Len(os) + Len(rest)
      /\ \A i \in 1 .. Len(os) + Len(rest) : all[i] = IF i <= Len(os) THEN os[i] ELSE rest[i - Len(os)]
  BY <1>8
<1> HIDE DEF all
<1>10. ASSUME NEW x \in IdArgs(all) PROVE x \in Range(os)
  <2>1. PICK i \in 1 .. Len(os) + Len(rest) : x = all[i] /\ IdKey(x)
    BY <1>9 DEF IdArgs, Range
  <2>2. CASE i <= Len(os)
    <3>1. i \in 1 .. Len(os) /\ x = os[i]
      BY <1>5, <1>9, <2>1, <2>2
    <3> QED BY <1>5, <3>1 DEF Range
  <2>3. CASE ~(i <= Len(os))
    <3>1. i - Len(os) \in 1 .. Len(rest) /\ x = rest[i - Len(os)]
      BY <1>5, <1>9, <2>1, <2>3
    <3> QED BY <1>7, <2>1, <3>1
  <2> QED BY <2>2, <2>3
<1>11. ASSUME NEW x \in Range(os) PROVE x \in IdArgs(all)
  <2>1. PICK i \in 1 .. Len(os) : x = os[i]
    BY <1>5 DEF Range
  <2>2. i \in 1 .. Len(os) + Len(rest) /\ all[i] = x /\ IdKey(x)
    BY <1>5, <1>6, <1>9, <2>1
  <2> QED BY <1>9, <2>2 DEF IdArgs, Range
<1>12. IdArgs(all) = Range(os)
  BY <1>10, <1>11
<1> QED BY <1>2, <1>12 DEF all, os

\* Nothing happens to the captures that are there.
Untouched ==
    /\ DOMAIN given' = DOMAIN given
    /\ \A c \in Object : heap'[c].kind = "capture" => heap'[c] = heap[c] /\ given'[c] = given[c]

LEMMA UntouchedStep == AInv /\ Untouched => AInv'
<1> SUFFICES ASSUME AInv, Untouched PROVE AInv'
  OBVIOUS
<1>1. DOMAIN given' = Object
  BY DEF AInv, Untouched
<1>2. ASSUME NEW c \in Object PROVE Carried(c)'
  <2>1. Carried(c)
    BY DEF AInv
  <2>2. ASSUME heap'[c].kind = "capture" PROVE heap'[c] = heap[c] /\ given'[c] = given[c]
    BY <2>2 DEF Untouched
  <2> QED BY <2>1, <2>2 DEF Carried
<1> QED BY <1>1, <1>2 DEF AInv

LEMMA SameStep == UNCHANGED <<heap, given>> => Untouched
BY DEF Untouched

LEMMA OtherStep ==
    ASSUME heap \in [Object -> Body], NEW a, NEW b, b.kind # "capture",
           heap' = [heap EXCEPT ![a] = b], given' = given
    PROVE  Untouched
BY DEF Untouched

LEMMA TwoOthersStep ==
    ASSUME heap \in [Object -> Body], NEW a, NEW b, b.kind # "capture", NEW d, NEW e, e.kind # "capture",
           heap' = [heap EXCEPT ![a] = b, ![d] = e], given' = given
    PROVE  Untouched
BY DEF Untouched

LEMMA NotCaptures ==
    /\ \A id : Str(id).kind = "str"
    /\ \A s, n : Array(s, n).kind = "array"
    /\ \A a, i : Proxy(a, i).kind = "proxy"
    /\ \A s : Hash(s).kind = "hash"
    /\ \A o, key : BValue(o, key).kind = "bvalue"
    /\ \A e, o : Scope(e, o).kind = "scope"
    /\ Value.kind = "value" /\ Free.kind = "free"
BY DEF Str, Array, Proxy, Hash, BValue, Scope, Value, Free

LEMMA NewUntouched ==
    ASSUME IInv, NEW o \in Object,
           New(o) \/ Array_create(o) \/ Hash_create(o) \/ \E id \in Id : Str_create(o, id)
    PROVE  Untouched
<1>1. heap \in [Object -> Body]
  BY DEF IInv, Typed
<1>2. PICK b : b.kind # "capture" /\ NewObject(o, b)
  BY NotCaptures DEF New, Array_create, Hash_create, Str_create
<1>3. heap' = [heap EXCEPT ![o] = b] /\ given' = given
  BY <1>2 DEF NewObject
<1> QED BY <1>1, <1>2, <1>3, OtherStep

LEMMA ScopeUntouched ==
    ASSUME IInv, NEW s \in Object, NEW entries \in Object, NEW outer \in Object,
           NewScope(s, entries, outer)
    PROVE  Untouched
<1>1. heap \in [Object -> Body]
  BY DEF IInv, Typed
<1>2. /\ heap' = [heap EXCEPT ![s] = Scope(entries, outer), ![entries] = Hash(<<>>), ![outer] = Value]
      /\ given' = given
  BY DEF NewScope
<1>3. \A c \in Object : heap'[c] \in {heap[c], Scope(entries, outer), Hash(<<>>), Value}
  BY <1>1, <1>2
<1> QED BY <1>2, <1>3, NotCaptures, ZenonT(40) DEF Untouched

LEMMA RepliesNewUntouched ==
    ASSUME IInv, NEW c, NEW n, NEW b, b.kind # "capture", NEW taken, NEW released,
           RepliesNew(c, n, b, taken, released)
    PROVE  Untouched
<1>1. heap \in [Object -> Body]
  BY DEF IInv, Typed
<1>2. heap' = [heap EXCEPT ![n] = b] /\ given' = given
  BY DEF RepliesNew
<1> QED BY <1>1, <1>2, OtherStep

\* A handler that makes capture d leaves the others.
LEMMA MadeStep ==
    ASSUME IInv, AInv, NEW d \in Object, Carried(d)', DOMAIN given' = DOMAIN given,
           \A c \in Object \ {d} :
              heap'[c].kind = "capture" => heap'[c] = heap[c] /\ given'[c] = given[c]
    PROVE  AInv'
<1>1. DOMAIN given' = Object
  BY DEF AInv
<1>2. ASSUME NEW c \in Object PROVE Carried(c)'
  <2>1. CASE c = d
    BY <2>1
  <2>2. CASE c # d
    <3>1. Carried(c)
      BY DEF AInv
    <3>2. ASSUME heap'[c].kind = "capture" PROVE heap'[c] = heap[c] /\ given'[c] = given[c]
      BY <2>2, <3>2
    <3> QED BY <3>1, <3>2 DEF Carried
  <2> QED BY <2>1, <2>2
<1> QED BY <1>1, <1>2 DEF AInv

LEMMA CreateKeeps ==
    ASSUME IInv, AInv, NEW c \in Object, NEW invocant \in Counted \cup {IntptrCapture, NoObject},
           NEW args \in client.calls[Kind(invocant)], capture_create(c, invocant, args)
    PROVE  AInv'
<1>1. args.named \in NamedArgs(Item)
  BY ArgumentsTyped DEF IInv
<1>2. heap \in [Object -> Body] /\ DOMAIN given = Object
  BY DEF IInv, Typed, AInv
<1>3. \/ UNCHANGED <<heap, given>>
      \/ heap' = [heap EXCEPT ![c] = Capture(invocant, args)] /\ given' = [given EXCEPT ![c] = args]
  BY DEF capture_create, vars
<1>4. CASE UNCHANGED <<heap, given>>
  BY <1>4, SameStep, UntouchedStep
<1>5. CASE heap' = [heap EXCEPT ![c] = Capture(invocant, args)] /\ given' = [given EXCEPT ![c] = args]
  <2> DEFINE body == Capture(invocant, args)
  <2>0. body = Capture(invocant, args)
    OBVIOUS
  <2> HIDE DEF body
  <2>1. heap'[c] = body /\ given'[c] = args /\ DOMAIN given' = DOMAIN given
    BY <1>2, <1>5, <2>0
  <2>2. \A x \in Object \ {c} : heap'[x] = heap[x] /\ given'[x] = given[x]
    BY <1>2, <1>5, <2>0
  <2>3. Carried(c)'
    BY <1>1, <2>0, <2>1, NewCarried
  <2> QED BY <2>1, <2>2, <2>3, MadeStep
<1> QED BY <1>3, <1>4, <1>5

LEMMA DelegateKeeps ==
    ASSUME IInv, AInv, NEW c \in Object, NEW k \in Object, NEW invocant \in Counted,
           capture_delegate(c, invocant, k)
    PROVE  AInv'
<1> DEFINE args == Arguments(At(k).positional, Passed(k))
           body == Capture(invocant, args)
<1>1. Idle /\ heap[k].kind = "capture"
  BY DEF capture_delegate
<1>2. heap \in [Object -> Body] /\ DOMAIN given = Object
  BY DEF IInv, Typed, AInv
<1>3. At(k) = heap[k] /\ Passed(k) \in NamedArgs(Item)
  BY <1>1, CaptureContents, PassedFacts
<1>4. args.positional = heap[k].positional /\ args.named = Passed(k)
  BY <1>3 DEF Arguments
<1>5. \/ UNCHANGED <<heap, given>>
      \/ /\ heap' = [heap EXCEPT ![c] = body]
         /\ \/ given' = [given EXCEPT ![c] = given[k]]
            \/ given' = [given EXCEPT ![c] = args]
  <2> DEFINE none == Keys(Overwritten(k)) \o Values(Overwritten(k)) = <<>>
  <2>1. \/ UNCHANGED <<heap, given>>
        \/ /\ heap' = [heap EXCEPT ![c] = body]
           /\ given' = [given EXCEPT ![c] = IF none THEN given[k] ELSE args]
    BY DEF capture_delegate
  <2> HIDE DEF none, body, args
  <2> QED BY <2>1
<1> HIDE DEF args
<1>6. body = Capture(invocant, args)
  OBVIOUS
<1> HIDE DEF body
<1>7. CASE UNCHANGED <<heap, given>>
  BY <1>7, SameStep, UntouchedStep
<1>8. ASSUME heap' = [heap EXCEPT ![c] = body], NEW g, given' = [given EXCEPT ![c] = g],
             g.positional = args.positional, IdArgs(g.named) = IdArgs(args.named)
      PROVE  AInv'
  <2>1. heap'[c] = body /\ given'[c] = g /\ DOMAIN given' = DOMAIN given
    BY <1>2, <1>8
  <2>2. \A x \in Object \ {c} : heap'[x] = heap[x] /\ given'[x] = given[x]
    BY <1>2, <1>8
  <2>3. Carried(c)'
    BY <1>3, <1>4, <1>6, <1>8, <2>1, NewCarried
  <2> QED BY <2>1, <2>2, <2>3, MadeStep
<1>9. given[k].positional = args.positional /\ IdArgs(given[k].named) = IdArgs(args.named)
  <2>1. Carried(k)
    BY DEF AInv
  <2>2. IdArgs(Passed(k)) = Range(heap[k].o_named)
    BY <1>1, PassedIds
  <2> QED BY <1>1, <1>4, <2>1, <2>2 DEF Carried
<1> QED BY <1>5, <1>7, <1>8, <1>9

\* What a scope passes on is what it was given.
LEMMA DelegateKept ==
    ASSUME IInv, NEW c \in Object, Receives(c, "scope"), NEW d \in Object, Passed(c) = <<>>,
           heap'[d] = Delegate(c), given'[d] = Arguments(At(c).positional, <<>>)
    PROVE  Carried(d)'
<1> DEFINE args == Arguments(At(c).positional, Passed(c))
<1>1. /\ args.positional = At(c).positional /\ args.named = <<>>
      /\ given'[d].positional = At(c).positional /\ given'[d].named = <<>>
  BY DEF Arguments
<1>2. Delegate(c) = Capture(heap[capture_invocant(c)].entries, args)
  BY DEF Delegate
<1>3. <<>> \in Seq([key : Item, value : Item])
  OBVIOUS
<1> HIDE DEF args
<1>4. args.named \in NamedArgs(Item)
  BY <1>1, <1>3 DEF NamedArgs
<1> QED BY <1>1, <1>2, <1>4, NewCarried

LEMMA ScopePassKeeps ==
    ASSUME IInv, AInv, NEW c \in Object, Receives(c, "scope"), NEW d \in Object, ScopePass(c, d)
    PROVE  AInv'
<1> DEFINE args == Arguments(At(c).positional, <<>>)
           body == Delegate(c)
<1>1. heap' = [heap EXCEPT ![d] = body] /\ given' = [given EXCEPT ![d] = args] /\ Passed(c) = <<>>
  BY DEF ScopePass
<1>2. heap \in [Object -> Body] /\ DOMAIN given = Object
  BY DEF IInv, Typed, AInv
<1>3. args = Arguments(At(c).positional, <<>>) /\ body = Delegate(c)
  OBVIOUS
<1> HIDE DEF args, body
<1>4. heap'[d] = body /\ given'[d] = args /\ DOMAIN given' = DOMAIN given
  BY <1>1, <1>2
<1>5. \A x \in Object \ {d} : heap'[x] = heap[x] /\ given'[x] = given[x]
  BY <1>1, <1>2
<1>6. Carried(d)'
  BY <1>1, <1>3, <1>4, DelegateKept
<1> QED BY <1>4, <1>5, <1>6, MadeStep

LEMMA ScopeBindKeeps ==
    ASSUME IInv, AInv, NEW c \in Object, Receives(c, "scope"), NEW d \in Object, ScopeBind(c, d)
    PROVE  AInv'
<1> DEFINE args == Arguments(At(c).positional, <<>>)
           body == Delegate(c)
           h == heap[capture_invocant(c)].entries
           bucket == Bucket(KeyOf(body.positional[1]), body.positional[2])
           buckets == Append(heap[h].buckets, bucket)
<1>1. /\ given' = [given EXCEPT ![d] = args] /\ Passed(c) = <<>> /\ heap[d].kind = "free"
      /\ \/ heap' = [heap EXCEPT ![d] = body]
         \/ heap' = [heap EXCEPT ![d] = body, ![h] = Hash(Append(@.buckets, bucket))]
  BY DEF ScopeBind, Bind, Unused
<1>2. heap \in [Object -> Body] /\ DOMAIN given = Object
  BY DEF IInv, Typed, AInv
<1>3. args = Arguments(At(c).positional, <<>>) /\ body = Delegate(c)
  OBVIOUS
<1>4. h # d /\ h \in Object
  BY <1>1, DelegateFacts
<1>5. heap' = [heap EXCEPT ![d] = body] \/ heap' = [heap EXCEPT ![d] = body, ![h] = Hash(buckets)]
  <2> HIDE DEF body, h, bucket
  <2> QED BY <1>1, <1>2, <1>4
<1> HIDE DEF args, body, h, bucket, buckets
<1>6. heap'[d] = body /\ given'[d] = args /\ DOMAIN given' = DOMAIN given
  BY <1>1, <1>2, <1>4, <1>5
<1>7. \A x \in Object \ {d} :
         heap'[x].kind = "capture" => heap'[x] = heap[x] /\ given'[x] = given[x]
  BY <1>1, <1>2, <1>5, NotCaptures
<1>8. Carried(d)'
  BY <1>1, <1>3, <1>6, DelegateKept
<1> QED BY <1>6, <1>7, <1>8, MadeStep

LEMMA SendUntouched ==
    ASSUME IInv, NEW c \in Object,
           \/ Push(c) \/ Unshift(c) \/ ValueFetch(c) \/ ProxyFetch(c) \/ ProxyStore(c) \/ Asks(c)
           \/ LookupKey(c) \/ Exists(c)
           \/ \E n \in Object : Elems(c, n) \/ Curly(c, n) \/ LookupNew(c, n)
           \/ \E p \in Object, i \in 0 .. MaxElems - 1 : Square(c, p, i)
           \/ \E field \in {"owner", "key", "entries", "outer"} : Get(c, field)
           \/ CaptureInvocant(c) \/ CaptureNamed(c) \/ CaptureFetch(c)
           \/ \E p \in 0 .. 1 : CapturePositional(c, p)
    PROVE  Untouched
<1>0. heap \in [Object -> Body]
  BY DEF IInv, Typed
<1>1. ASSUME \E a, s, n : heap' = [heap EXCEPT ![a] = Array(s, n)] /\ given' = given
      PROVE  Untouched
  <2>1. PICK a, s, n : heap' = [heap EXCEPT ![a] = Array(s, n)] /\ given' = given
    BY <1>1
  <2> DEFINE b == Array(s, n)
  <2>2. b.kind # "capture"
    BY NotCaptures
  <2>3. heap' = [heap EXCEPT ![a] = b] /\ given' = given
    BY <2>1
  <2> HIDE DEF b
  <2> QED BY <1>0, <2>2, <2>3, OtherStep
<1>2. CASE Push(c)
  BY <1>1, <1>2 DEF Push
<1>3. CASE Unshift(c)
  BY <1>1, <1>3 DEF Unshift
<1>4. CASE ProxyStore(c)
  <2> DEFINE a == heap[capture_invocant(c)].array
             content == resize_array(heap[a].content, heap[capture_invocant(c)].index + 1)
  <2>1. heap' = [heap EXCEPT ![a] = Array(content, @.elems)] /\ given' = given
    BY <1>4 DEF ProxyStore
  <2> HIDE DEF a, content
  <2>2. \A x \in Object : heap'[x] = heap[x] \/ heap'[x] = Array(content, heap[x].elems)
    BY <1>0, <2>1
  <2> QED BY <2>1, <2>2, NotCaptures DEF Untouched
<1>5. CASE ValueFetch(c) \/ ProxyFetch(c) \/ Asks(c) \/ LookupKey(c) \/ Exists(c)
  BY <1>5, SameStep DEF ValueFetch, ProxyFetch, Asks, LookupKey, Exists
<1>6. CASE \E field \in {"owner", "key", "entries", "outer"} : Get(c, field)
  BY <1>6, SameStep DEF Get
<1>7. CASE CaptureInvocant(c) \/ CaptureNamed(c) \/ CaptureFetch(c)
  BY <1>7, SameStep DEF CaptureInvocant, CaptureNamed, CaptureFetch
<1>8. CASE \E p \in 0 .. 1 : CapturePositional(c, p)
  BY <1>8, SameStep DEF CapturePositional
<1>9. CASE \E n \in Object : Elems(c, n)
  BY <1>9, NotCaptures, RepliesNewUntouched DEF Elems
<1>10. CASE \E n \in Object : Curly(c, n)
  BY <1>10, NotCaptures, RepliesNewUntouched DEF Curly
<1>11. CASE \E p \in Object, i \in 0 .. MaxElems - 1 : Square(c, p, i)
  BY <1>11, NotCaptures, RepliesNewUntouched DEF Square
<1>12. ASSUME NEW n \in Object, LookupNew(c, n) PROVE Untouched
  <2> DEFINE h == capture_invocant(c)
             bucket == Bucket(KeyOf(At(c).positional[1]), n)
  <2>1. heap' = [heap EXCEPT ![n] = Value, ![h] = Hash(Append(@.buckets, bucket))] /\ given' = given
    BY <1>12 DEF LookupNew
  <2> HIDE DEF h, bucket
  <2>2. \A x \in Object : heap'[x] \in {heap[x], Value} \/ \E s : heap'[x] = Hash(s)
    BY <1>0, <2>1
  <2> QED BY <2>1, <2>2, NotCaptures DEF Untouched
<1> QED BY <1>2, <1>3, <1>4, <1>5, <1>6, <1>7, <1>8, <1>9, <1>10, <1>11, <1>12

LEMMA BindUntouched ==
    ASSUME IInv, NEW c \in Object, Receives(c, "hash"), BindKey(c)
    PROVE  Untouched
<1> DEFINE h == capture_invocant(c)
           bucket == Bucket(KeyOf(heap[c].positional[1]), heap[c].positional[2])
<1>1. heap \in [Object -> Body]
  BY DEF IInv, Typed
<1>2. /\ given' = given
      /\ \/ heap' = [heap EXCEPT ![c] = heap[c]]
         \/ heap' = [heap EXCEPT ![c] = heap[c], ![h] = Hash(Append(@.buckets, bucket))]
  BY DEF BindKey, Bind
<1> HIDE DEF h, bucket
<1>3. \A x \in Object : heap'[x] = heap[x] \/ \E s : heap'[x] = Hash(s)
  BY <1>1, <1>2
<1> QED BY <1>2, <1>3, NotCaptures DEF Untouched

LEMMA RuntimeKeeps ==
    ASSUME IInv, AInv, Runtime
    PROVE  AInv'
<1>0. heap \in [Object -> Body] /\ DOMAIN given = Object
  BY DEF IInv, Typed, AInv
<1>1. CASE ReleaseNext
  <2>1. \/ UNCHANGED <<heap, given>>
        \/ \E o : heap' = [heap EXCEPT ![o] = Free] /\ given' = [given EXCEPT ![o] = NoArguments]
    BY <1>1, Zenon DEF ReleaseNext
  <2>2. CASE \E o : heap' = [heap EXCEPT ![o] = Free] /\ given' = [given EXCEPT ![o] = NoArguments]
    <3>1. PICK o : heap' = [heap EXCEPT ![o] = Free] /\ given' = [given EXCEPT ![o] = NoArguments]
      BY <2>2
    <3>2. \A x \in Object : heap'[x] = Free \/ (heap'[x] = heap[x] /\ given'[x] = given[x])
      BY <1>0, <3>1
    <3>3. Untouched
      BY <1>0, <3>1, <3>2, NotCaptures DEF Untouched
    <3> QED BY <3>3, UntouchedStep
  <2> QED BY <2>1, <2>2, SameStep, UntouchedStep
<1>2. CASE ProxyPut
  <2> DEFINE a == pending.obj
             value == capture_positional(pending.then[2], 0)
  <2>1. /\ heap' = [heap EXCEPT ![a] = Array([@.content EXCEPT ![pending.slot] = value],
                                             Max({@.elems, pending.slot}))]
        /\ given' = given
    BY <1>2 DEF ProxyPut
  <2> HIDE DEF a, value
  <2>2. \A x \in Object : heap'[x] = heap[x] \/ \E s, n : heap'[x] = Array(s, n)
    BY <1>0, <2>1
  <2>3. Untouched
    BY <2>1, <2>2, NotCaptures DEF Untouched
  <2> QED BY <2>3, UntouchedStep
<1>3. CASE BindPut
  <2>1. \E h, s : heap' = [heap EXCEPT ![h] = Hash(s)] /\ given' = given
    BY <1>3 DEF BindPut
  <2>2. PICK h, s : heap' = [heap EXCEPT ![h] = Hash(s)] /\ given' = given
    BY <2>1
  <2>3. Hash(s).kind # "capture"
    BY NotCaptures
  <2> DEFINE b == Hash(s)
  <2> HIDE DEF b
  <2>4. b.kind # "capture" /\ heap' = [heap EXCEPT ![h] = b]
    BY <2>2, <2>3 DEF b
  <2>5. Untouched
    BY <1>0, <2>2, <2>4, OtherStep
  <2> QED BY <2>5, UntouchedStep
<1>4. CASE LookupReturn
  BY <1>4, SameStep, UntouchedStep DEF LookupReturn
<1>5. CASE Destroy
  <2>1. \E o : heap' = [heap EXCEPT ![o] = Free] /\ given' = given
    BY <1>5 DEF Destroy
  <2>2. PICK o : heap' = [heap EXCEPT ![o] = Free] /\ given' = given
    BY <2>1
  <2>3. Free.kind # "capture"
    BY NotCaptures
  <2>4. Untouched
    BY <1>0, <2>2, <2>3, OtherStep
  <2> QED BY <2>4, UntouchedStep
<1> QED BY <1>1, <1>2, <1>3, <1>4, <1>5 DEF Runtime

LEMMA SendKeeps ==
    ASSUME IInv, AInv, Send
    PROVE  AInv'
<1>1. PICK c \in Object :
         \/ \/ Push(c) \/ Unshift(c) \/ ValueFetch(c) \/ ProxyFetch(c) \/ ProxyStore(c) \/ Asks(c)
            \/ LookupKey(c) \/ Exists(c)
            \/ \E n \in Object : Elems(c, n) \/ Curly(c, n) \/ LookupNew(c, n)
            \/ \E p \in Object, i \in 0 .. MaxElems - 1 : Square(c, p, i)
            \/ \E field \in {"owner", "key", "entries", "outer"} : Get(c, field)
            \/ CaptureInvocant(c) \/ CaptureNamed(c) \/ CaptureFetch(c)
            \/ \E p \in 0 .. 1 : CapturePositional(c, p)
         \/ Receives(c, "hash") /\ BindKey(c)
         \/ Receives(c, "scope") /\ \E d \in Object : ScopePass(c, d) \/ ScopeBind(c, d)
  <2>1. /\ "owner" \in {"owner", "key", "entries", "outer"}
        /\ "key" \in {"owner", "key", "entries", "outer"}
        /\ "entries" \in {"owner", "key", "entries", "outer"}
        /\ "outer" \in {"owner", "key", "entries", "outer"}
    OBVIOUS
  <2> QED BY <2>1, Zenon DEF Send
<1>2. CASE Receives(c, "hash") /\ BindKey(c)
  BY <1>2, BindUntouched, UntouchedStep
<1>3. CASE Receives(c, "scope") /\ \E d \in Object : ScopePass(c, d) \/ ScopeBind(c, d)
  BY <1>3, ScopePassKeeps, ScopeBindKeeps
<1> QED BY <1>1, <1>2, <1>3, SendUntouched, UntouchedStep

LEMMA ClientKeeps ==
    ASSUME IInv, AInv, Client
    PROVE  AInv'
<1>1. CASE \E o \in Object : New(o) \/ Array_create(o) \/ Hash_create(o)
  BY <1>1, NewUntouched, UntouchedStep
<1>6. CASE \E o \in Object, id \in Id : Str_create(o, id)
  BY <1>6, NewUntouched, UntouchedStep
<1>2. CASE \E s, entries, outer \in Object : NewScope(s, entries, outer)
  BY <1>2, ScopeUntouched, UntouchedStep
<1>3. CASE \E o \in Object : Release(o)
  BY <1>3, SameStep, UntouchedStep DEF Release
<1>4. CASE \E c \in Object, invocant \in Counted \cup {IntptrCapture, NoObject} :
              \E args \in client.calls[Kind(invocant)] : capture_create(c, invocant, args)
  BY <1>4, CreateKeeps
<1>5. CASE \E c, k \in Object, invocant \in Counted : capture_delegate(c, invocant, k)
  BY <1>5, DelegateKeeps
<1> QED BY <1>1, <1>2, <1>3, <1>4, <1>5, <1>6 DEF Client

LEMMA ArgumentsKept == Spec => [](IInv /\ AInv)
<1>1. Init => AInv
  <2> SUFFICES ASSUME Init PROVE AInv
    OBVIOUS
  <2>1. DOMAIN given = Object /\ \A c \in Object : heap[c].kind = "free"
    BY NotCaptures DEF Init
  <2> QED BY <2>1 DEF AInv, Carried
<1>2. IInv /\ AInv /\ [Next]_vars => AInv'
  <2> SUFFICES ASSUME IInv, AInv, [Next]_vars PROVE AInv'
    OBVIOUS
  <2>1. CASE UNCHANGED vars
    BY <2>1, SameStep, UntouchedStep DEF vars
  <2> QED BY <2>1, ClientKeeps, SendKeeps, RuntimeKeeps DEF Next
<1> QED BY <1>1, <1>2, InitHolds, InvariantStep, PTL DEF Spec

\* What a capture was made with, or made from, is what its receiver finds in it:
\* each positional argument at its place, and under a constant identifier a value
\* that was given for it, however many arguments there are.
THEOREM ArgumentsAreFound == Spec => []ArgumentsFound
<1>1. IInv /\ AInv => ArgumentsFound
  BY CarriedIsFound DEF IInv
<1> QED BY <1>1, ArgumentsKept, PTL

=============================================================================
