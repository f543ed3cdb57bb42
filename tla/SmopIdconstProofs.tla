------------------------- MODULE SmopIdconstProofs -------------------------
(***************************************************************************)
(* The pool of identifiers, for any number of threads and names.           *)
(***************************************************************************)
EXTENDS SmopIdconst, FiniteSetTheorems, SequenceTheorems, WellFoundedInduction, TLAPS

-----------------------------------------------------------------------------
(* The order of names *)

\* The least-number principle, for sets of numbers.
LEMMA LeastNumber ==
    ASSUME NEW S \in SUBSET Nat, S # {}
    PROVE  \E m \in S : \A k \in S : m <= k
<1>1. PICK m \in S : \A k \in S : ~(<<k, m>> \in OpToRel(<, Nat))
  BY NatLessThanWellFounded, WFMin, Zenon
<1>2. ASSUME NEW k \in S PROVE m <= k
  <2>1. ~(k < m)
    BY <1>1 DEF OpToRel
  <2> QED BY <2>1
<1> QED BY <1>2

\* The contents of identifiers: nothing follows the first NUL but NULs.
Terminated(s) == \A i, j \in 1 .. Len(s) : i <= j /\ s[i] = NUL => s[j] = NUL

Contents == {s \in Seq(Nat) : Terminated(s)}

LEMMA ContentTerminated ==
    ASSUME NEW name \in Seq(Nat)
    PROVE  Content(name) \in Contents /\ Len(Content(name)) = Len(name)
<1>1. PICK n \in Nat : n = Len(name) /\ DOMAIN name = 1 .. n
  BY LenProperties
<1>2. PICK c : c = Content(name)
  OBVIOUS
<1>3. c = [i \in 1 .. n |-> IF \E j \in 1 .. i : name[j] = NUL THEN NUL ELSE name[i]]
  BY <1>1, <1>2 DEF Content
<1>4. \A i \in 1 .. n : name[i] \in Nat
  BY <1>1, LenProperties
<1>5. c \in [1 .. n -> Nat]
  BY <1>3, <1>4 DEF NUL
<1>6. c \in Seq(Nat) /\ Len(c) = n
  BY <1>5, LenProperties
<1>7. Terminated(c)
  <2> SUFFICES ASSUME NEW i \in 1 .. n, NEW j \in 1 .. n, i <= j, c[i] = NUL PROVE c[j] = NUL
    BY <1>6 DEF Terminated
  <2>1. \E k \in 1 .. i : name[k] = NUL
    BY <1>3
  <2>2. \E k \in 1 .. j : name[k] = NUL
    BY <2>1
  <2> QED BY <1>3, <2>2
<1> QED BY <1>1, <1>2, <1>6, <1>7 DEF Contents

\* a and b are the same up to their first difference, which is at i: a byte
\* of a that is less, or the end of b.
Before(a, b, i) ==
    /\ i \in 1 .. Len(a) /\ i - 1 <= Len(b)
    /\ i <= Len(b) => a[i] < b[i]
    /\ \A j \in 1 .. i - 1 : a[j] = b[j]

Precedes(a, b) == \E i \in Nat : Before(a, b, i)

LEMMA PrecedesTransitive ==
    ASSUME NEW a \in Seq(Nat), NEW b \in Seq(Nat), NEW c \in Seq(Nat),
           Precedes(a, b), Precedes(b, c)
    PROVE  Precedes(a, c)
<1>1. PICK i \in Nat : Before(a, b, i)
  BY DEF Precedes
<1>2. PICK j \in Nat : Before(b, c, j)
  BY DEF Precedes
<1>3. Len(a) \in Nat /\ Len(b) \in Nat /\ Len(c) \in Nat
  BY LenProperties
<1>8. i \in 1 .. Len(a) /\ i - 1 <= Len(b) /\ (i <= Len(b) => a[i] < b[i])
  BY <1>1 DEF Before
<1>9. j \in 1 .. Len(b) /\ j - 1 <= Len(c) /\ (j <= Len(c) => b[j] < c[j])
  BY <1>2 DEF Before
<1>5. CASE i < j
  <2>0. i >= 1 /\ j <= Len(b) /\ j - 1 <= Len(c)
    BY <1>8, <1>9
  <2>1. i \in 1 .. Len(a) /\ i \in 1 .. Len(b) /\ i <= Len(c) /\ i \in 1 .. j - 1
    BY <1>3, <1>5, <1>8, <2>0
  <2>2. a[i] < b[i] /\ b[i] = c[i]
    BY <1>1, <1>2, <2>1 DEF Before
  <2>3. ASSUME NEW k \in 1 .. i - 1 PROVE a[k] = c[k]
    <3>1. k \in 1 .. j - 1
      BY <1>5
    <3>2. a[k] = b[k] /\ b[k] = c[k]
      BY <1>1, <1>2, <3>1 DEF Before
    <3> QED BY <3>2
  <2>4. Before(a, c, i)
    BY <1>3, <2>1, <2>2, <2>3 DEF Before
  <2> QED BY <2>4 DEF Precedes
<1>6. CASE j < i
  <2>1. j \in 1 .. Len(a) /\ j \in 1 .. Len(b) /\ j - 1 <= Len(c) /\ j \in 1 .. i - 1
    BY <1>3, <1>6, <1>8, <1>9
  <2>2. (j <= Len(c) => b[j] < c[j]) /\ a[j] = b[j]
    BY <1>1, <1>2, <2>1 DEF Before
  <2>3. ASSUME NEW k \in 1 .. j - 1 PROVE a[k] = c[k]
    <3>1. k \in 1 .. i - 1
      BY <1>6
    <3>2. a[k] = b[k] /\ b[k] = c[k]
      BY <1>1, <1>2, <3>1 DEF Before
    <3> QED BY <3>2
  <2>4. Before(a, c, j)
    BY <1>3, <2>1, <2>2, <2>3 DEF Before
  <2> QED BY <2>4 DEF Precedes
<1>7. CASE i = j
  <2>0. ASSUME NEW k \in 1 .. i - 1 PROVE a[k] = c[k]
    <3>1. a[k] = b[k] /\ b[k] = c[k]
      BY <1>1, <1>2, <1>7 DEF Before
    <3> QED BY <3>1
  <2>2. ASSUME i <= Len(c) PROVE a[i] < c[i]
    <3>1. i \in 1 .. Len(a) /\ i \in 1 .. Len(b) /\ i \in 1 .. Len(c)
      BY <1>3, <1>7, <1>8, <1>9, <2>2
    <3>2. a[i] \in Nat /\ b[i] \in Nat /\ c[i] \in Nat
      BY <3>1, ElementOfSeq
    <3>3. a[i] < b[i] /\ b[i] < c[i]
      BY <1>7, <1>8, <1>9, <2>2, <3>1
    <3> QED BY <3>2, <3>3
  <2>1. Before(a, c, i)
    BY <1>3, <1>7, <1>8, <1>9, <2>0, <2>2 DEF Before
  <2> QED BY <2>1 DEF Precedes
<1> QED BY <1>5, <1>6, <1>7

\* cmp_idconst is that order.
Shorter(a, b) == IF Len(a) < Len(b) THEN Len(a) ELSE Len(b)

Differ(a, b, i) ==
    i \in 1 .. Shorter(a, b) /\ a[i] # b[i] /\ \A j \in 1 .. i - 1 : a[j] = b[j]

LEMMA Compared ==
    ASSUME NEW a \in Contents, NEW b \in Contents
    PROVE  \/ \E i \in Nat : Differ(a, b, i) /\ cmp_idconst(a, b) = a[i] - b[i]
           \/ /\ \A i \in 1 .. Shorter(a, b) : a[i] = b[i]
              /\ cmp_idconst(a, b) = Len(b) - Len(a)
<1>1. PICK n \in Nat : n = Shorter(a, b)
  BY LenProperties DEF Shorter, Contents
<1>2. PICK r : r = strncmp(a, b, n)
  OBVIOUS
<1>3. cmp_idconst(a, b) = IF r # 0 THEN r ELSE Len(b) - Len(a)
  BY <1>1, <1>2 DEF cmp_idconst, Shorter
<1>4. \A i \in 1 .. n : a[i] \in Nat /\ b[i] \in Nat
  BY <1>1, LenProperties DEF Contents, Shorter
<1> DEFINE Ends(i) == a[i] # b[i] \/ a[i] = NUL
           stops == {i \in 1 .. n : Ends(i) /\ \A j \in 1 .. i - 1 : ~Ends(j)}
<1>5. r = IF stops = {} THEN 0 ELSE LET i == CHOOSE i \in stops : TRUE IN a[i] - b[i]
  BY <1>2 DEF strncmp
<1>6. CASE stops = {}
  <2>1. \A i \in 1 .. n : ~Ends(i)
    <3> SUFFICES ASSUME NEW k \in 1 .. n, Ends(k) PROVE FALSE
      OBVIOUS
    <3> DEFINE S == {i \in 1 .. n : Ends(i)}
    <3>1. S \in SUBSET Nat /\ S # {}
      OBVIOUS
    <3>2. PICK m \in S : \A i \in S : m <= i
      BY <3>1, LeastNumber
    <3>3. m \in stops
      BY <3>2
    <3> QED BY <1>6, <3>3
  <2>2. r = 0
    BY <1>5, <1>6
  <2> QED BY <1>1, <1>3, <2>1, <2>2
<1>7. CASE stops # {}
  <2>1. PICK m \in stops : r = a[m] - b[m]
    BY <1>5, <1>7
  <2>2. m \in 1 .. n /\ Ends(m) /\ \A j \in 1 .. m - 1 : a[j] = b[j]
    OBVIOUS
  <2>3. CASE a[m] # b[m]
    <3>1. Differ(a, b, m)
      BY <1>1, <2>2, <2>3 DEF Differ
    <3>2. r # 0
      BY <1>4, <2>1, <2>2, <2>3
    <3> QED BY <1>3, <2>1, <3>1, <3>2
  <2>4. CASE a[m] = b[m]
    <3>1. a[m] = NUL /\ b[m] = NUL /\ r = 0
      BY <2>1, <2>2, <2>4, <1>4
    <3>2. ASSUME NEW i \in 1 .. n PROVE a[i] = b[i]
      <4>1. CASE i < m
        BY <2>2, <4>1
      <4>2. CASE i >= m
        <5>0. {m, i} \subseteq 1 .. Len(a) /\ {m, i} \subseteq 1 .. Len(b) /\ m <= i
          BY <1>1, <2>2, <4>2, LenProperties DEF Contents, Shorter
        <5>1. a[i] = NUL
          BY <3>1, <5>0 DEF Contents, Terminated
        <5>2. b[i] = NUL
          BY <3>1, <5>0 DEF Contents, Terminated
        <5> QED BY <5>1, <5>2
      <4> QED BY <4>1, <4>2
    <3> QED BY <1>1, <1>3, <3>1, <3>2
  <2> QED BY <2>3, <2>4
<1> QED BY <1>6, <1>7

LEMMA Order ==
    ASSUME NEW a \in Contents, NEW b \in Contents
    PROVE  /\ cmp_idconst(a, b) \in Int
           /\ cmp_idconst(a, b) < 0 <=> Precedes(a, b)
           /\ cmp_idconst(a, b) > 0 <=> Precedes(b, a)
           /\ cmp_idconst(a, b) = 0 <=> a = b
<1>1. PICK m \in Nat, n \in Nat : m = Len(a) /\ n = Len(b)
  BY LenProperties DEF Contents
<1>2. /\ \A i \in 1 .. m : a[i] \in Nat
      /\ \A i \in 1 .. n : b[i] \in Nat
  BY <1>1, LenProperties DEF Contents
<1>3. ~(Precedes(a, b) /\ Precedes(b, a))
  <2> SUFFICES ASSUME NEW i \in Nat, NEW j \in Nat, Before(a, b, i), Before(b, a, j) PROVE FALSE
    BY DEF Precedes
  <2>1. i \in 1 .. m /\ j \in 1 .. n /\ i - 1 <= n /\ j - 1 <= m
    BY <1>1 DEF Before
  <2>2. CASE i < j
    <3>1. a[i] < b[i] /\ b[i] = a[i]
      BY <1>1, <2>1, <2>2 DEF Before
    <3> QED BY <1>2, <2>1, <2>2, <3>1
  <2>3. CASE j < i
    <3>1. b[j] < a[j] /\ b[j] = a[j]
      BY <1>1, <2>1, <2>3 DEF Before
    <3> QED BY <1>2, <2>1, <2>3, <3>1
  <2>4. CASE i = j
    <3>1. a[i] < b[i] /\ b[i] < a[i]
      BY <1>1, <2>1, <2>4 DEF Before
    <3> QED BY <1>2, <2>1, <2>4, <3>1
  <2> QED BY <2>2, <2>3, <2>4
<1>4. ~Precedes(a, a)
  <2> SUFFICES ASSUME NEW i \in Nat, Before(a, a, i) PROVE FALSE
    BY DEF Precedes
  <2>1. i \in 1 .. m /\ a[i] < a[i]
    BY <1>1 DEF Before
  <2> QED BY <1>2, <2>1
<1>5. ASSUME NEW i \in Nat, Differ(a, b, i), cmp_idconst(a, b) = a[i] - b[i]
      PROVE  /\ cmp_idconst(a, b) \in Int
             /\ cmp_idconst(a, b) < 0 => Precedes(a, b)
             /\ cmp_idconst(a, b) > 0 => Precedes(b, a)
             /\ cmp_idconst(a, b) # 0 /\ a # b
  <2>1. i \in 1 .. m /\ i \in 1 .. n /\ a[i] # b[i] /\ \A j \in 1 .. i - 1 : a[j] = b[j]
    BY <1>1, <1>5 DEF Differ, Shorter
  <2>2. a[i] < b[i] => Before(a, b, i)
    BY <1>1, <2>1 DEF Before
  <2>3. b[i] < a[i] => Before(b, a, i)
    BY <1>1, <2>1 DEF Before
  <2>4. a[i] \in Nat /\ b[i] \in Nat
    BY <1>2, <2>1
  <2> QED BY <1>5, <2>1, <2>2, <2>3, <2>4 DEF Precedes
<1>6. ASSUME \A i \in 1 .. Shorter(a, b) : a[i] = b[i], cmp_idconst(a, b) = Len(b) - Len(a)
      PROVE  /\ cmp_idconst(a, b) \in Int
             /\ cmp_idconst(a, b) < 0 => Precedes(a, b)
             /\ cmp_idconst(a, b) > 0 => Precedes(b, a)
             /\ cmp_idconst(a, b) = 0 <=> a = b
  <2>1. cmp_idconst(a, b) = n - m
    BY <1>1, <1>6
  <2>2. n < m => Before(a, b, n + 1)
    BY <1>1, <1>6 DEF Before, Shorter
  <2>3. m < n => Before(b, a, m + 1)
    BY <1>1, <1>6 DEF Before, Shorter
  <2>4. m = n => a = b
    BY <1>1, <1>6, SeqEqual DEF Shorter, Contents
  <2>5. a = b => m = n
    BY <1>1
  <2> QED BY <2>1, <2>2, <2>3, <2>4, <2>5 DEF Precedes
<1>7. /\ cmp_idconst(a, b) \in Int
      /\ cmp_idconst(a, b) < 0 => Precedes(a, b)
      /\ cmp_idconst(a, b) > 0 => Precedes(b, a)
      /\ (cmp_idconst(a, b) = 0) <=> (a = b)
  BY <1>5, <1>6, Compared
<1> QED BY <1>3, <1>4, <1>7

-----------------------------------------------------------------------------
(* The invariant *)

\* Every identifier has a content, and every writer is alone with the pool.
PoolInv ==
    /\ \A i \in DOMAIN ident : ident[i] \in Contents
    /\ \A t \in Writers : \A u \in Writers \cup Readers : t = u

\* Where bsearch has narrowed the search to: the entries before lo come before
\* the name, and those behind hi come behind it.
Narrowed(c) ==
    LET key == Content(c.name)
    IN  /\ c.slot = 0 =>
             /\ \A i \in 1 .. c.lo : cmp_idconst(At(i), key) < 0
             /\ \A i \in c.hi + 1 .. Len(constlist) : cmp_idconst(key, At(i)) < 0
        /\ c.slot # 0 => c.lo = c.hi /\ At(c.slot) = key

CallOK(c) ==
    /\ c.at # "none" => c.name \in Name
    /\ c.at # "deref" => ~c.stale
    /\ c.at = "rdlock" => c.lo = 0 /\ c.slot = 0
    /\ c.at = "search" => Narrowed(c)
    /\ c.at = "deref" => c.slot # 0
    /\ c.at = "sort" => c.slot \in DOMAIN ident /\ ident[c.slot] = Content(c.name)

SearchInv ==
    /\ TypeOK /\ NothingLost /\ SortedWhenShared /\ PoolInv
    /\ \A t \in Thread : CallOK(call[t])

\* The copies of a content, and the calls that are about to add one.
Copies(c) == {i \in DOMAIN ident : ident[i] = c}
Adding(c) == {t \in Thread : call[t].at \in {"wrlock", "append"} /\ Content(call[t].name) = c}

CopiesInv ==
    \A c \in Contents : Cardinality(Copies(c)) + Cardinality(Adding(c)) <= Cardinality(Thread)

Active(t) == call[t].at # "none"

\* What a call that overlaps no other relies on.
LoneInv ==
    /\ \A t, u \in Thread :
          Active(t) /\ Active(u) /\ t # u => {call[t].name, call[u].name} \subseteq Contended
    /\ \A t \in Thread : call[t].at = "deref" /\ call[t].name \notin Contended =>
          ~call[t].stale /\ At(call[t].slot) = Content(call[t].name)

\* A content that no overlapping call asks for has one copy, once.
Lone(c) == \A name \in Contended : Content(name) # c

UniqueInv ==
    \A c \in Contents : Lone(c) =>
        /\ \A i, j \in Copies(c) : i = j
        /\ Adding(c) # {} => Copies(c) = {}

IInv == SearchInv /\ CopiesInv /\ LoneInv /\ UniqueInv /\ AloneReturnsItsName

-----------------------------------------------------------------------------
(* What the invariant says of the pool *)

Call == [at : Places, name : Name \cup {<<>>}, lo : Nat, hi : Nat, slot : Nat,
         stale : BOOLEAN]

Bounded(c) == c.lo <= c.hi /\ c.hi <= Len(constlist) /\ c.slot <= Len(constlist)

GivenOK == given \subseteq (Name \cup {Boot[i] : i \in DOMAIN Boot}) \X Nat

LEMMA NameContent ==
    ASSUME NEW name \in Name \cup {<<>>}
    PROVE  name \in Seq(Nat) /\ Content(name) \in Contents
BY IdconstAssumption, EmptySeq, ContentTerminated

LEMMA Pool ==
    ASSUME SearchInv
    PROVE  \E n \in Nat :
              /\ Len(ident) = n /\ Len(constlist) = n
              /\ DOMAIN ident = 1 .. n /\ DOMAIN constlist = 1 .. n
              /\ constlist \in [1 .. n -> 1 .. n] /\ constlist \in Seq(1 .. n)
              /\ \A i \in 1 .. n : \E j \in 1 .. n : constlist[j] = i
              /\ \A i \in 1 .. n : ident[i] \in Contents /\ At(i) \in Contents
              /\ call \in [Thread -> Call]
              /\ \A t \in Thread : /\ call[t] \in Call /\ CallOK(call[t]) /\ Bounded(call[t])
                                    /\ Content(call[t].name) \in Contents
<1>1. PICK n \in Nat : n = Len(ident) /\ DOMAIN ident = 1 .. n
  BY LenProperties DEF SearchInv, TypeOK
<1>2. Len(constlist) = n /\ {constlist[i] : i \in DOMAIN constlist} = 1 .. n
  BY <1>1 DEF SearchInv, NothingLost
<1>3. constlist \in Seq(1 .. n) /\ constlist \in [1 .. n -> 1 .. n] /\ DOMAIN constlist = 1 .. n
  BY <1>1, <1>2, LenProperties DEF SearchInv, TypeOK
<1>4. \A i \in 1 .. n : \E j \in 1 .. n : constlist[j] = i
  BY <1>2, <1>3
<1>5. \A i \in 1 .. n : ident[i] \in Contents
  BY <1>1 DEF SearchInv, PoolInv
<1>6. \A i \in 1 .. n : At(i) \in Contents
  BY <1>3, <1>5 DEF At
<1>7. call \in [Thread -> Call]
  BY DEF SearchInv, TypeOK, Call
<1>8. ASSUME NEW t \in Thread
      PROVE  /\ call[t] \in Call /\ CallOK(call[t]) /\ Bounded(call[t])
             /\ Content(call[t].name) \in Contents
  <2>1. call[t] \in Call /\ CallOK(call[t])
    BY <1>7 DEF SearchInv
  <2>2. Bounded(call[t])
    BY <1>2 DEF SearchInv, TypeOK, Bounded
  <2>3. call[t].name \in Name \cup {<<>>}
    BY <2>1 DEF Call
  <2> QED BY <2>1, <2>2, <2>3, NameContent
<1> QED BY <1>1, <1>2, <1>3, <1>4, <1>5, <1>6, <1>7, <1>8

\* What the search answers is right: names before lo and behind hi are others,
\* and in a pool that has been searched through no place is left between.
LEMMA SearchIsRight ==
    ASSUME SearchInv
    PROVE  SearchFinds
<1> SUFFICES ASSUME NEW t \in Thread, call[t].at = "search", ~Searching(t)
             PROVE  IF call[t].slot = 0
                    THEN {i \in DOMAIN constlist : At(i) = Content(call[t].name)} = {}
                    ELSE call[t].slot \in {i \in DOMAIN constlist :
                                             At(i) = Content(call[t].name)}
  BY DEF SearchFinds
<1>1. PICK n \in Nat :
              /\ Len(constlist) = n /\ DOMAIN constlist = 1 .. n
              /\ \A i \in 1 .. n : At(i) \in Contents
              /\ call[t] \in Call /\ CallOK(call[t]) /\ Bounded(call[t])
              /\ Content(call[t].name) \in Contents
  BY Pool
<1>2. PICK key : key = Content(call[t].name) /\ key \in Contents
  BY <1>1
<1>3. call[t].slot \in Nat /\ call[t].slot <= n
  BY <1>1 DEF Call, Bounded
<1>4. CASE call[t].slot # 0
  BY <1>1, <1>3, <1>4 DEF CallOK, Narrowed
<1>5. CASE call[t].slot = 0
  <2>1. call[t].lo \in Nat /\ call[t].hi = call[t].lo /\ call[t].lo <= n
    BY <1>1 DEF Call, Bounded, Searching
  <2>2. ASSUME NEW i \in 1 .. n PROVE At(i) # key
    <3>1. cmp_idconst(At(i), key) < 0 \/ cmp_idconst(key, At(i)) < 0
      BY <1>1, <1>2, <1>5, <2>1 DEF CallOK, Narrowed
    <3> QED BY <1>1, <1>2, <3>1, Order
  <2> QED BY <1>1, <1>2, <1>5, <2>2
<1> QED BY <1>4, <1>5

-----------------------------------------------------------------------------
(* Steps of one call *)

Becomes(t, c) == call' = [call EXCEPT ![t] = c]

\* A step that leaves the pool alone, and takes no lock that others hold.
LEMMA CallStep ==
    ASSUME SearchInv, NEW t \in Thread, NEW c \in Call, Becomes(t, c),
           UNCHANGED <<ident, constlist>>, GivenOK', CallOK(c), Bounded(c),
           c.at \in {"append", "sort"} =>
               c.at = call[t].at \/ (Writers = {} /\ Readers = {}),
           c.at = "search" => call[t].at = "search" \/ Writers = {},
           call[t].at \in {"append", "sort"} => c.at = call[t].at \/ Sorted
    PROVE  SearchInv'
<1>1. call \in [Thread -> Call] /\ call' \in [Thread -> Call]
  BY Pool DEF Becomes
<1>2. call'[t] = c /\ \A u \in Thread \ {t} : call'[u] = call[u]
  BY <1>1 DEF Becomes
<1>3. \A u \in Thread : CallOK(call'[u]) /\ Bounded(call'[u])
  BY <1>2, Pool
<1>4. \A u \in Thread : CallOK(call[u])'
  BY <1>3 DEF CallOK, Narrowed, At
<1>5. TypeOK'
  <2>1. \A u \in Thread : call'[u] \in Call
    BY <1>1
  <2>2. Len(constlist) \in Nat
    BY Pool
  <2>3. \A u \in Thread :
          /\ call'[u].lo <= call'[u].hi
          /\ {call'[u].hi, call'[u].slot} \subseteq 0 .. Len(constlist)
    BY <1>3, <2>1, <2>2 DEF Call, Bounded
  <2>4. ident' \in Seq(Seq(Nat)) /\ constlist' \in Seq(DOMAIN ident')
    BY DEF SearchInv, TypeOK
  <2> QED BY <1>1, <2>3, <2>4 DEF TypeOK, Call, GivenOK
<1>6. NothingLost'
  BY DEF SearchInv, NothingLost
<1>7. Sorted' <=> Sorted
  BY DEF Sorted, At
<1>8. SortedWhenShared'
  <2> SUFFICES ASSUME Writers' = {} PROVE Sorted
    BY <1>7 DEF SortedWhenShared
  <2>1. \A u \in Thread : call'[u].at \notin {"append", "sort"}
    BY DEF Writers
  <2>2. CASE call[t].at \in {"append", "sort"}
    BY <1>2, <2>1, <2>2
  <2>3. CASE call[t].at \notin {"append", "sort"}
    <3>1. Writers = {}
      BY <1>2, <2>1, <2>3 DEF Writers
    <3> QED BY <3>1 DEF SearchInv, SortedWhenShared
  <2> QED BY <2>2, <2>3
<1>9. PoolInv'
  <2>1. \A i \in DOMAIN ident' : ident'[i] \in Contents
    BY DEF SearchInv, PoolInv
  <2>2. ASSUME NEW u \in Writers', NEW v \in (Writers \cup Readers)' PROVE u = v
    <3>1. /\ u \in Thread /\ call'[u].at \in {"append", "sort"}
          /\ v \in Thread /\ call'[v].at \in {"append", "sort", "search"}
      BY DEF Writers, Readers
    <3>2. \A x \in Writers, y \in Writers \cup Readers : x = y
      BY DEF SearchInv, PoolInv
    <3>3. CASE u = t /\ v # t
      BY <1>2, <3>1, <3>2, <3>3 DEF Writers, Readers
    <3>4. CASE u # t /\ v = t
      BY <1>2, <3>1, <3>2, <3>4 DEF Writers, Readers
    <3>5. CASE u # t /\ v # t
      BY <1>2, <3>1, <3>2, <3>5 DEF Writers, Readers
    <3> QED BY <3>3, <3>4, <3>5
  <2> QED BY <2>1, <2>2 DEF PoolInv
<1> QED BY <1>4, <1>5, <1>6, <1>8, <1>9 DEF SearchInv

LEMMA GivenKept ==
    ASSUME SearchInv, UNCHANGED given
    PROVE  GivenOK'
BY DEF SearchInv, TypeOK, GivenOK

LEMMA CreateSearch ==
    ASSUME SearchInv, NEW t \in Thread, NEW name \in Name, Create(t, name)
    PROVE  SearchInv'
<1> DEFINE c == Calling("rdlock", name)
<1>1. Becomes(t, c) /\ UNCHANGED <<ident, constlist, given>> /\ call[t].at = "none"
  BY DEF Create, Becomes
<1>2. c \in Call /\ CallOK(c) /\ Bounded(c)
  <2>1. Len(constlist) \in Nat
    BY Pool
  <2> QED BY <2>1 DEF Calling, Call, CallOK, Bounded, Places
<1>3. c.at = "rdlock"
  BY DEF Calling
<1> HIDE DEF c
<1> QED BY <1>1, <1>2, <1>3, GivenKept, CallStep

LEMMA RdLockSearch ==
    ASSUME SearchInv, NEW t \in Thread, RdLock(t)
    PROVE  SearchInv'
<1>1. PICK n \in Nat :
         /\ Len(constlist) = n
         /\ call \in [Thread -> Call] /\ call[t] \in Call /\ CallOK(call[t])
  BY Pool
<1> DEFINE c == [call[t] EXCEPT !.at = "search", !.hi = n]
<1>2. Becomes(t, c) /\ UNCHANGED <<ident, constlist, given>>
  BY <1>1 DEF RdLock, Becomes
<1>3. /\ c \in Call /\ c.at = "search" /\ c.hi = n /\ c.lo = 0 /\ c.slot = 0
      /\ c.name = call[t].name /\ c.stale = call[t].stale
      /\ call[t].at = "rdlock" /\ Writers = {} /\ ~call[t].stale /\ call[t].name \in Name
  BY <1>1 DEF Call, Places, CallOK, RdLock
<1> HIDE DEF c
<1>4. CallOK(c) /\ Bounded(c)
  BY <1>1, <1>3 DEF CallOK, Bounded, Narrowed
<1> QED BY <1>2, <1>3, <1>4, GivenKept, CallStep

\* One comparison leaves less to search, and nothing out: what comes before an
\* entry that comes before the name comes before the name.
LEMMA ProbeSearch ==
    ASSUME SearchInv, NEW t \in Thread, Probe(t)
    PROVE  SearchInv'
<1>1. PICK n \in Nat :
         /\ Len(constlist) = n
         /\ \A i \in 1 .. n : At(i) \in Contents
         /\ call \in [Thread -> Call] /\ call[t] \in Call /\ CallOK(call[t]) /\ Bounded(call[t])
         /\ Content(call[t].name) \in Contents
  BY Pool
<1>0. PICK lo \in Nat, hi \in Nat : lo = call[t].lo /\ hi = call[t].hi
  BY <1>1 DEF Call
<1>2. PICK idx : lo = call[t].lo /\ hi = call[t].hi /\ idx = (lo + hi) \div 2
  BY <1>0
<1>3. lo < hi /\ hi <= n /\ call[t].at = "search"
  BY <1>1, <1>2 DEF Probe, Searching, Bounded
<1>4. idx \in lo .. hi - 1
  BY <1>2, <1>3
<1>4a. idx \in Nat /\ idx + 1 \in Nat
  BY <1>4
<1>5. PICK key \in Contents : key = Content(call[t].name)
  BY <1>1
<1>6. PICK r : r = cmp_idconst(key, At(idx + 1))
  OBVIOUS
<1>7. At(idx + 1) \in Contents /\ idx + 1 \in 1 .. n
  BY <1>1, <1>3, <1>4
<1>8. /\ r \in Int
      /\ r < 0 => Precedes(key, At(idx + 1))
      /\ r > 0 => Precedes(At(idx + 1), key)
      /\ r = 0 => key = At(idx + 1)
  BY <1>6, <1>7, Order
<1>9. /\ call' = IF r < 0 THEN [call EXCEPT ![t].hi = idx]
                 ELSE IF r > 0 THEN [call EXCEPT ![t].lo = idx + 1]
                 ELSE [call EXCEPT ![t].slot = idx + 1, ![t].lo = call[t].hi]
      /\ UNCHANGED <<ident, constlist, given>>
  BY <1>2, <1>5, <1>6 DEF Probe
<1>10. call[t].name \in Name /\ ~call[t].stale /\ Narrowed(call[t])
  BY <1>1, <1>3 DEF CallOK
<1>11. call[t].slot = 0
  BY <1>2, <1>3, <1>10 DEF Narrowed
<1>12. /\ \A i \in 1 .. lo : cmp_idconst(At(i), key) < 0
       /\ \A i \in hi + 1 .. n : cmp_idconst(key, At(i)) < 0
  BY <1>1, <1>2, <1>5, <1>10, <1>11 DEF Narrowed
<1>13. \A i, j \in 1 .. n : i < j => cmp_idconst(At(i), At(j)) <= 0
  <2>1. Writers = {}
    <3>1. t \in Readers
      BY <1>3 DEF Readers
    <3> QED BY <1>3, <3>1 DEF SearchInv, PoolInv, Writers
  <2> QED BY <1>1, <2>1 DEF SearchInv, SortedWhenShared, Sorted
<1>14. CASE r < 0
  <2> DEFINE c == [call[t] EXCEPT !.hi = idx]
  <2>1. Becomes(t, c)
    BY <1>1, <1>9, <1>14 DEF Becomes
  <2>2. /\ c \in Call /\ c.at = "search" /\ c.hi = idx /\ c.lo = lo /\ c.slot = 0
        /\ c.name = call[t].name /\ c.stale = call[t].stale
    BY <1>1, <1>2, <1>3, <1>11, <1>4a DEF Call
  <2> HIDE DEF c
  <2>3. ASSUME NEW i \in idx + 1 .. n PROVE cmp_idconst(key, At(i)) < 0
    <3>1. CASE i = idx + 1
      BY <1>6, <1>14, <3>1
    <3>2. CASE i # idx + 1
      <4>1. i \in 1 .. n /\ idx + 1 < i
        BY <1>7, <3>2
      <4>2. cmp_idconst(At(idx + 1), At(i)) <= 0
        BY <1>7, <1>13, <4>1
      <4>3. At(i) \in Contents
        BY <1>1, <4>1
      <4>4. Precedes(key, At(i))
        <5>1. At(idx + 1) = At(i) \/ Precedes(At(idx + 1), At(i))
          BY <1>7, <4>2, <4>3, Order
        <5> QED BY <1>7, <1>8, <1>14, <4>3, <5>1, PrecedesTransitive DEF Contents
      <4> QED BY <4>3, <4>4, Order
    <3> QED BY <3>1, <3>2
  <2>4. CallOK(c) /\ Bounded(c)
    BY <1>1, <1>3, <1>4, <1>5, <1>10, <1>12, <2>2, <2>3 DEF CallOK, Bounded, Narrowed
  <2> QED BY <1>3, <1>9, <2>1, <2>2, <2>4, GivenKept, CallStep
<1>15. CASE r > 0
  <2> DEFINE c == [call[t] EXCEPT !.lo = idx + 1]
  <2>1. Becomes(t, c)
    BY <1>1, <1>8, <1>9, <1>15 DEF Becomes
  <2>2. /\ c \in Call /\ c.at = "search" /\ c.hi = hi /\ c.lo = idx + 1 /\ c.slot = 0
        /\ c.name = call[t].name /\ c.stale = call[t].stale
    BY <1>1, <1>2, <1>3, <1>11, <1>4a DEF Call
  <2> HIDE DEF c
  <2>3. ASSUME NEW i \in 1 .. idx + 1 PROVE cmp_idconst(At(i), key) < 0
    <3>1. Precedes(At(idx + 1), key)
      BY <1>8, <1>15
    <3>2. At(i) \in Contents
      BY <1>1, <1>7
    <3>3. At(i) = At(idx + 1) \/ Precedes(At(i), At(idx + 1))
      <4>1. CASE i # idx + 1
        <5>1. i \in 1 .. n /\ i < idx + 1
          BY <1>7, <4>1
        <5>2. cmp_idconst(At(i), At(idx + 1)) <= 0
          BY <1>7, <1>13, <5>1
        <5> QED BY <1>7, <3>2, <5>2, Order
      <4> QED BY <4>1
    <3>4. Precedes(At(i), key)
      BY <1>7, <3>1, <3>2, <3>3, PrecedesTransitive DEF Contents
    <3> QED BY <3>2, <3>4, Order
  <2>4. CallOK(c) /\ Bounded(c)
    BY <1>1, <1>3, <1>4, <1>5, <1>10, <1>12, <2>2, <2>3 DEF CallOK, Bounded, Narrowed
  <2> QED BY <1>3, <1>9, <2>1, <2>2, <2>4, GivenKept, CallStep
<1>16. CASE r = 0
  <2> DEFINE c == [call[t] EXCEPT !.slot = idx + 1, !.lo = hi]
  <2>1. Becomes(t, c)
    <3>1. call' = [call EXCEPT ![t].slot = idx + 1, ![t].lo = hi]
      BY <1>2, <1>9, <1>16
    <3> QED BY <1>1, <3>1 DEF Becomes
  <2>2. /\ c \in Call /\ c.at = "search" /\ c.hi = hi /\ c.lo = hi /\ c.slot = idx + 1
        /\ c.name = call[t].name /\ c.stale = call[t].stale
    BY <1>1, <1>2, <1>3, <1>4a DEF Call
  <2> HIDE DEF c
  <2>3. CallOK(c) /\ Bounded(c)
    BY <1>1, <1>3, <1>4, <1>5, <1>8, <1>10, <1>16, <2>2 DEF CallOK, Bounded, Narrowed
  <2> QED BY <1>3, <1>9, <2>1, <2>2, <2>3, GivenKept, CallStep
<1> QED BY <1>8, <1>14, <1>15, <1>16

LEMMA RdUnlockSearch ==
    ASSUME SearchInv, NEW t \in Thread, RdUnlock(t) \/ WrLock(t)
    PROVE  SearchInv'
<1>1. call \in [Thread -> Call] /\ call[t] \in Call /\ CallOK(call[t]) /\ Bounded(call[t])
  BY Pool
<1>2. PICK at \in {"wrlock", "deref", "append"} :
         /\ call' = [call EXCEPT ![t].at = at]
         /\ at = "deref" => call[t].slot # 0
         /\ at = "append" => Writers = {} /\ Readers = {}
         /\ call[t].at \in {"search", "wrlock"}
  BY DEF RdUnlock, WrLock
<1> DEFINE c == [call[t] EXCEPT !.at = at]
<1>3. Becomes(t, c) /\ UNCHANGED <<ident, constlist, given>>
  BY <1>1, <1>2 DEF Becomes, RdUnlock, WrLock
<1>4. /\ c \in Call /\ c.at = at /\ c.hi = call[t].hi /\ c.lo = call[t].lo
      /\ c.slot = call[t].slot /\ c.name = call[t].name /\ c.stale = call[t].stale
  BY <1>1 DEF Call, Places
<1> HIDE DEF c
<1>5. CallOK(c) /\ Bounded(c)
  BY <1>1, <1>2, <1>4 DEF CallOK, Bounded
<1> QED BY <1>2, <1>3, <1>4, <1>5, GivenKept, CallStep

\* The end of a call.
LEMMA ReturnSearch ==
    ASSUME SearchInv, NEW t \in Thread, NEW id \in Nat, Return(t, id), call[t].at # "none",
           UNCHANGED <<ident, constlist>>, call[t].at \in {"append", "sort"} => Sorted
    PROVE  SearchInv'
<1>1. call[t] \in Call /\ CallOK(call[t]) /\ Len(constlist) \in Nat
  BY Pool
<1>2. Becomes(t, NoCall)
  BY DEF Return, Becomes
<1>3. NoCall \in Call /\ CallOK(NoCall) /\ Bounded(NoCall) /\ NoCall.at = "none"
  BY <1>1 DEF NoCall, Calling, Call, CallOK, Bounded, Places
<1>4. GivenOK'
  <2>1. given \subseteq (Name \cup {Boot[i] : i \in DOMAIN Boot}) \X Nat
    BY DEF SearchInv, TypeOK
  <2>2. call[t].name \in Name
    BY <1>1 DEF CallOK
  <2> QED BY <2>1, <2>2 DEF Return, GivenOK
<1> QED BY <1>2, <1>3, <1>4, CallStep

LEMMA DerefSearch ==
    ASSUME SearchInv, NEW t \in Thread, Deref(t)
    PROVE  SearchInv'
<1>1. PICK n \in Nat :
         /\ Len(ident) = n /\ Len(constlist) = n /\ constlist \in [1 .. n -> 1 .. n]
         /\ call[t] \in Call /\ CallOK(call[t]) /\ Bounded(call[t])
  BY Pool
<1>2. call[t].slot \in 1 .. n
  BY <1>1 DEF Call, CallOK, Bounded, Deref
<1>3. constlist[call[t].slot] \in Nat
  BY <1>1, <1>2
<1>4. PICK id \in Nat : Return(t, id)
  BY <1>1, <1>3 DEF Deref
<1> QED BY <1>4, ReturnSearch DEF Deref

LEMMA WrUnlockSearch ==
    ASSUME SearchInv, NEW t \in Thread, WrUnlock(t)
    PROVE  SearchInv'
<1>1. call[t].slot \in Nat
  BY Pool DEF Call
<1> QED BY <1>1, ReturnSearch DEF WrUnlock

-----------------------------------------------------------------------------
(* Steps on the pool *)

\* The other calls while t holds the write lock.
LEMMA WriterAlone ==
    ASSUME SearchInv, NEW t \in Thread, call[t].at \in {"append", "sort"}
    PROVE  \A u \in Thread \ {t} : call[u].at \notin {"search", "append", "sort"}
BY DEF SearchInv, PoolInv, Writers, Readers

\* What Enlarge makes of every call.
LEMMA EnlargeCalls ==
    ASSUME SearchInv, NEW t \in Thread, Enlarge(t)
    PROVE  /\ call' \in [Thread -> Call]
           /\ call'[t].at = "sort" /\ call'[t].name = call[t].name
           /\ call'[t].lo = call[t].lo /\ call'[t].hi = call[t].hi
           /\ call'[t].slot = Len(ident) + 1 /\ call'[t].stale = call[t].stale
           /\ \A u \in Thread \ {t} :
                 /\ call'[u].at = call[u].at /\ call'[u].name = call[u].name
                 /\ call'[u].lo = call[u].lo /\ call'[u].hi = call[u].hi
                 /\ call'[u].slot = call[u].slot
                 /\ call[u].at # "deref" => call'[u].stale = call[u].stale
<1>1. PICK n \in Nat :
         Len(ident) = n /\ call \in [Thread -> Call] /\ \A u \in Thread : call[u] \in Call
  BY Pool
<1>2. PICK moves \in BOOLEAN :
         call' = [u \in Thread |->
                    IF u = t THEN [call[u] EXCEPT !.at = "sort", !.slot = Len(ident) + 1]
                    ELSE [call[u] EXCEPT !.stale = @ \/ (moves /\ call[u].at = "deref")]]
  BY DEF Enlarge
<1>3. /\ call'[t] = [call[t] EXCEPT !.at = "sort", !.slot = n + 1]
      /\ DOMAIN call' = Thread /\ call' = [u \in Thread |-> call'[u]]
  BY <1>1, <1>2
<1>4. /\ call'[t] \in Call /\ call'[t].at = "sort" /\ call'[t].name = call[t].name
      /\ call'[t].lo = call[t].lo /\ call'[t].hi = call[t].hi
      /\ call'[t].slot = n + 1 /\ call'[t].stale = call[t].stale
  <2>1. n + 1 \in Nat
    OBVIOUS
  <2> QED BY <1>1, <1>3, <2>1 DEF Call, Places
<1>5. ASSUME NEW u \in Thread \ {t}
      PROVE  /\ call'[u] \in Call
             /\ call'[u].at = call[u].at /\ call'[u].name = call[u].name
             /\ call'[u].lo = call[u].lo /\ call'[u].hi = call[u].hi
             /\ call'[u].slot = call[u].slot
             /\ call[u].at # "deref" => call'[u].stale = call[u].stale
  <2>1. PICK b : b = (call[u].stale \/ (moves /\ call[u].at = "deref"))
    OBVIOUS
  <2>2. b \in BOOLEAN /\ (call[u].at # "deref" => b = call[u].stale)
    BY <1>1, <2>1, Zenon DEF Call
  <2>3. call'[u] = [call[u] EXCEPT !.stale = b]
    BY <1>2, <2>1
  <2> QED BY <1>1, <2>2, <2>3 DEF Call
<1> QED BY <1>1, <1>3, <1>4, <1>5

LEMMA EnlargePool ==
    ASSUME SearchInv, NEW t \in Thread, Enlarge(t)
    PROVE  \E n \in Nat :
              /\ Len(ident) = n /\ Len(constlist) = n
              /\ DOMAIN ident = 1 .. n
              /\ ident' \in Seq(Seq(Nat)) /\ Len(ident') = n + 1 /\ DOMAIN ident' = 1 .. n + 1
              /\ \A i \in 1 .. n : ident'[i] = ident[i]
              /\ ident'[n + 1] = Content(call[t].name)
              /\ constlist' \in Seq(1 .. n + 1) /\ Len(constlist') = n + 1
              /\ DOMAIN constlist' = 1 .. n + 1
              /\ \A i \in 1 .. n : constlist'[i] = constlist[i]
              /\ constlist'[n + 1] = n + 1
<1>1. PICK n \in Nat :
         /\ Len(ident) = n /\ Len(constlist) = n /\ constlist \in Seq(1 .. n)
         /\ DOMAIN ident = 1 .. n
         /\ Content(call[t].name) \in Contents
  BY Pool
<1>2. ident' = Append(ident, Content(call[t].name)) /\ constlist' = Append(constlist, n + 1)
  BY <1>1 DEF Enlarge
<1>3. ident \in Seq(Seq(Nat)) /\ Content(call[t].name) \in Seq(Nat)
  BY <1>1 DEF SearchInv, TypeOK, Contents
<1>4. constlist \in Seq(1 .. n + 1) /\ n + 1 \in 1 .. n + 1
  <2>1. 1 .. n \subseteq 1 .. n + 1 /\ n + 1 \in 1 .. n + 1
    OBVIOUS
  <2> QED BY <1>1, <2>1, SeqMonotonic
<1>5. /\ ident' \in Seq(Seq(Nat)) /\ Len(ident') = n + 1
      /\ \A i \in 1 .. n : ident'[i] = ident[i]
      /\ ident'[n + 1] = Content(call[t].name)
  BY <1>1, <1>2, <1>3, AppendProperties
<1>6. /\ constlist' \in Seq(1 .. n + 1) /\ Len(constlist') = n + 1
      /\ \A i \in 1 .. n : constlist'[i] = constlist[i]
      /\ constlist'[n + 1] = n + 1
  BY <1>1, <1>2, <1>4, AppendProperties
<1>7. DOMAIN ident' = 1 .. n + 1 /\ DOMAIN constlist' = 1 .. n + 1
  BY <1>5, <1>6, LenProperties
<1> QED BY <1>1, <1>5, <1>6, <1>7

LEMMA EnlargeSearch ==
    ASSUME SearchInv, NEW t \in Thread, Enlarge(t)
    PROVE  SearchInv'
<1>1. PICK n \in Nat :
              /\ Len(ident) = n /\ Len(constlist) = n
              /\ DOMAIN ident = 1 .. n
              /\ ident' \in Seq(Seq(Nat)) /\ Len(ident') = n + 1 /\ DOMAIN ident' = 1 .. n + 1
              /\ \A i \in 1 .. n : ident'[i] = ident[i]
              /\ ident'[n + 1] = Content(call[t].name)
              /\ constlist' \in Seq(1 .. n + 1) /\ Len(constlist') = n + 1
              /\ DOMAIN constlist' = 1 .. n + 1
              /\ \A i \in 1 .. n : constlist'[i] = constlist[i]
              /\ constlist'[n + 1] = n + 1
  BY EnlargePool
<1>2. /\ \A i \in 1 .. n : \E j \in 1 .. n : constlist[j] = i
      /\ \A i \in 1 .. n : ident[i] \in Contents
      /\ constlist \in [1 .. n -> 1 .. n]
      /\ Content(call[t].name) \in Contents
      /\ \A u \in Thread : call[u] \in Call /\ CallOK(call[u]) /\ Bounded(call[u])
  BY <1>1, Pool
<1>3. call[t].at = "append"
  BY DEF Enlarge
<1>4. \A u \in Thread \ {t} : call[u].at \notin {"search", "append", "sort"}
  BY <1>3, WriterAlone
<1>5. NothingLost'
  <2>1. ASSUME NEW i \in 1 .. n + 1 PROVE constlist'[i] \in 1 .. n + 1
    BY <1>1, <2>1, ElementOfSeq
  <2>2. ASSUME NEW i \in 1 .. n + 1 PROVE \E j \in 1 .. n + 1 : constlist'[j] = i
    <3>1. CASE i = n + 1
      BY <1>1, <3>1
    <3>2. CASE i \in 1 .. n
      <4>1. PICK j \in 1 .. n : constlist[j] = i
        BY <1>2, <3>2
      <4> QED BY <1>1, <4>1
    <3> QED BY <3>1, <3>2
  <2>3. {constlist'[i] : i \in 1 .. n + 1} = 1 .. n + 1
    BY <2>1, <2>2
  <2> QED BY <1>1, <2>3 DEF NothingLost
<1>6. TypeOK'
  <2>1. call' \in [Thread -> Call]
    BY EnlargeCalls
  <2>2. ASSUME NEW u \in Thread
        PROVE  /\ call'[u].lo <= call'[u].hi
               /\ {call'[u].hi, call'[u].slot} \subseteq 0 .. n + 1
    <3>1. /\ call[u].lo \in Nat /\ call[u].hi \in Nat /\ call[u].slot \in Nat
          /\ call[u].lo <= call[u].hi /\ call[u].hi <= n /\ call[u].slot <= n
      BY <1>1, <1>2 DEF Call, Bounded
    <3>2. /\ call'[u].lo = call[u].lo /\ call'[u].hi = call[u].hi
          /\ call'[u].slot \in {call[u].slot, n + 1}
      BY <1>1, EnlargeCalls
    <3> QED BY <3>1, <3>2
  <2>3. given' = given
    BY DEF Enlarge
  <2> QED BY <1>1, <2>1, <2>2, <2>3 DEF SearchInv, TypeOK, Call
<1>7. t \in Writers'
  BY EnlargeCalls DEF Writers
<1>8. SortedWhenShared'
  BY <1>7 DEF SortedWhenShared
<1>9. PoolInv'
  <2>1. ASSUME NEW i \in 1 .. n + 1 PROVE ident'[i] \in Contents
    <3>1. i \in 1 .. n \/ i = n + 1
      OBVIOUS
    <3> QED BY <1>1, <1>2, <3>1
  <2>2. ASSUME NEW u \in (Writers \cup Readers)' PROVE u = t
    <3>1. u \in Thread /\ call'[u].at \in {"search", "append", "sort"}
      BY <2>2 DEF Writers, Readers
    <3> QED BY <1>4, <3>1, EnlargeCalls
  <2> QED BY <1>1, <2>1, <2>2 DEF PoolInv
<1>10. ASSUME NEW u \in Thread PROVE CallOK(call[u])'
  <2>1. CASE u = t
    <3>1. call[t].name \in Name /\ ~call[t].stale
      BY <1>2, <1>3 DEF CallOK
    <3>2. n + 1 \in DOMAIN ident'
      BY <1>1
    <3> QED BY <1>1, <2>1, <3>1, <3>2, EnlargeCalls DEF CallOK
  <2>2. CASE u # t
    <3>1. CallOK(call[u]) /\ call[u].at \notin {"search", "append", "sort"}
      BY <1>2, <1>4, <2>2
    <3> QED BY <2>2, <3>1, EnlargeCalls DEF CallOK
  <2> QED BY <2>1, <2>2
<1> QED BY <1>5, <1>6, <1>8, <1>9, <1>10 DEF SearchInv

\* One exchange of the sort.
LEMMA ExchangeSearch ==
    ASSUME SearchInv, NEW t \in Thread, Exchange(t)
    PROVE  SearchInv'
<1>1. PICK n \in Nat :
         /\ Len(ident) = n /\ Len(constlist) = n
         /\ DOMAIN ident = 1 .. n
         /\ constlist \in [1 .. n -> 1 .. n]
         /\ \A i \in 1 .. n : \E j \in 1 .. n : constlist[j] = i
         /\ call \in [Thread -> Call]
         /\ \A u \in Thread : call[u] \in Call /\ CallOK(call[u]) /\ Bounded(call[u])
  BY Pool
<1>2. PICK k \in 1 .. n - 1 :
         constlist' = [constlist EXCEPT ![k] = constlist[k + 1], ![k + 1] = constlist[k]]
  BY <1>1 DEF Exchange
<1>3. UNCHANGED <<ident, call, given>> /\ call[t].at = "sort"
  BY DEF Exchange
<1>4. k \in 1 .. n /\ k + 1 \in 1 .. n /\ k + 1 # k
  BY <1>2
<1>5. /\ constlist' \in [1 .. n -> 1 .. n]
      /\ constlist'[k] = constlist[k + 1] /\ constlist'[k + 1] = constlist[k]
      /\ \A i \in 1 .. n \ {k, k + 1} : constlist'[i] = constlist[i]
  BY <1>1, <1>2, <1>4
<1>6. constlist' \in Seq(1 .. n) /\ Len(constlist') = n /\ DOMAIN constlist' = 1 .. n
  <2>1. n \in Nat /\ DOMAIN constlist' = 1 .. n
    BY <1>1, <1>5
  <2>2. constlist' \in [1 .. n -> 1 .. n]
    BY <1>5
  <2>3. constlist' \in Seq(1 .. n)
    BY <2>1, <2>2
  <2> QED BY <2>1, <2>3, LenProperties
<1>7. NothingLost'
  <2>1. ASSUME NEW i \in 1 .. n PROVE \E j \in 1 .. n : constlist'[j] = i
    <3>1. PICK j \in 1 .. n : constlist[j] = i
      BY <1>1
    <3>2. CASE j = k
      BY <1>4, <1>5, <3>1, <3>2
    <3>3. CASE j = k + 1
      BY <1>4, <1>5, <3>1, <3>3
    <3>4. CASE j \notin {k, k + 1}
      BY <1>5, <3>1, <3>4
    <3> QED BY <3>2, <3>3, <3>4
  <2>2. \A i \in 1 .. n : constlist'[i] \in 1 .. n
    BY <1>5
  <2> QED BY <1>1, <1>3, <1>6, <2>1, <2>2 DEF NothingLost
<1>8. TypeOK'
  BY <1>1, <1>3, <1>6 DEF SearchInv, TypeOK
<1>9. t \in Writers' /\ Writers' = Writers /\ Readers' = Readers
  BY <1>3 DEF Writers, Readers
<1>10. SortedWhenShared' /\ PoolInv'
  BY <1>3, <1>9 DEF SearchInv, SortedWhenShared, PoolInv
<1>11. ASSUME NEW u \in Thread PROVE CallOK(call[u])'
  <2>1. call[u].at # "search"
    BY <1>3, WriterAlone
  <2> QED BY <1>1, <1>3, <2>1 DEF CallOK
<1> QED BY <1>7, <1>8, <1>10, <1>11 DEF SearchInv

LEMMA SearchInit == Init => SearchInv
<1> SUFFICES ASSUME Init PROVE SearchInv
  OBVIOUS
<1>1. PICK n \in Nat : n = Len(Boot) /\ DOMAIN Boot = 1 .. n
  BY LenProperties, IdconstAssumption
<1>2. \A i \in 1 .. n : Content(Boot[i]) \in Contents
  <2> SUFFICES ASSUME NEW i \in 1 .. n PROVE Content(Boot[i]) \in Contents
    OBVIOUS
  <2>1. Boot[i] \in Seq(Nat)
    BY <1>1, IdconstAssumption, ElementOfSeq
  <2> QED BY <2>1, ContentTerminated
<1>3. /\ ident = [i \in 1 .. n |-> Content(Boot[i])]
      /\ constlist \in [1 .. n -> 1 .. n] /\ {constlist[i] : i \in 1 .. n} = 1 .. n /\ Sorted
      /\ call = [t \in Thread |-> NoCall]
      /\ given = {<<Boot[i], i>> : i \in 1 .. n}
  BY <1>1 DEF Init
<1>4. ident \in [1 .. n -> Seq(Nat)] /\ \A i \in 1 .. n : ident[i] \in Contents
  BY <1>2, <1>3 DEF Contents
<1>5. ident \in Seq(Seq(Nat)) /\ Len(ident) = n /\ DOMAIN ident = 1 .. n
  BY <1>4, LenProperties
<1>6. constlist \in Seq(1 .. n) /\ Len(constlist) = n /\ DOMAIN constlist = 1 .. n
  BY <1>3, LenProperties
<1>7. NoCall \in Call
  BY DEF NoCall, Calling, Call, Places
<1>8. TypeOK
  <2>1. call \in [Thread -> Call] /\ \A t \in Thread : call[t] = NoCall
    BY <1>3, <1>7
  <2>2. given \subseteq (Name \cup {Boot[i] : i \in DOMAIN Boot}) \X Nat
    BY <1>1, <1>3
  <2>3. \A t \in Thread : /\ call[t].lo <= call[t].hi
                          /\ {call[t].hi, call[t].slot} \subseteq 0 .. n
    BY <2>1 DEF NoCall, Calling
  <2> QED BY <1>5, <1>6, <2>1, <2>2, <2>3 DEF TypeOK, Call
<1>9. NothingLost
  BY <1>3, <1>5, <1>6 DEF NothingLost
<1>10. SortedWhenShared /\ PoolInv /\ \A t \in Thread : CallOK(call[t])
  <2>1. \A t \in Thread : call[t].at = "none" /\ ~call[t].stale
    BY <1>3 DEF NoCall, Calling
  <2> QED BY <1>3, <1>4, <1>5, <2>1 DEF SortedWhenShared, PoolInv, CallOK, Writers, Readers
<1> QED BY <1>8, <1>9, <1>10 DEF SearchInv

LEMMA SearchStep == SearchInv /\ Next => SearchInv'
BY CreateSearch, RdLockSearch, ProbeSearch, RdUnlockSearch, DerefSearch, WrUnlockSearch,
   EnlargeSearch, ExchangeSearch DEF Next, Proceed

-----------------------------------------------------------------------------
(* Calls that overlap no other, and copies *)

Step(t) ==
    \/ \E name \in Name : Create(t, name)
    \/ RdLock(t) \/ WrLock(t) \/ Proceed(t)

LEMMA NextIsStep == Next => \E t \in Thread : Step(t)
BY DEF Next, Step

LEMMA OthersStand ==
    ASSUME SearchInv, NEW t \in Thread, Step(t)
    PROVE  \A u \in Thread \ {t} : call'[u].at = call[u].at /\ call'[u].name = call[u].name
<1>1. call \in [Thread -> Call]
  BY Pool
<1>2. CASE Enlarge(t)
  BY <1>2, EnlargeCalls
<1>3. CASE ~Enlarge(t)
  <2> SUFFICES ASSUME NEW u \in Thread \ {t} PROVE call'[u] = call[u]
    OBVIOUS
  <2>1. ASSUME NEW name \in Name, Create(t, name) PROVE call'[u] = call[u]
    BY <1>1, <2>1 DEF Create
  <2>2. CASE RdLock(t) \/ WrLock(t) \/ RdUnlock(t) \/ Exchange(t)
    BY <1>1, <2>2 DEF RdLock, WrLock, RdUnlock, Exchange
  <2>3. CASE Probe(t)
    BY <1>1, <2>3 DEF Probe
  <2>4. CASE Deref(t) \/ WrUnlock(t)
    BY <1>1, <2>4 DEF Deref, WrUnlock, Return
  <2> QED BY <1>3, <2>1, <2>2, <2>3, <2>4 DEF Step, Proceed
<1> QED BY <1>2, <1>3

LEMMA RdUnlockCall ==
    ASSUME SearchInv, NEW t \in Thread, RdUnlock(t)
    PROVE  /\ call[t].at = "search"
           /\ call'[t].at = IF call[t].slot = 0 THEN "wrlock" ELSE "deref"
           /\ call'[t].name = call[t].name /\ call'[t].slot = call[t].slot
           /\ call'[t].stale = call[t].stale
<1>1. call \in [Thread -> Call] /\ call[t] \in Call
  BY Pool
<1>2. call'[t] = [call[t] EXCEPT !.at = IF call[t].slot = 0 THEN "wrlock" ELSE "deref"]
  BY <1>1 DEF RdUnlock
<1> QED BY <1>1, <1>2 DEF Call, RdUnlock

\* What every step makes of its own call.
LEMMA OwnCall ==
    ASSUME SearchInv, NEW t \in Thread, Step(t)
    PROVE  \/ /\ call[t].at = "none" /\ call'[t].at = "rdlock"
              /\ \E name \in Name : Create(t, name) /\ call'[t].name = name
           \/ /\ call[t].at \in {"rdlock", "search"} /\ call'[t].at = "search"
              /\ call'[t].name = call[t].name
           \/ /\ RdUnlock(t) /\ call[t].at = "search"
              /\ call'[t].at = IF call[t].slot = 0 THEN "wrlock" ELSE "deref"
              /\ call'[t].name = call[t].name /\ call'[t].slot = call[t].slot
              /\ call'[t].stale = call[t].stale
           \/ /\ call[t].at = "wrlock" /\ call'[t].at = "append"
              /\ call'[t].name = call[t].name
           \/ /\ Enlarge(t) /\ call[t].at = "append" /\ call'[t].at = "sort"
              /\ call'[t].name = call[t].name
           \/ /\ call[t].at = "sort" /\ call'[t].at = "sort" /\ call'[t].name = call[t].name
           \/ /\ Deref(t) \/ WrUnlock(t)
              /\ call[t].at \in {"deref", "sort"} /\ call'[t].at = "none"
<1>1. call \in [Thread -> Call] /\ call[t] \in Call
  BY Pool
<1>2. ASSUME NEW name \in Name, Create(t, name)
      PROVE  call[t].at = "none" /\ call'[t].at = "rdlock" /\ call'[t].name = name
  BY <1>1, <1>2 DEF Create, Calling
<1>3. CASE RdLock(t)
  <2>1. call'[t] = [call[t] EXCEPT !.at = "search", !.hi = Len(constlist)]
    BY <1>1, <1>3 DEF RdLock
  <2> QED BY <1>1, <1>3, <2>1 DEF Call, RdLock
<1>4. CASE Probe(t)
  <2>1. PICK i, r : call' = IF r < 0 THEN [call EXCEPT ![t].hi = i]
                            ELSE IF r > 0 THEN [call EXCEPT ![t].lo = i + 1]
                            ELSE [call EXCEPT ![t].slot = i + 1, ![t].lo = call[t].hi]
    BY <1>4 DEF Probe
  <2>2. \/ call'[t] = [call[t] EXCEPT !.hi = i]
        \/ call'[t] = [call[t] EXCEPT !.lo = i + 1]
        \/ call'[t] = [call[t] EXCEPT !.slot = i + 1, !.lo = call[t].hi]
    BY <1>1, <2>1
  <2> QED BY <1>1, <1>4, <2>2 DEF Call, Probe, Searching
<1>5. CASE RdUnlock(t)
  BY <1>5, RdUnlockCall
<1>6. CASE WrLock(t)
  <2>1. call'[t] = [call[t] EXCEPT !.at = "append"]
    BY <1>1, <1>6 DEF WrLock
  <2> QED BY <1>1, <1>6, <2>1 DEF Call, WrLock
<1>7. CASE Enlarge(t)
  BY <1>7, EnlargeCalls DEF Enlarge
<1>8. CASE Exchange(t)
  BY <1>8 DEF Exchange
<1>9. CASE Deref(t) \/ WrUnlock(t)
  <2>1. call'[t] = NoCall
    BY <1>1, <1>9 DEF Deref, WrUnlock, Return
  <2> QED BY <1>9, <2>1 DEF NoCall, Calling, Deref, WrUnlock
<1> QED BY <1>2, <1>3, <1>4, <1>5, <1>6, <1>7, <1>8, <1>9 DEF Step, Proceed

\* While a call with a name nobody else may ask for runs, nobody else runs.
LEMMA OnlyLone ==
    ASSUME SearchInv, LoneInv, NEW t \in Thread, NEW u \in Thread, Step(u),
           Active(t), call[t].name \notin Contended
    PROVE  u = t
<1> SUFFICES ASSUME u # t PROVE FALSE
  OBVIOUS
<1>1. ~Active(u)
  BY DEF LoneInv
<1>2. PICK name \in Name : Create(u, name)
  BY <1>1, OwnCall DEF Active
<1> QED BY <1>2 DEF Create, Active

LEMMA LoneStep ==
    ASSUME SearchInv, LoneInv, NEW t \in Thread, Step(t)
    PROVE  LoneInv'
<1>1. ASSUME NEW u \in Thread, NEW v \in Thread, Active(u)', Active(v)', u # v
      PROVE  {call'[u].name, call'[v].name} \subseteq Contended
  <2>1. ASSUME NEW x \in Thread \ {t}, Active(t)', Active(x)'
        PROVE  {call'[t].name, call'[x].name} \subseteq Contended
    <3>1. Active(x) /\ call'[x].name = call[x].name
      BY <2>1, OthersStand DEF Active
    <3>2. ASSUME NEW name \in Name, Create(t, name), call'[t].name = name
          PROVE  {call'[t].name, call'[x].name} \subseteq Contended
      BY <3>1, <3>2 DEF Create, Active
    <3>3. CASE Active(t) /\ call'[t].name = call[t].name
      BY <3>1, <3>3 DEF LoneInv
    <3> QED BY <2>1, <3>2, <3>3, OwnCall DEF Active
  <2>2. CASE u # t /\ v # t
    <3>1. /\ Active(u) /\ call'[u].name = call[u].name
          /\ Active(v) /\ call'[v].name = call[v].name
      BY <1>1, <2>2, OthersStand DEF Active
    <3> QED BY <1>1, <3>1 DEF LoneInv
  <2>3. CASE u = t
    BY <1>1, <2>1, <2>3
  <2>4. CASE v = t
    BY <1>1, <2>1, <2>4
  <2> QED BY <2>2, <2>3, <2>4
<1>2. ASSUME NEW u \in Thread, call'[u].at = "deref", call'[u].name \notin Contended
      PROVE  ~call'[u].stale /\ (At(call[u].slot) = Content(call[u].name))'
  <2>1. CASE u # t
    <3>1. Active(u) /\ call[u].name \notin Contended
      BY <1>2, <2>1, OthersStand DEF Active
    <3> QED BY <2>1, <3>1, OnlyLone
  <2>2. CASE u = t
    <3>1. /\ RdUnlock(t) /\ call[t].at = "search" /\ call[t].slot # 0
          /\ call'[t].name = call[t].name /\ call'[t].slot = call[t].slot
          /\ call'[t].stale = call[t].stale
      BY <1>2, <2>2, OwnCall
    <3>2. CallOK(call[t]) /\ UNCHANGED <<ident, constlist>>
      BY <3>1, Pool DEF RdUnlock
    <3>3. ~call[t].stale /\ At(call[t].slot) = Content(call[t].name)
      BY <3>1, <3>2 DEF CallOK, Narrowed
    <3> QED BY <2>2, <3>1, <3>2, <3>3 DEF At
  <2> QED BY <2>1, <2>2
<1> QED BY <1>1, <1>2 DEF LoneInv

\* What a step adds: nothing, a call that is about to add a name that has no
\* copy, or the copy.
LEMMA CopiesStep ==
    ASSUME SearchInv, NEW t \in Thread, Step(t), NEW key, key = Content(call[t].name)
    PROVE  \/ /\ ident' = ident /\ \A c : Adding(c)' = Adding(c) /\ Copies(c)' = Copies(c)
           \/ /\ Active(t) /\ Copies(key) = {}
              /\ \A c : Copies(c)' = Copies(c)
              /\ \A c : c # key => Adding(c)' = Adding(c)
              /\ Adding(key)' = Adding(key) \cup {t}
           \/ /\ Enlarge(t) /\ t \in Adding(key) /\ Len(ident) + 1 \notin Copies(key)
              /\ \A c : c # key => Adding(c)' = Adding(c) /\ Copies(c)' = Copies(c)
              /\ Adding(key)' = Adding(key) \ {t}
              /\ Copies(key)' = Copies(key) \cup {Len(ident) + 1}
<1>1. \A u \in Thread \ {t} : call'[u].at = call[u].at /\ call'[u].name = call[u].name
  BY OthersStand
<1>2. CASE Enlarge(t)
  <2>1. PICK n \in Nat :
              /\ Len(ident) = n /\ DOMAIN ident = 1 .. n /\ DOMAIN ident' = 1 .. n + 1
              /\ \A i \in 1 .. n : ident'[i] = ident[i]
              /\ ident'[n + 1] = key
    BY <1>2, EnlargePool
  <2>2. call[t].at = "append" /\ call'[t].at = "sort"
    BY <1>2, EnlargeCalls DEF Enlarge
  <2>3. t \in Adding(key) /\ n + 1 \notin Copies(key)
    BY <2>1, <2>2 DEF Adding, Copies
  <2>4. ASSUME NEW c, c # key PROVE Adding(c)' = Adding(c) /\ Copies(c)' = Copies(c)
    <3>1. \A u \in Thread : u \in Adding(c)' <=> u \in Adding(c)
      BY <1>1, <2>2, <2>4 DEF Adding
    <3>2. \A i \in 1 .. n + 1 : i \in Copies(c)' <=> i \in Copies(c)
      BY <2>1, <2>4 DEF Copies
    <3>3. Copies(c)' \subseteq 1 .. n + 1 /\ Copies(c) \subseteq 1 .. n + 1
      BY <2>1 DEF Copies
    <3>4. Adding(c)' \subseteq Thread /\ Adding(c) \subseteq Thread
      BY DEF Adding
    <3> QED BY <3>1, <3>2, <3>3, <3>4
  <2>5. Adding(key)' = Adding(key) \ {t}
    <3>1. \A u \in Thread : u \in Adding(key)' <=> u \in Adding(key) \ {t}
      BY <1>1, <2>2 DEF Adding
    <3> QED BY <3>1 DEF Adding
  <2>6. Copies(key)' = Copies(key) \cup {n + 1}
    <3>1. \A i \in 1 .. n + 1 : i \in Copies(key)' <=> i \in Copies(key) \cup {n + 1}
      BY <2>1 DEF Copies
    <3>2. Copies(key)' \subseteq 1 .. n + 1 /\ Copies(key) \cup {n + 1} \subseteq 1 .. n + 1
      BY <2>1 DEF Copies
    <3> QED BY <3>1, <3>2
  <2> QED BY <1>2, <2>1, <2>3, <2>4, <2>5, <2>6
<1>3. CASE ~Enlarge(t)
  <2>1. ident' = ident
    BY <1>3 DEF Step, Proceed, Create, RdLock, WrLock, Probe, RdUnlock, Deref, Exchange, WrUnlock
  <2>2. \A c : Copies(c)' = Copies(c)
    BY <2>1 DEF Copies
  <2>3. CASE RdUnlock(t) /\ call[t].slot = 0
    <3>1. call[t].at = "search" /\ call'[t].at = "wrlock" /\ call'[t].name = call[t].name
      BY <2>3, RdUnlockCall
    <3>2. Copies(key) = {}
      <4>1. {i \in DOMAIN constlist : At(i) = key} = {}
        BY <2>3, <3>1, SearchIsRight DEF SearchFinds, RdUnlock
      <4>2. PICK n \in Nat : /\ DOMAIN ident = 1 .. n /\ DOMAIN constlist = 1 .. n
                             /\ \A i \in 1 .. n : \E j \in 1 .. n : constlist[j] = i
        BY Pool
      <4>3. ASSUME NEW i \in 1 .. n, ident[i] = key PROVE FALSE
        <5>1. PICK j \in 1 .. n : constlist[j] = i
          BY <4>2
        <5> QED BY <4>1, <4>2, <4>3, <5>1 DEF At
      <4> QED BY <4>2, <4>3 DEF Copies
    <3>3. ASSUME NEW c, c # key PROVE Adding(c)' = Adding(c)
      <4>1. \A u \in Thread : u \in Adding(c)' <=> u \in Adding(c)
        BY <1>1, <3>1, <3>3 DEF Adding
      <4> QED BY <4>1 DEF Adding
    <3>4. Adding(key)' = Adding(key) \cup {t}
      <4>1. \A u \in Thread : u \in Adding(key)' <=> u \in Adding(key) \cup {t}
        BY <1>1, <3>1 DEF Adding
      <4> QED BY <4>1 DEF Adding
    <3> QED BY <2>2, <3>1, <3>2, <3>3, <3>4 DEF Active
  <2>4. CASE ~(RdUnlock(t) /\ call[t].slot = 0)
    <3>1. \/ call[t].at = "wrlock" /\ call'[t].at = "append" /\ call'[t].name = call[t].name
          \/ /\ call[t].at \notin {"wrlock", "append"}
             /\ call'[t].at \notin {"wrlock", "append"}
      BY <1>3, <2>4, OwnCall
    <3>2. ASSUME NEW c PROVE Adding(c)' = Adding(c)
      <4>1. \A u \in Thread : u \in Adding(c)' <=> u \in Adding(c)
        BY <1>1, <3>1 DEF Adding
      <4> QED BY <4>1 DEF Adding
    <3> QED BY <2>1, <2>2, <3>2
  <2> QED BY <2>3, <2>4
<1> QED BY <1>2, <1>3

LEMMA FiniteCopies ==
    ASSUME SearchInv
    PROVE  \A c : /\ IsFiniteSet(Copies(c)) /\ Cardinality(Copies(c)) \in Nat
                  /\ IsFiniteSet(Adding(c)) /\ Cardinality(Adding(c)) \in Nat
                  /\ Cardinality(Adding(c)) <= Cardinality(Thread)
<1>1. PICK n \in Nat : DOMAIN ident = 1 .. n
  BY Pool
<1>2. IsFiniteSet(1 .. n)
  BY FS_Interval
<1>3. ASSUME NEW c
      PROVE  IsFiniteSet(Copies(c)) /\ Cardinality(Copies(c)) \in Nat
  <2>1. Copies(c) \subseteq 1 .. n
    BY <1>1 DEF Copies
  <2> QED BY <1>2, <2>1, FS_Subset, FS_CardinalityType
<1>4. ASSUME NEW c
      PROVE  /\ IsFiniteSet(Adding(c)) /\ Cardinality(Adding(c)) \in Nat
             /\ Cardinality(Adding(c)) <= Cardinality(Thread)
  <2>1. Adding(c) \subseteq Thread
    BY DEF Adding
  <2> QED BY <2>1, FS_Subset, FS_CardinalityType, IdconstAssumption
<1> QED BY <1>3, <1>4

LEMMA CopiesInvStep ==
    ASSUME SearchInv, CopiesInv, NEW t \in Thread, Step(t)
    PROVE  CopiesInv'
<1> SUFFICES ASSUME NEW c \in Contents
             PROVE  Cardinality(Copies(c)') + Cardinality(Adding(c)') <= Cardinality(Thread)
  BY DEF CopiesInv
<1>1. Cardinality(Copies(c)) + Cardinality(Adding(c)) <= Cardinality(Thread)
  BY DEF CopiesInv
<1>2. PICK key : key = Content(call[t].name)
  OBVIOUS
<1>3. CASE Copies(c)' = Copies(c) /\ Adding(c)' = Adding(c)
  BY <1>1, <1>3
<1>4. CASE Copies(c)' = {} /\ Adding(c)' \subseteq Thread
  <2>1. Cardinality(Copies(c)') = 0
    BY <1>4, FS_EmptySet
  <2>2. Cardinality(Adding(c)') <= Cardinality(Thread) /\ Cardinality(Adding(c)') \in Nat
    BY <1>4, FS_Subset, FS_CardinalityType, IdconstAssumption
  <2> QED BY <2>1, <2>2
<1>5. CASE /\ t \in Adding(c) /\ Len(ident) + 1 \notin Copies(c)
           /\ Adding(c)' = Adding(c) \ {t} /\ Copies(c)' = Copies(c) \cup {Len(ident) + 1}
  <2>1. Cardinality(Adding(c)') = Cardinality(Adding(c)) - 1
    BY <1>5, FiniteCopies, FS_RemoveElement
  <2>2. Cardinality(Copies(c)') = Cardinality(Copies(c)) + 1
    BY <1>5, FiniteCopies, FS_AddElement
  <2>3. Cardinality(Adding(c)) \in Nat /\ Cardinality(Copies(c)) \in Nat
    BY FiniteCopies
  <2> QED BY <1>1, <2>1, <2>2, <2>3
<1>6. CASE c # key
  <2>1. Copies(c)' = Copies(c) /\ Adding(c)' = Adding(c)
    BY <1>2, <1>6, CopiesStep
  <2> QED BY <1>3, <2>1
<1>7. CASE c = key
  <2>1. \/ Copies(c)' = Copies(c) /\ Adding(c)' = Adding(c)
        \/ Copies(c)' = {} /\ Adding(c)' = Adding(c) \cup {t}
        \/ /\ t \in Adding(c) /\ Len(ident) + 1 \notin Copies(c)
           /\ Adding(c)' = Adding(c) \ {t} /\ Copies(c)' = Copies(c) \cup {Len(ident) + 1}
    <3>1. c = Content(call[t].name)
      BY <1>2, <1>7
    <3> QED BY <3>1, CopiesStep
  <2>2. Adding(c) \cup {t} \subseteq Thread
    BY DEF Adding
  <2> QED BY <1>3, <1>4, <1>5, <2>1, <2>2
<1> QED BY <1>6, <1>7

LEMMA UniqueStep ==
    ASSUME SearchInv, LoneInv, UniqueInv, NEW t \in Thread, Step(t)
    PROVE  UniqueInv'
<1> SUFFICES ASSUME NEW c \in Contents, Lone(c)
             PROVE  /\ \A i, j \in Copies(c)' : i = j
                    /\ Adding(c)' # {} => Copies(c)' = {}
  BY DEF UniqueInv, Lone
<1>1. /\ \A i, j \in Copies(c) : i = j
      /\ Adding(c) # {} => Copies(c) = {}
  BY DEF UniqueInv
<1>2. PICK key : key = Content(call[t].name)
  OBVIOUS
<1>3. CASE Copies(c)' = Copies(c) /\ Adding(c)' = Adding(c)
  BY <1>1, <1>3
<1>4. CASE Copies(c)' = {}
  BY <1>4
<1>5. CASE /\ c = key /\ t \in Adding(c)
           /\ Adding(c)' = Adding(c) \ {t} /\ Copies(c)' = Copies(c) \cup {Len(ident) + 1}
  <2>1. ASSUME NEW u \in Adding(c) PROVE u = t
    <3>1. u \in Thread /\ Active(u) /\ Active(t) /\ Content(call[u].name) = c
      BY <1>5, <2>1 DEF Adding, Active
    <3>2. call[u].name \notin Contended
      BY <3>1 DEF Lone
    <3> QED BY <3>1, <3>2 DEF LoneInv
  <2> QED BY <1>1, <1>5, <2>1
<1> QED BY <1>2, <1>3, <1>4, <1>5, CopiesStep

\* Identifiers keep their contents.
LEMMA IdentKept ==
    ASSUME SearchInv, NEW t \in Thread, Step(t)
    PROVE  \A i \in DOMAIN ident : i \in DOMAIN ident' /\ ident'[i] = ident[i]
<1>1. CASE Enlarge(t)
  <2>1. PICK n \in Nat : /\ DOMAIN ident = 1 .. n /\ DOMAIN ident' = 1 .. n + 1
                         /\ \A i \in 1 .. n : ident'[i] = ident[i]
    BY <1>1, EnlargePool
  <2> QED BY <2>1
<1>2. CASE ~Enlarge(t)
  BY <1>2 DEF Step, Proceed, Create, RdLock, WrLock, Probe, RdUnlock, Deref, Exchange, WrUnlock
<1> QED BY <1>1, <1>2

LEMMA AloneStep ==
    ASSUME SearchInv, LoneInv, AloneReturnsItsName, NEW t \in Thread, Step(t)
    PROVE  AloneReturnsItsName'
<1> SUFFICES ASSUME NEW p \in given', p[1] \notin Contended
             PROVE  p[2] \in DOMAIN ident' /\ ident'[p[2]] = Content(p[1])
  BY DEF AloneReturnsItsName
<1>1. CASE p \in given
  BY <1>1, IdentKept DEF AloneReturnsItsName
<1>2. CASE p \notin given
  <2>1. Deref(t) \/ WrUnlock(t)
    BY <1>2 DEF Step, Proceed, Create, RdLock, WrLock, Probe, RdUnlock, Enlarge, Exchange
  <2>2. /\ \E n \in Nat : DOMAIN ident = 1 .. n /\ constlist \in [1 .. n -> 1 .. n]
                         /\ Len(constlist) = n
        /\ call[t] \in Call /\ CallOK(call[t]) /\ Bounded(call[t])
    BY Pool
  <2>3. CASE WrUnlock(t)
    <3>1. p = <<call[t].name, call[t].slot>> /\ call[t].at = "sort"
      BY <1>2, <2>3 DEF WrUnlock, Return
    <3> QED BY <2>2, <3>1, IdentKept DEF CallOK
  <2>4. CASE Deref(t)
    <3>1. call[t].at = "deref" /\ p[1] = call[t].name
      BY <1>2, <2>4 DEF Deref, Return
    <3>2. ~call[t].stale /\ At(call[t].slot) = Content(call[t].name)
      BY <3>1 DEF LoneInv
    <3>3. p = <<call[t].name, constlist[call[t].slot]>>
      BY <1>2, <2>4, <3>2 DEF Deref, Return
    <3>4. constlist[call[t].slot] \in DOMAIN ident
      BY <2>2, <3>1 DEF CallOK, Bounded, Call
    <3> QED BY <3>2, <3>3, <3>4, IdentKept DEF At
  <2> QED BY <2>1, <2>3, <2>4
<1> QED BY <1>1, <1>2

-----------------------------------------------------------------------------
(* The theorems *)

LEMMA InvInit == Init => IInv
<1> SUFFICES ASSUME Init PROVE IInv
  OBVIOUS
<1>1. SearchInv
  BY SearchInit
<1>2. /\ ident = [i \in DOMAIN Boot |-> Content(Boot[i])]
      /\ given = {<<Boot[i], i>> : i \in DOMAIN Boot}
      /\ \A t \in Thread : call[t].at = "none"
  BY DEF Init, NoCall, Calling
<1>3. LoneInv
  BY <1>2 DEF LoneInv, Active
<1>4. AloneReturnsItsName
  BY <1>2 DEF AloneReturnsItsName
<1>5. ASSUME NEW c PROVE Adding(c) = {} /\ \A i, j \in Copies(c) : i = j
  BY <1>2, IdconstAssumption DEF Adding, Copies
<1>6. UniqueInv
  BY <1>5 DEF UniqueInv
<1>7. ASSUME NEW c \in Contents
      PROVE  Cardinality(Copies(c)) + Cardinality(Adding(c)) <= Cardinality(Thread)
  <2>1. Cardinality(Adding(c)) = 0
    BY <1>5, FS_EmptySet
  <2>2. Cardinality(Copies(c)) \in 0 .. 1
    <3>1. CASE Copies(c) = {}
      BY <3>1, FS_EmptySet
    <3>2. ASSUME NEW i \in Copies(c) PROVE Cardinality(Copies(c)) \in 0 .. 1
      <4>1. Copies(c) = {i}
        BY <1>5, <3>2
      <4>2. Cardinality({i}) = 1
        BY FS_Singleton
      <4> QED BY <4>1, <4>2
    <3> QED BY <3>1, <3>2
  <2>3. Cardinality(Thread) \in Nat /\ Cardinality(Thread) # 0
    BY IdconstAssumption, FS_EmptySet, FS_CardinalityType
  <2> QED BY <2>1, <2>2, <2>3
<1>8. CopiesInv
  BY <1>7 DEF CopiesInv
<1> QED BY <1>1, <1>3, <1>4, <1>6, <1>8 DEF IInv

\* The pool has every identifier once, the locks exclude one another, every
\* search has left out only names it does not look for, and every content has
\* at most as many copies as calls that found none when they searched.
THEOREM InductiveInvariant == Spec => []IInv
<1>1. IInv /\ [Next]_vars => IInv'
  <2> SUFFICES ASSUME IInv, [Next]_vars PROVE IInv'
    OBVIOUS
  <2>1. CASE Next
    <3>1. PICK t \in Thread : Step(t)
      BY <2>1, NextIsStep
    <3>2. SearchInv'
      BY <2>1, SearchStep DEF IInv
    <3>3. CopiesInv' /\ LoneInv' /\ UniqueInv' /\ AloneReturnsItsName'
      BY <3>1, CopiesInvStep, LoneStep, UniqueStep, AloneStep DEF IInv
    <3> QED BY <3>2, <3>3 DEF IInv
  <2>2. CASE UNCHANGED vars
    <3>1. UNCHANGED <<ident, constlist, call, given>>
      BY <2>2 DEF vars
    <3>2. SearchInv'
      BY <3>1 DEF IInv, SearchInv, TypeOK, NothingLost, SortedWhenShared, Sorted, PoolInv,
                  Writers, Readers, CallOK, Narrowed, At
    <3>3. CopiesInv' /\ UniqueInv'
      BY <3>1 DEF IInv, CopiesInv, UniqueInv, Copies, Adding
    <3>4. LoneInv' /\ AloneReturnsItsName'
      BY <3>1 DEF IInv, LoneInv, AloneReturnsItsName, Active, At
    <3> QED BY <3>2, <3>3, <3>4 DEF IInv
  <2> QED BY <2>1, <2>2
<1> QED BY <1>1, InvInit, PTL DEF Spec

\* The pool and the calls keep their types: no search leaves the array.
THEOREM TypeCorrect == Spec => []TypeOK
<1>1. IInv => TypeOK
  BY DEF IInv, SearchInv
<1> QED BY <1>1, InductiveInvariant, PTL

\* Readers search a sorted pool: the write lock covers the append and the sort.
THEOREM ReadersSeeItSorted == Spec => []SortedWhenShared
<1>1. IInv => SortedWhenShared
  BY DEF IInv, SearchInv
<1> QED BY <1>1, InductiveInvariant, PTL

\* The array grows by one entry per identifier, and every identifier stays.
THEOREM NothingIsLost == Spec => []NothingLost
<1>1. IInv => NothingLost
  BY DEF IInv, SearchInv
<1> QED BY <1>1, InductiveInvariant, PTL

\* bsearch with cmp_idconst answers rightly, for names of every length, with
\* NULs and with prefixes of one another: cmp_idconst is a linear order.
THEOREM SearchesAreRight == Spec => []SearchFinds
<1>1. IInv => SearchFinds
  BY SearchIsRight DEF IInv
<1> QED BY <1>1, InductiveInvariant, PTL

\* The window between the two locks leaves at most one copy per thread.
THEOREM DuplicatesAreBounded == Spec => []DuplicatesBounded
<1>1. ASSUME IInv PROVE DuplicatesBounded
  <2> SUFFICES ASSUME NEW name \in Name
               PROVE  Cardinality(Copies(Content(name))) <= Cardinality(Thread)
    BY DEF DuplicatesBounded, Copies
  <2>1. PICK c \in Contents : c = Content(name)
    BY NameContent
  <2>2. Cardinality(Copies(c)) + Cardinality(Adding(c)) <= Cardinality(Thread)
    BY <1>1 DEF IInv, CopiesInv
  <2>3. Cardinality(Copies(c)) \in Nat /\ Cardinality(Adding(c)) \in Nat
    BY <1>1, FiniteCopies DEF IInv
  <2>4. Cardinality(Thread) \in Nat
    BY IdconstAssumption, FS_CardinalityType
  <2> QED BY <2>1, <2>2, <2>3, <2>4
<1> QED BY <1>1, InductiveInvariant, PTL

\* Calls that overlap no other return an identifier with the name asked for.
THEOREM LoneCallsReturnTheirName == Spec => []AloneReturnsItsName
<1>1. IInv => AloneReturnsItsName
  BY DEF IInv
<1> QED BY <1>1, InductiveInvariant, PTL

\* Such calls intern: one identifier per name, as far as the first NUL, unless
\* overlapping calls ask for the same.
THEOREM LoneCallsIntern == Spec => []AloneInterns
<1>1. ASSUME IInv PROVE AloneInterns
  <2> SUFFICES ASSUME NEW p \in given, NEW q \in given, Lone(Content(p[1])), Lone(Content(q[1]))
               PROVE  (Content(p[1]) = Content(q[1])) <=> (p[2] = q[2])
    BY DEF AloneInterns, Lone
  <2>1. p[1] \notin Contended /\ q[1] \notin Contended
    BY DEF Lone
  <2>2. /\ p[2] \in DOMAIN ident /\ ident[p[2]] = Content(p[1])
        /\ q[2] \in DOMAIN ident /\ ident[q[2]] = Content(q[1])
    BY <1>1, <2>1 DEF IInv, AloneReturnsItsName
  <2>3. Content(p[1]) \in Contents
    BY <1>1, <2>2 DEF IInv, SearchInv, PoolInv
  <2>4. ASSUME Content(p[1]) = Content(q[1]) PROVE p[2] = q[2]
    <3>1. p[2] \in Copies(Content(p[1])) /\ q[2] \in Copies(Content(p[1]))
      BY <2>2, <2>4 DEF Copies
    <3> QED BY <1>1, <2>3, <3>1 DEF IInv, UniqueInv
  <2> QED BY <2>2, <2>4
<1> QED BY <1>1, InductiveInvariant, PTL
=============================================================================
