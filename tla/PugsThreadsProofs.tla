------------------------- MODULE PugsThreadsProofs -------------------------
(***************************************************************************)
(* What PugsThreads's model checking shows for two threads, one round and  *)
(* one detach, proved for any numbers of them: IInv is an inductive        *)
(* invariant, and the safety properties of counters, rounds, threads'      *)
(* results and the array follow from it.                                   *)
(***************************************************************************)
EXTENDS PugsThreads, FiniteSetTheorems, SequenceTheorems, TLAPS

-----------------------------------------------------------------------------
(* Sequences without repetitions *)

Distinct(s) == \A i, j \in 1 .. Len(s) : s[i] = s[j] => i = j
Members(s) == {s[i] : i \in 1 .. Len(s)}

\* s with the n numbers behind m, as Grown makes elems.
Extended(s, m, n) == s \o [i \in 1 .. n |-> m + i]

LEMMA Appended ==
    ASSUME NEW s \in Seq(Nat), Distinct(s), NEW m \in Nat, NEW n \in Nat,
           \A i \in 1 .. Len(s) : s[i] \in 1 .. m
    PROVE  LET t == Extended(s, m, n)
           IN  /\ t \in Seq(Nat) /\ Len(t) = Len(s) + n
               /\ \A i \in 1 .. Len(t) : t[i] \in 1 .. m + n
               /\ Distinct(t) /\ Members(t) = Members(s) \cup (m + 1 .. m + n)
<1> DEFINE new == [i \in 1 .. n |-> m + i]
<1>1. new \in Seq(Nat) /\ Len(new) = n /\ \A i \in 1 .. n : new[i] = m + i
  <2>1. new \in [1 .. n -> Nat]
    OBVIOUS
  <2> QED BY <2>1, IsASeq, LenProperties
<1> HIDE DEF new
<1>2. PICK k \in Nat : k = Len(s)
  BY LenProperties
<1>3. PICK t : t = s \o new
  OBVIOUS
<1>4. /\ t \in Seq(Nat) /\ Len(t) = k + n
      /\ \A i \in 1 .. k : t[i] = s[i]
      /\ \A i \in k + 1 .. k + n : t[i] = m + (i - k)
  <2>1. /\ t \in Seq(Nat) /\ Len(t) = k + n
        /\ \A i \in 1 .. k + n : t[i] = IF i <= k THEN s[i] ELSE new[i - k]
    BY <1>1, <1>2, <1>3, ConcatProperties, Zenon
  <2>2. ASSUME NEW i \in 1 .. k PROVE t[i] = s[i]
    BY <2>1
  <2>3. ASSUME NEW i \in k + 1 .. k + n PROVE t[i] = m + (i - k)
    <3>1. i \in 1 .. k + n /\ ~(i <= k) /\ i - k \in 1 .. n
      OBVIOUS
    <3> QED BY <3>1, <2>1, <1>1
  <2> QED BY <2>1, <2>2, <2>3
<1>5. \A i \in 1 .. k : s[i] \in 1 .. m
  BY <1>2
<1>6. \A i \in 1 .. k + n : t[i] \in 1 .. m + n
  <2> SUFFICES ASSUME NEW i \in 1 .. k + n PROVE t[i] \in 1 .. m + n
    OBVIOUS
  <2>1. CASE i \in 1 .. k
    <3>1. t[i] \in 1 .. m
      BY <2>1, <1>4, <1>5
    <3> QED BY <3>1
  <2>2. CASE i \in k + 1 .. k + n
    <3>1. t[i] = m + (i - k)
      BY <2>2, <1>4
    <3> QED BY <3>1, <2>2
  <2> QED BY <2>1, <2>2
<1>7. Distinct(t)
  <2> SUFFICES ASSUME NEW i \in 1 .. k + n, NEW j \in 1 .. k + n, t[i] = t[j] PROVE i = j
    BY <1>4 DEF Distinct
  <2>1. CASE i \in 1 .. k /\ j \in 1 .. k
    BY <2>1, <1>2, <1>4 DEF Distinct
  <2>2. CASE i \in k + 1 .. k + n /\ j \in k + 1 .. k + n
    <3>1. t[i] = m + (i - k) /\ t[j] = m + (j - k)
      BY <2>2, <1>4
    <3>2. m + (i - k) = m + (j - k)
      BY <3>1
    <3>3. i \in Int /\ j \in Int
      OBVIOUS
    <3> QED BY <3>2, <3>3
  <2>3. CASE i \in 1 .. k /\ j \in k + 1 .. k + n
    <3>1. t[i] \in 1 .. m /\ t[j] = m + (j - k)
      BY <2>3, <1>4, <1>5
    <3> QED BY <3>1, <2>3
  <2>4. CASE j \in 1 .. k /\ i \in k + 1 .. k + n
    <3>1. t[j] \in 1 .. m /\ t[i] = m + (i - k)
      BY <2>4, <1>4, <1>5
    <3> QED BY <3>1, <2>4
  <2> QED BY <2>1, <2>2, <2>3, <2>4
<1>8. Members(t) = Members(s) \cup (m + 1 .. m + n)
  <2>1. ASSUME NEW i \in 1 .. k + n PROVE t[i] \in Members(s) \cup (m + 1 .. m + n)
    <3>1. CASE i \in 1 .. k
      BY <3>1, <1>2, <1>4 DEF Members
    <3>2. CASE i \in k + 1 .. k + n
      <4>1. t[i] = m + (i - k)
        BY <3>2, <1>4
      <4> QED BY <4>1, <3>2
    <3> QED BY <3>1, <3>2
  <2>2. ASSUME NEW i \in 1 .. k PROVE s[i] \in Members(t)
    BY <1>4 DEF Members
  <2>3. ASSUME NEW c \in m + 1 .. m + n PROVE c \in Members(t)
    <3>1. PICK i \in k + 1 .. k + n : i = k + (c - m)
      OBVIOUS
    <3> QED BY <3>1, <1>4 DEF Members
  <2> QED BY <1>2, <1>4, <2>1, <2>2, <2>3 DEF Members
<1>9. t = Extended(s, m, n)
  BY <1>3 DEF new, Extended
<1> QED BY <1>2, <1>4, <1>6, <1>7, <1>8, <1>9
LEMMA WithoutHead ==
    ASSUME NEW s \in Seq(Nat), Len(s) > 0, Distinct(s)
    PROVE  /\ Tail(s) \in Seq(Nat) /\ Len(Tail(s)) = Len(s) - 1
           /\ Distinct(Tail(s)) /\ Head(s) \in Members(s)
           /\ Members(Tail(s)) = Members(s) \ {Head(s)}
<1>1. PICK k \in Nat : k = Len(s)
  BY LenProperties
<1>2. PICK t : t = Tail(s)
  OBVIOUS
<1>3. /\ t \in Seq(Nat) /\ Len(t) = k - 1 /\ Head(s) = s[1]
      /\ \A i \in 1 .. k - 1 : t[i] = s[i + 1]
  BY <1>1, <1>2, HeadTailProperties
<1>4. \A i, j \in 1 .. k : s[i] = s[j] => i = j
  BY <1>1 DEF Distinct
<1>5. Distinct(t)
  <2> SUFFICES ASSUME NEW i \in 1 .. k - 1, NEW j \in 1 .. k - 1, t[i] = t[j] PROVE i = j
    BY <1>3 DEF Distinct
  <2>1. s[i + 1] = s[j + 1] /\ i + 1 \in 1 .. k /\ j + 1 \in 1 .. k
    BY <1>3
  <2> QED BY <2>1, <1>4
<1>6. Members(t) \subseteq Members(s) \ {Head(s)}
  <2> SUFFICES ASSUME NEW i \in 1 .. k - 1 PROVE t[i] \in Members(s) \ {s[1]}
    BY <1>3 DEF Members
  <2>1. t[i] = s[i + 1] /\ i + 1 \in 1 .. k /\ 1 \in 1 .. k /\ i + 1 # 1
    BY <1>3
  <2>2. s[i + 1] # s[1]
    BY <2>1, <1>4
  <2> QED BY <2>1, <2>2, <1>1 DEF Members
<1>7. Members(s) \ {Head(s)} \subseteq Members(t)
  <2> SUFFICES ASSUME NEW i \in 1 .. k, i # 1 PROVE s[i] \in Members(t)
    BY <1>1, <1>3 DEF Members
  <2>1. i - 1 \in 1 .. k - 1
    OBVIOUS
  <2>2. t[i - 1] = s[i]
    <3>1. t[i - 1] = s[(i - 1) + 1]
      BY <2>1, <1>3
    <3> QED BY <3>1
  <2> QED BY <2>1, <2>2, <1>3 DEF Members
<1>8. Head(s) \in Members(s)
  BY <1>1, <1>3 DEF Members
<1> QED BY <1>1, <1>2, <1>3, <1>5, <1>6, <1>7, <1>8

LEMMA WithoutLast ==
    ASSUME NEW s \in Seq(Nat), Len(s) > 0, Distinct(s)
    PROVE  LET t == SubSeq(s, 1, Len(s) - 1)
           IN  /\ t \in Seq(Nat) /\ Len(t) = Len(s) - 1
               /\ Distinct(t) /\ s[Len(s)] \in Members(s)
               /\ Members(t) = Members(s) \ {s[Len(s)]}
<1>1. PICK k \in Nat : k = Len(s)
  BY LenProperties
<1>2. PICK t : t = SubSeq(s, 1, k - 1)
  OBVIOUS
<1>3. /\ t \in Seq(Nat) /\ Len(t) = k - 1
      /\ \A i \in 1 .. k - 1 : t[i] = s[i]
  <2>1. \A i \in 1 .. k - 1 : s[i] \in Nat
    BY <1>1, ElementOfSeq
  <2>2. /\ t \in Seq(Nat) /\ Len(t) = (IF 1 <= k - 1 THEN (k - 1) - 1 + 1 ELSE 0)
        /\ \A i \in 1 .. (k - 1) - 1 + 1 : t[i] = s[1 + i - 1]
    BY <1>2, <2>1, SubSeqProperties
  <2>3. ASSUME NEW i \in 1 .. k - 1 PROVE t[i] = s[i]
    <3>1. i \in 1 .. (k - 1) - 1 + 1 /\ 1 + i - 1 = i
      OBVIOUS
    <3> QED BY <3>1, <2>2
  <2>4. Len(t) = k - 1
    BY <2>2, <1>1
  <2> QED BY <2>2, <2>3, <2>4
<1>4. \A i, j \in 1 .. k : s[i] = s[j] => i = j
  BY <1>1 DEF Distinct
<1>5. Distinct(t)
  <2> SUFFICES ASSUME NEW i \in 1 .. k - 1, NEW j \in 1 .. k - 1, t[i] = t[j] PROVE i = j
    BY <1>3 DEF Distinct
  <2>1. s[i] = s[j] /\ i \in 1 .. k /\ j \in 1 .. k
    BY <1>3
  <2> QED BY <2>1, <1>4
<1>6. Members(t) \subseteq Members(s) \ {s[k]}
  <2> SUFFICES ASSUME NEW i \in 1 .. k - 1 PROVE t[i] \in Members(s) \ {s[k]}
    BY <1>3 DEF Members
  <2>1. t[i] = s[i] /\ i \in 1 .. k /\ k \in 1 .. k /\ i # k
    BY <1>3
  <2>2. s[i] # s[k]
    BY <2>1, <1>4
  <2> QED BY <2>1, <2>2, <1>1 DEF Members
<1>7. Members(s) \ {s[k]} \subseteq Members(t)
  <2> SUFFICES ASSUME NEW i \in 1 .. k, i # k PROVE s[i] \in Members(t)
    BY <1>1 DEF Members
  <2>1. i \in 1 .. k - 1 /\ t[i] = s[i]
    BY <1>3
  <2> QED BY <2>1, <1>3 DEF Members
<1>8. s[k] \in Members(s)
  <2>1. k \in 1 .. k
    BY <1>1
  <2> QED BY <2>1, <1>1 DEF Members
<1> QED BY <1>1, <1>2, <1>3, <1>5, <1>6, <1>7, <1>8

LEMMA DistinctCount ==
    ASSUME NEW s \in Seq(Nat), Distinct(s)
    PROVE  Cardinality(Members(s)) = Len(s)
<1>1. PICK k \in Nat : k = Len(s)
  BY LenProperties
<1> DEFINE f == [i \in 1 .. k |-> s[i]]
<1>2. f \in Bijection(1 .. k, Members(s))
  <2>1. \A i, j \in 1 .. k : s[i] = s[j] => i = j
    BY <1>1 DEF Distinct
  <2>2. Members(s) = {s[i] : i \in 1 .. k}
    BY <1>1 DEF Members
  <2>3. f \in Injection(1 .. k, Members(s))
    BY <2>1, <2>2 DEF Injection, IsInjective
  <2>4. f \in Surjection(1 .. k, Members(s))
    BY <2>2 DEF Surjection
  <2> QED BY <2>3, <2>4 DEF Bijection
<1>3. IsFiniteSet(1 .. k) /\ Cardinality(1 .. k) = k
  BY FS_Interval
<1>4. ExistsBijection(1 .. k, Members(s))
  BY <1>2 DEF ExistsBijection
<1> QED BY <1>1, <1>3, <1>4, FS_Bijection

-----------------------------------------------------------------------------
(* The invariant *)

LoopSteps == {"init", "test", "body", "store", "wait", "next"}

\* Where thread t can be tells which body it runs, and what else it knows.
Place(t, a) ==
    /\ a.at = "join" => a.who \in Worker
    /\ t = Main => a.at \in {"main", "join"}
    /\ t # Main =>
          /\ a.at # "main"
          /\ a.at \in {"unborn", "enter"} => a.result = "none"
          /\ a.at \in LoopSteps \cup {"reclose"} => a.body \in LoopBodies
          /\ a.at \in LoopSteps => a.pad \in Worker \cup {SubPad}
          /\ a.at = "readIVar" => a.body \in {"shift", "pop"}
          /\ a.at \in {"extend", "again", "assign"} => a.body = "assign"
          /\ a.at = "join" => a.body = "join"
          /\ a.at = "put" => a.result \in Results

Places == \A t \in Thread : Place(t, th[t])

Typed == TypeOK /\ Places

Filled(a) ==
    /\ a \in [elems : Seq(Nat), val : Seq(Worker \cup {undef})]
    /\ \A i \in 1 .. Len(a.elems) : a.elems[i] \in 1 .. Len(a.val)

ArrayOK(a) == Filled(a) /\ Distinct(a.elems)

\* What is in a lock, or was taken from it, is undef from a detach, or what
\* the thread has left behind, which changes no more.
ResultInv ==
    \A u \in Worker : \A r \in hist.got[u] \cup ({lock[u]} \ {"empty"}) :
        \/ r = undef /\ hist.detached[u] > 0
        \/ r = th[u].result /\ th[u].at = "dead"

-----------------------------------------------------------------------------
(* The operations of the array *)

LEMMA GrownArray ==
    ASSUME NEW a, ArrayOK(a), NEW n \in Nat, NEW v \in Worker \cup {undef}
    PROVE  LET b == Grown(a, n, v)
           IN  /\ ArrayOK(b)
               /\ Len(b.elems) = Len(a.elems) + n /\ Len(b.val) = Len(a.val) + n
               /\ Members(b.elems) = Members(a.elems) \cup (Len(a.val) + 1 .. Len(b.val))
<1>1. /\ a.elems \in Seq(Nat) /\ a.val \in Seq(Worker \cup {undef}) /\ Distinct(a.elems)
      /\ \A i \in 1 .. Len(a.elems) : a.elems[i] \in 1 .. Len(a.val)
  BY DEF ArrayOK, Filled
<1>2. PICK m, vs : /\ m = Len(a.val)
                   /\ vs = a.val \o [i \in 1 .. n |-> v]
  OBVIOUS
<1>3. m \in Nat
  BY <1>1, <1>2, LenProperties
<1> DEFINE es == Extended(a.elems, m, n)
<1>4. /\ es \in Seq(Nat) /\ Len(es) = Len(a.elems) + n
      /\ \A i \in 1 .. Len(es) : es[i] \in 1 .. m + n
      /\ Distinct(es) /\ Members(es) = Members(a.elems) \cup (m + 1 .. m + n)
  <2>1. \A i \in 1 .. Len(a.elems) : a.elems[i] \in 1 .. m
    BY <1>1, <1>2
  <2>2. PICK s \in Seq(Nat) : s = a.elems
    BY <1>1
  <2>3. Distinct(s) /\ \A i \in 1 .. Len(s) : s[i] \in 1 .. m
    BY <1>1, <2>1, <2>2
  <2>4. PICK t : t = Extended(s, m, n)
    OBVIOUS
  <2>5. /\ t \in Seq(Nat) /\ Len(t) = Len(s) + n
        /\ \A i \in 1 .. Len(t) : t[i] \in 1 .. m + n
        /\ Distinct(t) /\ Members(t) = Members(s) \cup (m + 1 .. m + n)
    BY <1>3, <2>3, <2>4, Appended
  <2> QED BY <2>2, <2>4, <2>5
<1>5. vs \in Seq(Worker \cup {undef}) /\ Len(vs) = m + n
  <2>1. [i \in 1 .. n |-> v] \in Seq(Worker \cup {undef}) /\ Len([i \in 1 .. n |-> v]) = n
    <3>1. [i \in 1 .. n |-> v] \in [1 .. n -> Worker \cup {undef}]
      OBVIOUS
    <3> QED BY <3>1, IsASeq, LenProperties
  <2> QED BY <2>1, <1>1, <1>2, ConcatProperties
<1>6. Grown(a, n, v) = [elems |-> es, val |-> vs]
  BY <1>2 DEF Grown, Extended
<1> HIDE DEF es
<1> QED BY <1>2, <1>4, <1>5, <1>6 DEF ArrayOK, Filled

LEMMA ShiftedArray ==
    ASSUME NEW a, ArrayOK(a), a_size(a) > 0
    PROVE  /\ ArrayOK(Shifted(a)) /\ Shifted(a).val = a.val
           /\ Head(a.elems) \in Members(a.elems)
           /\ Members(Shifted(a).elems) = Members(a.elems) \ {Head(a.elems)}
<1>1. a.elems \in Seq(Nat) /\ Len(a.elems) > 0 /\ Distinct(a.elems)
  BY DEF ArrayOK, Filled, a_size
<1>2. PICK t : t = Tail(a.elems)
  OBVIOUS
<1>3. /\ t \in Seq(Nat) /\ Distinct(t) /\ Head(a.elems) \in Members(a.elems)
      /\ Members(t) = Members(a.elems) \ {Head(a.elems)}
  BY <1>1, <1>2, WithoutHead
<1>4. Shifted(a) = [elems |-> t, val |-> a.val]
  <2>1. a \in [elems : Seq(Nat), val : Seq(Worker \cup {undef})]
    BY DEF ArrayOK, Filled
  <2>2. Shifted(a) = [a EXCEPT !.elems = t]
    BY <2>1, <1>2 DEF Shifted
  <2> QED BY <2>1, <2>2
<1>5. \A i \in 1 .. Len(t) : t[i] \in 1 .. Len(a.val)
  <2>1. \A i \in 1 .. Len(t) : t[i] \in Members(a.elems)
    BY <1>3 DEF Members
  <2> QED BY <2>1 DEF Members, ArrayOK, Filled
<1> QED BY <1>3, <1>4, <1>5 DEF ArrayOK, Filled

LEMMA PoppedArray ==
    ASSUME NEW a, ArrayOK(a), a_size(a) > 0
    PROVE  /\ ArrayOK(Popped(a)) /\ Popped(a).val = a.val
           /\ a.elems[a_size(a)] \in Members(a.elems)
           /\ Members(Popped(a).elems) = Members(a.elems) \ {a.elems[a_size(a)]}
<1>1. a.elems \in Seq(Nat) /\ Len(a.elems) > 0 /\ Distinct(a.elems)
  BY DEF ArrayOK, Filled, a_size
<1>2. PICK t, last : t = SubSeq(a.elems, 1, Len(a.elems) - 1) /\ last = a.elems[Len(a.elems)]
  OBVIOUS
<1>3. /\ t \in Seq(Nat) /\ Distinct(t) /\ last \in Members(a.elems)
      /\ Members(t) = Members(a.elems) \ {last}
  BY <1>1, <1>2, WithoutLast
<1>4. Popped(a) = [elems |-> t, val |-> a.val]
  <2>1. a \in [elems : Seq(Nat), val : Seq(Worker \cup {undef})]
    BY DEF ArrayOK, Filled
  <2>2. Popped(a) = [a EXCEPT !.elems = t]
    BY <2>1, <1>2 DEF Popped
  <2> QED BY <2>1, <2>2
<1>5. \A i \in 1 .. Len(t) : t[i] \in 1 .. Len(a.val)
  <2>1. \A i \in 1 .. Len(t) : t[i] \in Members(a.elems)
    BY <1>3 DEF Members
  <2> QED BY <2>1 DEF Members, ArrayOK, Filled
<1> QED BY <1>2, <1>3, <1>4, <1>5 DEF ArrayOK, Filled, a_size

LEMMA StoredArray ==
    ASSUME NEW a, ArrayOK(a), NEW c, NEW v \in Worker
    PROVE  LET b == scalar_store(a, c, v)
           IN  ArrayOK(b) /\ b.elems = a.elems /\ Len(b.val) = Len(a.val)
<1>1. a.val \in Seq(Worker \cup {undef}) /\ a \in [elems : Seq(Nat), val : Seq(Worker \cup {undef})]
  BY DEF ArrayOK, Filled
<1>2. PICK vs : vs = [a.val EXCEPT ![c] = v]
  OBVIOUS
<1>3. vs \in Seq(Worker \cup {undef}) /\ Len(vs) = Len(a.val)
  <2>1. a.val \in [1 .. Len(a.val) -> Worker \cup {undef}] /\ Len(a.val) \in Nat
    BY <1>1, LenProperties, ElementOfSeq
  <2>2. vs \in [1 .. Len(a.val) -> Worker \cup {undef}]
    BY <2>1, <1>2
  <2> QED BY <2>1, <2>2, IsASeq, LenProperties
<1>4. scalar_store(a, c, v) = [elems |-> a.elems, val |-> vs]
  <2>1. scalar_store(a, c, v) = [a EXCEPT !.val = vs]
    BY <1>1, <1>2 DEF scalar_store
  <2> QED BY <2>1, <1>1
<1> QED BY <1>3, <1>4 DEF ArrayOK, Filled

LEMMA IndexFound ==
    ASSUME NEW a, Filled(a)
    PROVE  /\ getArrayIndex(a, Index) \in Nat
           /\ getArrayIndex(a, Index) = 0 <=> a_size(a) <= Index
           /\ a_size(a) \in Nat
<1>1. Len(a.elems) \in Nat /\ \A i \in 1 .. Len(a.elems) : a.elems[i] \in 1 .. Len(a.val)
  BY LenProperties DEF Filled
<1>2. CASE Len(a.elems) <= 1
  BY <1>1, <1>2 DEF getArrayIndex, Index, a_size
<1>3. CASE Len(a.elems) > 1
  <2>1. a.elems[2] \in 1 .. Len(a.val)
    BY <1>1, <1>3
  <2>2. getArrayIndex(a, Index) = a.elems[2]
    BY <1>1, <1>3 DEF getArrayIndex, Index, a_size
  <2>3. a.elems[2] \in Nat /\ a.elems[2] # 0
    BY <2>1
  <2> QED BY <1>1, <1>3, <2>2, <2>3 DEF Index, a_size
<1> QED BY <1>1, <1>2, <1>3

LEMMA FirstArray == ArrayOK(NewArray) /\ Members(NewArray.elems) = {} /\ Len(NewArray.val) = 0
<1>1. <<>> \in Seq(Nat) /\ <<>> \in Seq(Worker \cup {undef}) /\ Len(<<>>) = 0
  BY EmptySeq
<1> QED BY <1>1 DEF NewArray, ArrayOK, Filled, Distinct, Members

-----------------------------------------------------------------------------
(* The block in the loop *)

InBlock == {"body", "store", "wait"}

\* A block without transaction.
Plainly(a) ==
    /\ a.body = "plain" /\ a.block.sub = "plain" /\ a.block.log = NewLog
    /\ \/ a.at = "body" /\ a.block.line \in 1 .. 3
       \/ a.at = "store" /\ a.block.line \in 1 .. 2

\* What the log of a transaction says at every place of its block.
Contending(a) ==
    LET line == a.block.line
        log  == a.block.log
        seen == log.seen["counter"]
    IN  /\ a.body = "contend" /\ a.block.sub = "contend"
        /\ \/ a.at = "body" /\ line = 1 /\ log = NewLog
           \/ /\ a.at = "store" /\ line = 1 /\ log.known = {"counter"}
              /\ log.now["counter"] = seen /\ a.tmp = seen
           \/ /\ a.at = "body" /\ line = 2 /\ log.known = {"counter", "val"}
              /\ log.now["counter"] = seen /\ log.now["val"] = seen
           \/ /\ a.at = "store" /\ line = 2 /\ log.known = {"counter", "val"}
              /\ log.now["counter"] = seen /\ a.tmp = seen + 1
           \/ /\ a.at = "body" /\ line = 3 /\ log.known = {"counter", "val"}
              /\ log.now["counter"] = seen + 1

Incrementing(a) ==
    LET line == a.block.line
        log  == a.block.log
        seen == log.seen["counter"]
    IN  /\ a.body \in {"++", "maybe"} /\ a.block.sub = "++"
        /\ \/ /\ a.at = "body" /\ line = 1 /\ log.known \subseteq {"counter"}
              /\ "counter" \in log.known => log.now["counter"] = seen
           \/ /\ a.at = "store" /\ line = 1 /\ log.known = {"counter"}
              /\ log.now["counter"] = seen /\ a.tmp = seen + 1
           \/ /\ a.at = "body" /\ line = 2 /\ log.known = {"counter"}
              /\ log.now["counter"] = seen + 1

Moving(a) ==
    LET line == a.block.line
        log  == a.block.log
        seen == log.seen["counter"]
    IN  /\ a.body \in {"defer", "maybe"} /\ a.block.sub = "defer"
        /\ \/ a.at = "body" /\ line = 1 /\ log = NewLog
           \/ /\ a.at = "store" /\ line = 1 /\ log.known = {"counter"}
              /\ log.now["counter"] = seen /\ a.tmp = seen - 1
           \/ /\ a.at \in {"body", "wait"} /\ line = 2 /\ log.known = {"counter"}
              /\ log.now["counter"] = seen - 1
           \/ /\ a.at = "body" /\ line = 3 /\ log.known = {"counter"}
              /\ log.now["counter"] = seen - 1 /\ seen >= 1
           \/ /\ a.at = "store" /\ line = 3 /\ log.known = {"counter", "moved"}
              /\ log.now["counter"] = seen - 1 /\ seen >= 1
              /\ a.tmp = log.seen["moved"] + 1
           \/ /\ a.at = "body" /\ line = 4 /\ log.known = {"counter", "moved"}
              /\ log.now["counter"] = seen - 1 /\ seen >= 1
              /\ log.now["moved"] = log.seen["moved"] + 1

Dying(a) ==
    LET line == a.block.line
        log  == a.block.log
        seen == log.seen["counter"]
    IN  /\ a.body = "die" /\ a.block.sub = "die"
        /\ \/ a.at = "body" /\ line = 1 /\ log = NewLog
           \/ /\ a.at = "store" /\ line = 1 /\ log.known = {"counter"}
              /\ log.now["counter"] = seen /\ a.tmp = seen - 1
           \/ /\ a.at = "body" /\ line = 2 /\ log.known = {"counter"}
              /\ log.now["counter"] = seen - 1

\* Outside a block the next one waits to be begun.
BlockOK(a) ==
    /\ a.at \in InBlock => Plainly(a) \/ Contending(a) \/ Incrementing(a) \/ Moving(a) \/ Dying(a)
    /\ a.at \notin InBlock => a.block = Begin(First(a.body))

BlockInv == \A t \in Worker : BlockOK(th[t])

LEMMA Lines ==
    /\ \A sub \in {"contend", "plain"} :
         /\ Code(sub)[1] = Set("val", "counter", 0)
         /\ Code(sub)[2] = Set("counter", "val", 1) /\ Code(sub)[3] = Op("end")
    /\ Code("++")[1] = Set("counter", "counter", 1) /\ Code("++")[2] = Op("end")
    /\ Code("defer")[1] = Set("counter", "counter", -1) /\ Code("defer")[2] = Op("defer")
    /\ Code("defer")[3] = Set("moved", "moved", 1) /\ Code("defer")[4] = Op("end")
    /\ Code("die")[1] = Set("counter", "counter", -1) /\ Code("die")[2] = Op("die")
<1>1. \A sub \in {"contend", "plain"} : Code(sub) = Contend
  BY DEF Code
<1>2. Code("++") = Increment /\ Code("defer") = Move /\ Code("die") = Die
  BY DEF Code
<1>3. /\ Contend[1] = Set("val", "counter", 0)
      /\ Contend[2] = Set("counter", "val", 1) /\ Contend[3] = Op("end")
  BY DEF Contend
<1>4. Increment[1] = Set("counter", "counter", 1) /\ Increment[2] = Op("end")
  BY DEF Increment
<1>5. /\ Move[1] = Set("counter", "counter", -1) /\ Move[2] = Op("defer")
      /\ Move[3] = Set("moved", "moved", 1) /\ Move[4] = Op("end")
  BY DEF Move
<1>6. Die[1] = Set("counter", "counter", -1) /\ Die[2] = Op("die")
  BY DEF Die
<1> QED BY <1>1, <1>2, <1>3, <1>4, <1>5, <1>6

\* A new block begins well.
LEMMA FreshBlock ==
    ASSUME NEW a, a.body \in LoopBodies, a.at = "body", a.block = Begin(First(a.body))
    PROVE  BlockOK(a)
<1>1. a.block.sub = First(a.body) /\ a.block.line = 1 /\ a.block.log = NewLog
  BY DEF Begin
<1>2. NewLog.known = {}
  BY DEF NewLog
<1> QED BY <1>1, <1>2
    DEF BlockOK, InBlock, Plainly, Contending, Incrementing, Moving, Dying, First, LoopBodies

LEMMA BeginTyped ==
    ASSUME NEW body \in Bodies \cup {"none"}
    PROVE  Begin(First(body)) \in [sub : Bodies \cup {"none"}, line : 1 .. 4, log : Log]
<1>1. First(body) \in Bodies \cup {"none"}
  BY DEF First, Bodies, LoopBodies
<1>2. NewLog \in Log
  BY DEF NewLog, Log
<1> QED BY <1>1, <1>2 DEF Begin

-----------------------------------------------------------------------------
(* Types and places *)

LEMMA TypedInit == Init => Typed
<1> SUFFICES ASSUME Init PROVE Typed
  OBVIOUS
<1>1. Filled(queue)
  BY FirstArray, GrownArray DEF Init, array_push, ArrayOK
<1>2. th \in [Thread -> Activity] /\ Places
  <2>1. Begin(First("none")) \in [sub : Bodies \cup {"none"}, line : 1 .. 4, log : Log]
    BY BeginTyped
  <2> QED BY <2>1, ThreadsAssumption
      DEF Init, Places, Place, Thread, Doing, Activity, Steps, Results, LoopSteps
<1>3. lex \in [Worker \cup {SubPad} -> [i : Nat, val : Int]]
  BY DEF Init
<1>4. lock \in [Worker -> Results \cup {"empty"}] /\ hist \in History
  BY DEF Init, History
<1>5. scalars \in [counter : Int, moved : Int]
  BY DEF Init
<1>6. started \in BOOLEAN
  BY DEF Init
<1> QED BY <1>1, <1>2, <1>3, <1>4, <1>5, <1>6 DEF Typed, TypeOK, Filled

\* The step of one thread.
Changes(t, r) == th' = [th EXCEPT ![t] = r]

LEMMA ThreadStep ==
    ASSUME Typed, NEW t \in Thread, NEW r \in Activity, Place(t, r), Changes(t, r)
    PROVE  th' \in [Thread -> Activity] /\ Places'
BY DEF Typed, TypeOK, Places, Changes, Place

\* For every action: the record that it makes of its thread's, and that it is
\* one a thread may have at that place.
LEMMA AsyncThread ==
    ASSUME Typed, Filled(queue), NEW t \in Worker, NEW body \in Bodies, Async(t, body)
    PROVE  th' \in [Thread -> Activity] /\ Places'
<1>1. t \in Thread /\ th[t] \in Activity /\ Place(t, th[t])
  BY DEF Typed, TypeOK, Places, Thread
<1>2. \E r \in Activity : Changes(t, r) /\ Place(t, r)
  <2> DEFINE r == Doing("enter", body)
  <2>1. Changes(t, r)
    BY <1>1 DEF Changes, Async, Doing
  <2>2. Begin(First(body)) \in [sub : Bodies \cup {"none"}, line : 1 .. 4, log : Log]
    BY BeginTyped
  <2>3. r \in Activity /\ Place(t, r)
    BY <1>1, <2>2, ThreadsAssumption
    DEF Activity, Steps, Place, Results, LoopSteps, Runs, Thread, Async, Doing
  <2> QED BY <2>1, <2>3
<1> QED BY <1>1, <1>2, ThreadStep

LEMMA PutThread ==
    ASSUME Typed, Filled(queue), NEW t \in Worker, Put(t)
    PROVE  th' \in [Thread -> Activity] /\ Places'
<1>1. t \in Thread /\ th[t] \in Activity /\ Place(t, th[t])
  BY DEF Typed, TypeOK, Places, Thread
<1>2. \E r \in Activity : Changes(t, r) /\ Place(t, r)
  <2> DEFINE r == [th[t] EXCEPT !.at = "dead"]
  <2>1. Changes(t, r)
    BY <1>1 DEF Changes, Goes, Put
  <2>2. r \in Activity /\ Place(t, r)
    BY <1>1, ThreadsAssumption
    DEF Activity, Steps, Place, Results, LoopSteps, Runs, Thread, Put
  <2> QED BY <2>1, <2>2
<1> QED BY <1>1, <1>2, ThreadStep

LEMMA JoinThread ==
    ASSUME Typed, Filled(queue), NEW t \in Thread, NEW u \in Worker, Join(t, u)
    PROVE  th' \in [Thread -> Activity] /\ Places'
<1>1. t \in Thread /\ th[t] \in Activity /\ Place(t, th[t])
  BY DEF Typed, TypeOK, Places, Thread
<1>2. \E r \in Activity : Changes(t, r) /\ Place(t, r)
  <2> DEFINE r == [th[t] EXCEPT !.at = "join", !.who = u]
  <2>1. Changes(t, r)
    BY <1>1 DEF Changes, Join
  <2>2. r \in Activity /\ Place(t, r)
    BY <1>1, ThreadsAssumption
    DEF Activity, Steps, Place, Results, LoopSteps, Runs, Thread, Join
  <2> QED BY <2>1, <2>2
<1> QED BY <1>1, <1>2, ThreadStep

LEMMA JoinReturnThread ==
    ASSUME Typed, Filled(queue), NEW t \in Thread, JoinReturn(t)
    PROVE  th' \in [Thread -> Activity] /\ Places'
<1>1. t \in Thread /\ th[t] \in Activity /\ Place(t, th[t])
  BY DEF Typed, TypeOK, Places, Thread
<1>2. \E r \in Activity : Changes(t, r) /\ Place(t, r)
  <2>1. CASE t = Main
    <3> DEFINE r == [th[t] EXCEPT !.at = "main", !.who = Nobody]
    <3>1. Changes(t, r)
      BY <1>1, <2>1 DEF Changes, JoinReturn, Joined, Leaves
    <3>2. r \in Activity /\ Place(t, r)
      BY <1>1, <2>1, ThreadsAssumption
      DEF Activity, Steps, Place, Results, LoopSteps, Runs, Thread, JoinReturn
    <3> QED BY <3>1, <3>2
  <2>2. CASE t # Main
    <3> DEFINE r == [th[t] EXCEPT !.at = "put", !.result = lock[th[t].who]]
    <3>1. Changes(t, r)
      BY <1>1, <2>2 DEF Changes, JoinReturn, Joined, Leaves
    <3>3. lock[th[t].who] \in Results
      BY <1>1 DEF Typed, TypeOK, Place, JoinReturn, Runs
    <3>2. r \in Activity /\ Place(t, r)
      BY <3>3, <1>1, <2>2, ThreadsAssumption
      DEF Activity, Steps, Place, Results, LoopSteps, Runs, Thread, JoinReturn
    <3> QED BY <3>1, <3>2
  <2> QED BY <2>1, <2>2
<1> QED BY <1>1, <1>2, ThreadStep

LEMMA KillThread ==
    ASSUME Typed, Filled(queue), NEW t \in Worker, Kill(t)
    PROVE  th' \in [Thread -> Activity] /\ Places'
<1>1. t \in Thread /\ th[t] \in Activity /\ Place(t, th[t])
  BY DEF Typed, TypeOK, Places, Thread
<1>2. \E r \in Activity : Changes(t, r) /\ Place(t, r)
  <2> DEFINE b == Begin(First(th[t].body))
             r == [th[t] EXCEPT !.at = "killed", !.block = b]
  <2>1. Changes(t, r)
    BY <1>1 DEF Changes, GoesAfresh, Kill
  <2>2. b \in [sub : Bodies \cup {"none"}, line : 1 .. 4, log : Log]
    BY <1>1, BeginTyped DEF Activity
  <2> HIDE DEF b
  <2>4. /\ r.at = "killed" /\ t # Main /\ "killed" \in Steps
        /\ r \in Activity
    BY <1>1, <2>2, ThreadsAssumption DEF Activity, Steps
  <2>3. r \in Activity /\ Place(t, r)
    BY <2>4 DEF Place, LoopSteps
  <2> QED BY <2>1, <2>3
<1> QED BY <1>1, <1>2, ThreadStep

LEMMA EnterSubThread ==
    ASSUME Typed, Filled(queue), NEW t \in Worker, EnterSub(t)
    PROVE  th' \in [Thread -> Activity] /\ Places'
<1>1. t \in Thread /\ th[t] \in Activity /\ Place(t, th[t])
  BY DEF Typed, TypeOK, Places, Thread
<1>2. \E r \in Activity : Changes(t, r) /\ Place(t, r)
  <2>1. CASE started
    <3> DEFINE r == [th[t] EXCEPT !.at = "init", !.pad = t]
    <3>1. Changes(t, r)
      BY <1>1, <2>1 DEF Changes, EnterSub
    <3>2. r \in Activity /\ Place(t, r)
      BY <1>1, <2>1, ThreadsAssumption
      DEF Activity, Steps, Place, Results, LoopSteps, Runs, Thread, Looping, EnterSub, Looping
    <3> QED BY <3>1, <3>2
  <2>2. CASE ~started
    <3> DEFINE r == [th[t] EXCEPT !.at = "reclose"]
    <3>1. Changes(t, r)
      BY <1>1, <2>2 DEF Changes, EnterSub
    <3>2. r \in Activity /\ Place(t, r)
      BY <1>1, <2>2, ThreadsAssumption
      DEF Activity, Steps, Place, Results, LoopSteps, Runs, Thread, Looping, EnterSub, Looping
    <3> QED BY <3>1, <3>2
  <2> QED BY <2>1, <2>2
<1> QED BY <1>1, <1>2, ThreadStep

LEMMA RecloseThread ==
    ASSUME Typed, Filled(queue), NEW t \in Worker, Reclose(t)
    PROVE  th' \in [Thread -> Activity] /\ Places'
<1>1. t \in Thread /\ th[t] \in Activity /\ Place(t, th[t])
  BY DEF Typed, TypeOK, Places, Thread
<1>2. \E r \in Activity : Changes(t, r) /\ Place(t, r)
  <2> DEFINE r == [th[t] EXCEPT !.at = "init", !.pad = SubPad]
  <2>1. Changes(t, r)
    BY <1>1 DEF Changes, Reclose
  <2>2. r \in Activity /\ Place(t, r)
    BY <1>1, ThreadsAssumption
    DEF Activity, Steps, Place, Results, LoopSteps, Runs, Thread, Reclose
  <2> QED BY <2>1, <2>2
<1> QED BY <1>1, <1>2, ThreadStep

LEMMA LoopInitThread ==
    ASSUME Typed, Filled(queue), NEW t \in Worker, LoopInit(t)
    PROVE  th' \in [Thread -> Activity] /\ Places'
<1>1. t \in Thread /\ th[t] \in Activity /\ Place(t, th[t])
  BY DEF Typed, TypeOK, Places, Thread
<1>2. \E r \in Activity : Changes(t, r) /\ Place(t, r)
  <2> DEFINE r == [th[t] EXCEPT !.at = "test"]
  <2>1. Changes(t, r)
    BY <1>1 DEF Changes, Goes, LoopInit
  <2>2. r \in Activity /\ Place(t, r)
    BY <1>1, ThreadsAssumption
    DEF Activity, Steps, Place, Results, LoopSteps, Runs, Thread, LoopInit
  <2> QED BY <2>1, <2>2
<1> QED BY <1>1, <1>2, ThreadStep

LEMMA LoopTestThread ==
    ASSUME Typed, Filled(queue), NEW t \in Worker, LoopTest(t)
    PROVE  th' \in [Thread -> Activity] /\ Places'
<1>1. t \in Thread /\ th[t] \in Activity /\ Place(t, th[t])
  BY DEF Typed, TypeOK, Places, Thread
<1>2. \E r \in Activity : Changes(t, r) /\ Place(t, r)
  <2>1. CASE Lexicals(t).i < Rounds
    <3> DEFINE r == [th[t] EXCEPT !.at = "body"]
    <3>1. Changes(t, r)
      BY <1>1, <2>1 DEF Changes, Goes, LoopTest, Leaves
    <3>2. r \in Activity /\ Place(t, r)
      BY <1>1, <2>1, ThreadsAssumption
      DEF Activity, Steps, Place, Results, LoopSteps, Runs, Thread, LoopTest
    <3> QED BY <3>1, <3>2
  <2>2. CASE ~(Lexicals(t).i < Rounds)
    <3> DEFINE r == [th[t] EXCEPT !.at = "put", !.result = "value"]
    <3>1. Changes(t, r)
      BY <1>1, <2>2 DEF Changes, Goes, LoopTest, Leaves
    <3>2. r \in Activity /\ Place(t, r)
      BY <1>1, <2>2, ThreadsAssumption
      DEF Activity, Steps, Place, Results, LoopSteps, Runs, Thread, LoopTest
    <3> QED BY <3>1, <3>2
  <2> QED BY <2>1, <2>2
<1> QED BY <1>1, <1>2, ThreadStep

LEMMA LoopNextThread ==
    ASSUME Typed, Filled(queue), NEW t \in Worker, LoopNext(t)
    PROVE  th' \in [Thread -> Activity] /\ Places'
<1>1. t \in Thread /\ th[t] \in Activity /\ Place(t, th[t])
  BY DEF Typed, TypeOK, Places, Thread
<1>2. \E r \in Activity : Changes(t, r) /\ Place(t, r)
  <2> DEFINE r == [th[t] EXCEPT !.at = "test"]
  <2>1. Changes(t, r)
    BY <1>1 DEF Changes, Goes, LoopNext
  <2>2. r \in Activity /\ Place(t, r)
    BY <1>1, ThreadsAssumption
    DEF Activity, Steps, Place, Results, LoopSteps, Runs, Thread, LoopNext
  <2> QED BY <2>1, <2>2
<1> QED BY <1>1, <1>2, ThreadStep

LEMMA PushThread ==
    ASSUME Typed, Filled(queue), NEW t \in Worker, Push(t)
    PROVE  th' \in [Thread -> Activity] /\ Places'
<1>1. t \in Thread /\ th[t] \in Activity /\ Place(t, th[t])
  BY DEF Typed, TypeOK, Places, Thread
<1>2. \E r \in Activity : Changes(t, r) /\ Place(t, r)
  <2> DEFINE r == [th[t] EXCEPT !.at = "put", !.result = "value"]
  <2>1. Changes(t, r)
    BY <1>1 DEF Changes, Push, Leaves
  <2>2. r \in Activity /\ Place(t, r)
    BY <1>1, ThreadsAssumption
    DEF Activity, Steps, Place, Results, LoopSteps, Runs, Thread, Push
  <2> QED BY <2>1, <2>2
<1> QED BY <1>1, <1>2, ThreadStep

LEMMA RemoveNothingThread ==
    ASSUME Typed, Filled(queue), NEW t \in Worker, RemoveNothing(t)
    PROVE  th' \in [Thread -> Activity] /\ Places'
<1>1. t \in Thread /\ th[t] \in Activity /\ Place(t, th[t])
  BY DEF Typed, TypeOK, Places, Thread
<1>2. \E r \in Activity : Changes(t, r) /\ Place(t, r)
  <2> DEFINE r == [th[t] EXCEPT !.at = "put", !.result = undef]
  <2>1. Changes(t, r)
    BY <1>1 DEF Changes, RemoveNothing, Leaves
  <2>2. r \in Activity /\ Place(t, r)
    BY <1>1, ThreadsAssumption
    DEF Activity, Steps, Place, Results, LoopSteps, Runs, Thread, RemoveNothing
  <2> QED BY <2>1, <2>2
<1> QED BY <1>1, <1>2, ThreadStep

LEMMA ReadIVarThread ==
    ASSUME Typed, Filled(queue), NEW t \in Worker, ReadIVar(t)
    PROVE  th' \in [Thread -> Activity] /\ Places'
<1>1. t \in Thread /\ th[t] \in Activity /\ Place(t, th[t])
  BY DEF Typed, TypeOK, Places, Thread
<1>2. \E r \in Activity : Changes(t, r) /\ Place(t, r)
  <2> DEFINE r == [th[t] EXCEPT !.at = "put",
                        !.result = IF queue.val[th[t].tmp] = undef THEN undef ELSE "value"]
  <2>1. Changes(t, r)
    BY <1>1 DEF Changes, ReadIVar, Leaves
  <2>2. r \in Activity /\ Place(t, r)
    BY <1>1, ThreadsAssumption, ZenonT(60)
    DEF Activity, Steps, Place, Results, LoopSteps, Runs, Thread, ReadIVar
  <2> QED BY <2>1, <2>2
<1> QED BY <1>1, <1>2, ThreadStep

LEMMA FetchElemThread ==
    ASSUME Typed, Filled(queue), NEW t \in Worker, FetchElem(t)
    PROVE  th' \in [Thread -> Activity] /\ Places'
<1>1. t \in Thread /\ th[t] \in Activity /\ Place(t, th[t])
  BY DEF Typed, TypeOK, Places, Thread
<1>2. \E r \in Activity : Changes(t, r) /\ Place(t, r)
  <2>1. CASE getArrayIndex(queue, Index) # 0
    <3> DEFINE r == [th[t] EXCEPT !.at = "assign", !.tmp = getArrayIndex(queue, Index)]
    <3>1. Changes(t, r)
      BY <1>1, <2>1 DEF Changes, Goes, FetchElem, GoesWith
    <3>3. getArrayIndex(queue, Index) \in Int
      BY IndexFound
    <3>2. r \in Activity /\ Place(t, r)
      BY <3>3, <1>1, <2>1, ThreadsAssumption
      DEF Activity, Steps, Place, Results, LoopSteps, Runs, Thread, FetchElem
    <3> QED BY <3>1, <3>2
  <2>2. CASE getArrayIndex(queue, Index) = 0
    <3> DEFINE r == [th[t] EXCEPT !.at = "extend"]
    <3>1. Changes(t, r)
      BY <1>1, <2>2 DEF Changes, Goes, FetchElem, GoesWith
    <3>2. r \in Activity /\ Place(t, r)
      BY <1>1, <2>2, ThreadsAssumption
      DEF Activity, Steps, Place, Results, LoopSteps, Runs, Thread, FetchElem
    <3> QED BY <3>1, <3>2
  <2> QED BY <2>1, <2>2
<1> QED BY <1>1, <1>2, ThreadStep

LEMMA ExtendThread ==
    ASSUME Typed, Filled(queue), NEW t \in Worker, Extend(t)
    PROVE  th' \in [Thread -> Activity] /\ Places'
<1>1. t \in Thread /\ th[t] \in Activity /\ Place(t, th[t])
  BY DEF Typed, TypeOK, Places, Thread
<1>2. \E r \in Activity : Changes(t, r) /\ Place(t, r)
  <2> DEFINE r == [th[t] EXCEPT !.at = "again"]
  <2>1. Changes(t, r)
    BY <1>1 DEF Changes, Goes, Extend
  <2>2. r \in Activity /\ Place(t, r)
    BY <1>1, ThreadsAssumption
    DEF Activity, Steps, Place, Results, LoopSteps, Runs, Thread, Extend
  <2> QED BY <2>1, <2>2
<1> QED BY <1>1, <1>2, ThreadStep

LEMMA FetchAgainThread ==
    ASSUME Typed, Filled(queue), NEW t \in Worker, FetchAgain(t)
    PROVE  th' \in [Thread -> Activity] /\ Places'
<1>1. t \in Thread /\ th[t] \in Activity /\ Place(t, th[t])
  BY DEF Typed, TypeOK, Places, Thread
<1>2. \E r \in Activity : Changes(t, r) /\ Place(t, r)
  <2>1. CASE getArrayIndex(queue, Index) # 0
    <3> DEFINE r == [th[t] EXCEPT !.at = "assign", !.tmp = getArrayIndex(queue, Index)]
    <3>1. Changes(t, r)
      BY <1>1, <2>1 DEF Changes, Goes, FetchAgain, GoesWith, Leaves
    <3>3. getArrayIndex(queue, Index) \in Int
      BY IndexFound
    <3>2. r \in Activity /\ Place(t, r)
      BY <3>3, <1>1, <2>1, ThreadsAssumption
      DEF Activity, Steps, Place, Results, LoopSteps, Runs, Thread, FetchAgain
    <3> QED BY <3>1, <3>2
  <2>2. CASE getArrayIndex(queue, Index) = 0
    <3> DEFINE r == [th[t] EXCEPT !.at = "put", !.result = "error"]
    <3>1. Changes(t, r)
      BY <1>1, <2>2 DEF Changes, Goes, FetchAgain, GoesWith, Leaves
    <3>2. r \in Activity /\ Place(t, r)
      BY <1>1, <2>2, ThreadsAssumption
      DEF Activity, Steps, Place, Results, LoopSteps, Runs, Thread, FetchAgain
    <3> QED BY <3>1, <3>2
  <2> QED BY <2>1, <2>2
<1> QED BY <1>1, <1>2, ThreadStep

LEMMA AssignThread ==
    ASSUME Typed, Filled(queue), NEW t \in Worker, Assign(t)
    PROVE  th' \in [Thread -> Activity] /\ Places'
<1>1. t \in Thread /\ th[t] \in Activity /\ Place(t, th[t])
  BY DEF Typed, TypeOK, Places, Thread
<1>2. \E r \in Activity : Changes(t, r) /\ Place(t, r)
  <2> DEFINE r == [th[t] EXCEPT !.at = "put", !.result = "value"]
  <2>1. Changes(t, r)
    BY <1>1 DEF Changes, Assign, Leaves
  <2>2. r \in Activity /\ Place(t, r)
    BY <1>1, ThreadsAssumption
    DEF Activity, Steps, Place, Results, LoopSteps, Runs, Thread, Assign
  <2> QED BY <2>1, <2>2
<1> QED BY <1>1, <1>2, ThreadStep

LEMMA RemoveThread ==
    ASSUME Typed, ArrayOK(queue), NEW t \in Worker, Remove(t)
    PROVE  th' \in [Thread -> Activity] /\ Places'
<1> DEFINE c == IF th[t].body = "shift" THEN Head(queue.elems) ELSE queue.elems[a_size(queue)]
<1>1. c \in Int
  <2>1. Members(queue.elems) \subseteq Nat
    BY ElementOfSeq DEF Members, ArrayOK, Filled
  <2>2. c \in Members(queue.elems)
    BY ShiftedArray, PoppedArray DEF Remove
  <2> QED BY <2>1, <2>2
<1>2. th' = [u \in Thread |->
               IF u = t THEN [th[u] EXCEPT !.at = "readIVar", !.tmp = c]
               ELSE IF u \in Again THEN [th[u] EXCEPT !.raced = TRUE] ELSE th[u]]
  BY DEF Remove
<1> HIDE DEF c
<1>3. ASSUME NEW u \in Thread PROVE th'[u] \in Activity /\ Place(u, th'[u])
  <2>1. th[u] \in Activity /\ Place(u, th[u])
    BY DEF Typed, TypeOK, Places
  <2>2. CASE u = t
    <3>1. th'[u] = [th[u] EXCEPT !.at = "readIVar", !.tmp = c]
      BY <1>2, <2>2
    <3>2. th[t].body \in {"shift", "pop"}
      BY DEF Remove
    <3> QED BY ZenonT(40), <2>1, <2>2, <3>1, <3>2, <1>1, ThreadsAssumption DEF Activity, Steps, Place, LoopSteps
  <2>3. CASE u # t /\ u \in Again
    <3>1. th'[u] = [th[u] EXCEPT !.raced = TRUE]
      BY <1>2, <2>3
    <3> QED BY <2>1, <3>1 DEF Activity, Place
  <2>4. CASE u # t /\ u \notin Again
    BY <1>2, <2>1, <2>4
  <2> QED BY <2>2, <2>3, <2>4
<1> QED BY <1>2, <1>3 DEF Places

Shared ==
    /\ scalars \in [counter : Int, moved : Int]
    /\ started \in BOOLEAN
    /\ lex \in [Worker \cup {SubPad} -> [i : Nat, val : Int]]
    /\ lock \in [Worker -> Results \cup {"empty"}]
    /\ hist \in History

\* What threads share keeps its types.
LEMMA SharedKept ==
    ASSUME Shared, UNCHANGED <<scalars, started, lex, lock, hist>>
    PROVE  Shared'
BY DEF Shared

LEMMA PadKnown ==
    ASSUME Typed, NEW t \in Worker, th[t].at \in LoopSteps
    PROVE  th[t].pad \in Worker \cup {SubPad} /\ lex[th[t].pad] \in [i : Nat, val : Int]
<1>1. Place(t, th[t]) /\ t # Main
  BY ThreadsAssumption DEF Typed, Places, Thread
<1> QED BY <1>1 DEF Typed, TypeOK, Place

LEMMA SetLexTyped ==
    ASSUME Typed, NEW t \in Worker, th[t].at \in LoopSteps, NEW field \in {"i", "val"}, NEW n,
           IF field = "i" THEN n \in Nat ELSE n \in Int, SetLex(t, field, n)
    PROVE  lex' \in [Worker \cup {SubPad} -> [i : Nat, val : Int]]
<1> DEFINE p == th[t].pad
           r == [lex[p] EXCEPT ![field] = n]
<1>1. p \in Worker \cup {SubPad} /\ lex[p] \in [i : Nat, val : Int]
  BY PadKnown
<1>2. lex' = [lex EXCEPT ![p] = r]
  BY DEF SetLex
<1>3. r \in [i : Nat, val : Int]
  BY <1>1
<1> HIDE DEF p, r
<1> QED BY <1>1, <1>2, <1>3 DEF Typed, TypeOK

LEMMA FillTyped ==
    ASSUME Shared, NEW u \in Worker, NEW v \in Results, tryPutTMVar(u, v)
    PROVE  lock' \in [Worker -> Results \cup {"empty"}]
BY DEF Shared, tryPutTMVar

LEMMA PutShared ==
    ASSUME Typed, NEW t \in Worker, Put(t)
    PROVE  Shared'
<1>1. Shared
  BY DEF Typed, TypeOK, Shared
<1>2. th[t].result \in Results
  BY ThreadsAssumption DEF Typed, Places, Place, Put, Runs, Thread
<1>3. tryPutTMVar(t, th[t].result) /\ UNCHANGED <<scalars, started, lex, hist>>
  BY DEF Put
<1> QED BY <1>1, <1>2, <1>3, FillTyped DEF Shared

LEMMA JoinReturnShared ==
    ASSUME Typed, NEW t \in Thread, JoinReturn(t)
    PROVE  Shared'
<1> DEFINE u == th[t].who
<1>1. Shared
  BY DEF Typed, TypeOK, Shared
<1>2. u \in Worker
  BY DEF Typed, Places, Place, JoinReturn, Runs
<1>3. lock[u] \in Results
  BY <1>1, <1>2 DEF Shared, JoinReturn
<1>4. /\ lock' = [lock EXCEPT ![u] = "empty"] /\ UNCHANGED <<scalars, started, lex>>
      /\ hist' = [hist EXCEPT !.joins[u] = @ + 1, !.got[u] = @ \cup {lock[u]}]
  BY DEF JoinReturn, Joined
<1> HIDE DEF u
<1>5. hist' \in History
  <2>1. /\ hist \in History /\ hist.joins \in [Worker -> Nat]
        /\ hist.got \in [Worker -> SUBSET Results]
    BY <1>1 DEF Shared, History
  <2>2. PICK j, g : /\ j = [hist.joins EXCEPT ![u] = @ + 1]
                    /\ g = [hist.got EXCEPT ![u] = @ \cup {lock[u]}]
    OBVIOUS
  <2>3. j \in [Worker -> Nat] /\ g \in [Worker -> SUBSET Results]
    BY <2>1, <2>2, <1>2, <1>3
  <2>4. hist' = [hist EXCEPT !.joins = j, !.got = g]
    BY <2>2, <1>4
  <2> QED BY <2>1, <2>3, <2>4 DEF History
<1> QED BY <1>1, <1>2, <1>4, <1>5 DEF Shared

LEMMA DetachShared ==
    ASSUME Typed, NEW u \in Worker, Detach(u)
    PROVE  Shared'
<1>1. Shared
  BY DEF Typed, TypeOK, Shared
<1>2. /\ tryPutTMVar(u, undef) /\ UNCHANGED <<scalars, started, lex>>
      /\ hist' = [hist EXCEPT !.detached[u] = @ + 1]
  BY DEF Detach
<1>3. hist' \in History
  <2>1. hist \in History /\ hist.detached \in [Worker -> Nat]
    BY <1>1 DEF Shared, History
  <2>2. PICK n : n = [hist.detached EXCEPT ![u] = @ + 1]
    OBVIOUS
  <2>3. n \in [Worker -> Nat]
    BY <2>1, <2>2
  <2>4. hist' = [hist EXCEPT !.detached = n]
    BY <2>2, <1>2
  <2> QED BY <2>1, <2>3, <2>4 DEF History
<1> QED BY <1>1, <1>2, <1>3, FillTyped DEF Shared, Results

LEMMA LoopShared ==
    ASSUME Typed, NEW t \in Worker, LoopInit(t) \/ LoopNext(t)
    PROVE  Shared'
<1>1. Shared
  BY DEF Typed, TypeOK, Shared
<1>2. /\ th[t].at \in LoopSteps /\ UNCHANGED <<scalars, started, lock>>
      /\ SetLex(t, "i", 0) \/ SetLex(t, "i", Lexicals(t).i + 1)
  BY DEF LoopInit, LoopNext, Runs, LoopSteps
<1>3. lex' \in [Worker \cup {SubPad} -> [i : Nat, val : Int]]
  <2>1. Lexicals(t).i + 1 \in Nat
    <3>1. lex[th[t].pad] \in [i : Nat, val : Int]
      BY <1>2, PadKnown
    <3> QED BY <3>1 DEF Lexicals
  <2> QED BY <2>1, <1>2, SetLexTyped
<1>4. hist' \in History
  <2>1. hist \in History /\ hist.done \in [Worker \cup {SubPad} -> Nat] /\ th[t].pad \in Worker \cup {SubPad}
    BY <1>1, <1>2, PadKnown DEF Shared, History
  <2>2. PICK n : n = [hist.done EXCEPT ![th[t].pad] = @ + 1]
    OBVIOUS
  <2>3. n \in [Worker \cup {SubPad} -> Nat]
    BY <2>1, <2>2
  <2>4. hist' = hist \/ hist' = [hist EXCEPT !.done = n]
    BY <2>2 DEF LoopInit, LoopNext
  <2> QED BY <2>1, <2>3, <2>4 DEF History
<1> QED BY <1>1, <1>2, <1>3, <1>4 DEF Shared

LEMMA RemoveShared ==
    ASSUME Typed, ArrayOK(queue), NEW t \in Worker, Remove(t)
    PROVE  Shared'
<1>1. Shared
  BY DEF Typed, TypeOK, Shared
<1>2. PICK c : /\ c \in Members(queue.elems)
               /\ hist' = [hist EXCEPT !.taken = @ \cup {<<c, t>>}]
  BY ShiftedArray, PoppedArray DEF Remove
<1>3. c \in Nat
  BY <1>2, ElementOfSeq DEF Members, ArrayOK, Filled
<1>4. hist' \in History
  <2>1. hist \in History /\ hist.taken \in SUBSET (Nat \X Worker) /\ <<c, t>> \in Nat \X Worker
    BY <1>1, <1>3 DEF Shared, History
  <2>2. PICK n : n = hist.taken \cup {<<c, t>>}
    OBVIOUS
  <2>3. n \in SUBSET (Nat \X Worker)
    BY <2>1, <2>2
  <2>4. hist' = [hist EXCEPT !.taken = n]
    BY <1>2, <2>2
  <2> QED BY <2>1, <2>3, <2>4 DEF History
<1> QED BY <1>1, <1>4 DEF Remove, Shared

-----------------------------------------------------------------------------
(* Steps in a block *)

BlockStep(t) == Fetch(t) \/ Store(t) \/ OrDefer(t) \/ Wake(t) \/ Restart(t) \/ EndBlock(t)

\* What thread t is and was in a block; r is what it becomes.
LEMMA InBlockPlace ==
    ASSUME Typed, NEW t \in Worker, th[t].at \in InBlock
    PROVE  /\ th[t] \in Activity /\ t \in Thread /\ t # Main /\ th[t].body \in LoopBodies
           /\ th[t].pad \in Worker \cup {SubPad} /\ lex[th[t].pad] \in [i : Nat, val : Int]
           /\ th[t].block \in [sub : Bodies \cup {"none"}, line : 1 .. 4, log : Log]
<1>1. th[t] \in Activity /\ t \in Thread /\ t # Main /\ Place(t, th[t])
  BY ThreadsAssumption DEF Typed, TypeOK, Places, Thread
<1>2. InBlock \subseteq LoopSteps
  BY DEF InBlock, LoopSteps
<1>3. th[t].body \in LoopBodies /\ th[t].pad \in Worker \cup {SubPad}
  BY <1>1, <1>2 DEF Place
<1>4. th[t].block \in [sub : Bodies \cup {"none"}, line : 1 .. 4, log : Log]
  BY <1>1 DEF Activity
<1> QED BY <1>1, <1>3, <1>4 DEF Typed, TypeOK

LEMMA TVarsTyped ==
    ASSUME Typed, NEW t \in Worker, th[t].at \in InBlock
    PROVE  /\ TVars(t) \in [Var -> Int] /\ AsNow(t) \in [Var -> Int]
           /\ TVars(t)["counter"] = scalars.counter /\ TVars(t)["moved"] = scalars.moved
           /\ \A v \in Var : AsNow(t)[v] = IF v \in LogOf(t).known THEN LogOf(t).now[v]
                                           ELSE TVars(t)[v]
<1>1. /\ lex[th[t].pad] \in [i : Nat, val : Int]
      /\ th[t].block \in [sub : Bodies \cup {"none"}, line : 1 .. 4, log : Log]
  BY InBlockPlace
<1>2. scalars \in [counter : Int, moved : Int]
  BY DEF Typed, TypeOK
<1>3. TVars(t) \in [Var -> Int]
  BY <1>1, <1>2 DEF TVars, Lexicals, Var
<1>4. LogOf(t).now \in [Var -> Int]
  BY <1>1 DEF LogOf, Log
<1>5. AsNow(t) \in [Var -> Int]
  BY <1>3, <1>4 DEF AsNow
<1>6. TVars(t)["counter"] = scalars.counter /\ TVars(t)["moved"] = scalars.moved
  BY DEF TVars, Var
<1> QED BY <1>3, <1>5, <1>6 DEF AsNow

LEMMA NotedLog ==
    ASSUME Typed, NEW t \in Worker, th[t].at \in InBlock, NEW v \in Var, NEW x \in Int,
           NEW log, log = LogOf(t), NEW new, new = Noted(t, v, x)
    PROVE  /\ new \in Log /\ new.known = log.known \cup {v} /\ new.now[v] = x
           /\ \A w \in Var : w # v => new.now[w] = log.now[w]
           /\ \A w \in Var : w # v \/ v \in log.known => new.seen[w] = log.seen[w]
           /\ v \notin log.known => new.seen[v] = TVars(t)[v]
<1>1. LogOf(t) \in Log
  BY InBlockPlace DEF LogOf
<1>2. TVars(t) \in [Var -> Int]
  BY TVarsTyped
<1>3. PICK known \in SUBSET Var, seen \in [Var -> Int], now \in [Var -> Int] :
        log = [known |-> known, seen |-> seen, now |-> now]
  BY <1>1 DEF Log
<1>5. /\ new.known = known \cup {v} /\ new.now = [now EXCEPT ![v] = x]
      /\ new.seen = IF v \in known THEN seen ELSE [seen EXCEPT ![v] = TVars(t)[v]]
      /\ new = [known |-> new.known, seen |-> new.seen, now |-> new.now]
  BY <1>3 DEF Noted
<1>6. new.now \in [Var -> Int] /\ new.seen \in [Var -> Int]
  BY <1>2, <1>5
<1>7. new \in Log
  BY <1>5, <1>6 DEF Log
<1>8. /\ new.now[v] = x /\ \A w \in Var : w # v => new.now[w] = now[w]
      /\ \A w \in Var : w # v \/ v \in known => new.seen[w] = seen[w]
      /\ v \notin known => new.seen[v] = TVars(t)[v]
  BY <1>5
<1> QED BY <1>3, <1>5, <1>7, <1>8

\* t becomes r, which stands in the same body, pad and so on.
Becomes(t, r) ==
    /\ r \in Activity /\ Changes(t, r)
    /\ r.body = th[t].body /\ r.pad = th[t].pad
    /\ r.who = th[t].who /\ r.raced = th[t].raced

\* Where a block has an assignment, and what it is.
Assigning(a) ==
    LET line == a.block.line
    IN  Code(a.block.sub)[line] =
          CASE a.block.sub \in {"contend", "plain"} /\ line = 1 -> Set("val", "counter", 0)
            [] a.block.sub \in {"contend", "plain"} /\ line = 2 -> Set("counter", "val", 1)
            [] a.block.sub = "++" /\ line = 1 -> Set("counter", "counter", 1)
            [] a.block.sub \in {"defer", "die"} /\ line = 1 -> Set("counter", "counter", -1)
            [] a.block.sub = "defer" /\ line = 3 -> Set("moved", "moved", 1)
            [] a.block.sub = "defer" /\ line = 2 -> Op("defer")
            [] a.block.sub = "die" /\ line = 2 -> Op("die")
            [] OTHER -> Op("end")

LEMMA LineKnown ==
    ASSUME NEW a, a.at \in InBlock, BlockOK(a)
    PROVE  Assigning(a)
<1>1. Plainly(a) \/ Contending(a) \/ Incrementing(a) \/ Moving(a) \/ Dying(a)
  BY DEF BlockOK
<1>2. CASE Plainly(a) \/ Contending(a)
  BY <1>2, Lines DEF Plainly, Contending, Assigning
<1>3. CASE Incrementing(a)
  BY <1>3, Lines DEF Incrementing, Assigning
<1>4. CASE Moving(a)
  BY <1>4, Lines DEF Moving, Assigning
<1>5. CASE Dying(a)
  BY <1>5, Lines DEF Dying, Assigning
<1> QED BY <1>1, <1>2, <1>3, <1>4, <1>5

\* What a block comes to know by reading and writing, if it is atomic.
LEMMA LogAfter ==
    ASSUME Typed, NEW t \in Worker, th[t].at \in InBlock, NEW v \in Var, NEW x \in Int,
           NEW log, log = LogOf(t), NEW new, new = IF Atomic(t) THEN Noted(t, v, x) ELSE log
    PROVE  /\ new \in Log
           /\ th[t].body = "plain" => new = log
           /\ th[t].body # "plain" =>
                /\ new.known = log.known \cup {v} /\ new.now[v] = x
                /\ \A w \in Var : w # v => new.now[w] = log.now[w]
                /\ \A w \in Var : w # v \/ v \in log.known => new.seen[w] = log.seen[w]
                /\ v \notin log.known => new.seen[v] = TVars(t)[v]
<1>1. LogOf(t) \in Log
  BY InBlockPlace DEF LogOf
<1>2. CASE th[t].body = "plain"
  BY <1>1, <1>2 DEF Atomic
<1>3. CASE th[t].body # "plain"
  <2>1. new = Noted(t, v, x)
    BY <1>3 DEF Atomic
  <2> QED BY <1>3, <2>1, NotedLog
<1> QED BY <1>2, <1>3

LEMMA BlockKinds ==
    ASSUME BlockInv, NEW t \in Worker, th[t].at \in InBlock
    PROVE  /\ \/ Plainly(th[t]) \/ Contending(th[t]) \/ Incrementing(th[t])
              \/ Moving(th[t]) \/ Dying(th[t])
           /\ Assigning(th[t])
BY LineKnown DEF BlockInv, BlockOK

LEMMA FetchStep ==
    ASSUME Typed, BlockInv, NEW t \in Worker, Fetch(t)
    PROVE  \E r : Becomes(t, r) /\ r.at = "store" /\ r.result = th[t].result /\ BlockOK(r)
<1>1. th[t].at = "body" /\ th[t].at \in InBlock /\ Line(t).op = "="
  BY DEF Fetch, Runs, InBlock
<1>2. Plainly(th[t]) \/ Contending(th[t]) \/ Incrementing(th[t]) \/ Moving(th[t]) \/ Dying(th[t])
  BY <1>1, BlockKinds
<1>3. PICK line, sub, log : line = th[t].block.line /\ sub = th[t].block.sub /\ log = LogOf(t)
  OBVIOUS
<1>4. \/ sub \in {"contend", "plain"} /\ line = 1 /\ Line(t) = Set("val", "counter", 0)
      \/ sub \in {"contend", "plain"} /\ line = 2 /\ Line(t) = Set("counter", "val", 1)
      \/ sub = "++" /\ line = 1 /\ Line(t) = Set("counter", "counter", 1)
      \/ sub \in {"defer", "die"} /\ line = 1 /\ Line(t) = Set("counter", "counter", -1)
      \/ sub = "defer" /\ line = 3 /\ Line(t) = Set("moved", "moved", 1)
  <2>1. Assigning(th[t])
    BY <1>1, BlockKinds
  <2>2. Op("defer").op = "defer" /\ Op("die").op = "die" /\ Op("end").op = "end"
    BY DEF Op
  <2> QED BY <1>1, <1>3, <2>1, <2>2 DEF Assigning, Line
<1>5. PICK from \in Var, add \in Int : from = Line(t).from /\ add = Line(t).add
  BY <1>4 DEF Set, Var
<1>6. PICK x \in Int : x = AsNow(t)[from]
  BY <1>1, TVarsTyped
<1>7. x = IF from \in log.known THEN log.now[from] ELSE TVars(t)[from]
  BY <1>1, <1>3, <1>6, TVarsTyped
<1>8. PICK new : new = IF Atomic(t) THEN Noted(t, from, x) ELSE log
  OBVIOUS
<1>9. /\ new \in Log
      /\ th[t].body = "plain" => new = log
      /\ th[t].body # "plain" =>
           /\ new.known = log.known \cup {from} /\ new.now[from] = x
           /\ \A w \in Var : w # from => new.now[w] = log.now[w]
           /\ \A w \in Var : w # from \/ from \in log.known => new.seen[w] = log.seen[w]
           /\ from \notin log.known => new.seen[from] = TVars(t)[from]
  BY <1>1, <1>3, <1>8, LogAfter
<1> DEFINE r == [th[t] EXCEPT !.at = "store", !.tmp = x + add, !.block.log = new]
<1>10. th[t] \in Activity
       /\ th[t].block \in [sub : Bodies \cup {"none"}, line : 1 .. 4, log : Log]
  BY <1>1, InBlockPlace
<1>11. /\ r.at = "store" /\ r.tmp = x + add /\ r.body = th[t].body /\ r.result = th[t].result
       /\ r.block.sub = sub /\ r.block.line = line /\ r.block.log = new
  BY <1>3, <1>10 DEF Activity
<1>12. Becomes(t, r)
  <2>1. r.block \in [sub : Bodies \cup {"none"}, line : 1 .. 4, log : Log]
    BY <1>9, <1>10 DEF Activity
  <2>2. x + add \in Int /\ "store" \in Steps
    BY DEF Steps
  <2>3. r \in Activity
    BY <1>10, <2>1, <2>2 DEF Activity
  <2>4. Changes(t, r)
    BY <1>3, <1>5, <1>6, <1>8 DEF Changes, Fetch, readTVar, LogOf
  <2> QED BY <1>10, <2>3, <2>4 DEF Becomes, Activity
<1>13. BlockOK(r)
  <2> HIDE DEF r
  <2>1. log = th[t].block.log
    BY <1>3 DEF LogOf
  <2>2. \/ sub \in {"contend", "plain"} /\ line = 1 /\ from = "counter" /\ add = 0
        \/ sub \in {"contend", "plain"} /\ line = 2 /\ from = "val" /\ add = 1
        \/ sub = "++" /\ line = 1 /\ from = "counter" /\ add = 1
        \/ sub \in {"defer", "die"} /\ line = 1 /\ from = "counter" /\ add = -1
        \/ sub = "defer" /\ line = 3 /\ from = "moved" /\ add = 1
    BY <1>4, <1>5 DEF Set
  <2>3. \A w \in Var : log.now[w] \in Int /\ log.seen[w] \in Int
    BY <1>10, <2>1 DEF Log
  <2>4. CASE Plainly(th[t])
    BY <2>4, <1>1, <1>3, <1>9, <1>11, <2>1, <2>2 DEF Plainly, BlockOK, InBlock
  <2>5. CASE Contending(th[t])
    <3>1. Contending(r)
      <4>1. CASE line = 1
        <5>1. /\ from = "counter" /\ add = 0 /\ log = NewLog /\ log.known = {}
          BY <4>1, <2>5, <1>1, <1>3, <2>1, <2>2 DEF Contending, NewLog
        <5> QED BY <4>1, <5>1, <2>5, <1>1, <1>3, <1>7, <1>9, <1>11, <2>1 DEF Contending, Var
      <4>2. CASE line = 2
        BY <4>2, <2>5, <1>1, <1>3, <1>7, <1>9, <1>11, <2>1, <2>2, SMTT(30) DEF Contending, Var
      <4> QED BY <4>1, <4>2, <2>5, <1>1, <1>3, <2>1, <2>2 DEF Contending
    <3> QED BY <3>1, <1>11 DEF BlockOK, InBlock
  <2>6. CASE Incrementing(th[t])
    <3>1. Incrementing(r)
      BY <2>6, <1>1, <1>3, <1>7, <1>9, <1>11, <2>1, <2>2, <2>3, SMTT(30) DEF Incrementing, Var
    <3> QED BY <3>1, <1>11 DEF BlockOK, InBlock
  <2>7. CASE Moving(th[t])
    <3>1. Moving(r)
      <4>1. CASE line = 1
        <5>1. from = "counter" /\ add = -1 /\ log = NewLog /\ log.known = {}
          BY <4>1, <2>7, <1>1, <1>3, <2>1, <2>2 DEF Moving, NewLog
        <5> QED BY <4>1, <5>1, <2>7, <1>1, <1>3, <1>7, <1>9, <1>11, <2>1 DEF Moving, Var
      <4>2. CASE line = 3
        <5>1. /\ from = "moved" /\ add = 1 /\ log.known = {"counter"} /\ sub = "defer"
              /\ log.now["counter"] = log.seen["counter"] - 1 /\ log.seen["counter"] >= 1
              /\ th[t].body \in {"defer", "maybe"}
          BY <4>2, <2>7, <1>1, <1>3, <2>1, <2>2 DEF Moving
        <5>2. x = TVars(t)["moved"]
          BY <5>1, <1>7
        <5>3. /\ new.known = {"counter", "moved"} /\ new.seen["moved"] = x
              /\ new.now["counter"] = log.now["counter"]
              /\ new.seen["counter"] = log.seen["counter"]
          BY <5>1, <5>2, <1>9 DEF Var
        <5> QED BY <4>2, <5>1, <5>3, <1>11 DEF Moving
      <4> QED BY <4>1, <4>2, <2>7, <1>1, <1>3, <2>1, <2>2 DEF Moving
    <3> QED BY <3>1, <1>11 DEF BlockOK, InBlock
  <2>8. CASE Dying(th[t])
    <3>1. Dying(r)
      <4>1. from = "counter" /\ add = -1 /\ log = NewLog /\ log.known = {} /\ line = 1
        BY <2>8, <1>1, <1>3, <2>1, <2>2 DEF Dying, NewLog
      <4> QED BY <4>1, <2>8, <1>1, <1>3, <1>7, <1>9, <1>11, <2>1 DEF Dying, Var
    <3> QED BY <3>1, <1>11 DEF BlockOK, InBlock
  <2> QED BY <1>2, <2>4, <2>5, <2>6, <2>7, <2>8
<1> QED BY <1>11, <1>12, <1>13

LEMMA StoreStep ==
    ASSUME Typed, BlockInv, NEW t \in Worker, Store(t)
    PROVE  \E r : Becomes(t, r) /\ r.at = "body" /\ r.result = th[t].result /\ BlockOK(r)
<1>1. th[t].at = "store" /\ th[t].at \in InBlock
  BY DEF Store, Runs, InBlock
<1>2. Plainly(th[t]) \/ Contending(th[t]) \/ Incrementing(th[t]) \/ Moving(th[t]) \/ Dying(th[t])
  BY <1>1, BlockKinds
<1>3. PICK line, sub, log : line = th[t].block.line /\ sub = th[t].block.sub /\ log = LogOf(t)
  OBVIOUS
<1>4. \/ sub \in {"contend", "plain"} /\ line = 1 /\ Line(t) = Set("val", "counter", 0)
      \/ sub \in {"contend", "plain"} /\ line = 2 /\ Line(t) = Set("counter", "val", 1)
      \/ sub = "++" /\ line = 1 /\ Line(t) = Set("counter", "counter", 1)
      \/ sub \in {"defer", "die"} /\ line = 1 /\ Line(t) = Set("counter", "counter", -1)
      \/ sub = "defer" /\ line = 3 /\ Line(t) = Set("moved", "moved", 1)
  <2>1. Assigning(th[t])
    BY <1>1, BlockKinds
  <2>2. \/ sub \in {"contend", "plain"} /\ line \in 1 .. 2
        \/ sub \in {"++", "die"} /\ line = 1
        \/ sub = "defer" /\ line \in {1, 3}
    BY <1>1, <1>2, <1>3, SMTT(30) DEF Plainly, Contending, Incrementing, Moving, Dying
  <2> QED BY <1>3, <2>1, <2>2, SMTT(30) DEF Assigning, Line
<1>5. PICK to \in Var : to = Line(t).to
  BY <1>4 DEF Set, Var
<1>6. PICK x \in Int : x = th[t].tmp
  BY <1>1, InBlockPlace DEF Activity
<1>8. PICK new : new = IF Atomic(t) THEN Noted(t, to, x) ELSE log
  OBVIOUS
<1>9. /\ new \in Log
      /\ th[t].body = "plain" => new = log
      /\ th[t].body # "plain" =>
           /\ new.known = log.known \cup {to} /\ new.now[to] = x
           /\ \A w \in Var : w # to => new.now[w] = log.now[w]
           /\ \A w \in Var : w # to \/ to \in log.known => new.seen[w] = log.seen[w]
           /\ to \notin log.known => new.seen[to] = TVars(t)[to]
  BY <1>1, <1>3, <1>8, LogAfter
<1> DEFINE r == [th[t] EXCEPT !.at = "body", !.block.line = line + 1, !.block.log = new]
<1>10. /\ th[t] \in Activity
       /\ th[t].block \in [sub : Bodies \cup {"none"}, line : 1 .. 4, log : Log]
       /\ line \in 1 .. 3
  BY <1>1, <1>3, <1>4, InBlockPlace
<1>11. /\ r.at = "body" /\ r.body = th[t].body /\ r.result = th[t].result
       /\ r.block.sub = sub /\ r.block.line = line + 1 /\ r.block.log = new
  BY <1>3, <1>10 DEF Activity
<1>12. Becomes(t, r)
  <2>1. r.block \in [sub : Bodies \cup {"none"}, line : 1 .. 4, log : Log]
    <3>1. PICK k \in 1 .. 4 : k = line + 1
      BY <1>10
    <3>2. r.block = [th[t].block EXCEPT !.line = k, !.log = new]
      BY <1>10, <3>1 DEF Activity
    <3>3. PICK b : b = th[t].block
      OBVIOUS
    <3>4. b \in [sub : Bodies \cup {"none"}, line : 1 .. 4, log : Log]
      BY <1>10, <3>3
    <3>5. [b EXCEPT !.line = k, !.log = new]
            \in [sub : Bodies \cup {"none"}, line : 1 .. 4, log : Log]
      BY <1>9, <3>4
    <3> QED BY <3>2, <3>3, <3>5
  <2>2. "body" \in Steps
    BY DEF Steps
  <2>3. r \in Activity
    BY <1>10, <2>1, <2>2 DEF Activity
  <2>4. Changes(t, r)
    BY <1>3, <1>5, <1>6, <1>8 DEF Changes, Store, LogOf
  <2> QED BY <1>10, <2>3, <2>4 DEF Becomes, Activity
<1>13. BlockOK(r)
  <2> HIDE DEF r
  <2>1. log = th[t].block.log
    BY <1>3 DEF LogOf
  <2>2. \/ sub \in {"contend", "plain"} /\ line = 1 /\ to = "val"
        \/ sub \in {"contend", "plain"} /\ line = 2 /\ to = "counter"
        \/ sub = "++" /\ line = 1 /\ to = "counter"
        \/ sub \in {"defer", "die"} /\ line = 1 /\ to = "counter"
        \/ sub = "defer" /\ line = 3 /\ to = "moved"
    BY <1>4, <1>5 DEF Set
  <2>4. CASE Plainly(th[t])
    BY <2>4, <1>1, <1>3, <1>9, <1>11, <2>1, <2>2 DEF Plainly, BlockOK, InBlock
  <2>5. CASE Contending(th[t])
    <3>1. Contending(r)
      BY <2>5, <1>1, <1>3, <1>6, <1>9, <1>11, <2>1, <2>2 DEF Contending, Var
    <3> QED BY <3>1, <1>11 DEF BlockOK, InBlock
  <2>6. CASE Incrementing(th[t])
    <3>1. Incrementing(r)
      BY <2>6, <1>1, <1>3, <1>6, <1>9, <1>11, <2>1, <2>2 DEF Incrementing, Var
    <3> QED BY <3>1, <1>11 DEF BlockOK, InBlock
  <2>7. CASE Moving(th[t])
    <3>1. Moving(r)
      BY <2>7, <1>1, <1>3, <1>6, <1>9, <1>11, <2>1, <2>2 DEF Moving, Var
    <3> QED BY <3>1, <1>11 DEF BlockOK, InBlock
  <2>8. CASE Dying(th[t])
    <3>1. Dying(r)
      BY <2>8, <1>1, <1>3, <1>6, <1>9, <1>11, <2>1, <2>2 DEF Dying, Var
    <3> QED BY <3>1, <1>11 DEF BlockOK, InBlock
  <2> QED BY <1>2, <2>4, <2>5, <2>6, <2>7, <2>8
<1> QED BY <1>11, <1>12, <1>13

LEMMA OrDeferStep ==
    ASSUME Typed, BlockInv, NEW t \in Worker, OrDefer(t)
    PROVE  \E r : /\ Becomes(t, r) /\ r.at \in InBlock /\ r.result = th[t].result /\ BlockOK(r)
<1>1. th[t].at = "body" /\ th[t].at \in InBlock /\ Line(t).op = "defer"
  BY DEF OrDefer, Runs, InBlock
<1>2. PICK log : log = th[t].block.log
  OBVIOUS
<1>3. Moving(th[t]) /\ th[t].block.line = 2
  <2>1. Assigning(th[t])
    BY <1>1, BlockKinds
  <2>2. Op("die").op # "defer" /\ Op("end").op # "defer"
    BY DEF Op
  <2>3. \A to, from, add : Set(to, from, add).op # "defer"
    BY DEF Set
  <2>4. th[t].block.sub = "defer" /\ th[t].block.line = 2
    BY <1>1, <2>1, <2>2, <2>3 DEF Assigning, Line
  <2>5. Moving(th[t])
    BY <1>1, <2>4, BlockKinds DEF Plainly, Contending, Incrementing, Dying
  <2> QED BY <2>4, <2>5
<1>4. /\ th[t] \in Activity
      /\ th[t].block \in [sub : Bodies \cup {"none"}, line : 1 .. 4, log : Log]
  BY <1>1, InBlockPlace
<1>5. /\ log.known = {"counter"} /\ log.now["counter"] = log.seen["counter"] - 1
      /\ log.seen["counter"] \in Int /\ log \in Log
  <2>1. log \in Log
    BY <1>2, <1>4
  <2>2. log.seen["counter"] \in Int
    BY <2>1 DEF Log, Var
  <2> QED BY <1>1, <1>2, <1>3, <2>1, <2>2 DEF Moving
<1>6. CASE readTVar(t, "counter") >= 0
  <2> DEFINE r == [th[t] EXCEPT !.block.line = 3]
  <2>1. /\ r.at = "body" /\ r.body = th[t].body /\ r.result = th[t].result
        /\ r.block.sub = th[t].block.sub /\ r.block.line = 3 /\ r.block.log = log
    BY <1>1, <1>2, <1>4 DEF Activity
  <2>2. Becomes(t, r)
    <3>1. r \in Activity
      BY <1>4 DEF Activity
    <3>2. Changes(t, r)
      BY <1>3, <1>6 DEF Changes, OrDefer
    <3> QED BY <1>4, <3>1, <3>2 DEF Becomes, Activity
  <2>3. log.now["counter"] >= 0
    <3>1. AsNow(t)["counter"] = log.now["counter"]
      BY <1>1, <1>2, <1>5, TVarsTyped DEF LogOf, Var
    <3> QED BY <1>6, <3>1 DEF readTVar
  <2> HIDE DEF r
  <2>4. Moving(r)
    BY <1>2, <1>3, <1>5, <2>1, <2>3 DEF Moving
  <2> QED BY <2>1, <2>2, <2>4 DEF BlockOK, InBlock
<1>7. CASE ~(readTVar(t, "counter") >= 0) /\ th[t].body = "maybe"
  <2> DEFINE b == Alternative(t)
             r == [th[t] EXCEPT !.block = b]
  <2>1. b.sub = "++" /\ b.line = 1 /\ b.log = [log EXCEPT !.now = log.seen]
    BY <1>2 DEF Alternative, LogOf
  <2>2. /\ b.log \in Log /\ b.log.known = {"counter"}
        /\ b.log.now["counter"] = b.log.seen["counter"]
    BY <1>5, <2>1 DEF Log
  <2>3. b \in [sub : Bodies \cup {"none"}, line : 1 .. 4, log : Log]
    BY <2>1, <2>2 DEF Alternative, Bodies, LoopBodies
  <2> HIDE DEF b
  <2>4. Becomes(t, r)
    <3>1. r \in Activity
      BY <1>4, <2>3 DEF Activity
    <3>2. Changes(t, r)
      BY <1>7 DEF Changes, OrDefer, b
    <3> QED BY <1>4, <3>1, <3>2 DEF Becomes, Activity
  <2>5. /\ r.at = "body" /\ r.body = th[t].body /\ r.result = th[t].result /\ r.block = b
    BY <1>1, <1>4 DEF Activity
  <2> HIDE DEF r
  <2>6. Incrementing(r)
    BY <1>7, <2>1, <2>2, <2>5 DEF Incrementing
  <2> QED BY <2>4, <2>5, <2>6 DEF BlockOK, InBlock
<1>8. CASE ~(readTVar(t, "counter") >= 0) /\ th[t].body # "maybe"
  <2> DEFINE r == [th[t] EXCEPT !.at = "wait"]
  <2>1. /\ r.at = "wait" /\ r.body = th[t].body /\ r.result = th[t].result
        /\ r.block = th[t].block
    BY <1>4 DEF Activity
  <2>2. Becomes(t, r)
    <3>1. r \in Activity
      BY <1>4 DEF Activity, Steps
    <3>2. Changes(t, r)
      BY <1>8 DEF Changes, OrDefer
    <3> QED BY <1>4, <3>1, <3>2 DEF Becomes, Activity
  <2> HIDE DEF r
  <2>3. Moving(r)
    BY <1>2, <1>3, <1>5, <2>1 DEF Moving
  <2> QED BY <2>1, <2>2, <2>3 DEF BlockOK, InBlock
<1> QED BY <1>6, <1>7, <1>8

\* Where a block ends, or begins again.
LEMMA BeginsAfresh ==
    ASSUME Typed, NEW t \in Worker, th[t].at \in InBlock, NEW r, Becomes(t, r),
           r.block = Begin(First(th[t].body)), r.at \in {"body", "next", "put"}
    PROVE  BlockOK(r)
<1>1. th[t].body \in LoopBodies /\ r.body = th[t].body
  BY InBlockPlace DEF Becomes
<1>2. CASE r.at = "body"
  BY <1>1, <1>2, FreshBlock
<1>3. CASE r.at # "body"
  BY <1>1, <1>3 DEF BlockOK, InBlock
<1> QED BY <1>2, <1>3

LEMMA NewBlock ==
    ASSUME Typed, NEW t \in Worker, th[t].at \in InBlock
    PROVE  Begin(First(th[t].body)) \in [sub : Bodies \cup {"none"}, line : 1 .. 4, log : Log]
BY InBlockPlace, BeginTyped DEF Bodies

\* Every step in a block leaves the thread at another place of it, or behind it.
LEMMA BlockSteps ==
    ASSUME Typed, BlockInv, NEW t \in Worker, BlockStep(t)
    PROVE  /\ th[t].at \in InBlock
           /\ \E r : /\ Becomes(t, r) /\ BlockOK(r)
                     /\ \/ r.at \in InBlock \cup {"next"} /\ r.result = th[t].result
                        \/ r.at = "put" /\ r.result = "error"
<1>1. th[t].at \in InBlock
  BY DEF BlockStep, Fetch, Store, OrDefer, Wake, Restart, EndBlock, Runs, InBlock
<1>2. th[t] \in Activity /\ th \in [Thread -> Activity] /\ t \in Thread
  BY <1>1, InBlockPlace DEF Typed, TypeOK
<1>3. CASE Fetch(t)
  BY <1>1, <1>3, FetchStep DEF InBlock
<1>4. CASE Store(t)
  BY <1>1, <1>4, StoreStep DEF InBlock
<1>5. CASE OrDefer(t)
  BY <1>1, <1>5, OrDeferStep
<1> DEFINE b == Begin(First(th[t].body))
<1>6. b \in [sub : Bodies \cup {"none"}, line : 1 .. 4, log : Log]
  BY <1>1, NewBlock
<1>7. ASSUME NEW at \in {"body", "next"}, th' = [th EXCEPT ![t].at = at, ![t].block = b]
      PROVE  \E r : Becomes(t, r) /\ BlockOK(r) /\ r.at = at /\ r.result = th[t].result
  <2> HIDE DEF b
  <2> DEFINE r == [th[t] EXCEPT !.at = at, !.block = b]
  <2>1. r \in Activity /\ Changes(t, r)
    BY <1>2, <1>6, <1>7, ZenonT(60) DEF Activity, Steps, Changes
  <2>2. r.at = at /\ r.result = th[t].result /\ r.block = b
    BY <1>2 DEF Activity
  <2>3. Becomes(t, r)
    BY <1>2, <2>1 DEF Becomes, Activity
  <2> HIDE DEF r
  <2>4. BlockOK(r)
    BY <1>1, <2>2, <2>3, BeginsAfresh DEF b
  <2> QED BY <2>2, <2>3, <2>4
<1>8. ASSUME th' = [th EXCEPT ![t].at = "put", ![t].result = "error", ![t].block = b]
      PROVE  \E r : Becomes(t, r) /\ BlockOK(r) /\ r.at = "put" /\ r.result = "error"
  <2> HIDE DEF b
  <2> DEFINE r == [th[t] EXCEPT !.at = "put", !.result = "error", !.block = b]
  <2>1. r \in Activity /\ Changes(t, r)
    BY <1>2, <1>6, <1>8 DEF Activity, Steps, Results, Changes
  <2>2. r.at = "put" /\ r.result = "error" /\ r.block = b
    BY <1>2 DEF Activity
  <2>3. Becomes(t, r)
    BY <1>2, <2>1 DEF Becomes, Activity
  <2> HIDE DEF r
  <2>4. BlockOK(r)
    BY <1>1, <2>2, <2>3, BeginsAfresh DEF b
  <2> QED BY <2>2, <2>3, <2>4
<1>9. CASE Wake(t) \/ Restart(t)
  <2>1. th' = [th EXCEPT ![t].at = "body", ![t].block = b]
    BY <1>9 DEF Wake, Restart, GoesAfresh
  <2> QED BY <1>1, <1>7, <2>1 DEF InBlock
<1>10. CASE EndBlock(t)
  <2>1. CASE Line(t).op = "die"
    <3>1. th' = [th EXCEPT ![t].at = "put", ![t].result = "error", ![t].block = b]
      BY <1>10, <2>1 DEF EndBlock
    <3> QED BY <1>1, <1>8, <3>1
  <2>2. CASE Line(t).op # "die"
    <3>1. th' = [th EXCEPT ![t].at = "next", ![t].block = b]
      <4>1. th' = [th EXCEPT ![t].at = "next", ![t].result = th[t].result, ![t].block = b]
        BY <1>10, <2>2 DEF EndBlock
      <4>2. [th[t] EXCEPT !.at = "next", !.result = th[t].result, !.block = b]
              = [th[t] EXCEPT !.at = "next", !.block = b]
        BY <1>2 DEF Activity
      <4> QED BY <1>2, <4>1, <4>2
    <3> QED BY <1>1, <1>7, <3>1
  <2> QED BY <2>1, <2>2
<1> QED BY <1>1, <1>3, <1>4, <1>5, <1>9, <1>10 DEF BlockStep

LEMMA BlockThread ==
    ASSUME Typed, BlockInv, NEW t \in Worker, BlockStep(t)
    PROVE  th' \in [Thread -> Activity] /\ Places'
<1>1. th[t].at \in InBlock
  BY BlockSteps
<1>2. PICK r : /\ Becomes(t, r)
               /\ \/ r.at \in InBlock \cup {"next"}
                  \/ r.at = "put" /\ r.result = "error"
  BY BlockSteps
<1>3. t \in Thread /\ t # Main /\ th[t].body \in LoopBodies /\ th[t].pad \in Worker \cup {SubPad}
  BY <1>1, InBlockPlace
<1>4. Place(t, r)
  BY <1>2, <1>3 DEF Becomes, Place, InBlock, LoopSteps, Results
<1> QED BY <1>2, <1>3, <1>4, ThreadStep DEF Becomes

\* What a block writes into the variables themselves.
LEMMA WriteTyped ==
    ASSUME Typed, NEW t \in Worker, th[t].at \in InBlock, NEW new \in [Var -> Int], Write(t, new)
    PROVE  /\ scalars' \in [counter : Int, moved : Int]
           /\ lex' \in [Worker \cup {SubPad} -> [i : Nat, val : Int]]
<1>1. SetLex(t, "val", new["val"]) /\ new["val"] \in Int /\ th[t].at \in LoopSteps
  BY DEF Write, Var, InBlock, LoopSteps
<1>2. scalars' \in [counter : Int, moved : Int]
  BY DEF Write, Var
<1> QED BY <1>1, <1>2, SetLexTyped

LEMMA BlockShared ==
    ASSUME Typed, BlockInv, NEW t \in Worker, BlockStep(t)
    PROVE  Shared'
<1>1. Shared /\ th[t].at \in InBlock
  BY BlockSteps DEF Typed, TypeOK, Shared
<1>2. TVars(t) \in [Var -> Int] /\ AsNow(t) \in [Var -> Int]
  BY <1>1, TVarsTyped
<1>3. CASE Fetch(t) \/ OrDefer(t) \/ Wake(t) \/ Restart(t)
  BY <1>1, <1>3 DEF Fetch, OrDefer, Wake, Restart, Shared
<1>4. CASE Store(t)
  <2>1. th[t].tmp \in Int
    BY <1>1, InBlockPlace DEF Activity
  <2>2. \/ UNCHANGED <<scalars, lex>>
        \/ \E new \in [Var -> Int] : Write(t, new)
    <3>1. [TVars(t) EXCEPT ![Line(t).to] = th[t].tmp] \in [Var -> Int]
      BY <1>2, <2>1
    <3> QED BY <1>4, <3>1 DEF Store
  <2>3. UNCHANGED <<started, lock, hist>>
    BY <1>4 DEF Store
  <2> QED BY <1>1, <2>2, <2>3, WriteTyped DEF Shared
<1>5. CASE EndBlock(t)
  <2>1. Write(t, AsNow(t)) /\ UNCHANGED <<started, lock>>
        /\ hist' = [hist EXCEPT !.ended[th[t].block.sub] = @ + 1]
    BY <1>5 DEF EndBlock, Commits
  <2>2. hist' \in History
    <3>1. hist \in History /\ hist.ended \in [LoopBodies -> Nat]
      BY <1>1 DEF Shared, History
    <3>2. PICK n : n = [hist.ended EXCEPT ![th[t].block.sub] = @ + 1]
      OBVIOUS
    <3>3. n \in [LoopBodies -> Nat]
      <4>1. th[t].block.sub \in LoopBodies
        BY <1>1, BlockKinds
        DEF Plainly, Contending, Incrementing, Moving, Dying, LoopBodies
      <4> QED BY <3>1, <3>2, <4>1
    <3>4. hist' = [hist EXCEPT !.ended = n]
      BY <2>1, <3>2
    <3> QED BY <3>1, <3>3, <3>4 DEF History
  <2> QED BY <1>1, <1>2, <2>1, <2>2, WriteTyped DEF Shared
<1> QED BY <1>3, <1>4, <1>5 DEF BlockStep

\* Outside its block a thread keeps what it will begin with.
LEMMA OneBlock ==
    ASSUME Typed, BlockInv, NEW t \in Thread, NEW r, Changes(t, r), t \in Worker => BlockOK(r)
    PROVE  BlockInv'
BY DEF Typed, TypeOK, Thread, Changes, BlockInv

LEMMA MovesKeepBlock ==
    ASSUME Typed, BlockInv, NEW t \in Thread, th[t].at \notin InBlock,
           NEW r, Changes(t, r), r.at \notin InBlock, r.body = th[t].body, r.block = th[t].block
    PROVE  BlockInv'
<1>1. t \in Worker => BlockOK(r)
  BY DEF BlockInv, BlockOK
<1> QED BY <1>1, OneBlock

LEMMA StaysOutside ==
    ASSUME Typed, BlockInv, NEW t \in Thread, th[t].at \notin InBlock, NEW at, at \notin InBlock, NEW x,
           \/ Goes(t, at) \/ GoesWith(t, at, x) \/ Leaves(t, x)
           \/ th' = [th EXCEPT ![t].at = at, ![t].pad = x]
           \/ th' = [th EXCEPT ![t].at = at, ![t].who = x]
    PROVE  BlockInv'
<1>1. th[t] \in Activity
  BY DEF Typed, TypeOK
<1>2. CASE Goes(t, at)
  <2> DEFINE r == [th[t] EXCEPT !.at = at]
  <2>1. Changes(t, r)
    BY <1>2 DEF Changes, Goes
  <2>2. r.at = at /\ r.body = th[t].body /\ r.block = th[t].block
    BY <1>1 DEF Activity
  <2> QED BY <2>1, <2>2, MovesKeepBlock
<1>3. CASE GoesWith(t, at, x)
  <2> DEFINE r == [th[t] EXCEPT !.at = at, !.tmp = x]
  <2>1. Changes(t, r)
    BY <1>3 DEF Changes, GoesWith
  <2>2. r.at = at /\ r.body = th[t].body /\ r.block = th[t].block
    BY <1>1 DEF Activity
  <2> QED BY <2>1, <2>2, MovesKeepBlock
<1>4. CASE Leaves(t, x)
  <2> DEFINE r == [th[t] EXCEPT !.at = "put", !.result = x]
  <2>1. Changes(t, r)
    BY <1>4 DEF Changes, Leaves
  <2>2. r.at = "put" /\ r.body = th[t].body /\ r.block = th[t].block
    BY <1>1 DEF Activity
  <2> QED BY <2>1, <2>2, MovesKeepBlock DEF InBlock
<1>5. CASE th' = [th EXCEPT ![t].at = at, ![t].pad = x]
  <2> DEFINE r == [th[t] EXCEPT !.at = at, !.pad = x]
  <2>1. Changes(t, r)
    BY <1>5 DEF Changes
  <2>2. r.at = at /\ r.body = th[t].body /\ r.block = th[t].block
    BY <1>1 DEF Activity
  <2> QED BY <2>1, <2>2, MovesKeepBlock
<1>6. CASE th' = [th EXCEPT ![t].at = at, ![t].who = x]
  <2> DEFINE r == [th[t] EXCEPT !.at = at, !.who = x]
  <2>1. Changes(t, r)
    BY <1>6 DEF Changes
  <2>2. r.at = at /\ r.body = th[t].body /\ r.block = th[t].block
    BY <1>1 DEF Activity
  <2> QED BY <2>1, <2>2, MovesKeepBlock
<1> QED BY <1>2, <1>3, <1>4, <1>5, <1>6

LEMMA LoopTestBlock ==
    ASSUME Typed, BlockInv, NEW t \in Worker, LoopTest(t)
    PROVE  BlockInv'
<1>1. t \in Thread /\ t # Main /\ th[t] \in Activity /\ th[t].at = "test" /\ Place(t, th[t])
  BY ThreadsAssumption DEF Typed, TypeOK, Places, Thread, LoopTest, Runs
<1>2. CASE Leaves(t, "value")
  BY <1>1, <1>2, StaysOutside DEF InBlock
<1>3. CASE Goes(t, "body")
  <2> DEFINE r == [th[t] EXCEPT !.at = "body"]
  <2>1. Changes(t, r)
    BY <1>3 DEF Changes, Goes
  <2>2. r.at = "body" /\ r.body = th[t].body /\ r.block = th[t].block
    BY <1>1 DEF Activity
  <2>3. th[t].body \in LoopBodies /\ th[t].block = Begin(First(th[t].body))
    BY <1>1 DEF Place, LoopSteps, BlockInv, BlockOK, InBlock
  <2> HIDE DEF r
  <2>4. BlockOK(r)
    BY <2>2, <2>3, FreshBlock
  <2> QED BY <1>1, <2>1, <2>4, OneBlock
<1> QED BY <1>2, <1>3 DEF LoopTest

LEMMA KillBlock ==
    ASSUME Typed, BlockInv, NEW t \in Worker, Kill(t)
    PROVE  BlockInv'
<1>1. t \in Thread /\ th[t] \in Activity
  BY DEF Typed, TypeOK, Thread
<1> DEFINE r == [th[t] EXCEPT !.at = "killed", !.block = Begin(First(th[t].body))]
<1>2. Changes(t, r)
  BY DEF Changes, Kill, GoesAfresh
<1>3. r.at = "killed" /\ r.body = th[t].body /\ r.block = Begin(First(th[t].body))
  BY <1>1 DEF Activity
<1> HIDE DEF r
<1>4. BlockOK(r)
  BY <1>3 DEF BlockOK, InBlock
<1> QED BY <1>1, <1>2, <1>4, OneBlock

LEMMA RemoveBlock ==
    ASSUME Typed, BlockInv, NEW t \in Worker, Remove(t)
    PROVE  BlockInv'
<1>1. PICK c : /\ th' = [u \in Thread |->
                      IF u = t THEN [th[u] EXCEPT !.at = "readIVar", !.tmp = c]
                      ELSE IF u \in Again THEN [th[u] EXCEPT !.raced = TRUE] ELSE th[u]]
               /\ th[t].at = "enter"
  BY DEF Remove, Runs
<1> SUFFICES ASSUME NEW u \in Worker PROVE BlockOK(th'[u])
  BY DEF BlockInv
<1>2. th[u] \in Activity /\ u \in Thread /\ BlockOK(th[u])
  BY DEF Typed, TypeOK, Thread, BlockInv
<1>3. CASE u = t
  <2>1. th'[u] = [th[u] EXCEPT !.at = "readIVar", !.tmp = c]
    BY <1>1, <1>2, <1>3
  <2>2. th'[u].at = "readIVar" /\ th'[u].body = th[u].body /\ th'[u].block = th[u].block
    BY <1>2, <2>1 DEF Activity
  <2> QED BY <1>1, <1>2, <1>3, <2>2 DEF BlockOK, InBlock
<1>4. CASE u # t /\ u \in Again
  <2>1. th'[u] = [th[u] EXCEPT !.raced = TRUE]
    BY <1>1, <1>2, <1>4
  <2>2. th'[u].at = "again" /\ th'[u].body = th[u].body /\ th'[u].block = th[u].block
    BY <1>2, <1>4, <2>1 DEF Activity, Again
  <2>3. th[u].at = "again"
    BY <1>4 DEF Again
  <2> QED BY <1>2, <2>2, <2>3 DEF BlockOK, InBlock
<1>5. CASE u # t /\ u \notin Again
  <2>1. th'[u] = th[u]
    BY <1>1, <1>2, <1>5
  <2> QED BY <1>2, <2>1
<1> QED BY <1>3, <1>4, <1>5

LEMMA BlockInvStep ==
    ASSUME Typed, BlockInv, Next
    PROVE  BlockInv'
<1> USE DEF Thread
<1>1. ASSUME NEW t \in Worker, BlockStep(t) PROVE BlockInv'
  BY <1>1, BlockSteps, OneBlock DEF Becomes
<1>2. ASSUME NEW t \in Worker, LoopTest(t) \/ Kill(t) \/ Remove(t) PROVE BlockInv'
  BY <1>2, LoopTestBlock, KillBlock, RemoveBlock
<1>3. ASSUME NEW t \in Worker,
             \/ Put(t) \/ LoopInit(t) \/ LoopNext(t) \/ RemoveNothing(t) \/ ReadIVar(t)
             \/ Push(t) \/ Extend(t) \/ Assign(t) \/ FetchElem(t) \/ FetchAgain(t)
      PROVE  BlockInv'
  <2>1. /\ th[t].at \notin InBlock
        /\ \E at, x : /\ at \notin InBlock
                      /\ Goes(t, at) \/ GoesWith(t, at, x) \/ Leaves(t, x)
    BY <1>3 DEF Put, LoopInit, LoopNext, RemoveNothing, ReadIVar, Push, Extend, Assign,
                FetchElem, FetchAgain, Runs, InBlock
  <2> QED BY <2>1, StaysOutside
<1>4. ASSUME NEW t \in Worker, EnterSub(t) \/ Reclose(t) PROVE BlockInv'
  <2>1. /\ th[t].at \notin InBlock
        /\ Goes(t, "reclose") \/ \E p : th' = [th EXCEPT ![t].at = "init", ![t].pad = p]
    BY <1>4 DEF EnterSub, Reclose, Goes, Runs, InBlock
  <2> QED BY <2>1, StaysOutside DEF InBlock
<1>5. ASSUME NEW t \in Thread, NEW u \in Worker, Join(t, u) PROVE BlockInv'
  <2>1. th[t].at \notin InBlock /\ th' = [th EXCEPT ![t].at = "join", ![t].who = u]
    BY <1>5 DEF Join, Runs, InBlock
  <2> QED BY <2>1, StaysOutside DEF InBlock
<1>6. ASSUME NEW t \in Thread, JoinReturn(t) PROVE BlockInv'
  <2>1. /\ th[t].at \notin InBlock
        /\ \/ th' = [th EXCEPT ![t].at = "main", ![t].who = Nobody]
           \/ Leaves(t, lock[th[t].who])
    BY <1>6 DEF JoinReturn, Joined, Runs, InBlock
  <2> QED BY <2>1, StaysOutside DEF InBlock
<1>7. ASSUME NEW t \in Worker, NEW body \in Bodies, Async(t, body) PROVE BlockInv'
  <2>1. Changes(t, Doing("enter", body))
    BY <1>7 DEF Async, Changes
  <2>2. BlockOK(Doing("enter", body))
    BY DEF Doing, BlockOK, InBlock
  <2> QED BY <2>1, <2>2, OneBlock
<1>8. ASSUME NEW u \in Worker, Detach(u) PROVE BlockInv'
  BY <1>8 DEF Detach, BlockInv
<1> QED
  BY <1>1, <1>2, <1>3, <1>4, <1>5, <1>6, <1>7, <1>8
  DEF Next, Runnable, Doit, Array, Control, BlockStep

-----------------------------------------------------------------------------
(* What threads leave in their locks *)

EndsKept ==
    \A u \in Worker : /\ th'[u].at = "dead" <=> th[u].at = "dead"
                      /\ th[u].at = "dead" => th'[u].result = th[u].result

LocksKept ==
    /\ lock' = lock /\ hist'.got = hist.got
    /\ hist'.joins = hist.joins /\ hist'.detached = hist.detached

LEMMA ResultsUndisturbed ==
    ASSUME EndsKept, LocksKept
    PROVE  /\ ResultInv => ResultInv'
           /\ ResultsTakenOnce => ResultsTakenOnce'
<1>1. ResultInv => ResultInv'
  BY DEF ResultInv, EndsKept, LocksKept
<1>2. ResultsTakenOnce => ResultsTakenOnce'
  BY DEF ResultsTakenOnce, EndsKept, LocksKept
<1> QED BY <1>1, <1>2

LEMMA MovesKeepEnds ==
    ASSUME Typed, NEW t \in Thread, th[t].at # "dead", NEW at, at # "dead", NEW x,
           Goes(t, at) \/ GoesWith(t, at, x) \/ Leaves(t, x)
    PROVE  EndsKept
<1> USE DEF Typed, TypeOK, Thread, Activity, EndsKept
<1>1. CASE Goes(t, at)
  BY <1>1 DEF Goes
<1>2. CASE GoesWith(t, at, x)
  BY <1>2 DEF GoesWith
<1>3. CASE Leaves(t, x)
  BY <1>3 DEF Leaves
<1> QED BY <1>1, <1>2, <1>3

LEMMA PutResults ==
    ASSUME Typed, ResultInv, ResultsTakenOnce, NEW t \in Worker, Put(t)
    PROVE  ResultInv' /\ ResultsTakenOnce'
<1>1. /\ th[t].at = "put" /\ hist' = hist
      /\ th' = [th EXCEPT ![t].at = "dead"]
      /\ lock' = IF lock[t] = "empty" THEN [lock EXCEPT ![t] = th[t].result] ELSE lock
  BY DEF Put, Runs, Goes, tryPutTMVar
<1>2. \A u \in Worker : /\ th'[u].result = th[u].result
                        /\ u # t => th'[u] = th[u] /\ lock'[u] = lock[u]
  BY <1>1 DEF Typed, TypeOK, Thread, Activity
<1>3. th'[t].at = "dead" /\ lock'[t] \in {lock[t], th[t].result}
  BY <1>1 DEF Typed, TypeOK, Thread, Activity
<1>4. ResultInv'
  BY <1>1, <1>2, <1>3 DEF ResultInv
<1>5. ResultsTakenOnce'
  <2> SUFFICES ASSUME NEW u \in Worker
               PROVE  hist.joins[u] + (IF lock'[u] = "empty" THEN 0 ELSE 1)
                        <= hist.detached[u] + (IF th'[u].at = "dead" THEN 1 ELSE 0)
    BY <1>1 DEF ResultsTakenOnce
  <2>1. hist.joins[u] \in Nat /\ hist.detached[u] \in Nat
    BY DEF Typed, TypeOK, History
  <2>2. hist.joins[u] + (IF lock[u] = "empty" THEN 0 ELSE 1)
          <= hist.detached[u] + (IF th[u].at = "dead" THEN 1 ELSE 0)
    BY DEF ResultsTakenOnce
  <2> QED BY <1>1, <1>2, <1>3, <2>1, <2>2
<1> QED BY <1>4, <1>5

LEMMA JoinReturnResults ==
    ASSUME Typed, ResultInv, ResultsTakenOnce, NEW t \in Thread, JoinReturn(t)
    PROVE  ResultInv' /\ ResultsTakenOnce'
<1>1. PICK v : v = th[t].who
  OBVIOUS
<1>2. v \in Worker /\ lock[v] # "empty"
  BY <1>1 DEF Typed, Places, Place, JoinReturn, Runs
<1>3. /\ lock' = [lock EXCEPT ![v] = "empty"]
      /\ hist' = [hist EXCEPT !.joins[v] = @ + 1, !.got[v] = @ \cup {lock[v]}]
  BY <1>1 DEF JoinReturn, Joined
<1>4. /\ \A u \in Worker : hist.joins[u] \in Nat /\ hist.detached[u] \in Nat
      /\ hist'.detached = hist.detached
      /\ hist'.joins = [hist.joins EXCEPT ![v] = @ + 1]
      /\ hist'.got = [hist.got EXCEPT ![v] = @ \cup {lock[v]}]
      /\ DOMAIN hist.got = Worker /\ DOMAIN hist.joins = Worker /\ DOMAIN lock = Worker
  BY <1>3 DEF Typed, TypeOK, History
<1>5. EndsKept
  <2>1. th[t].at = "join"
    BY DEF JoinReturn, Runs
  <2>2. CASE t = Main
    <3>1. th' = [th EXCEPT ![t].at = "main", ![t].who = Nobody]
      BY <2>2 DEF JoinReturn, Joined
    <3>2. \A u \in Worker : th'[u] = th[u]
      BY <2>2, <3>1, ThreadsAssumption DEF Typed, TypeOK, Thread
    <3> QED BY <3>2 DEF EndsKept
  <2>3. CASE t # Main
    <3>1. Leaves(t, lock[v])
      BY <1>1, <2>3 DEF JoinReturn, Joined
    <3> QED BY <2>1, <3>1, MovesKeepEnds
  <2> QED BY <2>2, <2>3
<1>6. ResultInv'
  <2> SUFFICES ASSUME NEW u \in Worker, NEW r \in hist'.got[u] \cup ({lock'[u]} \ {"empty"})
               PROVE  \/ r = undef /\ hist'.detached[u] > 0
                      \/ r = th'[u].result /\ th'[u].at = "dead"
    BY DEF ResultInv
  <2>1. r \in hist.got[u] \cup ({lock[u]} \ {"empty"})
    BY <1>2, <1>3, <1>4
  <2> QED BY <2>1, <1>4, <1>5 DEF ResultInv, EndsKept
<1>7. ResultsTakenOnce'
  <2> SUFFICES ASSUME NEW u \in Worker
               PROVE  hist'.joins[u] + (IF lock'[u] = "empty" THEN 0 ELSE 1)
                        <= hist'.detached[u] + (IF th'[u].at = "dead" THEN 1 ELSE 0)
    BY DEF ResultsTakenOnce
  <2>1. hist.joins[u] + (IF lock[u] = "empty" THEN 0 ELSE 1)
          <= hist.detached[u] + (IF th[u].at = "dead" THEN 1 ELSE 0)
    BY DEF ResultsTakenOnce
  <2>2. /\ u = v => lock'[u] = "empty" /\ hist'.joins[u] = hist.joins[u] + 1
        /\ u # v => lock'[u] = lock[u] /\ hist'.joins[u] = hist.joins[u]
    BY <1>2, <1>3, <1>4
  <2> QED BY <1>2, <1>4, <1>5, <2>1, <2>2 DEF EndsKept
<1> QED BY <1>6, <1>7

LEMMA DetachResults ==
    ASSUME Typed, ResultInv, ResultsTakenOnce, NEW v \in Worker, Detach(v)
    PROVE  ResultInv' /\ ResultsTakenOnce'
<1>1. /\ th' = th /\ hist' = [hist EXCEPT !.detached[v] = @ + 1]
      /\ lock' = IF lock[v] = "empty" THEN [lock EXCEPT ![v] = undef] ELSE lock
  BY DEF Detach, tryPutTMVar
<1>2. /\ \A u \in Worker : hist.joins[u] \in Nat /\ hist.detached[u] \in Nat
      /\ hist'.joins = hist.joins /\ hist'.got = hist.got
      /\ hist'.detached = [hist.detached EXCEPT ![v] = @ + 1]
      /\ DOMAIN hist.detached = Worker /\ DOMAIN lock = Worker
  BY <1>1 DEF Typed, TypeOK, History
<1>3. \A u \in Worker : /\ u # v => lock'[u] = lock[u] /\ hist'.detached[u] = hist.detached[u]
                        /\ u = v => /\ lock'[u] \in {lock[u], undef}
                                    /\ hist'.detached[u] = hist.detached[u] + 1
  BY <1>1, <1>2
<1>4. ResultInv'
  BY <1>1, <1>2, <1>3 DEF ResultInv
<1>5. ResultsTakenOnce'
  <2> SUFFICES ASSUME NEW u \in Worker
               PROVE  hist.joins[u] + (IF lock'[u] = "empty" THEN 0 ELSE 1)
                        <= hist'.detached[u] + (IF th[u].at = "dead" THEN 1 ELSE 0)
    BY <1>1, <1>2 DEF ResultsTakenOnce
  <2>1. hist.joins[u] + (IF lock[u] = "empty" THEN 0 ELSE 1)
          <= hist.detached[u] + (IF th[u].at = "dead" THEN 1 ELSE 0)
    BY DEF ResultsTakenOnce
  <2> QED BY <1>2, <1>3, <2>1
<1> QED BY <1>4, <1>5

LEMMA OtherResults ==
    ASSUME Typed, BlockInv, Next,
           ~\E t \in Thread : Put(t) \/ JoinReturn(t),
           ~\E u \in Worker : Detach(u)
    PROVE  EndsKept /\ LocksKept
<1> USE DEF Runs, Typed, TypeOK, Thread, EndsKept, LocksKept
<1>1. ASSUME NEW t \in Worker, NEW body \in Bodies, Async(t, body)
       PROVE  EndsKept /\ LocksKept
  BY <1>1 DEF Activity, Async, Doing
<1>2. ASSUME NEW t \in Thread, NEW u \in Worker, Join(t, u)
       PROVE  EndsKept /\ LocksKept
  BY <1>2 DEF Activity, Join
<1>3. ASSUME NEW t \in Worker, Kill(t)
       PROVE  EndsKept /\ LocksKept
  BY <1>3 DEF Activity, Kill, GoesAfresh
<1>4. ASSUME NEW t \in Worker, EnterSub(t)
       PROVE  EndsKept /\ LocksKept
  BY ZenonT(40), <1>4 DEF Activity, EnterSub
<1>5. ASSUME NEW t \in Worker, Reclose(t)
       PROVE  EndsKept /\ LocksKept
  BY <1>5 DEF Activity, Reclose
<1>6. ASSUME NEW t \in Worker, LoopInit(t)
       PROVE  EndsKept /\ LocksKept
  BY <1>6 DEF Activity, LoopInit, Goes
<1>7. ASSUME NEW t \in Worker, LoopTest(t)
       PROVE  EndsKept /\ LocksKept
  <2>1. th[t].at = "test" /\ (Goes(t, "body") \/ Leaves(t, "value"))
    BY <1>7 DEF LoopTest
  <2>2. EndsKept
    BY <2>1, MovesKeepEnds
  <2> QED BY <1>7, <2>2 DEF LoopTest
<1>8. ASSUME NEW t \in Worker, LoopNext(t)
       PROVE  EndsKept /\ LocksKept
  BY <1>8 DEF Activity, LoopNext, Goes
<1>9. ASSUME NEW t \in Worker, BlockStep(t)
       PROVE  EndsKept /\ LocksKept
  <2>1. th[t].at \in InBlock
    BY <1>9, BlockSteps
  <2>2. PICK r : Changes(t, r) /\ r.at # "dead"
    BY <1>9, BlockSteps DEF Becomes, InBlock
  <2>3. EndsKept
    BY <2>1, <2>2 DEF Changes, InBlock
  <2>4. LocksKept
    BY <1>9 DEF BlockStep, Fetch, Store, OrDefer, Wake, Restart, EndBlock, History
  <2> QED BY <2>3, <2>4
<1>11. ASSUME NEW t \in Worker, Push(t)
       PROVE  EndsKept /\ LocksKept
  BY <1>11 DEF Activity, Push, Leaves
<1>12. ASSUME NEW t \in Worker, RemoveNothing(t)
       PROVE  EndsKept /\ LocksKept
  BY <1>12 DEF Activity, RemoveNothing, Leaves
<1>13. ASSUME NEW t \in Worker, ReadIVar(t)
       PROVE  EndsKept /\ LocksKept
  BY <1>13 DEF Activity, ReadIVar, Leaves
<1>14. ASSUME NEW t \in Worker, FetchElem(t)
       PROVE  EndsKept /\ LocksKept
  <2>1. th[t].at = "enter" /\ \E c : GoesWith(t, "assign", c) \/ Goes(t, "extend")
    BY <1>14 DEF FetchElem
  <2>2. EndsKept
    BY <2>1, MovesKeepEnds
  <2> QED BY <1>14, <2>2 DEF FetchElem
<1>15. ASSUME NEW t \in Worker, Extend(t)
       PROVE  EndsKept /\ LocksKept
  BY <1>15 DEF Activity, Extend, Goes
<1>16. ASSUME NEW t \in Worker, FetchAgain(t)
       PROVE  EndsKept /\ LocksKept
  <2>1. th[t].at = "again" /\ \E c : GoesWith(t, "assign", c) \/ Leaves(t, "error")
    BY <1>16 DEF FetchAgain
  <2>2. EndsKept
    BY <2>1, MovesKeepEnds
  <2> QED BY <1>16, <2>2 DEF FetchAgain
<1>17. ASSUME NEW t \in Worker, Assign(t)
       PROVE  EndsKept /\ LocksKept
  BY <1>17 DEF Activity, Assign, Leaves
<1>18. ASSUME NEW t \in Worker, Remove(t)
       PROVE  EndsKept /\ LocksKept
  <2>1. PICK c : /\ th' = [u \in Thread |->
                        IF u = t THEN [th[u] EXCEPT !.at = "readIVar", !.tmp = c]
                        ELSE IF u \in Again THEN [th[u] EXCEPT !.raced = TRUE] ELSE th[u]]
                 /\ hist' = [hist EXCEPT !.taken = @ \cup {<<c, t>>}]
    BY <1>18 DEF Remove
  <2>2. EndsKept
    <3> SUFFICES ASSUME NEW u \in Worker
                 PROVE  /\ th'[u].at = "dead" <=> th[u].at = "dead"
                        /\ th[u].at = "dead" => th'[u].result = th[u].result
      OBVIOUS
    <3>1. th[u] \in Activity
      OBVIOUS
    <3>2. CASE u = t
      BY <1>18, <2>1, <3>1, <3>2, ZenonT(60) DEF Remove, Activity
    <3>3. CASE u # t /\ u \in Again
      <4>1. th'[u] = [th[u] EXCEPT !.raced = TRUE]
        BY <2>1, <3>3
      <4> QED BY <3>1, <4>1 DEF Activity
    <3>4. CASE u # t /\ u \notin Again
      BY <2>1, <3>4
    <3> QED BY <3>2, <3>3, <3>4
  <2>3. LocksKept
    BY <1>18, <2>1 DEF Remove, History
  <2> QED BY <2>2, <2>3
<1> QED BY <1>1, <1>2, <1>3, <1>4, <1>5, <1>6, <1>7, <1>8, <1>9, <1>11, <1>12,
       <1>13, <1>14, <1>15, <1>16, <1>17, <1>18
  DEF Next, Runnable, Doit, Array, Control, BlockStep

-----------------------------------------------------------------------------
(* The array *)

Taken == {e[1] : e \in hist.taken}

\* Containers are in the array or taken out, and were taken out once.
TakenInv ==
    /\ IsFiniteSet(hist.taken)
    /\ \A e, f \in hist.taken : e[1] = f[1] => e = f
    /\ Members(queue.elems) \cap Taken = {}
    /\ Members(queue.elems) \cup Taken = 1 .. Len(queue.val)

LEMMA TakenInit == Init => ArrayOK(queue) /\ TakenInv
<1> SUFFICES ASSUME Init PROVE ArrayOK(queue) /\ TakenInv
  OBVIOUS
<1>1. queue = Grown(NewArray, 1, undef) /\ hist.taken = {}
  BY DEF Init, array_push
<1>2. /\ ArrayOK(queue) /\ Len(queue.val) = 1
      /\ Members(queue.elems) = 1 .. Len(queue.val)
  <2>1. /\ ArrayOK(queue) /\ Len(queue.val) = Len(NewArray.val) + 1
        /\ Members(queue.elems)
             = Members(NewArray.elems) \cup (Len(NewArray.val) + 1 .. Len(queue.val))
    BY <1>1, FirstArray, GrownArray, Zenon
  <2>2. Members(NewArray.elems) = {} /\ Len(NewArray.val) = 0
    BY FirstArray
  <2>3. Len(queue.val) = 1
    BY <2>1, <2>2
  <2> QED BY <2>1, <2>2, <2>3
<1> QED BY <1>1, <1>2, FS_EmptySet DEF TakenInv, Taken

LEMMA GrowTaken ==
    ASSUME ArrayOK(queue), TakenInv, NEW n \in Nat, NEW v \in Worker \cup {undef},
           queue' = Grown(queue, n, v), hist'.taken = hist.taken
    PROVE  ArrayOK(queue') /\ TakenInv'
<1>1. PICK m \in Nat : m = Len(queue.val)
  BY LenProperties DEF ArrayOK, Filled
<1>2. /\ ArrayOK(queue') /\ Len(queue'.val) = m + n
      /\ Members(queue'.elems) = Members(queue.elems) \cup (m + 1 .. m + n)
  <2>1. /\ ArrayOK(queue') /\ Len(queue'.val) = Len(queue.val) + n
        /\ Members(queue'.elems)
             = Members(queue.elems) \cup (Len(queue.val) + 1 .. Len(queue'.val))
    BY GrownArray, ZenonT(20)
  <2> QED BY <2>1, <1>1
<1>3. Taken' = Taken
  BY DEF Taken
<1>4. Members(queue.elems) \cap Taken = {} /\ Members(queue.elems) \cup Taken = 1 .. m
  BY <1>1 DEF TakenInv
<1>5. 1 .. m + n = (1 .. m) \cup (m + 1 .. m + n) /\ (1 .. m) \cap (m + 1 .. m + n) = {}
  BY <1>1
<1>6. /\ Members(queue'.elems) \cap Taken' = {}
      /\ Members(queue'.elems) \cup Taken' = 1 .. Len(queue'.val)
  BY <1>2, <1>3, <1>4, <1>5
<1> QED BY <1>2, <1>6 DEF TakenInv

LEMMA RemoveTaken ==
    ASSUME ArrayOK(queue), TakenInv, NEW t \in Worker, Remove(t), Typed
    PROVE  ArrayOK(queue') /\ TakenInv'
<1>1. PICK c : /\ c \in Members(queue.elems) /\ ArrayOK(queue') /\ queue'.val = queue.val
               /\ Members(queue'.elems) = Members(queue.elems) \ {c}
               /\ hist' = [hist EXCEPT !.taken = @ \cup {<<c, t>>}]
  BY ShiftedArray, PoppedArray DEF Remove
<1>2. hist'.taken = hist.taken \cup {<<c, t>>}
  BY <1>1 DEF Typed, TypeOK, History
<1>3. Taken' = Taken \cup {c}
  <2>1. Taken' = {e[1] : e \in hist'.taken} /\ Taken = {e[1] : e \in hist.taken}
    BY DEF Taken
  <2>2. <<c, t>>[1] = c
    OBVIOUS
  <2>3. ASSUME NEW x \in Taken' PROVE x \in Taken \cup {c}
    BY <2>1, <2>2, <1>2
  <2>4. ASSUME NEW x \in Taken \cup {c} PROVE x \in Taken'
    BY <2>1, <2>2, <1>2
  <2> QED BY <2>3, <2>4
<1>4. c \notin Taken
  BY <1>1 DEF TakenInv
<1>5. IsFiniteSet(hist'.taken)
  <2>1. IsFiniteSet(hist.taken) /\ IsFiniteSet({<<c, t>>})
    BY FS_Singleton DEF TakenInv
  <2> QED BY <2>1, <1>2, FS_Union
<1>6. \A e, f \in hist'.taken : e[1] = f[1] => e = f
  BY <1>2, <1>4 DEF TakenInv, Taken
<1>7. /\ Members(queue'.elems) \cap Taken' = {}
      /\ Members(queue'.elems) \cup Taken' = 1 .. Len(queue'.val)
  BY <1>1, <1>3 DEF TakenInv
<1> QED BY <1>1, <1>5, <1>6, <1>7 DEF TakenInv

LEMMA ExtendTaken ==
    ASSUME ArrayOK(queue), TakenInv, NEW t \in Worker, Extend(t)
    PROVE  ArrayOK(queue') /\ TakenInv' /\ a_size(queue') > Index
<1>1. Len(queue.elems) \in Nat
  BY LenProperties DEF ArrayOK, Filled
<1>2. CASE Len(queue.elems) < 2
  <2>1. PICK n \in Nat : n = 2 - Len(queue.elems)
    <3>1. 2 - Len(queue.elems) \in Nat
      BY <1>1, <1>2
    <3> QED BY <3>1
  <2>2. queue' = Grown(queue, n, undef) /\ hist'.taken = hist.taken
    BY <1>1, <1>2, <2>1 DEF Extend, array_extendSize, a_size, Index
  <2>3. Len(queue'.elems) = 2
    <3>1. Len(queue'.elems) = Len(queue.elems) + n
      BY <2>2, GrownArray, Zenon
    <3> QED BY <3>1, <1>1, <2>1
  <2> QED BY <2>2, <2>3, GrowTaken DEF a_size, Index
<1>3. CASE ~(Len(queue.elems) < 2)
  <2>1. queue' = queue /\ hist' = hist
    BY <1>1, <1>3 DEF Extend, array_extendSize, a_size, Index
  <2> QED BY <1>1, <1>3, <2>1 DEF TakenInv, Taken, a_size, Index
<1> QED BY <1>2, <1>3

LEMMA ArrayStep ==
    ASSUME Typed, ArrayOK(queue), TakenInv, Next
    PROVE  ArrayOK(queue') /\ TakenInv'
<1>1. ASSUME NEW t \in Worker, Push(t) PROVE ArrayOK(queue') /\ TakenInv'
  BY <1>1, GrowTaken DEF Push, array_push
<1>2. ASSUME NEW t \in Worker, Remove(t) PROVE ArrayOK(queue') /\ TakenInv'
  BY <1>2, RemoveTaken
<1>3. ASSUME NEW t \in Worker, Extend(t) PROVE ArrayOK(queue') /\ TakenInv'
  BY <1>3, ExtendTaken
<1>4. ASSUME NEW t \in Worker, Assign(t) PROVE ArrayOK(queue') /\ TakenInv'
  <2>1. queue' = scalar_store(queue, th[t].tmp, t) /\ hist' = hist
    BY <1>4 DEF Assign
  <2>2. ArrayOK(queue') /\ queue'.elems = queue.elems /\ Len(queue'.val) = Len(queue.val)
    BY <2>1, StoredArray
  <2> QED BY <2>1, <2>2 DEF TakenInv, Taken
<1>5. ASSUME queue' = queue, hist'.taken = hist.taken PROVE ArrayOK(queue') /\ TakenInv'
  BY <1>5 DEF TakenInv, Taken
<1>6. ASSUME UNCHANGED <<queue, hist>> PROVE ArrayOK(queue') /\ TakenInv'
  BY <1>5, <1>6
<1>7. ASSUME NEW t \in Worker, LoopNext(t) \/ EndBlock(t) \/ Detach(t)
      PROVE  queue' = queue /\ hist'.taken = hist.taken
  BY <1>7 DEF LoopNext, EndBlock, Detach, Typed, TypeOK, History
<1>8. ASSUME NEW t \in Thread, JoinReturn(t)
      PROVE  queue' = queue /\ hist'.taken = hist.taken
  BY <1>8 DEF JoinReturn, Joined, Typed, TypeOK, History
<1>9. ASSUME NEW t \in Worker,
             \/ EnterSub(t) \/ Reclose(t) \/ LoopInit(t) \/ LoopTest(t)
             \/ Fetch(t) \/ Store(t) \/ OrDefer(t) \/ Wake(t) \/ Restart(t)
             \/ RemoveNothing(t) \/ ReadIVar(t) \/ FetchElem(t) \/ FetchAgain(t)
             \/ Put(t) \/ Kill(t)
      PROVE  UNCHANGED <<queue, hist>>
  BY <1>9 DEF EnterSub, Reclose, LoopInit, LoopTest, Fetch, Store, OrDefer, Wake, Restart,
              RemoveNothing, ReadIVar, FetchElem, FetchAgain, Put, Kill
<1>10. ASSUME NEW t \in Thread, NEW u \in Worker, Join(t, u) PROVE UNCHANGED <<queue, hist>>
  BY <1>10 DEF Join
<1>11. ASSUME NEW u \in Worker, NEW body \in Bodies, Async(u, body) PROVE UNCHANGED <<queue, hist>>
  BY <1>11 DEF Async
<1> QED
  BY <1>1, <1>2, <1>3, <1>4, <1>5, <1>6, <1>7, <1>8, <1>9, <1>10, <1>11
  DEF Next, Runnable, Doit, Array, Control, Thread

-----------------------------------------------------------------------------
(* Every step keeps the types *)

LEMMA TypedStep ==
    ASSUME Typed, BlockInv, ArrayOK(queue), ArrayOK(queue'), Next
    PROVE  Typed'
<1> DEFINE Goal == th' \in [Thread -> Activity] /\ Places' /\ Shared'
<1>1. Shared /\ Filled(queue)
  BY DEF Typed, TypeOK, Shared, ArrayOK
<1>2. ASSUME NEW t \in Worker, Put(t) PROVE Goal
  BY <1>1, <1>2, PutThread, PutShared
<1>3. ASSUME NEW t \in Worker, EnterSub(t) PROVE Goal
  <2>1. UNCHANGED <<scalars, started, lex, lock, hist>>
    BY <1>3 DEF EnterSub
  <2> QED BY <1>1, <1>3, <2>1, EnterSubThread, SharedKept
<1>4. ASSUME NEW t \in Worker, Reclose(t) PROVE Goal
  <2>1. started' = TRUE /\ UNCHANGED <<scalars, lex, lock, hist>>
    BY <1>4 DEF Reclose
  <2>2. Shared'
    BY <1>1, <2>1 DEF Shared
  <2> QED BY <1>1, <1>4, <2>2, RecloseThread
<1>5. ASSUME NEW t \in Worker, LoopInit(t) PROVE Goal
  BY <1>1, <1>5, LoopInitThread, LoopShared
<1>6. ASSUME NEW t \in Worker, LoopTest(t) PROVE Goal
  <2>1. UNCHANGED <<scalars, started, lex, lock, hist>>
    BY <1>6 DEF LoopTest
  <2> QED BY <1>1, <1>6, <2>1, LoopTestThread, SharedKept
<1>7. ASSUME NEW t \in Worker, LoopNext(t) PROVE Goal
  BY <1>1, <1>7, LoopNextThread, LoopShared
<1>8. ASSUME NEW t \in Worker, BlockStep(t) PROVE Goal
  BY <1>8, BlockThread, BlockShared
<1>10. ASSUME NEW t \in Worker, Push(t) PROVE Goal
  <2>1. UNCHANGED <<scalars, started, lex, lock, hist>>
    BY <1>10 DEF Push
  <2> QED BY <1>1, <1>10, <2>1, PushThread, SharedKept
<1>11. ASSUME NEW t \in Worker, RemoveNothing(t) PROVE Goal
  <2>1. UNCHANGED <<scalars, started, lex, lock, hist>>
    BY <1>11 DEF RemoveNothing
  <2> QED BY <1>1, <1>11, <2>1, RemoveNothingThread, SharedKept
<1>12. ASSUME NEW t \in Worker, ReadIVar(t) PROVE Goal
  <2>1. UNCHANGED <<scalars, started, lex, lock, hist>>
    BY <1>12 DEF ReadIVar
  <2> QED BY <1>1, <1>12, <2>1, ReadIVarThread, SharedKept
<1>13. ASSUME NEW t \in Worker, FetchElem(t) PROVE Goal
  <2>1. UNCHANGED <<scalars, started, lex, lock, hist>>
    BY <1>13 DEF FetchElem
  <2> QED BY <1>1, <1>13, <2>1, FetchElemThread, SharedKept
<1>14. ASSUME NEW t \in Worker, Extend(t) PROVE Goal
  <2>1. UNCHANGED <<scalars, started, lex, lock, hist>>
    BY <1>14 DEF Extend
  <2> QED BY <1>1, <1>14, <2>1, ExtendThread, SharedKept
<1>15. ASSUME NEW t \in Worker, FetchAgain(t) PROVE Goal
  <2>1. UNCHANGED <<scalars, started, lex, lock, hist>>
    BY <1>15 DEF FetchAgain
  <2> QED BY <1>1, <1>15, <2>1, FetchAgainThread, SharedKept
<1>16. ASSUME NEW t \in Worker, Assign(t) PROVE Goal
  <2>1. UNCHANGED <<scalars, started, lex, lock, hist>>
    BY <1>16 DEF Assign
  <2> QED BY <1>1, <1>16, <2>1, AssignThread, SharedKept
<1>17. ASSUME NEW t \in Worker, Kill(t) PROVE Goal
  <2>1. UNCHANGED <<scalars, started, lex, lock, hist>>
    BY <1>17 DEF Kill
  <2> QED BY <1>1, <1>17, <2>1, KillThread, SharedKept
<1>18. ASSUME NEW t \in Worker, Remove(t) PROVE Goal
  BY <1>18, RemoveThread, RemoveShared
<1>19. ASSUME NEW t \in Thread, JoinReturn(t) PROVE Goal
  BY <1>1, <1>19, JoinReturnThread, JoinReturnShared
<1>20. ASSUME NEW t \in Thread, NEW u \in Worker, Join(t, u) PROVE Goal
  <2>1. UNCHANGED <<scalars, started, lex, lock, hist>>
    BY <1>20 DEF Join
  <2> QED BY <1>1, <1>20, <2>1, JoinThread, SharedKept
<1>21. ASSUME NEW t \in Worker, NEW body \in Bodies, Async(t, body) PROVE Goal
  <2>1. UNCHANGED <<scalars, started, lex, lock, hist>>
    BY <1>21 DEF Async
  <2> QED BY <1>1, <1>21, <2>1, AsyncThread, SharedKept
<1>22. ASSUME NEW u \in Worker, Detach(u) PROVE Goal
  <2>1. th' = th
    BY <1>22 DEF Detach
  <2> QED BY <1>22, <2>1, DetachShared DEF Typed, TypeOK, Places
<1>23. Goal
  <2> HIDE DEF Goal
  <2> QED
    BY <1>2, <1>3, <1>4, <1>5, <1>6, <1>7, <1>8, <1>10, <1>11, <1>12,
       <1>13, <1>14, <1>15, <1>16, <1>17, <1>18, <1>19, <1>20, <1>21, <1>22
    DEF Next, Runnable, Doit, Array, Control, Thread, BlockStep
<1> QED BY <1>23 DEF Typed, TypeOK, Shared, ArrayOK, Filled

-----------------------------------------------------------------------------
(* Assignments that fail *)

Failed(a) == a.body = "assign" /\ a.result = "error"

RaceInv ==
    \A t \in Worker : /\ (th[t].at = "again" /\ ~th[t].raced) => a_size(queue) > Index
                      /\ Failed(th[t]) => th[t].raced

\* A thread that is about to fetch an element again, or whose assignment has
\* failed, was there before.
RaceKept(u) ==
    /\ th'[u].at = "again" => th[u].at = "again" /\ th'[u].raced = th[u].raced
    /\ Failed(th'[u]) => Failed(th[u]) /\ th'[u].raced = th[u].raced

LEMMA RaceUndisturbed ==
    ASSUME RaceInv, a_size(queue) > Index => a_size(queue') > Index,
           \A u \in Worker : RaceKept(u)
    PROVE  RaceInv'
BY DEF RaceInv, RaceKept

LEMMA OneRace ==
    ASSUME Typed, NEW t \in Thread, NEW r, Changes(t, r),
           r.at # "again", Failed(r) => Failed(th[t]) /\ r.raced = th[t].raced
    PROVE  \A u \in Worker : RaceKept(u)
BY DEF Changes, RaceKept, Typed, TypeOK, Thread

LEMMA MovesKeepRace ==
    ASSUME Typed, NEW t \in Thread, NEW at, at # "again", NEW x,
           \/ Goes(t, at) \/ GoesWith(t, at, x)
           \/ Leaves(t, x) /\ (x # "error" \/ th[t].body # "assign")
    PROVE  \A u \in Worker : RaceKept(u)
<1>1. th[t] \in Activity
  BY DEF Typed, TypeOK
<1>2. CASE Goes(t, at)
  <2> DEFINE r == [th[t] EXCEPT !.at = at]
  <2>1. Changes(t, r)
    BY <1>2 DEF Changes, Goes
  <2>2. r.at = at /\ r.body = th[t].body /\ r.result = th[t].result /\ r.raced = th[t].raced
    BY <1>1 DEF Activity
  <2> QED BY <2>1, <2>2, OneRace DEF Failed
<1>3. CASE GoesWith(t, at, x)
  <2> DEFINE r == [th[t] EXCEPT !.at = at, !.tmp = x]
  <2>1. Changes(t, r)
    BY <1>3 DEF Changes, GoesWith
  <2>2. r.at = at /\ r.body = th[t].body /\ r.result = th[t].result /\ r.raced = th[t].raced
    BY <1>1 DEF Activity
  <2> QED BY <2>1, <2>2, OneRace DEF Failed
<1>4. CASE Leaves(t, x) /\ (x # "error" \/ th[t].body # "assign")
  <2> DEFINE r == [th[t] EXCEPT !.at = "put", !.result = x]
  <2>1. Changes(t, r)
    BY <1>4 DEF Changes, Leaves
  <2>2. r.at = "put" /\ r.body = th[t].body /\ r.result = x
    BY <1>1 DEF Activity
  <2> QED BY <1>4, <2>1, <2>2, OneRace DEF Failed
<1> QED BY <1>2, <1>3, <1>4

LEMMA RemoveRace ==
    ASSUME Typed, RaceInv, NEW t \in Worker, Remove(t)
    PROVE  RaceInv'
<1>1. PICK c : /\ th' = [u \in Thread |->
                      IF u = t THEN [th[u] EXCEPT !.at = "readIVar", !.tmp = c]
                      ELSE IF u \in Again THEN [th[u] EXCEPT !.raced = TRUE] ELSE th[u]]
               /\ th[t].at = "enter"
  BY DEF Remove, Runs
<1> SUFFICES ASSUME NEW u \in Worker
             PROVE  /\ th'[u].at = "again" => th'[u].raced
                    /\ Failed(th'[u]) => th'[u].raced
  BY DEF RaceInv
<1>2. th[u] \in Activity /\ u \in Thread
  BY DEF Typed, TypeOK, Thread
<1>3. Failed(th[u]) => th[u].raced
  BY DEF RaceInv
<1>4. CASE u = t
  <2>1. th'[u] = [th[u] EXCEPT !.at = "readIVar", !.tmp = c]
    BY <1>1, <1>2, <1>4
  <2> QED BY <2>1, <1>2, <1>3 DEF Failed, Activity
<1>5. CASE u # t /\ u \in Again
  <2>1. th'[u] = [th[u] EXCEPT !.raced = TRUE]
    BY <1>1, <1>2, <1>5
  <2> QED BY <2>1, <1>2 DEF Activity
<1>6. CASE u # t /\ u \notin Again
  <2>1. th'[u] = th[u]
    BY <1>1, <1>2, <1>6
  <2>2. th[u].at # "again"
    BY <1>6 DEF Again
  <2> QED BY <2>1, <2>2, <1>3
<1> QED BY <1>4, <1>5, <1>6

LEMMA ExtendRace ==
    ASSUME Typed, ArrayOK(queue), TakenInv, RaceInv, NEW t \in Worker, Extend(t)
    PROVE  RaceInv'
<1>1. a_size(queue') > Index
  BY ExtendTaken
<1>2. th' = [th EXCEPT ![t].at = "again"]
  BY DEF Extend, Goes
<1>3. ASSUME NEW u \in Worker, Failed(th'[u]) PROVE th'[u].raced
  <2>1. th[u] \in Activity
    BY DEF Typed, TypeOK, Thread
  <2>2. /\ th'[u].body = th[u].body /\ th'[u].result = th[u].result
        /\ th'[u].raced = th[u].raced
    BY <1>2, <2>1 DEF Typed, TypeOK, Thread, Activity
  <2> QED BY <1>3, <2>2 DEF RaceInv, Failed
<1> QED BY <1>1, <1>3 DEF RaceInv

LEMMA FetchAgainRace ==
    ASSUME Typed, ArrayOK(queue), RaceInv, NEW t \in Worker, FetchAgain(t)
    PROVE  RaceInv'
<1>1. queue' = queue /\ th[t].at = "again"
  BY DEF FetchAgain, Runs
<1>2. CASE getArrayIndex(queue, Index) # 0
  <2>1. \A u \in Worker : RaceKept(u)
    <3>1. GoesWith(t, "assign", getArrayIndex(queue, Index)) /\ t \in Thread
      BY <1>2 DEF FetchAgain, Thread
    <3> QED BY <3>1, MovesKeepRace
  <2> QED BY <1>1, <2>1, RaceUndisturbed
<1>3. CASE getArrayIndex(queue, Index) = 0
  <2>1. th' = [th EXCEPT ![t].at = "put", ![t].result = "error"]
    BY <1>3 DEF FetchAgain, Leaves
  <2>2. th[t].raced
    <3>1. a_size(queue) <= Index /\ a_size(queue) \in Nat
      BY <1>3, IndexFound DEF ArrayOK
    <3> QED BY <1>1, <3>1 DEF RaceInv, Index
  <2>3. th[t] \in Activity
    BY DEF Typed, TypeOK, Thread
  <2>4. th'[t].raced /\ th'[t].at = "put" /\ \A u \in Worker \ {t} : th'[u] = th[u]
    BY <2>1, <2>2, <2>3 DEF Typed, TypeOK, Thread, Activity
  <2> QED BY <1>1, <2>4 DEF RaceInv
<1> QED BY <1>2, <1>3

LEMMA RaceStep ==
    ASSUME Typed, BlockInv, ArrayOK(queue), TakenInv, RaceInv, Next
    PROVE  RaceInv'
<1> USE DEF Thread
<1>1. ASSUME queue' = queue, \A u \in Worker : RaceKept(u) PROVE RaceInv'
  BY <1>1, RaceUndisturbed
<1>2. ASSUME NEW t \in Worker, Push(t) PROVE RaceInv'
  <2>1. Leaves(t, "value")
    BY <1>2 DEF Push
  <2>2. \A u \in Worker : RaceKept(u)
    BY <2>1, MovesKeepRace
  <2>3. Len(queue'.elems) = Len(queue.elems) + 1 /\ Len(queue.elems) \in Nat
    BY <1>2, GrownArray, LenProperties DEF Push, array_push, ArrayOK, Filled
  <2>4. a_size(queue) > Index => a_size(queue') > Index
    BY <2>3 DEF a_size, Index
  <2> QED BY <2>2, <2>4, RaceUndisturbed
<1>3. ASSUME NEW t \in Worker, Assign(t) PROVE RaceInv'
  <2>1. Leaves(t, "value")
    BY <1>3 DEF Assign
  <2>2. \A u \in Worker : RaceKept(u)
    BY <2>1, MovesKeepRace
  <2>3. queue'.elems = queue.elems
    BY <1>3 DEF Assign, scalar_store, ArrayOK, Filled
  <2> QED BY <2>2, <2>3, RaceUndisturbed DEF a_size
<1>4. ASSUME NEW t \in Worker, Remove(t) \/ Extend(t) \/ FetchAgain(t) PROVE RaceInv'
  BY <1>4, RemoveRace, ExtendRace, FetchAgainRace
<1>5. ASSUME NEW t \in Worker,
             \/ Put(t) \/ LoopInit(t) \/ LoopTest(t) \/ LoopNext(t)
             \/ RemoveNothing(t) \/ ReadIVar(t)
      PROVE  queue' = queue /\ \A u \in Worker : RaceKept(u)
  <2>1. /\ queue' = queue
        /\ \/ \E at : at # "again" /\ Goes(t, at)
           \/ \E x : x # "error" /\ Leaves(t, x)
    BY <1>5 DEF Put, LoopInit, LoopTest, LoopNext, RemoveNothing, ReadIVar, undef
  <2> QED BY <2>1, MovesKeepRace
<1>6. ASSUME NEW t \in Worker, BlockStep(t)
      PROVE  queue' = queue /\ \A u \in Worker : RaceKept(u)
  <2>1. queue' = queue
    BY <1>6 DEF BlockStep, Fetch, Store, OrDefer, Wake, Restart, EndBlock
  <2>2. th[t].body # "assign"
    BY <1>6, BlockSteps, InBlockPlace DEF LoopBodies
  <2>3. PICK r : Changes(t, r) /\ r.at # "again" /\ r.body = th[t].body
    BY <1>6, BlockSteps DEF Becomes, InBlock
  <2> QED BY <2>1, <2>2, <2>3, OneRace DEF Failed
<1>7. ASSUME NEW t \in Worker, FetchElem(t) \/ Kill(t)
      PROVE  queue' = queue /\ \A u \in Worker : RaceKept(u)
  <2>1. CASE FetchElem(t)
    <3>1. /\ queue' = queue
          /\ \E at : at # "again" /\ (Goes(t, at) \/ \E x : GoesWith(t, at, x))
      BY <2>1 DEF FetchElem
    <3> QED BY <3>1, MovesKeepRace
  <2>2. CASE Kill(t)
    <3> DEFINE r == [th[t] EXCEPT !.at = "killed", !.block = Begin(First(th[t].body))]
    <3>1. Changes(t, r) /\ queue' = queue
      BY <2>2 DEF Kill, GoesAfresh, Changes
    <3>2. th[t] \in Activity
      BY DEF Typed, TypeOK
    <3>3. /\ r.at = "killed" /\ r.body = th[t].body
          /\ r.result = th[t].result /\ r.raced = th[t].raced
      BY <3>2 DEF Activity
    <3> QED BY <3>1, <3>3, OneRace DEF Failed
  <2> QED BY <1>7, <2>1, <2>2
<1>8. ASSUME NEW t \in Thread, JoinReturn(t)
      PROVE  queue' = queue /\ \A u \in Worker : RaceKept(u)
  <2>1. queue' = queue
    BY <1>8 DEF JoinReturn
  <2>2. CASE t = Main
    <3>1. th' = [th EXCEPT ![t].at = "main", ![t].who = Nobody]
      BY <1>8, <2>2 DEF JoinReturn, Joined
    <3>2. \A u \in Worker : th'[u] = th[u]
      BY <2>2, <3>1, ThreadsAssumption DEF Typed, TypeOK
    <3> QED BY <2>1, <3>2 DEF RaceKept
  <2>3. CASE t # Main
    <3>1. Leaves(t, lock[th[t].who])
      BY <1>8, <2>3 DEF JoinReturn, Joined
    <3>2. th[t].body # "assign"
      BY <1>8, <2>3 DEF JoinReturn, Runs, Typed, Places, Place
    <3> QED BY <2>1, <3>1, <3>2, MovesKeepRace
  <2> QED BY <2>2, <2>3
<1>9. ASSUME NEW t \in Thread, NEW u \in Worker, Join(t, u)
      PROVE  queue' = queue /\ \A v \in Worker : RaceKept(v)
  <2> DEFINE r == [th[t] EXCEPT !.at = "join", !.who = u]
  <2>1. Changes(t, r) /\ queue' = queue
    BY <1>9 DEF Join, Changes
  <2>2. th[t] \in Activity
    BY DEF Typed, TypeOK
  <2>3. r.at = "join" /\ r.body = th[t].body /\ r.result = th[t].result /\ r.raced = th[t].raced
    BY <2>2 DEF Activity
  <2> QED BY <2>1, <2>3, OneRace DEF Failed
<1>10. ASSUME NEW t \in Worker, NEW body \in Bodies, Async(t, body)
       PROVE  queue' = queue /\ \A v \in Worker : RaceKept(v)
  <2>1. Changes(t, Doing("enter", body)) /\ queue' = queue
    BY <1>10 DEF Async, Changes
  <2> QED BY <2>1, OneRace DEF Failed, Doing
<1>11. ASSUME NEW t \in Worker, EnterSub(t) \/ Reclose(t)
       PROVE  queue' = queue /\ \A v \in Worker : RaceKept(v)
  <2>1. \/ Goes(t, "reclose")
        \/ \E p : th' = [th EXCEPT ![t].at = "init", ![t].pad = p]
    BY <1>11 DEF EnterSub, Reclose, Goes
  <2>2. CASE Goes(t, "reclose")
    <3>1. \A v \in Worker : RaceKept(v)
      BY <2>2, MovesKeepRace
    <3> QED BY <1>11, <3>1 DEF EnterSub, Reclose
  <2>3. ASSUME NEW p, th' = [th EXCEPT ![t].at = "init", ![t].pad = p]
        PROVE  \A v \in Worker : RaceKept(v)
    <3> DEFINE r == [th[t] EXCEPT !.at = "init", !.pad = p]
    <3>1. Changes(t, r)
      BY <2>3 DEF Changes
    <3>2. th[t] \in Activity
      BY DEF Typed, TypeOK
    <3>3. r.at = "init" /\ r.body = th[t].body /\ r.result = th[t].result /\ r.raced = th[t].raced
      BY <3>2 DEF Activity
    <3> QED BY <3>1, <3>3, OneRace DEF Failed
  <2>4. queue' = queue
    BY <1>11 DEF EnterSub, Reclose
  <2> QED BY <2>1, <2>2, <2>3, <2>4
<1>12. ASSUME NEW u \in Worker, Detach(u)
       PROVE  queue' = queue /\ \A v \in Worker : RaceKept(v)
  BY <1>12 DEF Detach, RaceKept
<1> QED
  BY <1>1, <1>2, <1>3, <1>4, <1>5, <1>6, <1>7, <1>8, <1>9, <1>10, <1>11, <1>12
  DEF Next, Runnable, Doit, Array, Control, BlockStep

-----------------------------------------------------------------------------
(* The theorems *)

IInv ==
    /\ Typed /\ BlockInv /\ ArrayOK(queue)
    /\ ResultInv /\ ResultsTakenOnce
    /\ TakenInv /\ RaceInv

LEMMA InvInit == Init => IInv
<1> SUFFICES ASSUME Init PROVE IInv
  OBVIOUS
<1>1. Typed /\ ArrayOK(queue) /\ TakenInv
  BY TypedInit, TakenInit
<1>2. \A u \in Worker : /\ lock[u] = "empty" /\ hist.got[u] = {}
                        /\ hist.joins[u] = 0 /\ hist.detached[u] = 0
  BY DEF Init
<1>3. ResultInv /\ ResultsTakenOnce
  BY <1>2 DEF ResultInv, ResultsTakenOnce
<1>4. RaceInv
  BY ThreadsAssumption DEF Init, RaceInv, Failed, Doing, Thread
<1>5. BlockInv
  BY ThreadsAssumption DEF Init, BlockInv, BlockOK, InBlock, Doing, Thread
<1> QED BY <1>1, <1>3, <1>4, <1>5 DEF IInv

LEMMA InvStep == IInv /\ [Next]_vars => IInv'
<1> SUFFICES ASSUME IInv, [Next]_vars PROVE IInv'
  OBVIOUS
<1> USE DEF IInv
<1>1. CASE Next
  <2>1. ArrayOK(queue)' /\ TakenInv'
    BY <1>1, ArrayStep
  <2>2. Typed'
    BY <1>1, <2>1, TypedStep
  <2>3. RaceInv' /\ BlockInv'
    BY <1>1, RaceStep, BlockInvStep
  <2>4. ResultInv' /\ ResultsTakenOnce'
    <3>1. CASE \E t \in Thread : JoinReturn(t)
      BY <3>1, JoinReturnResults
    <3>2. CASE \E t \in Worker : Put(t)
      BY <3>2, PutResults
    <3>3. CASE \E u \in Worker : Detach(u)
      BY <3>3, DetachResults
    <3>4. CASE ~\E t \in Thread : Put(t) \/ JoinReturn(t)
      BY <1>1, <3>3, <3>4, OtherResults, ResultsUndisturbed
    <3>5. ~Put(Main)
      BY DEF Put, Runs, Typed, Places, Place, Thread
    <3> QED BY <3>1, <3>2, <3>4, <3>5 DEF Thread
  <2> QED BY <2>1, <2>2, <2>3, <2>4
<1>2. CASE UNCHANGED vars
  BY <1>2 DEF vars, Typed, TypeOK, Places, ArrayOK, Filled, ResultInv, ResultsTakenOnce,
              TakenInv, Taken, RaceInv, BlockInv
<1> QED BY <1>1, <1>2

LEMMA InductiveInvariant == Spec => []IInv
<1> QED BY InvInit, InvStep, PTL DEF Spec

\* The state of the threads keeps its shape: a loop knows the pad it runs in,
\* a join whom it joins, and every container of the array exists.
THEOREM Types == Spec => []TypeOK
<1>1. IInv => TypeOK
  BY DEF IInv, Typed
<1> QED BY <1>1, InductiveInvariant, PTL

\* A result is taken by one join, however often threads are joined, detached
\* or killed, and in whatever order (src/src/Pugs/Prim.hs:532-547).
THEOREM ResultsAreTakenOnce == Spec => []ResultsTakenOnce
<1>1. IInv => ResultsTakenOnce
  BY DEF IInv
<1> QED BY <1>1, InductiveInvariant, PTL

\* join gives what the thread's own code returned or died of, but for the
\* undef of a detach, and a killed thread answers nobody.
THEOREM JoinsGiveResults == Spec => []JoinGivesResult
<1>1. IInv => JoinGivesResult
  BY DEF IInv, ResultInv, JoinGivesResult
<1> QED BY <1>1, InductiveInvariant, PTL

\* push, shift, pop and the extension made by an assignment lose no element
\* and give none to two threads (src/src/Pugs/Types/Array.hs:154-196).
THEOREM ElementsAreKept == Spec => []ElementsKept
<1>1. ASSUME IInv PROVE ElementsKept
  <2>1. queue.elems \in Seq(Nat) /\ queue.val \in Seq(Worker \cup {undef})
    BY <1>1 DEF IInv, ArrayOK, Filled
  <2>2. {queue.elems[i] : i \in DOMAIN queue.elems} = Members(queue.elems)
    BY <2>1, LenProperties DEF Members
  <2>3. Cardinality(Members(queue.elems)) = a_size(queue)
    BY <1>1, <2>1, DistinctCount DEF IInv, ArrayOK, a_size
  <2>4. Cardinality(Taken) = Cardinality(hist.taken)
    <3> DEFINE f == [e \in hist.taken |-> e[1]]
    <3>1. f \in Injection(hist.taken, Taken)
      BY <1>1 DEF IInv, TakenInv, Taken, Injection, IsInjective
    <3>2. f \in Surjection(hist.taken, Taken)
      BY DEF Taken, Surjection
    <3>3. ExistsBijection(hist.taken, Taken)
      BY <3>1, <3>2 DEF ExistsBijection, Bijection
    <3> QED BY <1>1, <3>3, FS_Bijection DEF IInv, TakenInv
  <2>5. DOMAIN queue.val = 1 .. Len(queue.val)
    BY <2>1, LenProperties
  <2> QED BY <1>1, <2>2, <2>3, <2>4, <2>5 DEF IInv, TakenInv, Taken, ElementsKept
<1> QED BY <1>1, InductiveInvariant, PTL

\* An assignment to an element behind the end fails only when the array was
\* shortened between the transaction that extended it and the one that looks
\* again (src/src/Pugs/Types/Array.hs:195).
THEOREM AssignmentsFailByRace == Spec => []AssignmentFailsByRace
<1>1. IInv => AssignmentFailsByRace
  BY DEF IInv, RaceInv, Failed, AssignmentFailsByRace
<1> QED BY <1>1, InductiveInvariant, PTL

-----------------------------------------------------------------------------
(***************************************************************************)
(* The loops of PugsThreads, for any number of threads and rounds: which   *)
(* calls of a sub make all their rounds, and what the shared counters add  *)
(* up to.                                                                  *)
(***************************************************************************)

(* The invariant *)

RoundSteps == {"body", "store", "wait", "next"}

Pads == Worker \cup {SubPad}

\* Nobody else has a call in the pad of t.
Alone(t) == \A u \in Worker : th[u].pad = th[t].pad => u = t

\* A thread has a pad once it has entered the sub: its own or the sub's.
PadPlace(t, r) ==
    /\ r.pad \in {t, SubPad, Nobody}
    /\ r.at \notin LoopSteps \cup {"put", "dead", "killed"} => r.pad = Nobody
    /\ r.at \in LoopSteps \cup {"reclose"} => r.result = "none"

PadPlaces == \A t \in Worker : PadPlace(t, th[t])

\* What $i says of the rounds made: it may be behind, when another call has
\* set it back, unless the call is alone in its pad.
Made(t) ==
    LET p == th[t].pad
    IN  p # Nobody =>
        /\ th[t].result = "value" => hist.done[p] >= Rounds
        /\ Alone(t) =>
             /\ lex[p].i = hist.done[p] /\ lex[p].i <= Rounds
             /\ th[t].at = "init" => lex[p].i = 0
             /\ th[t].at \in RoundSteps => lex[p].i < Rounds
             /\ th[t].result = "value" => lex[p].i = Rounds

PadCount(p) ==
    /\ lex[p].i <= hist.done[p]
    /\ (\A t \in Worker : th[t].pad # p) => hist.done[p] = 0

RoundsInv ==
    /\ PadPlaces
    /\ \A p \in Pads : PadCount(p)
    /\ \A t \in Worker : Made(t)

\* Only unborn threads are given a body.
SumInv ==
    /\ CountersAddUp /\ NeverOverdrawn
    /\ \A t \in Worker : th[t].at = "unborn" => th[t].body \notin {"plain", "die"}

LEMMA PadsTyped ==
    ASSUME Typed
    PROVE  \A p \in Pads : lex[p] \in [i : Nat, val : Int] /\ hist.done[p] \in Nat
BY DEF Typed, TypeOK, History, Pads

LEMMA RoundsInit == Init => RoundsInv /\ SumInv
<1> SUFFICES ASSUME Init PROVE RoundsInv /\ SumInv
  OBVIOUS
<1>1. \A t \in Worker : th[t] = Doing("unborn", "none")
  BY ThreadsAssumption DEF Init, Thread
<1>2. \A p \in Pads : lex[p].i = 0 /\ hist.done[p] = 0
  BY DEF Init, Pads
<1>3. /\ scalars.counter = 0 /\ scalars.moved = 0
      /\ \A sub \in LoopBodies : hist.ended[sub] = 0
  BY DEF Init
<1>4. PadPlaces /\ \A t \in Worker : Made(t)
  BY <1>1 DEF PadPlaces, PadPlace, Made, Doing, LoopSteps
<1>5. \A p \in Pads : PadCount(p)
  BY <1>2 DEF PadCount
<1>6. SumInv
  BY <1>1, <1>3 DEF SumInv, CountersAddUp, NeverOverdrawn, LoopBodies, Doing
<1> QED BY <1>4, <1>5, <1>6 DEF RoundsInv

-----------------------------------------------------------------------------
(* Steps that leave the rounds alone *)

\* A thread that stands as r comes to stand as s, and makes no round.
Follows(r, s) ==
    /\ s.pad = r.pad
    /\ r.pad # Nobody => (s.result = "value" => r.result = "value")
    /\ s.at = "init" => r.at = "init"
    /\ s.at \in RoundSteps => r.at \in RoundSteps

Quiet(u) == Follows(th[u], th'[u]) /\ PadPlace(u, th'[u])

CountsKept == hist'.done = hist.done /\ \A p \in Pads : lex'[p].i = lex[p].i

LEMMA QuietStep ==
    ASSUME RoundsInv, CountsKept, \A u \in Worker : Quiet(u)
    PROVE  RoundsInv'
<1>1. PadPlaces'
  BY DEF Quiet, PadPlaces
<1>2. ASSUME NEW p \in Pads PROVE PadCount(p)'
  <2>1. PadCount(p) /\ lex'[p].i = lex[p].i /\ hist'.done[p] = hist.done[p]
    BY DEF RoundsInv, CountsKept
  <2>2. \A u \in Worker : th'[u].pad = th[u].pad
    BY DEF Quiet, Follows
  <2> QED BY <2>1, <2>2 DEF PadCount
<1>3. ASSUME NEW t \in Worker PROVE Made(t)'
  <2>1. Made(t) /\ Follows(th[t], th'[t])
    BY DEF RoundsInv, Quiet
  <2>2. Alone(t)' <=> Alone(t)
    BY DEF Quiet, Follows, Alone
  <2>3. CASE th[t].pad = Nobody
    BY <2>1, <2>3 DEF Follows, Made
  <2>4. CASE th[t].pad # Nobody
    <3>1. th[t].pad \in Pads
      BY <2>4 DEF RoundsInv, PadPlaces, PadPlace, Pads
    <3>2. lex'[th[t].pad].i = lex[th[t].pad].i /\ hist'.done = hist.done
      BY <3>1 DEF CountsKept
    <3> QED BY <2>1, <2>2, <2>4, <3>2 DEF Follows, Made
  <2> QED BY <2>3, <2>4
<1> QED BY <1>1, <1>2, <1>3 DEF RoundsInv

\* A step of thread t alone.
LEMMA QuietThread ==
    ASSUME Typed, RoundsInv, CountsKept, NEW t \in Thread, NEW r, Changes(t, r),
           t \in Worker => Follows(th[t], r) /\ PadPlace(t, r)
    PROVE  RoundsInv'
<1>1. ASSUME NEW u \in Worker PROVE Quiet(u)
  <2>1. th \in [Thread -> Activity] /\ u \in Thread
    BY DEF Typed, TypeOK, Thread
  <2>2. CASE u = t
    BY <2>1, <2>2 DEF Changes, Quiet
  <2>3. CASE u # t
    <3>1. th'[u] = th[u]
      BY <2>1, <2>3 DEF Changes
    <3> QED BY <3>1 DEF Quiet, Follows, RoundsInv, PadPlaces
  <2> QED BY <2>2, <2>3
<1> QED BY <1>1, QuietStep

LEMMA LexKept ==
    ASSUME UNCHANGED <<lex, hist>>
    PROVE  CountsKept
BY DEF CountsKept

LEMMA ValKept ==
    ASSUME Typed, NEW t \in Worker, NEW n, SetLex(t, "val", n)
    PROVE  \A p \in Pads : lex'[p].i = lex[p].i
BY DEF Typed, TypeOK, SetLex, Pads

LEMMA AsyncRounds ==
    ASSUME Typed, RoundsInv, NEW t \in Worker, NEW body \in Bodies, Async(t, body)
    PROVE  RoundsInv'
<1>1. t \in Thread /\ PadPlace(t, th[t]) /\ Changes(t, Doing("enter", body))
  BY DEF Thread, RoundsInv, PadPlaces, Async, Changes
<1>2. CountsKept
  BY LexKept DEF Async
<1>3. th[t].pad = Nobody
  BY <1>1 DEF PadPlace, LoopSteps, Async
<1>4. Follows(th[t], Doing("enter", body)) /\ PadPlace(t, Doing("enter", body))
  BY <1>3 DEF Follows, PadPlace, Doing, LoopSteps, RoundSteps
<1> QED BY <1>1, <1>2, <1>4, QuietThread

\* t goes on to another place, with another result, and keeps pad and body.
Moves(t, at, result) ==
    \E r : /\ Changes(t, r) /\ r.at = at /\ r.result = result
           /\ r.pad = th[t].pad /\ r.body = th[t].body

LEMMA ThreadTyped ==
    ASSUME Typed, NEW t \in Thread
    PROVE  th[t] \in Activity /\ th \in [Thread -> Activity]
BY DEF Typed, TypeOK

LEMMA GoesMoves ==
    ASSUME Typed, NEW t \in Thread, NEW at,
           \/ Goes(t, at) \/ \E n : GoesWith(t, at, n)
           \/ \E u : th' = [th EXCEPT ![t].at = at, ![t].who = u]
    PROVE  Moves(t, at, th[t].result)
<1>1. th[t] \in Activity /\ th \in [Thread -> Activity]
  BY ThreadTyped
<1>2. CASE Goes(t, at)
  <2> DEFINE r == [th[t] EXCEPT !.at = at]
  <2>1. Changes(t, r)
    BY <1>1, <1>2 DEF Goes, Changes
  <2>2. r.at = at /\ r.result = th[t].result /\ r.pad = th[t].pad /\ r.body = th[t].body
    BY <1>1 DEF Activity
  <2> QED BY <2>1, <2>2 DEF Moves
<1>3. ASSUME NEW n, GoesWith(t, at, n) PROVE Moves(t, at, th[t].result)
  <2> DEFINE r == [th[t] EXCEPT !.at = at, !.tmp = n]
  <2>1. Changes(t, r)
    BY <1>1, <1>3 DEF GoesWith, Changes
  <2>2. r.at = at /\ r.result = th[t].result /\ r.pad = th[t].pad /\ r.body = th[t].body
    BY <1>1 DEF Activity
  <2> QED BY <2>1, <2>2 DEF Moves
<1>4. ASSUME NEW u, th' = [th EXCEPT ![t].at = at, ![t].who = u]
      PROVE  Moves(t, at, th[t].result)
  <2> DEFINE r == [th[t] EXCEPT !.at = at, !.who = u]
  <2>1. Changes(t, r)
    BY <1>1, <1>4 DEF Changes
  <2>2. r.at = at /\ r.result = th[t].result /\ r.pad = th[t].pad /\ r.body = th[t].body
    BY <1>1 DEF Activity
  <2> QED BY <2>1, <2>2 DEF Moves
<1> QED BY <1>2, <1>3, <1>4

LEMMA LeavesMoves ==
    ASSUME Typed, NEW t \in Thread, NEW result, Leaves(t, result)
    PROVE  Moves(t, "put", result)
<1>1. th[t] \in Activity /\ th \in [Thread -> Activity]
  BY ThreadTyped
<1> DEFINE r == [th[t] EXCEPT !.at = "put", !.result = result]
<1>2. Changes(t, r)
  BY <1>1 DEF Leaves, Changes
<1>3. r.at = "put" /\ r.result = result /\ r.pad = th[t].pad /\ r.body = th[t].body
  BY <1>1 DEF Activity
<1> QED BY <1>2, <1>3 DEF Moves

\* Threads that work on the array, join, or stop.
LEMMA MovesQuiet ==
    ASSUME Typed, RoundsInv, CountsKept, NEW t \in Worker, NEW at, NEW result,
           Moves(t, at, result), at # "init",
           result = th[t].result \/ th[t].pad = Nobody \/ result # "value",
           at \in RoundSteps => th[t].at \in RoundSteps /\ result = th[t].result,
           at \notin LoopSteps \cup {"put", "dead", "killed"} => th[t].pad = Nobody,
           at = "test" => th[t].at \in LoopSteps /\ result = th[t].result,
           at = "reclose" => result = "none"
    PROVE  RoundsInv'
<1>1. PICK r : Changes(t, r) /\ r.at = at /\ r.result = result /\ r.pad = th[t].pad
  BY DEF Moves
<1>2. PadPlace(t, th[t]) /\ t \in Thread
  BY DEF RoundsInv, PadPlaces, Thread
<1>3. Follows(th[t], r)
  BY <1>1 DEF Follows
<1>4. PadPlace(t, r)
  BY <1>1, <1>2 DEF PadPlace, LoopSteps, RoundSteps
<1> QED BY <1>1, <1>2, <1>3, <1>4, QuietThread

LEMMA MainQuiet ==
    ASSUME Typed, RoundsInv, UNCHANGED lex, hist'.done = hist.done, NEW r, Changes(Main, r)
    PROVE  RoundsInv'
<1>1. CountsKept /\ Main \in Thread /\ Main \notin Worker
  BY ThreadsAssumption DEF CountsKept, Thread
<1> QED BY <1>1, QuietThread

LEMMA JoinRounds ==
    ASSUME Typed, RoundsInv, NEW t \in Thread, NEW u \in Worker, Join(t, u)
    PROVE  RoundsInv'
<1>1. th' = [th EXCEPT ![t].at = "join", ![t].who = u]
  BY DEF Join
<1>2. Moves(t, "join", th[t].result)
  BY <1>1, GoesMoves
<1>3. CASE t = Main
  BY <1>2, <1>3, MainQuiet DEF Moves, Join
<1>4. CASE t \in Worker
  <2>1. th[t].pad = Nobody
    BY <1>4, ThreadsAssumption
    DEF RoundsInv, PadPlaces, PadPlace, LoopSteps, Join, Runs, Typed, Places, Place, Thread
  <2>2. CountsKept
    BY LexKept DEF Join
  <2> QED BY <1>2, <1>4, <2>1, <2>2, MovesQuiet DEF RoundSteps, LoopSteps
<1> QED BY <1>3, <1>4 DEF Thread

LEMMA JoinReturnRounds ==
    ASSUME Typed, RoundsInv, NEW t \in Thread, JoinReturn(t)
    PROVE  RoundsInv'
<1> DEFINE u == th[t].who
<1>1. hist' = [hist EXCEPT !.joins[u] = @ + 1, !.got[u] = @ \cup {lock[u]}]
  BY DEF JoinReturn, Joined
<1>2. hist'.done = hist.done /\ UNCHANGED lex
  BY <1>1 DEF Typed, TypeOK, History, JoinReturn
<1>3. CountsKept
  BY <1>2 DEF CountsKept
<1>4. CASE t = Main
  <2> DEFINE r == [th[t] EXCEPT !.at = "main", !.who = Nobody]
  <2>1. Changes(Main, r)
    BY <1>4, ThreadTyped DEF Changes, JoinReturn, Joined
  <2> QED BY <1>2, <2>1, MainQuiet
<1>5. CASE t # Main
  <2>1. t \in Worker /\ Leaves(t, lock[u])
    BY <1>5 DEF JoinReturn, Joined, Thread
  <2>2. Moves(t, "put", lock[u])
    BY <2>1, LeavesMoves
  <2>3. th[t].pad = Nobody
    BY <2>1 DEF RoundsInv, PadPlaces, PadPlace, LoopSteps, JoinReturn, Runs
  <2> QED BY <1>3, <2>1, <2>2, <2>3, MovesQuiet DEF RoundSteps, LoopSteps
<1> QED BY <1>4, <1>5

LEMMA KillMoves ==
    ASSUME Typed, NEW t \in Worker, Kill(t)
    PROVE  Moves(t, "killed", th[t].result)
<1>1. th[t] \in Activity
  BY ThreadTyped DEF Thread
<1> DEFINE r == [th[t] EXCEPT !.at = "killed", !.block = Begin(First(th[t].body))]
<1>2. Changes(t, r)
  BY DEF Changes, Kill, GoesAfresh
<1>3. r.at = "killed" /\ r.result = th[t].result /\ r.pad = th[t].pad /\ r.body = th[t].body
  BY <1>1 DEF Activity
<1> QED BY <1>2, <1>3 DEF Moves

LEMMA PutKillRounds ==
    ASSUME Typed, RoundsInv, NEW t \in Worker, Put(t) \/ Kill(t)
    PROVE  RoundsInv'
<1>1. t \in Thread /\ CountsKept
  BY LexKept DEF Put, Kill, Thread
<1>2. PICK at \in {"dead", "killed"} : Moves(t, at, th[t].result)
  BY <1>1, GoesMoves, KillMoves DEF Put
<1> QED BY <1>1, <1>2, MovesQuiet DEF RoundSteps, LoopSteps

LEMMA DetachRounds ==
    ASSUME Typed, RoundsInv, NEW u \in Worker, Detach(u)
    PROVE  RoundsInv'
<1>1. UNCHANGED <<th, lex>> /\ hist' = [hist EXCEPT !.detached[u] = @ + 1]
  BY DEF Detach
<1>2. CountsKept
  BY <1>1 DEF CountsKept, Typed, TypeOK, History
<1>3. \A t \in Worker : Quiet(t)
  BY <1>1 DEF Quiet, Follows, RoundsInv, PadPlaces
<1> QED BY <1>2, <1>3, QuietStep

\* In the block a call makes no round.
LEMMA BlockRounds ==
    ASSUME Typed, BlockInv, RoundsInv, NEW t \in Worker, BlockStep(t)
    PROVE  RoundsInv'
<1>1. t \in Thread /\ th[t].at \in RoundSteps
  BY BlockSteps DEF InBlock, RoundSteps, Thread
<1>2. CountsKept
  <2>1. hist'.done = hist.done
    BY DEF BlockStep, Fetch, Store, OrDefer, Wake, Restart, EndBlock, Typed, TypeOK, History
  <2>2. UNCHANGED lex \/ \E n : SetLex(t, "val", n)
    BY DEF BlockStep, Fetch, Store, OrDefer, Wake, Restart, EndBlock, Commits, Write
  <2> QED BY <2>1, <2>2, ValKept DEF CountsKept
<1>3. \/ Moves(t, "put", "error")
      \/ \E at \in RoundSteps : Moves(t, at, th[t].result)
  <2>1. PICK r : /\ Becomes(t, r)
                 /\ \/ r.at \in InBlock \cup {"next"} /\ r.result = th[t].result
                    \/ r.at = "put" /\ r.result = "error"
    BY BlockSteps
  <2> QED BY <2>1 DEF Moves, Becomes, InBlock, RoundSteps
<1>4. CASE Moves(t, "put", "error")
  BY <1>2, <1>4, MovesQuiet DEF RoundSteps, LoopSteps
<1>5. ASSUME NEW at \in RoundSteps, Moves(t, at, th[t].result) PROVE RoundsInv'
  <2>1. at # "init" /\ at # "test" /\ at # "reclose" /\ at \in LoopSteps
    BY DEF RoundSteps, LoopSteps
  <2> QED BY <1>1, <1>2, <1>5, <2>1, MovesQuiet
<1> QED BY <1>3, <1>4, <1>5

\* Threads that work on the array have no pad.
LEMMA ArrayRounds ==
    ASSUME Typed, RoundsInv, NEW t \in Worker,
           \/ Push(t) \/ RemoveNothing(t) \/ ReadIVar(t)
           \/ FetchElem(t) \/ Extend(t) \/ FetchAgain(t) \/ Assign(t)
    PROVE  RoundsInv'
<1>1. t \in Thread /\ CountsKept
  BY LexKept DEF Push, RemoveNothing, ReadIVar, FetchElem, Extend, FetchAgain, Assign, Thread
<1>2. th[t].pad = Nobody
  BY DEF RoundsInv, PadPlaces, PadPlace, LoopSteps, Runs,
         Push, RemoveNothing, ReadIVar, FetchElem, Extend, FetchAgain, Assign
<1>3. \/ \E result : Leaves(t, result)
      \/ Goes(t, "extend") \/ Goes(t, "again") \/ \E n : GoesWith(t, "assign", n)
  BY DEF Push, RemoveNothing, ReadIVar, FetchElem, Extend, FetchAgain, Assign
<1>4. PICK at \in {"put", "extend", "again", "assign"} : \E result : Moves(t, at, result)
  BY <1>1, <1>3, GoesMoves, LeavesMoves
<1>5. PICK result : Moves(t, at, result)
  BY <1>4
<1> QED BY <1>1, <1>2, <1>5, MovesQuiet DEF RoundSteps, LoopSteps

LEMMA RemoveRounds ==
    ASSUME Typed, RoundsInv, NEW t \in Worker, Remove(t)
    PROVE  RoundsInv'
<1> DEFINE shift == th[t].body = "shift"
           container == IF shift THEN Head(queue.elems) ELSE queue.elems[a_size(queue)]
<1>1. /\ th[t].at = "enter" /\ UNCHANGED lex
      /\ hist' = [hist EXCEPT !.taken = @ \cup {<<container, t>>}]
      /\ th' = [u \in Thread |->
                  IF u = t THEN [th[u] EXCEPT !.at = "readIVar", !.tmp = container]
                  ELSE IF u \in Again THEN [th[u] EXCEPT !.raced = TRUE] ELSE th[u]]
  BY DEF Remove, Runs
<1> HIDE DEF container
<1>2. CountsKept
  BY <1>1 DEF CountsKept, Typed, TypeOK, History
<1>3. ASSUME NEW u \in Worker PROVE Quiet(u)
  <2>1. u \in Thread /\ th[u] \in Activity /\ PadPlace(u, th[u])
    BY ThreadTyped DEF Thread, RoundsInv, PadPlaces
  <2>2. CASE u = t
    <3>1. th'[u] = [th[u] EXCEPT !.at = "readIVar", !.tmp = container]
      BY <1>1, <2>1, <2>2
    <3>2. /\ th'[u].at = "readIVar" /\ th'[u].pad = th[u].pad
          /\ th'[u].result = th[u].result
      BY <2>1, <3>1 DEF Activity
    <3> QED BY <1>1, <2>1, <2>2, <3>2 DEF Quiet, Follows, PadPlace, LoopSteps, RoundSteps
  <2>3. CASE u # t
    <3>1. th'[u] = [th[u] EXCEPT !.raced = TRUE] \/ th'[u] = th[u]
      BY <1>1, <2>1, <2>3
    <3>2. /\ th'[u].at = th[u].at /\ th'[u].pad = th[u].pad
          /\ th'[u].result = th[u].result
      BY <2>1, <3>1 DEF Activity
    <3> QED BY <2>1, <3>2 DEF Quiet, Follows, PadPlace
  <2> QED BY <2>2, <2>3
<1> QED BY <1>2, <1>3, QuietStep

-----------------------------------------------------------------------------
(* Steps of the loop *)

\* What a step of thread t does, once it has left Nobody's pad or stays in
\* its own: the others stand as they did.
Stands(t, at, pad, result) ==
    /\ th'[t].at = at /\ th'[t].pad = pad /\ th'[t].result = result
    /\ \A u \in Worker \ {t} : th'[u] = th[u]

LEMMA ChangesStands ==
    ASSUME Typed, NEW t \in Worker, NEW r, Changes(t, r)
    PROVE  Stands(t, r.at, r.pad, r.result)
BY DEF Typed, TypeOK, Thread, Changes, Stands

LEMMA MovesStands ==
    ASSUME Typed, NEW t \in Worker, NEW at, NEW result, Moves(t, at, result)
    PROVE  Stands(t, at, th[t].pad, result)
<1>1. PICK r : Changes(t, r) /\ r.at = at /\ r.result = result /\ r.pad = th[t].pad
  BY DEF Moves
<1> QED BY <1>1, ChangesStands

\* A call gets its pad.
LEMMA PadGiven ==
    ASSUME Typed, RoundsInv, CountsKept, NEW t \in Worker, NEW p \in {t, SubPad},
           th[t].pad = Nobody, th[t].result = "none", Stands(t, "init", p, "none")
    PROVE  RoundsInv'
<1>0. Nobody \notin Pads /\ SubPad \notin Worker
  BY ThreadsAssumption DEF Pads
<1>1. PadPlaces'
  <2> SUFFICES ASSUME NEW u \in Worker PROVE PadPlace(u, th'[u])
    BY DEF PadPlaces
  <2>1. CASE u = t
    BY <2>1 DEF Stands, PadPlace, LoopSteps
  <2>2. CASE u # t
    BY <2>2 DEF Stands, RoundsInv, PadPlaces
  <2> QED BY <2>1, <2>2
<1>2. ASSUME NEW q \in Pads PROVE PadCount(q)'
  <2>1. PadCount(q) /\ lex'[q].i = lex[q].i /\ hist'.done[q] = hist.done[q]
    BY DEF RoundsInv, CountsKept
  <2>2. (\A u \in Worker : th'[u].pad # q) => \A u \in Worker : th[u].pad # q
    BY <1>0 DEF Stands
  <2> QED BY <2>1, <2>2 DEF PadCount
<1>3. ASSUME NEW u \in Worker PROVE Made(u)'
  <2>1. CASE u # t
    <3>1. th'[u] = th[u] /\ Made(u) /\ th[u].pad \in Pads \cup {Nobody}
      BY <2>1 DEF Stands, RoundsInv, PadPlaces, PadPlace, Pads
    <3>2. CASE th[u].pad = Nobody
      BY <3>1, <3>2 DEF Made
    <3>3. CASE th[u].pad # Nobody
      <4>1. Alone(u)' => Alone(u)
        BY <3>1, <3>3 DEF Alone, Stands
      <4>2. lex'[th[u].pad].i = lex[th[u].pad].i /\ hist'.done = hist.done
        BY <3>1, <3>3 DEF CountsKept
      <4> QED BY <3>1, <3>3, <4>1, <4>2 DEF Made
    <3> QED BY <3>2, <3>3
  <2>2. CASE u = t
    <3>1. p \in Pads /\ th'[t].pad = p /\ th'[t].at = "init" /\ th'[t].result = "none"
      BY DEF Pads, Stands
    <3>2. lex'[p].i = lex[p].i /\ hist'.done[p] = hist.done[p]
      BY <3>1 DEF CountsKept
    <3>3. lex[p].i \in Nat /\ hist.done[p] \in Nat /\ PadCount(p) /\ Rounds \in Nat
      BY <3>1, PadsTyped, ThreadsAssumption DEF RoundsInv
    <3>4. ASSUME Alone(t)' PROVE hist.done[p] = 0
      <4>1. \A v \in Worker : th[v].pad # p
        BY <1>0, <3>1, <3>4 DEF Alone, Stands
      <4> QED BY <3>3, <4>1 DEF PadCount
    <3>5. ASSUME Alone(t)' PROVE lex[p].i = 0 /\ hist.done[p] = 0
      BY <3>3, <3>4, <3>5 DEF PadCount
    <3> QED BY <2>2, <3>1, <3>2, <3>3, <3>5 DEF Made, RoundSteps
  <2> QED BY <2>1, <2>2
<1> QED BY <1>1, <1>2, <1>3 DEF RoundsInv

LEMMA EnterSubRounds ==
    ASSUME Typed, RoundsInv, NEW t \in Worker, EnterSub(t)
    PROVE  RoundsInv'
<1>1. t \in Thread /\ th[t] \in Activity /\ CountsKept
  BY ThreadTyped, LexKept DEF Thread, EnterSub
<1>2. th[t].pad = Nobody /\ th[t].result = "none"
  BY <1>1, ThreadsAssumption
  DEF RoundsInv, PadPlaces, PadPlace, LoopSteps, EnterSub, Runs, Typed, Places, Place
<1>3. CASE started
  <2> DEFINE r == [th[t] EXCEPT !.at = "init", !.pad = t]
  <2>1. Changes(t, r)
    BY <1>1, <1>3, ThreadTyped DEF Changes, EnterSub
  <2>2. r.at = "init" /\ r.pad = t /\ r.result = "none"
    BY <1>1, <1>2 DEF Activity
  <2> HIDE DEF r
  <2>3. Stands(t, "init", t, "none")
    BY <2>1, <2>2, ChangesStands
  <2> QED BY <1>1, <1>2, <2>3, PadGiven
<1>4. CASE ~started
  <2>1. Goes(t, "reclose")
    BY <1>4 DEF EnterSub, Goes
  <2> QED BY <1>1, <1>2, <2>1, GoesMoves, MovesQuiet DEF RoundSteps
<1> QED BY <1>3, <1>4

LEMMA RecloseRounds ==
    ASSUME Typed, RoundsInv, NEW t \in Worker, Reclose(t)
    PROVE  RoundsInv'
<1>1. t \in Thread /\ th[t] \in Activity /\ CountsKept
  BY ThreadTyped, LexKept DEF Thread, Reclose
<1>2. th[t].pad = Nobody /\ th[t].result = "none"
  BY DEF RoundsInv, PadPlaces, PadPlace, LoopSteps, Reclose, Runs
<1> DEFINE r == [th[t] EXCEPT !.at = "init", !.pad = SubPad]
<1>3. Changes(t, r)
  BY <1>1, ThreadTyped DEF Changes, Reclose
<1>4. r.at = "init" /\ r.pad = SubPad /\ r.result = th[t].result
  BY <1>1 DEF Activity
<1> HIDE DEF r
<1>5. Stands(t, "init", SubPad, th[t].result)
  BY <1>3, <1>4, ChangesStands
<1> QED BY <1>1, <1>2, <1>5, PadGiven

\* A step of t in its loop that leaves $i at n and d rounds made.
LEMMA LoopStep ==
    ASSUME Typed, RoundsInv, NEW t \in Worker, th[t].at \in LoopSteps,
           NEW p \in Pads, p = th[t].pad, NEW n \in Nat, NEW d \in Nat,
           lex'[p].i = n, hist'.done[p] = d, n <= d, hist.done[p] <= d,
           \A q \in Pads \ {p} : lex'[q].i = lex[q].i /\ hist'.done[q] = hist.done[q],
           NEW at \in {"test", "body", "put"}, NEW result \in {"none", "value"},
           Stands(t, at, p, result), at # "put" => result = "none",
           result = "value" => d >= Rounds,
           Alone(t) => /\ n = d /\ n <= Rounds
                       /\ at = "body" => n < Rounds
                       /\ result = "value" => n = Rounds
    PROVE  RoundsInv'
<1>0. Nobody \notin Pads
  BY ThreadsAssumption DEF Pads
<1>1. \A u, v \in Worker : th'[u].pad = th[u].pad
  BY DEF Stands
<1>2. PadPlaces'
  <2> SUFFICES ASSUME NEW u \in Worker PROVE PadPlace(u, th'[u])
    BY DEF PadPlaces
  <2>1. CASE u = t
    <3>1. PadPlace(t, th[t])
      BY DEF RoundsInv, PadPlaces
    <3> QED BY <2>1, <3>1 DEF Stands, PadPlace, LoopSteps
  <2>2. CASE u # t
    BY <2>2 DEF Stands, RoundsInv, PadPlaces
  <2> QED BY <2>1, <2>2
<1>3. ASSUME NEW q \in Pads PROVE PadCount(q)'
  <2>1. CASE q = p
    BY <1>1, <2>1 DEF PadCount
  <2>2. CASE q # p
    BY <1>1, <2>2 DEF PadCount, RoundsInv
  <2> QED BY <2>1, <2>2
<1>4. ASSUME NEW u \in Worker PROVE Made(u)'
  <2>0. Alone(u)' <=> Alone(u)
    BY <1>1 DEF Alone
  <2>1. CASE u = t
    <3>1. th'[t].at = at /\ th'[t].pad = p /\ th'[t].result = result
      BY DEF Stands
    <3> QED BY <2>0, <2>1, <3>1 DEF Made, RoundSteps
  <2>2. CASE u # t
    <3>1. th'[u] = th[u] /\ Made(u) /\ th[u].pad \in Pads \cup {Nobody}
      BY <2>2 DEF Stands, RoundsInv, PadPlaces, PadPlace, Pads
    <3>2. CASE th[u].pad = Nobody
      BY <3>1, <3>2 DEF Made
    <3>3. CASE th[u].pad = p
      <4>1. ~Alone(u)
        BY <2>2, <3>3 DEF Alone
      <4>2. hist.done[p] \in Nat /\ Rounds \in Nat
        BY PadsTyped, ThreadsAssumption
      <4> QED BY <2>0, <3>1, <3>3, <4>1, <4>2 DEF Made
    <3>4. CASE th[u].pad \in Pads \ {p}
      <4>1. /\ lex'[th[u].pad].i = lex[th[u].pad].i
            /\ hist'.done[th[u].pad] = hist.done[th[u].pad]
        BY <3>4
      <4> QED BY <2>0, <3>1, <4>1 DEF Made
    <3> QED BY <3>1, <3>2, <3>3, <3>4
  <2> QED BY <2>1, <2>2
<1> QED BY <1>2, <1>3, <1>4 DEF RoundsInv

\* The pad that t loops in, $i there, and the rounds made.
LEMMA LoopPad ==
    ASSUME Typed, RoundsInv, NEW t \in Worker, th[t].at \in LoopSteps
    PROVE  \E p \in Pads, i, d \in Nat :
              /\ p = th[t].pad /\ p # Nobody
              /\ lex[p].i = i /\ hist.done[p] = d /\ i <= d
              /\ th[t].result = "none"
              /\ Alone(t) => /\ i = d /\ i <= Rounds
                             /\ th[t].at = "init" => i = 0
                             /\ th[t].at \in RoundSteps => i < Rounds
<1>1. th[t].pad \in Pads /\ Nobody \notin Pads
  BY PadKnown, ThreadsAssumption DEF Pads
<1>2. lex[th[t].pad].i \in Nat /\ hist.done[th[t].pad] \in Nat
  BY <1>1, PadsTyped
<1>3. PadCount(th[t].pad) /\ Made(t) /\ PadPlace(t, th[t])
  BY <1>1 DEF RoundsInv, PadPlaces
<1> QED BY <1>1, <1>2, <1>3 DEF PadCount, Made, PadPlace

LEMMA SetLexCounts ==
    ASSUME Typed, NEW t \in Worker, NEW p \in Pads, p = th[t].pad, NEW n, SetLex(t, "i", n)
    PROVE  lex'[p].i = n /\ \A q \in Pads \ {p} : lex'[q].i = lex[q].i
<1>1. lex \in [Pads -> [i : Nat, val : Int]]
  BY DEF Typed, TypeOK, Pads
<1>2. lex' = [lex EXCEPT ![p]["i"] = n]
  BY DEF SetLex
<1>3. PICK r : r = [lex[p] EXCEPT !["i"] = n]
  OBVIOUS
<1>4. r.i = n /\ lex' = [lex EXCEPT ![p] = r]
  BY <1>1, <1>2, <1>3
<1> QED BY <1>1, <1>4

LEMMA LoopInitRounds ==
    ASSUME Typed, RoundsInv, NEW t \in Worker, LoopInit(t)
    PROVE  RoundsInv'
<1>1. th[t].at = "init" /\ th[t].at \in LoopSteps /\ t \in Thread
  BY DEF LoopInit, Runs, LoopSteps, Thread
<1>2. PICK p \in Pads, i, d \in Nat :
              /\ p = th[t].pad /\ p # Nobody
              /\ lex[p].i = i /\ hist.done[p] = d /\ i <= d
              /\ th[t].result = "none"
              /\ Alone(t) => /\ i = d /\ i <= Rounds
                             /\ th[t].at = "init" => i = 0
  BY <1>1, LoopPad
<1>3. lex'[p].i = 0 /\ \A q \in Pads \ {p} : lex'[q].i = lex[q].i
  BY <1>2, SetLexCounts DEF LoopInit
<1>4. Stands(t, "test", p, "none")
  BY <1>1, <1>2, GoesMoves, MovesStands DEF LoopInit
<1>5. hist' = hist
  BY DEF LoopInit
<1> QED BY <1>1, <1>2, <1>3, <1>4, <1>5, LoopStep, ThreadsAssumption

LEMMA LoopTestRounds ==
    ASSUME Typed, RoundsInv, NEW t \in Worker, LoopTest(t)
    PROVE  RoundsInv'
<1>1. th[t].at \in LoopSteps /\ t \in Thread
  BY DEF LoopTest, Runs, LoopSteps, Thread
<1>2. PICK p \in Pads, i, d \in Nat :
              /\ p = th[t].pad /\ p # Nobody
              /\ lex[p].i = i /\ hist.done[p] = d /\ i <= d
              /\ th[t].result = "none"
              /\ Alone(t) => i = d /\ i <= Rounds
  BY <1>1, LoopPad
<1>3. lex' = lex /\ hist' = hist /\ Lexicals(t).i = i
  BY <1>2 DEF LoopTest, Lexicals
<1>4. CASE i < Rounds
  <2>1. Stands(t, "body", p, "none")
    BY <1>1, <1>2, <1>3, <1>4, GoesMoves, MovesStands DEF LoopTest
  <2> QED BY <1>1, <1>2, <1>3, <1>4, <2>1, LoopStep, ThreadsAssumption
<1>5. CASE ~(i < Rounds)
  <2>1. Stands(t, "put", p, "value")
    BY <1>1, <1>2, <1>3, <1>5, LeavesMoves, MovesStands DEF LoopTest
  <2>2. d >= Rounds /\ (Alone(t) => i = Rounds)
    BY <1>2, <1>5, ThreadsAssumption
  <2> QED BY <1>1, <1>2, <1>3, <2>1, <2>2, LoopStep, ThreadsAssumption
<1> QED BY <1>4, <1>5

LEMMA LoopNextRounds ==
    ASSUME Typed, RoundsInv, NEW t \in Worker, LoopNext(t)
    PROVE  RoundsInv'
<1>1. th[t].at \in LoopSteps /\ th[t].at \in RoundSteps /\ t \in Thread
  BY DEF LoopNext, Runs, LoopSteps, RoundSteps, Thread
<1>2. PICK p \in Pads, i, d \in Nat :
              /\ p = th[t].pad /\ p # Nobody
              /\ lex[p].i = i /\ hist.done[p] = d /\ i <= d
              /\ th[t].result = "none"
              /\ Alone(t) => /\ i = d /\ i <= Rounds
                             /\ th[t].at \in RoundSteps => i < Rounds
  BY <1>1, LoopPad
<1>3. lex'[p].i = i + 1 /\ \A q \in Pads \ {p} : lex'[q].i = lex[q].i
  <2>1. SetLex(t, "i", i + 1)
    BY <1>2 DEF LoopNext, Lexicals
  <2> QED BY <1>2, <2>1, SetLexCounts
<1>4. Stands(t, "test", p, "none")
  BY <1>1, <1>2, GoesMoves, MovesStands DEF LoopNext
<1>5. hist'.done[p] = d + 1 /\ \A q \in Pads \ {p} : hist'.done[q] = hist.done[q]
  <2>1. hist.done \in [Pads -> Nat]
    BY DEF Typed, TypeOK, History, Pads
  <2>2. PICK n : n = [hist.done EXCEPT ![p] = @ + 1]
    OBVIOUS
  <2>3. hist'.done = n
    BY <1>2, <2>2 DEF LoopNext, Typed, TypeOK, History
  <2> QED BY <1>2, <2>1, <2>2, <2>3
<1>6. /\ i + 1 <= d + 1 /\ d <= d + 1 /\ i + 1 \in Nat /\ d + 1 \in Nat
      /\ Alone(t) => i + 1 = d + 1 /\ i + 1 <= Rounds
  BY <1>1, <1>2, ThreadsAssumption
<1> QED BY <1>1, <1>2, <1>3, <1>4, <1>5, <1>6, LoopStep

LEMMA RoundsStep == Typed /\ BlockInv /\ RoundsInv /\ Next => RoundsInv'
<1> SUFFICES ASSUME Typed, BlockInv, RoundsInv, Next PROVE RoundsInv'
  OBVIOUS
<1>1. ASSUME NEW t \in Worker, Doit(t) PROVE RoundsInv'
  BY <1>1, EnterSubRounds, RecloseRounds, LoopInitRounds, LoopTestRounds, LoopNextRounds,
     BlockRounds DEF Doit, BlockStep
<1>2. ASSUME NEW t \in Worker, Array(t) PROVE RoundsInv'
  BY <1>2, ArrayRounds, RemoveRounds DEF Array
<1>3. Main \in Thread /\ Worker \subseteq Thread
  BY DEF Thread
<1> QED
  BY <1>1, <1>2, <1>3, PutKillRounds, JoinRounds, JoinReturnRounds, DetachRounds, AsyncRounds
  DEF Next, Runnable, Control

-----------------------------------------------------------------------------
(* The counters *)

\* What a block that ends makes of the counters: nobody has changed those it
\* has read since.
LEMMA BlockEnds ==
    ASSUME Typed, BlockInv, NEW t \in Worker, EndBlock(t)
    PROVE  LET sub == th[t].block.sub
           IN  /\ hist'.ended = [hist.ended EXCEPT ![sub] = @ + 1]
               /\ \/ sub = "plain" /\ th[t].body = "plain"
                  \/ /\ sub \in {"contend", "++"}
                     /\ scalars'.counter = scalars.counter + 1
                     /\ scalars'.moved = scalars.moved
                  \/ /\ sub = "defer" /\ scalars.counter >= 1
                     /\ scalars'.counter = scalars.counter - 1
                     /\ scalars'.moved = scalars.moved + 1
                  \/ /\ sub = "die" /\ th[t].body = "die"
                     /\ scalars'.counter = scalars.counter - 1
                     /\ scalars'.moved = scalars.moved
<1>1. /\ th[t].at = "body" /\ th[t].at \in InBlock /\ Line(t).op \in {"end", "die"}
      /\ Valid(t) /\ Write(t, AsNow(t))
      /\ hist' = [hist EXCEPT !.ended[th[t].block.sub] = @ + 1]
  BY DEF EndBlock, Runs, InBlock, BlockOver, Commits
<1>2. hist'.ended = [hist.ended EXCEPT ![th[t].block.sub] = @ + 1]
  BY <1>1 DEF Typed, TypeOK, History
<1>3. PICK line, sub, log : line = th[t].block.line /\ sub = th[t].block.sub /\ log = LogOf(t)
  OBVIOUS
<1>4. log = th[t].block.log
  BY <1>3 DEF LogOf
<1>5. \/ sub \in {"contend", "plain"} /\ line \notin {1, 2}
      \/ sub = "++" /\ line # 1
      \/ sub = "defer" /\ line \notin {1, 2, 3}
      \/ sub = "die" /\ line # 1
  <2>1. Assigning(th[t])
    BY <1>1, BlockKinds
  <2>2. \A to, from, add : Set(to, from, add).op = "="
    BY DEF Set
  <2>3. Op("defer").op = "defer"
    BY DEF Op
  <2>4. sub \in {"contend", "plain", "++", "defer", "die"}
    BY <1>1, <1>3, BlockKinds DEF Plainly, Contending, Incrementing, Moving, Dying
  <2> QED BY <1>1, <1>3, <2>1, <2>2, <2>3, <2>4 DEF Assigning, Line
<1>6. /\ scalars'.counter = AsNow(t)["counter"] /\ scalars'.moved = AsNow(t)["moved"]
  BY <1>1 DEF Write
<1>7. \A v \in {"counter", "moved"} :
        /\ v \in log.known => log.seen[v] = TVars(t)[v] /\ AsNow(t)[v] = log.now[v]
        /\ v \notin log.known => AsNow(t)[v] = TVars(t)[v]
  <2>1. \A v \in Var : AsNow(t)[v] = IF v \in log.known THEN log.now[v] ELSE TVars(t)[v]
    BY <1>1, <1>3, TVarsTyped
  <2> QED BY <1>1, <1>3, <2>1 DEF Valid, Var
<1>8. TVars(t)["counter"] = scalars.counter /\ TVars(t)["moved"] = scalars.moved
  BY <1>1, TVarsTyped
<1>9. scalars.counter \in Int /\ scalars.moved \in Int
  BY DEF Typed, TypeOK
<1>10. CASE Plainly(th[t])
  BY <1>10, <1>2 DEF Plainly
<1>11. CASE Contending(th[t])
  BY <1>11, <1>1, <1>2, <1>3, <1>4, <1>5, <1>6, <1>7, <1>8 DEF Contending
<1>12. CASE Incrementing(th[t])
  BY <1>12, <1>1, <1>2, <1>3, <1>4, <1>5, <1>6, <1>7, <1>8 DEF Incrementing
<1>13. CASE Moving(th[t])
  BY <1>13, <1>1, <1>2, <1>3, <1>4, <1>5, <1>6, <1>7, <1>8, <1>9, SMTT(30) DEF Moving
<1>14. CASE Dying(th[t])
  BY <1>14, <1>1, <1>2, <1>3, <1>4, <1>5, <1>6, <1>7, <1>8 DEF Dying
<1> QED BY <1>1, <1>10, <1>11, <1>12, <1>13, <1>14, BlockKinds

LEMMA EndBlockSum ==
    ASSUME Typed, BlockInv, SumInv, NEW t \in Worker, EndBlock(t),
           Uses("plain") => Uses("plain")', Uses("die") => Uses("die")'
    PROVE  CountersAddUp' /\ NeverOverdrawn'
<1>1. CASE Uses("plain")
  BY <1>1 DEF CountersAddUp, NeverOverdrawn
<1>2. CASE ~Uses("plain")
  <2>1. th[t].body # "plain"
    BY <1>2 DEF Uses
  <2>2. PICK e : e = hist.ended
    OBVIOUS
  <2>3. /\ e \in [LoopBodies -> Nat]
        /\ scalars.counter \in Int /\ scalars.moved \in Int
    BY <2>2 DEF Typed, TypeOK, History
  <2>4. /\ e["contend"] \in Nat /\ e["++"] \in Nat /\ e["defer"] \in Nat /\ e["die"] \in Nat
    BY <2>3 DEF LoopBodies
  <2>5. /\ scalars.moved = e["defer"]
        /\ scalars.counter = e["contend"] + e["++"] - e["defer"] - e["die"]
        /\ ~Uses("die") => scalars.counter >= 0
    BY <1>2, <2>2 DEF SumInv, CountersAddUp, NeverOverdrawn
  <2>6. PICK sub, n : sub = th[t].block.sub /\ n = hist'.ended
    OBVIOUS
  <2>7. /\ n = [e EXCEPT ![sub] = @ + 1]
        /\ \/ /\ sub \in {"contend", "++"}
              /\ scalars'.counter = scalars.counter + 1 /\ scalars'.moved = scalars.moved
           \/ /\ sub = "defer" /\ scalars.counter >= 1
              /\ scalars'.counter = scalars.counter - 1
              /\ scalars'.moved = scalars.moved + 1
           \/ /\ sub = "die" /\ th[t].body = "die"
              /\ scalars'.counter = scalars.counter - 1 /\ scalars'.moved = scalars.moved
    BY <2>1, <2>2, <2>6, BlockEnds, ZenonT(30)
  <2>8. /\ scalars'.moved = n["defer"]
        /\ scalars'.counter = n["contend"] + n["++"] - n["defer"] - n["die"]
    BY <2>3, <2>4, <2>5, <2>7 DEF LoopBodies
  <2>9. ~Uses("die") => scalars'.counter >= 0
    <3>1. ~Uses("die") => th[t].body # "die"
      BY DEF Uses
    <3> QED BY <2>3, <2>5, <2>7, <3>1
  <2> QED BY <2>6, <2>8, <2>9 DEF CountersAddUp, NeverOverdrawn
<1> QED BY <1>1, <1>2

\* Every other step leaves the counters and the history of blocks alone.
LEMMA ScalarsKept ==
    ASSUME Typed, Next,
           ~\E t \in Worker : EndBlock(t) \/ (Store(t) /\ th[t].body = "plain")
    PROVE  UNCHANGED scalars /\ hist'.ended = hist.ended
<1>1. ASSUME NEW t \in Thread, JoinReturn(t) PROVE UNCHANGED scalars /\ hist'.ended = hist.ended
  BY <1>1 DEF JoinReturn, Joined, Typed, TypeOK, History
<1>2. ASSUME NEW t \in Worker, Remove(t) PROVE UNCHANGED scalars /\ hist'.ended = hist.ended
  BY <1>2 DEF Remove, Typed, TypeOK, History
<1>3. ASSUME NEW t \in Worker, Detach(t) PROVE UNCHANGED scalars /\ hist'.ended = hist.ended
  BY <1>3 DEF Detach, Typed, TypeOK, History
<1>4. ASSUME NEW t \in Worker, LoopNext(t) PROVE UNCHANGED scalars /\ hist'.ended = hist.ended
  BY <1>4 DEF LoopNext, Typed, TypeOK, History
<1>5. ASSUME NEW t \in Worker,
             \/ EnterSub(t) \/ Reclose(t) \/ LoopInit(t) \/ LoopTest(t) \/ Put(t)
             \/ Fetch(t) \/ OrDefer(t) \/ Wake(t) \/ Restart(t)
             \/ Store(t) /\ th[t].body # "plain"
      PROVE  UNCHANGED scalars /\ hist'.ended = hist.ended
  BY <1>5 DEF EnterSub, Reclose, LoopInit, LoopTest, Put,
              Fetch, OrDefer, Wake, Restart, Store, Atomic
<1>6. ASSUME NEW t \in Worker,
             \/ Push(t) \/ RemoveNothing(t) \/ ReadIVar(t) \/ FetchElem(t)
             \/ Extend(t) \/ FetchAgain(t) \/ Assign(t) \/ Kill(t)
      PROVE  UNCHANGED scalars /\ hist'.ended = hist.ended
  BY <1>6 DEF Push, RemoveNothing, ReadIVar, FetchElem, Extend, FetchAgain, Assign, Kill
<1>7. ASSUME NEW t \in Thread, NEW u \in Worker, Join(t, u)
      PROVE  UNCHANGED scalars /\ hist'.ended = hist.ended
  BY <1>7 DEF Join
<1>8. ASSUME NEW u \in Worker, NEW body \in Bodies, Async(u, body)
      PROVE  UNCHANGED scalars /\ hist'.ended = hist.ended
  BY <1>8 DEF Async
<1>9. Main \in Thread /\ Worker \subseteq Thread
  BY DEF Thread
<1> QED
  BY <1>1, <1>2, <1>3, <1>4, <1>5, <1>6, <1>7, <1>8, <1>9
  DEF Next, Runnable, Doit, Array, Control

\* A thread keeps the body it was given, and none is unborn again.
BodiesKept ==
    \A u \in Worker :
        /\ th[u].at # "unborn" => th'[u].at # "unborn" /\ th'[u].body = th[u].body
        /\ th'[u].at = "unborn" => th'[u].body = th[u].body

LEMMA ChangesBodies ==
    ASSUME Typed, NEW t \in Thread, NEW r, Changes(t, r),
           r.at # "unborn" /\ r.body = th[t].body
    PROVE  BodiesKept
BY DEF Typed, TypeOK, Thread, Changes, BodiesKept

LEMMA MovesBodies ==
    ASSUME Typed, NEW t \in Thread, NEW at, NEW result, Moves(t, at, result), at # "unborn"
    PROVE  BodiesKept
BY ChangesBodies DEF Moves

LEMMA LoopBodiesKept ==
    ASSUME Typed, BlockInv, NEW t \in Worker, Doit(t)
    PROVE  BodiesKept
<1>1. t \in Thread /\ th[t] \in Activity
  BY ThreadTyped DEF Thread
<1>2. CASE EnterSub(t) /\ started
  <2> DEFINE r == [th[t] EXCEPT !.at = "init", !.pad = t]
  <2>1. Changes(t, r) /\ r.at # "unborn" /\ r.body = th[t].body
    BY <1>1, <1>2, ThreadTyped DEF Changes, EnterSub, Activity
  <2> QED BY <1>1, <2>1, ChangesBodies
<1>3. CASE Reclose(t)
  <2> DEFINE r == [th[t] EXCEPT !.at = "init", !.pad = SubPad]
  <2>1. Changes(t, r) /\ r.at # "unborn" /\ r.body = th[t].body
    BY <1>1, <1>3, ThreadTyped DEF Changes, Reclose, Activity
  <2> QED BY <1>1, <2>1, ChangesBodies
<1>4. CASE EnterSub(t) /\ ~started
  <2>1. Goes(t, "reclose")
    BY <1>4 DEF EnterSub, Goes
  <2> QED BY <1>1, <2>1, GoesMoves, MovesBodies
<1>5. CASE LoopInit(t) \/ LoopTest(t) \/ LoopNext(t)
  <2>1. Goes(t, "test") \/ Goes(t, "body") \/ Leaves(t, "value")
    BY <1>5 DEF LoopInit, LoopTest, LoopNext
  <2> QED BY <1>1, <2>1, GoesMoves, LeavesMoves, MovesBodies
<1>6. CASE BlockStep(t)
  <2>1. PICK r : Changes(t, r) /\ r.at # "unborn" /\ r.body = th[t].body
    BY <1>6, BlockSteps DEF Becomes, InBlock
  <2> QED BY <1>1, <2>1, ChangesBodies
<1> QED BY <1>2, <1>3, <1>4, <1>5, <1>6 DEF Doit, BlockStep

LEMMA ArrayBodiesKept ==
    ASSUME Typed, NEW t \in Worker, Array(t)
    PROVE  BodiesKept
<1>1. t \in Thread
  BY DEF Thread
<1>2. CASE Remove(t)
  <2>1. PICK c :
          th' = [u \in Thread |->
                   IF u = t THEN [th[u] EXCEPT !.at = "readIVar", !.tmp = c]
                   ELSE IF u \in Again THEN [th[u] EXCEPT !.raced = TRUE] ELSE th[u]]
    BY <1>2 DEF Remove
  <2> SUFFICES ASSUME NEW u \in Worker
               PROVE  /\ th'[u].body = th[u].body
                      /\ th[u].at # "unborn" => th'[u].at # "unborn"
    BY DEF BodiesKept
  <2>2. u \in Thread /\ th[u] \in Activity
    BY ThreadTyped DEF Thread
  <2>3. \/ th'[u] = [th[u] EXCEPT !.at = "readIVar", !.tmp = c]
        \/ th'[u] = [th[u] EXCEPT !.raced = TRUE] \/ th'[u] = th[u]
    BY <2>1, <2>2
  <2> QED BY <2>2, <2>3 DEF Activity
<1>3. CASE ~Remove(t)
  <2>1. \/ \E result : Leaves(t, result)
        \/ Goes(t, "extend") \/ Goes(t, "again") \/ \E n : GoesWith(t, "assign", n)
    BY <1>3
    DEF Array, Push, RemoveNothing, ReadIVar, FetchElem, Extend, FetchAgain, Assign
  <2>2. PICK at \in {"put", "extend", "again", "assign"} : \E result : Moves(t, at, result)
    BY <1>1, <2>1, GoesMoves, LeavesMoves
  <2>3. PICK result : Moves(t, at, result)
    BY <2>2
  <2> QED BY <1>1, <2>3, MovesBodies
<1> QED BY <1>2, <1>3

LEMMA JoinBodiesKept ==
    ASSUME Typed, NEW t \in Thread, JoinReturn(t) \/ \E u \in Worker : Join(t, u)
    PROVE  BodiesKept
<1>1. CASE JoinReturn(t) /\ t = Main
  <2> DEFINE r == [th[t] EXCEPT !.at = "main", !.who = Nobody]
  <2>1. Changes(t, r) /\ r.at # "unborn" /\ r.body = th[t].body
    BY <1>1, ThreadTyped DEF Changes, JoinReturn, Joined, Activity
  <2> QED BY <2>1, ChangesBodies
<1>2. CASE JoinReturn(t) /\ t # Main
  <2>1. Leaves(t, lock[th[t].who])
    BY <1>2 DEF JoinReturn, Joined
  <2> QED BY <2>1, LeavesMoves, MovesBodies
<1>3. ASSUME NEW u \in Worker, Join(t, u) PROVE BodiesKept
  <2>1. th' = [th EXCEPT ![t].at = "join", ![t].who = u]
    BY <1>3 DEF Join
  <2> QED BY <2>1, GoesMoves, MovesBodies
<1> QED BY <1>1, <1>2, <1>3

LEMMA BodiesStep ==
    ASSUME Typed, BlockInv, Next
    PROVE  \/ BodiesKept
           \/ \E u \in Worker, body \in Bodies : Async(u, body)
<1>1. ASSUME NEW t \in Worker, Put(t) \/ Kill(t) PROVE BodiesKept
  <2>1. t \in Thread /\ (Goes(t, "dead") \/ Moves(t, "killed", th[t].result))
    BY <1>1, KillMoves DEF Put, Thread
  <2> QED BY <2>1, GoesMoves, MovesBodies
<1>2. ASSUME NEW u \in Worker, Detach(u) PROVE BodiesKept
  BY <1>2 DEF Detach, BodiesKept
<1>3. Main \in Thread /\ Worker \subseteq Thread
  BY DEF Thread
<1> QED
  BY <1>1, <1>2, <1>3, LoopBodiesKept, ArrayBodiesKept, JoinBodiesKept
  DEF Next, Runnable, Control

LEMMA SumStep == Typed /\ BlockInv /\ SumInv /\ Next => SumInv'
<1> SUFFICES ASSUME Typed, BlockInv, SumInv, Next PROVE SumInv'
  OBVIOUS
<1>1. ASSUME NEW t \in Worker, th[t].at = "unborn" PROVE th[t].body \notin {"plain", "die"}
  BY <1>1 DEF SumInv
<1> DEFINE Given(body) ==
             /\ Uses(body) => Uses(body)'
             /\ \A t \in Worker : th'[t].at = "unborn" => th'[t].body # body
<1>2. ASSUME NEW body \in {"plain", "die"} PROVE Given(body)
  <2>1. CASE BodiesKept
    <3> SUFFICES ASSUME NEW t \in Worker
                 PROVE  /\ th[t].body = body => th'[t].body = body
                        /\ th'[t].at = "unborn" => th'[t].body # body
      BY DEF Uses
    <3> QED BY <1>1, <2>1 DEF BodiesKept
  <2>2. ASSUME NEW u \in Worker, NEW b \in Bodies, Async(u, b) PROVE Given(body)
    <3> SUFFICES ASSUME NEW t \in Worker
                 PROVE  /\ th[t].body = body => th'[t].body = body
                        /\ th'[t].at = "unborn" => th'[t].body # body
      BY DEF Uses
    <3>1. th \in [Thread -> Activity] /\ t \in Thread
      BY DEF Typed, TypeOK, Thread
    <3>2. CASE t = u
      <4>1. th[t].at = "unborn" /\ th'[t] = Doing("enter", b)
        BY <2>2, <3>1, <3>2 DEF Async
      <4> QED BY <1>1, <4>1 DEF Doing
    <3>3. CASE t # u
      <4>1. th'[t] = th[t]
        BY <2>2, <3>1, <3>3 DEF Async
      <4> QED BY <1>1, <4>1
    <3> QED BY <3>2, <3>3
  <2> QED BY <2>1, <2>2, BodiesStep
<1>3. CountersAddUp' /\ NeverOverdrawn'
  <2>1. ASSUME NEW t \in Worker, EndBlock(t) PROVE CountersAddUp' /\ NeverOverdrawn'
    BY <1>2, <2>1, EndBlockSum
  <2>2. ASSUME NEW t \in Worker, Store(t), th[t].body = "plain"
        PROVE  CountersAddUp' /\ NeverOverdrawn'
    <3>1. Uses("plain")
      BY <2>2 DEF Uses
    <3> QED BY <1>2, <3>1 DEF CountersAddUp, NeverOverdrawn
  <2>3. CASE ~\E t \in Worker : EndBlock(t) \/ (Store(t) /\ th[t].body = "plain")
    <3>1. UNCHANGED scalars /\ hist'.ended = hist.ended
      BY <2>3, ScalarsKept
    <3> QED BY <1>2, <3>1 DEF SumInv, CountersAddUp, NeverOverdrawn
  <2> QED BY <2>1, <2>2, <2>3
<1> QED BY <1>2, <1>3 DEF SumInv

-----------------------------------------------------------------------------
(* The theorems *)

LEMMA RoundsInvariant == Spec => [](RoundsInv /\ SumInv)
<1>1. IInv => Typed /\ BlockInv
  BY DEF IInv
<1>2. RoundsInv /\ SumInv /\ IInv /\ [Next]_vars => (RoundsInv /\ SumInv)'
  <2> SUFFICES ASSUME RoundsInv, SumInv, Typed, BlockInv, [Next]_vars PROVE RoundsInv' /\ SumInv'
    BY <1>1
  <2>1. CASE Next
    BY <2>1, RoundsStep, SumStep
  <2>2. CASE UNCHANGED vars
    <3>1. UNCHANGED <<scalars, lex, th, hist>>
      BY <2>2 DEF vars
    <3>2. CountsKept /\ \A u \in Worker : Quiet(u)
      BY <3>1, LexKept DEF Quiet, Follows, RoundsInv, PadPlaces
    <3>3. RoundsInv'
      BY <3>2, QuietStep
    <3>4. SumInv'
      BY <3>1 DEF SumInv, CountersAddUp, NeverOverdrawn, Uses
    <3> QED BY <3>3, <3>4
  <2> QED BY <2>1, <2>2
<1> QED BY <1>2, RoundsInit, InductiveInvariant, PTL DEF Spec

\* Blocks of contend, maybe, defer, die and post:++ make of the counters what
\* they would one after the other, for any number of threads and rounds, though
\* they read and write them step by step: a log that is valid in the end, and
\* that every access goes through, is enough (src/src/Pugs/AST/Eval.hs:179-195,
\* src/src/Pugs/Prim.hs:104-106).
THEOREM CountersAddUpAlways == Spec => []CountersAddUp
<1>1. SumInv => CountersAddUp
  BY DEF SumInv
<1> QED BY <1>1, RoundsInvariant, PTL

\* A block that looks whether it has taken too much after it has done so leaves
\* the counter at or above zero (src/src/Pugs/Prim.hs:104-106).
THEOREM NeverOverdrawnAlways == Spec => []NeverOverdrawn
<1>1. SumInv => NeverOverdrawn
  BY DEF SumInv
<1> QED BY <1>1, RoundsInvariant, PTL

\* A call that has its pad to itself makes all its rounds, however threads
\* interleave; calls that share the pad of a sub's first call make at least as
\* many between them (src/src/Pugs/Monads.hs, enterSub).
THEOREM RoundsAreMade == Spec => []RoundsMade
<1>1. ASSUME Typed, RoundsInv PROVE RoundsMade
  <2> SUFFICES ASSUME NEW p \in Worker \cup {SubPad}, NEW t \in Worker,
                      th[t].pad = p, th[t].result = "value"
               PROVE  IF Cardinality({u \in Worker : th[u].pad = p}) = 1
                      THEN hist.done[p] = Rounds ELSE hist.done[p] >= Rounds
    BY DEF RoundsMade
  <2>1. Made(t) /\ p # Nobody
    BY <1>1, ThreadsAssumption DEF RoundsInv
  <2>2. ASSUME Cardinality({u \in Worker : th[u].pad = p}) = 1 PROVE Alone(t)
    <3> DEFINE users == {u \in Worker : th[u].pad = p}
    <3>1. IsFiniteSet(users) /\ t \in users
      BY FS_Subset, ThreadsAssumption
    <3>2. PICK v : users = {v}
      BY <2>2, <3>1, FS_Singleton
    <3> QED BY <3>1, <3>2 DEF Alone
  <2> QED BY <1>1, <2>1, <2>2 DEF Made
<1>2. IInv => Typed
  BY DEF IInv
<1> QED BY <1>1, <1>2, RoundsInvariant, InductiveInvariant, PTL
=============================================================================
