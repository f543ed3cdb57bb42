------------------------ MODULE SmopLowlevelProofs ------------------------
(***************************************************************************)
(* What SmopLowlevel's model checking shows for two threads and three      *)
(* objects, proved for any number of them: IInv is an inductive invariant, *)
(* and the safety properties follow from it.                               *)
(***************************************************************************)
EXTENDS SmopLowlevel, FiniteSetTheorems, SequenceTheorems, TLAPS

-----------------------------------------------------------------------------
(* Slots, sets of pointers and sequences *)

LEMMA SlotFacts ==
    /\ Local \subseteq Slot
    /\ \A o \in Object : /\ Field(o) \in Slot \ Local
                         /\ Moved(o) \in Slot \ Local
    /\ \A o, p \in Object : /\ Field(o) # Moved(p)
                            /\ Field(o) = Field(p) => o = p
                            /\ Moved(o) = Moved(p) => o = p
BY LowlevelAssumption DEF Slot, Field, Moved

LEMMA SlotFinite == IsFiniteSet(Slot)
<1> DEFINE F == {Field(o) : o \in Object}
           M == {Moved(o) : o \in Object}
<1>1. IsFiniteSet(F)
  <2>1. [o \in Object |-> Field(o)] \in Surjection(Object, F)
    BY DEF Surjection
  <2> QED BY <2>1, FS_Surjection, LowlevelAssumption
<1>2. IsFiniteSet(M)
  <2>1. [o \in Object |-> Moved(o)] \in Surjection(Object, M)
    BY DEF Surjection
  <2> QED BY <2>1, FS_Surjection, LowlevelAssumption
<1> QED BY <1>1, <1>2, FS_Union, LowlevelAssumption DEF Slot

\* Counting pointers before and after one variable is filled or emptied, or
\* one pointer moves to an empty variable.

\* The variables of a function f that lead to o; Pointers(o) is Leading(ptr, o).
Leading(f, o) == {s \in Slot : f[s] = o}

LEMMA LeadingFinite ==
    ASSUME NEW f, NEW o
    PROVE  IsFiniteSet(Leading(f, o)) /\ Cardinality(Leading(f, o)) \in Nat
BY SlotFinite, FS_Subset, FS_CardinalityType DEF Leading

LEMMA CountSame ==
    ASSUME NEW f, NEW g, NEW o, \A s \in Slot : g[s] = o <=> f[s] = o
    PROVE  Leading(g, o) = Leading(f, o)
BY DEF Leading

LEMMA CountFill ==
    ASSUME NEW f, NEW g, NEW o, NEW d \in Slot, f[d] # o, g[d] = o,
           \A s \in Slot \ {d} : g[s] = f[s]
    PROVE  Cardinality(Leading(g, o)) = Cardinality(Leading(f, o)) + 1
<1>1. Leading(g, o) = Leading(f, o) \cup {d} /\ d \notin Leading(f, o)
  BY DEF Leading
<1> QED BY <1>1, LeadingFinite, FS_AddElement

LEMMA CountClear ==
    ASSUME NEW f, NEW g, NEW o, NEW d \in Slot, f[d] = o, g[d] # o,
           \A s \in Slot \ {d} : g[s] = f[s]
    PROVE  Cardinality(Leading(g, o)) = Cardinality(Leading(f, o)) - 1
<1>1. Cardinality(Leading(f, o)) = Cardinality(Leading(g, o)) + 1
  BY CountFill
<1> QED BY <1>1, LeadingFinite

LEMMA CountMove ==
    ASSUME NEW f, NEW g, NEW o, NEW d \in Slot, NEW e \in Slot,
           f[e] = o, g[e] # o, f[d] # o, g[d] = o,
           \A s \in Slot \ {d, e} : g[s] = f[s]
    PROVE  Cardinality(Leading(g, o)) = Cardinality(Leading(f, o))
<1> DEFINE h == [s \in Slot |-> IF s = e THEN g[e] ELSE f[s]]
<1>1. /\ h[e] # o /\ h[d] # o
      /\ \A s \in Slot \ {e} : h[s] = f[s]
      /\ \A s \in Slot \ {d} : g[s] = h[s]
  OBVIOUS
<1> HIDE DEF h
<1>2. Cardinality(Leading(h, o)) = Cardinality(Leading(f, o)) - 1
  BY <1>1, CountClear
<1>3. Cardinality(Leading(g, o)) = Cardinality(Leading(h, o)) + 1
  BY <1>1, CountFill
<1> QED BY <1>2, <1>3, LeadingFinite

\* A variable that is the only one to lead to an object.
LEMMA CountOne ==
    ASSUME NEW f, NEW o, NEW d \in Slot, f[d] = o,
           Cardinality(Leading(f, o)) <= 1
    PROVE  \A s \in Slot : f[s] = o => s = d
<1>1. /\ Cardinality(Leading(f, o) \ {d}) = Cardinality(Leading(f, o)) - 1
      /\ IsFiniteSet(Leading(f, o) \ {d})
  <2>1. d \in Leading(f, o)
    BY DEF Leading
  <2> QED BY <2>1, LeadingFinite, FS_RemoveElement
<1>2. Cardinality(Leading(f, o) \ {d}) = 0
  BY <1>1, LeadingFinite, FS_CardinalityType
<1>3. Leading(f, o) \ {d} = {}
  BY <1>1, <1>2, FS_EmptySet
<1> QED BY <1>3 DEF Leading

LEMMA FrontFacts ==
    ASSUME NEW S, NEW seq \in Seq(S), seq # <<>>
    PROVE  /\ Front(seq) \in Seq(S)
           /\ Last(seq) \in S
           /\ Len(seq) \in DOMAIN seq
           /\ DOMAIN Front(seq) \subseteq DOMAIN seq
           /\ \A i \in DOMAIN Front(seq) : Front(seq)[i] = seq[i]
<1>1. Len(seq) \in Nat \ {0} /\ DOMAIN seq = 1 .. Len(seq)
  BY EmptySeq, LenProperties
<1>2. \A i \in 1 .. Len(seq) : seq[i] \in S
  BY ElementOfSeq
<1>3. /\ Front(seq) \in Seq(S)
      /\ Len(Front(seq)) = Len(seq) - 1
      /\ \A i \in 1 .. Len(seq) - 1 : Front(seq)[i] = seq[i]
  BY <1>1, <1>2, SubSeqProperties DEF Front
<1> QED BY <1>1, <1>2, <1>3, LenProperties DEF Last

\* The fields of a call in progress, and of the call one step further on.
LEMMA CallFacts ==
    ASSUME NEW c \in Call
    PROVE  /\ c # NoCall
           /\ c.fn \in {"inc", "dec", "self"}
           /\ c.at \in {"lock", "load", "store", "unlock"}
           /\ c.obj \in Object /\ c.src \in Slot /\ c.slot \in Slot
           /\ c.via \in Via /\ c.tmp \in Int
<1>1. /\ c.fn \in {"inc", "dec", "self"}
      /\ c.at \in {"lock", "load", "store", "unlock"}
      /\ c.obj \in Object /\ c.src \in Slot /\ c.slot \in Slot
      /\ c.via \in Via /\ c.tmp \in Int
  BY DEF Call
<1>2. NoCall.fn = "none"
  BY DEF NoCall
<1> QED BY <1>1, <1>2

LEMMA CallStep ==
    ASSUME NEW c \in Call, NEW a \in {"lock", "load", "store", "unlock"},
           NEW d, d = [c EXCEPT !.at = a]
    PROVE  /\ d \in Call
           /\ d.at = a /\ d.fn = c.fn /\ d.obj = c.obj /\ d.src = c.src
           /\ d.slot = c.slot /\ d.via = c.via /\ d.tmp = c.tmp
BY DEF Call

LEMMA NewCallFacts ==
    ASSUME NEW fn \in {"inc", "dec", "self"}, NEW o \in Object,
           NEW s \in Slot, NEW d \in Slot, NEW via \in Via
    PROVE  [fn |-> fn, at |-> "lock", obj |-> o, src |-> s, slot |-> d,
            via |-> via, tmp |-> 0] \in Call
BY DEF Call

LEMMA ItemsAreObjects ==
    ASSUME TypeOK, NEW t \in Thread
    PROVE  Items(t) \subseteq Object
<1>1. \A i \in DOMAIN stack[t] : stack[t][i].obj \in Object
  <2>1. stack[t] \in Seq(Activation)
    BY DEF TypeOK
  <2>2. \A i \in DOMAIN stack[t] : stack[t][i] \in Activation
    BY <2>1, LenProperties, ElementOfSeq
  <2> QED BY <2>2 DEF Activation
<1>2. \A i \in DOMAIN chain[t] : chain[t][i] \in Object
  BY LenProperties, ElementOfSeq DEF TypeOK
<1>3. Calling(t, "self") => call[t].obj \in Object
  BY CallFacts DEF TypeOK, Calling
<1> QED BY <1>1, <1>2, <1>3 DEF Items

\* Nothing a thread works on is taken up by a step that only removes items
\* and does not bring a destroyed object back.
LEMMA ItemsKept ==
    ASSUME TypeOK, OneDestroyer,
           \A u \in Thread : Items(u)' \subseteq Items(u),
           \A p \in Object : stage[p] \notin {"unborn", "live", "doomed"}
                              => stage'[p] \notin {"unborn", "live", "doomed"}
    PROVE  OneDestroyer'
BY ItemsAreObjects DEF OneDestroyer

\* The items of a thread that keeps its stack, chain and current self-release.
LEMMA ItemsSame ==
    ASSUME NEW u \in Thread, stack'[u] = stack[u], chain'[u] = chain[u],
           Calling(u, "self")' => Calling(u, "self") /\ call'[u].obj = call[u].obj
    PROVE  Items(u)' \subseteq Items(u)
BY DEF Items

LEMMA ItemsPushed ==
    ASSUME TypeOK, OneDestroyer, NEW t \in Thread, NEW o \in Object,
           \A u \in Thread : o \notin Items(u),
           Items(t)' \subseteq Items(t) \cup {o},
           \A u \in Thread \ {t} : Items(u)' \subseteq Items(u),
           stage'[o] \notin {"unborn", "live", "doomed"},
           \A p \in Object : stage[p] \notin {"unborn", "live", "doomed"}
                              => stage'[p] \notin {"unborn", "live", "doomed"}
    PROVE  OneDestroyer'
<1>1. \A u \in Thread : \A p \in Items(u)' :
         stage'[p] \notin {"unborn", "live", "doomed"}
  BY ItemsAreObjects DEF OneDestroyer
<1>2. \A u, v \in Thread : u # v => Items(u)' \cap Items(v)' = {}
  BY DEF OneDestroyer
<1> QED BY <1>1, <1>2 DEF OneDestroyer

LEMMA PushFacts ==
    ASSUME NEW S, NEW seq \in Seq(S), NEW e \in S
    PROVE  /\ Append(seq, e) \in Seq(S)
           /\ \A i \in DOMAIN Append(seq, e) :
                 \/ Append(seq, e)[i] = e
                 \/ i \in DOMAIN seq /\ Append(seq, e)[i] = seq[i]
BY AppendProperties, LenProperties

\* refcnt_inc and refcnt_dec are at work on a live object, or, for the one
\* release its destruction makes of it, on an object past its DESTROYALL.
LEMMA CalledStage ==
    ASSUME IInv, NEW u \in Thread, call[u] # NoCall, call[u].at # "unlock"
    PROVE  /\ call[u].obj \in Object
           /\ stage[call[u].obj] = IF call[u].fn = "self" THEN "self" ELSE "live"
<1>1. call[u] \in Call
  BY DEF IInv, TypeOK
<1>2. call[u].obj \in Object /\ call[u].fn \in {"inc", "dec", "self"}
      /\ call[u].src \in Slot /\ call[u].slot \in Slot
  BY <1>1, CallFacts
<1>3. call[u].obj # NoObject
  BY <1>2, LowlevelAssumption
<1>4. CASE call[u].fn = "inc"
  BY <1>2, <1>3, <1>4 DEF IInv, IncInv, NoDangling, Pending, Calling
<1>5. CASE call[u].fn = "dec"
  BY <1>2, <1>3, <1>5 DEF IInv, DecInv, NoDangling, Pending, Calling
<1>6. CASE call[u].fn = "self"
  BY <1>2, <1>6 DEF IInv, SentinelInv, Calling
<1> QED BY <1>2, <1>4, <1>5, <1>6

LEMMA AllocStep ==
    ASSUME IInv, NEW t \in Thread, NEW o \in Object, NEW s \in Local, Alloc(t, o, s)
    PROVE  IInv'
<1>a. /\ call[t] = NoCall /\ LocalOf[s] = t /\ stage[o] = "unborn"
      /\ s \in Slot /\ Field(o) \in Slot /\ s # Field(o) /\ ptr[Field(o)] = NoObject
  BY SlotFacts DEF IInv, EmptyInv, Alloc, UserCode, Returned
<1>b. UNCHANGED <<lockedBy, call, stack, chain, looping>>
  BY DEF Alloc
<1>c. /\ refCnt' \in [Object -> Int] /\ stage' \in [Object -> Stages]
      /\ ptr' \in [Slot -> Object \cup {NoObject}]
      /\ refCnt'[o] = 1 /\ stage'[o] = "live"
      /\ \A p \in Object \ {o} : refCnt'[p] = refCnt[p] /\ stage'[p] = stage[p]
      /\ ptr'[s] = o /\ ptr'[Field(o)] = ptr[s]
      /\ \A x \in Slot \ {s, Field(o)} : ptr'[x] = ptr[x]
  <2>1. ptr' = [ptr EXCEPT ![Field(o)] = ptr[s], ![s] = o]
    BY DEF Alloc
  <2>2. /\ ptr' \in [Slot -> Object \cup {NoObject}]
        /\ ptr'[s] = o /\ ptr'[Field(o)] = ptr[s]
        /\ \A x \in Slot \ {s, Field(o)} : ptr'[x] = ptr[x]
    BY <1>a, <2>1 DEF IInv, TypeOK
  <2>3. refCnt' = [refCnt EXCEPT ![o] = 1] /\ stage' = [stage EXCEPT ![o] = "live"]
    BY DEF Alloc
  <2> QED BY <2>2, <2>3 DEF IInv, TypeOK, Stages
<1>d. o # NoObject /\ \A x \in Slot : ptr[x] # o
  BY <1>a, LowlevelAssumption DEF IInv, NoDangling
<1>e. \A u \in Thread : (call[u] # NoCall /\ call[u].at # "unlock")
                          => call[u].obj \in Object \ {o}
  BY <1>a, CalledStage
<1>f. \A u \in Thread : Calling(u, "self") => call[u].obj \in Object \ {o}
  BY <1>a, CallFacts DEF IInv, TypeOK, SentinelInv, Calling
<1>1. TypeOK'
  BY <1>b, <1>c DEF IInv, TypeOK
<1>2. LockInv'
  BY SlotFacts, LowlevelAssumption DEF IInv, TypeOK, Alloc, UserCode, Returned, LockInv, NoCall
<1>3. LoadInv'
  BY <1>b, <1>c, <1>e DEF IInv, LoadInv
<1>4. IncInv'
  BY SlotFacts, LowlevelAssumption DEF IInv, TypeOK, Alloc, UserCode, Returned, IncInv, NoDangling, DecInv, Pending, Calling, NoCall
<1>5. DecInv'
  <2> SUFFICES ASSUME NEW u \in Thread, Pending(u, "dec")
               PROVE  /\ ptr'[call[u].slot] = call[u].obj
                      /\ \/ call[u].slot \in Local /\ LocalOf[call[u].slot] = u
                         \/ \E p \in Object : call[u].slot = Moved(p) /\ stage'[p] \in Cleared
    BY <1>b DEF DecInv, Pending, Calling
  <2>1. /\ ptr[call[u].slot] = call[u].obj /\ call[u].slot \in Slot
        /\ \/ call[u].slot \in Local /\ LocalOf[call[u].slot] = u
           \/ \E p \in Object : call[u].slot = Moved(p) /\ stage[p] \in Cleared
    BY CallFacts DEF IInv, TypeOK, DecInv, Pending, Calling
  <2>2. u # t /\ call[u].slot # s /\ call[u].slot # Field(o)
    BY <1>a, <2>1, SlotFacts DEF Pending, Calling
  <2>3. \A p \in Object : stage[p] \in Cleared => stage'[p] \in Cleared
    BY <1>a, <1>c DEF Cleared
  <2> QED BY <1>c, <2>1, <2>2, <2>3
<1>6. DistinctDrops'
  BY SlotFacts, LowlevelAssumption DEF IInv, TypeOK, Alloc, UserCode, Returned, DistinctDrops, DecInv, Pending, Calling, NoCall, Cleared
<1>7. EmptyInv'
  BY SlotFacts, LowlevelAssumption DEF IInv, TypeOK, Alloc, UserCode, Returned, EmptyInv, DecInv, IncInv, Pending, Calling, Cleared
<1>8. NoDangling'
  <2> SUFFICES ASSUME NEW x \in Slot, ptr'[x] # NoObject
               PROVE  stage'[ptr'[x]] = "live"
    BY DEF NoDangling
  <2>1. CASE x = s
    BY <1>c, <2>1
  <2>2. CASE x = Field(o)
    BY <1>a, <1>c, <1>d, <2>2 DEF IInv, TypeOK, NoDangling
  <2>3. CASE x \notin {s, Field(o)}
    BY <1>c, <1>d, <2>3 DEF IInv, TypeOK, NoDangling
  <2> QED BY <2>1, <2>2, <2>3
<1>9. CountMatchesPointers'
  <2> SUFFICES ASSUME NEW q \in Object, stage'[q] = "live"
               PROVE  refCnt'[q] = Cardinality(Leading(ptr', q))
    BY DEF CountMatchesPointers, Pointers, Leading
  <2>1. CASE q = o
    <3>1. Leading(ptr', q) = {s}
      BY <1>a, <1>c, <1>d, <2>1 DEF Leading
    <3> QED BY <1>c, <2>1, <3>1, FS_Singleton
  <2>2. CASE q # o
    <3>1. refCnt'[q] = Cardinality(Leading(ptr, q)) /\ q # NoObject
      BY <1>c, <2>2, LowlevelAssumption
      DEF IInv, CountMatchesPointers, Pointers, Leading
    <3>2. CASE ptr[s] = q
      <4>1. /\ ptr'[s] # q /\ ptr[Field(o)] # q /\ ptr'[Field(o)] = q
            /\ \A x \in Slot \ {Field(o), s} : ptr'[x] = ptr[x]
        BY <1>a, <1>c, <2>2, <3>1, <3>2
      <4>2. Cardinality(Leading(ptr', q)) = Cardinality(Leading(ptr, q))
        BY <1>a, <3>2, <4>1, CountMove
      <4> QED BY <3>1, <4>2
    <3>3. CASE ptr[s] # q
      <4>1. \A x \in Slot : ptr'[x] = q <=> ptr[x] = q
        BY <1>a, <1>c, <2>2, <3>1, <3>3
      <4>2. Leading(ptr', q) = Leading(ptr, q)
        BY <4>1, CountSame
      <4> QED BY <3>1, <4>2
    <3> QED BY <3>2, <3>3
  <2> QED BY <2>1, <2>2
<1>10. OneDestroyer'
  <2>1. \A u \in Thread : Items(u)' = Items(u)
    BY <1>b DEF Items, Calling
  <2>2. \A u \in Thread : o \notin Items(u) /\ Items(u) \subseteq Object
    BY <1>a, ItemsAreObjects DEF IInv, OneDestroyer
  <2> QED BY <1>c, <2>1, <2>2 DEF IInv, OneDestroyer
<1>11. SentinelInv'
  BY <1>b, <1>c, <1>f DEF IInv, SentinelInv, Calling
<1> QED BY <1>1, <1>2, <1>3, <1>4, <1>5, <1>6, <1>7, <1>8, <1>9, <1>10, <1>11 DEF IInv

LEMMA HandStep ==
    ASSUME IInv, NEW t \in Thread, NEW s \in Local, NEW d \in Local, Hand(t, s, d)
    PROVE  IInv'
<1>a. /\ call[t] = NoCall /\ LocalOf[s] = t /\ LocalOf[d] # t
      /\ ptr[s] # NoObject /\ ptr[d] = NoObject
      /\ s \in Slot /\ d \in Slot /\ s # d
      /\ \A u \in Thread : call[u] # NoCall => call[u].slot # d
  BY SlotFacts DEF Hand, UserCode, Returned
<1>b. UNCHANGED <<refCnt, lockedBy, stage, call, stack, chain, looping>>
  BY DEF Hand
<1>c. /\ ptr' \in [Slot -> Object \cup {NoObject}]
      /\ ptr'[d] = ptr[s] /\ ptr'[s] = NoObject
      /\ \A x \in Slot \ {s, d} : ptr'[x] = ptr[x]
  BY <1>a DEF IInv, TypeOK, Hand
<1>1. TypeOK'
  BY <1>b, <1>c DEF IInv, TypeOK
<1>2. LockInv'
  BY SlotFacts, LowlevelAssumption DEF IInv, TypeOK, Hand, UserCode, Returned, LockInv, NoCall
<1>3. LoadInv'
  BY SlotFacts, LowlevelAssumption DEF IInv, TypeOK, Hand, UserCode, Returned, LoadInv, LockInv, NoCall
<1>4. IncInv'
  <2> SUFFICES ASSUME NEW u \in Thread, Pending(u, "inc")
               PROVE  /\ ptr'[call[u].src] = ptr[call[u].src]
                      /\ ptr'[call[u].slot] = ptr[call[u].slot]
    BY <1>b DEF IInv, IncInv, Pending, Calling
  <2>1. /\ call[u] \in Call /\ call[u] # NoCall
        /\ call[u].src \in Local /\ LocalOf[call[u].src] = u
        /\ call[u].slot \in Local /\ LocalOf[call[u].slot] = u
        /\ ptr[call[u].src] = call[u].obj
    BY DEF IInv, TypeOK, IncInv, Pending, Calling
  <2>2. u # t /\ call[u].obj # NoObject
    BY <1>a, <2>1, CallFacts, LowlevelAssumption
  <2> QED BY <1>a, <1>c, <2>1, <2>2, SlotFacts
<1>5. DecInv'
  <2> SUFFICES ASSUME NEW u \in Thread, Pending(u, "dec")
               PROVE  ptr'[call[u].slot] = call[u].obj
    BY <1>b DEF IInv, DecInv, Pending, Calling
  <2>1. /\ ptr[call[u].slot] = call[u].obj /\ call[u].slot \in Slot
        /\ \/ call[u].slot \in Local /\ LocalOf[call[u].slot] = u
           \/ \E p \in Object : call[u].slot = Moved(p) /\ stage[p] \in Cleared
    BY CallFacts DEF IInv, TypeOK, DecInv, Pending, Calling
  <2>2. u # t /\ call[u].slot # s /\ call[u].slot # d
    BY <1>a, <2>1, SlotFacts DEF Pending, Calling
  <2> QED BY <1>c, <2>1, <2>2
<1>6. DistinctDrops'
  BY SlotFacts, LowlevelAssumption DEF IInv, TypeOK, Hand, UserCode, Returned, DistinctDrops, DecInv, Pending, Calling, NoCall, Cleared
<1>7. EmptyInv'
  BY SlotFacts, LowlevelAssumption DEF IInv, TypeOK, Hand, UserCode, Returned, EmptyInv, DecInv, IncInv, Pending, Calling, Cleared
<1>8. NoDangling'
  BY SlotFacts, LowlevelAssumption DEF IInv, TypeOK, Hand, UserCode, Returned, NoDangling, DecInv, IncInv, Pending, Calling
<1>9. CountMatchesPointers'
  <2> SUFFICES ASSUME NEW q \in Object, stage[q] = "live"
               PROVE  refCnt[q] = Cardinality(Leading(ptr', q))
    BY <1>b DEF CountMatchesPointers, Pointers, Leading
  <2>1. refCnt[q] = Cardinality(Leading(ptr, q)) /\ q # NoObject
    BY LowlevelAssumption DEF IInv, CountMatchesPointers, Pointers, Leading
  <2>2. CASE ptr[s] = q
    <3>1. /\ ptr'[s] # q /\ ptr[d] # q /\ ptr'[d] = q
          /\ \A x \in Slot \ {d, s} : ptr'[x] = ptr[x]
      BY <1>a, <1>c, <2>1, <2>2
    <3>2. Cardinality(Leading(ptr', q)) = Cardinality(Leading(ptr, q))
      BY <1>a, <2>2, <3>1, CountMove
    <3> QED BY <2>1, <3>2
  <2>3. CASE ptr[s] # q
    <3>1. \A x \in Slot : ptr'[x] = q <=> ptr[x] = q
      BY <1>a, <1>c, <2>1, <2>3
    <3>2. Leading(ptr', q) = Leading(ptr, q)
      BY <3>1, CountSame
    <3> QED BY <2>1, <3>2
  <2> QED BY <2>2, <2>3
<1>10. OneDestroyer'
  <2>1. \A u \in Thread : Items(u)' = Items(u)
    BY <1>b DEF Items, Calling
  <2> QED BY <1>b, <2>1 DEF IInv, OneDestroyer
<1>11. SentinelInv'
  BY SlotFacts, LowlevelAssumption DEF IInv, TypeOK, Hand, UserCode, Returned, SentinelInv, OneDestroyer, Calling, NoCall, Sentinel
<1> QED BY <1>1, <1>2, <1>3, <1>4, <1>5, <1>6, <1>7, <1>8, <1>9, <1>10, <1>11 DEF IInv

LEMMA ReferenceStep ==
    ASSUME IInv, NEW t \in Thread, NEW s \in Local, NEW d \in Local, Reference(t, s, d)
    PROVE  IInv'
<1>a. /\ call[t] = NoCall /\ LocalOf[s] = t /\ ptr[s] \in Object
      /\ LocalOf[d] = t /\ ptr[d] = NoObject
  BY SlotFacts DEF IInv, TypeOK, Reference, UserCode, Returned
<1>b. call' = [call EXCEPT ![t] = [fn |-> "inc", at |-> "lock", obj |-> ptr[s], src |-> s,
                 slot |-> d, via |-> "instance", tmp |-> 0]]
  BY DEF Reference
<1>c. /\ call'[t] \in Call
      /\ call'[t].fn = "inc" /\ call'[t].at = "lock" /\ call'[t].obj = ptr[s]
      /\ call'[t].src = s /\ call'[t].slot = d
      /\ \A u \in Thread \ {t} : call'[u] = call[u]
  <2>1. /\ call'[t] = [fn |-> "inc", at |-> "lock", obj |-> ptr[s], src |-> s,
                 slot |-> d, via |-> "instance", tmp |-> 0]
        /\ \A u \in Thread \ {t} : call'[u] = call[u]
    BY <1>b DEF IInv, TypeOK
  <2>2. s \in Slot /\ d \in Slot /\ ptr[s] \in Object
    BY <1>a, SlotFacts
  <2>3. call'[t] \in Call
    BY <2>1, <2>2, NewCallFacts DEF RefcntDec, Via
  <2>4. /\ call'[t].fn = "inc" /\ call'[t].at = "lock" /\ call'[t].obj = ptr[s]
        /\ call'[t].src = s /\ call'[t].slot = d
    BY <2>1 DEF RefcntDec
  <2> QED BY <2>1, <2>3, <2>4
<1>d. UNCHANGED <<refCnt, lockedBy, ptr, stage, stack, chain, looping>>
  BY DEF Reference
<1>1. TypeOK'
  BY <1>b, <1>c, <1>d DEF IInv, TypeOK
<1>2. LockInv'
  BY <1>a, <1>c, <1>d, CallFacts DEF IInv, LockInv
<1>3. LoadInv'
  BY <1>a, <1>c, <1>d, CallFacts DEF IInv, LoadInv
<1>4. IncInv'
  BY <1>a, <1>c, <1>d, CallFacts DEF IInv, IncInv, Pending, Calling
<1>5. DecInv'
  BY <1>a, <1>c, <1>d, CallFacts DEF IInv, DecInv, Pending, Calling
<1>6. DistinctDrops'
  BY <1>a, <1>c, <1>d, CallFacts, SlotFacts DEF IInv, DecInv, DistinctDrops, Pending, Calling
<1>7. EmptyInv'
  BY SlotFacts, LowlevelAssumption DEF IInv, TypeOK, Reference, UserCode, Returned, RefcntDec, EmptyInv, DecInv, IncInv, Pending, Calling, Cleared
<1>8. NoDangling'
  BY SlotFacts, LowlevelAssumption DEF IInv, TypeOK, Reference, UserCode, Returned, RefcntDec, NoDangling, DecInv, IncInv, Pending, Calling
<1>9. CountMatchesPointers'
  BY SlotFacts, LowlevelAssumption DEF IInv, TypeOK, Reference, UserCode, Returned, RefcntDec, CountMatchesPointers, Pointers
<1>10. OneDestroyer'
  <2>1. \A u \in Thread : Items(u)' \subseteq Items(u)
    BY <1>a, <1>c, <1>d, ItemsSame, CallFacts DEF Calling
  <2> QED BY <2>1, <1>d, ItemsKept DEF IInv
<1>11. SentinelInv'
  BY <1>a, <1>c, <1>d, CallFacts DEF IInv, SentinelInv, Calling, NoCall
<1> QED BY <1>1, <1>2, <1>3, <1>4, <1>5, <1>6, <1>7, <1>8, <1>9, <1>10, <1>11 DEF IInv

LEMMA ReleaseStep ==
    ASSUME IInv, NEW t \in Thread, NEW s \in Local, NEW via \in Via, Release(t, s, via)
    PROVE  IInv'
<1>a. /\ call[t] = NoCall /\ LocalOf[s] = t /\ ptr[s] \in Object
      /\ s \in Slot
  BY SlotFacts DEF IInv, TypeOK, Release, UserCode, Returned
<1>b. call' = [call EXCEPT ![t] = RefcntDec(ptr[s], s, via)]
  BY DEF Release
<1>c. /\ call'[t] \in Call
      /\ call'[t].fn = "dec" /\ call'[t].at = "lock" /\ call'[t].obj = ptr[s]
      /\ call'[t].src = s /\ call'[t].slot = s
      /\ \A u \in Thread \ {t} : call'[u] = call[u]
  <2>1. /\ call'[t] = RefcntDec(ptr[s], s, via)
        /\ \A u \in Thread \ {t} : call'[u] = call[u]
    BY <1>b DEF IInv, TypeOK
  <2>2. s \in Slot /\ s \in Slot /\ ptr[s] \in Object
    BY <1>a, SlotFacts
  <2>3. call'[t] \in Call
    BY <2>1, <2>2, NewCallFacts DEF RefcntDec, Via
  <2>4. /\ call'[t].fn = "dec" /\ call'[t].at = "lock" /\ call'[t].obj = ptr[s]
        /\ call'[t].src = s /\ call'[t].slot = s
    BY <2>1 DEF RefcntDec
  <2> QED BY <2>1, <2>3, <2>4
<1>d. UNCHANGED <<refCnt, lockedBy, ptr, stage, stack, chain, looping>>
  BY DEF Release
<1>1. TypeOK'
  BY <1>b, <1>c, <1>d DEF IInv, TypeOK
<1>2. LockInv'
  BY <1>a, <1>c, <1>d, CallFacts DEF IInv, LockInv
<1>3. LoadInv'
  BY <1>a, <1>c, <1>d, CallFacts DEF IInv, LoadInv
<1>4. IncInv'
  BY <1>a, <1>c, <1>d, CallFacts DEF IInv, IncInv, Pending, Calling
<1>5. DecInv'
  BY <1>a, <1>c, <1>d, CallFacts DEF IInv, DecInv, Pending, Calling
<1>6. DistinctDrops'
  BY <1>a, <1>c, <1>d, CallFacts, SlotFacts DEF IInv, DecInv, DistinctDrops, Pending, Calling
<1>7. EmptyInv'
  BY SlotFacts, LowlevelAssumption DEF IInv, TypeOK, Release, UserCode, Returned, RefcntDec, EmptyInv, DecInv, IncInv, Pending, Calling, Cleared
<1>8. NoDangling'
  BY SlotFacts, LowlevelAssumption DEF IInv, TypeOK, Release, UserCode, Returned, RefcntDec, NoDangling, DecInv, IncInv, Pending, Calling
<1>9. CountMatchesPointers'
  BY SlotFacts, LowlevelAssumption DEF IInv, TypeOK, Release, UserCode, Returned, RefcntDec, CountMatchesPointers, Pointers
<1>10. OneDestroyer'
  <2>1. \A u \in Thread : Items(u)' \subseteq Items(u)
    BY <1>a, <1>c, <1>d, ItemsSame, CallFacts DEF Calling
  <2> QED BY <2>1, <1>d, ItemsKept DEF IInv
<1>11. SentinelInv'
  BY <1>a, <1>c, <1>d, CallFacts DEF IInv, SentinelInv, Calling, NoCall
<1> QED BY <1>1, <1>2, <1>3, <1>4, <1>5, <1>6, <1>7, <1>8, <1>9, <1>10, <1>11 DEF IInv

LEMMA LockStep ==
    ASSUME IInv, NEW t \in Thread, Lock(t)
    PROVE  IInv'
<1> DEFINE c == call[t]
<1>a. c \in Call /\ c.at = "lock" /\ lockedBy[c.obj] = NoThread
  BY DEF IInv, TypeOK, Lock
<1>b. call' = [call EXCEPT ![t] = [c EXCEPT !.at = "load"]]
  BY DEF Lock
<1>c. /\ call'[t] \in Call
      /\ call'[t].fn = c.fn /\ call'[t].at = "load" /\ call'[t].obj = c.obj
      /\ call'[t].src = c.src /\ call'[t].slot = c.slot
      /\ \A u \in Thread \ {t} : call'[u] = call[u]
  <2>1. call'[t] = [c EXCEPT !.at = "load"] /\ \A u \in Thread \ {t} : call'[u] = call[u]
    BY <1>b DEF IInv, TypeOK
  <2> QED BY <1>a, <2>1, CallStep
<1>d. /\ lockedBy' = [lockedBy EXCEPT ![c.obj] = t]
      /\ UNCHANGED <<refCnt, ptr, stage, stack, chain, looping>>
  BY DEF Lock
<1> HIDE DEF c
<1>1. TypeOK'
  BY <1>a, <1>b, <1>c, <1>d, CallFacts DEF IInv, TypeOK
<1>2. LockInv'
  BY <1>a, <1>c, <1>d, CallFacts, LowlevelAssumption DEF IInv, TypeOK, LockInv, c
<1>3. LoadInv'
  BY SlotFacts, LowlevelAssumption DEF IInv, TypeOK, Lock, LoadInv, LockInv, NoCall
<1>4. IncInv'
  BY SlotFacts, LowlevelAssumption DEF IInv, TypeOK, Lock, IncInv, NoDangling, DecInv, Pending, Calling, NoCall
<1>5. DecInv'
  BY <1>a, <1>c, <1>d, CallFacts DEF IInv, DecInv, Pending, Calling, c
<1>6. DistinctDrops'
  BY <1>a, <1>c, <1>d, CallFacts DEF IInv, DistinctDrops, Pending, Calling, c
<1>7. EmptyInv'
  BY SlotFacts, LowlevelAssumption DEF IInv, TypeOK, Lock, EmptyInv, DecInv, IncInv, Pending, Calling, Cleared
<1>8. NoDangling'
  BY SlotFacts, LowlevelAssumption DEF IInv, TypeOK, Lock, NoDangling, DecInv, IncInv, Pending, Calling
<1>9. CountMatchesPointers'
  BY SlotFacts, LowlevelAssumption DEF IInv, TypeOK, Lock, CountMatchesPointers, Pointers
<1>10. OneDestroyer'
  <2>1. \A u \in Thread : Items(u)' \subseteq Items(u)
    BY <1>a, <1>c, <1>d, ItemsSame, CallFacts DEF Calling, c
  <2> QED BY <2>1, <1>d, ItemsKept DEF IInv
<1>11. SentinelInv'
  BY <1>a, <1>c, <1>d, CallFacts DEF IInv, SentinelInv, Calling, c
<1> QED BY <1>1, <1>2, <1>3, <1>4, <1>5, <1>6, <1>7, <1>8, <1>9, <1>10, <1>11 DEF IInv

LEMMA LoadStep ==
    ASSUME IInv, NEW t \in Thread, Load(t)
    PROVE  IInv'
<1> DEFINE c == call[t]
<1>a. c \in Call /\ c.at = "load"
  BY DEF IInv, TypeOK, Load
<1>b. call' = [call EXCEPT ![t] = [c EXCEPT !.tmp = refCnt[c.obj], !.at = "store"]]
  BY DEF Load
<1>c. /\ call'[t] \in Call
      /\ call'[t].fn = c.fn /\ call'[t].at = "store" /\ call'[t].obj = c.obj
      /\ call'[t].src = c.src /\ call'[t].slot = c.slot
      /\ call'[t].tmp = refCnt[c.obj]
      /\ \A u \in Thread \ {t} : call'[u] = call[u]
  <2>1. /\ call'[t] = [c EXCEPT !.tmp = refCnt[c.obj], !.at = "store"]
        /\ \A u \in Thread \ {t} : call'[u] = call[u]
    BY <1>b DEF IInv, TypeOK
  <2>2. refCnt[c.obj] \in Int
    BY <1>a, CallFacts DEF IInv, TypeOK
  <2> QED BY <1>a, <2>1, <2>2 DEF Call
<1>d. UNCHANGED <<refCnt, lockedBy, ptr, stage, stack, chain, looping>>
  BY DEF Load
<1> HIDE DEF c
<1>1. TypeOK'
  BY <1>a, <1>b, <1>c, <1>d, CallFacts DEF IInv, TypeOK
<1>2. LockInv'
  <2>1. c # NoCall /\ call'[t] # NoCall
    BY <1>a, <1>c, CallFacts
  <2> QED BY <1>a, <1>c, <1>d, <2>1 DEF IInv, LockInv, c
<1>3. LoadInv'
  BY <1>a, <1>c, <1>d, CallFacts DEF IInv, LoadInv, c
<1>4. IncInv'
  BY <1>a, <1>c, <1>d, CallFacts DEF IInv, IncInv, Pending, Calling, c
<1>5. DecInv'
  BY <1>a, <1>c, <1>d, CallFacts DEF IInv, DecInv, Pending, Calling, c
<1>6. DistinctDrops'
  BY <1>a, <1>c, <1>d, CallFacts DEF IInv, DistinctDrops, Pending, Calling, c
<1>7. EmptyInv'
  BY SlotFacts, LowlevelAssumption DEF IInv, TypeOK, Load, EmptyInv, DecInv, IncInv, Pending, Calling, Cleared
<1>8. NoDangling'
  BY SlotFacts, LowlevelAssumption DEF IInv, TypeOK, Load, NoDangling, DecInv, IncInv, Pending, Calling
<1>9. CountMatchesPointers'
  BY SlotFacts, LowlevelAssumption DEF IInv, TypeOK, Load, CountMatchesPointers, Pointers
<1>10. OneDestroyer'
  <2>1. \A u \in Thread : Items(u)' \subseteq Items(u)
    BY <1>a, <1>c, <1>d, ItemsSame, CallFacts DEF Calling, c
  <2> QED BY <2>1, <1>d, ItemsKept DEF IInv
<1>11. SentinelInv'
  BY <1>a, <1>c, <1>d, CallFacts DEF IInv, SentinelInv, Calling, c
<1> QED BY <1>1, <1>2, <1>3, <1>4, <1>5, <1>6, <1>7, <1>8, <1>9, <1>10, <1>11 DEF IInv

LEMMA IncrementStep ==
    ASSUME IInv, NEW t \in Thread, Increment(t)
    PROVE  IInv'
<1> DEFINE c == call[t]
<1>a. c \in Call /\ c.at = "store" /\ c.fn = "inc"
  BY DEF IInv, TypeOK, Increment
<1>b. /\ c.src \in Local /\ LocalOf[c.src] = t /\ ptr[c.src] = c.obj
      /\ c.slot \in Local /\ LocalOf[c.slot] = t /\ ptr[c.slot] = NoObject
      /\ c.obj \in Object /\ c.slot \in Slot /\ c.src \in Slot
  BY <1>a, CallFacts, SlotFacts DEF IInv, IncInv, Pending, Calling
<1>c. /\ stage[c.obj] = "live" /\ c.tmp = refCnt[c.obj] /\ lockedBy[c.obj] = t
      /\ c.obj # NoObject
  BY <1>a, <1>b, CallFacts, LowlevelAssumption
  DEF IInv, NoDangling, LoadInv, LockInv
<1>d. /\ call'[t] \in Call
      /\ call'[t].fn = "inc" /\ call'[t].at = "unlock" /\ call'[t].obj = c.obj
      /\ call'[t].slot = c.slot
      /\ \A u \in Thread \ {t} : call'[u] = call[u]
      /\ call' \in [Thread -> Call \cup {NoCall}]
  <2>1. /\ call'[t] = [c EXCEPT !.at = "unlock"]
        /\ \A u \in Thread \ {t} : call'[u] = call[u]
    BY DEF IInv, TypeOK, Increment
  <2>2. call'[t] \in Call
    BY <1>a, <2>1, CallStep
  <2> QED BY <1>a, <2>1, <2>2, CallStep DEF IInv, TypeOK, Increment
<1>e. /\ refCnt' = [refCnt EXCEPT ![c.obj] = refCnt[c.obj] + 1]
      /\ ptr' = [ptr EXCEPT ![c.slot] = c.obj]
      /\ UNCHANGED <<lockedBy, stage, stack, chain, looping>>
  BY <1>c DEF Increment
<1> HIDE DEF c
<1>1. TypeOK'
  BY <1>a, <1>b, <1>d, <1>e DEF IInv, TypeOK
<1>2. LockInv'
  <2>1. c # NoCall /\ call'[t] # NoCall
    BY <1>a, <1>d, CallFacts
  <2> QED BY <1>a, <1>d, <1>e, <2>1 DEF IInv, LockInv, c
<1>3. LoadInv'
  <2>1. \A u \in Thread \ {t} : (call[u] # NoCall /\ call[u].at = "store")
          => call[u].obj # c.obj
    BY <1>b, <1>c, LowlevelAssumption DEF IInv, LockInv
  <2>2. \A u \in Thread \ {t} : (call[u] # NoCall /\ call[u].at = "store")
          => call[u].obj \in Object
    BY CallFacts DEF IInv, TypeOK
  <2> QED BY ZenonT(40), <1>d, <1>e, <2>1, <2>2 DEF IInv, TypeOK, LoadInv
<1>4. IncInv'
  <2> SUFFICES ASSUME NEW u \in Thread \ {t}, Pending(u, "inc")
               PROVE  /\ ptr'[call[u].src] = ptr[call[u].src]
                      /\ ptr'[call[u].slot] = ptr[call[u].slot]
    BY <1>d DEF IInv, IncInv, Pending, Calling
  <2>1. /\ call[u].src \in Local /\ LocalOf[call[u].src] = u
        /\ call[u].slot \in Local /\ LocalOf[call[u].slot] = u
    BY DEF IInv, IncInv
  <2>2. call[u].src # c.slot /\ call[u].slot # c.slot
    BY <1>b, <2>1
  <2> QED BY <1>e, <2>1, <2>2, SlotFacts DEF IInv, TypeOK
<1>5. DecInv'
  <2> SUFFICES ASSUME NEW u \in Thread \ {t}, Pending(u, "dec")
               PROVE  ptr'[call[u].slot] = call[u].obj
    BY <1>d, <1>e DEF IInv, DecInv, Pending, Calling
  <2>1. ptr[call[u].slot] = call[u].obj /\ call[u].obj \in Object /\ call[u].slot \in Slot
    BY CallFacts DEF IInv, TypeOK, DecInv, Pending, Calling
  <2>2. call[u].slot # c.slot
    BY <1>b, <2>1, LowlevelAssumption
  <2> QED BY <1>e, <2>1, <2>2 DEF IInv, TypeOK
<1>6. DistinctDrops'
  BY <1>d, CallFacts DEF IInv, DistinctDrops, Pending, Calling
<1>7. EmptyInv'
  BY <1>b, <1>c, <1>d, <1>e, SlotFacts DEF IInv, TypeOK, EmptyInv
<1>8. NoDangling'
  BY <1>b, <1>c, <1>e DEF IInv, TypeOK, NoDangling
<1>9. CountMatchesPointers'
  <2> SUFFICES ASSUME NEW o \in Object, stage[o] = "live"
               PROVE  refCnt'[o] = Cardinality(Leading(ptr', o))
    BY <1>e DEF CountMatchesPointers, Pointers, Leading
  <2>1. refCnt[o] = Cardinality(Leading(ptr, o))
    BY DEF IInv, CountMatchesPointers, Pointers, Leading
  <2>2. CASE o = c.obj
    <3>1. /\ ptr[c.slot] # o /\ ptr'[c.slot] = o
          /\ \A s \in Slot \ {c.slot} : ptr'[s] = ptr[s]
      BY <1>b, <1>c, <1>e, <2>2 DEF IInv, TypeOK
    <3>2. Cardinality(Leading(ptr', o)) = Cardinality(Leading(ptr, o)) + 1
      BY <1>b, <3>1, CountFill
    <3>3. refCnt'[o] = refCnt[o] + 1
      BY <1>e, <2>2 DEF IInv, TypeOK
    <3> QED BY <2>1, <3>2, <3>3
  <2>3. CASE o # c.obj
    <3>0. \A s \in Slot : ptr'[s] = o <=> ptr[s] = o
      BY <1>b, <1>e, <2>3, LowlevelAssumption DEF IInv, TypeOK
    <3>1. Leading(ptr', o) = Leading(ptr, o)
      BY <3>0, CountSame
    <3> QED BY <1>e, <2>1, <2>3, <3>1 DEF IInv, TypeOK
  <2> QED BY <2>2, <2>3
<1>10. OneDestroyer'
  <2>1. \A u \in Thread : Items(u)' \subseteq Items(u)
    BY <1>a, <1>d, <1>e, ItemsSame, CallFacts DEF Calling, c
  <2> QED BY <2>1, <1>e, ItemsKept DEF IInv
<1>11. SentinelInv'
  <2>1. \A o \in Object : stage[o] # "live" => refCnt'[o] = refCnt[o]
    BY <1>c, <1>e DEF IInv, TypeOK
  <2> QED BY <1>a, <1>d, <1>e, <2>1, CallFacts DEF IInv, SentinelInv, Calling, c
<1> QED BY <1>1, <1>2, <1>3, <1>4, <1>5, <1>6, <1>7, <1>8, <1>9, <1>10, <1>11 DEF IInv

LEMMA DecrementStep ==
    ASSUME IInv, NEW t \in Thread, Decrement(t)
    PROVE  IInv'
<1> DEFINE c == call[t]
           zero == c.tmp - 1 <= 0
<1>a. c \in Call /\ c # NoCall /\ c.at = "store" /\ c.fn \in {"dec", "self"} /\ c.obj \in Object
  BY CallFacts DEF IInv, TypeOK, Decrement
<1>b. c.tmp = refCnt[c.obj] /\ lockedBy[c.obj] = t /\ c.obj # NoObject
  BY <1>a, LowlevelAssumption DEF IInv, LoadInv, LockInv
<1>c. c.fn = "dec" =>
        /\ ptr[c.slot] = c.obj /\ stage[c.obj] = "live" /\ c.slot \in Slot
        /\ \/ c.slot \in Local /\ LocalOf[c.slot] = t
           \/ \E p \in Object : c.slot = Moved(p) /\ stage[p] \in Cleared
        /\ refCnt[c.obj] = Cardinality(Leading(ptr, c.obj))
  BY <1>a, <1>b, CallFacts DEF IInv, DecInv, NoDangling, Pending, Calling,
                               CountMatchesPointers, Pointers, Leading
<1>d. c.fn = "self" =>
        /\ stage[c.obj] = "self" /\ refCnt[c.obj] = Sentinel
        /\ \A u \in Thread \ {t} : Calling(u, "self") => call[u].obj # c.obj
  <2>1. ASSUME c.fn = "self" PROVE stage[c.obj] = "self"
    BY <1>a, <2>1 DEF IInv, SentinelInv, Calling
  <2>2. ASSUME c.fn = "self", NEW u \in Thread \ {t}, Calling(u, "self")
        PROVE  call[u].obj # c.obj
    <3>1. c.obj \in Items(t) /\ call[u].obj \in Items(u)
      BY <1>a, <2>2 DEF Items, Calling
    <3> QED BY <3>1 DEF IInv, OneDestroyer
  <2>3. ASSUME c.fn = "self" PROVE refCnt[c.obj] = Sentinel
    BY <1>a, <2>1, <2>2, <2>3 DEF IInv, SentinelInv, Calling
  <2> QED BY <2>1, <2>2, <2>3
<1>e. /\ call'[t] \in Call
      /\ call'[t].fn = c.fn /\ call'[t].at = "unlock" /\ call'[t].obj = c.obj
      /\ call'[t].slot = c.slot
      /\ \A u \in Thread \ {t} : call'[u] = call[u]
      /\ call' \in [Thread -> Call \cup {NoCall}]
  <2>1. /\ call'[t] = [c EXCEPT !.at = "unlock"]
        /\ \A u \in Thread \ {t} : call'[u] = call[u]
    BY DEF IInv, TypeOK, Decrement
  <2>2. call'[t] \in Call
    BY <1>a, <2>1, CallStep
  <2> QED BY <1>a, <2>1, <2>2, CallStep DEF IInv, TypeOK, Decrement
<1>f. /\ c.fn = "self" => ~zero
      /\ zero => c.fn = "dec" /\ \A s \in Slot : ptr[s] = c.obj => s = c.slot
  <2>1. c.fn = "self" => ~zero
    BY <1>b, <1>d DEF Sentinel
  <2>2. zero => \A s \in Slot : ptr[s] = c.obj => s = c.slot
    <3> SUFFICES ASSUME zero PROVE \A s \in Slot : ptr[s] = c.obj => s = c.slot
      OBVIOUS
    <3>1. c.fn = "dec" /\ refCnt[c.obj] <= 1
      BY <1>a, <1>b, <2>1 DEF IInv, TypeOK
    <3>2. Cardinality(Leading(ptr, c.obj)) <= 1
      BY <3>1, <1>c
    <3> QED BY <1>c, <3>1, <3>2, CountOne
  <2> QED BY <1>a, <2>1, <2>2
<1>g. /\ refCnt' = [refCnt EXCEPT ![c.obj] = IF zero THEN Sentinel ELSE refCnt[c.obj] - 1]
      /\ stage' = IF zero THEN [stage EXCEPT ![c.obj] = "doomed"] ELSE stage
      /\ ptr' = IF c.fn = "dec" THEN [ptr EXCEPT ![c.slot] = NoObject] ELSE ptr
      /\ UNCHANGED <<lockedBy, stack, chain, looping>>
  BY <1>b DEF Decrement
<1>h. \A o \in Object \ {c.obj} : stage'[o] = stage[o] /\ refCnt'[o] = refCnt[o]
  BY <1>a, <1>g DEF IInv, TypeOK
<1>i. /\ stage'[c.obj] = IF zero THEN "doomed" ELSE stage[c.obj]
      /\ refCnt'[c.obj] = IF zero THEN Sentinel ELSE refCnt[c.obj] - 1
      /\ zero => stage[c.obj] = "live"
  BY <1>a, <1>c, <1>f, <1>g DEF IInv, TypeOK
<1> HIDE DEF c, zero
<1>1. TypeOK'
  BY <1>a, <1>c, <1>e, <1>g DEF IInv, TypeOK, Stages, Sentinel
<1>2. LockInv'
  <2>1. call'[t] # NoCall
    BY <1>e, CallFacts
  <2> QED BY <1>a, <1>e, <1>g, <2>1 DEF IInv, LockInv, c
<1>3. LoadInv'
  <2>1. \A u \in Thread \ {t} : (call[u] # NoCall /\ call[u].at = "store")
          => call[u].obj \in Object \ {c.obj}
    BY <1>a, <1>b, CallFacts, LowlevelAssumption DEF IInv, TypeOK, LockInv
  <2> QED BY <1>e, <1>h, <2>1 DEF IInv, LoadInv
<1>4. IncInv'
  <2> SUFFICES ASSUME NEW u \in Thread \ {t}, Pending(u, "inc")
               PROVE  /\ ptr'[call[u].src] = ptr[call[u].src]
                      /\ ptr'[call[u].slot] = ptr[call[u].slot]
    BY <1>e DEF IInv, IncInv, Pending, Calling
  <2>1. /\ call[u].src \in Local /\ LocalOf[call[u].src] = u
        /\ call[u].slot \in Local /\ LocalOf[call[u].slot] = u
    BY DEF IInv, IncInv
  <2>2. c.fn = "dec" => call[u].src # c.slot /\ call[u].slot # c.slot
    BY <1>c, <2>1, SlotFacts
  <2> QED BY <1>g, <2>1, <2>2, SlotFacts DEF IInv, TypeOK
<1>5. DecInv'
  <2> SUFFICES ASSUME NEW u \in Thread \ {t}, Pending(u, "dec")
               PROVE  /\ ptr'[call[u].slot] = call[u].obj
                      /\ \/ call[u].slot \in Local /\ LocalOf[call[u].slot] = u
                         \/ \E p \in Object : call[u].slot = Moved(p) /\ stage'[p] \in Cleared
    BY <1>e DEF DecInv, Pending, Calling
  <2>1. /\ ptr[call[u].slot] = call[u].obj /\ call[u].slot \in Slot
        /\ \/ call[u].slot \in Local /\ LocalOf[call[u].slot] = u
           \/ \E p \in Object : call[u].slot = Moved(p) /\ stage[p] \in Cleared
    BY CallFacts DEF IInv, TypeOK, DecInv, Pending, Calling
  <2>2. c.fn = "dec" => call[u].slot # c.slot
    BY <1>a DEF IInv, DistinctDrops, Pending, Calling, c
  <2>3. ptr'[call[u].slot] = call[u].obj
    BY <1>g, <2>1, <2>2 DEF IInv, TypeOK
  <2>4. \A p \in Object : stage[p] \in Cleared => stage'[p] \in Cleared
    BY <1>h, <1>i DEF Cleared
  <2> QED BY <2>1, <2>3, <2>4
<1>6. DistinctDrops'
  BY <1>e DEF IInv, DistinctDrops, Pending, Calling
<1>7. EmptyInv'
  <2>1. \A s \in Slot : ptr[s] = NoObject => ptr'[s] = NoObject
    BY <1>g DEF IInv, TypeOK
  <2>2. \A o \in Object : /\ stage'[o] = "unborn" => stage[o] = "unborn"
                          /\ stage'[o] \notin Cleared => stage[o] \notin Cleared
    BY <1>h, <1>i DEF Cleared
  <2> QED BY <2>1, <2>2, SlotFacts DEF IInv, EmptyInv
<1>8. NoDangling'
  <2> SUFFICES ASSUME NEW s \in Slot, ptr'[s] # NoObject
               PROVE  stage'[ptr'[s]] = "live"
    BY DEF NoDangling
  <2>1. ptr'[s] = ptr[s] /\ ptr[s] \in Object /\ stage[ptr[s]] = "live"
    BY <1>g DEF IInv, TypeOK, NoDangling
  <2>2. zero => ptr[s] # c.obj
    BY <1>a, <1>c, <1>f, <1>g, <2>1 DEF IInv, TypeOK
  <2> QED BY <1>h, <1>i, <2>1, <2>2
<1>9. CountMatchesPointers'
  <2> SUFFICES ASSUME NEW o \in Object, stage'[o] = "live"
               PROVE  refCnt'[o] = Cardinality(Leading(ptr', o))
    BY DEF CountMatchesPointers, Pointers, Leading
  <2>1. CASE o = c.obj
    <3>1. ~zero /\ c.fn = "dec"
      BY <1>a, <1>d, <1>i, <2>1
    <3>2. /\ ptr[c.slot] = o /\ ptr'[c.slot] # o /\ c.slot \in Slot
          /\ \A s \in Slot \ {c.slot} : ptr'[s] = ptr[s]
      BY <1>b, <1>c, <1>g, <2>1, <3>1 DEF IInv, TypeOK
    <3>3. Cardinality(Leading(ptr', o)) = Cardinality(Leading(ptr, o)) - 1
      BY <3>2, CountClear
    <3> QED BY <1>c, <1>i, <2>1, <3>1, <3>3
  <2>2. CASE o # c.obj
    <3>0. \A s \in Slot : ptr'[s] = o <=> ptr[s] = o
      BY <1>c, <1>g, <2>2, LowlevelAssumption DEF IInv, TypeOK
    <3>1. Leading(ptr', o) = Leading(ptr, o)
      BY <3>0, CountSame
    <3> QED BY <1>h, <2>2, <3>1 DEF IInv, CountMatchesPointers, Pointers, Leading
  <2> QED BY <2>1, <2>2
<1>10. OneDestroyer'
  <2>1. \A u \in Thread : Items(u)' \subseteq Items(u)
    BY <1>a, <1>e, <1>g, ItemsSame DEF Calling, c
  <2>2. \A p \in Object : stage[p] \notin {"unborn", "live", "doomed"}
                            => stage'[p] \notin {"unborn", "live", "doomed"}
    BY <1>h, <1>i
  <2> QED BY <2>1, <2>2, ItemsKept DEF IInv
<1>11. SentinelInv'
  <2>1. /\ \A o \in Object : stage'[o] \in {"doomed", "queued", "clear"}
                               => refCnt'[o] = Sentinel
    BY <1>a, <1>c, <1>d, <1>h, <1>i DEF IInv, SentinelInv
  <2>2. \A o \in Object :
          (stage'[o] = "self" /\ \A u \in Thread :
             ~(Calling(u, "self")' /\ call'[u].obj = o /\ call'[u].at = "unlock"))
            => refCnt'[o] = Sentinel
    <3> SUFFICES ASSUME NEW o \in Object, stage'[o] = "self",
                        \A u \in Thread : ~(/\ Calling(u, "self")'
                                            /\ call'[u].obj = o /\ call'[u].at = "unlock")
                 PROVE  refCnt'[o] = Sentinel
      OBVIOUS
    <3>1. call'[t] # NoCall
      BY <1>e, CallFacts
    <3>2. o # c.obj
      BY <1>a, <1>c, <1>e, <1>i, <3>1 DEF Calling
    <3>3. \A u \in Thread : ~(/\ Calling(u, "self")
                              /\ call[u].obj = o /\ call[u].at = "unlock")
      BY <1>a, <1>e, <3>2 DEF Calling, c
    <3> QED BY <1>h, <3>2, <3>3 DEF IInv, SentinelInv
  <2>3. \A u \in Thread : Calling(u, "self")' => stage'[call'[u].obj] = "self"
    <3> SUFFICES ASSUME NEW u \in Thread, Calling(u, "self")'
                 PROVE  stage'[call'[u].obj] = "self"
      OBVIOUS
    <3>1. Calling(u, "self") /\ call'[u].obj = call[u].obj
      BY <1>a, <1>e DEF Calling, c
    <3>2. stage[call[u].obj] = "self" /\ call[u].obj \in Object
      BY <3>1, CallFacts DEF IInv, TypeOK, SentinelInv, Calling
    <3> QED BY <1>h, <1>i, <3>1, <3>2
  <2> QED BY <2>1, <2>2, <2>3 DEF SentinelInv
<1> QED BY <1>1, <1>2, <1>3, <1>4, <1>5, <1>6, <1>7, <1>8, <1>9, <1>10, <1>11 DEF IInv

LEMMA UnlockStep ==
    ASSUME IInv, NEW t \in Thread, Unlock(t)
    PROVE  IInv'
<1> DEFINE c == call[t]
<1>a. c \in Call /\ c.at = "unlock" /\ c.fn # "self"
  BY DEF IInv, TypeOK, Unlock, AtUnlock
<1>b. /\ call'[t] = NoCall
      /\ \A u \in Thread \ {t} : call'[u] = call[u]
      /\ UNCHANGED <<refCnt, ptr, stage, stack, chain, looping>>
  BY DEF IInv, TypeOK, Unlock, UnlockAndReturn
<1>1. TypeOK'
  BY SlotFacts, LowlevelAssumption DEF IInv, TypeOK, Unlock, AtUnlock, UnlockAndReturn, Call, NoCall, Activation, Stages, Via, Sentinel
<1>2. LockInv'
  BY SlotFacts, LowlevelAssumption DEF IInv, TypeOK, Unlock, AtUnlock, UnlockAndReturn, LockInv, NoCall
<1>3. LoadInv'
  BY SlotFacts, LowlevelAssumption DEF IInv, TypeOK, Unlock, AtUnlock, UnlockAndReturn, LoadInv, LockInv, NoCall
<1>4. IncInv'
  BY SlotFacts, LowlevelAssumption DEF IInv, TypeOK, Unlock, AtUnlock, UnlockAndReturn, IncInv, NoDangling, DecInv, Pending, Calling, NoCall
<1>5. DecInv'
  BY SlotFacts, LowlevelAssumption DEF IInv, TypeOK, Unlock, AtUnlock, UnlockAndReturn, DecInv, IncInv, EmptyInv, Pending, Calling, NoCall, Cleared
<1>6. DistinctDrops'
  BY SlotFacts, LowlevelAssumption DEF IInv, TypeOK, Unlock, AtUnlock, UnlockAndReturn, DistinctDrops, DecInv, Pending, Calling, NoCall, Cleared
<1>7. EmptyInv'
  BY SlotFacts, LowlevelAssumption DEF IInv, TypeOK, Unlock, AtUnlock, UnlockAndReturn, EmptyInv, DecInv, IncInv, Pending, Calling, Cleared
<1>8. NoDangling'
  BY SlotFacts, LowlevelAssumption DEF IInv, TypeOK, Unlock, AtUnlock, UnlockAndReturn, NoDangling, DecInv, IncInv, Pending, Calling
<1>9. CountMatchesPointers'
  BY SlotFacts, LowlevelAssumption DEF IInv, TypeOK, Unlock, AtUnlock, UnlockAndReturn, CountMatchesPointers, Pointers
<1>10. OneDestroyer'
  <2>1. \A u \in Thread : Items(u)' \subseteq Items(u)
    BY <1>b, ItemsSame DEF Calling
  <2> QED BY <2>1, <1>b, ItemsKept DEF IInv
<1>11. SentinelInv'
  BY <1>a, <1>b, CallFacts DEF IInv, SentinelInv, Calling
<1> QED BY <1>1, <1>2, <1>3, <1>4, <1>5, <1>6, <1>7, <1>8, <1>9, <1>10, <1>11 DEF IInv

LEMMA DestroyDirectlyStep ==
    ASSUME IInv, NEW t \in Thread, DestroyDirectly(t)
    PROVE  IInv'
<1> DEFINE c == call[t]
<1>a. /\ c \in Call /\ c # NoCall /\ c.at = "unlock" /\ stage[c.obj] = "doomed"
      /\ c.obj \in Object /\ c.via \in Via
  BY CallFacts DEF IInv, TypeOK, DestroyDirectly, AtUnlock
<1>b. /\ call' \in [Thread -> Call \cup {NoCall}] /\ call'[t] = NoCall
      /\ \A u \in Thread \ {t} : call'[u] = call[u]
  BY DEF IInv, TypeOK, DestroyDirectly, UnlockAndReturn
<1>c. /\ lockedBy' = [lockedBy EXCEPT ![c.obj] = NoThread]
      /\ stage' = [stage EXCEPT ![c.obj] = "clear"]
      /\ stack' = [stack EXCEPT ![t] = Append(stack[t], [obj |-> c.obj, via |-> c.via])]
      /\ UNCHANGED <<refCnt, ptr, chain, looping>>
  BY DEF DestroyDirectly, UnlockAndReturn
<1>d. /\ stage'[c.obj] = "clear"
      /\ \A p \in Object \ {c.obj} : stage'[p] = stage[p]
  BY <1>a, <1>c DEF IInv, TypeOK
<1>e. \A u \in Thread : Calling(u, "self") => call[u].obj \in Object \ {c.obj}
  BY <1>a, CallFacts DEF IInv, TypeOK, SentinelInv, Calling
<1> HIDE DEF c
<1>1. TypeOK'
  <2>1. [obj |-> c.obj, via |-> c.via] \in Activation
    BY <1>a DEF Activation
  <2>2. stack' \in [Thread -> Seq(Activation)]
    BY <1>c, <2>1, AppendProperties DEF IInv, TypeOK
  <2> QED BY <1>a, <1>b, <1>c, <2>2 DEF IInv, TypeOK, Stages
<1>2. LockInv'
  <2>1. lockedBy[c.obj] = t
    BY <1>a DEF IInv, LockInv, c
  <2>2. /\ lockedBy'[c.obj] = NoThread
        /\ \A o \in Object \ {c.obj} : lockedBy'[o] = lockedBy[o]
    BY <1>a, <1>c DEF IInv, TypeOK
  <2> QED BY <1>a, <1>b, <2>1, <2>2, LowlevelAssumption DEF IInv, LockInv, c
<1>3. LoadInv'
  BY <1>b, <1>c DEF IInv, LoadInv
<1>4. IncInv'
  BY <1>b, <1>c DEF IInv, IncInv, Pending, Calling, NoCall
<1>5. DecInv'
  <2>1. \A p \in Object : stage[p] \in Cleared => stage'[p] \in Cleared
    BY <1>a, <1>d DEF Cleared
  <2> QED BY <1>b, <1>c, <2>1 DEF IInv, DecInv, Pending, Calling, NoCall
<1>6. DistinctDrops'
  BY <1>b DEF IInv, DistinctDrops, Pending, Calling, NoCall
<1>7. EmptyInv'
  BY <1>a, <1>c, <1>d DEF IInv, EmptyInv, Cleared
<1>8. NoDangling'
  BY <1>a, <1>c, <1>d DEF IInv, TypeOK, NoDangling
<1>9. CountMatchesPointers'
  BY <1>a, <1>c, <1>d DEF IInv, CountMatchesPointers, Pointers
<1>10. OneDestroyer'
  <2>1. \A u \in Thread : c.obj \notin Items(u)
    BY <1>a DEF IInv, OneDestroyer
  <2>2. \A u \in Thread \ {t} : Items(u)' \subseteq Items(u)
    BY <1>b, <1>c, ItemsSame DEF IInv, TypeOK, Calling
  <2>3. Items(t)' \subseteq Items(t) \cup {c.obj}
    <3>1. [obj |-> c.obj, via |-> c.via] \in Activation /\ stack[t] \in Seq(Activation)
      BY <1>a DEF IInv, TypeOK, Activation
    <3>2. stack'[t] = Append(stack[t], [obj |-> c.obj, via |-> c.via])
      BY <1>c DEF IInv, TypeOK
    <3>3. \A i \in DOMAIN stack'[t] :
             \/ stack'[t][i].obj = c.obj
             \/ i \in DOMAIN stack[t] /\ stack'[t][i] = stack[t][i]
      BY <3>1, <3>2, PushFacts
    <3> QED BY <1>b, <1>c, <3>3 DEF Items, Calling, NoCall
  <2> QED BY <1>a, <1>d, <2>1, <2>2, <2>3, ItemsPushed DEF IInv
<1>11. SentinelInv'
  <2>1. \A o \in Object : stage'[o] \in {"doomed", "queued", "clear"}
                             => refCnt'[o] = Sentinel
    BY <1>a, <1>c, <1>d DEF IInv, SentinelInv
  <2>2. \A u \in Thread : Calling(u, "self")' => stage'[call'[u].obj] = "self"
    BY <1>b, <1>d, <1>e DEF IInv, SentinelInv, Calling, NoCall
  <2>3. ASSUME NEW o \in Object, stage'[o] = "self",
               \A u \in Thread : ~(/\ Calling(u, "self")'
                                   /\ call'[u].obj = o /\ call'[u].at = "unlock")
        PROVE  refCnt'[o] = Sentinel
    <3>1. o # c.obj /\ stage[o] = "self"
      BY <1>d, <2>3
    <3>2. \A u \in Thread : ~(/\ Calling(u, "self")
                              /\ call[u].obj = o /\ call[u].at = "unlock")
      BY <1>b, <2>3, <3>1 DEF Calling, c
    <3> QED BY <1>c, <3>1, <3>2 DEF IInv, SentinelInv
  <2> QED BY <2>1, <2>2, <2>3 DEF SentinelInv
<1> QED BY <1>1, <1>2, <1>3, <1>4, <1>5, <1>6, <1>7, <1>8, <1>9, <1>10, <1>11 DEF IInv

LEMMA DestroyByContinuationStep ==
    ASSUME IInv, NEW t \in Thread, DestroyByContinuation(t)
    PROVE  IInv'
<1> DEFINE c == call[t]
<1>a. /\ c \in Call /\ c # NoCall /\ c.at = "unlock" /\ stage[c.obj] = "doomed"
      /\ c.obj \in Object /\ c.via \in Via
  BY CallFacts DEF IInv, TypeOK, DestroyByContinuation, AtUnlock
<1>b. /\ call' \in [Thread -> Call \cup {NoCall}] /\ call'[t] = NoCall
      /\ \A u \in Thread \ {t} : call'[u] = call[u]
  BY DEF IInv, TypeOK, DestroyByContinuation, UnlockAndReturn
<1>c. /\ lockedBy' = [lockedBy EXCEPT ![c.obj] = NoThread]
      /\ stage' = [stage EXCEPT ![c.obj] = "queued"]
      /\ chain' = [chain EXCEPT ![t] = Append(chain[t], c.obj)]
      /\ UNCHANGED <<refCnt, ptr, stack, looping>>
  BY DEF DestroyByContinuation, UnlockAndReturn
<1>d. /\ stage'[c.obj] = "queued"
      /\ \A p \in Object \ {c.obj} : stage'[p] = stage[p]
  BY <1>a, <1>c DEF IInv, TypeOK
<1>e. \A u \in Thread : Calling(u, "self") => call[u].obj \in Object \ {c.obj}
  BY <1>a, CallFacts DEF IInv, TypeOK, SentinelInv, Calling
<1> HIDE DEF c
<1>1. TypeOK'
  <2>1. c.obj \in Object
    BY <1>a DEF Activation
  <2>2. chain' \in [Thread -> Seq(Object)]
    BY <1>c, <2>1, AppendProperties DEF IInv, TypeOK
  <2> QED BY <1>a, <1>b, <1>c, <2>2 DEF IInv, TypeOK, Stages
<1>2. LockInv'
  <2>1. lockedBy[c.obj] = t
    BY <1>a DEF IInv, LockInv, c
  <2>2. /\ lockedBy'[c.obj] = NoThread
        /\ \A o \in Object \ {c.obj} : lockedBy'[o] = lockedBy[o]
    BY <1>a, <1>c DEF IInv, TypeOK
  <2> QED BY <1>a, <1>b, <2>1, <2>2, LowlevelAssumption DEF IInv, LockInv, c
<1>3. LoadInv'
  BY <1>b, <1>c DEF IInv, LoadInv
<1>4. IncInv'
  BY <1>b, <1>c DEF IInv, IncInv, Pending, Calling, NoCall
<1>5. DecInv'
  <2>1. \A p \in Object : stage[p] \in Cleared => stage'[p] \in Cleared
    BY <1>a, <1>d DEF Cleared
  <2> QED BY <1>b, <1>c, <2>1 DEF IInv, DecInv, Pending, Calling, NoCall
<1>6. DistinctDrops'
  BY <1>b DEF IInv, DistinctDrops, Pending, Calling, NoCall
<1>7. EmptyInv'
  BY <1>a, <1>c, <1>d DEF IInv, EmptyInv, Cleared
<1>8. NoDangling'
  BY <1>a, <1>c, <1>d DEF IInv, TypeOK, NoDangling
<1>9. CountMatchesPointers'
  BY <1>a, <1>c, <1>d DEF IInv, CountMatchesPointers, Pointers
<1>10. OneDestroyer'
  <2>1. \A u \in Thread : c.obj \notin Items(u)
    BY <1>a DEF IInv, OneDestroyer
  <2>2. \A u \in Thread \ {t} : Items(u)' \subseteq Items(u)
    BY <1>b, <1>c, ItemsSame DEF IInv, TypeOK, Calling
  <2>3. Items(t)' \subseteq Items(t) \cup {c.obj}
    <3>1. c.obj \in Object /\ chain[t] \in Seq(Object)
      BY <1>a DEF IInv, TypeOK, Activation
    <3>2. chain'[t] = Append(chain[t], c.obj)
      BY <1>c DEF IInv, TypeOK
    <3>3. \A i \in DOMAIN chain'[t] :
             \/ chain'[t][i] = c.obj
             \/ i \in DOMAIN chain[t] /\ chain'[t][i] = chain[t][i]
      BY <3>1, <3>2, PushFacts
    <3> QED BY <1>b, <1>c, <3>3 DEF Items, Calling, NoCall
  <2> QED BY <1>a, <1>d, <2>1, <2>2, <2>3, ItemsPushed DEF IInv
<1>11. SentinelInv'
  <2>1. \A o \in Object : stage'[o] \in {"doomed", "queued", "clear"}
                             => refCnt'[o] = Sentinel
    BY <1>a, <1>c, <1>d DEF IInv, SentinelInv
  <2>2. \A u \in Thread : Calling(u, "self")' => stage'[call'[u].obj] = "self"
    BY <1>b, <1>d, <1>e DEF IInv, SentinelInv, Calling, NoCall
  <2>3. ASSUME NEW o \in Object, stage'[o] = "self",
               \A u \in Thread : ~(/\ Calling(u, "self")'
                                   /\ call'[u].obj = o /\ call'[u].at = "unlock")
        PROVE  refCnt'[o] = Sentinel
    <3>1. o # c.obj /\ stage[o] = "self"
      BY <1>d, <2>3
    <3>2. \A u \in Thread : ~(/\ Calling(u, "self")
                              /\ call[u].obj = o /\ call[u].at = "unlock")
      BY <1>b, <2>3, <3>1 DEF Calling, c
    <3> QED BY <1>c, <3>1, <3>2 DEF IInv, SentinelInv
  <2> QED BY <2>1, <2>2, <2>3 DEF SentinelInv
<1> QED BY <1>1, <1>2, <1>3, <1>4, <1>5, <1>6, <1>7, <1>8, <1>9, <1>10, <1>11 DEF IInv

LEMMA DestroyAllStep ==
    ASSUME IInv, NEW t \in Thread, DestroyAll(t)
    PROVE  IInv'
<1> DEFINE top == Last(stack[t])
           o == top.obj
           f == ptr[Field(o)]
<1>a. /\ call[t] = NoCall /\ stack[t] # <<>> /\ stack[t] \in Seq(Activation)
      /\ top \in Activation /\ o \in Object /\ top.via \in Via
      /\ stage[o] = "clear" /\ refCnt[o] = Sentinel
      /\ Field(o) \in Slot /\ Moved(o) \in Slot /\ Field(o) # Moved(o)
      /\ ptr[Moved(o)] = NoObject /\ f \in Object \cup {NoObject}
      /\ o # NoObject /\ f # o
  <2>1. call[t] = NoCall /\ stack[t] # <<>> /\ stack[t] \in Seq(Activation) /\ stage[o] = "clear"
    BY DEF IInv, TypeOK, DestroyAll
  <2>2. top \in Activation
    BY <2>1, FrontFacts
  <2>3. o \in Object /\ top.via \in Via
    BY <2>2 DEF Activation
  <2>4. Field(o) \in Slot /\ Moved(o) \in Slot /\ Field(o) # Moved(o)
    BY <2>3, SlotFacts
  <2>5. f \in Object \cup {NoObject} /\ o # NoObject /\ f # o
    BY <2>1, <2>3, <2>4, LowlevelAssumption DEF IInv, TypeOK, NoDangling
  <2>6. ptr[Moved(o)] = NoObject /\ refCnt[o] = Sentinel
    BY <2>1, <2>3 DEF IInv, EmptyInv, SentinelInv, Cleared
  <2> QED BY <2>1, <2>2, <2>3, <2>4, <2>5, <2>6
<1>b. /\ stage' = [stage EXCEPT ![o] = "self"]
      /\ ptr' = [ptr EXCEPT ![Moved(o)] = f, ![Field(o)] = NoObject]
      /\ call' = IF f = NoObject THEN call
                 ELSE [call EXCEPT ![t] = RefcntDec(f, Moved(o), top.via)]
      /\ stack' = IF Direct(top.via, o) THEN stack
                  ELSE [stack EXCEPT ![t] = Front(stack[t])]
      /\ UNCHANGED <<refCnt, lockedBy, chain, looping>>
  BY DEF DestroyAll
<1> HIDE DEF o, f
<1>c. /\ stage'[o] = "self" /\ \A p \in Object \ {o} : stage'[p] = stage[p]
      /\ stage' \in [Object -> Stages]
  BY <1>a, <1>b DEF IInv, TypeOK, Stages
<1>d. /\ ptr' \in [Slot -> Object \cup {NoObject}]
      /\ ptr'[Moved(o)] = f /\ ptr'[Field(o)] = NoObject
      /\ \A x \in Slot \ {Moved(o), Field(o)} : ptr'[x] = ptr[x]
      /\ ptr[Field(o)] = f
  BY <1>a, <1>b DEF IInv, TypeOK, f
<1>e. /\ call' \in [Thread -> Call \cup {NoCall}]
      /\ \A u \in Thread \ {t} : call'[u] = call[u]
      /\ f = NoObject => call'[t] = NoCall
      /\ f # NoObject => /\ call'[t] \in Call /\ call'[t] # NoCall
                         /\ call'[t].fn = "dec" /\ call'[t].at = "lock"
                         /\ call'[t].obj = f /\ call'[t].slot = Moved(o)
  <2>1. CASE f = NoObject
    BY <1>a, <1>b, <2>1 DEF IInv, TypeOK
  <2>2. CASE f # NoObject
    <3> DEFINE d == RefcntDec(f, Moved(o), top.via)
    <3>1. d \in Call
      BY <1>a, <2>2, NewCallFacts DEF RefcntDec
    <3>2. d.fn = "dec" /\ d.at = "lock" /\ d.obj = f /\ d.slot = Moved(o)
      BY DEF RefcntDec
    <3> HIDE DEF d
    <3>3. call' = [call EXCEPT ![t] = d]
      BY <1>b, <2>2 DEF d
    <3> QED BY <2>2, <3>1, <3>2, <3>3, CallFacts DEF IInv, TypeOK
  <2> QED BY <2>1, <2>2
<1>f. /\ stack' \in [Thread -> Seq(Activation)]
      /\ \A u \in Thread \ {t} : stack'[u] = stack[u]
      /\ \A i \in DOMAIN stack'[t] : i \in DOMAIN stack[t] /\ stack'[t][i] = stack[t][i]
  BY <1>a, <1>b, FrontFacts DEF IInv, TypeOK
<1>1. TypeOK'
  BY <1>b, <1>c, <1>d, <1>e, <1>f DEF IInv, TypeOK
<1>2. LockInv'
  BY <1>a, <1>b, <1>e DEF IInv, LockInv
<1>3. LoadInv'
  BY <1>b, <1>e DEF IInv, LoadInv
<1>4. IncInv'
  <2> SUFFICES ASSUME NEW u \in Thread \ {t}, Pending(u, "inc")
               PROVE  /\ ptr'[call[u].src] = ptr[call[u].src]
                      /\ ptr'[call[u].slot] = ptr[call[u].slot]
    BY <1>e DEF IInv, IncInv, Pending, Calling, NoCall
  <2>1. call[u].src \in Local /\ call[u].slot \in Local
    BY DEF IInv, IncInv
  <2> QED BY <1>a, <1>d, <2>1, SlotFacts
<1>5. DecInv'
  <2>1. ASSUME NEW u \in Thread \ {t}, Pending(u, "dec")
        PROVE  /\ ptr'[call[u].slot] = call[u].obj
               /\ \/ call[u].slot \in Local /\ LocalOf[call[u].slot] = u
                  \/ \E p \in Object : call[u].slot = Moved(p) /\ stage'[p] \in Cleared
    <3>1. /\ ptr[call[u].slot] = call[u].obj /\ call[u].slot \in Slot
          /\ \/ call[u].slot \in Local /\ LocalOf[call[u].slot] = u
             \/ \E p \in Object : call[u].slot = Moved(p) /\ stage[p] \in Cleared
      BY <2>1, CallFacts DEF IInv, TypeOK, DecInv, Pending, Calling
    <3>2. call[u].slot # Moved(o) /\ call[u].slot # Field(o)
      BY <1>a, <3>1, SlotFacts DEF Cleared
    <3>3. \A p \in Object : stage[p] \in Cleared => stage'[p] \in Cleared
      BY <1>c DEF Cleared
    <3> QED BY <1>d, <3>1, <3>2, <3>3
  <2>2. f # NoObject => /\ ptr'[call'[t].slot] = call'[t].obj
                        /\ call'[t].slot = Moved(o) /\ stage'[o] \in Cleared
    BY <1>c, <1>d, <1>e DEF Cleared
  <2> SUFFICES ASSUME NEW u \in Thread, Pending(u, "dec")'
               PROVE  /\ ptr'[call'[u].slot] = call'[u].obj
                      /\ \/ call'[u].slot \in Local /\ LocalOf[call'[u].slot] = u
                         \/ \E p \in Object : call'[u].slot = Moved(p) /\ stage'[p] \in Cleared
    BY DEF DecInv
  <2>3. CASE u = t
    BY <1>a, <1>e, <2>2, <2>3 DEF Pending, Calling, NoCall
  <2>4. CASE u # t
    <3>1. Pending(u, "dec") /\ call'[u] = call[u]
      BY <1>e, <2>4 DEF Pending, Calling
    <3> QED BY <2>1, <2>4, <3>1
  <2> QED BY <2>3, <2>4
<1>6. DistinctDrops'
  <2>1. ASSUME NEW u \in Thread \ {t}, Pending(u, "dec") PROVE call[u].slot # Moved(o)
    BY <1>a, <2>1, SlotFacts DEF IInv, DecInv, Cleared
  <2>2. \A u \in Thread \ {t} : call'[u] = call[u] /\ (Pending(u, "dec")' <=> Pending(u, "dec"))
    BY <1>e DEF Pending, Calling
  <2>3. Pending(t, "dec")' => call'[t].slot = Moved(o)
    BY <1>e DEF Pending, Calling
  <2> QED BY <2>1, <2>2, <2>3 DEF IInv, DistinctDrops
<1>7. EmptyInv'
  <2> SUFFICES ASSUME NEW p \in Object
               PROVE  /\ stage'[p] = "unborn" => ptr'[Field(p)] = NoObject
                      /\ stage'[p] \notin Cleared => ptr'[Moved(p)] = NoObject
    BY DEF EmptyInv
  <2>1. CASE p = o
    BY <1>c, <1>d, <2>1 DEF Cleared
  <2>2. CASE p # o
    <3>1. ptr'[Field(p)] = ptr[Field(p)] /\ ptr'[Moved(p)] = ptr[Moved(p)]
      BY <1>a, <1>d, <2>2, SlotFacts
    <3> QED BY <1>c, <2>2, <3>1 DEF IInv, EmptyInv
  <2> QED BY <2>1, <2>2
<1>8. NoDangling'
  <2> SUFFICES ASSUME NEW x \in Slot, ptr'[x] # NoObject
               PROVE  stage'[ptr'[x]] = "live"
    BY DEF NoDangling
  <2>1. PICK y \in Slot : ptr'[x] = ptr[y]
    BY <1>a, <1>d
  <2>2. ptr[y] \in Object /\ stage[ptr[y]] = "live"
    BY <2>1 DEF IInv, TypeOK, NoDangling
  <2> QED BY <1>a, <1>c, <2>1, <2>2
<1>9. CountMatchesPointers'
  <2> SUFFICES ASSUME NEW q \in Object, stage'[q] = "live"
               PROVE  refCnt'[q] = Cardinality(Leading(ptr', q))
    BY DEF CountMatchesPointers, Pointers, Leading
  <2>1. refCnt'[q] = Cardinality(Leading(ptr, q)) /\ q # NoObject
    BY <1>b, <1>c, LowlevelAssumption
    DEF IInv, CountMatchesPointers, Pointers, Leading
  <2>2. CASE f = q
    <3>1. /\ ptr[Field(o)] = q /\ ptr'[Field(o)] # q
          /\ ptr[Moved(o)] # q /\ ptr'[Moved(o)] = q
          /\ \A x \in Slot \ {Moved(o), Field(o)} : ptr'[x] = ptr[x]
      BY <1>a, <1>d, <2>1, <2>2
    <3>2. Cardinality(Leading(ptr', q)) = Cardinality(Leading(ptr, q))
      BY <1>a, <3>1, CountMove
    <3> QED BY <2>1, <3>2
  <2>3. CASE f # q
    <3>1. \A x \in Slot : ptr'[x] = q <=> ptr[x] = q
      BY <1>a, <1>d, <2>1, <2>3
    <3>2. Leading(ptr', q) = Leading(ptr, q)
      BY <3>1, CountSame
    <3> QED BY <2>1, <3>2
  <2> QED BY <2>2, <2>3
<1>10. OneDestroyer'
  <2>1. \A u \in Thread \ {t} : Items(u)' \subseteq Items(u)
    BY <1>b, <1>e, <1>f, ItemsSame DEF Calling
  <2>2. Items(t)' \subseteq Items(t)
    BY <1>b, <1>e, <1>f DEF Items, Calling, NoCall
  <2>3. \A p \in Object : stage[p] \notin {"unborn", "live", "doomed"}
                            => stage'[p] \notin {"unborn", "live", "doomed"}
    BY <1>c
  <2> QED BY <2>1, <2>2, <2>3, ItemsKept DEF IInv
<1>11. SentinelInv'
  <2>1. \A p \in Object : stage'[p] \in {"doomed", "queued", "clear"}
                             => refCnt'[p] = Sentinel
    BY <1>b, <1>c DEF IInv, SentinelInv
  <2>2. ASSUME NEW u \in Thread, Calling(u, "self")'
        PROVE  Calling(u, "self") /\ u # t /\ call'[u] = call[u]
    BY <1>e, <2>2 DEF Calling, NoCall
  <2>3. \A u \in Thread : Calling(u, "self")' => stage'[call'[u].obj] = "self"
    <3> SUFFICES ASSUME NEW u \in Thread, Calling(u, "self")'
                 PROVE  stage'[call[u].obj] = "self"
      BY <2>2
    <3>1. stage[call[u].obj] = "self" /\ call[u].obj \in Object
      BY <2>2, CallFacts DEF IInv, TypeOK, SentinelInv, Calling
    <3> QED BY <1>a, <1>c, <3>1
  <2>4. ASSUME NEW p \in Object, stage'[p] = "self",
               \A u \in Thread : ~(/\ Calling(u, "self")'
                                   /\ call'[u].obj = p /\ call'[u].at = "unlock")
        PROVE  refCnt'[p] = Sentinel
    <3>1. CASE p = o
      BY <1>a, <1>b, <3>1
    <3>2. CASE p # o
      <4>1. stage[p] = "self"
        BY <1>c, <2>4, <3>2
      <4>2. \A u \in Thread : ~(/\ Calling(u, "self")
                                /\ call[u].obj = p /\ call[u].at = "unlock")
        BY <1>a, <1>e, <2>4 DEF Calling
      <4> QED BY <1>b, <4>1, <4>2 DEF IInv, SentinelInv
    <3> QED BY <3>1, <3>2
  <2> QED BY <2>1, <2>3, <2>4 DEF SentinelInv
<1> QED BY <1>1, <1>2, <1>3, <1>4, <1>5, <1>6, <1>7, <1>8, <1>9, <1>10, <1>11 DEF IInv

LEMMA ReleaseSelfStep ==
    ASSUME IInv, NEW t \in Thread, ReleaseSelf(t)
    PROVE  IInv'
<1> DEFINE o == Last(stack[t]).obj
           d == RefcntDecSelf(o, Last(stack[t]).via)
<1>a. /\ call[t] = NoCall /\ stack[t] # <<>> /\ stack[t] \in Seq(Activation)
      /\ o \in Object /\ o \in Items(t) /\ stage[o] = "self"
      /\ d \in Call /\ d.fn = "self" /\ d.at = "lock" /\ d.obj = o
  <2>1. call[t] = NoCall /\ stack[t] # <<>> /\ stack[t] \in Seq(Activation) /\ stage[o] = "self"
    BY DEF IInv, TypeOK, ReleaseSelf
  <2>2. Last(stack[t]) \in Activation /\ Len(stack[t]) \in DOMAIN stack[t]
    BY <2>1, FrontFacts
  <2>3. o \in Object /\ o \in Items(t)
    BY <2>2 DEF Items, Activation, Last
  <2>4. d \in Call
    BY <2>2, <2>3, SlotFacts, NewCallFacts DEF RefcntDecSelf, Via, Activation
  <2> QED BY <2>1, <2>3, <2>4 DEF RefcntDecSelf
<1>b. call' = [call EXCEPT ![t] = d]
  BY DEF ReleaseSelf
<1> HIDE DEF d
<1>c. /\ call' \in [Thread -> Call \cup {NoCall}]
      /\ call'[t] = d /\ \A u \in Thread \ {t} : call'[u] = call[u]
      /\ d # NoCall
  BY <1>a, <1>b, CallFacts DEF IInv, TypeOK
<1>d. UNCHANGED <<refCnt, lockedBy, ptr, stage, stack, chain, looping>>
  BY DEF ReleaseSelf
<1> HIDE DEF o
<1>1. TypeOK'
  BY <1>c, <1>d DEF IInv, TypeOK
<1>2. LockInv'
  BY <1>a, <1>c, <1>d DEF IInv, LockInv
<1>3. LoadInv'
  BY <1>a, <1>c, <1>d DEF IInv, LoadInv
<1>4. IncInv'
  BY <1>a, <1>c, <1>d DEF IInv, IncInv, Pending, Calling
<1>5. DecInv'
  BY <1>a, <1>c, <1>d DEF IInv, DecInv, Pending, Calling
<1>6. DistinctDrops'
  BY <1>a, <1>c DEF IInv, DistinctDrops, Pending, Calling
<1>7. EmptyInv'
  BY <1>d DEF IInv, EmptyInv
<1>8. NoDangling'
  BY <1>d DEF IInv, NoDangling
<1>9. CountMatchesPointers'
  BY <1>d DEF IInv, CountMatchesPointers, Pointers
<1>10. OneDestroyer'
  <2>1. \A u \in Thread \ {t} : Items(u)' \subseteq Items(u)
    BY <1>c, <1>d, ItemsSame DEF Calling
  <2>2. Items(t)' \subseteq Items(t)
    BY <1>a, <1>c, <1>d DEF Items
  <2> QED BY <1>d, <2>1, <2>2, ItemsKept DEF IInv
<1>11. SentinelInv'
  <2>1. \A u \in Thread : Calling(u, "self")' => stage[call'[u].obj] = "self"
    BY <1>a, <1>c DEF IInv, SentinelInv, Calling
  <2>2. ASSUME NEW p \in Object, stage[p] = "self",
               \A u \in Thread : ~(/\ Calling(u, "self")'
                                   /\ call'[u].obj = p /\ call'[u].at = "unlock")
        PROVE  refCnt[p] = Sentinel
    <3>1. \A u \in Thread : ~(/\ Calling(u, "self")
                              /\ call[u].obj = p /\ call[u].at = "unlock")
      BY <1>a, <1>c, <2>2 DEF Calling
    <3> QED BY <2>2, <3>1 DEF IInv, SentinelInv
  <2> QED BY <1>d, <2>1, <2>2 DEF IInv, SentinelInv
<1> QED BY <1>1, <1>2, <1>3, <1>4, <1>5, <1>6, <1>7, <1>8, <1>9, <1>10, <1>11 DEF IInv

LEMMA GotoCurrentStep ==
    ASSUME IInv, NEW t \in Thread, GotoCurrent(t)
    PROVE  IInv'
<1> DEFINE o == Last(chain[t])
           d == RefcntDecSelf(o, "instance")
<1>a. /\ call[t] = NoCall /\ chain[t] # <<>> /\ chain[t] \in Seq(Object)
      /\ o \in Object /\ o \in Items(t) /\ stage[o] = "self"
      /\ d \in Call /\ d.fn = "self" /\ d.at = "lock" /\ d.obj = o
  <2>1. call[t] = NoCall /\ chain[t] # <<>> /\ chain[t] \in Seq(Object) /\ stage[o] = "self"
    BY DEF IInv, TypeOK, GotoCurrent, Returned
  <2>2. Last(chain[t]) \in Object /\ Len(chain[t]) \in DOMAIN chain[t]
    BY <2>1, FrontFacts
  <2>3. o \in Object /\ o \in Items(t)
    BY <2>2 DEF Items, Activation, Last
  <2>4. d \in Call
    BY <2>2, <2>3, SlotFacts, NewCallFacts DEF RefcntDecSelf, Via, Activation
  <2> QED BY <2>1, <2>3, <2>4 DEF RefcntDecSelf
<1>b. call' = [call EXCEPT ![t] = d]
  BY DEF GotoCurrent
<1> HIDE DEF d
<1>c. /\ call' \in [Thread -> Call \cup {NoCall}]
      /\ call'[t] = d /\ \A u \in Thread \ {t} : call'[u] = call[u]
      /\ d # NoCall
  BY <1>a, <1>b, CallFacts DEF IInv, TypeOK
<1>d. /\ chain' \in [Thread -> Seq(Object)]
      /\ \A u \in Thread \ {t} : chain'[u] = chain[u]
      /\ \A i \in DOMAIN chain'[t] : i \in DOMAIN chain[t] /\ chain'[t][i] = chain[t][i]
      /\ UNCHANGED <<refCnt, lockedBy, ptr, stage, stack, looping>>
  <2>1. chain' = [chain EXCEPT ![t] = Front(chain[t])]
    BY DEF GotoCurrent
  <2> QED BY <1>a, <2>1, FrontFacts DEF IInv, TypeOK, GotoCurrent
<1> HIDE DEF o
<1>1. TypeOK'
  BY <1>c, <1>d DEF IInv, TypeOK
<1>2. LockInv'
  BY <1>a, <1>c, <1>d DEF IInv, LockInv
<1>3. LoadInv'
  BY ZenonT(40), <1>a, <1>c, <1>d DEF IInv, LoadInv
<1>4. IncInv'
  BY <1>a, <1>c, <1>d DEF IInv, IncInv, Pending, Calling
<1>5. DecInv'
  BY <1>a, <1>c, <1>d DEF IInv, DecInv, Pending, Calling
<1>6. DistinctDrops'
  BY <1>a, <1>c DEF IInv, DistinctDrops, Pending, Calling
<1>7. EmptyInv'
  BY <1>d DEF IInv, EmptyInv
<1>8. NoDangling'
  BY <1>d DEF IInv, NoDangling
<1>9. CountMatchesPointers'
  BY <1>d DEF IInv, CountMatchesPointers, Pointers
<1>10. OneDestroyer'
  <2>1. \A u \in Thread \ {t} : Items(u)' \subseteq Items(u)
    BY <1>c, <1>d, ItemsSame DEF Calling
  <2>2. Items(t)' \subseteq Items(t)
    BY <1>a, <1>c, <1>d DEF Items
  <2> QED BY <1>d, <2>1, <2>2, ItemsKept DEF IInv
<1>11. SentinelInv'
  <2>1. \A u \in Thread : Calling(u, "self")' => stage[call'[u].obj] = "self"
    BY <1>a, <1>c DEF IInv, SentinelInv, Calling
  <2>2. ASSUME NEW p \in Object, stage[p] = "self",
               \A u \in Thread : ~(/\ Calling(u, "self")'
                                   /\ call'[u].obj = p /\ call'[u].at = "unlock")
        PROVE  refCnt[p] = Sentinel
    <3>1. \A u \in Thread : ~(/\ Calling(u, "self")
                              /\ call[u].obj = p /\ call[u].at = "unlock")
      BY <1>a, <1>c, <2>2 DEF Calling
    <3> QED BY <2>2, <3>1 DEF IInv, SentinelInv
  <2> QED BY <1>d, <2>1, <2>2 DEF IInv, SentinelInv
<1> QED BY <1>1, <1>2, <1>3, <1>4, <1>5, <1>6, <1>7, <1>8, <1>9, <1>10, <1>11 DEF IInv

LEMMA UnlockSelfStep ==
    ASSUME IInv, NEW t \in Thread, UnlockSelf(t)
    PROVE  IInv'
<1> DEFINE c == call[t]
           o == c.obj
<1>a. /\ c \in Call /\ c # NoCall /\ c.at = "unlock" /\ c.fn = "self"
      /\ o \in Object /\ o \in Items(t) /\ stage[o] = "self" /\ lockedBy[o] = t
  <2>1. c \in Call /\ c # NoCall /\ c.at = "unlock" /\ c.fn = "self" /\ o \in Object
    BY CallFacts DEF IInv, TypeOK, UnlockSelf, AtUnlock
  <2> QED BY <2>1 DEF IInv, LockInv, SentinelInv, Items, Calling
<1>b. /\ call' \in [Thread -> Call \cup {NoCall}] /\ call'[t] = NoCall
      /\ \A u \in Thread \ {t} : call'[u] = call[u]
  BY DEF IInv, TypeOK, UnlockSelf, UnlockAndReturn
<1>c. /\ lockedBy' = [lockedBy EXCEPT ![o] = NoThread]
      /\ stage' = [stage EXCEPT ![o] = IF Direct(c.via, o) THEN "free" ELSE "destroyed"]
      /\ UNCHANGED <<refCnt, ptr, stack, chain, looping>>
  BY DEF UnlockSelf, UnlockAndReturn
<1>d. /\ stage'[o] \in {"free", "destroyed"}
      /\ \A p \in Object \ {o} : stage'[p] = stage[p]
      /\ stage' \in [Object -> Stages]
  BY <1>a, <1>c DEF IInv, TypeOK, Stages
<1>e. \A u \in Thread \ {t} : Calling(u, "self") => call[u].obj \in Object \ {o}
  <2> SUFFICES ASSUME NEW u \in Thread \ {t}, Calling(u, "self")
               PROVE  call[u].obj \in Object \ {o}
    OBVIOUS
  <2>1. call[u].obj \in Object /\ call[u].obj \in Items(u)
    BY CallFacts DEF IInv, TypeOK, Items, Calling
  <2> QED BY <1>a, <2>1 DEF IInv, OneDestroyer
<1> HIDE DEF c, o
<1>1. TypeOK'
  BY <1>a, <1>b, <1>c, <1>d DEF IInv, TypeOK
<1>2. LockInv'
  <2>1. /\ lockedBy'[o] = NoThread
        /\ \A p \in Object \ {o} : lockedBy'[p] = lockedBy[p]
    BY <1>a, <1>c DEF IInv, TypeOK
  <2> QED BY <1>a, <1>b, <2>1, LowlevelAssumption DEF IInv, LockInv, c, o
<1>3. LoadInv'
  BY <1>b, <1>c DEF IInv, LoadInv
<1>4. IncInv'
  BY <1>b, <1>c DEF IInv, IncInv, Pending, Calling, NoCall
<1>5. DecInv'
  <2>1. \A p \in Object : stage[p] \in Cleared => stage'[p] \in Cleared
    BY <1>d DEF Cleared
  <2> QED BY <1>b, <1>c, <2>1 DEF IInv, DecInv, Pending, Calling, NoCall
<1>6. DistinctDrops'
  BY <1>b DEF IInv, DistinctDrops, Pending, Calling, NoCall
<1>7. EmptyInv'
  BY <1>a, <1>c, <1>d DEF IInv, EmptyInv, Cleared
<1>8. NoDangling'
  BY <1>a, <1>c, <1>d DEF IInv, TypeOK, NoDangling
<1>9. CountMatchesPointers'
  BY <1>a, <1>c, <1>d DEF IInv, CountMatchesPointers, Pointers
<1>10. OneDestroyer'
  <2>1. \A u \in Thread : Items(u)' \subseteq Items(u)
    BY <1>b, <1>c, ItemsSame DEF Calling, NoCall
  <2>2. \A p \in Object : stage[p] \notin {"unborn", "live", "doomed"}
                            => stage'[p] \notin {"unborn", "live", "doomed"}
    BY <1>d
  <2> QED BY <2>1, <2>2, ItemsKept DEF IInv
<1>11. SentinelInv'
  <2>1. \A p \in Object : stage'[p] \in {"doomed", "queued", "clear"}
                             => refCnt'[p] = Sentinel
    BY <1>c, <1>d DEF IInv, SentinelInv
  <2>2. \A u \in Thread : Calling(u, "self")' => stage'[call'[u].obj] = "self"
    BY <1>b, <1>d, <1>e DEF IInv, SentinelInv, Calling, NoCall
  <2>3. ASSUME NEW p \in Object, stage'[p] = "self",
               \A u \in Thread : ~(/\ Calling(u, "self")'
                                   /\ call'[u].obj = p /\ call'[u].at = "unlock")
        PROVE  refCnt'[p] = Sentinel
    <3>1. p # o /\ stage[p] = "self"
      BY <1>d, <2>3
    <3>2. \A u \in Thread : ~(/\ Calling(u, "self")
                              /\ call[u].obj = p /\ call[u].at = "unlock")
      BY <1>b, <2>3, <3>1 DEF Calling, c, o
    <3> QED BY <1>c, <3>1, <3>2 DEF IInv, SentinelInv
  <2> QED BY <2>1, <2>2, <2>3 DEF SentinelInv
<1> QED BY <1>1, <1>2, <1>3, <1>4, <1>5, <1>6, <1>7, <1>8, <1>9, <1>10, <1>11 DEF IInv

LEMMA FreeStep ==
    ASSUME IInv, NEW t \in Thread, Free(t)
    PROVE  IInv'
<1> DEFINE o == Last(stack[t]).obj
<1>a. /\ call[t] = NoCall /\ stack[t] # <<>> /\ stack[t] \in Seq(Activation)
      /\ o \in Object /\ o \in Items(t) /\ stage[o] = "free"
  <2>1. call[t] = NoCall /\ stack[t] # <<>> /\ stack[t] \in Seq(Activation) /\ stage[o] = "free"
    BY DEF IInv, TypeOK, Free
  <2>2. Last(stack[t]) \in Activation /\ Len(stack[t]) \in DOMAIN stack[t]
    BY <2>1, FrontFacts
  <2> QED BY <2>1, <2>2 DEF Items, Activation, Last
<1>b. stage' = [stage EXCEPT ![o] = "freed"]
  BY DEF Free
<1>c. /\ stage'[o] = "freed" /\ \A p \in Object \ {o} : stage'[p] = stage[p]
      /\ stage' \in [Object -> Stages]
  BY <1>a, <1>b DEF IInv, TypeOK, Stages
<1>d. /\ stack' \in [Thread -> Seq(Activation)]
      /\ \A u \in Thread \ {t} : stack'[u] = stack[u]
      /\ \A i \in DOMAIN stack'[t] : i \in DOMAIN stack[t] /\ stack'[t][i] = stack[t][i]
      /\ UNCHANGED <<refCnt, lockedBy, ptr, call, chain, looping>>
  <2>1. stack' = [stack EXCEPT ![t] = Front(stack[t])]
    BY DEF Free
  <2>2. UNCHANGED <<refCnt, lockedBy, ptr, call, chain, looping>>
    BY DEF Free
  <2>3. Front(stack[t]) \in Seq(Activation)
    BY <1>a, FrontFacts
  <2>4. /\ stack' \in [Thread -> Seq(Activation)] /\ stack'[t] = Front(stack[t])
        /\ \A u \in Thread \ {t} : stack'[u] = stack[u]
    BY <2>1, <2>3 DEF IInv, TypeOK
  <2>5. \A i \in DOMAIN Front(stack[t]) :
           i \in DOMAIN stack[t] /\ Front(stack[t])[i] = stack[t][i]
    BY <1>a, FrontFacts
  <2>6. \A i \in DOMAIN stack'[t] : i \in DOMAIN stack[t] /\ stack'[t][i] = stack[t][i]
    BY <2>4, <2>5
  <2> QED BY <2>2, <2>4, <2>6
<1> HIDE DEF o
<1>1. TypeOK'
  BY <1>c, <1>d DEF IInv, TypeOK
<1>2. LockInv'
  BY <1>d DEF IInv, LockInv
<1>3. LoadInv'
  BY <1>d DEF IInv, LoadInv
<1>4. IncInv'
  BY <1>d DEF IInv, IncInv, Pending, Calling
<1>5. DecInv'
  <2>1. \A p \in Object : stage[p] \in Cleared => stage'[p] \in Cleared
    BY <1>a, <1>c DEF Cleared
  <2> QED BY <1>d, <2>1 DEF IInv, DecInv, Pending, Calling
<1>6. DistinctDrops'
  BY <1>d DEF IInv, DistinctDrops, Pending, Calling
<1>7. EmptyInv'
  BY <1>a, <1>c, <1>d DEF IInv, EmptyInv, Cleared
<1>8. NoDangling'
  BY <1>a, <1>c, <1>d DEF IInv, TypeOK, NoDangling
<1>9. CountMatchesPointers'
  BY <1>a, <1>c, <1>d DEF IInv, CountMatchesPointers, Pointers
<1>10. OneDestroyer'
  <2>1. \A u \in Thread \ {t} : Items(u)' \subseteq Items(u)
    BY <1>d, ItemsSame DEF Calling
  <2>2. Items(t)' \subseteq Items(t)
    BY <1>a, <1>d DEF Items, Calling
  <2>3. \A p \in Object : stage[p] \notin {"unborn", "live", "doomed"}
                            => stage'[p] \notin {"unborn", "live", "doomed"}
    BY <1>c
  <2> QED BY <2>1, <2>2, <2>3, ItemsKept DEF IInv
<1>11. SentinelInv'
  <2>1. \A p \in Object : stage'[p] \in {"doomed", "queued", "clear"}
                             => refCnt'[p] = Sentinel
    BY <1>a, <1>c, <1>d DEF IInv, SentinelInv
  <2>2. \A u \in Thread : Calling(u, "self")' => stage'[call'[u].obj] = "self"
    <3> SUFFICES ASSUME NEW u \in Thread, Calling(u, "self")
                 PROVE  stage'[call[u].obj] = "self"
      BY <1>d DEF Calling
    <3>1. stage[call[u].obj] = "self" /\ call[u].obj \in Object
      BY CallFacts DEF IInv, TypeOK, SentinelInv, Calling
    <3> QED BY <1>a, <1>c, <3>1
  <2>3. \A p \in Object : stage'[p] = "self" => stage[p] = "self"
    BY <1>c
  <2> QED BY <1>d, <2>1, <2>2, <2>3 DEF IInv, SentinelInv, Calling
<1> QED BY <1>1, <1>2, <1>3, <1>4, <1>5, <1>6, <1>7, <1>8, <1>9, <1>10, <1>11 DEF IInv

LEMMA EnterLoopStep ==
    ASSUME IInv, NEW t \in Thread, EnterLoop(t)
    PROVE  IInv'
<1>1. TypeOK'
  BY SlotFacts, LowlevelAssumption DEF IInv, TypeOK, EnterLoop, Returned, Call, NoCall, Activation, Stages, Via, Sentinel
<1>2. LockInv'
  BY SlotFacts, LowlevelAssumption DEF IInv, TypeOK, EnterLoop, Returned, LockInv, NoCall
<1>3. LoadInv'
  BY SlotFacts, LowlevelAssumption DEF IInv, TypeOK, EnterLoop, Returned, LoadInv, LockInv, NoCall
<1>4. IncInv'
  BY SlotFacts, LowlevelAssumption DEF IInv, TypeOK, EnterLoop, Returned, IncInv, NoDangling, DecInv, Pending, Calling, NoCall
<1>5. DecInv'
  BY ZenonT(40), SlotFacts, LowlevelAssumption DEF IInv, TypeOK, EnterLoop, Returned, DecInv, IncInv, EmptyInv, Pending, Calling, NoCall, Cleared
<1>6. DistinctDrops'
  BY SlotFacts, LowlevelAssumption DEF IInv, TypeOK, EnterLoop, Returned, DistinctDrops, DecInv, Pending, Calling, NoCall, Cleared
<1>7. EmptyInv'
  BY SlotFacts, LowlevelAssumption DEF IInv, TypeOK, EnterLoop, Returned, EmptyInv, DecInv, IncInv, Pending, Calling, Cleared
<1>8. NoDangling'
  BY SlotFacts, LowlevelAssumption DEF IInv, TypeOK, EnterLoop, Returned, NoDangling, DecInv, IncInv, Pending, Calling
<1>9. CountMatchesPointers'
  BY SlotFacts, LowlevelAssumption DEF IInv, TypeOK, EnterLoop, Returned, CountMatchesPointers, Pointers
<1>10. OneDestroyer'
  <2>1. \A u \in Thread : Items(u)' \subseteq Items(u)
    BY ItemsSame DEF Calling, EnterLoop
  <2> QED BY <2>1, ItemsKept DEF IInv, EnterLoop
<1>11. SentinelInv'
  BY SlotFacts, LowlevelAssumption DEF IInv, TypeOK, EnterLoop, Returned, SentinelInv, OneDestroyer, Calling, NoCall, Sentinel
<1> QED BY <1>1, <1>2, <1>3, <1>4, <1>5, <1>6, <1>7, <1>8, <1>9, <1>10, <1>11 DEF IInv

LEMMA EvalDestroyStep ==
    ASSUME IInv, NEW t \in Thread, EvalDestroy(t)
    PROVE  IInv'
<1> DEFINE o == Last(chain[t])
<1>a. /\ call[t] = NoCall /\ chain[t] # <<>> /\ chain[t] \in Seq(Object)
      /\ o \in Object /\ o \in Items(t) /\ stage[o] = "queued"
  <2>1. call[t] = NoCall /\ chain[t] # <<>> /\ chain[t] \in Seq(Object) /\ stage[o] = "queued"
    BY DEF IInv, TypeOK, EvalDestroy, Returned
  <2>2. Last(chain[t]) \in Object /\ Len(chain[t]) \in DOMAIN chain[t]
    BY <2>1, FrontFacts
  <2> QED BY <2>1, <2>2 DEF Items, Activation, Last
<1>b. stage' = [stage EXCEPT ![o] = "clear"]
  BY DEF EvalDestroy
<1>c. /\ stage'[o] = "clear" /\ \A p \in Object \ {o} : stage'[p] = stage[p]
      /\ stage' \in [Object -> Stages]
  BY <1>a, <1>b DEF IInv, TypeOK, Stages
<1>d. /\ stack' \in [Thread -> Seq(Activation)]
      /\ \A u \in Thread \ {t} : stack'[u] = stack[u]
      /\ \A i \in DOMAIN stack'[t] : \/ stack'[t][i].obj = o
                                     \/ i \in DOMAIN stack[t] /\ stack'[t][i] = stack[t][i]
      /\ UNCHANGED <<refCnt, lockedBy, ptr, call, chain, looping>>
  <2> DEFINE a == [obj |-> o, via |-> "instance"]
  <2>1. a \in Activation /\ a.obj = o /\ stack[t] \in Seq(Activation)
    BY <1>a DEF IInv, TypeOK, Activation, Via
  <2>2. stack' = [stack EXCEPT ![t] = Append(stack[t], a)]
    BY DEF EvalDestroy
  <2>3. UNCHANGED <<refCnt, lockedBy, ptr, call, chain, looping>>
    BY DEF EvalDestroy
  <2> HIDE DEF a, o
  <2>4. Append(stack[t], a) \in Seq(Activation)
    BY <2>1, PushFacts
  <2>5. /\ stack' \in [Thread -> Seq(Activation)]
        /\ stack'[t] = Append(stack[t], a)
        /\ \A u \in Thread \ {t} : stack'[u] = stack[u]
    BY <2>2, <2>4 DEF IInv, TypeOK
  <2>6. \A i \in DOMAIN Append(stack[t], a) :
           \/ Append(stack[t], a)[i] = a
           \/ i \in DOMAIN stack[t] /\ Append(stack[t], a)[i] = stack[t][i]
    BY <2>1, PushFacts
  <2>7. \A i \in DOMAIN stack'[t] : \/ stack'[t][i].obj = o
                                    \/ i \in DOMAIN stack[t] /\ stack'[t][i] = stack[t][i]
    BY <2>1, <2>5, <2>6
  <2> QED BY <2>3, <2>5, <2>7
<1> HIDE DEF o
<1>1. TypeOK'
  BY <1>c, <1>d DEF IInv, TypeOK
<1>2. LockInv'
  BY <1>d DEF IInv, LockInv
<1>3. LoadInv'
  BY <1>d DEF IInv, LoadInv
<1>4. IncInv'
  BY <1>d DEF IInv, IncInv, Pending, Calling
<1>5. DecInv'
  <2>1. \A p \in Object : stage[p] \in Cleared => stage'[p] \in Cleared
    BY <1>a, <1>c DEF Cleared
  <2> QED BY <1>d, <2>1 DEF IInv, DecInv, Pending, Calling
<1>6. DistinctDrops'
  BY <1>d DEF IInv, DistinctDrops, Pending, Calling
<1>7. EmptyInv'
  BY <1>a, <1>c, <1>d DEF IInv, EmptyInv, Cleared
<1>8. NoDangling'
  BY <1>a, <1>c, <1>d DEF IInv, TypeOK, NoDangling
<1>9. CountMatchesPointers'
  BY <1>a, <1>c, <1>d DEF IInv, CountMatchesPointers, Pointers
<1>10. OneDestroyer'
  <2>1. \A u \in Thread \ {t} : Items(u)' \subseteq Items(u)
    BY <1>d, ItemsSame DEF Calling
  <2>2. Items(t)' \subseteq Items(t)
    BY <1>a, <1>d DEF Items, Calling
  <2>3. \A p \in Object : stage[p] \notin {"unborn", "live", "doomed"}
                            => stage'[p] \notin {"unborn", "live", "doomed"}
    BY <1>c
  <2> QED BY <2>1, <2>2, <2>3, ItemsKept DEF IInv
<1>11. SentinelInv'
  <2>1. \A p \in Object : stage'[p] \in {"doomed", "queued", "clear"}
                             => refCnt'[p] = Sentinel
    BY <1>a, <1>c, <1>d DEF IInv, SentinelInv
  <2>2. \A u \in Thread : Calling(u, "self")' => stage'[call'[u].obj] = "self"
    <3> SUFFICES ASSUME NEW u \in Thread, Calling(u, "self")
                 PROVE  stage'[call[u].obj] = "self"
      BY <1>d DEF Calling
    <3>1. stage[call[u].obj] = "self" /\ call[u].obj \in Object
      BY CallFacts DEF IInv, TypeOK, SentinelInv, Calling
    <3> QED BY <1>a, <1>c, <3>1
  <2>3. \A p \in Object : stage'[p] = "self" => stage[p] = "self"
    BY <1>c
  <2> QED BY <1>d, <2>1, <2>2, <2>3 DEF IInv, SentinelInv, Calling
<1> QED BY <1>1, <1>2, <1>3, <1>4, <1>5, <1>6, <1>7, <1>8, <1>9, <1>10, <1>11 DEF IInv

LEMMA LeaveLoopStep ==
    ASSUME IInv, NEW t \in Thread, LeaveLoop(t)
    PROVE  IInv'
<1>1. TypeOK'
  BY SlotFacts, LowlevelAssumption DEF IInv, TypeOK, LeaveLoop, Returned, Call, NoCall, Activation, Stages, Via, Sentinel
<1>2. LockInv'
  BY SlotFacts, LowlevelAssumption DEF IInv, TypeOK, LeaveLoop, Returned, LockInv, NoCall
<1>3. LoadInv'
  BY SlotFacts, LowlevelAssumption DEF IInv, TypeOK, LeaveLoop, Returned, LoadInv, LockInv, NoCall
<1>4. IncInv'
  BY SlotFacts, LowlevelAssumption DEF IInv, TypeOK, LeaveLoop, Returned, IncInv, NoDangling, DecInv, Pending, Calling, NoCall
<1>5. DecInv'
  BY ZenonT(40), SlotFacts, LowlevelAssumption DEF IInv, TypeOK, LeaveLoop, Returned, DecInv, IncInv, EmptyInv, Pending, Calling, NoCall, Cleared
<1>6. DistinctDrops'
  BY SlotFacts, LowlevelAssumption DEF IInv, TypeOK, LeaveLoop, Returned, DistinctDrops, DecInv, Pending, Calling, NoCall, Cleared
<1>7. EmptyInv'
  BY SlotFacts, LowlevelAssumption DEF IInv, TypeOK, LeaveLoop, Returned, EmptyInv, DecInv, IncInv, Pending, Calling, Cleared
<1>8. NoDangling'
  BY SlotFacts, LowlevelAssumption DEF IInv, TypeOK, LeaveLoop, Returned, NoDangling, DecInv, IncInv, Pending, Calling
<1>9. CountMatchesPointers'
  BY SlotFacts, LowlevelAssumption DEF IInv, TypeOK, LeaveLoop, Returned, CountMatchesPointers, Pointers
<1>10. OneDestroyer'
  <2>1. \A u \in Thread : Items(u)' \subseteq Items(u)
    BY ItemsSame DEF Calling, LeaveLoop
  <2> QED BY <2>1, ItemsKept DEF IInv, LeaveLoop
<1>11. SentinelInv'
  BY SlotFacts, LowlevelAssumption DEF IInv, TypeOK, LeaveLoop, Returned, SentinelInv, OneDestroyer, Calling, NoCall, Sentinel
<1> QED BY <1>1, <1>2, <1>3, <1>4, <1>5, <1>6, <1>7, <1>8, <1>9, <1>10, <1>11 DEF IInv

-----------------------------------------------------------------------------
(* The inductive invariant *)

LEMMA InitIInv == Init => IInv
<1> SUFFICES ASSUME Init PROVE IInv
  OBVIOUS
<1>1. TypeOK
  BY DEF Init, TypeOK, Stages
<1>2. /\ \A t \in Thread : call[t] = NoCall /\ stack[t] = <<>> /\ chain[t] = <<>>
      /\ \A o \in Object : stage[o] = "unborn" /\ lockedBy[o] = NoThread
      /\ \A s \in Slot : ptr[s] = NoObject
  BY DEF Init
<1>3. LockInv /\ LoadInv /\ IncInv /\ DecInv /\ DistinctDrops
  BY <1>2, LowlevelAssumption
  DEF LockInv, LoadInv, IncInv, DecInv, DistinctDrops, Pending, Calling, NoCall
<1>4. EmptyInv /\ NoDangling /\ CountMatchesPointers
  BY <1>2, SlotFacts DEF EmptyInv, NoDangling, CountMatchesPointers
<1>5. \A t \in Thread : Items(t) = {}
  BY <1>2 DEF Items, Calling, NoCall
<1>6. OneDestroyer /\ SentinelInv
  BY <1>2, <1>5 DEF OneDestroyer, SentinelInv, Calling, NoCall
<1> QED BY <1>1, <1>3, <1>4, <1>6 DEF IInv

LEMMA StutterIInv == ASSUME IInv, UNCHANGED vars PROVE IInv'
<1>1. UNCHANGED <<refCnt, lockedBy, ptr, stage, call, stack, chain, looping>>
  BY DEF vars
<1>2. TypeOK' /\ LockInv' /\ LoadInv' /\ IncInv' /\ DecInv' /\ DistinctDrops'
  BY <1>1 DEF IInv, TypeOK, LockInv, LoadInv, IncInv, DecInv, DistinctDrops,
              Pending, Calling
<1>3. EmptyInv' /\ NoDangling' /\ CountMatchesPointers'
  BY <1>1 DEF IInv, EmptyInv, NoDangling, CountMatchesPointers, Pointers
<1>4. \A u \in Thread : Items(u)' = Items(u)
  BY <1>1 DEF Items, Calling
<1>5. OneDestroyer'
  BY <1>1, <1>4 DEF IInv, OneDestroyer
<1>6. SentinelInv'
  BY <1>1 DEF IInv, SentinelInv, Calling
<1> QED BY <1>2, <1>3, <1>5, <1>6 DEF IInv

LEMMA NextIInv == ASSUME IInv, Next PROVE IInv'
<1>1. PICK t \in Thread : UseObjects(t) \/ Lock(t) \/ Proceed(t) \/ Loop(t)
  BY DEF Next
<1>2. CASE UseObjects(t)
  BY <1>2, AllocStep, HandStep, ReferenceStep, ReleaseStep DEF UseObjects
<1>3. CASE Lock(t)
  BY <1>3, LockStep
<1>4. CASE Proceed(t)
  BY <1>4, LoadStep, IncrementStep, DecrementStep, UnlockStep,
     DestroyDirectlyStep, DestroyByContinuationStep, DestroyAllStep,
     ReleaseSelfStep, GotoCurrentStep, UnlockSelfStep, FreeStep, EvalDestroyStep
  DEF Proceed
<1>5. CASE Loop(t)
  BY <1>5, EnterLoopStep, LeaveLoopStep DEF Loop
<1> QED BY <1>1, <1>2, <1>3, <1>4, <1>5

\* Whatever the threads do with shared objects, IInv holds: it is what every
\* step of refcnt_inc, refcnt_dec and the destruction code keeps true.
THEOREM InductiveInvariant == Spec => []IInv
<1>1. IInv /\ [Next]_vars => IInv'
  BY NextIInv, StutterIInv
<1> QED BY <1>1, InitIInv, PTL DEF Spec

-----------------------------------------------------------------------------
(* What follows from it *)

\* Every variable of the low level keeps its type.
THEOREM TypeCorrect == Spec => []TypeOK
<1>1. IInv => TypeOK
  BY DEF IInv
<1> QED BY <1>1, InductiveInvariant, PTL

\* smop_lowlevel_refcnt_inc and _dec lose no update: the ref_cnt of a live
\* object is the number of pointers to it, for any number of threads.
THEOREM CountsAreExact == Spec => []CountMatchesPointers
<1>1. IInv => CountMatchesPointers
  BY DEF IInv
<1> QED BY <1>1, InductiveInvariant, PTL

\* No pointer leads to an object whose destruction has begun.
THEOREM PointersAreSafe == Spec => []NoDangling
<1>1. IInv => NoDangling
  BY DEF IInv
<1> QED BY <1>1, InductiveInvariant, PTL

\* "No recursion should be made while a object is locked": DESTROYALL, user
\* code and every wait for an rwlock run with no lock held by the thread, so
\* that threads cannot wait for one another in a circle.
THEOREM LocksAreNotNested == Spec => []NoRecursionWhileLocked
<1>1. IInv => NoRecursionWhileLocked
  BY DEF IInv, LockInv, NoRecursionWhileLocked
<1> QED BY <1>1, InductiveInvariant, PTL

LEMMA ForwardStep ==
    ASSUME IInv, NEW t \in Thread,
           UseObjects(t) \/ Lock(t) \/ Proceed(t) \/ Loop(t),
           NEW p \in Object, stage'[p] # stage[p]
    PROVE  <<stage[p], stage'[p]>> \in Passages
<1>1. CASE \E o \in Object, s \in Local : Alloc(t, o, s)
  BY <1>1 DEF IInv, TypeOK, Alloc, Passages
<1>2. CASE Decrement(t)
  <2> DEFINE c == call[t]
  <2>1. /\ c # NoCall /\ c.at = "store" /\ c.fn # "inc" /\ c \in Call
        /\ stage'[p] # stage[p] => p = c.obj /\ stage'[p] = "doomed" /\ c.tmp - 1 <= 0
    BY <1>2 DEF IInv, TypeOK, Decrement
  <2>2. c.fn = "dec" => stage[p] = "live"
    BY <2>1, CalledStage
  <2>3. c.fn = "self" => stage[p] = "self" /\ refCnt[p] = Sentinel /\ c.tmp = refCnt[p]
    <3> SUFFICES ASSUME c.fn = "self"
                 PROVE  stage[p] = "self" /\ refCnt[p] = Sentinel /\ c.tmp = refCnt[p]
      OBVIOUS
    <3>1. stage[p] = "self" /\ c.tmp = refCnt[p]
      BY <2>1, CalledStage DEF IInv, LoadInv
    <3>2. \A u \in Thread : ~(/\ Calling(u, "self")
                              /\ call[u].obj = p /\ call[u].at = "unlock")
      <4> SUFFICES ASSUME NEW u \in Thread \ {t}, Calling(u, "self")
                   PROVE  call[u].obj # p
        BY <2>1
      <4>1. p \in Items(t) /\ call[u].obj \in Items(u)
        BY <2>1 DEF Items, Calling
      <4> QED BY <4>1 DEF IInv, OneDestroyer
    <3> QED BY <3>1, <3>2 DEF IInv, SentinelInv
  <2>4. c.fn \in {"dec", "self"}
    BY <2>1, CallFacts
  <2> QED BY <2>1, <2>2, <2>3, <2>4 DEF Sentinel, Passages
<1>3. CASE DestroyDirectly(t) \/ DestroyByContinuation(t)
  BY <1>3 DEF IInv, TypeOK, DestroyDirectly, DestroyByContinuation, Passages
<1>4. CASE DestroyAll(t)
  BY <1>4 DEF IInv, TypeOK, DestroyAll, Passages
<1>5. CASE UnlockSelf(t)
  <2>1. /\ Calling(t, "self")
        /\ stage' = [stage EXCEPT ![call[t].obj] =
                       IF Direct(call[t].via, call[t].obj) THEN "free" ELSE "destroyed"]
    BY <1>5 DEF UnlockSelf, AtUnlock, Calling
  <2>2. stage[call[t].obj] = "self"
    BY <2>1 DEF IInv, SentinelInv
  <2> QED BY <2>1, <2>2 DEF IInv, TypeOK, Passages
<1>6. CASE Free(t)
  BY <1>6 DEF IInv, TypeOK, Free, Passages
<1>7. CASE EvalDestroy(t)
  BY <1>7 DEF IInv, TypeOK, EvalDestroy, Passages
<1> QED
  BY <1>1, <1>2, <1>3, <1>4, <1>5, <1>6, <1>7
  DEF UseObjects, Hand, Reference, Release, Lock, Proceed, Load, Increment, Unlock,
      ReleaseSelf, GotoCurrent, Loop, EnterLoop, LeaveLoop

\* An object is doomed, destroyed and freed at most once: the sentinel keeps
\* the releases made by its own destruction from taking it to zero again.
THEOREM DestroyedOnce == Spec => LifecycleForward
<1>1. IInv /\ Next => Forward
  BY ForwardStep DEF Next, Forward
<1>2. IInv /\ [Next]_vars => [Forward]_vars
  BY <1>1
<1> QED BY <1>2, InductiveInvariant, PTL DEF Spec, LifecycleForward

=============================================================================
