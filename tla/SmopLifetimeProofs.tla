------------------------- MODULE SmopLifetimeProofs -------------------------
(***************************************************************************)
(* What the inductive invariant of the SMOP low level is good for: nobody  *)
(* is left holding a freed object, and the counts, locks, stacks and       *)
(* chains implement the plain object lifetimes of ObjectLifetime.          *)
(***************************************************************************)
EXTENDS SmopLowlevelProofs

-----------------------------------------------------------------------------
(* Where the objects being destroyed are *)

LEMMA ItemPlaces ==
    ASSUME NEW t \in Thread
    PROVE  /\ Stacked(t) \subseteq Items(t) /\ Chained(t) \subseteq Items(t)
           /\ Calling(t, "self") => call[t].obj \in Items(t)
BY DEF Items, Stacked, Chained

\* A step by t that stores, unlocks or starts a call leaves every other
\* thread's call as it is.
LEMMA OtherCalls ==
    ASSUME TypeOK, NEW t \in Thread, NEW u \in Thread \ {t},
           UseObjects(t) \/ Lock(t) \/ Proceed(t) \/ Loop(t)
    PROVE  /\ call'[u] = call[u]
           /\ stack'[u] = stack[u]
           /\ chain'[u] = chain[u]
BY DEF TypeOK, UseObjects, Alloc, Hand, Reference, Release, Lock, Proceed, Load,
       Increment, Decrement, Unlock, UnlockAndReturn, DestroyDirectly,
       DestroyByContinuation, DestroyAll, ReleaseSelf, GotoCurrent, UnlockSelf,
       Free, EvalDestroy, Loop, EnterLoop, LeaveLoop

LEMMA UnlockInvStep ==
    ASSUME IInv, UnlockInv, NEW t \in Thread,
           UseObjects(t) \/ Lock(t) \/ Proceed(t) \/ Loop(t)
    PROVE  UnlockInv'
<1> SUFFICES ASSUME NEW u \in Thread, AtUnlock(u)', call'[u].fn # "self"
             PROVE  stage'[call'[u].obj] \in {"live", "doomed"}
  BY DEF UnlockInv
<1>1. CASE call'[u] = call[u]
  <2> DEFINE o == call[u].obj
  <2>1. /\ AtUnlock(u) /\ call[u].fn # "self" /\ call[u] \in Call
        /\ o \in Object /\ lockedBy[o] = u
    BY <1>1, CallFacts DEF AtUnlock, IInv, TypeOK, LockInv
  <2>2. stage[o] \in {"live", "doomed"}
    BY <2>1 DEF UnlockInv
  <2>3. CASE stage'[o] # stage[o]
    <3>1. <<stage[o], stage'[o]>> \in Passages
      BY <2>1, <2>3, ForwardStep
    <3>2. CASE stage[o] = "live"
      BY <3>1, <3>2, <1>1 DEF Passages
    <3>3. CASE stage[o] = "doomed"
      <4>1. stage'[o] \in {"queued", "clear"}
        BY <3>1, <3>3 DEF Passages
      <4>2. DestroyDirectly(t) \/ DestroyByContinuation(t)
        BY <2>1, <2>3, <3>3, <4>1
        DEF IInv, TypeOK, UseObjects, Alloc, Hand, Reference, Release, Lock, Proceed,
            Load, Increment, Decrement, Unlock, UnlockAndReturn, DestroyAll, ReleaseSelf,
            GotoCurrent, UnlockSelf, Free, EvalDestroy, Loop, EnterLoop, LeaveLoop
      <4>3. call[t].obj = o /\ AtUnlock(t) /\ call'[t] = NoCall
        BY <2>1, <2>3, <4>2
        DEF IInv, TypeOK, DestroyDirectly, DestroyByContinuation, UnlockAndReturn
      <4>4. t = u
        BY <2>1, <4>3 DEF IInv, LockInv, AtUnlock
      <4> QED BY <1>1, <2>1, <4>3, <4>4, CallFacts
    <3> QED BY <2>2, <3>2, <3>3
  <2> QED BY <1>1, <2>2, <2>3
<1>2. CASE call'[u] # call[u]
  <2>1. t = u
    BY <1>2, OtherCalls DEF IInv
  <2> DEFINE c == call[t]
  <2>2. c \in Call \cup {NoCall} /\ call'[t] # NoCall /\ call'[t].at = "unlock"
    BY <2>1 DEF IInv, TypeOK, AtUnlock
  <2>3. Increment(t) \/ Decrement(t)
    <3>1. ~UseObjects(t) /\ ~DestroyAll(t) /\ ~ReleaseSelf(t) /\ ~GotoCurrent(t)
      BY <1>2, <2>1, <2>2
      DEF IInv, TypeOK, UseObjects, Alloc, Hand, Reference, Release, RefcntDec,
          RefcntDecSelf, DestroyAll, ReleaseSelf, GotoCurrent
    <3>2. ~Lock(t) /\ ~Load(t)
      <4>1. c \in Call => [c EXCEPT !.at = "load"].at = "load"
                           /\ [c EXCEPT !.tmp = refCnt[c.obj], !.at = "store"].at = "store"
        BY DEF Call
      <4> QED BY <2>2, <4>1 DEF IInv, TypeOK, Lock, Load
    <3>3. /\ ~Unlock(t) /\ ~UnlockSelf(t)
          /\ ~DestroyDirectly(t) /\ ~DestroyByContinuation(t)
      BY <2>2 DEF IInv, TypeOK, Unlock, UnlockSelf, UnlockAndReturn,
                  DestroyDirectly, DestroyByContinuation
    <3>4. ~Free(t) /\ ~EvalDestroy(t) /\ ~Loop(t)
      BY <1>2, <2>1 DEF Free, EvalDestroy, Loop, EnterLoop, LeaveLoop
    <3> QED BY <3>1, <3>2, <3>3, <3>4 DEF Proceed
  <2>4. c # NoCall /\ c.at = "store" /\ c \in Call
    BY <2>2, <2>3 DEF Increment, Decrement
  <2>5. call' = [call EXCEPT ![t].at = "unlock"]
    BY <2>3 DEF Increment, Decrement
  <2>6. call'[t].obj = c.obj /\ call'[t].fn = c.fn
    BY <2>4, <2>5 DEF IInv, TypeOK, Call
  <2>7. c.obj \in Object /\ stage[c.obj] = "live"
    BY <2>1, <2>4, <2>6, CalledStage
  <2>8. stage'[c.obj] \in {"live", "doomed"}
    BY <2>3, <2>7 DEF IInv, TypeOK, Increment, Decrement
  <2> QED BY <2>1, <2>6, <2>8
<1> QED BY <1>1, <1>2

\* Thread t leaves its stack and chain alone, starts no release of an object
\* it destroys, and nobody changes how far that object has come.
LEMMA PlacedKept ==
    ASSUME NEW t \in Thread, Placed(t),
           stack'[t] = stack[t], chain'[t] = chain[t],
           Calling(t, "self")' => /\ Calling(t, "self")
                                  /\ call'[t].obj = call[t].obj
                                  /\ call'[t].via = call[t].via,
           \A p \in Items(t) : stage'[p] = stage[p]
    PROVE  Placed(t)'
<1>1. Chained(t)' = Chained(t) /\ Stacked(t)' = Stacked(t)
  BY DEF Chained, Stacked
<1>2. StackPlaced(t)'
  <2>1. \A i \in DOMAIN stack[t] : stage'[stack[t][i].obj] = stage[stack[t][i].obj]
    BY ItemPlaces DEF Stacked
  <2> QED BY <1>1, <2>1 DEF Placed, StackPlaced
<1>3. ChainPlaced(t)'
  <2>1. \A i \in DOMAIN chain[t] : stage'[chain[t][i]] = stage[chain[t][i]]
    BY ItemPlaces DEF Chained
  <2> QED BY <2>1 DEF Placed, ChainPlaced
<1>4. SelfPlaced(t)'
  BY <1>1 DEF Placed, SelfPlaced
<1> QED BY <1>2, <1>3, <1>4 DEF Placed

\* Objects that are live or not born yet, and those just doomed, are not yet
\* anywhere among the items of a thread.
LEMMA NotAnItem ==
    ASSUME IInv, NEW p \in Object, stage[p] \in {"unborn", "live", "doomed"}
    PROVE  \A u \in Thread : /\ p \notin Items(u)
                             /\ p \notin Stacked(u) /\ p \notin Chained(u)
BY ItemPlaces DEF IInv, OneDestroyer

LEMMA QuietPlaces ==
    ASSUME IInv, NEW t \in Thread, Placed(t),
           \/ UseObjects(t) \/ Lock(t) \/ Load(t) \/ Increment(t) \/ Decrement(t)
           \/ Unlock(t) \/ Loop(t)
    PROVE  Placed(t)'
<1>1. stack'[t] = stack[t] /\ chain'[t] = chain[t]
  BY DEF UseObjects, Alloc, Hand, Reference, Release, Lock, Load, Increment, Decrement,
         Unlock, UnlockAndReturn, Loop, EnterLoop, LeaveLoop
<1>2. Calling(t, "self")' => /\ Calling(t, "self")
                             /\ call'[t].obj = call[t].obj
                             /\ call'[t].via = call[t].via
  <2> SUFFICES ASSUME Calling(t, "self")', call'[t] # call[t]
               PROVE  /\ Calling(t, "self")
                      /\ call'[t].obj = call[t].obj /\ call'[t].via = call[t].via
    BY DEF Calling
  <2> DEFINE c == call[t]
  <2>2. c \in Call \cup {NoCall} /\ call'[t] # NoCall /\ call'[t].fn = "self"
    BY DEF IInv, TypeOK, Calling
  <2>3. ~UseObjects(t) /\ ~Unlock(t) /\ ~Loop(t)
    BY <2>2 DEF IInv, TypeOK, UseObjects, Alloc, Hand, Reference, Release, RefcntDec,
                Unlock, UnlockAndReturn, Loop, EnterLoop, LeaveLoop
  <2>4. c \in Call /\ c # NoCall
    BY <2>2, <2>3 DEF Lock, Load, Increment, Decrement
  <2>5. \A a \in {"load", "store", "unlock"}, n \in Int :
           LET d == [c EXCEPT !.at = a]
               e == [c EXCEPT !.tmp = n, !.at = a]
           IN  /\ d.fn = c.fn /\ d.obj = c.obj /\ d.via = c.via
               /\ e.fn = c.fn /\ e.obj = c.obj /\ e.via = c.via
    BY <2>4 DEF Call
  <2>6. refCnt[c.obj] \in Int
    BY <2>4, CallFacts DEF IInv, TypeOK
  <2>7. \/ call' = [call EXCEPT ![t] = [c EXCEPT !.at = "load"]]
        \/ call' = [call EXCEPT ![t] = [c EXCEPT !.tmp = refCnt[c.obj], !.at = "store"]]
        \/ call' = [call EXCEPT ![t] = [c EXCEPT !.at = "unlock"]]
    BY <2>3 DEF Lock, Load, Increment, Decrement
  <2>8. call'[t].fn = c.fn /\ call'[t].obj = c.obj /\ call'[t].via = c.via
    BY ZenonT(40), <2>5, <2>6, <2>7 DEF IInv, TypeOK
  <2> QED BY <2>2, <2>4, <2>8 DEF Calling
<1>3. ASSUME NEW p \in Items(t), stage'[p] # stage[p]
      PROVE  FALSE
  <2>1. p \in Object /\ stage[p] \notin {"unborn", "live", "doomed"}
    BY NotAnItem, ItemsAreObjects DEF IInv
  <2>2. <<stage[p], stage'[p]>> \in Passages
    BY <1>3, <2>1, ForwardStep DEF Proceed
  <2>3. stage'[p] # "live" /\ stage'[p] # "doomed"
    BY <2>1, <2>2 DEF Passages
  <2> QED BY <1>3, <2>1, <2>3
      DEF IInv, TypeOK, UseObjects, Alloc, Hand, Reference, Release, Lock, Load, Increment,
          Decrement, Unlock, UnlockAndReturn, Loop, EnterLoop, LeaveLoop
<1> QED BY <1>1, <1>2, <1>3, PlacedKept

\* What a thread destroys no other thread touches.
LEMMA OtherItems ==
    ASSUME IInv, NEW t \in Thread, NEW u \in Thread \ {t}, NEW p \in Items(u),
           UseObjects(t) \/ Lock(t) \/ Proceed(t) \/ Loop(t)
    PROVE  stage'[p] = stage[p]
<1> SUFFICES ASSUME stage'[p] # stage[p]
             PROVE  FALSE
  OBVIOUS
<1>1. /\ p \in Object /\ stage[p] \notin {"unborn", "live", "doomed"}
      /\ p \notin Items(t)
  BY NotAnItem, ItemsAreObjects DEF IInv, OneDestroyer
<1>2. stage'[p] \notin {"live", "doomed"}
  BY <1>1, ForwardStep DEF Passages
<1>3. DestroyAll(t) \/ UnlockSelf(t) \/ Free(t) \/ EvalDestroy(t)
  BY <1>1, <1>2
  DEF IInv, TypeOK, UseObjects, Alloc, Hand, Reference, Release, Lock, Proceed, Load,
      Increment, Decrement, Unlock, UnlockAndReturn, DestroyDirectly,
      DestroyByContinuation, ReleaseSelf, GotoCurrent, Loop, EnterLoop, LeaveLoop
<1>4. CASE DestroyAll(t) \/ Free(t)
  <2>1. stack[t] \in Seq(Activation) /\ stack[t] # <<>>
    BY <1>4 DEF IInv, TypeOK, DestroyAll, Free
  <2>2. Last(stack[t]).obj \in Items(t)
    BY <2>1, FrontFacts, ItemPlaces DEF Last, Stacked
  <2> QED BY <1>1, <1>4, <2>2 DEF IInv, TypeOK, DestroyAll, Free
<1>5. CASE UnlockSelf(t)
  BY <1>1, <1>5, ItemPlaces DEF IInv, TypeOK, UnlockSelf, AtUnlock, Calling
<1>6. CASE EvalDestroy(t)
  <2>1. chain[t] \in Seq(Object) /\ chain[t] # <<>>
    BY <1>6 DEF IInv, TypeOK, EvalDestroy
  <2>2. Last(chain[t]) \in Items(t)
    BY <2>1, FrontFacts, ItemPlaces DEF Last, Chained
  <2> QED BY <1>1, <1>6, <2>2 DEF IInv, TypeOK, EvalDestroy
<1> QED BY <1>3, <1>4, <1>5, <1>6

LEMMA OthersPlaced ==
    ASSUME IInv, NEW t \in Thread, NEW u \in Thread \ {t}, Placed(u),
           UseObjects(t) \/ Lock(t) \/ Proceed(t) \/ Loop(t)
    PROVE  Placed(u)'
BY OtherItems, OtherCalls, PlacedKept DEF IInv, Calling

LEMMA StackedObjects ==
    ASSUME TypeOK, NEW t \in Thread, NEW i \in DOMAIN stack[t]
    PROVE  stack[t][i] \in Activation /\ stack[t][i].obj \in Object
<1>1. stack[t] \in Seq(Activation)
  BY DEF TypeOK
<1>2. stack[t][i] \in Activation
  BY <1>1, LenProperties, ElementOfSeq
<1> QED BY <1>2 DEF Activation

-----------------------------------------------------------------------------
(* The steps that move an object along its destruction *)

LEMMA DestroyDirectlyPlaced ==
    ASSUME IInv, NEW t \in Thread, Placed(t), DestroyDirectly(t)
    PROVE  Placed(t)'
<1> DEFINE c == call[t]
           o == c.obj
           a == [obj |-> o, via |-> c.via]
<1>1. c \in Call /\ o \in Object /\ c.via \in Via /\ stage[o] = "doomed" /\ Direct(c.via, o)
  BY CallFacts DEF IInv, TypeOK, DestroyDirectly, AtUnlock
<1>2. /\ call'[t] = NoCall /\ stage' = [stage EXCEPT ![o] = "clear"]
      /\ stack'[t] = Append(stack[t], a) /\ chain' = chain
  BY DEF IInv, TypeOK, DestroyDirectly, UnlockAndReturn
<1>3. o \notin Stacked(t) /\ o \notin Chained(t)
  BY <1>1, NotAnItem
<1>4. /\ a \in Activation /\ stack[t] \in Seq(Activation)
      /\ stage'[o] = "clear" /\ \A p \in Object \ {o} : stage'[p] = stage[p]
  BY <1>1, <1>2 DEF IInv, TypeOK, Activation
<1>5. Chained(t)' = Chained(t)
  BY <1>2 DEF Chained
<1>6. StackPlaced(t)'
  <2> SUFFICES ASSUME NEW i \in DOMAIN stack'[t]
               PROVE  LET b == stack'[t][i]
                      IN  /\ \A j \in DOMAIN stack'[t] : stack'[t][j].obj = b.obj => j = i
                          /\ IF Direct(b.via, b.obj)
                             THEN /\ stage'[b.obj] \in {"clear", "self", "free"}
                                  /\ b.obj \notin Chained(t)
                             ELSE stage'[b.obj] = "clear"
    BY <1>5 DEF StackPlaced
  <2>1. PICK n \in Nat : n = Len(stack[t])
    BY <1>4, LenProperties
  <2>2. /\ DOMAIN stack'[t] = 1 .. n + 1 /\ DOMAIN stack[t] = 1 .. n
        /\ stack'[t][n + 1] = a
        /\ \A j \in 1 .. n : stack'[t][j] = stack[t][j]
    BY <1>2, <1>4, <2>1, AppendProperties, LenProperties
  <2>3. \A j \in 1 .. n : stack[t][j].obj # o /\ stack[t][j].obj \in Object
    BY <1>3, <2>2, StackedObjects DEF Stacked, IInv
  <2>4. CASE i = n + 1
    BY <1>1, <1>3, <1>4, <2>1, <2>2, <2>3, <2>4
  <2>5. CASE i \in 1 .. n
    <3> DEFINE b == stack[t][i]
    <3>1. stack'[t][i] = b /\ b.obj # o /\ b.obj \in Object /\ stage'[b.obj] = stage[b.obj]
      BY <1>4, <2>2, <2>3, <2>5
    <3>2. /\ \A j \in 1 .. n : stack[t][j].obj = b.obj => j = i
          /\ IF Direct(b.via, b.obj)
             THEN /\ stage[b.obj] \in {"clear", "self", "free"}
                  /\ b.obj \notin Chained(t)
             ELSE stage[b.obj] = "clear"
      BY <2>2, <2>5 DEF Placed, StackPlaced
    <3>3. \A j \in 1 .. n + 1 : stack'[t][j].obj = b.obj => j = i
      <4>1. \A j \in 1 .. n + 1 : j = n + 1 \/ j \in 1 .. n
        OBVIOUS
      <4>2. stack'[t][n + 1].obj # b.obj
        BY <2>2, <3>1
      <4> QED BY <2>2, <3>2, <4>1, <4>2
    <3> QED BY <2>2, <3>1, <3>2, <3>3
  <2> QED BY <2>1, <2>2, <2>4, <2>5
<1>7. ChainPlaced(t)'
  <2>1. \A i \in DOMAIN chain[t] : chain[t][i] # o /\ chain[t][i] \in Object
    BY <1>3, ItemsAreObjects, ItemPlaces DEF Chained, IInv
  <2> QED BY <1>2, <1>4, <2>1 DEF Placed, ChainPlaced
<1>8. SelfPlaced(t)'
  BY <1>2 DEF SelfPlaced, Calling
<1> QED BY <1>6, <1>7, <1>8 DEF Placed

LEMMA DestroyByContinuationPlaced ==
    ASSUME IInv, NEW t \in Thread, Placed(t), DestroyByContinuation(t)
    PROVE  Placed(t)'
<1> DEFINE c == call[t]
           o == c.obj
<1>1. /\ c \in Call /\ o \in Object /\ stage[o] = "doomed" /\ o \notin DirectKind
  BY CallFacts DEF IInv, TypeOK, DestroyByContinuation, AtUnlock, Direct
<1>2. /\ call'[t] = NoCall /\ stage' = [stage EXCEPT ![o] = "queued"]
      /\ chain'[t] = Append(chain[t], o) /\ stack' = stack
  BY DEF IInv, TypeOK, DestroyByContinuation, UnlockAndReturn
<1>3. o \notin Stacked(t) /\ o \notin Chained(t)
  BY <1>1, NotAnItem
<1>4. /\ chain[t] \in Seq(Object)
      /\ stage'[o] = "queued" /\ \A p \in Object \ {o} : stage'[p] = stage[p]
  BY <1>1, <1>2 DEF IInv, TypeOK
<1>5. PICK n \in Nat : n = Len(chain[t])
  BY <1>4, LenProperties
<1>6. /\ DOMAIN chain'[t] = 1 .. n + 1 /\ DOMAIN chain[t] = 1 .. n
      /\ chain'[t][n + 1] = o
      /\ \A j \in 1 .. n : /\ chain'[t][j] = chain[t][j]
                           /\ chain[t][j] # o /\ chain[t][j] \in Object
  BY <1>1, <1>2, <1>3, <1>4, <1>5, AppendProperties, LenProperties, ElementOfSeq
  DEF Chained
<1>7. \A i \in DOMAIN stack[t] : stack[t][i].obj # o /\ stack[t][i].obj \in Object
  BY <1>3, ItemsAreObjects, ItemPlaces DEF Stacked, IInv
<1>8. Chained(t)' = Chained(t) \cup {o}
  BY <1>5, <1>6 DEF Chained
<1>9. StackPlaced(t)'
  BY <1>2, <1>4, <1>7, <1>8 DEF Placed, StackPlaced
<1>10. ChainPlaced(t)'
  <2> SUFFICES ASSUME NEW i \in DOMAIN chain'[t]
               PROVE  /\ chain'[t][i] \notin DirectKind
                      /\ stage'[chain'[t][i]] \in {"queued", "clear", "self"}
                      /\ \A j \in DOMAIN chain'[t] : chain'[t][j] = chain'[t][i] => j = i
    BY DEF ChainPlaced
  <2>1. CASE i = n + 1
    BY <1>1, <1>4, <1>5, <1>6, <2>1
  <2>2. CASE i \in 1 .. n
    BY <1>4, <1>5, <1>6, <2>2 DEF Placed, ChainPlaced
  <2> QED BY <1>5, <1>6, <2>1, <2>2
<1>11. SelfPlaced(t)'
  BY <1>2 DEF SelfPlaced, Calling
<1> QED BY <1>9, <1>10, <1>11 DEF Placed

\* What is left on the stack when its last activation returns.
LEMMA StackPopped ==
    ASSUME IInv, NEW t \in Thread, Placed(t), stack[t] # <<>>,
           stack'[t] = Front(stack[t])
    PROVE  /\ stack[t] \in Seq(Activation) /\ Len(stack[t]) \in DOMAIN stack[t]
           /\ Last(stack[t]) \in Activation
           /\ Last(stack[t]).obj \in Stacked(t) /\ Last(stack[t]).obj \in Object
           /\ DOMAIN stack'[t] \subseteq DOMAIN stack[t]
           /\ \A i \in DOMAIN stack'[t] : /\ stack'[t][i] = stack[t][i]
                                          /\ stack[t][i].obj # Last(stack[t]).obj
                                          /\ stack[t][i].obj \in Object
           /\ Last(stack[t]).obj \notin Stacked(t)'
<1>1. stack[t] \in Seq(Activation)
  BY DEF IInv, TypeOK
<1>2. PICK n \in Nat : /\ n = Len(stack[t]) /\ n # 0 /\ DOMAIN stack[t] = 1 .. n
                       /\ stack[t][n] = Last(stack[t])
  BY <1>1, LenProperties, EmptySeq DEF Last
<1>3. /\ Last(stack[t]) \in Activation
      /\ Last(stack[t]).obj \in Stacked(t)
      /\ \A i \in DOMAIN Front(stack[t]) : Front(stack[t])[i] = stack[t][i]
      /\ DOMAIN Front(stack[t]) \subseteq DOMAIN stack[t]
  BY <1>1, <1>2, FrontFacts DEF Stacked
<1>4. DOMAIN stack'[t] = 1 .. n - 1
  BY <1>1, <1>2, SubSeqProperties DEF Front
<1>5. \A i \in DOMAIN stack[t] : stack[t][i].obj \in Object
  BY StackedObjects DEF IInv
<1>6. \A i \in 1 .. n - 1 : stack[t][i].obj # Last(stack[t]).obj
  BY <1>2 DEF Placed, StackPlaced
<1>7. Last(stack[t]).obj \notin Stacked(t)'
  BY <1>3, <1>4, <1>6 DEF Stacked
<1> QED BY <1>1, <1>2, <1>3, <1>4, <1>5, <1>6, <1>7 DEF Activation

LEMMA ChainPopped ==
    ASSUME IInv, NEW t \in Thread, Placed(t), chain[t] # <<>>,
           chain'[t] = Front(chain[t])
    PROVE  /\ Last(chain[t]) \in Object
           /\ DOMAIN chain'[t] \subseteq DOMAIN chain[t]
           /\ \A i \in DOMAIN chain'[t] : chain'[t][i] = chain[t][i]
           /\ Last(chain[t]) \notin Chained(t)'
           /\ Last(chain[t]) \notin DirectKind
<1>1. chain[t] \in Seq(Object)
  BY DEF IInv, TypeOK
<1>2. PICK n \in Nat : /\ n = Len(chain[t]) /\ n # 0 /\ DOMAIN chain[t] = 1 .. n
                       /\ chain[t][n] = Last(chain[t])
  BY <1>1, LenProperties, EmptySeq DEF Last
<1>3. /\ Last(chain[t]) \in Object
      /\ \A i \in DOMAIN Front(chain[t]) : Front(chain[t])[i] = chain[t][i]
      /\ DOMAIN Front(chain[t]) \subseteq DOMAIN chain[t]
  BY <1>1, <1>2, FrontFacts
<1>4. DOMAIN chain'[t] = 1 .. n - 1
  BY <1>1, <1>2, SubSeqProperties DEF Front
<1>5. /\ Last(chain[t]) \notin DirectKind
      /\ \A i \in 1 .. n - 1 : chain[t][i] # Last(chain[t])
  BY <1>2 DEF Placed, ChainPlaced
<1> QED BY <1>2, <1>3, <1>4, <1>5 DEF Chained

LEMMA DestroyAllPlaced ==
    ASSUME IInv, NEW t \in Thread, Placed(t), DestroyAll(t)
    PROVE  Placed(t)'
<1> DEFINE top == Last(stack[t])
           o == top.obj
<1>1. /\ call[t] = NoCall /\ stack[t] # <<>> /\ stage[o] = "clear"
      /\ stage' = [stage EXCEPT ![o] = "self"] /\ chain' = chain
      /\ stack'[t] = IF Direct(top.via, o) THEN stack[t] ELSE Front(stack[t])
  BY DEF IInv, TypeOK, DestroyAll
<1>2. /\ stack[t] \in Seq(Activation) /\ o \in Object /\ o \in Stacked(t)
  <2>1. stack[t] \in Seq(Activation)
    BY DEF IInv, TypeOK
  <2>2. Len(stack[t]) \in DOMAIN stack[t]
    BY <1>1, <2>1, FrontFacts
  <2> QED BY <2>1, <2>2, StackedObjects DEF Stacked, Last, IInv
<1>3. stage'[o] = "self" /\ \A p \in Object \ {o} : stage'[p] = stage[p]
  BY <1>1, <1>2 DEF IInv, TypeOK
<1>4. Chained(t)' = Chained(t)
  BY <1>1 DEF Chained
<1>5. StackPlaced(t)'
  <2>1. CASE Direct(top.via, o)
    <3> SUFFICES ASSUME NEW i \in DOMAIN stack[t]
                 PROVE  LET b == stack[t][i]
                        IN  /\ \A j \in DOMAIN stack[t] : stack[t][j].obj = b.obj => j = i
                            /\ IF Direct(b.via, b.obj)
                               THEN /\ stage'[b.obj] \in {"clear", "self", "free"}
                                    /\ b.obj \notin Chained(t)
                               ELSE stage'[b.obj] = "clear"
      BY <1>1, <1>4, <2>1 DEF StackPlaced
    <3>1. /\ \A j \in DOMAIN stack[t] : stack[t][j].obj = stack[t][i].obj => j = i
          /\ IF Direct(stack[t][i].via, stack[t][i].obj)
             THEN /\ stage[stack[t][i].obj] \in {"clear", "self", "free"}
                  /\ stack[t][i].obj \notin Chained(t)
             ELSE stage[stack[t][i].obj] = "clear"
      BY DEF Placed, StackPlaced
    <3>2. stack[t][i].obj \in Object
      BY StackedObjects DEF IInv
    <3>3. CASE stack[t][i].obj = o
      <4>1. stack[t][i] = top
        <5>1. Len(stack[t]) \in DOMAIN stack[t] /\ top = stack[t][Len(stack[t])]
          BY <1>1, <1>2, FrontFacts DEF Last
        <5> QED BY <3>1, <3>3, <5>1
      <4> QED BY <1>3, <2>1, <3>1, <3>3, <4>1
    <3>4. CASE stack[t][i].obj # o
      BY <1>3, <3>1, <3>2, <3>4
    <3> QED BY <3>3, <3>4
  <2>2. CASE ~Direct(top.via, o)
    <3>1. stack'[t] = Front(stack[t])
      BY <1>1, <2>2
    <3>2. \A i \in DOMAIN stack'[t] : stage'[stack'[t][i].obj] = stage[stack[t][i].obj]
      BY <1>1, <1>3, <3>1, StackPopped
    <3>3. /\ DOMAIN stack'[t] \subseteq DOMAIN stack[t]
          /\ \A i \in DOMAIN stack'[t] : stack'[t][i] = stack[t][i]
      BY <1>1, <3>1, StackPopped
    <3> QED BY <1>4, <3>2, <3>3 DEF Placed, StackPlaced
  <2> QED BY <2>1, <2>2
<1>6. ChainPlaced(t)'
  <2> SUFFICES ASSUME NEW i \in DOMAIN chain[t]
               PROVE  stage'[chain[t][i]] \in {"queued", "clear", "self"}
    BY <1>1 DEF Placed, ChainPlaced
  <2>1. stage[chain[t][i]] \in {"queued", "clear", "self"}
    BY DEF Placed, ChainPlaced
  <2>2. chain[t][i] \in Object
    BY ItemPlaces, ItemsAreObjects DEF Chained, IInv
  <2> QED BY <1>3, <2>1, <2>2
<1>7. SelfPlaced(t)'
  <2>1. ~Calling(t, "self")'
    BY <1>1 DEF IInv, TypeOK, DestroyAll, RefcntDec, Calling, NoCall
  <2> QED BY <2>1 DEF SelfPlaced
<1> QED BY <1>5, <1>6, <1>7 DEF Placed

LEMMA ReleaseSelfPlaced ==
    ASSUME IInv, NEW t \in Thread, Placed(t), ReleaseSelf(t)
    PROVE  Placed(t)'
<1> DEFINE top == Last(stack[t])
<1>1. /\ stack[t] # <<>> /\ stage[top.obj] = "self"
      /\ call'[t] = RefcntDecSelf(top.obj, top.via)
      /\ stack' = stack /\ chain' = chain /\ stage' = stage
  BY DEF IInv, TypeOK, ReleaseSelf
<1>2. Chained(t)' = Chained(t) /\ Stacked(t)' = Stacked(t)
  BY <1>1 DEF Chained, Stacked
<1>3. Direct(top.via, top.obj) /\ top.obj \notin Chained(t)
  <2>1. stack[t] \in Seq(Activation)
    BY DEF IInv, TypeOK
  <2>2. Len(stack[t]) \in DOMAIN stack[t] /\ top = stack[t][Len(stack[t])]
    BY <1>1, <2>1, FrontFacts DEF Last
  <2> QED BY <1>1, <2>2 DEF Placed, StackPlaced
<1>4. SelfPlaced(t)'
  BY <1>1, <1>2, <1>3 DEF SelfPlaced, RefcntDecSelf
<1> QED BY <1>1, <1>2, <1>4 DEF Placed, StackPlaced, ChainPlaced

LEMMA GotoCurrentPlaced ==
    ASSUME IInv, NEW t \in Thread, Placed(t), GotoCurrent(t)
    PROVE  Placed(t)'
<1> DEFINE o == Last(chain[t])
<1>1. /\ stack[t] = <<>> /\ chain[t] # <<>>
      /\ call'[t] = RefcntDecSelf(o, "instance")
      /\ chain'[t] = Front(chain[t]) /\ stack' = stack /\ stage' = stage
  BY DEF IInv, TypeOK, GotoCurrent, Returned
<1>2. /\ DOMAIN chain'[t] \subseteq DOMAIN chain[t]
      /\ \A i \in DOMAIN chain'[t] : chain'[t][i] = chain[t][i]
      /\ o \notin Chained(t)'
  BY <1>1, ChainPopped
<1>3. Stacked(t)' = {}
  <2>1. stack'[t] = <<>>
    BY <1>1
  <2> QED BY <2>1 DEF Stacked
<1>4. StackPlaced(t)'
  BY <1>3 DEF StackPlaced, Stacked
<1>5. ChainPlaced(t)'
  BY <1>1, <1>2 DEF Placed, ChainPlaced
<1>6. SelfPlaced(t)'
  BY <1>1, <1>2, <1>3 DEF SelfPlaced, RefcntDecSelf
<1> QED BY <1>4, <1>5, <1>6 DEF Placed

LEMMA UnlockSelfPlaced ==
    ASSUME IInv, NEW t \in Thread, Placed(t), UnlockSelf(t)
    PROVE  Placed(t)'
<1> DEFINE c == call[t]
           o == c.obj
<1>1. /\ c \in Call /\ o \in Object /\ Calling(t, "self") /\ stage[o] = "self"
  BY CallFacts DEF IInv, TypeOK, UnlockSelf, AtUnlock, Calling, SentinelInv
<1>2. /\ call'[t] = NoCall /\ stack' = stack /\ chain' = chain
      /\ stage'[o] = IF Direct(c.via, o) THEN "free" ELSE "destroyed"
      /\ \A p \in Object \ {o} : stage'[p] = stage[p]
  BY <1>1 DEF IInv, TypeOK, UnlockSelf, UnlockAndReturn
<1>3. o \notin Chained(t) /\ (o \in Stacked(t) => Direct(c.via, o))
  BY <1>1 DEF Placed, SelfPlaced
<1>4. Chained(t)' = Chained(t)
  BY <1>2 DEF Chained
<1>5. StackPlaced(t)'
  <2> SUFFICES ASSUME NEW i \in DOMAIN stack[t]
               PROVE  IF Direct(stack[t][i].via, stack[t][i].obj)
                      THEN /\ stage'[stack[t][i].obj] \in {"clear", "self", "free"}
                           /\ stack[t][i].obj \notin Chained(t)
                      ELSE stage'[stack[t][i].obj] = "clear"
    BY <1>2, <1>4 DEF Placed, StackPlaced
  <2>1. IF Direct(stack[t][i].via, stack[t][i].obj)
        THEN /\ stage[stack[t][i].obj] \in {"clear", "self", "free"}
             /\ stack[t][i].obj \notin Chained(t)
        ELSE stage[stack[t][i].obj] = "clear"
    BY DEF Placed, StackPlaced
  <2>2. stack[t][i].obj \in Object /\ stack[t][i].obj \in Stacked(t)
    BY StackedObjects DEF IInv, Stacked
  <2>3. CASE stack[t][i].obj = o
    BY <1>1, <1>2, <1>3, <2>1, <2>2, <2>3
  <2>4. CASE stack[t][i].obj # o
    BY <1>2, <2>1, <2>2, <2>4
  <2> QED BY <2>3, <2>4
<1>6. ChainPlaced(t)'
  <2>1. \A i \in DOMAIN chain[t] : chain[t][i] # o /\ chain[t][i] \in Object
    BY <1>3, ItemPlaces, ItemsAreObjects DEF Chained, IInv
  <2> QED BY <1>2, <2>1 DEF Placed, ChainPlaced
<1>7. SelfPlaced(t)'
  BY <1>2 DEF SelfPlaced, Calling
<1> QED BY <1>5, <1>6, <1>7 DEF Placed

LEMMA FreePlaced ==
    ASSUME IInv, NEW t \in Thread, Placed(t), Free(t)
    PROVE  Placed(t)'
<1> DEFINE o == Last(stack[t]).obj
<1>1. /\ call[t] = NoCall /\ stack[t] # <<>> /\ stage[o] = "free"
      /\ stage' = [stage EXCEPT ![o] = "freed"]
      /\ stack'[t] = Front(stack[t]) /\ call' = call /\ chain' = chain
  BY DEF IInv, TypeOK, Free
<1>2. /\ o \in Object
      /\ DOMAIN stack'[t] \subseteq DOMAIN stack[t]
      /\ \A i \in DOMAIN stack'[t] : /\ stack'[t][i] = stack[t][i]
                                     /\ stack[t][i].obj # o /\ stack[t][i].obj \in Object
  BY <1>1, StackPopped
<1>3. \A p \in Object \ {o} : stage'[p] = stage[p]
  BY <1>1, <1>2 DEF IInv, TypeOK
<1>4. Chained(t)' = Chained(t)
  BY <1>1 DEF Chained
<1>5. StackPlaced(t)'
  BY <1>2, <1>3, <1>4 DEF Placed, StackPlaced
<1>6. ChainPlaced(t)'
  <2>1. \A i \in DOMAIN chain[t] : chain[t][i] \in Object /\ chain[t][i] # o
    BY <1>1, ItemPlaces, ItemsAreObjects DEF Placed, ChainPlaced, Chained, IInv
  <2> QED BY <1>1, <1>3, <2>1 DEF Placed, ChainPlaced
<1>7. SelfPlaced(t)'
  BY <1>1 DEF SelfPlaced, Calling
<1> QED BY <1>5, <1>6, <1>7 DEF Placed

LEMMA EvalDestroyPlaced ==
    ASSUME IInv, NEW t \in Thread, Placed(t), EvalDestroy(t)
    PROVE  Placed(t)'
<1> DEFINE o == Last(chain[t])
           a == [obj |-> o, via |-> "instance"]
<1>1. /\ call[t] = NoCall /\ stack[t] = <<>> /\ chain[t] # <<>> /\ stage[o] = "queued"
      /\ stage' = [stage EXCEPT ![o] = "clear"] /\ stack'[t] = Append(<<>>, a)
      /\ call' = call /\ chain' = chain
  BY DEF IInv, TypeOK, EvalDestroy, Returned
<1>2. o \in Object /\ o \notin DirectKind /\ o \in Chained(t)
  <2>1. chain[t] \in Seq(Object)
    BY DEF IInv, TypeOK
  <2>2. Last(chain[t]) \in Object /\ Len(chain[t]) \in DOMAIN chain[t]
    BY <1>1, <2>1, FrontFacts
  <2> QED BY <2>2 DEF Last, Chained, Placed, ChainPlaced
<1>3. stage'[o] = "clear" /\ \A p \in Object \ {o} : stage'[p] = stage[p]
  BY <1>1, <1>2 DEF IInv, TypeOK
<1>4. stack'[t] = <<a>>
  BY <1>1
<1>5. DOMAIN stack'[t] = {1} /\ stack'[t][1] = a
  BY <1>4
<1>6. StackPlaced(t)'
  BY <1>2, <1>3, <1>5 DEF StackPlaced, Direct
<1>7. ChainPlaced(t)'
  <2> SUFFICES ASSUME NEW i \in DOMAIN chain[t]
               PROVE  stage'[chain[t][i]] \in {"queued", "clear", "self"}
    BY <1>1 DEF Placed, ChainPlaced
  <2>1. /\ stage[chain[t][i]] \in {"queued", "clear", "self"}
        /\ chain[t][i] \in Object
    BY ItemPlaces, ItemsAreObjects DEF Placed, ChainPlaced, Chained, IInv
  <2> QED BY <1>3, <2>1
<1>8. SelfPlaced(t)'
  BY <1>1 DEF SelfPlaced, Calling, NoCall
<1> QED BY <1>6, <1>7, <1>8 DEF Placed

LEMMA PlaceInvStep ==
    ASSUME IInv, PlaceInv, Next
    PROVE  PlaceInv'
<1>1. PICK t \in Thread : UseObjects(t) \/ Lock(t) \/ Proceed(t) \/ Loop(t)
  BY DEF Next
<1>2. Placed(t)'
  BY <1>1, QuietPlaces, DestroyDirectlyPlaced, DestroyByContinuationPlaced,
     DestroyAllPlaced, ReleaseSelfPlaced, GotoCurrentPlaced, UnlockSelfPlaced,
     FreePlaced, EvalDestroyPlaced
  DEF PlaceInv, Proceed
<1>3. \A u \in Thread \ {t} : Placed(u)'
  BY <1>1, OthersPlaced DEF PlaceInv
<1>4. UnlockInv'
  BY <1>1, UnlockInvStep DEF PlaceInv
<1> QED BY <1>2, <1>3, <1>4 DEF PlaceInv

\* Every lock, call, stack and chain of every thread is over objects that have
\* not been freed yet.
LEMMA PlaceInvariant == Spec => []PlaceInv
<1>1. Init => PlaceInv
  <2> SUFFICES ASSUME Init PROVE PlaceInv
    OBVIOUS
  <2>1. \A t \in Thread : call[t] = NoCall /\ stack[t] = <<>> /\ chain[t] = <<>>
    BY DEF Init
  <2> QED BY <2>1 DEF PlaceInv, UnlockInv, AtUnlock, Placed, StackPlaced, ChainPlaced,
                      SelfPlaced, Calling
<1>2. PlaceInv /\ UNCHANGED vars => PlaceInv'
  BY DEF vars, PlaceInv, UnlockInv, AtUnlock, Placed, StackPlaced, ChainPlaced,
         SelfPlaced, Calling, Stacked, Chained
<1>3. IInv /\ PlaceInv /\ [Next]_vars => PlaceInv'
  BY <1>2, PlaceInvStep
<1> QED BY <1>1, <1>3, InductiveInvariant, PTL DEF Spec

\* smop_lowlevel_free is only called when no thread holds the object's lock,
\* waits for it, runs its DESTROYALL or has a frame for it in its chain.
THEOREM NobodyUsesFreed == Spec => []NoUseAfterFree
<1>1. ASSUME IInv, PlaceInv PROVE NoUseAfterFree
  <2> SUFFICES ASSUME NEW o \in Object, stage[o] = "freed"
               PROVE  /\ lockedBy[o] = NoThread
                      /\ \A t \in Thread :
                            /\ call[t] # NoCall => call[t].obj # o
                            /\ \A i \in DOMAIN stack[t] : stack[t][i].obj # o
                            /\ \A i \in DOMAIN chain[t] : chain[t][i] # o
    BY DEF NoUseAfterFree
  <2>1. ASSUME NEW t \in Thread, call[t] # NoCall PROVE call[t].obj # o
    <3>1. call[t].at # "unlock" => stage[call[t].obj] \in {"live", "self"}
      BY <1>1, <2>1, CalledStage
    <3>2. call[t].at = "unlock" /\ call[t].fn # "self"
             => stage[call[t].obj] \in {"live", "doomed"}
      BY <1>1, <2>1 DEF PlaceInv, UnlockInv, AtUnlock
    <3>3. call[t].fn = "self" => stage[call[t].obj] = "self"
      BY <1>1, <2>1 DEF IInv, SentinelInv, Calling
    <3> QED BY <3>1, <3>2, <3>3
  <2>2. lockedBy[o] = NoThread
    <3>1. lockedBy[o] \in Thread \cup {NoThread}
      BY <1>1 DEF IInv, TypeOK
    <3>2. ASSUME NEW u \in Thread, lockedBy[o] = u PROVE FALSE
      BY <1>1, <2>1, <3>2 DEF IInv, LockInv
    <3> QED BY <3>1, <3>2
  <2>3. \A t \in Thread : /\ \A i \in DOMAIN stack[t] : stack[t][i].obj # o
                          /\ \A i \in DOMAIN chain[t] : chain[t][i] # o
    BY <1>1 DEF PlaceInv, Placed, StackPlaced, ChainPlaced
  <2> QED BY <2>1, <2>2, <2>3
<1> QED BY <1>1, InductiveInvariant, PlaceInvariant, PTL

-----------------------------------------------------------------------------
(* Each step of the low level is a step of ObjectLifetime, or none of it *)

LEMMA PhaseStep ==
    ASSUME TypeOK, NEW o \in Object, NEW g \in Stages,
           stage' = [stage EXCEPT ![o] = g]
    PROVE  phase' = [phase EXCEPT ![o] = PhaseOf[g]]
BY DEF TypeOK, phase

\* Moving on inside a phase is invisible to ObjectLifetime.
LEMMA PhaseSame ==
    ASSUME TypeOK, NEW o \in Object, NEW g \in Stages,
           PhaseOf[g] = PhaseOf[stage[o]], stage' = [stage EXCEPT ![o] = g]
    PROVE  phase' = phase
BY DEF TypeOK, phase

LEMMA AllocRefines ==
    ASSUME IInv, NEW t \in Thread, NEW o \in Object, NEW s \in Local, Alloc(t, o, s)
    PROVE  Lifetime!New(o, s)
<1>1. /\ stage[o] = "unborn"
      /\ stage' = [stage EXCEPT ![o] = "live"]
      /\ ptr' = [ptr EXCEPT ![Field(o)] = ptr[s], ![s] = o]
  BY DEF Alloc
<1>2. phase[o] = "unborn"
  BY <1>1 DEF phase, PhaseOf
<1>3. phase' = [phase EXCEPT ![o] = "live"]
  BY <1>1, PhaseStep DEF IInv, Stages, PhaseOf
<1> QED BY <1>1, <1>2, <1>3 DEF Lifetime!New, Lifetime!Field, Field

\* A pointer handed to another thread is moved.
LEMMA HandRefines ==
    ASSUME NEW t \in Thread, NEW s \in Local, NEW d \in Local, Hand(t, s, d)
    PROVE  Lifetime!Move(s, d)
BY DEF Hand, Lifetime!Move, phase

\* SMOP_REFERENCE copies at the moment it stores the count.
LEMMA IncrementRefines ==
    ASSUME IInv, NEW t \in Thread, Increment(t)
    PROVE  Lifetime!Copy(call[t].src, call[t].slot)
           /\ call[t].src \in Local /\ call[t].slot \in Local
<1>1. call[t] \in Call /\ Pending(t, "inc")
  BY DEF IInv, TypeOK, Increment, Pending, Calling
<1>2. /\ call[t].src \in Local /\ ptr[call[t].src] = call[t].obj
      /\ call[t].slot \in Local /\ ptr[call[t].slot] = NoObject
  BY <1>1 DEF IInv, IncInv
<1>3. call[t].obj # NoObject
  BY <1>1, CallFacts, LowlevelAssumption
<1> QED BY <1>2, <1>3 DEF Increment, Lifetime!Copy, phase

\* SMOP_RELEASE drops at the moment it stores the count, and the count says
\* rightly whether the pointer was the last one.
LEMMA DecrementRefines ==
    ASSUME IInv, NEW t \in Thread, Decrement(t), call[t].fn = "dec"
    PROVE  Lifetime!Drop(call[t].slot) /\ call[t].slot \in Slot
<1> DEFINE c == call[t]
           o == c.obj
<1>1. c \in Call /\ c # NoCall /\ c.at = "store" /\ Pending(t, "dec")
  BY DEF IInv, TypeOK, Decrement, Pending, Calling
<1>2. o \in Object /\ c.slot \in Slot /\ ptr[c.slot] = o /\ o # NoObject
  BY <1>1, CallFacts, LowlevelAssumption DEF IInv, DecInv
<1>3. stage[o] = "live"
  BY <1>1, CalledStage
<1>4. c.tmp = Cardinality(Leading(ptr, o)) /\ Leading(ptr, o) = Pointers(o)
  BY <1>1, <1>2, <1>3 DEF IInv, LoadInv, CountMatchesPointers, Leading, Pointers
<1>5. IsFiniteSet(Leading(ptr, o)) /\ Cardinality(Leading(ptr, o)) \in Nat
  BY LeadingFinite
<1>6. c.tmp - 1 <= 0 <=> Pointers(o) = {c.slot}
  <2>1. ASSUME c.tmp - 1 <= 0 PROVE Pointers(o) = {c.slot}
    <3>1. Cardinality(Leading(ptr, o)) <= 1
      BY <1>4, <1>5, <2>1
    <3>2. \A s \in Slot : ptr[s] = o => s = c.slot
      BY <1>2, <3>1, CountOne
    <3> QED BY <1>2, <3>2 DEF Pointers
  <2>2. ASSUME Pointers(o) = {c.slot} PROVE c.tmp - 1 <= 0
    <3>1. Cardinality({c.slot}) = 1
      BY FS_Singleton
    <3> QED BY <1>4, <2>2, <3>1
  <2> QED BY <2>1, <2>2
<1>7. /\ ptr' = [ptr EXCEPT ![c.slot] = NoObject]
      /\ stage' = IF c.tmp - 1 <= 0 THEN [stage EXCEPT ![o] = "doomed"] ELSE stage
  BY DEF Decrement
<1>8. phase' = IF Pointers(o) = {c.slot} THEN [phase EXCEPT ![o] = "dying"] ELSE phase
  <2>1. CASE Pointers(o) = {c.slot}
    BY <1>2, <1>6, <1>7, <2>1, PhaseStep DEF IInv, Stages, PhaseOf
  <2>2. CASE Pointers(o) # {c.slot}
    BY <1>6, <1>7, <2>2 DEF phase
  <2> QED BY <2>1, <2>2
<1>9. Lifetime!Pointers(o) = Pointers(o)
  BY DEF Lifetime!Pointers, Pointers, Lifetime!Slot, Slot, Lifetime!Field, Field,
         Lifetime!Moved, Moved
<1> QED BY <1>2, <1>7, <1>8, <1>9 DEF Lifetime!Drop

LEMMA SelfDecrementRefines ==
    ASSUME IInv, NEW t \in Thread, Decrement(t), call[t].fn # "dec"
    PROVE  UNCHANGED <<ptr, phase>>
<1> DEFINE c == call[t]
           o == c.obj
<1>1. c \in Call /\ c.at = "store" /\ c.fn = "self" /\ Calling(t, "self")
  BY CallFacts DEF IInv, TypeOK, Decrement, Calling
<1>2. o \in Object /\ stage[o] = "self"
  BY <1>1, CallFacts DEF IInv, SentinelInv
<1>3. stage' = stage \/ stage' = [stage EXCEPT ![o] = "doomed"]
  BY DEF Decrement
<1>4. stage' = stage
  <2> SUFFICES ASSUME stage' = [stage EXCEPT ![o] = "doomed"] PROVE FALSE
    BY <1>3
  <2>1. stage'[o] = "doomed"
    BY <1>2 DEF IInv, TypeOK
  <2> QED BY <1>2, <2>1, ForwardStep DEF Proceed, Passages
<1> QED BY <1>4 DEF Decrement, phase

LEMMA DestroyAllRefines ==
    ASSUME IInv, NEW t \in Thread, DestroyAll(t)
    PROVE  \E o \in Object : Lifetime!Destroy(o)
<1> DEFINE o == Last(stack[t]).obj
<1>1. /\ stack[t] # <<>> /\ stage[o] = "clear"
      /\ stage' = [stage EXCEPT ![o] = "self"]
      /\ ptr' = [ptr EXCEPT ![Moved(o)] = ptr[Field(o)], ![Field(o)] = NoObject]
  BY DEF DestroyAll
<1>2. o \in Object
  <2>1. stack[t] \in Seq(Activation)
    BY DEF IInv, TypeOK
  <2>2. Len(stack[t]) \in DOMAIN stack[t]
    BY <1>1, <2>1, FrontFacts
  <2> QED BY <2>2, StackedObjects DEF Last, IInv
<1>3. phase[o] = "dying" /\ phase' = [phase EXCEPT ![o] = "dead"]
  <2>1. phase[o] = "dying"
    BY <1>1, <1>2 DEF PhaseOf, phase
  <2>2. "self" \in Stages /\ PhaseOf["self"] = "dead"
    BY DEF Stages, PhaseOf
  <2> QED BY <1>1, <1>2, <2>1, <2>2, PhaseStep DEF IInv
<1>4. Lifetime!Destroy(o)
  BY <1>1, <1>3 DEF Lifetime!Destroy, Lifetime!Field, Field, Lifetime!Moved, Moved
<1> QED BY <1>2, <1>4

\* Everything else a thread does on the way is invisible to ObjectLifetime.
LEMMA HiddenSteps ==
    ASSUME IInv, NEW t \in Thread,
           \/ \E s, d \in Local : Reference(t, s, d)
           \/ \E s \in Local, via \in Via : Release(t, s, via)
           \/ Lock(t) \/ Load(t) \/ Unlock(t) \/ DestroyDirectly(t)
           \/ DestroyByContinuation(t) \/ ReleaseSelf(t) \/ GotoCurrent(t)
           \/ UnlockSelf(t) \/ Free(t) \/ EvalDestroy(t) \/ Loop(t)
    PROVE  UNCHANGED <<ptr, phase>>
<1>1. ptr' = ptr
  BY DEF Reference, Release, Lock, Load, Unlock, DestroyDirectly, DestroyByContinuation,
         ReleaseSelf, GotoCurrent, UnlockSelf, Free, EvalDestroy, Loop, EnterLoop, LeaveLoop
<1>2. CASE stage' = stage
  BY <1>1, <1>2 DEF phase
<1>3. CASE DestroyDirectly(t) \/ DestroyByContinuation(t)
  <2>1. /\ call[t] \in Call /\ call[t].obj \in Object /\ stage[call[t].obj] = "doomed"
    BY <1>3, CallFacts DEF IInv, TypeOK, DestroyDirectly, DestroyByContinuation, AtUnlock
  <2>2. \/ stage' = [stage EXCEPT ![call[t].obj] = "clear"]
        \/ stage' = [stage EXCEPT ![call[t].obj] = "queued"]
    BY <1>3 DEF DestroyDirectly, DestroyByContinuation
  <2> QED BY <1>1, <2>1, <2>2, PhaseSame DEF IInv, Stages, PhaseOf
<1>4. CASE UnlockSelf(t)
  <2>1. /\ call[t] \in Call /\ call[t].obj \in Object /\ stage[call[t].obj] = "self"
    BY <1>4, CallFacts DEF IInv, TypeOK, UnlockSelf, AtUnlock, SentinelInv, Calling
  <2>2. \/ stage' = [stage EXCEPT ![call[t].obj] = "free"]
        \/ stage' = [stage EXCEPT ![call[t].obj] = "destroyed"]
    BY <1>4 DEF UnlockSelf
  <2> QED BY <1>1, <2>1, <2>2, PhaseSame DEF IInv, Stages, PhaseOf
<1>5. CASE Free(t)
  <2> DEFINE o == Last(stack[t]).obj
  <2>1. stack[t] # <<>> /\ stage[o] = "free" /\ stage' = [stage EXCEPT ![o] = "freed"]
    BY <1>5 DEF Free
  <2>2. o \in Object
    <3>1. stack[t] \in Seq(Activation)
      BY DEF IInv, TypeOK
    <3>2. Len(stack[t]) \in DOMAIN stack[t]
      BY <2>1, <3>1, FrontFacts
    <3> QED BY <3>2, StackedObjects DEF Last, IInv
  <2>3. "freed" \in Stages /\ PhaseOf["freed"] = PhaseOf["free"]
    BY DEF Stages, PhaseOf
  <2> QED BY <1>1, <2>1, <2>2, <2>3, PhaseSame DEF IInv
<1>6. CASE EvalDestroy(t)
  <2> DEFINE o == Last(chain[t])
  <2>1. chain[t] # <<>> /\ stage[o] = "queued" /\ stage' = [stage EXCEPT ![o] = "clear"]
    BY <1>6 DEF EvalDestroy
  <2>2. chain[t] \in Seq(Object)
    BY DEF IInv, TypeOK
  <2>3. o \in Object
    BY <2>1, <2>2, FrontFacts
  <2>4. "clear" \in Stages /\ PhaseOf["clear"] = PhaseOf["queued"]
    BY DEF Stages, PhaseOf
  <2> QED BY <1>1, <2>1, <2>3, <2>4, PhaseSame DEF IInv
<1> QED BY <1>2, <1>3, <1>4, <1>5, <1>6
    DEF Reference, Release, Lock, Load, Unlock, ReleaseSelf, GotoCurrent, Loop,
        EnterLoop, LeaveLoop

LEMMA StepRefines ==
    ASSUME IInv, Next
    PROVE  Lifetime!LifeNext \/ UNCHANGED <<ptr, phase>>
<1>1. PICK t \in Thread : UseObjects(t) \/ Lock(t) \/ Proceed(t) \/ Loop(t)
  BY DEF Next
<1>2. Lifetime!Slot = Slot
  BY DEF Lifetime!Slot, Slot, Lifetime!Field, Field, Lifetime!Moved, Moved
<1>3. CASE \E o \in Object, s \in Local : Alloc(t, o, s)
  BY <1>3, AllocRefines DEF Lifetime!LifeNext
<1>4. CASE \E s, d \in Local : Hand(t, s, d)
  BY <1>4, HandRefines DEF Lifetime!LifeNext
<1>5. CASE Increment(t)
  BY <1>5, IncrementRefines DEF Lifetime!LifeNext
<1>6. CASE Decrement(t)
  BY <1>2, <1>6, DecrementRefines, SelfDecrementRefines DEF Lifetime!LifeNext
<1>7. CASE DestroyAll(t)
  BY <1>7, DestroyAllRefines DEF Lifetime!LifeNext
<1> QED BY <1>1, <1>3, <1>4, <1>5, <1>6, <1>7, HiddenSteps DEF UseObjects, Proceed

\* The counts, locks, C stacks and chains of continuations implement plain
\* object lifetimes: an object starts dying with the very step that drops the
\* last pointer to it, and its DESTROYALL runs once.
THEOREM Refinement == Spec => ImplementsLifetime
<1>1. Init => Lifetime!LifeInit
  <2>1. Init => phase = [o \in Object |-> "unborn"]
    BY DEF Init, phase, PhaseOf
  <2> QED BY <2>1 DEF Init, Lifetime!LifeInit, Lifetime!Slot, Slot, Lifetime!Field, Field,
                      Lifetime!Moved, Moved
<1>2. UNCHANGED vars => UNCHANGED <<ptr, phase>>
  BY DEF vars, phase
<1>3. IInv /\ [Next]_vars => [Lifetime!LifeNext]_<<ptr, phase>>
  BY <1>2, StepRefines
<1> QED
  BY <1>1, <1>3, InductiveInvariant, PTL
  DEF Spec, ImplementsLifetime, Lifetime!LifeSpec, Lifetime!lifeVars

=============================================================================
