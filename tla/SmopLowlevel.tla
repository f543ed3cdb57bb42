---------------------------- MODULE SmopLowlevel ----------------------------
(***************************************************************************)
(* Reference counting and object destruction in SMOP, the C runtime under  *)
(* v6/smop: smop_lowlevel_alloc, smop_lowlevel_refcnt_inc,                 *)
(* smop_lowlevel_refcnt_dec and smop_lowlevel_free of src/lowlevel.sm0p,   *)
(* called by several OS threads on shared objects.                         *)
(*                                                                         *)
(* Every object has a ref_cnt and an rwlock.  Threads keep counted         *)
(* pointers in C variables (Local); an object keeps one counted pointer in *)
(* its field.  A call of refcnt_inc or refcnt_dec is the lock, the load    *)
(* and the store of ref_cnt++ / ref_cnt--, and the unlock.  The thread     *)
(* that takes the count to zero destroys the object: at once, on its C     *)
(* stack, or by pushing a frame on its interpreter's chain of              *)
(* continuations that calls DESTROYALL when the interpreter loops.         *)
(***************************************************************************)
EXTENDS Integers, Sequences, FiniteSets

CONSTANTS Thread,      \* OS threads, each with an interpreter of its own
          Object,
          Local,
          LocalOf,     \* the thread that owns each local
          DirectKind,  \* molds, mold frames, interpreters, captures
          NoObject, NoThread

ASSUME LowlevelAssumption ==
    /\ IsFiniteSet(Local) /\ IsFiniteSet(Object)
    /\ LocalOf \in [Local -> Thread]
    /\ DirectKind \subseteq Object
    /\ NoObject \notin Object
    /\ NoThread \notin Thread
    /\ \A o \in Object : <<"field", o>> \notin Local /\ <<"moved", o>> \notin Local

VARIABLES refCnt,      \* ref_cnt of every object
          lockedBy,    \* holder of the write lock of every object's rwlock
          ptr,         \* what every counted pointer variable points at
          stage,       \* how far the object has come
          call,        \* the refcnt_inc / refcnt_dec each thread is inside of
          stack,       \* the destructions each thread's C stack is inside of
          chain,       \* the pending destruction frames of its interpreter
          looping      \* whether it is inside the interpreter's loop

vars == <<refCnt, lockedBy, ptr, stage, call, stack, chain, looping>>

-----------------------------------------------------------------------------
Field(o) == <<"field", o>>
Moved(o) == <<"moved", o>>
Slot == Local \cup {Field(o) : o \in Object} \cup {Moved(o) : o \in Object}

Pointers(o) == {s \in Slot : ptr[s] = o}

\* Mutant of Sentinel: the count is left at zero while the object dies.
NoSentinel == 0

Sentinel == 999   \* "force it as to not getting here again..."

\* The interpreter argument of the call: the prototype or the thread's own.
Via == {"prototype", "instance"}

\* live, then doomed (count at zero), queued (waiting in the chain), clear
\* (DESTROYALL about to run), self (its own reference still to be released),
\* free (about to be freed), and at last freed or, unfreed, destroyed.
Stages == {"unborn", "live", "doomed", "queued", "clear", "self", "free",
           "destroyed", "freed"}

NoCall == [fn |-> "none"]

Call == [fn : {"inc", "dec", "self"}, at : {"lock", "load", "store", "unlock"},
         obj : Object, src : Slot, slot : Slot, via : Via, tmp : Int]

Activation == [obj : Object, via : Via]

\* smop_lowlevel_refcnt_dec's case distinction.
Direct(via, o) == via = "prototype" \/ o \in DirectKind

Last(seq) == seq[Len(seq)]
Front(seq) == SubSeq(seq, 1, Len(seq) - 1)

TypeOK ==
    /\ refCnt \in [Object -> Int]
    /\ lockedBy \in [Object -> Thread \cup {NoThread}]
    /\ ptr \in [Slot -> Object \cup {NoObject}]
    /\ stage \in [Object -> Stages]
    /\ call \in [Thread -> Call \cup {NoCall}]
    /\ stack \in [Thread -> Seq(Activation)]
    /\ chain \in [Thread -> Seq(Object)]
    /\ looping \in [Thread -> BOOLEAN]

Init ==
    /\ refCnt = [o \in Object |-> 0]
    /\ lockedBy = [o \in Object |-> NoThread]
    /\ ptr = [s \in Slot |-> NoObject]
    /\ stage = [o \in Object |-> "unborn"]
    /\ call = [t \in Thread |-> NoCall]
    /\ stack = [t \in Thread |-> <<>>]
    /\ chain = [t \in Thread |-> <<>>]
    /\ looping = [t \in Thread |-> FALSE]

-----------------------------------------------------------------------------
(* The code that uses the low level.  It runs between calls, and inside the *)
(* loop only once no destruction frame is left in front of it.              *)

Returned(t) == call[t] = NoCall /\ stack[t] = <<>>

UserCode(t) == Returned(t) /\ (looping[t] => chain[t] = <<>>)

\* smop_lowlevel_alloc, in a constructor that stores the pointer it is given.
Alloc(t, o, s) ==
    /\ UserCode(t)
    /\ LocalOf[s] = t
    /\ stage[o] = "unborn"
    /\ refCnt' = [refCnt EXCEPT ![o] = 1]
    /\ stage' = [stage EXCEPT ![o] = "live"]
    /\ ptr' = [ptr EXCEPT ![Field(o)] = ptr[s], ![s] = o]
    /\ UNCHANGED <<lockedBy, call, stack, chain, looping>>

\* A pointer passed to another thread together with its reference.
Hand(t, s, d) ==
    /\ UserCode(t)
    /\ LocalOf[s] = t /\ LocalOf[d] # t
    /\ ptr[s] # NoObject /\ ptr[d] = NoObject
    /\ \A u \in Thread : call[u] # NoCall => call[u].slot # d
    /\ ptr' = [ptr EXCEPT ![d] = ptr[s], ![s] = NoObject]
    /\ UNCHANGED <<refCnt, lockedBy, stage, call, stack, chain, looping>>

\* d = SMOP_REFERENCE(interpreter, s)
Reference(t, s, d) ==
    /\ UserCode(t)
    /\ LocalOf[s] = t /\ LocalOf[d] = t
    /\ ptr[s] # NoObject /\ ptr[d] = NoObject
    /\ call' = [call EXCEPT ![t] =
                  [fn |-> "inc", at |-> "lock", obj |-> ptr[s], src |-> s,
                   slot |-> d, via |-> "instance", tmp |-> 0]]
    /\ UNCHANGED <<refCnt, lockedBy, ptr, stage, stack, chain, looping>>

RefcntDec(o, s, via) == [fn |-> "dec", at |-> "lock", obj |-> o, src |-> s,
                         slot |-> s, via |-> via, tmp |-> 0]

\* SMOP_RELEASE(interpreter, s), with either kind of interpreter
Release(t, s, via) ==
    /\ UserCode(t)
    /\ LocalOf[s] = t
    /\ ptr[s] # NoObject
    /\ call' = [call EXCEPT ![t] = RefcntDec(ptr[s], s, via)]
    /\ UNCHANGED <<refCnt, lockedBy, ptr, stage, stack, chain, looping>>

-----------------------------------------------------------------------------
(* smop_lowlevel_refcnt_inc and smop_lowlevel_refcnt_dec *)

\* Mutant of Lock: the lock does not exclude a second writer.
LockShared(t) ==
    /\ call[t] # NoCall /\ call[t].at = "lock"
    /\ lockedBy' = [lockedBy EXCEPT ![call[t].obj] = t]
    /\ call' = [call EXCEPT ![t].at = "load"]
    /\ UNCHANGED <<refCnt, ptr, stage, stack, chain, looping>>

Lock(t) ==
    /\ call[t] # NoCall /\ call[t].at = "lock"
    /\ lockedBy[call[t].obj] = NoThread
    /\ lockedBy' = [lockedBy EXCEPT ![call[t].obj] = t]
    /\ call' = [call EXCEPT ![t].at = "load"]
    /\ UNCHANGED <<refCnt, ptr, stage, stack, chain, looping>>

Load(t) ==
    /\ call[t] # NoCall /\ call[t].at = "load"
    /\ call' = [call EXCEPT ![t].tmp = refCnt[call[t].obj], ![t].at = "store"]
    /\ UNCHANGED <<refCnt, lockedBy, ptr, stage, stack, chain, looping>>

Increment(t) ==
    /\ call[t] # NoCall /\ call[t].at = "store" /\ call[t].fn = "inc"
    /\ refCnt' = [refCnt EXCEPT ![call[t].obj] = call[t].tmp + 1]
    /\ ptr' = [ptr EXCEPT ![call[t].slot] = call[t].obj]
    /\ call' = [call EXCEPT ![t].at = "unlock"]
    /\ UNCHANGED <<lockedBy, stage, stack, chain, looping>>

\* Mutants of Decrement: the test for zero is off by one, either way.
DecrementAtOne(t) ==
    LET o == call[t].obj
        zero == call[t].tmp - 1 <= 1
    IN  /\ call[t] # NoCall /\ call[t].at = "store" /\ call[t].fn # "inc"
        /\ refCnt' = [refCnt EXCEPT ![o] = IF zero THEN Sentinel
                                                   ELSE call[t].tmp - 1]
        /\ stage' = IF zero THEN [stage EXCEPT ![o] = "doomed"] ELSE stage
        /\ ptr' = IF call[t].fn = "dec"
                  THEN [ptr EXCEPT ![call[t].slot] = NoObject] ELSE ptr
        /\ call' = [call EXCEPT ![t].at = "unlock"]
        /\ UNCHANGED <<lockedBy, stack, chain, looping>>

DecrementBelow(t) ==
    LET o == call[t].obj
        zero == call[t].tmp - 1 < 0
    IN  /\ call[t] # NoCall /\ call[t].at = "store" /\ call[t].fn # "inc"
        /\ refCnt' = [refCnt EXCEPT ![o] = IF zero THEN Sentinel
                                                   ELSE call[t].tmp - 1]
        /\ stage' = IF zero THEN [stage EXCEPT ![o] = "doomed"] ELSE stage
        /\ ptr' = IF call[t].fn = "dec"
                  THEN [ptr EXCEPT ![call[t].slot] = NoObject] ELSE ptr
        /\ call' = [call EXCEPT ![t].at = "unlock"]
        /\ UNCHANGED <<lockedBy, stack, chain, looping>>

\* ref_cnt--, and at zero the sentinel that keeps later releases out.
Decrement(t) ==
    LET o == call[t].obj
        zero == call[t].tmp - 1 <= 0
    IN  /\ call[t] # NoCall /\ call[t].at = "store" /\ call[t].fn # "inc"
        /\ refCnt' = [refCnt EXCEPT ![o] = IF zero THEN Sentinel
                                                   ELSE call[t].tmp - 1]
        /\ stage' = IF zero THEN [stage EXCEPT ![o] = "doomed"] ELSE stage
        /\ ptr' = IF call[t].fn = "dec"
                  THEN [ptr EXCEPT ![call[t].slot] = NoObject] ELSE ptr
        /\ call' = [call EXCEPT ![t].at = "unlock"]
        /\ UNCHANGED <<lockedBy, stack, chain, looping>>

AtUnlock(t) == call[t] # NoCall /\ call[t].at = "unlock"

UnlockAndReturn(t) ==
    /\ lockedBy' = [lockedBy EXCEPT ![call[t].obj] = NoThread]
    /\ call' = [call EXCEPT ![t] = NoCall]

\* The count did not reach zero: unlock and return value.
Unlock(t) ==
    /\ AtUnlock(t) /\ call[t].fn # "self" /\ stage[call[t].obj] # "doomed"
    /\ UnlockAndReturn(t)
    /\ UNCHANGED <<refCnt, ptr, stage, stack, chain, looping>>

\* Mutant of DestroyDirectly: DESTROYALL is dispatched before the unlock.
DestroyLocked(t) ==
    /\ AtUnlock(t) /\ stage[call[t].obj] = "doomed"
    /\ Direct(call[t].via, call[t].obj)
    /\ call' = [call EXCEPT ![t] = NoCall]
    /\ stage' = [stage EXCEPT ![call[t].obj] = "clear"]
    /\ stack' = [stack EXCEPT ![t] =
                   Append(@, [obj |-> call[t].obj, via |-> call[t].via])]
    /\ UNCHANGED <<refCnt, lockedBy, ptr, chain, looping>>

\* The first three branches: DESTROYALL dispatched on the C stack.
DestroyDirectly(t) ==
    /\ AtUnlock(t) /\ stage[call[t].obj] = "doomed"
    /\ Direct(call[t].via, call[t].obj)
    /\ UnlockAndReturn(t)
    /\ stage' = [stage EXCEPT ![call[t].obj] = "clear"]
    /\ stack' = [stack EXCEPT ![t] =
                   Append(@, [obj |-> call[t].obj, via |-> call[t].via])]
    /\ UNCHANGED <<refCnt, ptr, chain, looping>>

\* Mutant of DestroyByContinuation: the goto to the frame is forgotten.
DestroyNowhere(t) ==
    /\ AtUnlock(t) /\ stage[call[t].obj] = "doomed"
    /\ ~Direct(call[t].via, call[t].obj)
    /\ UnlockAndReturn(t)
    /\ stage' = [stage EXCEPT ![call[t].obj] = "queued"]
    /\ UNCHANGED <<refCnt, ptr, stack, chain, looping>>

\* The last branch: a frame that calls DESTROYALL and then goes back to the
\* current continuation becomes the continuation.
DestroyByContinuation(t) ==
    /\ AtUnlock(t) /\ stage[call[t].obj] = "doomed"
    /\ ~Direct(call[t].via, call[t].obj)
    /\ UnlockAndReturn(t)
    /\ stage' = [stage EXCEPT ![call[t].obj] = "queued"]
    /\ chain' = [chain EXCEPT ![t] = Append(@, call[t].obj)]
    /\ UNCHANGED <<refCnt, ptr, stack, looping>>

-----------------------------------------------------------------------------
(* DESTROYALL, and what follows it *)

\* Mutant of DestroyAll: the pointer is released without testing it for NULL.
DestroyAllUnchecked(t) ==
    LET top == Last(stack[t])
        o == top.obj
    IN  /\ call[t] = NoCall /\ stack[t] # <<>>
        /\ stage[o] = "clear"
        /\ lockedBy[o] = NoThread
        /\ stage' = [stage EXCEPT ![o] = "self"]
        /\ ptr' = [ptr EXCEPT ![Moved(o)] = ptr[Field(o)],
                              ![Field(o)] = NoObject]
        /\ call' = [call EXCEPT ![t] =
                      RefcntDec(ptr[Field(o)], Moved(o), top.via)]
        /\ stack' = IF Direct(top.via, o) THEN stack
                    ELSE [stack EXCEPT ![t] = Front(@)]
        /\ UNCHANGED <<refCnt, lockedBy, chain, looping>>

\* The handler takes its pointer out of the object under the write lock and
\* releases it after unlocking.  The handler of an object destroyed by
\* continuation returns to the loop.
DestroyAll(t) ==
    LET top == Last(stack[t])
        o == top.obj
    IN  /\ call[t] = NoCall /\ stack[t] # <<>>
        /\ stage[o] = "clear"
        /\ lockedBy[o] = NoThread
        /\ stage' = [stage EXCEPT ![o] = "self"]
        /\ ptr' = [ptr EXCEPT ![Moved(o)] = ptr[Field(o)],
                              ![Field(o)] = NoObject]
        /\ call' = IF ptr[Field(o)] = NoObject THEN call
                   ELSE [call EXCEPT ![t] =
                           RefcntDec(ptr[Field(o)], Moved(o), top.via)]
        /\ stack' = IF Direct(top.via, o) THEN stack
                    ELSE [stack EXCEPT ![t] = Front(@)]
        /\ UNCHANGED <<refCnt, lockedBy, chain, looping>>

RefcntDecSelf(o, via) ==
    [fn |-> "self", at |-> "lock", obj |-> o, src |-> Moved(o),
     slot |-> Moved(o), via |-> via, tmp |-> 0]

\* Mutant of ReleaseSelf: the object is freed before its last release.
FreeThenRelease(t) ==
    LET top == Last(stack[t])
    IN  /\ call[t] = NoCall /\ stack[t] # <<>>
        /\ stage[top.obj] = "self"
        /\ call' = [call EXCEPT ![t] = RefcntDecSelf(top.obj, top.via)]
        /\ stage' = [stage EXCEPT ![top.obj] = "freed"]
        /\ UNCHANGED <<refCnt, lockedBy, ptr, stack, chain, looping>>

\* The reference that went to DESTROYALL in its capture is released when the
\* handler ends ...
ReleaseSelf(t) ==
    LET top == Last(stack[t])
    IN  /\ call[t] = NoCall /\ stack[t] # <<>>
        /\ stage[top.obj] = "self"
        /\ call' = [call EXCEPT ![t] = RefcntDecSelf(top.obj, top.via)]
        /\ UNCHANGED <<refCnt, lockedBy, ptr, stage, stack, chain, looping>>

\* ... or, by continuation, when the frame goes back to $current and dies.
GotoCurrent(t) ==
    /\ Returned(t) /\ looping[t] /\ chain[t] # <<>>
    /\ stage[Last(chain[t])] = "self"
    /\ call' = [call EXCEPT ![t] = RefcntDecSelf(Last(chain[t]), "instance")]
    /\ chain' = [chain EXCEPT ![t] = Front(@)]
    /\ UNCHANGED <<refCnt, lockedBy, ptr, stage, stack, looping>>

UnlockSelf(t) ==
    LET o == call[t].obj
    IN  /\ AtUnlock(t) /\ call[t].fn = "self" /\ stage[o] # "doomed"
        /\ UnlockAndReturn(t)
        /\ stage' = [stage EXCEPT ![o] =
                       IF Direct(call[t].via, o) THEN "free" ELSE "destroyed"]
        /\ UNCHANGED <<refCnt, ptr, stack, chain, looping>>

\* smop_lowlevel_free: the call is commented out in the last branch.
Free(t) ==
    LET o == Last(stack[t]).obj
    IN  /\ call[t] = NoCall /\ stack[t] # <<>>
        /\ stage[o] = "free"
        /\ stage' = [stage EXCEPT ![o] = "freed"]
        /\ stack' = [stack EXCEPT ![t] = Front(@)]
        /\ UNCHANGED <<refCnt, lockedBy, ptr, call, chain, looping>>

-----------------------------------------------------------------------------
(* The interpreter's loop *)

EnterLoop(t) ==
    /\ Returned(t) /\ ~looping[t]
    /\ looping' = [looping EXCEPT ![t] = TRUE]
    /\ UNCHANGED <<refCnt, lockedBy, ptr, stage, call, stack, chain>>

\* $value.DESTROYALL($value) in the frame on top
EvalDestroy(t) ==
    LET o == Last(chain[t])
    IN  /\ Returned(t) /\ looping[t] /\ chain[t] # <<>>
        /\ stage[o] = "queued"
        /\ stage' = [stage EXCEPT ![o] = "clear"]
        /\ stack' = [stack EXCEPT ![t] =
                       Append(@, [obj |-> o, via |-> "instance"])]
        /\ UNCHANGED <<refCnt, lockedBy, ptr, call, chain, looping>>

LeaveLoop(t) ==
    /\ Returned(t) /\ looping[t] /\ chain[t] = <<>>
    /\ looping' = [looping EXCEPT ![t] = FALSE]
    /\ UNCHANGED <<refCnt, lockedBy, ptr, stage, call, stack, chain>>

-----------------------------------------------------------------------------
UseObjects(t) ==
    \/ \E o \in Object, s \in Local : Alloc(t, o, s)
    \/ \E s, d \in Local : Hand(t, s, d) \/ Reference(t, s, d)
    \/ \E s \in Local, via \in Via : Release(t, s, via)

\* What runs on once it is called.
Proceed(t) ==
    \/ Load(t) \/ Increment(t) \/ Decrement(t)
    \/ Unlock(t) \/ DestroyDirectly(t) \/ DestroyByContinuation(t)
    \/ DestroyAll(t) \/ ReleaseSelf(t) \/ GotoCurrent(t) \/ UnlockSelf(t)
    \/ Free(t) \/ EvalDestroy(t)

Loop(t) == EnterLoop(t) \/ LeaveLoop(t)

Next == \E t \in Thread : UseObjects(t) \/ Lock(t) \/ Proceed(t) \/ Loop(t)

Spec == Init /\ [][Next]_vars

\* A thread inside a call runs, a thread waiting for an rwlock that keeps
\* becoming free gets it, and a program that goes on using objects goes on
\* calling its interpreter's loop, as smop_loop and the drivers do.
Fairness == \A t \in Thread : /\ WF_vars(Proceed(t))
                              /\ SF_vars(Lock(t))
                              /\ SF_vars(EnterLoop(t))

FairSpec == Spec /\ Fairness

-----------------------------------------------------------------------------
(* Properties *)

\* The ref_cnt of a live object is the number of pointers that lead to it:
\* no interleaving of refcnt_inc and refcnt_dec loses an update.
CountMatchesPointers ==
    \A o \in Object : stage[o] = "live" => refCnt[o] = Cardinality(Pointers(o))

\* No pointer variable, whosever it is, leads to an object whose destruction
\* has begun: refcnt_dec decides on zero under the lock.
NoDangling ==
    \A s \in Slot : ptr[s] # NoObject => stage[ptr[s]] = "live"

\* After smop_lowlevel_free nobody holds the object's lock, waits for it, or
\* has the object on its C stack or in its chain of continuations.
NoUseAfterFree ==
    \A o \in Object : stage[o] = "freed" =>
        /\ lockedBy[o] = NoThread
        /\ \A t \in Thread :
              /\ call[t] # NoCall => call[t].obj # o
              /\ \A i \in DOMAIN stack[t] : stack[t][i].obj # o
              /\ \A i \in DOMAIN chain[t] : chain[t][i] # o

\* "No recursion should be made while a object is locked": a thread that
\* waits for a lock, or runs DESTROYALL or user code, holds none.
NoRecursionWhileLocked ==
    \A t \in Thread : (call[t] = NoCall \/ call[t].at = "lock") =>
        \A o \in Object : lockedBy[o] # t

\* An object goes through its life once: the sentinel keeps the releases made
\* by its own destruction from dooming it again.
Passages == {<<"unborn", "live">>, <<"live", "doomed">>, <<"doomed", "queued">>,
             <<"doomed", "clear">>, <<"queued", "clear">>, <<"clear", "self">>,
             <<"self", "free">>, <<"self", "destroyed">>, <<"free", "freed">>}

Forward == \A o \in Object :
    stage'[o] # stage[o] => <<stage[o], stage'[o]>> \in Passages

LifecycleForward == [][Forward]_vars

\* Every object whose last reference goes is destroyed in the end, and so is
\* everything only it kept alive, across threads and nested destructions.
EventuallyDestroyed ==
    \A o \in Object : stage[o] = "doomed" ~> stage[o] \in {"destroyed", "freed"}

\* What smop_lowlevel.h says of refcnt_dec: "It will call DESTROYALL and
\* free() the pointer when appropriate".
EventuallyFreed ==
    \A o \in Object : stage[o] = "doomed" ~> stage[o] = "freed"

\* The counts, locks, stacks and chains implement plain object lifetimes.
PhaseOf == [unborn |-> "unborn", live |-> "live", doomed |-> "dying",
            queued |-> "dying", clear |-> "dying", self |-> "dead",
            free |-> "dead", destroyed |-> "dead", freed |-> "dead"]

phase == [o \in Object |-> PhaseOf[stage[o]]]

Lifetime == INSTANCE ObjectLifetime
ImplementsLifetime == Lifetime!LifeSpec

-----------------------------------------------------------------------------
(* The inductive invariant from which the safety properties follow *)

Calling(t, fn) == call[t] # NoCall /\ call[t].fn = fn
Pending(t, fn) == Calling(t, fn) /\ call[t].at # "unlock"

\* A lock is held exactly by the thread that is inside a call on the object.
LockInv ==
    \A t \in Thread, o \in Object :
        lockedBy[o] = t <=> /\ call[t] # NoCall
                            /\ call[t].obj = o /\ call[t].at # "lock"

\* What was loaded is still what memory holds when the result is stored.
LoadInv ==
    \A t \in Thread : (call[t] # NoCall /\ call[t].at = "store")
                         => call[t].tmp = refCnt[call[t].obj]

\* refcnt_inc copies a pointer its thread keeps into a variable it keeps empty.
IncInv ==
    \A t \in Thread : Pending(t, "inc") =>
        LET c == call[t]
        IN  /\ c.src \in Local /\ LocalOf[c.src] = t /\ ptr[c.src] = c.obj
            /\ c.slot \in Local /\ LocalOf[c.slot] = t /\ ptr[c.slot] = NoObject

\* Stages in which DESTROYALL has taken the pointer out of the field.
Cleared == {"self", "free", "destroyed", "freed"}

\* refcnt_dec drops a pointer that is its own to drop: a local of the thread,
\* or what this thread's DESTROYALL took out of an object.
DecInv ==
    \A t \in Thread : Pending(t, "dec") =>
        LET c == call[t]
        IN  /\ ptr[c.slot] = c.obj
            /\ \/ c.slot \in Local /\ LocalOf[c.slot] = t
               \/ \E p \in Object : c.slot = Moved(p) /\ stage[p] \in Cleared

\* No two threads are about to drop the same pointer.
DistinctDrops ==
    \A t, u \in Thread :
        (Pending(t, "dec") /\ Pending(u, "dec") /\ call[t].slot = call[u].slot)
            => t = u

\* Fields are empty before their object exists, and so is what DESTROYALL
\* moves before it runs.
EmptyInv ==
    \A o \in Object :
        /\ stage[o] = "unborn" => ptr[Field(o)] = NoObject
        /\ stage[o] \notin Cleared => ptr[Moved(o)] = NoObject

\* The objects whose destruction a thread has still to finish.
Items(t) == {stack[t][i].obj : i \in DOMAIN stack[t]}
            \cup {chain[t][i] : i \in DOMAIN chain[t]}
            \cup (IF Calling(t, "self") THEN {call[t].obj} ELSE {})

OneDestroyer ==
    /\ \A t \in Thread : \A o \in Items(t) :
          stage[o] \notin {"unborn", "live", "doomed"}
    /\ \A t, u \in Thread : t # u => Items(t) \cap Items(u) = {}

\* From zero on, the count is the sentinel, until the one release that the
\* destruction makes of the object itself.
SentinelInv ==
    /\ \A o \in Object : stage[o] \in {"doomed", "queued", "clear"}
                           => refCnt[o] = Sentinel
    /\ \A o \in Object :
          (stage[o] = "self" /\ \A t \in Thread :
                 ~(Calling(t, "self") /\ call[t].obj = o /\ call[t].at = "unlock"))
            => refCnt[o] = Sentinel
    /\ \A t \in Thread : Calling(t, "self") => stage[call[t].obj] = "self"

IInv == /\ TypeOK
        /\ LockInv /\ LoadInv
        /\ IncInv /\ DecInv /\ DistinctDrops
        /\ EmptyInv /\ NoDangling /\ CountMatchesPointers
        /\ OneDestroyer /\ SentinelInv

(* What keeps a freed object out of reach *)

\* A call that took a count to zero still holds the lock of a doomed object.
UnlockInv ==
    \A t \in Thread : (AtUnlock(t) /\ call[t].fn # "self")
                         => stage[call[t].obj] \in {"live", "doomed"}

Stacked(t) == {stack[t][i].obj : i \in DOMAIN stack[t]}
Chained(t) == {chain[t][i] : i \in DOMAIN chain[t]}

\* An object is at most once on the C stack that destroys it.  Either its
\* activation there frees it, or that one only runs the DESTROYALL which a
\* frame of the chain called, and leaves before the frame goes back.
StackPlaced(t) ==
    \A i \in DOMAIN stack[t] :
        LET a == stack[t][i]
        IN  /\ \A j \in DOMAIN stack[t] : stack[t][j].obj = a.obj => j = i
            /\ IF Direct(a.via, a.obj)
               THEN /\ stage[a.obj] \in {"clear", "self", "free"}
                    /\ a.obj \notin Chained(t)
               ELSE stage[a.obj] = "clear"

ChainPlaced(t) ==
    \A i \in DOMAIN chain[t] :
        /\ chain[t][i] \notin DirectKind
        /\ stage[chain[t][i]] \in {"queued", "clear", "self"}
        /\ \A j \in DOMAIN chain[t] : chain[t][j] = chain[t][i] => j = i

\* The last release of an object is made for its activation on the stack, or
\* by the frame that has just left the chain.
SelfPlaced(t) ==
    Calling(t, "self") =>
        /\ call[t].obj \notin Chained(t)
        /\ call[t].obj \in Stacked(t) => Direct(call[t].via, call[t].obj)

Placed(t) == StackPlaced(t) /\ ChainPlaced(t) /\ SelfPlaced(t)

PlaceInv == UnlockInv /\ \A t \in Thread : Placed(t)

=============================================================================
