----------------------------- MODULE SmopScalar -----------------------------
(***************************************************************************)
(* A scalar container that several threads share,                          *)
(* src/v6/smop/src/s1p_scalar.c: FETCH, STORE, new and DESTROYALL.         *)
(*                                                                         *)
(* The cell is read and written under the scalar's rwlock, but references  *)
(* are taken and given up outside it.  refcnt_inc and refcnt_dec are one   *)
(* step each here, which is what SmopLowlevel shows of them.  The capture  *)
(* that a message arrives in, and the references it keeps until the        *)
(* handler ends, are part of the protocol.                                 *)
(***************************************************************************)
EXTENDS Integers, FiniteSets

CONSTANTS Thread, Value,
          NoThread, NoValue

ASSUME ScalarAssumption ==
    /\ IsFiniteSet(Thread)
    /\ NoThread \notin Thread /\ NoValue \notin Value

VARIABLES cell,        \* the scalar's cell
          writer,      \* who holds the scalar's write lock
          users,       \* the threads with a reference to the scalar
          mine,        \* the values every thread has a reference to
          refCnt,      \* ref_cnt of every value
          status,      \* of every value
          call,        \* the message every thread is handling
          late         \* the values FETCH referenced when they were gone

vars == <<cell, writer, users, mine, refCnt, status, call, late>>

-----------------------------------------------------------------------------
\* val: the value fetched, stored or returned; old: what was in the cell.
At(at, val, old) == [at |-> at, val |-> val, old |-> old]
NoCall == At("none", NoValue, NoValue)

Steps == {"none", "reference", "wrlock", "load", "put", "release old",
          "reference ret", "release capture", "returned",
          "destroy", "take", "clear", "release cell"}

TypeOK ==
    /\ cell \in Value \cup {NoValue}
    /\ writer \in Thread \cup {NoThread}
    /\ users \subseteq Thread
    /\ mine \in [Thread -> SUBSET Value]
    /\ refCnt \in [Value -> Nat]
    /\ status \in [Value -> {"unborn", "live", "dead"}]
    /\ call \in [Thread -> [at : Steps, val : Value \cup {NoValue},
                            old : Value \cup {NoValue}]]
    /\ late \subseteq Value

\* create: the scalar takes over the reference to its initial value.
Init ==
    /\ \E v \in Value :
          /\ cell = v
          /\ refCnt = [w \in Value |-> IF w = v THEN 1 ELSE 0]
          /\ status = [w \in Value |-> IF w = v THEN "live" ELSE "unborn"]
    /\ writer = NoThread
    /\ users = Thread
    /\ mine = [t \in Thread |-> {}]
    /\ call = [t \in Thread |-> NoCall]
    /\ late = {}

Inc(v, n) == refCnt' = [refCnt EXCEPT ![v] = @ + n] /\ UNCHANGED status

\* SMOP_RELEASE tests for NULL in every place it is called from.
Dec(v) ==
    IF v = NoValue THEN UNCHANGED <<refCnt, status>>
    ELSE /\ refCnt' = [refCnt EXCEPT ![v] = @ - 1]
         /\ status' = IF refCnt[v] <= 1 THEN [status EXCEPT ![v] = "dead"] ELSE status

Goes(t, at) == call' = [call EXCEPT ![t].at = at]

Free(t) == t \in users /\ call[t] = NoCall

\* A thread makes a value, passes one on or drops one.
New(t, v) ==
    /\ Free(t) /\ status[v] = "unborn"
    /\ mine' = [mine EXCEPT ![t] = @ \cup {v}]
    /\ refCnt' = [refCnt EXCEPT ![v] = 1]
    /\ status' = [status EXCEPT ![v] = "live"]
    /\ UNCHANGED <<cell, writer, users, call, late>>

Share(t, o, v) ==
    /\ Free(t) /\ v \in mine[t]
    /\ o # t /\ Free(o) /\ v \notin mine[o]
    /\ mine' = [mine EXCEPT ![o] = @ \cup {v}]
    /\ Inc(v, 1)
    /\ UNCHANGED <<cell, writer, users, call, late>>

Drop(t, v) ==
    /\ Free(t) /\ v \in mine[t]
    /\ mine' = [mine EXCEPT ![t] = @ \ {v}]
    /\ Dec(v)
    /\ UNCHANGED <<cell, writer, users, call, late>>

-----------------------------------------------------------------------------
(* FETCH *)

\* SMOP__S1P__Scalar_FETCH: rdlock, read, unlock.
Fetch(t) ==
    /\ Free(t) /\ writer = NoThread
    /\ call' = [call EXCEPT ![t] = At("reference", cell, NoValue)]
    /\ UNCHANGED <<cell, writer, users, mine, refCnt, status, late>>

\* Mutant of FetchReference: the pointer is returned as it is.
FetchReferenceNot(t) ==
    /\ call[t].at = "reference"
    /\ Goes(t, "returned")
    /\ UNCHANGED <<cell, writer, users, mine, refCnt, status, late>>

\* Only then the handler references what it has read.
FetchReference(t) ==
    /\ call[t].at = "reference"
    /\ IF call[t].val = NoValue THEN UNCHANGED <<refCnt, status>> ELSE Inc(call[t].val, 1)
    /\ late' = late \cup {v \in {call[t].val} \ {NoValue} : status[v] = "dead"}
    /\ Goes(t, "returned")
    /\ UNCHANGED <<cell, writer, users, mine>>

-----------------------------------------------------------------------------
(* STORE *)

\* The capture has a reference to the value, and capture_positional adds the
\* one that the cell will keep.
Store(t, v) ==
    /\ Free(t) /\ v \in mine[t]
    /\ Inc(v, 2)
    /\ call' = [call EXCEPT ![t] = At("wrlock", v, NoValue)]
    /\ UNCHANGED <<cell, writer, users, mine, late>>

\* Mutant of WrLock: the write lock is shared.
WrLockShared(t) ==
    /\ call[t].at \in {"wrlock", "destroy"}
    /\ writer' = t
    /\ Goes(t, IF call[t].at = "wrlock" THEN "load" ELSE "take")
    /\ UNCHANGED <<cell, users, mine, refCnt, status, late>>

\* wrlock, of STORE and of DESTROYALL
WrLock(t) ==
    /\ call[t].at \in {"wrlock", "destroy"}
    /\ writer = NoThread
    /\ writer' = t
    /\ Goes(t, IF call[t].at = "wrlock" THEN "load" ELSE "take")
    /\ UNCHANGED <<cell, users, mine, refCnt, status, late>>

Load(t) ==
    /\ call[t].at = "load"
    /\ call' = [call EXCEPT ![t].at = "put", ![t].old = cell]
    /\ UNCHANGED <<cell, writer, users, mine, refCnt, status, late>>

\* cell = value; unlock
Put(t) ==
    /\ call[t].at = "put"
    /\ cell' = call[t].val
    /\ writer' = NoThread
    /\ Goes(t, "release old")
    /\ UNCHANGED <<users, mine, refCnt, status, late>>

\* Mutant of ReleaseOld: it is released once more than it should.
ReleaseOldTwice(t) ==
    /\ call[t].at = "release old"
    /\ IF call[t].old = NoValue THEN UNCHANGED <<refCnt, status>>
       ELSE /\ refCnt' = [refCnt EXCEPT ![call[t].old] = @ - 2]
            /\ status' = [status EXCEPT ![call[t].old] = "dead"]
    /\ call' = [call EXCEPT ![t].at = "reference ret", ![t].old = NoValue]
    /\ UNCHANGED <<cell, writer, users, mine, late>>

ReleaseOld(t) ==
    /\ call[t].at = "release old"
    /\ Dec(call[t].old)
    /\ call' = [call EXCEPT ![t].at = "reference ret", ![t].old = NoValue]
    /\ UNCHANGED <<cell, writer, users, mine, late>>

\* Mutant of ReferenceRet: the cell's reference is taken to be enough.
ReferenceRetNot(t) ==
    /\ call[t].at = "reference ret"
    /\ Goes(t, "release capture")
    /\ UNCHANGED <<cell, writer, users, mine, refCnt, status, late>>

\* The value may have left the cell again; the capture still has it.
ReferenceRet(t) ==
    /\ call[t].at = "reference ret"
    /\ Inc(call[t].val, 1)
    /\ Goes(t, "release capture")
    /\ UNCHANGED <<cell, writer, users, mine, late>>

ReleaseCapture(t) ==
    /\ call[t].at = "release capture"
    /\ Dec(call[t].val)
    /\ Goes(t, "returned")
    /\ UNCHANGED <<cell, writer, users, mine, late>>

\* The caller keeps the reference it got, or releases it.
Returned(t) ==
    /\ call[t].at = "returned"
    /\ call' = [call EXCEPT ![t] = NoCall]
    /\ \/ /\ call[t].val \notin mine[t] \cup {NoValue}
          /\ mine' = [mine EXCEPT ![t] = @ \cup {call[t].val}]
          /\ UNCHANGED <<refCnt, status>>
       \/ Dec(call[t].val) /\ UNCHANGED mine
    /\ UNCHANGED <<cell, writer, users, late>>

-----------------------------------------------------------------------------
(* The end of the scalar *)

\* A thread gives up its reference to the scalar; the last one destroys it.
Leave(t) ==
    /\ Free(t)
    /\ users' = users \ {t}
    /\ call' = IF users = {t}
               THEN [call EXCEPT ![t] = At("destroy", NoValue, NoValue)] ELSE call
    /\ UNCHANGED <<cell, writer, mine, refCnt, status, late>>

\* DESTROYALL: cell = s->cell; s->cell = NULL; unlock; RELEASE
Take(t) ==
    /\ call[t].at = "take"
    /\ call' = [call EXCEPT ![t].at = "clear", ![t].old = cell]
    /\ UNCHANGED <<cell, writer, users, mine, refCnt, status, late>>

\* Mutant of Clear: the cell keeps its pointer.
ClearNot(t) ==
    /\ call[t].at = "clear"
    /\ writer' = NoThread
    /\ Goes(t, "release cell")
    /\ UNCHANGED <<cell, users, mine, refCnt, status, late>>

Clear(t) ==
    /\ call[t].at = "clear"
    /\ cell' = NoValue
    /\ writer' = NoThread
    /\ Goes(t, "release cell")
    /\ UNCHANGED <<users, mine, refCnt, status, late>>

ReleaseCell(t) ==
    /\ call[t].at = "release cell"
    /\ Dec(call[t].old)
    /\ call' = [call EXCEPT ![t] = NoCall]
    /\ UNCHANGED <<cell, writer, users, mine, late>>

-----------------------------------------------------------------------------
Use(t) == \/ \E v \in Value : New(t, v) \/ Drop(t, v) \/ Store(t, v)
          \/ \E o \in Thread, v \in Value : Share(t, o, v)
          \/ Fetch(t) \/ Leave(t)

Handle(t) == \/ FetchReference(t)
             \/ WrLock(t) \/ Load(t) \/ Put(t) \/ ReleaseOld(t)
             \/ ReferenceRet(t) \/ ReleaseCapture(t) \/ Returned(t)
             \/ Take(t) \/ Clear(t) \/ ReleaseCell(t)

\* What a thread keeps beyond the scalar's life is not followed.
Over == users = {} /\ (\A t \in Thread : call[t] = NoCall) /\ UNCHANGED vars

Next == (\E t \in Thread : Use(t) \/ Handle(t)) \/ Over

Spec == Init /\ [][Next]_vars

-----------------------------------------------------------------------------
(* Properties *)

\* The references a thread holds: to its own values, and those its call has
\* taken and not given up yet.  STORE keeps one in the capture, one that is
\* to go into the cell, the one it took out of it, and one for the caller.
Roles == {"mine", "capture", "stored", "old", "result"}

Refers(t, role, v) ==
    LET c == call[t]
    IN  \/ role = "mine" /\ v \in mine[t]
        \/ /\ role = "capture" /\ c.val = v
           /\ c.at \in {"wrlock", "load", "put", "release old", "reference ret",
                        "release capture"}
        \/ role = "stored" /\ c.val = v /\ c.at \in {"wrlock", "load", "put"}
        \/ role = "old" /\ c.old = v /\ c.at \in {"release old", "release cell"}
        \/ role = "result" /\ c.val = v /\ c.at \in {"release capture", "returned"}

Holders(v) == {h \in Thread \X Roles : Refers(h[1], h[2], v)}

References(v) == (IF cell = v THEN 1 ELSE 0) + Cardinality(Holders(v))

\* Every value in a cell, or on its way into or out of it, is counted once,
\* and lives exactly as long as it is: STORE and DESTROYALL neither leak what
\* was in the cell nor release it twice, whichever of them and of FETCH
\* overlap.  Only a value that FETCH came late to is past saving.
CountsExact ==
    \A v \in Value : status[v] # "unborn" =>
        /\ refCnt[v] = References(v)
        /\ v \in late \/ (status[v] = "live" <=> References(v) > 0)

\* What a thread works with: its own values, those of the handler it runs and
\* those it was given, but for the one that FETCH has not referenced yet.
InHand(t) ==
    mine[t] \cup {call[t].old} \cup (IF call[t].at = "reference" THEN {} ELSE {call[t].val})

\* No value is destroyed while it is in the cell or in the hands of a thread,
\* before FETCH comes late to it: a STORE that is overtaken by another, or by
\* DESTROYALL, returns a value that is still there.
ValuesAlive ==
    \A v \in Value \ late :
        v = cell \/ (\E t \in Thread : v \in InHand(t)) => status[v] = "live"

\* The lock around the cell is there "to avoid segfaults when multithreaded"
\* (smop_lowlevel.h:107-108): what FETCH returns has not been destroyed since
\* it was read from the cell.
FetchedAlive == late = {}

-----------------------------------------------------------------------------
(* The inductive invariant from which the properties follow *)

Storing == {"wrlock", "load", "put", "release old", "reference ret", "release capture"}
Destroying == {"destroy", "take", "clear", "release cell"}

\* The write lock is held exactly between wrlock and unlock, and what was read
\* under it is in the cell until it is written.
WriterInv ==
    \A t \in Thread :
        /\ writer = t <=> call[t].at \in {"load", "put", "take", "clear"}
        /\ call[t].at \in {"put", "clear"} => call[t].old = cell

\* What a call knows of: the value and nothing old, or something old.
CallInv ==
    \A t \in Thread :
        /\ call[t].at \in Storing => call[t].val # NoValue
        /\ call[t].at \in Destroying \cup {"none"} => call[t].val = NoValue
        /\ call[t].at \notin {"put", "release old", "clear", "release cell"}
              => call[t].old = NoValue

\* A thread that has left the scalar is out of every call, but for the last
\* one, which destroys it when nobody else is left.
UsersInv ==
    \A t \in Thread :
        /\ t \notin users => call[t].at \in Destroying \cup {"none"}
        /\ call[t].at \in Destroying => users = {}

\* What FETCH has read, it read from the cell: it has been born.
FetchInv ==
    \A t \in Thread : call[t].at = "reference" /\ call[t].val # NoValue =>
        status[call[t].val] # "unborn"

\* FETCH comes late only to a value that stays dead.
LateInv == \A v \in late : status[v] = "dead"

\* Nothing refers to a value that does not exist yet.
UnbornInv == \A v \in Value : status[v] = "unborn" => References(v) = 0

IInv == /\ TypeOK
        /\ WriterInv /\ CallInv /\ UsersInv /\ FetchInv /\ LateInv
        /\ UnbornInv /\ CountsExact
=============================================================================
