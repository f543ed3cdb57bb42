-------------------------- MODULE SmopScalarProofs --------------------------
(***************************************************************************)
(* STORE, FETCH and DESTROYALL of a shared SMOP scalar keep every value    *)
(* counted and alive, for any number of threads and values and whichever   *)
(* of them overlap, but for the values that a FETCH referenced when they   *)
(* were already gone.                                                      *)
(***************************************************************************)
EXTENDS SmopScalar, TLAPS, FiniteSetTheorems

-----------------------------------------------------------------------------
(* Counting the holders of a value *)

LEMMA RolesFinite == IsFiniteSet(Thread \X Roles)
<1>1. IsFiniteSet(Roles)
  <2>1. IsFiniteSet({"mine", "capture", "stored"}) /\ IsFiniteSet({"old", "result"})
    <3>1. IsFiniteSet({}) /\ {"mine"} = {} \cup {"mine"} /\ {"old"} = {} \cup {"old"}
      BY FS_EmptySet
    <3>2. IsFiniteSet({"mine"}) /\ IsFiniteSet({"old"})
      BY FS_Singleton
    <3>3. IsFiniteSet({"mine"} \cup {"capture"}) /\ IsFiniteSet({"old"} \cup {"result"})
      BY <3>2, FS_AddElement
    <3>4. IsFiniteSet(({"mine"} \cup {"capture"}) \cup {"stored"})
      BY <3>3, FS_AddElement
    <3>5. /\ ({"mine"} \cup {"capture"}) \cup {"stored"} = {"mine", "capture", "stored"}
          /\ {"old"} \cup {"result"} = {"old", "result"}
      OBVIOUS
    <3> QED BY <3>3, <3>4, <3>5
  <2>2. Roles = {"mine", "capture", "stored"} \cup {"old", "result"}
    BY DEF Roles
  <2> QED BY <2>1, <2>2, FS_Union
<1> QED BY <1>1, FS_Product, ScalarAssumption

LEMMA HoldersFinite ==
    ASSUME NEW v
    PROVE  IsFiniteSet(Holders(v)) /\ Cardinality(Holders(v)) \in Nat
BY RolesFinite, FS_Subset, FS_CardinalityType DEF Holders

\* A step of thread t: what the others hold stays as it is.
OthersKeep(t) ==
    \A u \in Thread \ {t} : call'[u] = call[u] /\ mine'[u] = mine[u]

LEMMA OthersRefer ==
    ASSUME NEW t \in Thread, OthersKeep(t), NEW v
    PROVE  \A u \in Thread \ {t}, r \in Roles : Refers(u, r, v)' <=> Refers(u, r, v)
<1> SUFFICES ASSUME NEW u \in Thread \ {t}, NEW r \in Roles
             PROVE  Refers(u, r, v)' <=> Refers(u, r, v)
  OBVIOUS
<1>1. call'[u] = call[u] /\ mine'[u] = mine[u]
  BY DEF OthersKeep
<1> QED BY <1>1 DEF Refers

LEMMA SameHolders ==
    ASSUME NEW t \in Thread, OthersKeep(t), NEW v,
           \A r \in Roles : Refers(t, r, v)' <=> Refers(t, r, v)
    PROVE  Holders(v)' = Holders(v)
BY OthersRefer DEF Holders

LEMMA GainOne ==
    ASSUME NEW t \in Thread, OthersKeep(t), NEW v,
           NEW role \in Roles, ~Refers(t, role, v), Refers(t, role, v)',
           \A r \in Roles \ {role} : Refers(t, r, v)' <=> Refers(t, r, v)
    PROVE  Cardinality(Holders(v)') = Cardinality(Holders(v)) + 1
<1>1. Holders(v)' = Holders(v) \cup {<<t, role>>}
  BY OthersRefer DEF Holders
<1>2. <<t, role>> \notin Holders(v)
  BY DEF Holders
<1> QED BY <1>1, <1>2, HoldersFinite, FS_AddElement

LEMMA LoseOne ==
    ASSUME NEW t \in Thread, OthersKeep(t), NEW v,
           NEW role \in Roles, Refers(t, role, v), ~Refers(t, role, v)',
           \A r \in Roles \ {role} : Refers(t, r, v)' <=> Refers(t, r, v)
    PROVE  /\ Cardinality(Holders(v)') = Cardinality(Holders(v)) - 1
           /\ Cardinality(Holders(v)) > 0
<1>1. Holders(v)' = Holders(v) \ {<<t, role>>}
  BY OthersRefer DEF Holders
<1>2. <<t, role>> \in Holders(v)
  BY DEF Holders
<1>3. Cardinality(Holders(v) \ {<<t, role>>}) = Cardinality(Holders(v)) - 1
  BY <1>2, HoldersFinite, FS_RemoveElement
<1>4. Cardinality(Holders(v)) # 0
  BY <1>2, HoldersFinite, FS_EmptySet
<1> QED BY <1>1, <1>3, <1>4, HoldersFinite

LEMMA MoveOne ==
    ASSUME NEW t \in Thread, OthersKeep(t), NEW v,
           NEW from \in Roles, Refers(t, from, v), ~Refers(t, from, v)',
           NEW to \in Roles, ~Refers(t, to, v), Refers(t, to, v)',
           \A r \in Roles \ {from, to} : Refers(t, r, v)' <=> Refers(t, r, v)
    PROVE  Cardinality(Holders(v)') = Cardinality(Holders(v))
<1> DEFINE Left == Holders(v) \ {<<t, from>>}
<1>1. Holders(v)' = Left \cup {<<t, to>>}
  BY OthersRefer DEF Holders
<1>2. <<t, from>> \in Holders(v) /\ <<t, to>> \notin Left
  BY DEF Holders
<1>3. IsFiniteSet(Left) /\ Cardinality(Left) = Cardinality(Holders(v)) - 1
  BY <1>2, HoldersFinite, FS_RemoveElement
<1>4. Cardinality(Left \cup {<<t, to>>}) = Cardinality(Left) + 1
  BY <1>2, <1>3, FS_AddElement
<1> QED BY <1>1, <1>3, <1>4, HoldersFinite

LEMMA GainTwo ==
    ASSUME NEW t \in Thread, OthersKeep(t), NEW v,
           NEW one \in Roles, ~Refers(t, one, v), Refers(t, one, v)',
           NEW two \in Roles, ~Refers(t, two, v), Refers(t, two, v)', one # two,
           \A r \in Roles \ {one, two} : Refers(t, r, v)' <=> Refers(t, r, v)
    PROVE  Cardinality(Holders(v)') = Cardinality(Holders(v)) + 2
<1> DEFINE More == Holders(v) \cup {<<t, one>>}
<1>1. Holders(v)' = More \cup {<<t, two>>}
  BY OthersRefer DEF Holders
<1>2. <<t, one>> \notin Holders(v) /\ <<t, two>> \notin More
  BY DEF Holders
<1>3. IsFiniteSet(More) /\ Cardinality(More) = Cardinality(Holders(v)) + 1
  BY <1>2, HoldersFinite, FS_AddElement
<1>4. Cardinality(More \cup {<<t, two>>}) = Cardinality(More) + 1
  BY <1>2, <1>3, FS_AddElement
<1> QED BY <1>1, <1>3, <1>4, HoldersFinite

LEMMA ReferencesType ==
    ASSUME NEW v
    PROVE  References(v) \in Nat
BY HoldersFinite DEF References

\* A value that something refers to is alive, unless FETCH came late to it.
LEMMA ReferredLives ==
    ASSUME IInv, NEW v \in Value,
           cell = v \/ \E t \in Thread, role \in Roles : Refers(t, role, v)
    PROVE  /\ status[v] # "unborn" /\ References(v) > 0 /\ refCnt[v] = References(v)
           /\ v \in late \/ status[v] = "live"
<1>1. References(v) > 0
  <2>1. CASE cell = v
    BY <2>1, HoldersFinite DEF References
  <2>2. CASE \E t \in Thread, role \in Roles : Refers(t, role, v)
    <3>1. PICK t \in Thread, role \in Roles : Refers(t, role, v)
      BY <2>2
    <3>2. <<t, role>> \in Holders(v)
      BY <3>1 DEF Holders
    <3>3. Cardinality(Holders(v)) # 0
      BY <3>2, HoldersFinite, FS_EmptySet
    <3> QED BY <3>3, HoldersFinite DEF References
  <2> QED BY <2>1, <2>2
<1>2. status[v] # "unborn"
  BY <1>1 DEF IInv, UnbornInv
<1> QED BY <1>1, <1>2 DEF IInv, CountsExact

-----------------------------------------------------------------------------
(* What a step may do to the references of one value *)

Counted(v) ==
    /\ refCnt[v] \in Nat /\ status[v] \in {"unborn", "live", "dead"}
    /\ status[v] = "unborn" => References(v) = 0
    /\ status[v] # "unborn" =>
          /\ refCnt[v] = References(v)
          /\ v \in late \/ (status[v] = "live" <=> References(v) > 0)
    /\ v \in late => status[v] = "dead"

LEMMA CountedSame ==
    ASSUME NEW v \in Value, Counted(v), refCnt'[v] = refCnt[v], status'[v] = status[v],
           v \in late' <=> v \in late, References(v)' = References(v)
    PROVE  Counted(v)'
BY DEF Counted

LEMMA CountedUp ==
    ASSUME NEW v \in Value, Counted(v), NEW n \in Nat,
           \/ status[v] = "live" /\ v \notin late'
           \/ status[v] = "dead" /\ v \in late',
           refCnt'[v] = refCnt[v] + n, status'[v] = status[v],
           References(v)' = References(v) + n
    PROVE  Counted(v)'
<1>1. References(v) \in Nat
  BY ReferencesType
<1> QED BY <1>1 DEF Counted

LEMMA CountedDown ==
    ASSUME NEW v \in Value, Counted(v), References(v) > 0, v \in late' <=> v \in late,
           refCnt'[v] = refCnt[v] - 1,
           status'[v] = IF refCnt[v] <= 1 THEN "dead" ELSE status[v],
           References(v)' = References(v) - 1
    PROVE  Counted(v)'
<1>1. References(v) \in Nat
  BY ReferencesType
<1>2. /\ status[v] # "unborn" /\ refCnt[v] = References(v)
      /\ IF v \in late THEN status[v] = "dead" ELSE status[v] = "live"
  BY <1>1 DEF Counted
<1>3. CASE refCnt[v] <= 1
  BY <1>1, <1>2, <1>3 DEF Counted
<1>4. CASE ~(refCnt[v] <= 1)
  BY <1>1, <1>2, <1>4 DEF Counted
<1> QED BY <1>3, <1>4

-----------------------------------------------------------------------------
(* What a step does to a call *)

FlowType == /\ cell \in Value \cup {NoValue}
            /\ writer \in Thread \cup {NoThread}
            /\ users \subseteq Thread
            /\ mine \in [Thread -> SUBSET Value]
            /\ call \in [Thread -> [at : Steps, val : Value \cup {NoValue},
                                    old : Value \cup {NoValue}]]

Flow == FlowType /\ WriterInv /\ CallInv /\ UsersInv

\* Thread t's call is now at step "at", with these two values in hand.
Becomes(t, at, val, old) ==
    /\ call' \in [Thread -> [at : Steps, val : Value \cup {NoValue},
                             old : Value \cup {NoValue}]]
    /\ call'[t].at = at /\ call'[t].val = val /\ call'[t].old = old
    /\ \A u \in Thread \ {t} : call'[u] = call[u]

LEMMA CallType ==
    ASSUME TypeOK, NEW t \in Thread
    PROVE  /\ call[t].at \in Steps /\ call[t].val \in Value \cup {NoValue}
           /\ call[t].old \in Value \cup {NoValue}
           /\ call[t] = NoCall <=> /\ call[t].at = "none" /\ call[t].val = NoValue
                                   /\ call[t].old = NoValue
<1>1. call[t] \in [at : Steps, val : Value \cup {NoValue}, old : Value \cup {NoValue}]
  BY DEF TypeOK
<1>2. call[t] = [at |-> call[t].at, val |-> call[t].val, old |-> call[t].old]
  BY <1>1
<1> QED BY <1>1, <1>2 DEF NoCall, At

LEMMA BecomesAt ==
    ASSUME TypeOK, NEW t \in Thread, NEW at \in Steps, NEW val \in Value \cup {NoValue},
           NEW old \in Value \cup {NoValue},
           call' = [call EXCEPT ![t] = At(at, val, old)]
    PROVE  Becomes(t, at, val, old)
BY DEF TypeOK, Becomes, At

LEMMA BecomesNone ==
    ASSUME TypeOK, NEW t \in Thread, call' = [call EXCEPT ![t] = NoCall]
    PROVE  Becomes(t, "none", NoValue, NoValue)
BY BecomesAt DEF NoCall, Steps

LEMMA BecomesGoes ==
    ASSUME TypeOK, NEW t \in Thread, NEW at \in Steps, Goes(t, at)
    PROVE  Becomes(t, at, call[t].val, call[t].old)
BY DEF TypeOK, Becomes, Goes

LEMMA BecomesOld ==
    ASSUME TypeOK, NEW t \in Thread, NEW at \in Steps, NEW old \in Value \cup {NoValue},
           call' = [call EXCEPT ![t].at = at, ![t].old = old]
    PROVE  Becomes(t, at, call[t].val, old)
BY DEF TypeOK, Becomes

\* The control invariants after a step that moves the call of t and nothing else.
LEMMA FreeFacts ==
    ASSUME IInv, NEW t \in Thread, Free(t)
    PROVE  /\ t \in users /\ call[t].at = "none" /\ call[t].val = NoValue
           /\ call[t].old = NoValue /\ writer # t
           /\ \A u \in Thread : call[u].at \notin Destroying
BY CallType DEF IInv, Free, WriterInv, UsersInv, Destroying

LEMMA FetchReferenceFlow ==
    ASSUME IInv, NEW t \in Thread, FetchReference(t)
    PROVE  Flow' /\ Becomes(t, "returned", call[t].val, call[t].old)
<1>1. Becomes(t, "returned", call[t].val, call[t].old)
  BY BecomesGoes DEF IInv, TypeOK, FetchReference, Steps
<1>2. FlowType'
  BY <1>1, CallType DEF IInv, TypeOK, FetchReference, FlowType, Becomes
<1>3. WriterInv'
  BY <1>1 DEF IInv, FetchReference, WriterInv, UsersInv, Becomes, Destroying
<1>4. CallInv' /\ UsersInv'
  <2>1. call[t].at = "reference"
    BY DEF IInv, FetchReference, CallInv, Storing
  <2>2. CallInv'
    BY <1>1, <2>1 DEF IInv, CallInv, Becomes, Storing, Destroying
  <2>3. UsersInv'
    BY <1>1, <2>1 DEF IInv, FetchReference, UsersInv, Becomes, Destroying
  <2> QED BY <2>2, <2>3
<1> QED BY <1>1, <1>2, <1>3, <1>4 DEF Flow

LEMMA PutFlow ==
    ASSUME IInv, NEW t \in Thread, Put(t)
    PROVE  Flow' /\ Becomes(t, "release old", call[t].val, call[t].old)
<1>1. Becomes(t, "release old", call[t].val, call[t].old)
  BY BecomesGoes DEF IInv, TypeOK, Put, Steps
<1>2. FlowType'
  BY <1>1, CallType DEF IInv, TypeOK, Put, FlowType, Becomes
<1>3. WriterInv'
  <2>1. call[t].at = "put" /\ writer = t /\ writer' = NoThread /\ users' = users
    BY DEF IInv, Put, WriterInv
  <2>2. WriterInv'
    BY <1>1, <2>1, ScalarAssumption DEF IInv, WriterInv, Becomes
  <2> QED BY <2>2
<1>4. CallInv' /\ UsersInv'
  <2>1. call[t].at = "put" /\ call[t].val # NoValue
    BY DEF IInv, Put, CallInv, Storing
  <2>2. CallInv'
    BY <1>1, <2>1 DEF IInv, CallInv, Becomes, Storing, Destroying
  <2>3. UsersInv'
    BY <1>1, <2>1 DEF IInv, Put, UsersInv, Becomes, Destroying
  <2> QED BY <2>2, <2>3
<1> QED BY <1>1, <1>2, <1>3, <1>4 DEF Flow

LEMMA LoadFlow ==
    ASSUME IInv, NEW t \in Thread, Load(t)
    PROVE  Flow' /\ Becomes(t, "put", call[t].val, cell)
<1>1. Becomes(t, "put", call[t].val, cell)
  BY BecomesOld DEF IInv, TypeOK, Load, Steps
<1>2. FlowType'
  BY <1>1, CallType DEF IInv, TypeOK, Load, FlowType, Becomes
<1>3. WriterInv'
  BY <1>1 DEF IInv, Load, WriterInv, UsersInv, Becomes, Destroying
<1>4. CallInv' /\ UsersInv'
  <2>1. call[t].at = "load" /\ call[t].val # NoValue
    BY DEF IInv, Load, CallInv, Storing
  <2>2. CallInv'
    BY <1>1, <2>1 DEF IInv, CallInv, Becomes, Storing, Destroying
  <2>3. UsersInv'
    BY <1>1, <2>1 DEF IInv, Load, UsersInv, Becomes, Destroying
  <2> QED BY <2>2, <2>3
<1> QED BY <1>1, <1>2, <1>3, <1>4 DEF Flow

LEMMA ReleaseOldFlow ==
    ASSUME IInv, NEW t \in Thread, ReleaseOld(t)
    PROVE  Flow' /\ Becomes(t, "reference ret", call[t].val, NoValue)
<1>1. Becomes(t, "reference ret", call[t].val, NoValue)
  BY BecomesOld DEF IInv, TypeOK, ReleaseOld, Steps
<1>2. FlowType'
  BY <1>1, CallType DEF IInv, TypeOK, ReleaseOld, FlowType, Becomes
<1>3. WriterInv'
  BY <1>1 DEF IInv, ReleaseOld, WriterInv, UsersInv, Becomes, Destroying
<1>4. CallInv' /\ UsersInv'
  <2>1. call[t].at = "release old" /\ call[t].val # NoValue
    BY DEF IInv, ReleaseOld, CallInv, Storing
  <2>2. CallInv'
    BY <1>1, <2>1 DEF IInv, CallInv, Becomes, Storing, Destroying
  <2>3. UsersInv'
    BY <1>1, <2>1 DEF IInv, ReleaseOld, UsersInv, Becomes, Destroying
  <2> QED BY <2>2, <2>3
<1> QED BY <1>1, <1>2, <1>3, <1>4 DEF Flow

LEMMA ReferenceRetFlow ==
    ASSUME IInv, NEW t \in Thread, ReferenceRet(t)
    PROVE  Flow' /\ Becomes(t, "release capture", call[t].val, call[t].old)
<1>1. Becomes(t, "release capture", call[t].val, call[t].old)
  BY BecomesGoes DEF IInv, TypeOK, ReferenceRet, Steps
<1>2. FlowType'
  BY <1>1, CallType DEF IInv, TypeOK, ReferenceRet, FlowType, Becomes
<1>3. WriterInv'
  <2>1. WriterInv'
    BY <1>1 DEF IInv, ReferenceRet, WriterInv, UsersInv, Becomes, Destroying
  <2> QED BY <2>1
<1>4. CallInv' /\ UsersInv'
  <2>1. call[t].at = "reference ret" /\ call[t].val # NoValue
    BY DEF IInv, ReferenceRet, CallInv, Storing
  <2>2. CallInv'
    BY <1>1, <2>1 DEF IInv, CallInv, Becomes, Storing, Destroying
  <2>3. UsersInv'
    BY <1>1, <2>1 DEF IInv, ReferenceRet, UsersInv, Becomes, Destroying
  <2> QED BY <2>2, <2>3
<1> QED BY <1>1, <1>2, <1>3, <1>4 DEF Flow

LEMMA ReleaseCaptureFlow ==
    ASSUME IInv, NEW t \in Thread, ReleaseCapture(t)
    PROVE  Flow' /\ Becomes(t, "returned", call[t].val, call[t].old)
<1>1. Becomes(t, "returned", call[t].val, call[t].old)
  BY BecomesGoes DEF IInv, TypeOK, ReleaseCapture, Steps
<1>2. FlowType'
  BY <1>1, CallType DEF IInv, TypeOK, ReleaseCapture, FlowType, Becomes
<1>3. WriterInv'
  <2>1. WriterInv'
    BY <1>1 DEF IInv, ReleaseCapture, WriterInv, UsersInv, Becomes, Destroying
  <2> QED BY <2>1
<1>4. CallInv' /\ UsersInv'
  <2>1. call[t].at = "release capture" /\ call[t].val # NoValue
    BY DEF IInv, ReleaseCapture, CallInv, Storing
  <2>2. CallInv'
    BY <1>1, <2>1 DEF IInv, CallInv, Becomes, Storing, Destroying
  <2>3. UsersInv'
    BY <1>1, <2>1 DEF IInv, ReleaseCapture, UsersInv, Becomes, Destroying
  <2> QED BY <2>2, <2>3
<1> QED BY <1>1, <1>2, <1>3, <1>4 DEF Flow

LEMMA ReturnedFlow ==
    ASSUME IInv, NEW t \in Thread, Returned(t)
    PROVE  Flow' /\ Becomes(t, "none", NoValue, NoValue)
<1>1. Becomes(t, "none", NoValue, NoValue)
  BY BecomesNone DEF IInv, TypeOK, Returned, Steps
<1>2. FlowType'
  BY <1>1, CallType DEF IInv, TypeOK, Returned, FlowType, Becomes
<1>3. WriterInv'
  BY <1>1 DEF IInv, Returned, WriterInv, UsersInv, Becomes, Destroying
<1>4. CallInv' /\ UsersInv'
  BY <1>1, CallType DEF IInv, Returned, CallInv, UsersInv, Becomes, Destroying, Storing
<1> QED BY <1>1, <1>2, <1>3, <1>4 DEF Flow

LEMMA TakeFlow ==
    ASSUME IInv, NEW t \in Thread, Take(t)
    PROVE  Flow' /\ Becomes(t, "clear", call[t].val, cell)
<1>1. Becomes(t, "clear", call[t].val, cell)
  BY BecomesOld DEF IInv, TypeOK, Take, Steps
<1>2. FlowType'
  BY <1>1, CallType DEF IInv, TypeOK, Take, FlowType, Becomes
<1>3. WriterInv'
  BY <1>1 DEF IInv, Take, WriterInv, UsersInv, Becomes, Destroying
<1>4. CallInv' /\ UsersInv'
  BY <1>1, CallType DEF IInv, Take, CallInv, UsersInv, Becomes, Destroying, Storing
<1> QED BY <1>1, <1>2, <1>3, <1>4 DEF Flow

LEMMA ClearFlow ==
    ASSUME IInv, NEW t \in Thread, Clear(t)
    PROVE  Flow' /\ Becomes(t, "release cell", call[t].val, call[t].old)
<1>1. Becomes(t, "release cell", call[t].val, call[t].old)
  BY BecomesGoes DEF IInv, TypeOK, Clear, Steps
<1>2. FlowType'
  BY <1>1, CallType DEF IInv, TypeOK, Clear, FlowType, Becomes
<1>3. WriterInv'
  BY <1>1, ScalarAssumption DEF IInv, Clear, WriterInv, UsersInv, Becomes, Destroying
<1>4. CallInv' /\ UsersInv'
  BY <1>1, CallType DEF IInv, Clear, CallInv, UsersInv, Becomes, Destroying, Storing
<1> QED BY <1>1, <1>2, <1>3, <1>4 DEF Flow

LEMMA ReleaseCellFlow ==
    ASSUME IInv, NEW t \in Thread, ReleaseCell(t)
    PROVE  Flow' /\ Becomes(t, "none", NoValue, NoValue)
<1>1. Becomes(t, "none", NoValue, NoValue)
  BY BecomesNone DEF IInv, TypeOK, ReleaseCell, Steps
<1>2. FlowType'
  BY <1>1, CallType DEF IInv, TypeOK, ReleaseCell, FlowType, Becomes
<1>3. WriterInv'
  BY <1>1 DEF IInv, ReleaseCell, WriterInv, UsersInv, Becomes, Destroying
<1>4. CallInv' /\ UsersInv'
  BY <1>1, CallType DEF IInv, ReleaseCell, CallInv, UsersInv, Becomes, Destroying, Storing
<1> QED BY <1>1, <1>2, <1>3, <1>4 DEF Flow

LEMMA WrLockFlow ==
    ASSUME IInv, NEW t \in Thread, WrLock(t)
    PROVE  /\ Flow'
           /\ Becomes(t, IF call[t].at = "wrlock" THEN "load" ELSE "take",
                      call[t].val, call[t].old)
<1> DEFINE at == IF call[t].at = "wrlock" THEN "load" ELSE "take"
<1>1. Becomes(t, at, call[t].val, call[t].old)
  <2>1. at \in Steps
    BY DEF Steps
  <2> QED BY <2>1, BecomesGoes DEF IInv, WrLock
<1>2. FlowType'
  BY <1>1, CallType DEF IInv, TypeOK, WrLock, FlowType, Becomes
<1>3. WriterInv'
  BY <1>1, ScalarAssumption DEF IInv, WrLock, WriterInv, Becomes
<1>4. CallInv'
  BY <1>1 DEF IInv, WrLock, CallInv, Becomes, Destroying, Storing
<1>5. UsersInv'
  BY <1>1 DEF IInv, WrLock, UsersInv, Becomes, Destroying
<1> QED BY <1>1, <1>2, <1>3, <1>4, <1>5 DEF Flow

LEMMA FetchFlow ==
    ASSUME IInv, NEW t \in Thread, Fetch(t)
    PROVE  Flow' /\ Becomes(t, "reference", cell, NoValue)
<1>1. Becomes(t, "reference", cell, NoValue)
  BY BecomesAt DEF IInv, TypeOK, Fetch, Steps
<1>2. FlowType'
  BY <1>1 DEF IInv, TypeOK, Fetch, FlowType, Becomes
<1>3. WriterInv'
  BY <1>1, FreeFacts DEF IInv, Fetch, WriterInv, Becomes
<1>4. CallInv'
  BY <1>1 DEF IInv, Fetch, CallInv, Becomes, Destroying, Storing
<1>5. UsersInv'
  BY <1>1, FreeFacts DEF IInv, Fetch, UsersInv, Becomes, Destroying
<1> QED BY <1>1, <1>2, <1>3, <1>4, <1>5 DEF Flow

LEMMA StoreFlow ==
    ASSUME IInv, NEW t \in Thread, NEW v \in Value, Store(t, v)
    PROVE  Flow' /\ Becomes(t, "wrlock", v, NoValue)
<1>1. Becomes(t, "wrlock", v, NoValue)
  BY BecomesAt DEF IInv, TypeOK, Store, Steps
<1>2. FlowType'
  BY <1>1 DEF IInv, TypeOK, Store, FlowType, Becomes
<1>3. WriterInv'
  BY <1>1, FreeFacts DEF IInv, Store, WriterInv, Becomes
<1>4. CallInv'
  BY <1>1, ScalarAssumption DEF IInv, Store, CallInv, Becomes, Destroying, Storing
<1>5. UsersInv'
  BY <1>1, FreeFacts DEF IInv, Store, UsersInv, Becomes, Destroying
<1> QED BY <1>1, <1>2, <1>3, <1>4, <1>5 DEF Flow

LEMMA MineFlow ==
    ASSUME IInv, UNCHANGED <<cell, writer, users, call>>,
           mine' \in [Thread -> SUBSET Value]
    PROVE  Flow'
BY DEF IInv, TypeOK, Flow, FlowType, WriterInv, CallInv, UsersInv

LEMMA LeaveFlow ==
    ASSUME IInv, NEW t \in Thread, Leave(t)
    PROVE  /\ Flow'
           /\ call'[t].at \in {"none", "destroy"}
           /\ call'[t].val = NoValue /\ call'[t].old = NoValue
           /\ \A u \in Thread \ {t} : call'[u] = call[u]
<1>1. \/ /\ users = {t} /\ Becomes(t, "destroy", NoValue, NoValue)
      \/ /\ users # {t} /\ call' = call
  BY BecomesAt DEF IInv, Leave, Steps
<1>2. /\ call' \in [Thread -> [at : Steps, val : Value \cup {NoValue},
                               old : Value \cup {NoValue}]]
      /\ call'[t].at \in {"none", "destroy"}
      /\ call'[t].val = NoValue /\ call'[t].old = NoValue
      /\ \A u \in Thread \ {t} : call'[u] = call[u]
  BY <1>1, FreeFacts DEF IInv, TypeOK, Leave, Becomes
<1>3. FlowType'
  BY <1>2 DEF IInv, TypeOK, Leave, FlowType
<1>4. WriterInv' /\ CallInv'
  BY <1>2, FreeFacts DEF IInv, Leave, WriterInv, CallInv, Storing
<1>5. UsersInv'
  <2>1. call'[t].at = "destroy" => users' = {}
    BY <1>1, FreeFacts DEF Leave, Becomes
  <2>2. \A u \in Thread \ {t} : call'[u].at \notin Destroying
    BY <1>2, FreeFacts DEF Leave
  <2>3. \A u \in Thread : u \notin users' => u = t \/ u \notin users
    BY DEF Leave
  <2> QED BY <1>2, <2>1, <2>2, <2>3 DEF IInv, UsersInv, Destroying
<1> QED BY <1>2, <1>3, <1>4, <1>5 DEF Flow

-----------------------------------------------------------------------------
(* What a step does to the references *)

Counting == /\ refCnt \in [Value -> Int]
            /\ status \in [Value -> {"unborn", "live", "dead"}]
            /\ late \subseteq Value
            /\ \A v \in Value : Counted(v)

\* The invariant but for what FETCH has read, which UnfetchedStep adds.
Core == /\ TypeOK /\ WriterInv /\ CallInv /\ UsersInv
        /\ LateInv /\ UnbornInv /\ CountsExact

LEMMA Assembled ==
    ASSUME Flow', Counting'
    PROVE  Core'
<1>1. refCnt' \in [Value -> Nat]
  BY DEF Counting, Counted
<1>2. TypeOK'
  BY <1>1 DEF Flow, FlowType, Counting, TypeOK
<1>3. UnbornInv' /\ CountsExact' /\ LateInv'
  BY DEF Counting, Counted, UnbornInv, CountsExact, LateInv
<1> QED BY <1>2, <1>3 DEF Flow, Core

LEMMA CountedBefore ==
    ASSUME IInv
    PROVE  Counting
BY DEF IInv, TypeOK, UnbornInv, CountsExact, LateInv, Counting, Counted

\* The reference counts of SMOP_REFERENCE and SMOP_RELEASE.
LEMMA IncFacts ==
    ASSUME IInv, NEW v \in Value, NEW n \in Nat, Inc(v, n)
    PROVE  /\ refCnt' \in [Value -> Int] /\ status' = status
           /\ refCnt'[v] = refCnt[v] + n
           /\ \A w \in Value \ {v} : refCnt'[w] = refCnt[w]
BY DEF IInv, TypeOK, Inc

LEMMA DecFacts ==
    ASSUME IInv, NEW v \in Value \cup {NoValue}, Dec(v)
    PROVE  /\ refCnt' \in [Value -> Int]
           /\ status' \in [Value -> {"unborn", "live", "dead"}]
           /\ \A w \in Value \ {v} : refCnt'[w] = refCnt[w] /\ status'[w] = status[w]
           /\ v # NoValue => /\ refCnt'[v] = refCnt[v] - 1
                             /\ status'[v] = IF refCnt[v] <= 1 THEN "dead" ELSE status[v]
<1>1. refCnt \in [Value -> Nat] /\ status \in [Value -> {"unborn", "live", "dead"}]
  BY DEF IInv, TypeOK
<1>2. CASE v = NoValue
  BY <1>1, <1>2, ScalarAssumption DEF Dec
<1>3. CASE v # NoValue
  <2>1. v \in Value /\ refCnt' = [refCnt EXCEPT ![v] = refCnt[v] - 1]
    BY <1>3 DEF Dec
  <2>2. status' = IF refCnt[v] <= 1 THEN [status EXCEPT ![v] = "dead"] ELSE status
    BY <1>3 DEF Dec
  <2>3. refCnt' \in [Value -> Int] /\ refCnt'[v] = refCnt[v] - 1
        /\ \A w \in Value \ {v} : refCnt'[w] = refCnt[w]
    BY <1>1, <2>1
  <2>4. /\ status' \in [Value -> {"unborn", "live", "dead"}]
        /\ status'[v] = IF refCnt[v] <= 1 THEN "dead" ELSE status[v]
        /\ \A w \in Value \ {v} : status'[w] = status[w]
    BY <1>1, <2>1, <2>2
  <2> QED BY <2>3, <2>4
<1> QED BY <1>2, <1>3

\* A step that changes neither the cell nor anybody's references.
LEMMA StillCounted ==
    ASSUME IInv, UNCHANGED <<cell, refCnt, status, late>>,
           \A v \in Value : Holders(v)' = Holders(v)
    PROVE  Counting'
<1>1. \A v \in Value : References(v)' = References(v)
  BY DEF References
<1> QED BY <1>1, CountedBefore, CountedSame DEF Counting

\* One value is referenced n times more.
LEMMA UpCounted ==
    ASSUME IInv, UNCHANGED <<cell, late>>, NEW v \in Value, NEW n \in Nat, Inc(v, n),
           status[v] # "unborn", v \in late \/ status[v] = "live",
           Cardinality(Holders(v)') = Cardinality(Holders(v)) + n,
           \A w \in Value \ {v} : Holders(w)' = Holders(w)
    PROVE  Counting'
<1>1. References(v)' = References(v) + n
  BY HoldersFinite DEF References
<1>2. \A w \in Value \ {v} : References(w)' = References(w)
  BY DEF References
<1>5. \/ status[v] = "live" /\ v \notin late'
      \/ status[v] = "dead" /\ v \in late'
  BY CountedBefore DEF Counting, Counted
<1>3. Counted(v)'
  BY <1>1, <1>5, IncFacts, CountedBefore, CountedUp DEF Counting
<1>4. \A w \in Value \ {v} : Counted(w)'
  BY <1>2, IncFacts, CountedBefore, CountedSame DEF Counting
<1> QED BY <1>3, <1>4, IncFacts, CountedBefore DEF Counting

\* One value is released by somebody who had a reference to it.
LEMMA DownCounted ==
    ASSUME IInv, UNCHANGED <<cell, late>>, NEW v \in Value, Dec(v),
           Cardinality(Holders(v)') = Cardinality(Holders(v)) - 1,
           Cardinality(Holders(v)) > 0,
           \A w \in Value \ {v} : Holders(w)' = Holders(w)
    PROVE  Counting'
<1>1. References(v)' = References(v) - 1 /\ References(v) > 0
  BY HoldersFinite DEF References
<1>2. \A w \in Value \ {v} : References(w)' = References(w)
  BY DEF References
<1>3. v # NoValue
  BY ScalarAssumption
<1>4. Counted(v)'
  BY <1>1, <1>3, DecFacts, CountedBefore, CountedDown DEF Counting
<1>5. \A w \in Value \ {v} : Counted(w)'
  BY <1>2, DecFacts, CountedBefore, CountedSame DEF Counting
<1> QED BY <1>4, <1>5, DecFacts, CountedBefore DEF Counting

-----------------------------------------------------------------------------
(* The program between two messages *)

LEMMA NewStep ==
    ASSUME IInv, NEW t \in Thread, NEW v \in Value, New(t, v)
    PROVE  Core'
<1>1. /\ status[v] = "unborn" /\ mine' = [mine EXCEPT ![t] = @ \cup {v}]
      /\ refCnt' = [refCnt EXCEPT ![v] = 1] /\ status' = [status EXCEPT ![v] = "live"]
      /\ UNCHANGED <<cell, writer, users, call, late>>
  BY DEF New
<1>2. /\ mine' \in [Thread -> SUBSET Value] /\ mine'[t] = mine[t] \cup {v}
      /\ \A u \in Thread \ {t} : mine'[u] = mine[u]
      /\ refCnt' \in [Value -> Int] /\ status' \in [Value -> {"unborn", "live", "dead"}]
      /\ refCnt'[v] = 1 /\ status'[v] = "live"
      /\ \A w \in Value \ {v} : refCnt'[w] = refCnt[w] /\ status'[w] = status[w]
  BY <1>1 DEF IInv, TypeOK
<1>10. OthersKeep(t)
  BY <1>1, <1>2 DEF OthersKeep
<1>3. Flow'
  BY <1>1, <1>2, MineFlow
<1>4. ~Refers(t, "mine", v) /\ "mine" \in Roles
  BY <1>1, ReferredLives DEF Roles
<1>5. Cardinality(Holders(v)') = Cardinality(Holders(v)) + 1
  <2>1. /\ Refers(t, "mine", v)'
        /\ \A r \in Roles \ {"mine"} : Refers(t, r, v)' <=> Refers(t, r, v)
    BY <1>1, <1>2 DEF Refers
  <2> QED BY <1>4, <1>10, <2>1, GainOne
<1>6. \A w \in Value \ {v} : Holders(w)' = Holders(w)
  <2> SUFFICES ASSUME NEW w \in Value \ {v} PROVE Holders(w)' = Holders(w)
    OBVIOUS
  <2>1. \A r \in Roles : Refers(t, r, w)' <=> Refers(t, r, w)
    BY <1>1, <1>2 DEF Refers
  <2> QED BY <1>10, <2>1, SameHolders
<1>7. References(v) = 0 /\ References(v)' = 1
  <2>1. References(v) = 0
    BY <1>1 DEF IInv, UnbornInv
  <2> QED BY <1>1, <1>5, <2>1, HoldersFinite DEF References
<1>8. Counted(v)'
  <2>1. v \notin late'
    BY <1>1 DEF IInv, LateInv
  <2> QED BY <1>2, <1>7, <2>1 DEF Counted
<1>9. \A w \in Value \ {v} : Counted(w)'
  <2>1. \A w \in Value \ {v} : References(w)' = References(w)
    BY <1>1, <1>6 DEF References
  <2>2. late' = late
    BY <1>1
  <2> QED BY <1>2, <2>1, <2>2, CountedBefore, CountedSame DEF Counting
<1>11. Counting'
  BY <1>1, <1>2, <1>8, <1>9, CountedBefore DEF Counting
<1> QED BY <1>3, <1>11, Assembled

LEMMA ShareStep ==
    ASSUME IInv, NEW t \in Thread, NEW o \in Thread, NEW v \in Value, Share(t, o, v)
    PROVE  Core'
<1>1. /\ v \in mine[t] /\ v \notin mine[o] /\ mine' = [mine EXCEPT ![o] = @ \cup {v}]
      /\ Inc(v, 1) /\ UNCHANGED <<cell, writer, users, call, late>>
  BY DEF Share
<1>2. /\ mine' \in [Thread -> SUBSET Value] /\ mine'[o] = mine[o] \cup {v}
      /\ \A u \in Thread \ {o} : mine'[u] = mine[u]
  BY <1>1 DEF IInv, TypeOK
<1>10. OthersKeep(o)
  BY <1>1, <1>2 DEF OthersKeep
<1>3. Flow'
  BY <1>1, <1>2, MineFlow
<1>4. Cardinality(Holders(v)') = Cardinality(Holders(v)) + 1
  <2>1. ~Refers(o, "mine", v) /\ "mine" \in Roles
    BY <1>1 DEF Roles, Refers
  <2>2. /\ Refers(o, "mine", v)'
        /\ \A r \in Roles \ {"mine"} : Refers(o, r, v)' <=> Refers(o, r, v)
    BY <1>1, <1>2 DEF Refers
  <2> QED BY <1>10, <2>1, <2>2, GainOne
<1>5. \A w \in Value \ {v} : Holders(w)' = Holders(w)
  <2> SUFFICES ASSUME NEW w \in Value \ {v} PROVE Holders(w)' = Holders(w)
    OBVIOUS
  <2>1. \A r \in Roles : Refers(o, r, w)' <=> Refers(o, r, w)
    BY <1>1, <1>2 DEF Refers
  <2> QED BY <1>10, <2>1, SameHolders
<1>6. status[v] # "unborn" /\ (v \in late \/ status[v] = "live")
  <2>1. Refers(t, "mine", v) /\ "mine" \in Roles
    BY <1>1 DEF Refers, Roles
  <2> QED BY <2>1, ReferredLives
<1> QED BY <1>1, <1>3, <1>4, <1>5, <1>6, UpCounted, Assembled

LEMMA DropStep ==
    ASSUME IInv, NEW t \in Thread, NEW v \in Value, Drop(t, v)
    PROVE  Core'
<1>1. /\ v \in mine[t] /\ mine' = [mine EXCEPT ![t] = @ \ {v}]
      /\ Dec(v) /\ UNCHANGED <<cell, writer, users, call, late>>
  BY DEF Drop
<1>2. /\ mine' \in [Thread -> SUBSET Value] /\ mine'[t] = mine[t] \ {v}
      /\ \A u \in Thread \ {t} : mine'[u] = mine[u]
  BY <1>1 DEF IInv, TypeOK
<1>10. OthersKeep(t)
  BY <1>1, <1>2 DEF OthersKeep
<1>3. Flow'
  BY <1>1, <1>2, MineFlow
<1>4. /\ Cardinality(Holders(v)') = Cardinality(Holders(v)) - 1
      /\ Cardinality(Holders(v)) > 0
  <2>1. Refers(t, "mine", v) /\ "mine" \in Roles
    BY <1>1 DEF Roles, Refers
  <2>2. /\ ~Refers(t, "mine", v)'
        /\ \A r \in Roles \ {"mine"} : Refers(t, r, v)' <=> Refers(t, r, v)
    BY <1>1, <1>2 DEF Refers
  <2> QED BY <1>10, <2>1, <2>2, LoseOne
<1>5. \A w \in Value \ {v} : Holders(w)' = Holders(w)
  <2> SUFFICES ASSUME NEW w \in Value \ {v} PROVE Holders(w)' = Holders(w)
    OBVIOUS
  <2>1. \A r \in Roles : Refers(t, r, w)' <=> Refers(t, r, w)
    BY <1>1, <1>2 DEF Refers
  <2> QED BY <1>10, <2>1, SameHolders
<1> QED BY <1>1, <1>3, <1>4, <1>5, DownCounted, Assembled

LEMMA LeaveStep ==
    ASSUME IInv, NEW t \in Thread, Leave(t)
    PROVE  Core'
<1>1. UNCHANGED <<cell, mine, refCnt, status, late>>
  BY DEF Leave
<1>10. OthersKeep(t)
  BY <1>1, LeaveFlow DEF OthersKeep
<1>2. ASSUME NEW v \in Value PROVE Holders(v)' = Holders(v)
  <2>1. \A r \in Roles : Refers(t, r, v)' <=> Refers(t, r, v)
    <3>1. Free(t)
      BY DEF Leave
    <3> QED BY <1>1, <3>1, LeaveFlow, FreeFacts DEF Refers
  <2> QED BY <1>10, <2>1, SameHolders
<1> QED BY <1>1, <1>2, LeaveFlow, StillCounted, Assembled

-----------------------------------------------------------------------------
(* FETCH *)

LEMMA FetchStep ==
    ASSUME IInv, NEW t \in Thread, Fetch(t)
    PROVE  Core'
<1>1. /\ UNCHANGED <<cell, mine, refCnt, status, late>>
      /\ Free(t) /\ Becomes(t, "reference", cell, NoValue)
  BY FetchFlow DEF Fetch
<1>10. OthersKeep(t)
  BY <1>1 DEF OthersKeep, Becomes
<1>2. ASSUME NEW v \in Value PROVE Holders(v)' = Holders(v)
  <2>1. \A r \in Roles : Refers(t, r, v)' <=> Refers(t, r, v)
    BY <1>1, FreeFacts DEF Refers, Becomes
  <2> QED BY <1>10, <2>1, SameHolders
<1> QED BY <1>1, <1>2, FetchFlow, StillCounted, Assembled

\* The value is referenced; if it is gone already, it is late from now on.
LEMMA FetchReferenceStep ==
    ASSUME IInv, NEW t \in Thread, FetchReference(t)
    PROVE  Core'
<1>0. PICK val : val = call[t].val
  OBVIOUS
<1>1. /\ call[t].at = "reference" /\ UNCHANGED <<cell, mine>>
      /\ Becomes(t, "returned", val, call[t].old)
  BY <1>0, FetchReferenceFlow DEF FetchReference
<1>10. OthersKeep(t)
  BY <1>1 DEF OthersKeep, Becomes
<1>2. val \in Value \cup {NoValue}
  BY <1>0, CallType DEF IInv
<1>3. ASSUME NEW w \in Value \ {val} PROVE Holders(w)' = Holders(w)
  <2>1. \A r \in Roles : Refers(t, r, w)' <=> Refers(t, r, w)
    BY <1>0, <1>1 DEF Refers, Becomes
  <2> QED BY <1>10, <2>1, SameHolders
<1>11. late' = late \cup {v \in {val} \ {NoValue} : status[v] = "dead"}
  BY <1>0 DEF FetchReference
<1>4. CASE val = NoValue
  BY <1>11, <1>0, <1>1, <1>3, <1>4, ScalarAssumption, FetchReferenceFlow, StillCounted, Assembled
  DEF FetchReference
<1>5. CASE val # NoValue
  <2>1. val \in Value /\ Inc(val, 1)
    BY <1>0, <1>2, <1>5 DEF FetchReference
  <2>2. ~Refers(t, "result", val) /\ "result" \in Roles
    BY <1>0, <1>1 DEF Roles, Refers
  <2>3. /\ Refers(t, "result", val)'
        /\ \A r \in Roles \ {"result"} : Refers(t, r, val)' <=> Refers(t, r, val)
    BY <1>0, <1>1 DEF Refers, Becomes
  <2>4. Cardinality(Holders(val)') = Cardinality(Holders(val)) + 1
    BY <1>10, <2>2, <2>3, GainOne
  <2>5. status[val] # "unborn" /\ Counted(val) /\ References(val) \in Nat
    BY <1>0, <1>1, <2>1, <1>5, CountedBefore, ReferencesType DEF IInv, FetchInv, Counting
  <2>6. \/ status[val] = "live" /\ val \notin late'
        \/ status[val] = "dead" /\ val \in late'
    BY <1>11, <2>1, <2>5, <1>5 DEF Counted
  <2>7. References(val)' = References(val) + 1
    BY <1>1, <2>4, HoldersFinite DEF References
  <2>8. /\ refCnt' \in [Value -> Int] /\ status' = status
        /\ refCnt'[val] = refCnt[val] + 1
        /\ \A w \in Value \ {val} : refCnt'[w] = refCnt[w]
    BY <2>1, IncFacts
  <2>9. Counted(val)'
    BY <2>1, <2>5, <2>6, <2>7, <2>8, CountedUp
  <2>10. ASSUME NEW w \in Value \ {val} PROVE Counted(w)'
    <3>1. References(w)' = References(w)
      BY <1>1, <1>3 DEF References
    <3>2. w \in late' <=> w \in late
      BY <1>11
    <3> QED BY <3>1, <3>2, <2>8, CountedBefore, CountedSame DEF Counting
  <2>11. late' \subseteq Value /\ status' \in [Value -> {"unborn", "live", "dead"}]
    BY <1>11, <2>1, <2>8, CountedBefore DEF Counting
  <2>12. Counting'
    BY <2>8, <2>9, <2>10, <2>11 DEF Counting
  <2> QED BY <2>12, FetchReferenceFlow, Assembled
<1> QED BY <1>4, <1>5

-----------------------------------------------------------------------------
(* STORE *)

LEMMA StoreStep ==
    ASSUME IInv, NEW t \in Thread, NEW v \in Value, Store(t, v)
    PROVE  Core'
<1>1. /\ Free(t) /\ v \in mine[t] /\ Inc(v, 2) /\ UNCHANGED <<cell, mine, late>>
      /\ Becomes(t, "wrlock", v, NoValue)
  BY StoreFlow DEF Store
<1>10. OthersKeep(t)
  BY <1>1 DEF OthersKeep, Becomes
<1>2. ASSUME NEW w \in Value \ {v} PROVE Holders(w)' = Holders(w)
  <2>1. \A r \in Roles : Refers(t, r, w)' <=> Refers(t, r, w)
    BY <1>1, FreeFacts DEF Refers, Becomes
  <2> QED BY <1>10, <2>1, SameHolders
<1>3. Cardinality(Holders(v)') = Cardinality(Holders(v)) + 2
  <2>1. /\ ~Refers(t, "capture", v) /\ ~Refers(t, "stored", v)
        /\ "capture" \in Roles /\ "stored" \in Roles /\ "capture" # "stored"
    BY <1>1, FreeFacts DEF Roles, Refers
  <2>2. /\ Refers(t, "capture", v)' /\ Refers(t, "stored", v)'
        /\ \A r \in Roles \ {"capture", "stored"} : Refers(t, r, v)' <=> Refers(t, r, v)
    BY <1>1, FreeFacts DEF Refers, Becomes
  <2> QED BY <1>10, <2>1, <2>2, GainTwo
<1>4. status[v] # "unborn" /\ (v \in late \/ status[v] = "live")
  <2>1. Refers(t, "mine", v) /\ "mine" \in Roles
    BY <1>1 DEF Refers, Roles
  <2> QED BY <2>1, ReferredLives
<1> QED BY <1>1, <1>2, <1>3, <1>4, StoreFlow, UpCounted, Assembled

LEMMA WrLockStep ==
    ASSUME IInv, NEW t \in Thread, WrLock(t)
    PROVE  Core'
<1>1. /\ UNCHANGED <<cell, mine, refCnt, status, late>>
      /\ Becomes(t, IF call[t].at = "wrlock" THEN "load" ELSE "take", call[t].val, call[t].old)
  BY WrLockFlow DEF WrLock
<1>10. OthersKeep(t)
  BY <1>1 DEF OthersKeep, Becomes
<1>2. ASSUME NEW v \in Value PROVE Holders(v)' = Holders(v)
  <2>1. \A r \in Roles : Refers(t, r, v)' <=> Refers(t, r, v)
    BY <1>1 DEF WrLock, Refers, Becomes
  <2> QED BY <1>10, <2>1, SameHolders
<1> QED BY <1>1, <1>2, WrLockFlow, StillCounted, Assembled

LEMMA LoadStep ==
    ASSUME IInv, NEW t \in Thread, Load(t)
    PROVE  Core'
<1>1. /\ UNCHANGED <<cell, mine, refCnt, status, late>>
      /\ Becomes(t, "put", call[t].val, cell)
  BY LoadFlow DEF Load
<1>10. OthersKeep(t)
  BY <1>1 DEF OthersKeep, Becomes
<1>2. ASSUME NEW v \in Value PROVE Holders(v)' = Holders(v)
  <2>1. \A r \in Roles : Refers(t, r, v)' <=> Refers(t, r, v)
    BY <1>1 DEF Load, Refers, Becomes
  <2> QED BY <1>10, <2>1, SameHolders
<1> QED BY <1>1, <1>2, LoadFlow, StillCounted, Assembled

LEMMA TakeStep ==
    ASSUME IInv, NEW t \in Thread, Take(t)
    PROVE  Core'
<1>1. /\ UNCHANGED <<cell, mine, refCnt, status, late>>
      /\ Becomes(t, "clear", call[t].val, cell)
  BY TakeFlow DEF Take
<1>10. OthersKeep(t)
  BY <1>1 DEF OthersKeep, Becomes
<1>2. ASSUME NEW v \in Value PROVE Holders(v)' = Holders(v)
  <2>1. \A r \in Roles : Refers(t, r, v)' <=> Refers(t, r, v)
    BY <1>1 DEF Take, Refers, Becomes
  <2> QED BY <1>10, <2>1, SameHolders
<1> QED BY <1>1, <1>2, TakeFlow, StillCounted, Assembled

\* cell = value: the reference "stored" becomes the cell's, and the cell's
\* becomes "old".
LEMMA PutStep ==
    ASSUME IInv, NEW t \in Thread, Put(t)
    PROVE  Core'
<1>1. PICK val, old : val = call[t].val /\ old = call[t].old
  OBVIOUS
<1>2. /\ call[t].at = "put" /\ cell' = val /\ cell = old
      /\ UNCHANGED <<mine, refCnt, status, late>>
      /\ Becomes(t, "release old", val, old)
  BY <1>1, PutFlow DEF Put, IInv, WriterInv
<1>3. OthersKeep(t)
  BY <1>2 DEF OthersKeep, Becomes
<1>4. "stored" \in Roles /\ "old" \in Roles
  BY DEF Roles
<1>5. ASSUME NEW v \in Value PROVE References(v)' = References(v)
  <2>1. \A r \in Roles \ {"stored", "old"} : Refers(t, r, v)' <=> Refers(t, r, v)
    BY <1>1, <1>2 DEF Refers, Becomes
  <2>2. /\ Refers(t, "stored", v) <=> v = val
        /\ ~Refers(t, "stored", v)'
        /\ ~Refers(t, "old", v)
        /\ Refers(t, "old", v)' <=> v = old
    BY <1>1, <1>2 DEF Refers, Becomes
  <2>3. CASE v = val /\ v = old
    BY <1>2, <1>3, <1>4, <2>1, <2>2, <2>3, MoveOne DEF References
  <2>4. CASE v = val /\ v # old
    <3>1. Cardinality(Holders(v)') = Cardinality(Holders(v)) - 1
      BY <1>3, <1>4, <2>1, <2>2, <2>4, LoseOne
    <3>2. /\ References(v) = 0 + Cardinality(Holders(v))
          /\ References(v)' = 1 + Cardinality(Holders(v)')
      BY <1>2, <2>4 DEF References
    <3> QED BY <3>1, <3>2, HoldersFinite
  <2>5. CASE v # val /\ v = old
    <3>1. Cardinality(Holders(v)') = Cardinality(Holders(v)) + 1
      BY <1>3, <1>4, <2>1, <2>2, <2>5, GainOne
    <3>2. /\ References(v) = 1 + Cardinality(Holders(v))
          /\ References(v)' = 0 + Cardinality(Holders(v)')
      BY <1>2, <2>5 DEF References
    <3> QED BY <3>1, <3>2, HoldersFinite
  <2>6. CASE v # val /\ v # old
    <3>1. Holders(v)' = Holders(v)
      BY <1>3, <2>1, <2>2, <2>6, SameHolders
    <3> QED BY <1>2, <2>6, <3>1 DEF References
  <2> QED BY <2>3, <2>4, <2>5, <2>6
<1>6. Counting'
  BY <1>2, <1>5, CountedBefore, CountedSame DEF Counting
<1> QED BY <1>6, PutFlow, Assembled

LEMMA ReleaseOldStep ==
    ASSUME IInv, NEW t \in Thread, ReleaseOld(t)
    PROVE  Core'
<1>1. PICK val, old : val = call[t].val /\ old = call[t].old
  OBVIOUS
<1>2. /\ call[t].at = "release old" /\ UNCHANGED <<cell, mine, late>> /\ Dec(old)
      /\ Becomes(t, "reference ret", val, NoValue)
  BY <1>1, ReleaseOldFlow DEF ReleaseOld
<1>3. OthersKeep(t)
  BY <1>2 DEF OthersKeep, Becomes
<1>4. old \in Value \cup {NoValue} /\ val # NoValue
  BY <1>1, <1>2, CallType DEF IInv, CallInv, Storing, Destroying
<1>5. ASSUME NEW w \in Value \ {old} PROVE Holders(w)' = Holders(w)
  <2>1. \A r \in Roles : Refers(t, r, w)' <=> Refers(t, r, w)
    BY <1>1, <1>2, <1>4 DEF Refers, Becomes
  <2> QED BY <1>3, <2>1, SameHolders
<1>6. CASE old = NoValue
  BY <1>2, <1>5, <1>6, ScalarAssumption, ReleaseOldFlow, StillCounted, Assembled DEF Dec
<1>7. CASE old # NoValue
  <2>1. old \in Value /\ "old" \in Roles
    BY <1>4, <1>7 DEF Roles
  <2>2. /\ Refers(t, "old", old) /\ ~Refers(t, "old", old)'
        /\ \A r \in Roles \ {"old"} : Refers(t, r, old)' <=> Refers(t, r, old)
    BY <1>1, <1>2, <1>4, <1>7 DEF Refers, Becomes
  <2>3. /\ Cardinality(Holders(old)') = Cardinality(Holders(old)) - 1
        /\ Cardinality(Holders(old)) > 0
    BY <1>3, <2>1, <2>2, LoseOne
  <2> QED BY <1>2, <1>5, <2>1, <2>3, ReleaseOldFlow, DownCounted, Assembled
<1> QED BY <1>6, <1>7

LEMMA ReferenceRetStep ==
    ASSUME IInv, NEW t \in Thread, ReferenceRet(t)
    PROVE  Core'
<1>1. PICK val, old : val = call[t].val /\ old = call[t].old
  OBVIOUS
<1>2. /\ call[t].at = "reference ret" /\ UNCHANGED <<cell, mine, late>> /\ Inc(val, 1)
      /\ Becomes(t, "release capture", val, old)
  BY <1>1, ReferenceRetFlow DEF ReferenceRet
<1>3. OthersKeep(t)
  BY <1>2 DEF OthersKeep, Becomes
<1>4. val \in Value
  BY <1>1, <1>2, CallType DEF IInv, CallInv, Storing
<1>5. ASSUME NEW w \in Value \ {val} PROVE Holders(w)' = Holders(w)
  <2>1. \A r \in Roles : Refers(t, r, w)' <=> Refers(t, r, w)
    BY <1>1, <1>2 DEF Refers, Becomes
  <2> QED BY <1>3, <2>1, SameHolders
<1>6. /\ ~Refers(t, "result", val) /\ Refers(t, "result", val)'
      /\ \A r \in Roles \ {"result"} : Refers(t, r, val)' <=> Refers(t, r, val)
  BY <1>1, <1>2 DEF Refers, Becomes
<1>7. "result" \in Roles /\ "capture" \in Roles /\ Refers(t, "capture", val)
  BY <1>1, <1>2 DEF Roles, Refers
<1>8. Cardinality(Holders(val)') = Cardinality(Holders(val)) + 1
  BY <1>3, <1>6, <1>7, GainOne
<1>9. status[val] # "unborn" /\ (val \in late \/ status[val] = "live")
  BY <1>4, <1>7, ReferredLives
<1> QED BY <1>2, <1>4, <1>5, <1>8, <1>9, ReferenceRetFlow, UpCounted, Assembled

LEMMA ReleaseCaptureStep ==
    ASSUME IInv, NEW t \in Thread, ReleaseCapture(t)
    PROVE  Core'
<1>1. PICK val, old : val = call[t].val /\ old = call[t].old
  OBVIOUS
<1>2. /\ call[t].at = "release capture" /\ UNCHANGED <<cell, mine, late>> /\ Dec(val)
      /\ Becomes(t, "returned", val, old)
  BY <1>1, ReleaseCaptureFlow DEF ReleaseCapture
<1>3. OthersKeep(t)
  BY <1>2 DEF OthersKeep, Becomes
<1>4. val \in Value \cup {NoValue} /\ old = NoValue
  BY <1>1, <1>2, CallType DEF IInv, CallInv, Storing, Destroying
<1>5. ASSUME NEW w \in Value \ {val} PROVE Holders(w)' = Holders(w)
  <2>1. \A r \in Roles : Refers(t, r, w)' <=> Refers(t, r, w)
    BY <1>1, <1>2, <1>4 DEF Refers, Becomes
  <2> QED BY <1>3, <2>1, SameHolders
<1>6. CASE val = NoValue
  BY <1>2, <1>5, <1>6, ScalarAssumption, ReleaseCaptureFlow, StillCounted, Assembled DEF Dec
<1>7. CASE val # NoValue
  <2>1. val \in Value /\ "capture" \in Roles
    BY <1>4, <1>7 DEF Roles
  <2>2. /\ Refers(t, "capture", val) /\ ~Refers(t, "capture", val)'
        /\ \A r \in Roles \ {"capture"} : Refers(t, r, val)' <=> Refers(t, r, val)
    BY <1>1, <1>2, <1>4, <1>7 DEF Refers, Becomes
  <2>3. /\ Cardinality(Holders(val)') = Cardinality(Holders(val)) - 1
        /\ Cardinality(Holders(val)) > 0
    BY <1>3, <2>1, <2>2, LoseOne
  <2> QED BY <1>2, <1>5, <2>1, <2>3, ReleaseCaptureFlow, DownCounted, Assembled
<1> QED BY <1>6, <1>7

-----------------------------------------------------------------------------
(* The return to the caller, and the end of the scalar *)

LEMMA ReturnedStep ==
    ASSUME IInv, NEW t \in Thread, Returned(t)
    PROVE  Core'
<1>1. PICK val : val = call[t].val
  OBVIOUS
<1>2. /\ call[t].at = "returned" /\ call[t].old = NoValue /\ UNCHANGED <<cell, late>>
      /\ Becomes(t, "none", NoValue, NoValue)
  BY <1>1, ReturnedFlow DEF Returned, IInv, CallInv
<1>3. val \in Value \cup {NoValue}
  BY <1>1, CallType DEF IInv
<1>4. CASE /\ val \notin mine[t] \cup {NoValue}
           /\ mine' = [mine EXCEPT ![t] = @ \cup {val}]
           /\ UNCHANGED <<refCnt, status>>
  <2>1. /\ mine'[t] = mine[t] \cup {val} /\ val \notin mine[t] /\ val \in Value
        /\ \A u \in Thread \ {t} : mine'[u] = mine[u]
    BY <1>3, <1>4 DEF IInv, TypeOK
  <2>2. OthersKeep(t)
    BY <1>2, <2>1 DEF OthersKeep, Becomes
  <2>3. ASSUME NEW v \in Value PROVE References(v)' = References(v)
    <3>1. \A r \in Roles \ {"result", "mine"} : Refers(t, r, v)' <=> Refers(t, r, v)
      BY <1>1, <1>2 DEF Refers, Becomes
    <3>2. /\ Refers(t, "result", v) <=> v = val
          /\ ~Refers(t, "result", v)'
          /\ Refers(t, "mine", v) <=> v \in mine[t]
          /\ Refers(t, "mine", v)' <=> v \in mine'[t]
          /\ "result" \in Roles /\ "mine" \in Roles
      BY <1>1, <1>2 DEF Refers, Becomes, Roles
    <3>3. CASE v = val
      BY <1>2, <2>1, <2>2, <3>1, <3>2, <3>3, MoveOne DEF References
    <3>4. CASE v # val
      <4>1. Holders(v)' = Holders(v)
        BY <2>1, <2>2, <3>1, <3>2, <3>4, SameHolders
      <4> QED BY <1>2, <4>1 DEF References
    <3> QED BY <3>3, <3>4
  <2>4. Counting'
    BY <1>2, <1>4, <2>3, CountedBefore, CountedSame DEF Counting
  <2> QED BY <2>4, ReturnedFlow, Assembled
<1>5. CASE Dec(val) /\ mine' = mine
  <2>1. OthersKeep(t)
    BY <1>2, <1>5 DEF OthersKeep, Becomes
  <2>2. ASSUME NEW w \in Value \ {val} PROVE Holders(w)' = Holders(w)
    <3>1. \A r \in Roles : Refers(t, r, w)' <=> Refers(t, r, w)
      BY <1>1, <1>2, <1>5 DEF Refers, Becomes
    <3> QED BY <2>1, <3>1, SameHolders
  <2>3. CASE val = NoValue
    BY <1>2, <1>5, <2>2, <2>3, ScalarAssumption, ReturnedFlow, StillCounted, Assembled
    DEF Dec
  <2>4. CASE val # NoValue
    <3>1. val \in Value /\ "result" \in Roles
      BY <1>3, <2>4 DEF Roles
    <3>2. /\ Refers(t, "result", val) /\ ~Refers(t, "result", val)'
          /\ \A r \in Roles \ {"result"} : Refers(t, r, val)' <=> Refers(t, r, val)
      BY <1>1, <1>2, <1>5, <2>4 DEF Refers, Becomes
    <3>3. /\ Cardinality(Holders(val)') = Cardinality(Holders(val)) - 1
          /\ Cardinality(Holders(val)) > 0
      BY <2>1, <3>1, <3>2, LoseOne
    <3> QED BY <1>2, <1>5, <2>2, <3>1, <3>3, ReturnedFlow, DownCounted, Assembled
  <2> QED BY <2>3, <2>4
<1> QED BY <1>1, <1>4, <1>5 DEF Returned

\* s->cell = NULL: the cell's reference becomes DESTROYALL's own.
LEMMA ClearStep ==
    ASSUME IInv, NEW t \in Thread, Clear(t)
    PROVE  Core'
<1>1. PICK val, old : val = call[t].val /\ old = call[t].old
  OBVIOUS
<1>2. /\ call[t].at = "clear" /\ cell' = NoValue /\ cell = old
      /\ UNCHANGED <<mine, refCnt, status, late>>
      /\ Becomes(t, "release cell", val, old)
  BY <1>1, ClearFlow DEF Clear, IInv, WriterInv
<1>3. OthersKeep(t)
  BY <1>2 DEF OthersKeep, Becomes
<1>4. ASSUME NEW v \in Value PROVE References(v)' = References(v)
  <2>1. /\ ~Refers(t, "old", v)
        /\ Refers(t, "old", v)' <=> v = old
        /\ \A r \in Roles \ {"old"} : Refers(t, r, v)' <=> Refers(t, r, v)
        /\ "old" \in Roles /\ v # NoValue
    BY <1>1, <1>2, ScalarAssumption DEF Refers, Becomes, Roles
  <2>2. CASE v = old
    <3>1. Cardinality(Holders(v)') = Cardinality(Holders(v)) + 1
      BY <1>3, <2>1, <2>2, GainOne
    <3>2. /\ References(v) = 1 + Cardinality(Holders(v))
          /\ References(v)' = 0 + Cardinality(Holders(v)')
      BY <1>2, <2>1, <2>2 DEF References
    <3> QED BY <3>1, <3>2, HoldersFinite
  <2>3. CASE v # old
    <3>1. \A r \in Roles : Refers(t, r, v)' <=> Refers(t, r, v)
      BY <2>1, <2>3
    <3>2. Holders(v)' = Holders(v)
      BY <1>3, <3>1, SameHolders
    <3> QED BY <1>2, <2>1, <2>3, <3>2 DEF References
  <2> QED BY <2>2, <2>3
<1>5. Counting'
  BY <1>2, <1>4, CountedBefore, CountedSame DEF Counting
<1> QED BY <1>5, ClearFlow, Assembled

LEMMA ReleaseCellStep ==
    ASSUME IInv, NEW t \in Thread, ReleaseCell(t)
    PROVE  Core'
<1>1. PICK val, old : val = call[t].val /\ old = call[t].old
  OBVIOUS
<1>2. /\ call[t].at = "release cell" /\ UNCHANGED <<cell, mine, late>> /\ Dec(old)
      /\ Becomes(t, "none", NoValue, NoValue)
  BY <1>1, ReleaseCellFlow DEF ReleaseCell
<1>3. OthersKeep(t)
  BY <1>2 DEF OthersKeep, Becomes
<1>4. old \in Value \cup {NoValue} /\ val = NoValue
  BY <1>1, <1>2, CallType DEF IInv, CallInv, Storing, Destroying
<1>5. ASSUME NEW w \in Value \ {old} PROVE Holders(w)' = Holders(w)
  <2>1. \A r \in Roles : Refers(t, r, w)' <=> Refers(t, r, w)
    BY <1>1, <1>2, <1>4 DEF Refers, Becomes
  <2> QED BY <1>3, <2>1, SameHolders
<1>6. CASE old = NoValue
  BY <1>2, <1>5, <1>6, ScalarAssumption, ReleaseCellFlow, StillCounted, Assembled DEF Dec
<1>7. CASE old # NoValue
  <2>1. old \in Value /\ "old" \in Roles
    BY <1>4, <1>7 DEF Roles
  <2>2. /\ Refers(t, "old", old) /\ ~Refers(t, "old", old)'
        /\ \A r \in Roles \ {"old"} : Refers(t, r, old)' <=> Refers(t, r, old)
    BY <1>1, <1>2, <1>4, <1>7 DEF Refers, Becomes
  <2>3. /\ Cardinality(Holders(old)') = Cardinality(Holders(old)) - 1
        /\ Cardinality(Holders(old)) > 0
    BY <1>3, <2>1, <2>2, LoseOne
  <2> QED BY <1>2, <1>5, <2>1, <2>3, ReleaseCellFlow, DownCounted, Assembled
<1> QED BY <1>6, <1>7

-----------------------------------------------------------------------------
(* The invariant, and what follows from it *)

LEMMA InitIInv == Init => IInv
<1> SUFFICES ASSUME Init PROVE IInv
  OBVIOUS
<1>1. PICK v \in Value :
        /\ cell = v /\ refCnt = [w \in Value |-> IF w = v THEN 1 ELSE 0]
        /\ status = [w \in Value |-> IF w = v THEN "live" ELSE "unborn"]
  BY DEF Init
<1>2. /\ \A t \in Thread : /\ call[t].at = "none" /\ call[t].val = NoValue
                           /\ call[t].old = NoValue /\ mine[t] = {}
      /\ writer = NoThread /\ users = Thread
  BY DEF Init, NoCall, At
<1>3. TypeOK
  BY <1>1 DEF Init, TypeOK, NoCall, At, Steps
<1>4. WriterInv /\ CallInv /\ UsersInv /\ FetchInv /\ LateInv
  BY <1>2, ScalarAssumption
  DEF Init, WriterInv, CallInv, UsersInv, FetchInv, LateInv, Storing, Destroying
<1>5. \A w \in Value : Holders(w) = {}
  BY <1>2 DEF Holders, Refers
<1>6. \A w \in Value : References(w) = IF w = v THEN 1 ELSE 0
  BY <1>1, <1>5, FS_EmptySet DEF References
<1>7. UnbornInv /\ CountsExact
  BY <1>1, <1>6 DEF UnbornInv, CountsExact
<1> QED BY <1>3, <1>4, <1>7 DEF IInv

LEMMA StutterIInv == ASSUME IInv, UNCHANGED vars PROVE IInv'
<1>1. Flow' /\ FetchInv'
  BY DEF vars, IInv, TypeOK, Flow, FlowType, WriterInv, CallInv, UsersInv, FetchInv
<1>2. ASSUME NEW v \in Value PROVE References(v)' = References(v)
  <2>1. \A t \in Thread, r \in Roles : Refers(t, r, v)' <=> Refers(t, r, v)
    BY DEF vars, Refers
  <2>2. Holders(v)' = Holders(v)
    BY <2>1 DEF Holders
  <2> QED BY <2>2 DEF vars, References
<1>3. Counting'
  BY <1>2, CountedBefore, CountedSame DEF Counting, vars
<1> QED BY <1>1, <1>3, Assembled DEF Core, IInv

\* A value that has been born stays so, whatever is done with it.
LEMMA BornStaysBorn ==
    ASSUME IInv, NEW t \in Thread, Use(t) \/ Handle(t), NEW v \in Value, status[v] # "unborn"
    PROVE  status'[v] # "unborn"
<1>1. status \in [Value -> {"unborn", "live", "dead"}]
  BY DEF IInv, TypeOK
<1>2. ASSUME NEW w \in Value \cup {NoValue}, Dec(w) PROVE status'[v] # "unborn"
  BY <1>1, <1>2 DEF Dec
<1>3. ASSUME NEW w, NEW n, Inc(w, n) PROVE status'[v] # "unborn"
  BY <1>3 DEF Inc
<1>4. call[t].val \in Value \cup {NoValue} /\ call[t].old \in Value \cup {NoValue}
  BY CallType DEF IInv
<1>5. CASE Use(t)
  <2>1. ASSUME NEW w \in Value, New(t, w) PROVE status'[v] # "unborn"
    BY <1>1, <2>1 DEF New
  <2>2. ASSUME NEW w \in Value, Drop(t, w) \/ Store(t, w) PROVE status'[v] # "unborn"
    BY <1>2, <1>3, <2>2 DEF Drop, Store
  <2>3. ASSUME NEW o \in Thread, NEW w \in Value, Share(t, o, w) PROVE status'[v] # "unborn"
    BY <1>3, <2>3 DEF Share
  <2>4. CASE Fetch(t) \/ Leave(t)
    BY <2>4 DEF Fetch, Leave
  <2> QED BY <1>5, <2>1, <2>2, <2>3, <2>4 DEF Use
<1>6. CASE Handle(t)
  <2>1. CASE FetchReference(t) \/ ReferenceRet(t)
    BY <1>3, <2>1 DEF FetchReference, ReferenceRet
  <2>2. CASE WrLock(t) \/ Load(t) \/ Put(t) \/ Take(t) \/ Clear(t)
    BY <2>2 DEF WrLock, Load, Put, Take, Clear
  <2>3. CASE ReleaseOld(t) \/ ReleaseCapture(t) \/ Returned(t) \/ ReleaseCell(t)
    BY <1>2, <1>4, <2>3 DEF ReleaseOld, ReleaseCapture, Returned, ReleaseCell
  <2> QED BY <1>6, <2>1, <2>2, <2>3 DEF Handle
<1> QED BY <1>5, <1>6

\* The only step into "reference" is Fetch.
LEMMA ReadFromCell ==
    ASSUME IInv, NEW t \in Thread, Use(t) \/ Handle(t), NEW u \in Thread,
           call'[u].at = "reference"
    PROVE  call'[u] = call[u] \/ call'[u].val = cell
<1>1. CASE Use(t)
  <2>1. ASSUME NEW w \in Value, New(t, w) \/ Drop(t, w)
        PROVE  call'[u] = call[u]
    BY <2>1 DEF New, Drop
  <2>2. ASSUME NEW w \in Value, Store(t, w) PROVE call'[u] = call[u]
    BY <2>2, StoreFlow DEF Becomes
  <2>3. ASSUME NEW o \in Thread, NEW w \in Value, Share(t, o, w)
        PROVE  call'[u] = call[u]
    BY <2>3 DEF Share
  <2>4. CASE Fetch(t)
    BY <2>4, FetchFlow DEF Becomes
  <2>5. CASE Leave(t)
    BY <2>5, LeaveFlow
  <2> QED BY <1>1, <2>1, <2>2, <2>3, <2>4, <2>5 DEF Use
<1>2. CASE Handle(t)
  <2>1. \E at \in Steps \ {"reference"} : \E val, old : Becomes(t, at, val, old)
    <3>1. CASE FetchReference(t) \/ ReferenceRet(t) \/ ReleaseCapture(t) \/ Returned(t)
      BY <3>1, FetchReferenceFlow, ReferenceRetFlow, ReleaseCaptureFlow, ReturnedFlow DEF Steps
    <3>2. CASE WrLock(t) \/ Load(t) \/ Put(t) \/ ReleaseOld(t)
      BY <3>2, WrLockFlow, LoadFlow, PutFlow, ReleaseOldFlow DEF Steps
    <3>3. CASE Take(t) \/ Clear(t) \/ ReleaseCell(t)
      BY <3>3, TakeFlow, ClearFlow, ReleaseCellFlow DEF Steps
    <3> QED BY <1>2, <3>1, <3>2, <3>3 DEF Handle
  <2> QED BY <2>1 DEF Becomes
<1> QED BY <1>1, <1>2

LEMMA UnfetchedStep ==
    ASSUME IInv, NEW t \in Thread, Use(t) \/ Handle(t), TypeOK'
    PROVE  FetchInv'
<1> SUFFICES ASSUME NEW u \in Thread, call'[u].at = "reference", call'[u].val # NoValue
             PROVE  status'[call'[u].val] # "unborn"
  BY DEF FetchInv
<1>1. PICK v \in Value : v = call'[u].val
  BY DEF TypeOK
<1>2. status[v] # "unborn"
  <2>1. CASE call'[u] = call[u]
    BY <1>1, <2>1 DEF IInv, FetchInv
  <2>2. CASE call'[u].val = cell
    BY <1>1, <2>2, ReferredLives
  <2> QED BY <2>1, <2>2, ReadFromCell
<1> QED BY <1>1, <1>2, BornStaysBorn

LEMMA NextIInv == ASSUME IInv, Next PROVE IInv'
<1>1. CASE Over
  BY <1>1, StutterIInv DEF Over
<1>2. ASSUME NEW t \in Thread, Use(t) PROVE Core'
  BY <1>2, NewStep, DropStep, StoreStep, ShareStep, FetchStep, LeaveStep DEF Use
<1>3. ASSUME NEW t \in Thread, Handle(t) PROVE Core'
  BY <1>3, FetchReferenceStep, WrLockStep, LoadStep, PutStep, ReleaseOldStep,
     ReferenceRetStep, ReleaseCaptureStep, ReturnedStep, TakeStep, ClearStep,
     ReleaseCellStep
  DEF Handle
<1>4. ASSUME NEW t \in Thread, Use(t) \/ Handle(t) PROVE IInv'
  <2>1. Core'
    BY <1>2, <1>3, <1>4
  <2>2. FetchInv'
    BY <1>4, <2>1, UnfetchedStep DEF Core
  <2> QED BY <2>1, <2>2 DEF Core, IInv
<1> QED BY <1>1, <1>4 DEF Next

\* IInv holds whichever STOREs and FETCHes overlap and whoever destroys the
\* scalar.
THEOREM InductiveInvariant == Spec => []IInv
<1>1. IInv /\ [Next]_vars => IInv'
  BY NextIInv, StutterIInv
<1> QED BY <1>1, InitIInv, PTL DEF Spec

\* Every variable of the scalar keeps its type; the write lock is held exactly
\* by the thread between wrlock and unlock, what that thread read is still in
\* the cell, and the scalar is destroyed when nobody else is left.
THEOREM TypeCorrect == Spec => [](TypeOK /\ WriterInv /\ UsersInv)
<1>1. IInv => TypeOK /\ WriterInv /\ UsersInv
  BY DEF IInv
<1> QED BY <1>1, InductiveInvariant, PTL

\* The count of every value is the number of references that the cell, the
\* threads and the calls in flight have to it, and it dies with the last one.
THEOREM CountsAreExact == Spec => []CountsExact
<1>1. IInv => CountsExact
  BY DEF IInv
<1> QED BY <1>1, InductiveInvariant, PTL

\* Whatever is in the cell or in the hands of a thread is alive, but for what
\* FETCH referenced when it was gone.
THEOREM ValuesAreAlive == Spec => []ValuesAlive
<1>1. ASSUME IInv, NEW v \in Value \ late,
             v = cell \/ \E t \in Thread : v \in InHand(t)
      PROVE  status[v] = "live"
  <2> SUFFICES cell = v \/ \E t \in Thread, role \in Roles : Refers(t, role, v)
    BY <1>1, ReferredLives
  <2>1. ASSUME NEW t \in Thread, v \in InHand(t)
        PROVE  cell = v \/ \E role \in Roles : Refers(t, role, v)
    <3>1. CASE v \in mine[t]
      BY <3>1 DEF Refers, Roles
    <3>2. CASE v = call[t].val /\ call[t].at # "reference"
      <4>1. call[t].at \in Steps \ (Destroying \cup {"none"})
        BY <1>1, <3>2, CallType, ScalarAssumption DEF IInv, CallInv
      <4>2. CASE call[t].at \in Storing
        BY <3>2, <4>2 DEF Refers, Roles, Storing
      <4>3. CASE call[t].at = "returned"
        BY <3>2, <4>3 DEF Refers, Roles
      <4> QED BY <3>2, <4>1, <4>2, <4>3 DEF Steps, Storing, Destroying
    <3>3. CASE v = call[t].old
      <4>1. call[t].at \in {"put", "release old", "clear", "release cell"}
        BY <1>1, <3>3, ScalarAssumption DEF IInv, CallInv
      <4>2. CASE call[t].at \in {"put", "clear"}
        BY <1>1, <3>3, <4>2 DEF IInv, WriterInv
      <4>3. CASE call[t].at \in {"release old", "release cell"}
        BY <3>3, <4>3 DEF Refers, Roles
      <4> QED BY <4>1, <4>2, <4>3
    <3> QED BY <2>1, <3>1, <3>2, <3>3 DEF InHand
  <2> QED BY <1>1, <2>1
<1>2. IInv => ValuesAlive
  BY <1>1 DEF ValuesAlive
<1> QED BY <1>2, InductiveInvariant, PTL

=============================================================================
