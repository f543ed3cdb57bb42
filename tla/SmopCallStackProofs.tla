------------------------ MODULE SmopCallStackProofs ------------------------
(***************************************************************************)
(* To the program that runs on it the SMOP interpreter is the stack of     *)
(* calls of CallStack: continuations, frames and destructions never show.  *)
(***************************************************************************)
EXTENDS SmopInterpreterProofs

-----------------------------------------------------------------------------
(* The calls under a frame *)

Activation == [pos : 0 .. Body + 2, wait : {"no", "called", "answered"}, destructor : BOOLEAN]

ActivationAt(f) ==
    [pos |-> IF frame[f].kind = "entry" THEN 0 ELSE frame[f].pos, wait |-> frame[f].wait,
     destructor |-> frame[f].back # NoFrame /\ frame[frame[f].back].kind = "destroy"]

\* What a frame adds to the calls under its back
Onto(calls, f) ==
    IF frame[f].kind = "destroy" THEN calls ELSE Append(calls, ActivationAt(f))

LEMMA Activations ==
    ASSUME TypeOK, NEW f \in Frame
    PROVE  /\ ActivationAt(f) \in Activation
           /\ \A calls \in Seq(Activation) : Onto(calls, f) \in Seq(Activation)
<1>1. /\ frame[f].wait \in {"no", "called", "answered"} /\ frame[f].pos \in 0 .. Body + 2
      /\ 0 \in 0 .. Body + 2
  BY Typed, InterpreterAssumption DEF TypeOK, FrameRecord
<1>2. ActivationAt(f) \in Activation
  BY <1>1 DEF ActivationAt, Activation
<1> QED BY <1>2, AppendProperties DEF Onto

\* The calls under each frame of the chain, one after the other
LEMMA CallsInChain ==
    ASSUME TypeOK, NEW n \in Nat, NEW s \in [1 .. n -> Frame]
    PROVE  \E w \in [0 .. n -> Seq(Activation)] :
              w[0] = <<>> /\ \A i \in 1 .. n : w[i] = Onto(w[i - 1], s[i])
<1> DEFINE Good(m, w) == /\ w \in [0 .. m -> Seq(Activation)] /\ w[0] = <<>>
                         /\ \A i \in 1 .. m : w[i] = Onto(w[i - 1], s[i])
<1>1. PICK Bad : Bad = {m \in 0 .. n : ~\E w : Good(m, w)}
  OBVIOUS
<1>2. SUFFICES Bad = {}
  <2>1. n \notin Bad /\ n \in 0 .. n
    BY <1>2
  <2>2. \E w : Good(n, w)
    BY <1>1, <2>1
  <2> QED BY <2>2
<1>3. SUFFICES ASSUME Bad # {} PROVE FALSE
  OBVIOUS
<1>4. Bad \in SUBSET Nat
  BY <1>1
<1>5. PICK m \in Bad : \A k \in Bad : m <= k
  BY <1>3, <1>4, LeastNumber
<1>6. m \in 0 .. n /\ ~\E w : Good(m, w)
  BY <1>1
<1>7. CASE m = 0
  <2>1. <<>> \in Seq(Activation)
    OBVIOUS
  <2>2. PICK w : w = [i \in 0 .. 0 |-> <<>>]
    OBVIOUS
  <2>3. Good(0, w)
    BY <2>1, <2>2
  <2> QED BY <1>6, <1>7, <2>3
<1>8. CASE m # 0
  <2>1. PICK k \in 0 .. n : k = m - 1 /\ k + 1 = m /\ k < m
    BY <1>6, <1>8
  <2>2. k \notin Bad
    BY <1>5, <2>1
  <2>3. PICK v : Good(k, v)
    BY <1>1, <2>2
  <2>4. PICK top : top = Onto(v[k], s[m])
    OBVIOUS
  <2>5. top \in Seq(Activation)
    <3>1. v[k] \in Seq(Activation) /\ s[m] \in Frame
      BY <1>6, <1>8, <2>1, <2>3
    <3> QED BY <2>4, <3>1, Activations
  <2>6. PICK w : w = [i \in 0 .. m |-> IF i = m THEN top ELSE v[i]]
    OBVIOUS
  <2>7. w \in [0 .. m -> Seq(Activation)]
    <3>1. ASSUME NEW i \in 0 .. m PROVE w[i] \in Seq(Activation)
      <4>1. i # m => i \in 0 .. k
        BY <1>6, <2>1
      <4> QED BY <2>3, <2>5, <2>6, <4>1
    <3> QED BY <2>6, <3>1
  <2>8. w[0] = <<>>
    BY <1>6, <1>8, <2>3, <2>6
  <2>9. ASSUME NEW i \in 1 .. m PROVE w[i] = Onto(w[i - 1], s[i])
    <3>1. CASE i = m
      <4>1. w[i] = top /\ w[i - 1] = v[k]
        BY <1>6, <2>1, <2>6, <3>1
      <4> QED BY <2>4, <3>1, <4>1
    <3>2. CASE i # m
      <4>1. i \in 1 .. k /\ i - 1 \in 0 .. m /\ i - 1 # m /\ i \in 0 .. m
        BY <1>6, <2>1, <3>2
      <4>2. w[i] = v[i] /\ w[i - 1] = v[i - 1]
        BY <2>6, <3>2, <4>1
      <4> QED BY <2>3, <4>1, <4>2
    <3> QED BY <3>1, <3>2
  <2>10. Good(m, w)
    BY <2>7, <2>8, <2>9
  <2> QED BY <1>6, <2>10
<1> QED BY <1>7, <1>8

LEMMA CallsUnderIs ==
    ASSUME IInv
    PROVE  CallsUnder = [f \in Frame \cup {NoFrame} |->
                            IF f = NoFrame \/ frame[f].kind = "none" THEN <<>>
                            ELSE Onto(CallsUnder[frame[f].back], f)]
<1>1. PICK n \in 0 .. Cardinality(Frame) : \E s \in [1 .. n -> Frame] : Chain(n, s)
  BY DEF IInv, ChainInv
<1>2. PICK s \in [1 .. n -> Frame] : Chain(n, s)
  BY <1>1
<1>3. n \in Nat
  BY FrameSets
<1>4. PICK w \in [0 .. n -> Seq(Activation)] :
         w[0] = <<>> /\ \A i \in 1 .. n : w[i] = Onto(w[i - 1], s[i])
  BY <1>3, CallsInChain DEF IInv
<1>5. /\ \A i, j \in 1 .. n : s[i] = s[j] => i = j
      /\ \A i \in 1 .. n : s[i] \in Frame /\ s[i] # NoFrame /\ frame[s[i]].kind # "none"
                             /\ frame[s[i]].back = IF i = 1 THEN NoFrame ELSE s[i - 1]
  BY <1>2, InterpreterAssumption DEF Chain, Links
<1>6. PICK at_ : at_ = [f \in Frame \cup {NoFrame} |->
                          IF InChain(n, s, f) THEN CHOOSE i \in 1 .. n : s[i] = f ELSE 0]
  OBVIOUS
<1>7. \A i \in 1 .. n : at_[s[i]] = i
  <2> SUFFICES ASSUME NEW i \in 1 .. n PROVE at_[s[i]] = i
    OBVIOUS
  <2>1. InChain(n, s, s[i]) /\ s[i] \in Frame
    BY <1>5 DEF InChain
  <2>2. at_[s[i]] = CHOOSE j \in 1 .. n : s[j] = s[i]
    BY <1>6, <2>1
  <2> QED BY <1>5, <2>2
<1>8. at_[NoFrame] = 0
  <2>1. ~InChain(n, s, NoFrame)
    BY <1>5 DEF InChain
  <2> QED BY <1>6, <2>1
<1>9. PICK c : c = [f \in Frame \cup {NoFrame} |->
                       IF f = NoFrame \/ frame[f].kind = "none" THEN <<>>
                       ELSE Onto(w[at_[frame[f].back]], f)]
  OBVIOUS
<1>10. ASSUME NEW i \in 1 .. n PROVE c[s[i]] = w[i]
  <2>1. at_[frame[s[i]].back] = i - 1
    BY <1>5, <1>7, <1>8
  <2>2. c[s[i]] = Onto(w[at_[frame[s[i]].back]], s[i])
    BY <1>5, <1>9
  <2> QED BY <1>4, <2>1, <2>2
<1>11. ASSUME NEW f \in Frame, frame[f].kind # "none"
       PROVE  c[frame[f].back] = w[at_[frame[f].back]]
  <2>1. InChain(n, s, frame[f].back) \/ frame[f].back = NoFrame
    BY <1>2, <1>3, <1>11, LinksUpTo
  <2>2. CASE frame[f].back = NoFrame
    BY <1>4, <1>8, <1>9, <2>2
  <2>3. CASE InChain(n, s, frame[f].back)
    <3>1. PICK i \in 1 .. n : s[i] = frame[f].back
      BY <2>3 DEF InChain
    <3> QED BY <1>7, <1>10, <3>1
  <2> QED BY <2>1, <2>2, <2>3
<1>12. c = [f \in Frame \cup {NoFrame} |->
               IF f = NoFrame \/ frame[f].kind = "none" THEN <<>>
               ELSE Onto(c[frame[f].back], f)]
  <2>1. ASSUME NEW f \in Frame \cup {NoFrame}
        PROVE  c[f] = IF f = NoFrame \/ frame[f].kind = "none" THEN <<>>
                      ELSE Onto(c[frame[f].back], f)
    <3>1. c[f] = IF f = NoFrame \/ frame[f].kind = "none" THEN <<>>
                 ELSE Onto(w[at_[frame[f].back]], f)
      BY <1>9
    <3> QED BY <1>11, <3>1
  <2> QED BY <1>9, <2>1
<1> QED BY <1>12 DEF CallsUnder, Onto, ActivationAt

\* What the recursion says of every frame
CallsKnown ==
    /\ CallsUnder[NoFrame] = <<>>
    /\ \A f \in Frame : frame[f].kind # "none" =>
          CallsUnder[f] = Onto(CallsUnder[frame[f].back], f)

LEMMA CallsAreKnown == IInv => CallsKnown
<1> SUFFICES ASSUME IInv PROVE CallsKnown
  OBVIOUS
<1>1. PICK w : w = CallsUnder
  OBVIOUS
<1>2. w = [f \in Frame \cup {NoFrame} |->
              IF f = NoFrame \/ frame[f].kind = "none" THEN <<>>
              ELSE Onto(w[frame[f].back], f)]
  BY <1>1, CallsUnderIs
<1>3. \A f \in Frame \cup {NoFrame} :
         w[f] = IF f = NoFrame \/ frame[f].kind = "none" THEN <<>>
                ELSE Onto(w[frame[f].back], f)
  BY <1>2, Zenon
<1>4. \A f \in Frame : f # NoFrame
  BY InterpreterAssumption
<1> QED BY <1>1, <1>3, <1>4 DEF CallsKnown

LEMMA CallsAreKnownNext == IInv' => CallsKnown'
BY CallsAreKnown, PTL

\* A sequence of calls is given by the one under it and the call on top.
LEMMA CallsTyped ==
    ASSUME IInv, CallsKnown, NEW n \in Nat, NEW s \in [1 .. n -> Frame], Chain(n, s)
    PROVE  \A i \in 1 .. n : CallsUnder[s[i]] \in Seq(Activation)
<1>1. PICK Bad : Bad = {i \in 1 .. n : CallsUnder[s[i]] \notin Seq(Activation)}
  OBVIOUS
<1>2. SUFFICES ASSUME Bad # {} PROVE FALSE
  BY <1>1
<1>3. Bad \in SUBSET Nat
  BY <1>1
<1>4. PICK m \in Bad : \A k \in Bad : m <= k
  BY <1>2, <1>3, LeastNumber
<1>5. m \in 1 .. n /\ CallsUnder[s[m]] \notin Seq(Activation)
  BY <1>1
<1>6. s[m] \in Frame /\ frame[s[m]].kind # "none"
        /\ frame[s[m]].back = IF m = 1 THEN NoFrame ELSE s[m - 1]
  BY <1>5 DEF Chain, Links
<1>7. CallsUnder[frame[s[m]].back] \in Seq(Activation)
  <2>1. CASE m = 1
    <3>1. frame[s[m]].back = NoFrame
      BY <1>6, <2>1
    <3>2. <<>> \in Seq(Activation)
      OBVIOUS
    <3> QED BY <3>1, <3>2 DEF CallsKnown
  <2>2. CASE m # 1
    <3>1. PICK k \in 1 .. n : k = m - 1 /\ k < m
      BY <1>5, <2>2
    <3>2. k \notin Bad
      BY <1>4, <1>5, <3>1
    <3> QED BY <1>1, <1>6, <2>2, <3>1, <3>2
  <2> QED BY <2>1, <2>2
<1>8. CallsUnder[s[m]] = Onto(CallsUnder[frame[s[m]].back], s[m])
  BY <1>6 DEF CallsKnown
<1> QED BY <1>5, <1>6, <1>7, <1>8, Activations DEF IInv

\* The frames of a chain are as they were, as far as the program can tell.
Stands(h) == Rests(h) /\ frame'[h].wait = frame[h].wait
Looks(h) == Alike(h) /\ (frame[h].kind # "destroy" => ActivationAt(h)' = ActivationAt(h))

LEMMA StandsLooks ==
    ASSUME IInv, NEW h \in Frame, frame[h].kind # "none", Stands(h),
           frame[h].back \in Frame => Alike(frame[h].back)
    PROVE  Looks(h)
<1>1. frame[h].back \in Frame \cup {NoFrame}
  BY Typed DEF IInv
<1> QED BY <1>1, InterpreterAssumption DEF Stands, Looks, Rests, Alike, ActivationAt

LEMMA SameCalls ==
    ASSUME IInv, CallsKnown, CallsKnown', NEW n \in Nat, NEW s \in [1 .. n -> Frame],
           Chain(n, s), NEW m \in 0 .. n, \A i \in 1 .. m : Looks(s[i])
    PROVE  \A i \in 1 .. m : CallsUnder'[s[i]] = CallsUnder[s[i]]
<1>1. PICK Bad : Bad = {i \in 1 .. m : CallsUnder'[s[i]] # CallsUnder[s[i]]}
  OBVIOUS
<1>2. SUFFICES ASSUME Bad # {} PROVE FALSE
  BY <1>1
<1>3. Bad \in SUBSET Nat
  BY <1>1
<1>4. PICK b \in Bad : \A k \in Bad : b <= k
  BY <1>2, <1>3, LeastNumber
<1>5. b \in 1 .. m /\ b \in 1 .. n /\ CallsUnder'[s[b]] # CallsUnder[s[b]]
  BY <1>1
<1>6. PICK f \in Frame : f = s[b]
  BY <1>5
<1>7. /\ frame[f].kind # "none"
      /\ frame[f].back = IF b = 1 THEN NoFrame ELSE s[b - 1]
  BY <1>5, <1>6 DEF Chain, Links
<1>8. CallsUnder'[frame[f].back] = CallsUnder[frame[f].back]
  <2>1. CASE b = 1
    BY <1>7, <2>1 DEF CallsKnown
  <2>2. CASE b # 1
    <3>1. PICK k \in 1 .. m : k = b - 1 /\ k < b
      BY <1>5, <2>2
    <3>2. k \notin Bad
      BY <1>4, <1>5, <3>1
    <3> QED BY <1>1, <1>7, <2>2, <3>1, <3>2
  <2> QED BY <2>1, <2>2
<1>9. Looks(f)
  BY <1>5, <1>6
<1>10. /\ CallsUnder[f] = Onto(CallsUnder[frame[f].back], f)
       /\ CallsUnder'[f] = (Onto(CallsUnder[frame[f].back], f))'
  BY <1>7, <1>9 DEF CallsKnown, Looks, Alike
<1>11. (Onto(CallsUnder[frame[f].back], f))' = Onto(CallsUnder[frame[f].back], f)
  BY <1>8, <1>9 DEF Onto, Looks, Alike
<1> QED BY <1>5, <1>6, <1>10, <1>11

-----------------------------------------------------------------------------
(* What the actions do to those that wait *)

LEMMA WaitStepped ==
    ASSUME IInv, NEW kind, Evaluating(kind), NEW w \in {"no", "called", "answered"}
    PROVE  /\ Stepped(w) \in [Frame -> FrameRecord] /\ Stepped(w)[cur].wait = w
           /\ \A h \in Frame \ {cur} : Stepped(w)[h].wait = frame[h].wait
<1>1. cur \in Frame /\ frame \in [Frame -> FrameRecord]
  BY Evaluated DEF IInv, TypeOK
<1>2. /\ Stepped(w) \in [Frame -> FrameRecord]
      /\ \A h \in Frame \ {cur} : Stepped(w)[h] = frame[h]
  BY SteppedFrames DEF IInv
<1>3. Stepped(w)[cur] = [frame[cur] EXCEPT !.pos = @ + 1, !.rc = @ + 1, !.wait = w]
  BY <1>1 DEF Stepped
<1>4. PICK r \in FrameRecord : r = frame[cur]
  BY <1>1
<1>5. [r EXCEPT !.pos = @ + 1, !.rc = @ + 1, !.wait = w].wait = w
  BY DEF FrameRecord
<1> QED BY <1>2, <1>3, <1>4, <1>5

LEMMA WaitRetained ==
    ASSUME NEW fs \in [Frame -> FrameRecord], NEW f \in Frame \cup {NoFrame}
    PROVE  \A h \in Frame : Retain(fs, f)[h].wait = fs[h].wait
<1>1. CASE f = NoFrame
  BY <1>1 DEF Retain
<1>2. CASE f \in Frame
  <2>1. PICK r \in FrameRecord : r = fs[f]
    BY <1>2
  <2>2. [r EXCEPT !.rc = @ + 1].wait = r.wait
    BY DEF FrameRecord
  <2>3. /\ Retain(fs, f)[f] = [r EXCEPT !.rc = @ + 1]
        /\ \A h \in Frame \ {f} : Retain(fs, f)[h] = fs[h]
    BY <1>2, <2>1, InterpreterAssumption DEF Retain
  <2> QED BY <1>2, <2>1, <2>2, <2>3
<1> QED BY <1>1, <1>2

LEMMA WaitRegisters ==
    ASSUME NEW fs \in [Frame -> FrameRecord], NEW f \in Frame, NEW hs,
           NEW gs, gs = [fs EXCEPT ![f].holds = hs]
    PROVE  \A h \in Frame : gs[h].wait = fs[h].wait
<1>1. PICK r \in FrameRecord : r = fs[f]
  OBVIOUS
<1>2. [r EXCEPT !.holds = hs].wait = r.wait
  BY DEF FrameRecord
<1>3. gs[f] = [r EXCEPT !.holds = hs] /\ \A h \in Frame \ {f} : gs[h] = fs[h]
  BY <1>1
<1> QED BY <1>1, <1>2, <1>3

LEMMA WaitMade ==
    /\ Blank.wait = "no"
    /\ \A kind, back, holds : CodeFrame(kind, back, holds).wait = "no"
    /\ \A back, o : DestroyFrame(back, o).wait = "no"
BY DEF Blank, CodeFrame, DestroyFrame

\* The frame that was evaluated is told w, the others what they were told.
Tells(w) == /\ frame'[cur].wait = w
            /\ \A h \in Frame \ {cur} : frame'[h].wait = frame[h].wait
TellsAndMakes(w) ==
    /\ frame'[cur].wait = w /\ frame'[Fresh].wait = "no"
    /\ \A h \in Frame \ {cur, Fresh} : frame'[h].wait = frame[h].wait

LEMMA NewTells == ASSUME IInv, EvalNew PROVE Tells("no")
<1>1. Evaluating("code") /\ cur \in Frame
  BY NewDoes, Evaluated DEF IInv
<1>2. PICK fs \in [Frame -> FrameRecord] : fs = Stepped("no")
  BY <1>1, WaitStepped
<1>3. fs[cur].wait = "no" /\ \A h \in Frame \ {cur} : fs[h].wait = frame[h].wait
  BY <1>1, <1>2, WaitStepped
<1>4. \E hs : frame' = [fs EXCEPT ![cur].holds = hs]
  BY <1>2 DEF EvalNew
<1> QED BY <1>1, <1>3, <1>4, WaitRegisters DEF Tells

LEMMA OverwriteTells == ASSUME IInv, EvalOverwrite PROVE Tells("no")
<1>1. Evaluating("code") /\ cur \in Frame
  BY OverwriteDoes, Evaluated DEF IInv
<1>2. PICK fs \in [Frame -> FrameRecord] : fs = Stepped("no")
  BY <1>1, WaitStepped
<1>3. fs[cur].wait = "no" /\ \A h \in Frame \ {cur} : fs[h].wait = frame[h].wait
  BY <1>1, <1>2, WaitStepped
<1>4. frame' = fs \/ \E hs : frame' = [fs EXCEPT ![cur].holds = hs]
  BY <1>2 DEF EvalOverwrite
<1>5. CASE frame' = fs
  BY <1>3, <1>5 DEF Tells
<1>6. CASE \E hs : frame' = [fs EXCEPT ![cur].holds = hs]
  BY <1>1, <1>3, <1>6, WaitRegisters DEF Tells
<1> QED BY <1>4, <1>5, <1>6

LEMMA DestroyAllTells == ASSUME IInv, EvalDestroyAll PROVE Tells("no")
<1>1. Evaluating("destroy") /\ cur \in Frame
  BY DestroyAllDoes, Evaluated DEF IInv
<1>2. frame' = Stepped("no")
  BY DEF EvalDestroyAll
<1> QED BY <1>1, <1>2, WaitStepped DEF Tells

LEMMA LeaveTells == ASSUME IInv, EvalReturn \/ EvalGotoCurrent PROVE Tells("no")
<1>1. PICK kind : Evaluating(kind)
  BY DEF EvalReturn, EvalGotoCurrent
<1>2. cur \in Frame /\ frame[cur].back \in Frame \cup {NoFrame}
  BY <1>1, Evaluated, Typed DEF IInv
<1>3. frame' = Retain(Stepped("no"), frame[cur].back)
  BY DEF EvalReturn, EvalGotoCurrent
<1>4. PICK fs \in [Frame -> FrameRecord] : fs = Stepped("no")
  BY <1>1, WaitStepped
<1>5. fs[cur].wait = "no" /\ \A h \in Frame \ {cur} : fs[h].wait = frame[h].wait
  BY <1>1, <1>4, WaitStepped
<1> QED BY <1>2, <1>3, <1>4, <1>5, WaitRetained DEF Tells

LEMMA MakeTells ==
    ASSUME IInv, NEW kind, Evaluating(kind), NEW w \in {"no", "called", "answered"},
           NEW b \in Frame \cup {NoFrame}, NEW made, made.wait = "no",
           Fresh \in Frame, Fresh # cur,
           \/ \E hs : frame' = [Retain(Stepped(w), b) EXCEPT ![cur].holds = hs, ![Fresh] = made]
           \/ frame' = [Retain(Stepped(w), b) EXCEPT ![Fresh] = made]
    PROVE  TellsAndMakes(w)
<1>1. cur \in Frame
  BY Evaluated DEF IInv
<1>2. PICK fs \in [Frame -> FrameRecord] : fs = Stepped(w)
  BY WaitStepped
<1>3. fs[cur].wait = w /\ \A h \in Frame \ {cur} : fs[h].wait = frame[h].wait
  BY <1>2, WaitStepped
<1>4. PICK gs \in [Frame -> FrameRecord] : gs = Retain(fs, b)
  BY Retained
<1>5. gs[cur].wait = w /\ \A h \in Frame \ {cur} : gs[h].wait = frame[h].wait
  BY <1>1, <1>3, <1>4, WaitRetained
<1>6. CASE \E hs : frame' = [Retain(Stepped(w), b) EXCEPT ![cur].holds = hs, ![Fresh] = made]
  <2>1. PICK hs : frame' = [gs EXCEPT ![cur].holds = hs, ![Fresh] = made]
    BY <1>2, <1>4, <1>6
  <2>2. PICK ks : ks = [gs EXCEPT ![cur].holds = hs]
    OBVIOUS
  <2>3. \A h \in Frame : ks[h].wait = gs[h].wait
    BY <1>1, <2>2, WaitRegisters
  <2>4. frame' = [ks EXCEPT ![Fresh] = made]
    BY <2>1, <2>2
  <2>5. frame'[Fresh] = made /\ \A h \in Frame \ {Fresh} : frame'[h] = ks[h]
    BY <2>2, <2>4
  <2> QED BY <1>1, <1>5, <2>3, <2>5 DEF TellsAndMakes
<1>7. CASE frame' = [Retain(Stepped(w), b) EXCEPT ![Fresh] = made]
  <2>1. frame'[Fresh] = made /\ \A h \in Frame \ {Fresh} : frame'[h] = gs[h]
    BY <1>2, <1>4, <1>7
  <2> QED BY <1>1, <1>5, <2>1 DEF TellsAndMakes
<1> QED BY <1>6, <1>7

LEMMA CallTells == ASSUME IInv, EvalCall PROVE TellsAndMakes("called")
<1>1. Evaluating("code") /\ Fresh # cur /\ Fresh \in Frame
  BY CallDoes DEF Made
<1>2. cont \in Frame \cup {NoFrame}
  BY DEF IInv, TypeOK
<1>3. PICK kind, holds : \E hs :
         frame' = [Retain(Stepped("called"), cont) EXCEPT
                      ![cur].holds = hs, ![Fresh] = CodeFrame(kind, cont, holds)]
  BY DEF EvalCall
<1>4. CodeFrame(kind, cont, holds).wait = "no"
  BY WaitMade
<1> QED BY <1>1, <1>2, <1>3, <1>4, MakeTells

LEMMA EnterTells == ASSUME IInv, EvalEnter PROVE TellsAndMakes("no")
<1>1. Evaluating("entry") /\ Fresh # cur /\ Fresh \in Frame
  BY EnterDoes DEF Made
<1>2. frame[cur].back \in Frame \cup {NoFrame}
  BY <1>1, Evaluated, Typed DEF IInv
<1>3. PICK holds : \E hs :
         frame' = [Retain(Stepped("no"), frame[cur].back) EXCEPT
                      ![cur].holds = hs, ![Fresh] = CodeFrame("code", frame[cur].back, holds)]
  BY DEF EvalEnter
<1>4. CodeFrame("code", frame[cur].back, holds).wait = "no"
  BY WaitMade
<1> QED BY <1>1, <1>2, <1>3, <1>4, MakeTells

LEMMA DestroyMethodTells == ASSUME IInv, EvalDestroyMethod PROVE TellsAndMakes("called")
<1>1. Evaluating("destroy") /\ Fresh # cur /\ Fresh \in Frame
  BY DestroyMethodDoes DEF Made
<1>2. cont \in Frame \cup {NoFrame}
  BY DEF IInv, TypeOK
<1>3. PICK holds : frame' = [Retain(Stepped("called"), cont) EXCEPT
                                ![Fresh] = CodeFrame("code", cont, holds)]
  BY DEF EvalDestroyMethod
<1>4. CodeFrame("code", cont, holds).wait = "no"
  BY WaitMade
<1> QED BY <1>1, <1>2, <1>3, <1>4, MakeTells

LEMMA SetrTells ==
    ASSUME IInv, EvalSetr
    PROVE  /\ frame'[cur].wait = "no" /\ frame'[frame[cur].back].wait = "answered"
           /\ \A h \in Frame \ {cur, frame[cur].back} : frame'[h].wait = frame[h].wait
<1>1. Evaluating("code") /\ frame[cur].back \in Frame /\ frame[cur].back # cur
  BY SetrDoes
<1>2. PICK b \in Frame : b = frame[cur].back /\ cur \in Frame /\ b # cur
  BY <1>1, Evaluated DEF IInv
<1>3. PICK fs \in [Frame -> FrameRecord] : fs = Stepped("no")
  BY <1>1, WaitStepped
<1>4. fs[cur].wait = "no" /\ \A h \in Frame \ {cur} : fs[h].wait = frame[h].wait
  BY <1>1, <1>3, WaitStepped
<1>5. PICK result \in SUBSET frame[cur].holds :
         frame' = [fs EXCEPT ![cur].holds = @ \ result, ![b].holds = @ \cup result,
                             ![b].wait = "answered"]
  BY <1>2, <1>3 DEF EvalSetr
<1>6. PICK r \in FrameRecord, q \in FrameRecord : r = fs[cur] /\ q = fs[b]
  BY <1>2
<1>7. PICK new : new = [r EXCEPT !.holds = @ \ result] /\ new.wait = r.wait
  <2>1. [r EXCEPT !.holds = @ \ result].wait = r.wait
    BY DEF FrameRecord
  <2> QED BY <2>1
<1>8. PICK told : /\ told = [[q EXCEPT !.holds = @ \cup result] EXCEPT !.wait = "answered"]
                  /\ told.wait = "answered"
  <2>1. [[q EXCEPT !.holds = @ \cup result] EXCEPT !.wait = "answered"].wait = "answered"
    BY DEF FrameRecord
  <2> QED BY <2>1
<1>9. frame'[cur] = new /\ frame'[b] = told /\ \A h \in Frame \ {cur, b} : frame'[h] = fs[h]
  BY <1>2, <1>5, <1>6, <1>7, <1>8
<1> QED BY <1>2, <1>4, <1>6, <1>7, <1>8, <1>9

LEMMA ReleaseTells ==
    ASSUME IInv, Release
    PROVE  frame'[Fresh].wait = "no" /\ \A h \in Frame \ {Fresh} : frame'[h].wait = frame[h].wait
<1>1. Fresh \in Frame /\ cont \in Frame \cup {NoFrame} /\ frame \in [Frame -> FrameRecord]
  BY ReleaseDoes DEF Made, IInv, TypeOK
<1>2. PICK gs \in [Frame -> FrameRecord] : gs = Retain(frame, cont)
  BY <1>1, Retained
<1>3. \A h \in Frame : gs[h].wait = frame[h].wait
  BY <1>1, <1>2, WaitRetained
<1>4. PICK made : made = DestroyFrame(cont, Head(agenda).obj) /\ made.wait = "no"
  BY WaitMade
<1>5. frame' = [gs EXCEPT ![Fresh] = made]
  BY <1>2, <1>4 DEF Release
<1>6. frame'[Fresh] = made /\ \A h \in Frame \ {Fresh} : frame'[h] = gs[h]
  BY <1>1, <1>5
<1> QED BY <1>3, <1>4, <1>6

LEMMA RunTells ==
    ASSUME IInv, HostRun
    PROVE  frame'[Fresh].wait = "no" /\ \A h \in Frame \ {Fresh} : frame'[h].wait = frame[h].wait
<1>1. Fresh \in Frame /\ frame \in [Frame -> FrameRecord]
  BY RunDoes DEF Made, IInv, TypeOK
<1>2. PICK made : made = CodeFrame("code", NoFrame, {}) /\ made.wait = "no"
  BY WaitMade
<1>3. frame' = [frame EXCEPT ![Fresh] = made]
  BY <1>2 DEF HostRun
<1>4. frame'[Fresh] = made /\ \A h \in Frame \ {Fresh} : frame'[h] = frame[h]
  BY <1>1, <1>3
<1> QED BY <1>2, <1>4

LEMMA DropTells ==
    ASSUME IInv, Drop \/ DropRegister
    PROVE  \A h \in Frame : frame'[h].wait = frame[h].wait
<1>1. PICK f \in Frame : f = Head(agenda).frame
  BY DropDoes, DropRegisterDoes, Unreferencing
<1>2. frame \in [Frame -> FrameRecord]
  BY DEF IInv, TypeOK
<1>3. CASE Drop
  <2>1. PICK r \in FrameRecord : r = frame[f]
    BY <1>2
  <2>2. [r EXCEPT !.rc = @ - 1].wait = r.wait
    BY DEF FrameRecord
  <2>3. frame' = [frame EXCEPT ![f].rc = @ - 1]
    BY <1>1, <1>3 DEF Drop
  <2>4. frame'[f] = [r EXCEPT !.rc = @ - 1] /\ \A h \in Frame \ {f} : frame'[h] = frame[h]
    BY <1>2, <2>1, <2>3
  <2> QED BY <2>1, <2>2, <2>4
<1>4. CASE DropRegister
  <2>1. \E hs : frame' = [frame EXCEPT ![f].holds = hs]
    BY <1>1, <1>4 DEF DropRegister
  <2> QED BY <1>2, <2>1, WaitRegisters
<1> QED BY <1>3, <1>4

LEMMA FreeTells ==
    ASSUME IInv, FreeFrame
    PROVE  \A h \in Frame \ {Head(agenda).frame} : frame'[h].wait = frame[h].wait
<1>1. frame' = [frame EXCEPT ![Head(agenda).frame] = Blank] /\ frame \in [Frame -> FrameRecord]
  BY DEF FreeFrame, IInv, TypeOK
<1> QED BY <1>1

-----------------------------------------------------------------------------
(* Who waits for whom *)

\* The frame under evaluation waits for nobody, and nobody else goes back to
\* where it goes back to.
LEMMA Foremost ==
    ASSUME IInv, WaitInv, NEW kind, Evaluating(kind)
    PROVE  /\ \A g \in Frame : frame[g].kind # "none" => frame[g].back # cur
           /\ frame[cur].kind = "code" => frame[cur].wait # "called"
           /\ \A g \in Frame : frame[g].kind # "none" /\ frame[g].back = frame[cur].back
                                 /\ frame[cur].back # NoFrame => g = cur
<1>1. PICK n \in 0 .. Cardinality(Frame) : \E s \in [1 .. n -> Frame] : Chain(n, s)
  BY DEF IInv, ChainInv
<1>2. PICK s \in [1 .. n -> Frame] : Chain(n, s)
  BY <1>1
<1>3. n >= 1 /\ n \in Nat /\ s[n] = cur /\ agenda = <<>> /\ cur \in Frame
  BY <1>2, LastOfChain, Evaluated DEF IInv
<1>4. \A g \in Frame : frame[g].kind # "none" =>
         \E i \in 1 .. n : s[i] = g /\ frame[g].back = IF i = 1 THEN NoFrame ELSE s[i - 1]
  <2> SUFFICES ASSUME NEW g \in Frame, frame[g].kind # "none"
               PROVE  \E i \in 1 .. n : s[i] = g
                        /\ frame[g].back = IF i = 1 THEN NoFrame ELSE s[i - 1]
    OBVIOUS
  <2>1. PICK i \in 1 .. n : s[i] = g
    BY <1>2, <1>3, NoneLeaving DEF IInv, InChain
  <2> QED BY <1>2, <2>1 DEF Chain, Links
<1>5. \A i, j \in 1 .. n : s[i] = s[j] => i = j
  BY <1>2 DEF Chain
<1>6. ASSUME NEW g \in Frame, frame[g].kind # "none", frame[g].back = cur PROVE FALSE
  <2>1. PICK i \in 1 .. n : s[i] = g /\ cur = IF i = 1 THEN NoFrame ELSE s[i - 1]
    BY <1>4, <1>6
  <2>2. i # 1 /\ i - 1 \in 1 .. n /\ n \in 1 .. n /\ i - 1 # n
    BY <1>3, <2>1, InterpreterAssumption
  <2> QED BY <1>3, <1>5, <2>1, <2>2
<1>7. frame[cur].kind = "code" => frame[cur].wait # "called"
  <2>1. \A f \in Frame : Unanswered(f) => frame[f].kind # "none"
    BY DEF Unanswered
  <2> QED BY <1>3, <1>6, <2>1 DEF WaitInv, Waits
<1>8. ASSUME NEW g \in Frame, frame[g].kind # "none", frame[g].back = frame[cur].back,
             frame[cur].back # NoFrame
      PROVE  g = cur
  <2>1. PICK i \in 1 .. n : s[i] = g /\ frame[g].back = IF i = 1 THEN NoFrame ELSE s[i - 1]
    BY <1>4, <1>8
  <2>2. frame[cur].back = IF n = 1 THEN NoFrame ELSE s[n - 1]
    BY <1>2, LastOfChain
  <2>3. i # 1 /\ n # 1 /\ i - 1 \in 1 .. n /\ n - 1 \in 1 .. n /\ s[i - 1] = s[n - 1]
    <3>1. i # 1 /\ frame[g].back = s[i - 1]
      BY <1>8, <2>1
    <3>2. n # 1 /\ frame[cur].back = s[n - 1]
      BY <1>8, <2>2
    <3>3. i - 1 \in 1 .. n /\ n - 1 \in 1 .. n
      BY <1>3, <2>1, <3>1, <3>2
    <3> QED BY <1>8, <3>1, <3>2, <3>3
  <2>4. i - 1 = n - 1
    BY <1>5, <2>3
  <2>5. i = n
    BY <1>3, <2>4
  <2> QED BY <1>3, <2>1, <2>5
<1> QED BY <1>6, <1>7, <1>8

\* The frames that go back, and where to, are the same afterwards.
LEMMA WaitsKept ==
    ASSUME IInv, WaitInv, NEW g \in Frame, Stands(g),
           frame[g].kind # "none" /\ frame[g].back \in Frame =>
              frame'[frame[g].back].kind = frame[frame[g].back].kind
              /\ frame'[frame[g].back].wait = frame[frame[g].back].wait,
           \A f \in Frame : Unanswered(f) /\ frame[f].back = g =>
              \E h \in Frame : Unanswered(h)' /\ frame'[h].back = g
    PROVE  Waits(g)'
<1>1. frame[g].back \in Frame \cup {NoFrame}
  BY Typed DEF IInv
<1>2. Waits(g)
  BY DEF WaitInv
<1>3. /\ frame'[g].kind = frame[g].kind /\ frame'[g].back = frame[g].back
      /\ frame'[g].pos = frame[g].pos /\ frame'[g].wait = frame[g].wait
  BY DEF Stands, Rests, Alike
<1>4. (Program(g) /\ frame[g].back # NoFrame => GoesBack(g, frame[g].back))'
  BY <1>1, <1>2, <1>3 DEF Waits, Program, GoesBack, Answered
<1>5. (frame[g].kind = "code" /\ frame[g].wait = "called" =>
          \E f \in Frame : Unanswered(f) /\ frame[f].back = g)'
  BY <1>2, <1>3 DEF Waits
<1> QED BY <1>2, <1>3, <1>4, <1>5 DEF Waits

\* A frame that goes on, and does not answer, keeps those waiting that wait.
LEMMA StepWaits ==
    ASSUME IInv, WaitInv, NEW kind \in {"code", "destroy"}, Evaluating(kind), Tells("no"),
           Alike(cur), frame'[cur].pos = frame[cur].pos + 1,
           \A h \in Frame \ {cur} : Rests(h), kind = "code" => frame[cur].pos # Body
    PROVE  WaitInv'
<1>1. /\ cur \in Frame /\ frame[cur].kind = kind /\ frame[cur].pos < Length(frame[cur])
      /\ frame[cur].pos \in Nat /\ Body \in Nat /\ frame[cur].back \in Frame \cup {NoFrame}
  BY Evaluated, Typed, InterpreterAssumption DEF IInv
<1>2. \A h \in Frame \ {cur} : Stands(h)
  BY DEF Stands, Tells
<1>2a. /\ frame'[cur].kind = kind /\ frame'[cur].back = frame[cur].back
       /\ frame'[cur].wait = "no" /\ frame'[cur].pos = frame[cur].pos + 1
  BY <1>1 DEF Alike, Tells
<1>3. ASSUME NEW f \in Frame, Unanswered(f)
      PROVE  Unanswered(f)' /\ frame'[f].back = frame[f].back
  <2>1. CASE f = cur
    <3>1. kind = "code" /\ frame[cur].pos <= Body /\ frame[cur].pos # Body
      BY <1>1, <1>3, <2>1 DEF Unanswered
    <3>2. frame'[cur].pos <= Body
      BY <1>1, <1>2a, <3>1
    <3> QED BY <1>2a, <2>1, <3>1, <3>2 DEF Unanswered
  <2>2. CASE f # cur
    <3>1. Stands(f)
      BY <1>2, <2>2
    <3> QED BY <1>3, <3>1 DEF Unanswered, Stands, Rests, Alike
  <2> QED BY <2>1, <2>2
<1>4. ASSUME NEW g \in Frame, g # cur PROVE Waits(g)'
  <2>1. frame[g].kind # "none" => frame[g].back # cur
    BY Foremost
  <2>2. frame[g].kind # "none" /\ frame[g].back \in Frame =>
              frame'[frame[g].back].kind = frame[frame[g].back].kind
              /\ frame'[frame[g].back].wait = frame[frame[g].back].wait
    BY <1>2, <2>1 DEF Stands, Rests, Alike
  <2> QED BY <1>2, <1>3, <1>4, <2>2, WaitsKept
<1>5. PICK c \in Frame : c = cur
  BY <1>1
<1>6. Waits(c)'
  <2>1. Waits(c)
    BY <1>1 DEF WaitInv
  <2>2. CASE kind = "destroy"
    BY <1>2a, <1>5, <2>2 DEF Waits, Program
  <2>3. CASE kind = "code"
    <3>1. Answered(c)' <=> Answered(c)
      <4>1. frame[cur].pos # Body
        BY <2>3
      <4>2. (frame[cur].pos + 1 > Body) <=> (frame[cur].pos > Body)
        BY <1>1, <4>1
      <4> QED BY <1>1, <1>2a, <1>5, <2>3, <4>2 DEF Answered
    <3>2. ASSUME frame[c].back # NoFrame PROVE GoesBack(c, frame[c].back)'
      <4>1. PICK b \in Frame : b = frame[c].back
        BY <1>1, <1>5, <3>2
      <4>2. GoesBack(c, b) /\ b # cur
        BY <1>1, <1>5, <2>1, <2>3, <3>2, <4>1, Foremost DEF Waits, Program
      <4>3. frame'[b].kind = frame[b].kind /\ frame'[b].wait = frame[b].wait
        BY <1>2, <4>2 DEF Stands, Rests, Alike
      <4> QED BY <1>2a, <1>5, <3>1, <4>1, <4>2, <4>3 DEF GoesBack
    <3>3. ASSUME frame[c].back = NoFrame PROVE frame'[cur].pos <= Body
      <4>1. Length(frame[cur]) = Body
        BY <1>1, <1>5, <2>3, <3>3 DEF Length
      <4> QED BY <1>1, <1>2a, <4>1
    <3> QED BY <1>2a, <1>5, <2>3, <3>2, <3>3 DEF Waits
  <2> QED BY <2>2, <2>3
<1> QED BY <1>4, <1>5, <1>6 DEF WaitInv

\* Frames that are not evaluated, while one is made
LEMMA OthersWait ==
    ASSUME IInv, WaitInv, NEW kind, Evaluating(kind),
           NEW fresh \in Frame, frame[fresh].kind = "none", fresh # cur,
           \A h \in Frame \ {cur, fresh} : Stands(h),
           \A f \in Frame : Unanswered(f) =>
              \E h \in Frame : Unanswered(h)' /\ frame'[h].back = frame[f].back,
           NEW g \in Frame, g # cur, g # fresh
    PROVE  Waits(g)'
<1>1. frame[g].kind # "none" => frame[g].back # cur
  BY Foremost
<1>2. frame[g].kind # "none" /\ frame[g].back \in Frame => frame[frame[g].back].kind # "none"
  <2> SUFFICES ASSUME frame[g].kind # "none", NEW b \in Frame, b = frame[g].back
               PROVE  frame[b].kind # "none"
    OBVIOUS
  <2>1. g \in Backs(b)
    BY DEF Backs
  <2> QED BY <2>1, Referred DEF IInv
<1>3. frame[g].kind # "none" /\ frame[g].back \in Frame =>
              frame'[frame[g].back].kind = frame[frame[g].back].kind
              /\ frame'[frame[g].back].wait = frame[frame[g].back].wait
  BY <1>1, <1>2 DEF Stands, Rests, Alike
<1> QED BY <1>3, WaitsKept

\* A call, of code or of a method that destroys
LEMMA CallWaits ==
    ASSUME IInv, WaitInv, NEW kind \in {"code", "destroy"}, Evaluating(kind),
           TellsAndMakes("called"), NEW made \in {"code", "entry"}, NEW value, NEW given,
           Made(Fresh, made, cur, value, given), Fresh # cur,
           Alike(cur), frame'[cur].pos = frame[cur].pos + 1,
           \A h \in Frame \ {cur, Fresh} : Rests(h), kind = "code" => frame[cur].pos < Body
    PROVE  WaitInv'
<1>1. PICK c \in Frame, f \in Frame : c = cur /\ f = Fresh /\ f # c
  BY Evaluated DEF IInv, Made
<1>2. /\ frame[c].kind = kind /\ frame[c].pos \in Nat /\ Body \in Nat
      /\ frame[c].back \in Frame \cup {NoFrame}
  BY <1>1, Evaluated, Typed, InterpreterAssumption DEF IInv
<1>3. /\ frame'[c].kind = kind /\ frame'[c].back = frame[c].back
      /\ frame'[c].wait = "called" /\ frame'[c].pos = frame[c].pos + 1
  BY <1>1, <1>2 DEF Alike, TellsAndMakes
<1>4. /\ frame[f].kind = "none" /\ frame'[f].kind = made /\ frame'[f].pos = 0
      /\ frame'[f].back = c /\ frame'[f].wait = "no"
  BY <1>1 DEF Made, TellsAndMakes
<1>5. \A h \in Frame \ {c, f} : Stands(h)
  BY <1>1 DEF Stands, TellsAndMakes
<1>6. kind = "code" => frame'[c].pos <= Body /\ frame[c].pos <= Body
  BY <1>1, <1>2, <1>3
<1>7. Waits(f)'
  <2>1. ~Answered(f)'
    BY <1>2, <1>4 DEF Answered
  <2>2. GoesBack(f, c)'
    BY <1>3, <2>1 DEF GoesBack
  <2> QED BY <1>1, <1>2, <1>4, <2>2, InterpreterAssumption DEF Waits
<1>8. Waits(c)'
  <2>1. CASE kind = "destroy"
    BY <1>3, <2>1 DEF Waits, Program
  <2>2. CASE kind = "code"
    <3>1. Unanswered(f)'
      BY <1>2, <1>4 DEF Unanswered
    <3>2. ASSUME NEW b \in Frame, b = frame[c].back PROVE GoesBack(c, b)'
      <4>1. GoesBack(c, b) /\ b # c /\ b # f
        <5>1. b # c
          BY <1>1, <1>2, <2>2, <3>2, Foremost
        <5>2. c \in Backs(b)
          BY <1>2, <2>2, <3>2 DEF Backs
        <5>3. frame[b].kind # "none"
          BY <5>2, Referred DEF IInv
        <5> QED BY <1>2, <1>4, <2>2, <3>2, <5>1, <5>3, InterpreterAssumption
                DEF WaitInv, Waits, Program
      <4>2. frame'[b].kind = frame[b].kind /\ frame'[b].wait = frame[b].wait
        BY <1>5, <4>1 DEF Stands, Rests, Alike
      <4>3. ~Answered(c)' /\ ~Answered(c)
        BY <1>2, <1>3, <1>6, <2>2 DEF Answered
      <4> QED BY <4>1, <4>2, <4>3 DEF GoesBack
    <3> QED BY <1>2, <1>3, <1>4, <1>6, <2>2, <3>1, <3>2 DEF Waits
  <2> QED BY <2>1, <2>2
<1>9. ASSUME NEW u \in Frame, Unanswered(u)
      PROVE  \E h \in Frame : Unanswered(h)' /\ frame'[h].back = frame[u].back
  <2>1. CASE u = c
    <3>1. kind = "code"
      BY <1>2, <1>9, <2>1 DEF Unanswered
    <3> QED BY <1>3, <1>6, <2>1, <3>1 DEF Unanswered
  <2>2. CASE u # c
    <3>1. u # f
      BY <1>4, <1>9 DEF Unanswered
    <3> QED BY <1>5, <1>9, <2>2, <3>1 DEF Unanswered, Stands, Rests, Alike
  <2> QED BY <2>1, <2>2
<1>10. ASSUME NEW g \in Frame, g # c, g # f PROVE Waits(g)'
  BY <1>1, <1>4, <1>5, <1>9, <1>10, OthersWait
<1> QED BY <1>7, <1>8, <1>10 DEF WaitInv

\* The body of a call takes the place of the frame that has bound its arguments.
LEMMA EnterWaits ==
    ASSUME IInv, WaitInv, Evaluating("entry"), TellsAndMakes("no"), NEW value, NEW given,
           Made(Fresh, "code", frame[cur].back, value, given), Fresh # cur,
           Alike(cur), frame[cur].pos = 0, frame'[cur].pos = frame[cur].pos + 1,
           \A h \in Frame \ {cur, Fresh} : Rests(h)
    PROVE  WaitInv'
<1>1. PICK c \in Frame, f \in Frame : c = cur /\ f = Fresh /\ f # c
  BY Evaluated DEF IInv, Made
<1>2. /\ frame[c].kind = "entry" /\ Body \in Nat /\ frame[c].back # c
      /\ frame[c].back \in Frame
  <2>1. frame[c].kind = "entry" /\ Body \in Nat /\ frame[c].back # c
          /\ frame[c].back \in Frame \cup {NoFrame}
    BY <1>1, Evaluated, Typed, InterpreterAssumption, Foremost DEF IInv
  <2>2. PICK n \in 0 .. Cardinality(Frame) : \E s \in [1 .. n -> Frame] : Chain(n, s)
    BY DEF IInv, ChainInv
  <2>3. PICK s \in [1 .. n -> Frame] : Chain(n, s)
    BY <2>2
  <2>4. n > 1 /\ n \in Nat /\ frame[c].back = IF n = 1 THEN NoFrame ELSE s[n - 1]
    BY <1>1, <2>3, LastOfChain
  <2>5. frame[c].back = s[n - 1] /\ n - 1 \in 1 .. n
    BY <2>4
  <2> QED BY <2>1, <2>5
<1>3. PICK b \in Frame : b = frame[c].back /\ b # c
  BY <1>2
<1>4. /\ frame'[c].kind = "entry" /\ frame'[c].back = b
      /\ frame'[c].wait = "no" /\ frame'[c].pos = 1
  BY <1>1, <1>2, <1>3 DEF Alike, TellsAndMakes
<1>5. /\ frame[f].kind = "none" /\ frame'[f].kind = "code" /\ frame'[f].pos = 0
      /\ frame'[f].back = b /\ frame'[f].wait = "no"
  BY <1>1, <1>3 DEF Made, TellsAndMakes
<1>6. \A h \in Frame \ {c, f} : Stands(h)
  BY <1>1 DEF Stands, TellsAndMakes
<1>7. ~Answered(c) /\ ~Answered(c)' /\ ~Answered(f)'
  BY <1>2, <1>4, <1>5 DEF Answered
<1>8. GoesBack(c, b) /\ b # f
  <2>1. c \in Backs(b)
    BY <1>2, <1>3 DEF Backs
  <2>2. frame[b].kind # "none"
    BY <2>1, Referred DEF IInv
  <2> QED BY <1>2, <1>3, <1>5, <2>2, InterpreterAssumption DEF WaitInv, Waits, Program
<1>9. GoesBack(c, b)' /\ GoesBack(f, b)'
  <2>1. frame'[b].kind = frame[b].kind /\ frame'[b].wait = frame[b].wait
    BY <1>3, <1>6, <1>8 DEF Stands, Rests, Alike
  <2> QED BY <1>7, <1>8, <2>1 DEF GoesBack
<1>10. b # NoFrame
  BY InterpreterAssumption
<1>11. Waits(f)' /\ Waits(c)'
  BY <1>4, <1>5, <1>9, <1>10 DEF Waits
<1>12. ASSUME NEW u \in Frame, Unanswered(u)
       PROVE  \E h \in Frame : Unanswered(h)' /\ frame'[h].back = frame[u].back
  <2>1. CASE u = c
    BY <1>2, <1>3, <1>5, <2>1 DEF Unanswered
  <2>2. CASE u # c
    <3>1. u # f
      BY <1>5, <1>12 DEF Unanswered
    <3> QED BY <1>6, <1>12, <2>2, <3>1 DEF Unanswered, Stands, Rests, Alike
  <2> QED BY <2>1, <2>2
<1>13. ASSUME NEW g \in Frame, g # c, g # f PROVE Waits(g)'
  BY <1>1, <1>5, <1>6, <1>12, <1>13, OthersWait
<1> QED BY <1>11, <1>13 DEF WaitInv

\* The caller is told that its call has been answered.
LEMMA SetrWaits == ASSUME IInv, WaitInv, EvalSetr PROVE WaitInv'
<1>1. PICK c \in Frame, b \in Frame : c = cur /\ b = frame[c].back /\ b # c
  BY SetrDoes, Evaluated DEF IInv
<1>2. /\ Evaluating("code") /\ frame[c].kind = "code" /\ frame[c].pos = Body /\ Body \in Nat
  BY <1>1, SetrDoes, Evaluated, InterpreterAssumption DEF IInv
<1>3. /\ frame'[c].kind = "code" /\ frame'[c].back = b /\ frame'[c].pos = Body + 1
      /\ frame'[c].wait = "no"
  BY <1>1, <1>2, SetrDoes, SetrTells DEF Steps, Alike
<1>4. Rests(b) /\ frame'[b].wait = "answered"
  BY <1>1, SetrDoes, SetrTells
<1>5. \A h \in Frame \ {c, b} : Stands(h)
  BY <1>1, SetrDoes, SetrTells DEF Keeps, Stands
<1>6. b # NoFrame /\ GoesBack(c, b)
  BY <1>1, <1>2, InterpreterAssumption DEF WaitInv, Waits, Program
<1>7. Waits(c)'
  <2>1. Answered(c)'
    BY <1>2, <1>3 DEF Answered
  <2>2. GoesBack(c, b)'
    BY <1>4, <1>6, <2>1 DEF GoesBack, Rests, Alike
  <2> QED BY <1>3, <1>6, <2>2 DEF Waits
<1>8. \A g \in Frame : /\ frame[g].kind # "none" => frame[g].back # c
                       /\ frame[g].kind # "none" /\ frame[g].back = b => g = c
  BY <1>1, <1>2, <1>6, Foremost
<1>9. ASSUME NEW g \in Frame, g # c, g # b PROVE Waits(g)'
  <2>1. \A f \in Frame : Unanswered(f) /\ frame[f].back = g =>
              Unanswered(f)' /\ frame'[f].back = g
    <3> SUFFICES ASSUME NEW f \in Frame, Unanswered(f), frame[f].back = g
                 PROVE  Unanswered(f)' /\ frame'[f].back = g
      OBVIOUS
    <3>1. f # c
      BY <1>1, <1>9
    <3>2. Rests(f)
      BY <1>4, <1>5, <3>1 DEF Stands
    <3> QED BY <3>2 DEF Unanswered, Rests, Alike
  <2>2. frame[g].kind # "none" /\ frame[g].back \in Frame =>
              frame'[frame[g].back].kind = frame[frame[g].back].kind
              /\ frame'[frame[g].back].wait = frame[frame[g].back].wait
    BY <1>5, <1>8, <1>9 DEF Stands, Rests, Alike
  <2>3. Stands(g)
    BY <1>5, <1>9
  <2> QED BY <2>1, <2>2, <2>3, WaitsKept
<1>10. Waits(b)'
  <2>1. frame[b].kind \in {"code", "destroy"}
    BY <1>6 DEF GoesBack
  <2>2. CASE frame[b].kind = "destroy"
    BY <1>4, <2>2 DEF Waits, Program, Rests, Alike
  <2>3. CASE frame[b].kind = "code"
    <3>1. ASSUME NEW d \in Frame, d = frame[b].back PROVE GoesBack(b, d)'
      <4>1. d # c /\ d # b
        BY <1>1, <1>8, <2>3, <3>1
      <4>2. GoesBack(b, d)
        BY <2>3, <3>1, InterpreterAssumption DEF WaitInv, Waits, Program
      <4>3. frame'[d].kind = frame[d].kind /\ frame'[d].wait = frame[d].wait
        BY <1>5, <4>1 DEF Stands, Rests, Alike
      <4>4. Answered(b)' <=> Answered(b)
        BY <1>4 DEF Answered, Rests, Alike
      <4> QED BY <4>2, <4>3, <4>4 DEF GoesBack
    <3>2. frame[b].back \in Frame \cup {NoFrame}
      BY Typed DEF IInv
    <3>3. frame[b].back = NoFrame => frame'[b].pos <= Body
      BY <1>4, <2>3 DEF WaitInv, Waits, Rests
    <3> QED BY <1>4, <2>3, <3>1, <3>2, <3>3 DEF Waits, Rests, Alike
  <2> QED BY <2>1, <2>2, <2>3
<1> QED BY <1>7, <1>9, <1>10 DEF WaitInv

\* A frame is made that goes back to no body: for a destruction or a program.
LEMMA MadeWaits ==
    ASSUME IInv, WaitInv, NEW fresh, NEW kind, NEW back, NEW value, NEW given,
           Made(fresh, kind, back, value, given), frame'[fresh].wait = "no",
           kind = "destroy" \/ (kind = "code" /\ back = NoFrame),
           \A h \in Frame \ {fresh} : Stands(h)
    PROVE  WaitInv'
<1>1. /\ fresh \in Frame /\ frame[fresh].kind = "none" /\ frame'[fresh].kind = kind
      /\ frame'[fresh].pos = 0 /\ frame'[fresh].back = back /\ Body \in Nat
  BY InterpreterAssumption DEF Made
<1>2. Waits(fresh)'
  <2>1. CASE kind = "destroy"
    BY <1>1, <2>1 DEF Waits, Program
  <2>2. CASE kind = "code" /\ back = NoFrame
    BY <1>1, <2>2 DEF Waits
  <2> QED BY <2>1, <2>2
<1>3. ASSUME NEW g \in Frame, g # fresh PROVE Waits(g)'
  <2>1. \A f \in Frame : Unanswered(f) => Unanswered(f)' /\ frame'[f].back = frame[f].back
    <3> SUFFICES ASSUME NEW f \in Frame, Unanswered(f)
                 PROVE  Unanswered(f)' /\ frame'[f].back = frame[f].back
      OBVIOUS
    <3>1. f # fresh
      BY <1>1 DEF Unanswered
    <3> QED BY <3>1 DEF Unanswered, Stands, Rests, Alike
  <2>2. ASSUME frame[g].kind # "none", NEW b \in Frame, b = frame[g].back
        PROVE  frame'[b].kind = frame[b].kind /\ frame'[b].wait = frame[b].wait
    <3>1. g \in Backs(b)
      BY <2>2 DEF Backs
    <3>2. b # fresh
      BY <1>1, <3>1, Referred DEF IInv
    <3> QED BY <3>2 DEF Stands, Rests, Alike
  <2> QED BY <1>3, <2>1, <2>2, WaitsKept
<1> QED BY <1>2, <1>3 DEF WaitInv

\* A frame is freed to which nothing goes back, and nothing waits for it.
LEMMA FreeWaits == ASSUME IInv, WaitInv, FreeFrame PROVE WaitInv'
<1>1. PICK f \in Frame : f = Head(agenda).frame
  BY FreeDoes, Unreferencing
<1>2. PICK n \in 0 .. Cardinality(Frame) : \E s \in [1 .. n -> Frame] : Chain(n, s)
  BY DEF IInv, ChainInv
<1>3. PICK s \in [1 .. n -> Frame] : Chain(n, s)
  BY <1>2
<1>4. Leaving(n, s, f) /\ Backed(f) = 0
  <2>1. agenda # <<>> /\ Head(agenda).op = "unref" /\ n \in Nat
    BY FreeDoes, Unreferencing, FrameSets
  <2> QED BY <1>1, <1>3, <2>1, LastReference, FreeDoes DEF IInv
<1>5. ~HasNext(frame[f])
  BY <1>3, <1>4 DEF Chain, LeavesOne
<1>6. \A g \in Frame : frame[g].kind # "none" => frame[g].back # f
  <2> SUFFICES ASSUME NEW g \in Frame, frame[g].kind # "none", frame[g].back = f PROVE FALSE
    OBVIOUS
  <2>1. g \in Backs(f)
    BY DEF Backs
  <2> QED BY <1>4, <2>1, BackedNumber, NonEmpty DEF Backed
<1>7. frame'[f] = Blank /\ \A h \in Frame \ {f} : Stands(h)
  BY <1>1, FreeDoes, FreeTells DEF Keeps, Stands
<1>8. Waits(f)'
  <2>1. frame'[f].kind = "none"
    BY <1>7 DEF Blank
  <2> QED BY <2>1 DEF Waits, Program
<1>9. ASSUME NEW g \in Frame, g # f PROVE Waits(g)'
  <2>1. \A u \in Frame : Unanswered(u) /\ frame[u].back = g =>
              Unanswered(u)' /\ frame'[u].back = g
    <3> SUFFICES ASSUME NEW u \in Frame, Unanswered(u), frame[u].back = g
                 PROVE  Unanswered(u)' /\ frame'[u].back = g
      OBVIOUS
    <3>1. u # f
      <4>1. frame[u].pos \in Nat /\ Body \in Nat /\ g # NoFrame
        BY Typed, InterpreterAssumption DEF IInv
      <4>2. CASE frame[u].kind = "entry" /\ frame[u].pos = 0
        <5>1. HasNext(frame[u])
          BY <4>2 DEF HasNext, Length
        <5> QED BY <1>5, <5>1
      <4>3. CASE frame[u].kind = "code" /\ frame[u].pos <= Body
        <5>1. Length(frame[u]) = Body + 2
          BY <4>1, <4>3 DEF Length
        <5>2. HasNext(frame[u])
          BY <4>1, <4>3, <5>1 DEF HasNext
        <5> QED BY <1>5, <5>2
      <4> QED BY <4>2, <4>3 DEF Unanswered
    <3> QED BY <1>7, <3>1 DEF Unanswered, Stands, Rests, Alike
  <2>2. frame[g].kind # "none" /\ frame[g].back \in Frame =>
              frame'[frame[g].back].kind = frame[frame[g].back].kind
              /\ frame'[frame[g].back].wait = frame[frame[g].back].wait
    BY <1>6, <1>7 DEF Stands, Rests, Alike
  <2>3. Stands(g)
    BY <1>7, <1>9
  <2> QED BY <2>1, <2>2, <2>3, WaitsKept
<1> QED BY <1>8, <1>9 DEF WaitInv

LEMMA SameWaits == ASSUME IInv, WaitInv, \A h \in Frame : Stands(h) PROVE WaitInv'
<1> SUFFICES ASSUME NEW g \in Frame PROVE Waits(g)'
  BY DEF WaitInv
<1>1. \A u \in Frame : Unanswered(u) => Unanswered(u)' /\ frame'[u].back = frame[u].back
  BY DEF Unanswered, Stands, Rests, Alike
<1>2. frame[g].back \in Frame =>
          frame'[frame[g].back].kind = frame[frame[g].back].kind
          /\ frame'[frame[g].back].wait = frame[frame[g].back].wait
  BY DEF Stands, Rests, Alike
<1> QED BY <1>1, <1>2, WaitsKept

-----------------------------------------------------------------------------
(* Where a goto leads *)

LEMMA NoGoto ==
    ASSUME agenda' \in Seq(Op), agenda' # <<>> => agenda'[1].op # "goto"
    PROVE  ~Doing("goto")'
BY DEF Doing

LEMMA NoGotoAfter ==
    ASSUME IInv, agenda # <<>>, agenda' = Tail(agenda)
    PROVE  agenda' \in Seq(Op) /\ ~Doing("goto")'
<1>1. /\ Tail(agenda) \in Seq(Op) /\ Len(Tail(agenda)) = Len(agenda) - 1
      /\ \A i \in 1 .. Len(agenda) - 1 : Tail(agenda)[i] = agenda[i + 1]
      /\ Len(agenda) \in Nat
  BY Stack DEF IInv, TypeOK
<1>2. \A i \in 2 .. Len(agenda) : agenda[i].op # "goto"
  BY DEF IInv, AgendaInv
<1>3. agenda' # <<>> => Len(agenda) >= 2
  BY <1>1, EmptySeq
<1>4. agenda' # <<>> => agenda'[1] = agenda[2] /\ 2 \in 2 .. Len(agenda)
  BY <1>1, <1>3
<1> QED BY <1>1, <1>2, <1>4, NoGoto

LEMMA NoGotoFirst ==
    ASSUME NEW x \in Op, x.op # "goto", NEW ops \in Seq(Op), agenda' = <<x>> \o ops
    PROVE  ~Doing("goto")'
<1>1. agenda' \in Seq(Op) /\ agenda'[1] = x
  BY Pushing
<1> QED BY <1>1, NoGoto

LEMMA NoGotoOne ==
    ASSUME NEW x \in Op, x.op # "goto",
           agenda' = <<x>> \/ (\E y \in Op : y.op = "unref" /\ agenda' = <<x, y>>)
    PROVE  ~Doing("goto")'
<1>1. agenda' \in Seq(Op) /\ agenda'[1] = x
  BY OpsOne, OpsTwo
<1> QED BY <1>1, NoGoto

\* Steps that do not end in a goto
LEMMA QuietGoto ==
    ASSUME IInv,
           \/ Goto \/ Drop \/ DropRegister \/ FreeFrame
           \/ EvalNew \/ EvalOverwrite \/ EvalSetr \/ EvalDestroyAll
           \/ LoopEnter \/ Reread \/ LoopExit
           \/ HostCreate \/ HostRelease \/ ReleaseInterpreter \/ Terminated
    PROVE  ~Doing("goto")'
<1>1. agenda \in Seq(Op) /\ cont \in Frame \cup {NoFrame}
  BY DEF IInv, TypeOK
<1>2. CASE Goto
  <2>1. agenda # <<>> /\ Tail(agenda) \in Seq(Op)
    BY <1>2, Stack DEF Goto, Doing, IInv
  <2>2. CASE cont = NoFrame
    <3>1. agenda' = Tail(agenda)
      BY <1>2, <2>1, <2>2, Nothing DEF Goto
    <3> QED BY <2>1, <3>1, NoGotoAfter
  <2>3. CASE cont # NoFrame
    <3>1. agenda' = <<Unref(cont)>> \o Tail(agenda)
      BY <1>2, <2>3 DEF Goto
    <3>2. Unref(cont) \in Op /\ Unref(cont).op # "goto"
      BY <1>1, <2>3, Operations
    <3> QED BY <2>1, <3>1, <3>2, NoGotoFirst
  <2> QED BY <2>2, <2>3
<1>3. CASE Drop
  <2>1. agenda # <<>> /\ agenda' = Tail(agenda)
    BY <1>3, DropDoes, Unreferencing
  <2> QED BY <2>1, NoGotoAfter
<1>4. CASE DropRegister
  <2>1. PICK o \in Object : agenda' = <<ReleaseOp(o)>> \o agenda
    BY <1>4, DropRegisterDoes
  <2>2. ReleaseOp(o) \in Op /\ ReleaseOp(o).op # "goto"
    BY Operations
  <2> QED BY <1>1, <2>1, <2>2, NoGotoFirst
<1>5. CASE FreeFrame
  <2>1. PICK f \in Frame : f = Head(agenda).frame
    BY <1>5, FreeDoes, Unreferencing
  <2>2. agenda # <<>> /\ Tail(agenda) \in Seq(Op) /\ frame[f].back \in Frame \cup {NoFrame}
    BY <1>5, FreeDoes, Unreferencing, Typed DEF IInv
  <2>3. CASE frame[f].back = NoFrame
    <3>1. agenda' = Tail(agenda)
      BY <1>5, <2>1, <2>2, <2>3, FreeDoes, Nothing
    <3> QED BY <2>2, <3>1, NoGotoAfter
  <2>4. CASE frame[f].back # NoFrame
    <3>1. agenda' = <<Unref(frame[f].back)>> \o Tail(agenda)
      BY <1>5, <2>1, <2>4, FreeDoes
    <3>2. Unref(frame[f].back) \in Op /\ Unref(frame[f].back).op # "goto"
      BY <2>2, <2>4, Operations
    <3> QED BY <2>2, <3>1, <3>2, NoGotoFirst
  <2> QED BY <2>3, <2>4
<1>6. CASE EvalNew \/ EvalSetr
  <2>1. cur \in Frame /\ agenda' = <<Unref(cur)>>
    BY <1>6, NewDoes, SetrDoes, Evaluated DEF IInv
  <2>2. Unref(cur) \in Op /\ Unref(cur).op # "goto"
    BY <2>1, Operations
  <2> QED BY <2>1, <2>2, NoGotoOne
<1>7. CASE EvalOverwrite \/ EvalDestroyAll
  <2>1. cur \in Frame
    BY <1>7, OverwriteDoes, DestroyAllDoes, Evaluated DEF IInv
  <2>2. Unref(cur) \in Op /\ Unref(cur).op = "unref"
    BY <2>1, Operations
  <2>3. agenda' = <<Unref(cur)>> \/ \E o \in Object : agenda' = <<ReleaseOp(o), Unref(cur)>>
    <3>1. frame[cur].holds \subseteq Object
      BY <2>1, Typed DEF IInv
    <3> QED BY <1>7, <3>1, OverwriteDoes, DestroyAllDoes
  <2>4. CASE agenda' = <<Unref(cur)>>
    BY <2>2, <2>4, NoGotoOne
  <2>5. CASE \E o \in Object : agenda' = <<ReleaseOp(o), Unref(cur)>>
    <3>1. PICK o \in Object : agenda' = <<ReleaseOp(o), Unref(cur)>>
      BY <2>5
    <3>2. ReleaseOp(o) \in Op /\ ReleaseOp(o).op # "goto"
      BY Operations
    <3> QED BY <2>2, <3>1, <3>2, NoGotoOne
  <2> QED BY <2>3, <2>4, <2>5
<1>8. CASE LoopEnter \/ Reread \/ LoopExit \/ HostCreate \/ Terminated
  <2>1. agenda' = <<>>
    BY <1>8 DEF LoopEnter, Reread, LoopExit, HostCreate, HostFree, Terminated, vars
  <2> QED BY <2>1 DEF Doing
<1>9. CASE HostRelease
  <2>1. PICK o \in hostHolds : agenda' = <<ReleaseOp(o)>>
    BY <1>9 DEF HostRelease
  <2>2. ReleaseOp(o) \in Op /\ ReleaseOp(o).op # "goto"
    BY Operations DEF IInv, TypeOK
  <2> QED BY <2>1, <2>2, NoGotoOne
<1>10. CASE ReleaseInterpreter
  <2>1. agenda' = <<>>
    BY <1>10, StoppedEmpty DEF ReleaseInterpreter
  <2> QED BY <2>1 DEF Doing
<1> QED BY <1>2, <1>3, <1>4, <1>5, <1>6, <1>7, <1>8, <1>9, <1>10

Leads(f) == \/ f = NoFrame /\ Ran
            \/ f # NoFrame /\ (Called(f) \/ Started(f) \/ EntersBody(f))
            \/ Returns(f)

LEMMA GotoTo ==
    ASSUME NEW f \in Frame \cup {NoFrame}, NEW ops \in Seq(Op),
           agenda' = <<GotoOp(f)>> \o ops, Leads(f)'
    PROVE  GotoInv'
<1>1. GotoOp(f) \in Op /\ GotoOp(f).frame = f
  BY Operations
<1>2. Head(agenda').frame = f
  BY <1>1, Pushing
<1> QED BY <1>2 DEF GotoInv, Leads

LEMMA GotoPair ==
    ASSUME NEW x \in Op, NEW y \in Op
    PROVE  /\ <<x>> \in Seq(Op) /\ <<y>> \in Seq(Op) /\ <<y, x>> \in Seq(Op)
           /\ <<y, x>> = <<y>> \o <<x>>
           /\ \A z \in Op : <<z, y, x>> = <<z>> \o <<y, x>>
<1>1. <<x>> \in Seq(Op) /\ <<y>> \in Seq(Op) /\ <<y, x>> \in Seq(Op)
  OBVIOUS
<1>2. <<y, x>> = <<y>> \o <<x>>
  OBVIOUS
<1>3. ASSUME NEW z \in Op PROVE <<z, y, x>> = <<z>> \o <<y, x>>
  OBVIOUS
<1> QED BY <1>1, <1>2, <1>3

LEMMA CallGoto == ASSUME IInv, EvalCall PROVE GotoInv'
<1>1. PICK c \in Frame, f \in Frame : c = cur /\ f = Fresh /\ f # c
  BY CallDoes, Evaluated DEF IInv, Made
<1>2. cont = c /\ cont' = c /\ frame[c].kind = "code"
  BY <1>1, CallDoes, Evaluated DEF IInv, EvalCall
<1>3. PICK kind \in {"code", "entry"} : frame'[f].kind = kind
  BY <1>1, CallDoes DEF Made
<1>4. frame'[f].back = c /\ frame'[f].pos = 0 /\ frame'[f].wait = "no"
  BY <1>1, CallDoes, CallTells DEF Made, TellsAndMakes
<1>5. frame'[c].kind = "code" /\ frame'[c].wait = "called"
  BY <1>1, <1>2, CallDoes, CallTells DEF Steps, Alike, TellsAndMakes
<1>6. c # NoFrame /\ f # NoFrame
  BY InterpreterAssumption
<1>7. Leads(f)'
  BY <1>2, <1>3, <1>4, <1>5, <1>6 DEF Leads, Called, Newly, Program
<1>8. Unref(c) \in Op /\ GotoOp(f) \in Op
  BY Operations
<1>9. CASE agenda' = <<GotoOp(f), Unref(c)>>
  <2>1. agenda' = <<GotoOp(f)>> \o <<Unref(c)>> /\ <<Unref(c)>> \in Seq(Op)
    BY <1>8, <1>9, GotoPair
  <2> QED BY <1>7, <2>1, GotoTo
<1>10. CASE \E o \in Object : agenda' = <<GotoOp(f), ReleaseOp(o), Unref(c)>>
  <2>1. PICK o \in Object : agenda' = <<GotoOp(f), ReleaseOp(o), Unref(c)>>
    BY <1>10
  <2>2. ReleaseOp(o) \in Op
    BY Operations
  <2>3. agenda' = <<GotoOp(f)>> \o <<ReleaseOp(o), Unref(c)>>
          /\ <<ReleaseOp(o), Unref(c)>> \in Seq(Op)
    BY <1>8, <2>1, <2>2, GotoPair
  <2> QED BY <1>7, <2>3, GotoTo
<1>11. frame[c].holds \subseteq Object
  BY Typed DEF IInv
<1> QED BY <1>1, <1>9, <1>10, <1>11, CallDoes

LEMMA MethodGoto == ASSUME IInv, EvalDestroyMethod PROVE GotoInv'
<1>1. PICK c \in Frame, f \in Frame : c = cur /\ f = Fresh /\ f # c
  BY DestroyMethodDoes, Evaluated DEF IInv, Made
<1>2. cont = c /\ cont' = c /\ frame[c].kind = "destroy"
  BY <1>1, DestroyMethodDoes, Evaluated DEF IInv, EvalDestroyMethod
<1>3. /\ frame'[f].kind = "code" /\ frame'[f].back = c /\ frame'[f].pos = 0
      /\ frame'[f].wait = "no" /\ frame'[c].kind = "destroy"
  BY <1>1, <1>2, DestroyMethodDoes, DestroyMethodTells DEF Made, Steps, Alike, TellsAndMakes
<1>4. c # NoFrame /\ f # NoFrame
  BY InterpreterAssumption
<1>5. Leads(f)'
  BY <1>2, <1>3, <1>4 DEF Leads, Called, Newly, Program
<1>6. Unref(c) \in Op /\ GotoOp(f) \in Op
  BY Operations
<1>7. agenda' = <<GotoOp(f)>> \o <<Unref(c)>> /\ <<Unref(c)>> \in Seq(Op)
  BY <1>1, <1>6, DestroyMethodDoes, GotoPair
<1> QED BY <1>5, <1>7, GotoTo

LEMMA EnterGoto == ASSUME IInv, EvalEnter PROVE GotoInv'
<1>1. PICK c \in Frame, f \in Frame : c = cur /\ f = Fresh /\ f # c
  BY EnterDoes, Evaluated DEF IInv, Made
<1>2. cont = c /\ cont' = c /\ frame[c].kind = "entry"
  BY <1>1, EnterDoes, Evaluated DEF IInv, EvalEnter
<1>3. /\ frame'[f].kind = "code" /\ frame'[f].back = frame[c].back /\ frame'[f].pos = 0
      /\ frame'[f].wait = "no" /\ frame'[c].kind = "entry" /\ frame'[c].back = frame[c].back
  BY <1>1, <1>2, EnterDoes, EnterTells DEF Made, Steps, Alike, TellsAndMakes
<1>4. c # NoFrame /\ f # NoFrame
  BY InterpreterAssumption
<1>5. Leads(f)'
  BY <1>2, <1>3, <1>4 DEF Leads, EntersBody, Newly
<1>6. Unref(c) \in Op /\ GotoOp(f) \in Op
  BY Operations
<1>7. agenda' = <<GotoOp(f)>> \o <<Unref(c)>> /\ <<Unref(c)>> \in Seq(Op)
  BY <1>1, <1>6, EnterDoes, GotoPair
<1> QED BY <1>5, <1>7, GotoTo

LEMMA LeaveGoto == ASSUME IInv, EvalReturn \/ EvalGotoCurrent PROVE GotoInv'
<1>1. PICK c \in Frame : c = cur
  BY LeaveDoes, Evaluated DEF IInv
<1>2. PICK f \in Frame \cup {NoFrame} : f = frame[c].back
  BY Typed DEF IInv
<1>3. cont = c /\ cont' = c /\ c # NoFrame /\ Body \in Nat /\ frame[c].pos < Length(frame[c])
  BY <1>1, LeaveDoes, Evaluated, InterpreterAssumption DEF IInv, EvalReturn, EvalGotoCurrent
<1>4. /\ frame'[c].back = f /\ frame'[c].kind = frame[c].kind /\ frame'[c].wait = "no"
      /\ frame'[c].pos = frame[c].pos + 1
  BY <1>1, <1>2, LeaveDoes, LeaveTells DEF Steps, Alike, Tells
<1>5. Leads(f)'
  <2>1. CASE frame[c].kind = "destroy"
    BY <1>3, <1>4, <2>1 DEF Leads, Returns
  <2>2. CASE frame[c].kind = "code" /\ frame[c].pos = Body + 1
    <3>1. f # NoFrame
      BY <1>2, <1>3, <2>2 DEF Length
    <3>2. frame'[c].pos = Body + 2
      BY <1>3, <1>4, <2>2
    <3> QED BY <1>3, <1>4, <2>2, <3>1, <3>2 DEF Leads, Returns
  <2> QED BY <1>1, <2>1, <2>2, LeaveDoes, Evaluated DEF IInv
<1>6. Unref(c) \in Op /\ GotoOp(f) \in Op
  BY Operations
<1>7. agenda' = <<GotoOp(f)>> \o <<Unref(c)>> /\ <<Unref(c)>> \in Seq(Op)
  BY <1>1, <1>2, <1>6, LeaveDoes, GotoPair
<1> QED BY <1>5, <1>7, GotoTo

LEMMA ReleaseGoto == ASSUME IInv, Release PROVE GotoInv'
<1>1. PICK f \in Frame : f = Fresh
  BY ReleaseDoes DEF Made
<1>2. /\ frame'[f].kind = "destroy" /\ frame'[f].back = cont /\ frame'[f].pos = 0
      /\ frame'[f].wait = "no" /\ cont' = cont /\ f # NoFrame
  BY <1>1, ReleaseDoes, ReleaseTells, InterpreterAssumption DEF Made, Release
<1>3. Leads(f)'
  BY <1>2 DEF Leads, Called, Newly
<1>4. Tail(agenda) \in Seq(Op)
  BY ReleaseDoes, Stack DEF Doing, IInv
<1>5. agenda' = <<GotoOp(f)>> \o Tail(agenda)
  BY <1>1, ReleaseDoes
<1> QED BY <1>3, <1>4, <1>5, GotoTo

\* What the host finds: no program, or the body of one that has run
LEMMA HostRan == ASSUME IInv, WaitInv, HostFree PROVE Ran
<1>1. agenda = <<>> /\ at = "out" /\ (cont = NoFrame \/ ~HasNext(frame[cont]))
  BY HostFinds
<1>2. PICK n \in 0 .. Cardinality(Frame) : \E s \in [1 .. n -> Frame] : Chain(n, s)
  BY DEF IInv, ChainInv
<1>3. PICK s \in [1 .. n -> Frame] : Chain(n, s)
  BY <1>2
<1>4. CASE cont = NoFrame
  BY <1>4 DEF Ran
<1>5. CASE cont # NoFrame
  <2>1. /\ cont \in Frame /\ frame[cont].kind = "code" /\ frame[cont].back = NoFrame
        /\ \A f \in Frame : frame[f].kind # "none" => f = cont
    BY <1>1, <1>3, <1>5, HostChain
  <2>2. Waits(cont) /\ frame[cont].pos \in Nat /\ Body \in Nat
    BY <2>1, Typed, InterpreterAssumption DEF WaitInv, IInv
  <2>3. frame[cont].pos = Body
    <3>1. Length(frame[cont]) = Body /\ ~(frame[cont].pos < Length(frame[cont]))
      BY <1>1, <1>5, <2>1 DEF HasNext, Length
    <3>2. frame[cont].pos <= Body
      BY <2>1, <2>2 DEF Waits
    <3> QED BY <2>2, <3>1, <3>2
  <2>4. frame[cont].wait # "called"
    BY <1>5, <2>1, <2>2 DEF Waits, Unanswered
  <2> QED BY <2>1, <2>3, <2>4 DEF Ran
<1> QED BY <1>4, <1>5

LEMMA RunGoto == ASSUME IInv, WaitInv, HostRun PROVE GotoInv'
<1>1. PICK f \in Frame : f = Fresh
  BY RunDoes DEF Made
<1>2. /\ frame'[f].kind = "code" /\ frame'[f].back = NoFrame /\ frame'[f].pos = 0
      /\ frame'[f].wait = "no" /\ cont' = cont /\ f # NoFrame /\ frame[f].kind = "none"
  BY <1>1, RunDoes, RunTells, InterpreterAssumption DEF Made, HostRun
<1>3. Ran'
  <2>1. Ran /\ cont \in Frame \cup {NoFrame}
    BY HostRan, RunDoes DEF IInv, TypeOK
  <2>2. CASE cont = NoFrame
    BY <1>2, <2>2 DEF Ran
  <2>3. CASE cont \in Frame /\ cont # NoFrame
    <3>1. Rests(cont) /\ frame'[cont].wait = frame[cont].wait
      BY <1>1, <1>2, <2>1, <2>3, RunDoes, RunTells DEF Ran, Keeps
    <3> QED BY <1>2, <2>1, <2>3, <3>1 DEF Ran, Rests, Alike
  <2> QED BY <2>1, <2>2, <2>3
<1>4. Leads(f)'
  BY <1>2, <1>3 DEF Leads, Started, Newly
<1>5. agenda' = <<GotoOp(f)>> \o <<>> /\ <<>> \in Seq(Op)
  <2>1. GotoOp(f) \in Op
    BY Operations
  <2> QED BY <1>1, <2>1, RunDoes
<1> QED BY <1>4, <1>5, GotoTo

LEMMA StopGoto == ASSUME IInv, WaitInv, HostStop PROVE GotoInv'
<1>1. Ran' /\ agenda' = <<GotoOp(NoFrame)>>
  BY HostRan DEF HostStop, Ran
<1>2. Leads(NoFrame)'
  BY <1>1 DEF Leads
<1>3. agenda' = <<GotoOp(NoFrame)>> \o <<>> /\ <<>> \in Seq(Op)
  <2>1. GotoOp(NoFrame) \in Op
    BY Operations
  <2> QED BY <1>1, <2>1
<1> QED BY <1>2, <1>3, GotoTo

-----------------------------------------------------------------------------
(* Every action keeps the two invariants *)

LEMMA FramesStand == ASSUME frame' = frame PROVE \A h \in Frame : Stands(h)
BY DEF Stands, Rests, Alike

LEMMA DropStands == ASSUME IInv, Drop \/ DropRegister PROVE \A h \in Frame : Stands(h)
<1>1. \A h \in Frame : Rests(h)
  <2>1. CASE Drop
    BY <2>1, DropDoes DEF Keeps
  <2>2. CASE DropRegister
    BY <2>2, DropRegisterDoes DEF Keeps
  <2> QED BY <2>1, <2>2
<1> QED BY <1>1, DropTells DEF Stands

LEMMA ReleaseStands ==
    ASSUME IInv, Release
    PROVE  /\ Made(Fresh, "destroy", cont, Head(agenda).obj, {}) /\ frame'[Fresh].wait = "no"
           /\ \A h \in Frame \ {Fresh} : Stands(h)
BY ReleaseDoes, ReleaseTells DEF Keeps, Stands

LEMMA RunStands ==
    ASSUME IInv, HostRun
    PROVE  /\ Made(Fresh, "code", NoFrame, NoObject, {}) /\ frame'[Fresh].wait = "no"
           /\ \A h \in Frame \ {Fresh} : Stands(h)
BY RunDoes, RunTells DEF Keeps, Stands

\* An eval that makes no frame and delivers no result
LEMMA GoesOn ==
    ASSUME IInv, EvalNew \/ EvalOverwrite \/ EvalReturn \/ EvalDestroyAll \/ EvalGotoCurrent
    PROVE  \E kind \in {"code", "destroy"} :
              /\ Evaluating(kind) /\ Tells("no") /\ Alike(cur)
              /\ frame'[cur].pos = frame[cur].pos + 1 /\ cur \in Frame
              /\ \A h \in Frame \ {cur} : Rests(h)
              /\ kind = "code" => \/ frame[cur].pos < Body
                                  \/ frame[cur].pos = Body + 1 /\ frame[cur].back # NoFrame
<1>1. CASE EvalNew
  <2>1. Evaluating("code") /\ cur \in Frame /\ frame[cur].pos < Body
    BY <1>1, NewDoes, Evaluated DEF IInv
  <2>2. \E hs : Steps(cur, hs, 1)
    BY <1>1, NewDoes
  <2> QED BY <1>1, <2>1, <2>2, NewDoes, NewTells DEF Steps, Keeps
<1>2. CASE EvalOverwrite
  <2>1. Evaluating("code") /\ cur \in Frame /\ frame[cur].pos < Body
    BY <1>2, OverwriteDoes, Evaluated DEF IInv
  <2>2. \E hs : Steps(cur, hs, 1)
    BY <1>2, OverwriteDoes
  <2> QED BY <1>2, <2>1, <2>2, OverwriteDoes, OverwriteTells DEF Steps, Keeps
<1>3. CASE EvalDestroyAll
  <2>1. Evaluating("destroy") /\ cur \in Frame
    BY <1>3, DestroyAllDoes, Evaluated DEF IInv
  <2> QED BY <1>3, <2>1, DestroyAllDoes, DestroyAllTells DEF Steps, Keeps
<1>4. CASE EvalReturn \/ EvalGotoCurrent
  <2>1. /\ Tells("no") /\ Alike(cur) /\ frame'[cur].pos = frame[cur].pos + 1
        /\ \A h \in Frame \ {cur} : Rests(h)
    BY <1>4, LeaveDoes, LeaveTells DEF Steps, Keeps
  <2>2. CASE Evaluating("destroy")
    <3>1. cur \in Frame
      BY <2>2, Evaluated DEF IInv
    <3> QED BY <2>1, <2>2, <3>1
  <2>3. CASE Evaluating("code") /\ frame[cur].pos = Body + 1
    <3>1. /\ cur \in Frame /\ frame[cur].kind = "code" /\ Body \in Nat
          /\ frame[cur].pos < Length(frame[cur])
      BY <2>3, Evaluated, InterpreterAssumption DEF IInv
    <3>2. frame[cur].back # NoFrame
      BY <2>3, <3>1 DEF Length
    <3> QED BY <2>1, <2>3, <3>1, <3>2
  <2> QED BY <1>4, <2>2, <2>3, LeaveDoes
<1> QED BY <1>1, <1>2, <1>3, <1>4

\* An eval that makes a frame which goes back to the one evaluated
LEMMA CallsOne ==
    ASSUME IInv, EvalCall \/ EvalDestroyMethod
    PROVE  \E kind \in {"code", "destroy"}, made \in {"code", "entry"} : \E value, given :
              /\ Evaluating(kind) /\ TellsAndMakes("called") /\ Alike(cur) /\ cur \in Frame
              /\ frame'[cur].pos = frame[cur].pos + 1
              /\ Made(Fresh, made, cur, value, given) /\ Fresh # cur
              /\ \A h \in Frame \ {cur, Fresh} : Rests(h)
              /\ kind = "code" => EvalCall /\ frame[cur].pos < Body
<1>1. CASE EvalCall
  <2>1. /\ Evaluating("code") /\ cur \in Frame /\ frame[cur].pos < Body /\ Fresh # cur
        /\ TellsAndMakes("called")
    BY <1>1, CallDoes, CallTells, Evaluated DEF IInv
  <2>2. PICK made \in {"code", "entry"} : \E given, hs :
           /\ Made(Fresh, made, cur, NoObject, given) /\ Steps(cur, hs, 2)
           /\ \A h \in Frame \ {cur, Fresh} : Keeps(h, 0)
    BY <1>1, CallDoes
  <2> QED BY <1>1, <2>1, <2>2 DEF Steps, Keeps
<1>2. CASE EvalDestroyMethod
  <2>1. Evaluating("destroy") /\ cur \in Frame /\ TellsAndMakes("called")
    BY <1>2, DestroyMethodDoes, DestroyMethodTells, Evaluated DEF IInv
  <2> QED BY <1>2, <2>1, DestroyMethodDoes DEF Steps, Keeps
<1> QED BY <1>1, <1>2

LEMMA WaitsAfter ==
    ASSUME IInv, WaitInv, [Next]_vars
    PROVE  WaitInv'
<1>1. CASE frame' = frame
  BY <1>1, FramesStand, SameWaits
<1>2. CASE Drop \/ DropRegister
  BY <1>2, DropStands, SameWaits
<1>3. CASE FreeFrame
  BY <1>3, FreeWaits
<1>4. CASE Release
  <2>1. PICK o : Made(Fresh, "destroy", cont, o, {}) /\ frame'[Fresh].wait = "no"
                   /\ \A h \in Frame \ {Fresh} : Stands(h)
    BY <1>4, ReleaseStands
  <2> QED BY <2>1, MadeWaits
<1>5. CASE HostRun
  <2>1. Made(Fresh, "code", NoFrame, NoObject, {}) /\ frame'[Fresh].wait = "no"
                   /\ \A h \in Frame \ {Fresh} : Stands(h)
    BY <1>5, RunStands
  <2> QED BY <2>1, MadeWaits
<1>6. CASE EvalNew \/ EvalOverwrite \/ EvalReturn \/ EvalDestroyAll \/ EvalGotoCurrent
  <2>1. PICK kind \in {"code", "destroy"} :
              /\ Evaluating(kind) /\ Tells("no") /\ Alike(cur)
              /\ frame'[cur].pos = frame[cur].pos + 1 /\ cur \in Frame
              /\ \A h \in Frame \ {cur} : Rests(h)
              /\ kind = "code" => \/ frame[cur].pos < Body
                                  \/ frame[cur].pos = Body + 1 /\ frame[cur].back # NoFrame
    BY <1>6, GoesOn
  <2>2. kind = "code" => frame[cur].pos # Body
    <3>1. frame[cur].pos \in Nat /\ Body \in Nat
      BY <2>1, Typed, InterpreterAssumption DEF IInv
    <3> QED BY <2>1, <3>1
  <2> QED BY <2>1, <2>2, StepWaits
<1>7. CASE EvalCall \/ EvalDestroyMethod
  <2>1. PICK kind \in {"code", "destroy"}, made \in {"code", "entry"} : \E value, given :
              /\ Evaluating(kind) /\ TellsAndMakes("called") /\ Alike(cur) /\ cur \in Frame
              /\ frame'[cur].pos = frame[cur].pos + 1
              /\ Made(Fresh, made, cur, value, given) /\ Fresh # cur
              /\ \A h \in Frame \ {cur, Fresh} : Rests(h)
              /\ kind = "code" => EvalCall /\ frame[cur].pos < Body
    BY <1>7, CallsOne
  <2> QED BY <2>1, CallWaits
<1>8. CASE EvalEnter
  <2>1. PICK given, hs : Made(Fresh, "code", frame[cur].back, NoObject, given)
                           /\ Steps(cur, hs, 1)
    BY <1>8, EnterDoes
  <2>2. /\ Evaluating("entry") /\ TellsAndMakes("no") /\ Fresh # cur /\ frame[cur].pos = 0
        /\ \A h \in Frame \ {cur, Fresh} : Rests(h)
    BY <1>8, EnterDoes, EnterTells DEF Keeps
  <2> QED BY <2>1, <2>2, EnterWaits DEF Steps
<1>9. CASE EvalSetr
  BY <1>9, SetrWaits
<1>10. \/ frame' = frame \/ Drop \/ DropRegister \/ FreeFrame \/ Release \/ HostRun
       \/ EvalNew \/ EvalOverwrite \/ EvalReturn \/ EvalDestroyAll \/ EvalGotoCurrent
       \/ EvalCall \/ EvalDestroyMethod \/ EvalEnter \/ EvalSetr
  BY DEF Next, CStack, RunLoop, Eval, Host, Goto, LoopEnter, Reread, LoopExit,
         HostCreate, HostRelease, HostStop, ReleaseInterpreter, Terminated, vars
<1> QED BY <1>1, <1>2, <1>3, <1>4, <1>5, <1>6, <1>7, <1>8, <1>9, <1>10

LEMMA GotosAfter ==
    ASSUME IInv, CallsInv, [Next]_vars
    PROVE  GotoInv'
<1>1. CASE \/ Goto \/ Drop \/ DropRegister \/ FreeFrame
           \/ EvalNew \/ EvalOverwrite \/ EvalSetr \/ EvalDestroyAll
           \/ LoopEnter \/ Reread \/ LoopExit
           \/ HostCreate \/ HostRelease \/ ReleaseInterpreter \/ Terminated
  <2>1. ~Doing("goto")'
    BY <1>1, QuietGoto
  <2> QED BY <2>1 DEF GotoInv
<1>2. CASE EvalCall
  BY <1>2, CallGoto
<1>3. CASE EvalDestroyMethod
  BY <1>3, MethodGoto
<1>4. CASE EvalEnter
  BY <1>4, EnterGoto
<1>5. CASE EvalReturn \/ EvalGotoCurrent
  BY <1>5, LeaveGoto
<1>6. CASE Release
  BY <1>6, ReleaseGoto
<1>7. CASE HostRun
  BY <1>7, RunGoto DEF CallsInv
<1>8. CASE HostStop
  BY <1>8, StopGoto DEF CallsInv
<1>9. CASE UNCHANGED vars
  BY <1>9 DEF vars, CallsInv, GotoInv, Doing, Ran, Called, Started, EntersBody, Returns,
              Newly, Program
<1> QED BY <1>1, <1>2, <1>3, <1>4, <1>5, <1>6, <1>7, <1>8, <1>9
        DEF Next, CStack, RunLoop, Eval, Host

LEMMA CallsAfter == IInv /\ CallsInv /\ [Next]_vars => CallsInv'
BY WaitsAfter, GotosAfter DEF CallsInv

LEMMA CallsStart == Init => CallsInv
<1> SUFFICES ASSUME Init PROVE CallsInv
  OBVIOUS
<1>1. \A f \in Frame : frame[f].kind = "none"
  BY DEF Init, Blank
<1>2. WaitInv
  BY <1>1 DEF WaitInv, Waits, Program
<1>3. GotoInv
  BY DEF GotoInv, Doing, Init
<1> QED BY <1>2, <1>3 DEF CallsInv

\* A frame waits as long as what it called has not answered.
THEOREM CallersWait == Spec => []CallsInv
<1>1. Init => CallsInv
  BY CallsStart
<1>2. IInv /\ CallsInv /\ [Next]_vars => CallsInv'
  BY CallsAfter
<1> QED BY <1>1, <1>2, InductiveInvariant, PTL DEF Spec

-----------------------------------------------------------------------------
(* What the steps of the stack of calls are *)

LEMMA OnTop ==
    ASSUME NEW st \in Seq(Activation), NEW a \in Activation, NEW q, q = Append(st, a)
    PROVE  /\ q # <<>> /\ Len(q) = Len(st) + 1 /\ Len(st) \in Nat /\ q[Len(q)] = a
           /\ SubSeq(q, 1, Len(q) - 1) = st
           /\ \A i \in 1 .. Len(st) : q[i] = st[i]
<1>2. /\ q \in Seq(Activation) /\ Len(q) = Len(st) + 1 /\ Len(st) \in Nat /\ q[Len(q)] = a
      /\ \A i \in 1 .. Len(st) : q[i] = st[i]
  BY AppendProperties
<1>3. q # <<>>
  BY <1>2, EmptySeq
<1>4. SubSeq(q, 1, Len(q) - 1) = st
  <2>1. Len(q) - 1 = Len(st)
    BY <1>2
  <2>2. /\ SubSeq(q, 1, Len(st)) \in Seq(Activation) /\ Len(SubSeq(q, 1, Len(st))) = Len(st)
        /\ \A i \in 1 .. Len(st) : SubSeq(q, 1, Len(st))[i] = q[i]
    BY <1>2, SubSeqProperties
  <2>3. SubSeq(q, 1, Len(st)) = st
    BY <1>2, <2>2, SeqEqual
  <2> QED BY <2>1, <2>3
<1> QED BY <1>2, <1>3, <1>4

LEMMA Advances ==
    ASSUME NEW st \in Seq(Activation), NEW a \in Activation, NEW w \in {"no", "called"}, a.wait # "called",
           CallsUnder[cont] = Append(st, a),
           CallsUnder'[cont'] = Append(st, [a EXCEPT !.pos = @ + 1, !.wait = w])
    PROVE  Calls!Advance
<1>1. PICK q : q = CallsUnder[cont]
  OBVIOUS
<1>2. q # <<>> /\ q[Len(q)] = a /\ SubSeq(q, 1, Len(q) - 1) = st
  BY <1>1, OnTop
<1> QED BY <1>1, <1>2 DEF Calls!Advance, Calls!Top, Calls!Under

LEMMA Leaves ==
    ASSUME NEW st \in Seq(Activation), NEW a \in Activation, a.wait # "called", a.pos = Body + 2,
           ~a.destructor => \E under \in Seq(Activation), b \in Activation :
                               st = Append(under, b) /\ b.wait = "answered",
           CallsUnder[cont] = Append(st, a), CallsUnder'[cont'] = st
    PROVE  Calls!Leave
<1>1. PICK q : q = CallsUnder[cont]
  OBVIOUS
<1>2. /\ q # <<>> /\ q[Len(q)] = a /\ SubSeq(q, 1, Len(q) - 1) = st /\ Len(q) = Len(st) + 1
      /\ Len(st) \in Nat /\ \A i \in 1 .. Len(st) : q[i] = st[i]
  BY <1>1, OnTop
<1>3. ~a.destructor => Len(q) > 1 /\ q[Len(q) - 1].wait = "answered"
  <2> SUFFICES ASSUME ~a.destructor PROVE Len(q) > 1 /\ q[Len(q) - 1].wait = "answered"
    OBVIOUS
  <2>1. PICK under \in Seq(Activation), b \in Activation : st = Append(under, b) /\ b.wait = "answered"
    OBVIOUS
  <2>2. Len(st) = Len(under) + 1 /\ Len(under) \in Nat /\ st[Len(st)] = b
    BY <2>1, OnTop
  <2>3. Len(q) - 1 = Len(st) /\ Len(st) \in 1 .. Len(st) /\ Len(q) > 1
    BY <1>2, <2>2
  <2> QED BY <1>2, <2>1, <2>2, <2>3
<1> QED BY <1>1, <1>2, <1>3 DEF Calls!Leave, Calls!Top, Calls!Under

LEMMA Answers ==
    ASSUME NEW under \in Seq(Activation), NEW b \in Activation, NEW st \in Seq(Activation), NEW a \in Activation,
           st = Append(under, b), b.wait = "called", ~a.destructor,
           CallsUnder[cont] = Append(st, a),
           CallsUnder'[cont'] = Append(Append(under, [b EXCEPT !.wait = "answered"]),
                                       [a EXCEPT !.pos = @ + 1, !.wait = "no"])
    PROVE  Calls!Answer
<1>1. PICK q : q = CallsUnder[cont]
  OBVIOUS
<1>2. /\ q # <<>> /\ q[Len(q)] = a /\ SubSeq(q, 1, Len(q) - 1) = st /\ Len(q) = Len(st) + 1
      /\ Len(st) \in Nat /\ \A i \in 1 .. Len(st) : q[i] = st[i]
  BY <1>1, OnTop
<1>3. /\ Len(st) = Len(under) + 1 /\ Len(under) \in Nat /\ st[Len(st)] = b
      /\ SubSeq(st, 1, Len(st) - 1) = under
  BY OnTop
<1>4. Len(q) - 1 = Len(st) /\ Len(st) \in 1 .. Len(st) /\ Len(q) > 1
  BY <1>2, <1>3
<1>5. q[Len(q) - 1] = b
  BY <1>2, <1>3, <1>4
<1> QED BY <1>1, <1>2, <1>3, <1>4, <1>5 DEF Calls!Answer, Calls!Top, Calls!Under

LEMMA Enters ==
    ASSUME NEW st \in Seq(Activation), NEW a \in Activation, a.wait = "called",
           CallsUnder[cont] = Append(st, a),
           CallsUnder'[cont'] = Append(CallsUnder[cont],
                                       [pos |-> 0, wait |-> "no", destructor |-> FALSE])
    PROVE  Calls!Enter
<1>1. PICK q : q = CallsUnder[cont]
  OBVIOUS
<1>2. q # <<>> /\ q[Len(q)] = a
  BY <1>1, OnTop
<1> QED BY <1>1, <1>2 DEF Calls!Enter, Calls!Top, Calls!ActivationOf

LEMMA Interrupts ==
    ASSUME CallsUnder'[cont'] = Append(CallsUnder[cont],
                                       [pos |-> 0, wait |-> "no", destructor |-> TRUE])
    PROVE  Calls!Interrupt
BY DEF Calls!Interrupt, Calls!ActivationOf

LEMMA RanFinished ==
    ASSUME CallsKnown, TypeOK, Ran
    PROVE  Calls!Finished
<1>1. PICK q : q = CallsUnder[cont]
  OBVIOUS
<1>2. CASE cont = NoFrame
  BY <1>2 DEF Calls!Finished, CallsKnown
<1>3. CASE cont # NoFrame
  <2>1. cont \in Frame /\ frame[cont].kind = "code" /\ frame[cont].back = NoFrame
          /\ frame[cont].pos = Body /\ frame[cont].wait # "called"
    BY <1>3 DEF Ran, TypeOK
  <2>2. q = Append(<<>>, ActivationAt(cont))
    <3>1. q = Onto(CallsUnder[NoFrame], cont) /\ CallsUnder[NoFrame] = <<>>
      BY <1>1, <2>1 DEF CallsKnown
    <3> QED BY <2>1, <3>1 DEF Onto
  <2>3. Len(q) = 1 /\ q[1] = ActivationAt(cont)
    BY <2>1, <2>2, OnTop, EmptySeq, Activations
  <2>4. ActivationAt(cont).pos = Body /\ ActivationAt(cont).wait # "called"
    BY <2>1 DEF ActivationAt
  <2> QED BY <1>1, <2>3, <2>4 DEF Calls!Finished
<1> QED BY <1>2, <1>3

-----------------------------------------------------------------------------
(* What the steps of the interpreter do to the stack of calls *)

\* Every frame has a stack of calls under it.
LEMMA CallsOfFrame ==
    ASSUME IInv, CallsKnown, NEW f \in Frame, frame[f].kind # "none"
    PROVE  /\ CallsUnder[frame[f].back] \in Seq(Activation)
           /\ CallsUnder[f] = Onto(CallsUnder[frame[f].back], f)
           /\ CallsUnder[f] \in Seq(Activation)
<1>1. PICK n \in 0 .. Cardinality(Frame) : \E s \in [1 .. n -> Frame] : Chain(n, s)
  BY DEF IInv, ChainInv
<1>2. PICK s \in [1 .. n -> Frame] : Chain(n, s)
  BY <1>1
<1>3. n \in Nat
  BY FrameSets
<1>4. InChain(n, s, frame[f].back) \/ frame[f].back = NoFrame
  BY <1>2, <1>3, LinksUpTo
<1>5. <<>> \in Seq(Activation)
  OBVIOUS
<1>6. CallsUnder[frame[f].back] \in Seq(Activation)
  BY <1>2, <1>3, <1>4, <1>5, CallsTyped DEF CallsKnown, InChain
<1>7. CallsUnder[f] = Onto(CallsUnder[frame[f].back], f)
  BY DEF CallsKnown
<1> QED BY <1>6, <1>7, Activations DEF IInv

\* Where the frames stand, so do the calls.
LEMMA CallsStand ==
    ASSUME IInv, CallsKnown, CallsKnown', NEW n \in Nat, NEW s \in [1 .. n -> Frame],
           Chain(n, s), NEW m \in 0 .. n,
           \A i \in 1 .. m : Stands(s[i]) \/ (frame[s[i]].kind = "destroy" /\ Alike(s[i]))
    PROVE  \A i \in 1 .. m : CallsUnder'[s[i]] = CallsUnder[s[i]]
<1> SUFFICES ASSUME NEW i \in 1 .. m PROVE Looks(s[i])
  BY SameCalls
<1>1. PICK h \in Frame : h = s[i] /\ i \in 1 .. n
  OBVIOUS
<1>2. frame[h].kind # "none" /\ frame[h].back = IF i = 1 THEN NoFrame ELSE s[i - 1]
  BY <1>1 DEF Chain, Links
<1>3. frame[h].back \in Frame => Alike(frame[h].back)
  <2>1. CASE i = 1
    BY <1>2, <2>1, InterpreterAssumption
  <2>2. CASE i # 1
    <3>1. i - 1 \in 1 .. m /\ frame[h].back = s[i - 1]
      BY <1>2, <2>2
    <3> QED BY <3>1 DEF Stands, Rests
  <2> QED BY <2>1, <2>2
<1>4. CASE Stands(h)
  BY <1>1, <1>2, <1>3, <1>4, StandsLooks
<1>5. CASE frame[h].kind = "destroy" /\ Alike(h)
  BY <1>1, <1>5 DEF Looks
<1> QED BY <1>1, <1>4, <1>5

\* The calls under the frame that is evaluated are as they were.
LEMMA BackCalls ==
    ASSUME IInv, CallsKnown, CallsKnown', NEW kind, Evaluating(kind),
           \A h \in Frame \ {cur} : frame[h].kind # "none" =>
              Stands(h) \/ (frame[h].kind = "destroy" /\ Alike(h))
    PROVE  CallsUnder'[frame[cur].back] = CallsUnder[frame[cur].back]
<1>1. PICK n \in 0 .. Cardinality(Frame) : \E s \in [1 .. n -> Frame] : Chain(n, s)
  BY DEF IInv, ChainInv
<1>2. PICK s \in [1 .. n -> Frame] : Chain(n, s)
  BY <1>1
<1>3. n >= 1 /\ n \in Nat /\ s[n] = cur /\ frame[cur].back = IF n = 1 THEN NoFrame ELSE s[n - 1]
  BY <1>2, LastOfChain
<1>4. CASE n = 1
  BY <1>3, <1>4 DEF CallsKnown
<1>5. CASE n # 1
  <2>1. PICK m \in 0 .. n : m = n - 1 /\ m \in 1 .. m
    BY <1>3, <1>5
  <2>2. ASSUME NEW i \in 1 .. m PROVE s[i] \in Frame \ {cur} /\ frame[s[i]].kind # "none"
    <3>1. i \in 1 .. n /\ n \in 1 .. n /\ i # n
      BY <1>3, <2>1
    <3> QED BY <1>2, <1>3, <3>1 DEF Chain, Links
  <2>3. \A i \in 1 .. m :
           Stands(s[i]) \/ (frame[s[i]].kind = "destroy" /\ Alike(s[i]))
    BY <2>2
  <2>4. \A i \in 1 .. m : CallsUnder'[s[i]] = CallsUnder[s[i]]
    BY <1>2, <1>3, <2>3, CallsStand
  <2>5. CallsUnder'[s[m]] = CallsUnder[s[m]]
    BY <2>1, <2>4
  <2> QED BY <1>3, <1>5, <2>1, <2>5
<1> QED BY <1>4, <1>5

\* ... and so are those under the continuation, when no frame of the chain moves.
LEMMA ContCalls ==
    ASSUME IInv, CallsKnown, CallsKnown', NEW n \in Nat, NEW s \in [1 .. n -> Frame],
           Chain(n, s), \A i \in 1 .. n : Stands(s[i]), Root = cont, cont' = cont
    PROVE  CallsUnder'[cont'] = CallsUnder[cont]
<1>1. cont = IF n = 0 THEN NoFrame ELSE s[n]
  BY DEF Chain
<1>2. CASE n = 0
  BY <1>1, <1>2 DEF CallsKnown
<1>3. CASE n # 0
  <2>1. n \in 1 .. n /\ n \in 0 .. n
    BY <1>3
  <2>2. CallsUnder'[s[n]] = CallsUnder[s[n]]
    BY <2>1, CallsStand
  <2> QED BY <1>1, <1>3, <2>2
<1> QED BY <1>2, <1>3

\* The frame that is evaluated is on top of those it goes back to.
LEMMA TopCalls ==
    ASSUME IInv, CallsKnown, CallsKnown', NEW kind, Evaluating(kind), cont' = cont,
           Alike(cur), frame[cur].back \in Frame => Alike(frame[cur].back),
           \A h \in Frame \ {cur} : frame[h].kind # "none" =>
              Stands(h) \/ (frame[h].kind = "destroy" /\ Alike(h))
    PROVE  \E st \in Seq(Activation) :
              /\ kind = "destroy" => CallsUnder[cont] = st /\ CallsUnder'[cont'] = st
              /\ kind # "destroy" =>
                    /\ CallsUnder[cont] = Append(st, ActivationAt(cur))
                    /\ CallsUnder'[cont'] =
                          Append(st, [pos |-> IF kind = "entry" THEN 0 ELSE frame'[cur].pos,
                                      wait |-> frame'[cur].wait,
                                      destructor |-> ActivationAt(cur).destructor])
<1>1. PICK c \in Frame : c = cur
  BY Evaluated DEF IInv
<1>2. cont = c /\ cont' = c /\ frame[c].kind = kind /\ kind # "none"
  BY <1>1, Evaluated DEF IInv
<1>3. PICK st \in Seq(Activation) : st = CallsUnder[frame[c].back]
  BY <1>2, CallsOfFrame
<1>4. CallsUnder'[frame[c].back] = st
  BY <1>1, <1>3, BackCalls
<1>5. frame'[c].kind = kind /\ frame'[c].back = frame[c].back
  BY <1>1, <1>2 DEF Alike
<1>6. CallsUnder[c] = Onto(st, c)
  BY <1>2, <1>3 DEF CallsKnown
<1>7. CallsUnder'[c] = (Onto(CallsUnder[frame[c].back], c))'
  BY <1>2, <1>5 DEF CallsKnown
<1>8. CASE kind = "destroy"
  BY <1>2, <1>3, <1>4, <1>5, <1>6, <1>7, <1>8 DEF Onto
<1>9. CASE kind # "destroy"
  <2>1. CallsUnder[c] = Append(st, ActivationAt(c))
    BY <1>2, <1>6, <1>9 DEF Onto
  <2>2. CallsUnder'[c] = Append(st, ActivationAt(c)')
    BY <1>4, <1>5, <1>7, <1>9 DEF Onto
  <2>3. ActivationAt(c)' = [pos |-> IF kind = "entry" THEN 0 ELSE frame'[c].pos,
                            wait |-> frame'[c].wait,
                            destructor |-> ActivationAt(c).destructor]
    <3>1. frame[c].back \in Frame \cup {NoFrame}
      BY Typed DEF IInv
    <3>2. frame[c].back # NoFrame => frame'[frame[c].back].kind = frame[frame[c].back].kind
      BY <1>1, <3>1 DEF Alike
    <3> QED BY <1>2, <1>5, <3>2 DEF ActivationAt
  <2> QED BY <1>1, <1>2, <1>9, <2>1, <2>2, <2>3
<1> QED BY <1>8, <1>9

LEMMA Moved ==
    ASSUME NEW a \in Activation, NEW w
    PROVE  [a EXCEPT !.pos = @ + 1, !.wait = w]
              = [pos |-> a.pos + 1, wait |-> w, destructor |-> a.destructor]
<1>1. PICK p, v, d : a = [pos |-> p, wait |-> v, destructor |-> d]
  BY DEF Activation
<1>2. a.pos = p /\ a.destructor = d
  BY <1>1
<1>3. [a EXCEPT !.pos = @ + 1] = [pos |-> p + 1, wait |-> v, destructor |-> d]
  BY <1>1
<1>4. [[a EXCEPT !.pos = @ + 1] EXCEPT !.wait = w]
         = [pos |-> p + 1, wait |-> w, destructor |-> d]
  <2>1. PICK r : r = [pos |-> p + 1, wait |-> v, destructor |-> d]
    OBVIOUS
  <2>2. [r EXCEPT !.wait = w] = [pos |-> p + 1, wait |-> w, destructor |-> d]
    BY <2>1
  <2> QED BY <1>3, <2>1, <2>2, Zenon
<1> QED BY <1>2, <1>4

\* Each action is a step of the stack of calls, or does not show there.
CallsMove == Calls!StackNext \/ CallsUnder'[cont'] = CallsUnder[cont]

LEMMA GoesOnMoves ==
    ASSUME IInv, CallsInv, CallsKnown, CallsKnown',
           EvalNew \/ EvalOverwrite \/ EvalReturn \/ EvalDestroyAll \/ EvalGotoCurrent
    PROVE  CallsMove
<1>1. PICK kind \in {"code", "destroy"} :
              /\ Evaluating(kind) /\ Tells("no") /\ Alike(cur)
              /\ frame'[cur].pos = frame[cur].pos + 1 /\ cur \in Frame
              /\ \A h \in Frame \ {cur} : Rests(h)
  BY GoesOn
<1>2. cont' = cont /\ frame[cur].kind = kind
  BY <1>1, Evaluated
     DEF EvalNew, EvalOverwrite, EvalReturn, EvalDestroyAll, EvalGotoCurrent, IInv
<1>3. \A h \in Frame \ {cur} : Stands(h)
  BY <1>1 DEF Stands, Tells
<1>4. frame[cur].back \in Frame => Alike(frame[cur].back)
  BY <1>1 DEF Rests
<1>5. PICK st \in Seq(Activation) :
         /\ kind = "destroy" => CallsUnder[cont] = st /\ CallsUnder'[cont'] = st
         /\ kind # "destroy" =>
               /\ CallsUnder[cont] = Append(st, ActivationAt(cur))
               /\ CallsUnder'[cont'] =
                     Append(st, [pos |-> IF kind = "entry" THEN 0 ELSE frame'[cur].pos,
                                 wait |-> frame'[cur].wait,
                                 destructor |-> ActivationAt(cur).destructor])
  BY <1>1, <1>2, <1>3, <1>4, TopCalls
<1>6. CASE kind = "destroy"
  BY <1>5, <1>6 DEF CallsMove
<1>7. CASE kind = "code"
  <2>1. PICK a \in Activation : a = ActivationAt(cur)
    BY <1>1, Activations DEF IInv
  <2>2. a.pos = frame[cur].pos /\ a.wait = frame[cur].wait /\ a.wait # "called"
    BY <1>1, <1>2, <1>7, <2>1, Foremost DEF ActivationAt, CallsInv
  <2>3. [a EXCEPT !.pos = @ + 1, !.wait = "no"]
           = [pos |-> a.pos + 1, wait |-> "no", destructor |-> a.destructor]
    BY Moved
  <2>4. CallsUnder'[cont'] = Append(st, [a EXCEPT !.pos = @ + 1, !.wait = "no"])
    BY <1>1, <1>5, <1>7, <2>1, <2>2, <2>3 DEF Tells
  <2>5. Calls!Advance
    BY <1>5, <1>7, <2>1, <2>2, <2>4, Advances
  <2> QED BY <2>5 DEF CallsMove, Calls!StackNext
<1> QED BY <1>6, <1>7

LEMMA CallMoves ==
    ASSUME IInv, CallsInv, CallsKnown, CallsKnown', EvalCall \/ EvalDestroyMethod
    PROVE  CallsMove
<1>1. PICK kind \in {"code", "destroy"}, made \in {"code", "entry"} : \E value, given :
              /\ Evaluating(kind) /\ TellsAndMakes("called") /\ Alike(cur) /\ cur \in Frame
              /\ frame'[cur].pos = frame[cur].pos + 1
              /\ Made(Fresh, made, cur, value, given) /\ Fresh # cur
              /\ \A h \in Frame \ {cur, Fresh} : Rests(h)
  BY CallsOne
<1>2. cont' = cont /\ frame[cur].kind = kind
  BY <1>1, Evaluated DEF EvalCall, EvalDestroyMethod, IInv
<1>3. \A h \in Frame \ {cur} : frame[h].kind # "none" => Stands(h)
  BY <1>1 DEF Stands, TellsAndMakes, Made
<1>4. frame[cur].back \in Frame => Alike(frame[cur].back)
  <2> SUFFICES ASSUME NEW b \in Frame, b = frame[cur].back PROVE Alike(b)
    OBVIOUS
  <2>1. cur \in Backs(b)
    BY <1>1, <1>2 DEF Backs
  <2>2. frame[b].kind # "none"
    BY <2>1, Referred DEF IInv
  <2>3. b # cur
    BY <1>1, <1>2, Foremost DEF CallsInv
  <2> QED BY <1>3, <2>2, <2>3 DEF Stands, Rests
<1>5. PICK st \in Seq(Activation) :
         /\ kind = "destroy" => CallsUnder[cont] = st /\ CallsUnder'[cont'] = st
         /\ kind # "destroy" =>
               /\ CallsUnder[cont] = Append(st, ActivationAt(cur))
               /\ CallsUnder'[cont'] =
                     Append(st, [pos |-> IF kind = "entry" THEN 0 ELSE frame'[cur].pos,
                                 wait |-> frame'[cur].wait,
                                 destructor |-> ActivationAt(cur).destructor])
  BY <1>1, <1>2, <1>3, <1>4, TopCalls
<1>6. CASE kind = "destroy"
  BY <1>5, <1>6 DEF CallsMove
<1>7. CASE kind = "code"
  <2>1. PICK a \in Activation : a = ActivationAt(cur)
    BY <1>1, Activations DEF IInv
  <2>2. a.pos = frame[cur].pos /\ a.wait = frame[cur].wait /\ a.wait # "called"
    BY <1>1, <1>2, <1>7, <2>1, Foremost DEF ActivationAt, CallsInv
  <2>3. [a EXCEPT !.pos = @ + 1, !.wait = "called"]
           = [pos |-> a.pos + 1, wait |-> "called", destructor |-> a.destructor]
    BY Moved
  <2>4. CallsUnder'[cont'] = Append(st, [a EXCEPT !.pos = @ + 1, !.wait = "called"])
    BY <1>1, <1>5, <1>7, <2>1, <2>2, <2>3 DEF TellsAndMakes
  <2>5. Calls!Advance
    BY <1>5, <1>7, <2>1, <2>2, <2>4, Advances
  <2> QED BY <2>5 DEF CallsMove, Calls!StackNext
<1> QED BY <1>6, <1>7

LEMMA EnterMoves ==
    ASSUME IInv, CallsInv, CallsKnown, CallsKnown', EvalEnter
    PROVE  CallsMove
<1>1. /\ Evaluating("entry") /\ TellsAndMakes("no") /\ cur \in Frame /\ cont' = cont
      /\ frame[cur].kind = "entry" /\ Fresh # cur
      /\ \A h \in Frame \ {cur, Fresh} : Rests(h)
  BY EnterDoes, EnterTells, Evaluated DEF EvalEnter, IInv, Keeps
<1>2. Alike(cur) /\ frame[Fresh].kind = "none"
  BY EnterDoes DEF Steps, Made
<1>3. \A h \in Frame \ {cur} : frame[h].kind # "none" => Stands(h)
  BY <1>1, <1>2 DEF Stands, TellsAndMakes
<1>4. frame[cur].back \in Frame => Alike(frame[cur].back)
  <2> SUFFICES ASSUME NEW b \in Frame, b = frame[cur].back PROVE Alike(b)
    OBVIOUS
  <2>1. cur \in Backs(b)
    BY <1>1 DEF Backs
  <2>2. frame[b].kind # "none"
    BY <2>1, Referred DEF IInv
  <2>3. b # cur
    BY <1>1, Foremost DEF CallsInv
  <2> QED BY <1>3, <2>2, <2>3 DEF Stands, Rests
<1>5. PICK st \in Seq(Activation) :
         /\ CallsUnder[cont] = Append(st, ActivationAt(cur))
         /\ CallsUnder'[cont'] = Append(st, [pos |-> 0, wait |-> frame'[cur].wait,
                                             destructor |-> ActivationAt(cur).destructor])
  BY <1>1, <1>2, <1>3, <1>4, TopCalls
<1>6. frame[cur].wait = "no" /\ frame'[cur].wait = "no"
  BY <1>1 DEF CallsInv, WaitInv, Waits, TellsAndMakes
<1>7. ActivationAt(cur) = [pos |-> 0, wait |-> "no",
                           destructor |-> ActivationAt(cur).destructor]
  BY <1>1, <1>6 DEF ActivationAt
<1> QED BY <1>5, <1>6, <1>7 DEF CallsMove

LEMMA SetrMoves ==
    ASSUME IInv, CallsInv, CallsKnown, CallsKnown', EvalSetr
    PROVE  CallsMove
<1>1. PICK c \in Frame, b \in Frame : c = cur /\ b = frame[c].back /\ b # c
  BY SetrDoes, Evaluated DEF IInv
<1>2. /\ Evaluating("code") /\ frame[c].kind = "code" /\ frame[c].pos = Body /\ Body \in Nat
      /\ cont = c /\ cont' = c /\ frame[c].wait # "called"
  BY <1>1, SetrDoes, Evaluated, Foremost, InterpreterAssumption DEF IInv, CallsInv, EvalSetr
<1>3. /\ Alike(c) /\ frame'[c].pos = frame[c].pos + 1 /\ frame'[c].wait = "no"
  BY <1>1, SetrDoes, SetrTells DEF Steps
<1>4. Rests(b) /\ frame'[b].wait = "answered"
  BY <1>1, SetrDoes, SetrTells
<1>5. \A h \in Frame \ {c, b} : Stands(h)
  BY <1>1, SetrDoes, SetrTells DEF Keeps, Stands
<1>6. GoesBack(c, b) /\ ~Answered(c)
  BY <1>1, <1>2, InterpreterAssumption DEF CallsInv, WaitInv, Waits, Program, Answered
<1>7. PICK a \in Activation : a = ActivationAt(c)
  BY Activations DEF IInv
<1>8. a.pos = frame[c].pos /\ a.wait = frame[c].wait
      /\ (a.destructor <=> frame[b].kind = "destroy")
  BY <1>1, <1>2, <1>7, InterpreterAssumption DEF ActivationAt
<1>9. [a EXCEPT !.pos = @ + 1, !.wait = "no"]
         = [pos |-> frame'[c].pos, wait |-> "no", destructor |-> a.destructor]
  <2>1. [a EXCEPT !.pos = @ + 1, !.wait = "no"]
           = [pos |-> a.pos + 1, wait |-> "no", destructor |-> a.destructor]
    BY Moved
  <2>2. a.pos + 1 = frame'[c].pos
    BY <1>3, <1>8
  <2> QED BY <2>1, <2>2, Zenon
<1>10. CASE frame[b].kind = "destroy"
  <2>1. \A h \in Frame \ {cur} : frame[h].kind # "none" =>
           Stands(h) \/ (frame[h].kind = "destroy" /\ Alike(h))
    BY <1>1, <1>4, <1>5, <1>10 DEF Rests
  <2>2. PICK st \in Seq(Activation) :
           /\ CallsUnder[cont] = Append(st, ActivationAt(c))
           /\ CallsUnder'[cont'] = Append(st, [pos |-> frame'[c].pos, wait |-> frame'[c].wait,
                                               destructor |-> ActivationAt(c).destructor])
    BY <1>1, <1>2, <1>3, <1>4, <2>1, TopCalls DEF Rests
  <2>3. CallsUnder'[cont'] = Append(st, [a EXCEPT !.pos = @ + 1, !.wait = "no"])
    BY <1>3, <1>7, <1>9, <2>2
  <2>4. Calls!Advance
    BY <1>2, <1>7, <1>8, <2>2, <2>3, Advances
  <2> QED BY <2>4 DEF CallsMove, Calls!StackNext
<1>11. CASE frame[b].kind = "code"
  <2>1. PICK d \in Frame \cup {NoFrame} : d = frame[b].back
    BY Typed DEF IInv
  <2>2. d # c /\ d # b
    <3>1. d # c
      BY <1>1, <1>2, <1>11, <2>1, Foremost DEF CallsInv
    <3>2. b # NoFrame
      BY InterpreterAssumption
    <3>3. d # b
      BY <1>1, <1>2, <1>11, <2>1, <3>2, Foremost DEF CallsInv
    <3> QED BY <3>1, <3>3
  <2>3. PICK under \in Seq(Activation) : under = CallsUnder[d]
    BY <1>11, <2>1, CallsOfFrame
  <2>4. CallsUnder'[d] = under
    <3>1. PICK n \in 0 .. Cardinality(Frame) : \E s \in [1 .. n -> Frame] : Chain(n, s)
      BY DEF IInv, ChainInv
    <3>2. PICK s \in [1 .. n -> Frame] : Chain(n, s)
      BY <3>1
    <3>3. n >= 1 /\ n \in Nat /\ s[n] = c /\ b = IF n = 1 THEN NoFrame ELSE s[n - 1]
      BY <1>1, <1>2, <3>2, LastOfChain
    <3>4. n # 1 /\ b = s[n - 1] /\ n - 1 \in 1 .. n
      BY <3>3, InterpreterAssumption
    <3>5. d = IF n - 1 = 1 THEN NoFrame ELSE s[n - 1 - 1]
      BY <2>1, <3>2, <3>4 DEF Chain, Links
    <3>6. CASE n - 1 = 1
      BY <2>3, <3>5, <3>6 DEF CallsKnown
    <3>7. CASE n - 1 # 1
      <4>1. PICK m \in 0 .. n : m = n - 2 /\ m \in 1 .. m /\ d = s[m] /\ m < n - 1 /\ m < n
        BY <3>3, <3>4, <3>5, <3>7
      <4>2. ASSUME NEW i \in 1 .. m PROVE Stands(s[i])
        <5>1. i \in 1 .. n /\ n \in 1 .. n /\ i # n /\ i # n - 1
          BY <3>3, <4>1
        <5>2. s[i] # s[n] /\ s[i] # s[n - 1]
          BY <3>2, <3>4, <5>1 DEF Chain
        <5> QED BY <1>5, <3>3, <3>4, <5>1, <5>2
      <4>3. CallsUnder'[s[m]] = CallsUnder[s[m]]
        BY <3>2, <3>3, <4>1, <4>2, CallsStand
      <4> QED BY <2>3, <4>1, <4>3
    <3> QED BY <3>6, <3>7
  <2>5. PICK p \in Activation : p = ActivationAt(b)
    BY Activations DEF IInv
  <2>6. p.wait = "called"
    BY <1>6, <1>11, <2>5 DEF GoesBack, ActivationAt
  <2>7. ActivationAt(b)' = [p EXCEPT !.wait = "answered"]
    <3>1. d # NoFrame => frame'[d].kind = frame[d].kind
      BY <1>5, <2>2 DEF Stands, Rests, Alike
    <3>2. PICK x, y, z : p = [pos |-> x, wait |-> y, destructor |-> z]
      BY DEF Activation
    <3>3. [p EXCEPT !.wait = "answered"] = [pos |-> x, wait |-> "answered", destructor |-> z]
      BY <3>2
    <3>4. ActivationAt(b)' = [pos |-> frame[b].pos, wait |-> "answered",
                              destructor |-> d # NoFrame /\ frame[d].kind = "destroy"]
      BY <1>4, <1>11, <2>1, <3>1 DEF ActivationAt, Rests, Alike
    <3>5. p = [pos |-> frame[b].pos, wait |-> frame[b].wait,
               destructor |-> d # NoFrame /\ frame[d].kind = "destroy"]
      BY <1>11, <2>1, <2>5 DEF ActivationAt
    <3>6. x = frame[b].pos /\ z = (d # NoFrame /\ frame[d].kind = "destroy")
      BY <3>2, <3>5
    <3> QED BY <3>3, <3>4, <3>6
  <2>8. CallsUnder[b] = Append(under, p)
    BY <1>11, <2>1, <2>3, <2>5 DEF CallsKnown, Onto
  <2>9. CallsUnder'[b] = Append(under, [p EXCEPT !.wait = "answered"])
    <3>1. frame'[b].kind = "code" /\ frame'[b].back = d
      BY <1>4, <1>11, <2>1 DEF Rests, Alike
    <3>2. CallsUnder'[b] = (Onto(CallsUnder[frame[b].back], b))'
      BY <3>1 DEF CallsKnown
    <3> QED BY <2>4, <2>7, <3>1, <3>2 DEF Onto
  <2>10. PICK st \in Seq(Activation) : st = CallsUnder[b]
    BY <1>11, CallsOfFrame
  <2>11. CallsUnder[cont] = Append(st, a)
    BY <1>1, <1>2, <1>7, <2>10 DEF CallsKnown, Onto
  <2>12. CallsUnder'[cont'] = Append(CallsUnder'[b], [a EXCEPT !.pos = @ + 1, !.wait = "no"])
    <3>1. frame'[c].kind = "code" /\ frame'[c].back = b
      BY <1>1, <1>2, <1>3 DEF Alike
    <3>2. CallsUnder'[c] = (Onto(CallsUnder[frame[c].back], c))'
      BY <3>1 DEF CallsKnown
    <3>3. ActivationAt(c)' = [pos |-> frame'[c].pos, wait |-> "no", destructor |-> a.destructor]
      <4>1. a.destructor = (frame[c].back # NoFrame /\ frame[frame[c].back].kind = "destroy")
        BY <1>7 DEF ActivationAt
      <4>2. frame'[b].kind = frame[b].kind
        BY <1>4 DEF Rests, Alike
      <4> QED BY <1>1, <1>3, <3>1, <4>1, <4>2 DEF ActivationAt
    <3> QED BY <1>2, <1>9, <3>1, <3>2, <3>3 DEF Onto
  <2>13. CallsUnder'[cont'] = Append(Append(under, [p EXCEPT !.wait = "answered"]),
                                     [a EXCEPT !.pos = @ + 1, !.wait = "no"])
    BY <2>9, <2>12
  <2>14. Calls!Answer
    BY <1>8, <1>11, <2>6, <2>8, <2>10, <2>11, <2>13, Answers
  <2> QED BY <2>14 DEF CallsMove, Calls!StackNext
<1> QED BY <1>6, <1>10, <1>11 DEF GoesBack

LEMMA StandMoves ==
    ASSUME IInv, CallsKnown, CallsKnown', cont' = cont,
           \/ frame' = frame \/ Drop \/ DropRegister \/ FreeFrame \/ Release \/ HostRun
    PROVE  CallsMove
<1>1. PICK n \in 0 .. Cardinality(Frame) : \E s \in [1 .. n -> Frame] : Chain(n, s)
  BY DEF IInv, ChainInv
<1>2. PICK s \in [1 .. n -> Frame] : Chain(n, s)
  BY <1>1
<1>3. n \in Nat /\ \A i \in 1 .. n : s[i] \in Frame /\ frame[s[i]].kind # "none"
  BY <1>2, FrameSets DEF Chain, Links
<1>4. CASE frame' = frame
  <2>1. CallsUnder' = CallsUnder
    BY <1>4 DEF CallsUnder
  <2> QED BY <2>1 DEF CallsMove
<1>5. CASE Drop \/ DropRegister \/ FreeFrame \/ Release \/ HostRun
  <2>1. Root = cont
    <3>1. CASE Drop \/ DropRegister \/ FreeFrame
      BY <3>1, DropDoes, DropRegisterDoes, FreeDoes, Unreferencing
    <3>2. CASE Release
      BY <3>2 DEF Release, Doing, Root
    <3>3. CASE HostRun
      BY <3>3, RunDoes DEF HostFree, Doing, Root
    <3> QED BY <1>5, <3>1, <3>2, <3>3
  <2>2. ASSUME NEW i \in 1 .. n PROVE Stands(s[i])
    <3>1. CASE Drop \/ DropRegister
      BY <1>3, <3>1, DropStands
    <3>2. CASE Release \/ HostRun
      <4>1. frame[Fresh].kind = "none" /\ \A h \in Frame \ {Fresh} : Stands(h)
        BY <3>2, ReleaseStands, RunStands DEF Made
      <4> QED BY <1>3, <4>1
    <3>3. CASE FreeFrame
      <4>1. PICK f \in Frame : f = Head(agenda).frame
        BY <3>3, FreeDoes, Unreferencing
      <4>2. Leaving(n, s, f)
        <5>1. agenda # <<>> /\ Head(agenda).op = "unref" /\ frame[f].rc = 1
          BY <3>3, <4>1, FreeDoes, Unreferencing
        <5> QED BY <1>2, <1>3, <4>1, <5>1, LastReference DEF IInv
      <4>3. \A h \in Frame \ {f} : Stands(h)
        BY <3>3, <4>1, FreeDoes, FreeTells DEF Keeps, Stands
      <4> QED BY <1>3, <4>2, <4>3 DEF Leaving, InChain
    <3> QED BY <1>5, <3>1, <3>2, <3>3
  <2>3. CallsUnder'[cont'] = CallsUnder[cont]
    BY <1>2, <1>3, <2>1, <2>2, ContCalls
  <2> QED BY <2>3 DEF CallsMove
<1> QED BY <1>4, <1>5

\* A goto shows as the start or the end of a program, as a call or a return,
\* as a method that destroys, or not at all.
LEMMA GotoMoves ==
    ASSUME IInv, CallsInv, CallsKnown, CallsKnown', Goto
    PROVE  CallsMove
<1>1. PICK f \in Frame \cup {NoFrame} : f = Head(agenda).frame
  BY Stack, Operations DEF Goto, Doing, IInv
<1>2. /\ cont' = f /\ CallsUnder' = CallsUnder /\ Leads(f)
      /\ cont \in Frame \cup {NoFrame} /\ Body \in Nat
  <2>1. frame' = frame /\ cont' = f /\ Leads(f)
    BY <1>1 DEF Goto, CallsInv, GotoInv, Leads
  <2>2. CallsUnder' = CallsUnder
    BY <2>1 DEF CallsUnder
  <2> QED BY <2>1, <2>2, InterpreterAssumption DEF IInv, TypeOK
<1>3. TypeOK /\ CallsUnder[NoFrame] = <<>>
  BY DEF IInv, CallsKnown
<1>4. CASE f = NoFrame /\ Ran
  <2>1. Calls!Finished
    BY <1>3, <1>4, RanFinished
  <2>2. Calls!End
    BY <1>2, <1>3, <1>4, <2>1 DEF Calls!End
  <2> QED BY <2>2 DEF CallsMove, Calls!StackNext
<1>5. CASE f # NoFrame /\ Called(f)
  <2>1. f \in Frame /\ frame[f].back = cont /\ frame[f].wait = "no" /\ frame[f].pos = 0
    BY <1>5 DEF Called, Newly
  <2>2. CASE frame[f].kind = "destroy"
    <3>1. CallsUnder[f] = CallsUnder[cont]
      BY <2>1, <2>2 DEF CallsKnown, Onto
    <3> QED BY <1>2, <3>1 DEF CallsMove
  <2>3. CASE frame[f].kind # "destroy"
    <3>1. /\ Program(f) /\ cont # NoFrame /\ cont \in Frame
          /\ \/ frame[cont].kind = "destroy"
             \/ frame[cont].kind = "code" /\ frame[cont].wait = "called"
      BY <1>2, <1>5, <2>3 DEF Called
    <3>2. CallsUnder[f] = Append(CallsUnder[cont], ActivationAt(f))
      BY <2>1, <3>1 DEF CallsKnown, Onto, Program
    <3>3. ActivationAt(f) = [pos |-> 0, wait |-> "no",
                             destructor |-> frame[cont].kind = "destroy"]
      BY <2>1, <3>1 DEF ActivationAt, Program
    <3>4. CASE frame[cont].kind = "destroy"
      <4>1. CallsUnder'[cont'] = Append(CallsUnder[cont],
                                        [pos |-> 0, wait |-> "no", destructor |-> TRUE])
        BY <1>2, <3>2, <3>3, <3>4
      <4>2. Calls!Interrupt
        BY <4>1, Interrupts
      <4> QED BY <4>2 DEF CallsMove, Calls!StackNext
    <3>5. CASE frame[cont].kind = "code" /\ frame[cont].wait = "called"
      <4>1. CallsUnder'[cont'] = Append(CallsUnder[cont],
                                        [pos |-> 0, wait |-> "no", destructor |-> FALSE])
        BY <1>2, <3>2, <3>3, <3>5
      <4>2. PICK st \in Seq(Activation) : CallsUnder[cont] = Append(st, ActivationAt(cont))
        BY <3>1, <3>5, CallsOfFrame DEF Onto
      <4>3. ActivationAt(cont) \in Activation /\ ActivationAt(cont).wait = "called"
        BY <1>3, <3>1, <3>5, Activations DEF ActivationAt
      <4>4. Calls!Enter
        BY <4>1, <4>2, <4>3, Enters
      <4> QED BY <4>4 DEF CallsMove, Calls!StackNext
    <3> QED BY <3>1, <3>4, <3>5
  <2> QED BY <2>2, <2>3
<1>6. CASE f # NoFrame /\ Started(f)
  <2>1. /\ f \in Frame /\ frame[f].back = NoFrame /\ frame[f].wait = "no" /\ frame[f].pos = 0
        /\ frame[f].kind = "code" /\ Ran
    BY <1>6 DEF Started, Newly
  <2>2. CallsUnder[f] = Append(<<>>, ActivationAt(f))
    <3>1. CallsUnder[f] = Onto(CallsUnder[NoFrame], f)
      BY <2>1 DEF CallsKnown
    <3> QED BY <1>3, <2>1, <3>1 DEF Onto
  <2>3. ActivationAt(f) = [pos |-> 0, wait |-> "no", destructor |-> FALSE]
    BY <2>1 DEF ActivationAt
  <2>4. PICK a : a = [pos |-> 0, wait |-> "no", destructor |-> FALSE]
    OBVIOUS
  <2>5. CallsUnder'[cont'] = Append(<<>>, a)
    BY <1>2, <2>2, <2>3, <2>4
  <2>6. Append(<<>>, a) = <<a>>
    OBVIOUS
  <2>7. Calls!Finished
    BY <1>3, <2>1, RanFinished
  <2>8. Calls!Begin
    BY <2>4, <2>5, <2>6, <2>7 DEF Calls!Begin, Calls!ActivationOf
  <2> QED BY <2>8 DEF CallsMove, Calls!StackNext
<1>7. CASE f # NoFrame /\ EntersBody(f)
  <2>1. /\ f \in Frame /\ frame[f].wait = "no" /\ frame[f].pos = 0 /\ frame[f].kind = "code"
        /\ cont \in Frame /\ frame[cont].kind = "entry" /\ frame[f].back = frame[cont].back
    BY <1>2, <1>7 DEF EntersBody, Newly
  <2>2. frame[cont].wait = "no"
    BY <2>1 DEF CallsInv, WaitInv, Waits
  <2>3. ActivationAt(f) = ActivationAt(cont)
    BY <2>1, <2>2 DEF ActivationAt
  <2>4. CallsUnder[f] = CallsUnder[cont]
    BY <2>1, <2>3 DEF CallsKnown, Onto
  <2> QED BY <1>2, <2>4 DEF CallsMove
<1>8. CASE Returns(f)
  <2>1. cont \in Frame /\ f = frame[cont].back
    BY <1>2, <1>8 DEF Returns
  <2>2. CASE frame[cont].kind = "destroy"
    <3>1. CallsUnder[cont] = CallsUnder[f]
      BY <2>1, <2>2 DEF CallsKnown, Onto
    <3> QED BY <1>2, <3>1 DEF CallsMove
  <2>3. CASE /\ frame[cont].kind = "code" /\ f # NoFrame
             /\ frame[cont].pos = Body + 2 /\ frame[cont].wait # "called"
    <3>1. PICK st \in Seq(Activation) : st = CallsUnder[f]
      BY <2>1, <2>3, CallsOfFrame
    <3>2. PICK a \in Activation : a = ActivationAt(cont)
      BY <1>3, <2>1, Activations
    <3>3. CallsUnder[cont] = Append(st, a)
      BY <2>1, <2>3, <3>1, <3>2 DEF CallsKnown, Onto
    <3>4. /\ a.pos = Body + 2 /\ a.wait # "called"
          /\ a.destructor = (frame[f].kind = "destroy")
      BY <2>1, <2>3, <3>2 DEF ActivationAt
    <3>5. ~a.destructor => \E under \in Seq(Activation), b \in Activation :
                              st = Append(under, b) /\ b.wait = "answered"
      <4> SUFFICES ASSUME ~a.destructor
                   PROVE  \E under \in Seq(Activation), b \in Activation :
                             st = Append(under, b) /\ b.wait = "answered"
        OBVIOUS
      <4>1. f \in Frame /\ frame[f].kind # "destroy" /\ GoesBack(cont, f) /\ Answered(cont)
        <5>1. f \in Frame /\ frame[f].kind # "destroy"
          BY <2>3, <3>4
        <5>2. Answered(cont)
          BY <1>2, <2>3 DEF Answered
        <5>3. Waits(cont) /\ Program(cont)
          BY <2>1, <2>3 DEF CallsInv, WaitInv, Program
        <5>4. GoesBack(cont, f)
          BY <2>1, <2>3, <5>3 DEF Waits
        <5> QED BY <5>1, <5>2, <5>4
      <4>2. frame[f].kind = "code" /\ frame[f].wait = "answered"
        BY <4>1 DEF GoesBack
      <4>3. PICK under \in Seq(Activation) : st = Append(under, ActivationAt(f))
        BY <3>1, <4>1, <4>2, CallsOfFrame DEF Onto
      <4>4. ActivationAt(f) \in Activation /\ ActivationAt(f).wait = "answered"
        BY <1>3, <4>1, <4>2, Activations DEF ActivationAt
      <4> QED BY <4>3, <4>4
    <3>6. CallsUnder'[cont'] = st
      BY <1>2, <3>1
    <3>7. Calls!Leave
      BY <3>3, <3>4, <3>5, <3>6, Leaves
    <3> QED BY <3>7 DEF CallsMove, Calls!StackNext
  <2> QED BY <1>8, <2>2, <2>3 DEF Returns
<1> QED BY <1>2, <1>4, <1>5, <1>6, <1>7, <1>8 DEF Leads

LEMMA CallsMoves ==
    ASSUME IInv, IInv', CallsInv, [Next]_vars
    PROVE  CallsMove
<1>1. CallsKnown /\ CallsKnown'
  BY CallsAreKnown, CallsAreKnownNext
<1>2. CASE Goto
  BY <1>1, <1>2, GotoMoves
<1>3. CASE EvalNew \/ EvalOverwrite \/ EvalReturn \/ EvalDestroyAll \/ EvalGotoCurrent
  BY <1>1, <1>3, GoesOnMoves
<1>4. CASE EvalCall \/ EvalDestroyMethod
  BY <1>1, <1>4, CallMoves
<1>5. CASE EvalEnter
  BY <1>1, <1>5, EnterMoves
<1>6. CASE EvalSetr
  BY <1>1, <1>6, SetrMoves
<1>7. CASE Drop \/ DropRegister \/ FreeFrame \/ Release \/ HostRun
  <2>1. cont' = cont
    BY <1>7 DEF Drop, DropRegister, FreeFrame, Release, HostRun
  <2> QED BY <1>1, <1>7, <2>1, StandMoves
<1>8. CASE \/ LoopEnter \/ Reread \/ LoopExit \/ HostCreate \/ HostRelease \/ HostStop
           \/ ReleaseInterpreter \/ Terminated \/ UNCHANGED vars
  <2>1. frame' = frame
    BY <1>8 DEF LoopEnter, Reread, LoopExit, HostCreate, HostRelease, HostStop,
                ReleaseInterpreter, Terminated, vars
  <2>2. cont' = cont
    <3>1. CASE ReleaseInterpreter
      BY <3>1, StoppedEmpty DEF ReleaseInterpreter
    <3>2. CASE ~ReleaseInterpreter
      BY <1>8, <3>2 DEF LoopEnter, Reread, LoopExit, HostCreate, HostRelease, HostStop,
                        Terminated, vars
    <3> QED BY <3>1, <3>2
  <2> QED BY <1>1, <2>1, <2>2, StandMoves
<1> QED BY <1>2, <1>3, <1>4, <1>5, <1>6, <1>7, <1>8
        DEF Next, CStack, RunLoop, Eval, Host

\* Whatever continuations, frames and destructions the interpreter juggles, to
\* the program it is a stack of calls.
THEOREM IsACallStack == Spec => ImplementsCallStack
<1>1. Init => CallsUnder[cont] = <<>>
  BY Start, CallsAreKnown DEF Init, CallsKnown
<1>2. IInv /\ IInv' /\ CallsInv /\ [Next]_vars
         => [Calls!StackNext]_(CallsUnder[cont])
  BY CallsMoves DEF CallsMove
<1> QED BY <1>1, <1>2, InductiveInvariant, CallersWait, PTL
        DEF Spec, ImplementsCallStack, Calls!StackSpec

=============================================================================
