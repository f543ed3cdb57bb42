------------------------ MODULE SmopInterpreterProofs ------------------------
(***************************************************************************)
(* The SMOP interpreter dispatches to frames that exist, counts them       *)
(* exactly, carries every destruction that was started, and stops clean,   *)
(* for any number of frames and objects and bodies of any length.          *)
(***************************************************************************)
EXTENDS SmopInterpreter, TLAPS, FiniteSetTheorems, SequenceTheorems,
        WellFoundedInduction

-----------------------------------------------------------------------------
(* Sets of frames and of objects are finite *)

LEMMA FrameSets ==
    ASSUME NEW S, S \subseteq Frame
    PROVE  IsFiniteSet(S) /\ Cardinality(S) \in Nat
BY FS_Subset, FS_CardinalityType, InterpreterAssumption

LEMMA ObjectSets ==
    ASSUME NEW S, S \subseteq Object
    PROVE  IsFiniteSet(S) /\ Cardinality(S) \in Nat
BY FS_Subset, FS_CardinalityType, InterpreterAssumption

LEMMA NonEmpty ==
    ASSUME NEW S, IsFiniteSet(S), NEW x \in S
    PROVE  Cardinality(S) > 0
<1>1. Cardinality(S) \in Nat /\ Cardinality(S) # 0
  BY FS_CardinalityType, FS_EmptySet
<1> QED BY <1>1

LEMMA Added ==
    ASSUME NEW S, IsFiniteSet(S), NEW x, x \notin S
    PROVE  Cardinality(S \cup {x}) = Cardinality(S) + 1
BY FS_AddElement

LEMMA Removed ==
    ASSUME NEW S, IsFiniteSet(S), NEW x \in S
    PROVE  Cardinality(S \ {x}) = Cardinality(S) - 1
BY FS_RemoveElement

-----------------------------------------------------------------------------
(* The C stack *)

Mentioned(ops, f) == Cardinality(Mentions(ops, f))

LEMMA MentionsNumber ==
    ASSUME NEW ops \in Seq(Op), NEW f
    PROVE  Mentioned(ops, f) \in Nat /\ IsFiniteSet(Mentions(ops, f))
<1>1. PICK n \in Nat : DOMAIN ops = 1 .. n
  BY LenProperties
<1>2. IsFiniteSet(1 .. n) /\ Mentions(ops, f) \subseteq 1 .. n
  BY <1>1, FS_Interval DEF Mentions
<1> QED BY <1>2, FS_Subset, FS_CardinalityType DEF Mentioned

LEMMA MentionedNone == \A f : Mentioned(<<>>, f) = 0
<1>1. \A f : Mentions(<<>>, f) = {}
  BY DEF Mentions
<1> QED BY <1>1, FS_EmptySet DEF Mentioned

\* One more operation in front mentions its frame once more.
LEMMA MentionedFirst ==
    ASSUME NEW op \in Op, NEW ops \in Seq(Op), NEW f
    PROVE  Mentioned(<<op>> \o ops, f)
              = Mentioned(ops, f) + (IF op.frame = f THEN 1 ELSE 0)
<1>1. PICK n \in Nat : n = Len(ops) /\ DOMAIN ops = 1 .. n
  BY LenProperties
<1>2. /\ DOMAIN (<<op>> \o ops) = 1 .. n + 1
      /\ (<<op>> \o ops)[1] = op
      /\ \A i \in 1 .. n : (<<op>> \o ops)[i + 1] = ops[i]
  BY <1>1, ConcatProperties
<1> DEFINE S == Mentions(ops, f)
           T == {i + 1 : i \in S}
           g == [i \in S |-> i + 1]
<1>3. S \subseteq 1 .. n
  BY <1>1 DEF Mentions
<1>4. g \in Bijection(S, T)
  <2>1. g \in [S -> T] /\ \A i, j \in S : g[i] = g[j] => i = j
    BY <1>3
  <2>2. \A k \in T : \E i \in S : g[i] = k
    OBVIOUS
  <2>3. g \in Injection(S, T)
    BY <2>1 DEF Injection, IsInjective
  <2>4. g \in Surjection(S, T)
    BY <2>1, <2>2 DEF Surjection
  <2> QED BY <2>3, <2>4 DEF Bijection
<1>5. IsFiniteSet(T) /\ Cardinality(T) = Cardinality(S)
  <2>1. ExistsBijection(S, T)
    BY <1>4 DEF ExistsBijection
  <2> QED BY <2>1, MentionsNumber, FS_Bijection
<1>6. 1 \notin T
  BY <1>3
<1>7. Mentions(<<op>> \o ops, f) = IF op.frame = f THEN T \cup {1} ELSE T
  <2>1. ASSUME NEW k
        PROVE  k \in Mentions(<<op>> \o ops, f) <=>
                 k \in IF op.frame = f THEN T \cup {1} ELSE T
    <3>1. CASE k \in 2 .. n + 1
      <4>1. PICK i \in 1 .. n : k = i + 1
        <5>1. k - 1 \in 1 .. n /\ k = (k - 1) + 1
          BY <3>1
        <5> QED BY <5>1
      <4>2. k \in Mentions(<<op>> \o ops, f) <=> ops[i].frame = f
        BY <1>2, <4>1 DEF Mentions
      <4>3. k \in T <=> i \in S
        BY <1>3, <4>1
      <4> QED BY <1>1, <4>1, <4>2, <4>3 DEF Mentions
    <3>2. CASE k = 1
      BY <1>2, <1>6, <3>2 DEF Mentions
    <3>3. CASE k \notin 1 .. n + 1
      <4>1. k \notin T /\ k # 1
        BY <1>3, <3>3
      <4> QED BY <1>2, <3>3, <4>1 DEF Mentions
    <3> QED BY <3>1, <3>2, <3>3
  <2> QED BY <2>1
<1>8. Cardinality(T \cup {1}) = Cardinality(S) + 1
  BY <1>5, <1>6, Added
<1>9. Cardinality(S) \in Nat
  BY MentionsNumber DEF Mentioned
<1>10. CASE op.frame = f
  BY <1>7, <1>8, <1>10 DEF Mentioned
<1>11. CASE op.frame # f
  <2>1. Mentions(<<op>> \o ops, f) = T
    BY <1>7, <1>11
  <2>2. Mentioned(<<op>> \o ops, f) = Mentioned(ops, f) /\ Mentioned(ops, f) \in Nat
    BY <1>5, <1>9, <2>1 DEF Mentioned
  <2> QED BY <1>11, <2>2
<1> QED BY <1>10, <1>11

LEMMA MentionedOne ==
    ASSUME NEW op \in Op, NEW f
    PROVE  Mentioned(<<op>>, f) = IF op.frame = f THEN 1 ELSE 0
<1>1. <<op>> = <<op>> \o <<>> /\ <<>> \in Seq(Op)
  BY EmptySeq, ConcatEmptySeq
<1>2. Mentioned(<<op>> \o <<>>, f) = Mentioned(<<>>, f) + (IF op.frame = f THEN 1 ELSE 0)
  BY <1>1, MentionedFirst
<1> QED BY <1>1, <1>2, MentionedNone

\* The operation in hand, and what is left to do after it
LEMMA Stack ==
    ASSUME TypeOK, agenda # <<>>
    PROVE  /\ Head(agenda) \in Op /\ Tail(agenda) \in Seq(Op)
           /\ Head(agenda) = agenda[1]
           /\ Len(Tail(agenda)) = Len(agenda) - 1
           /\ \A i \in 1 .. Len(agenda) - 1 : Tail(agenda)[i] = agenda[i + 1]
           /\ \A f : Mentioned(agenda, f) = Mentioned(Tail(agenda), f)
                                  + (IF Head(agenda).frame = f THEN 1 ELSE 0)
<1>1. /\ Head(agenda) \in Op /\ Tail(agenda) \in Seq(Op)
      /\ Head(agenda) = agenda[1]
      /\ Len(Tail(agenda)) = Len(agenda) - 1
      /\ \A i \in 1 .. Len(agenda) - 1 : Tail(agenda)[i] = agenda[i + 1]
  BY HeadTailProperties, ElementOfSeq DEF TypeOK
<1>2. agenda = <<Head(agenda)>> \o Tail(agenda)
  <2>1. agenda \in Seq(Op) /\ <<Head(agenda)>> \o Tail(agenda) \in Seq(Op)
    BY <1>1 DEF TypeOK
  <2>2. Len(<<Head(agenda)>> \o Tail(agenda)) = Len(agenda)
    BY <1>1, <2>1, ConcatProperties, LenProperties
  <2>3. ASSUME NEW i \in 1 .. Len(agenda)
        PROVE  agenda[i] = (<<Head(agenda)>> \o Tail(agenda))[i]
    BY <1>1, <2>1, ConcatProperties, LenProperties
  <2> QED BY <2>1, <2>2, <2>3, SeqEqual
<1>3. ASSUME NEW f
      PROVE  Mentioned(agenda, f) = Mentioned(Tail(agenda), f)
                                  + (IF Head(agenda).frame = f THEN 1 ELSE 0)
  <2>1. PICK op \in Op, rest \in Seq(Op) : op = Head(agenda) /\ rest = Tail(agenda)
    BY <1>1
  <2>2. Mentioned(<<op>> \o rest, f) = Mentioned(rest, f) + (IF op.frame = f THEN 1 ELSE 0)
    BY MentionedFirst
  <2> QED BY <1>2, <2>1, <2>2
<1> QED BY <1>1, <1>3

LEMMA Operations ==
    /\ \A f \in Frame : Unref(f) \in Op /\ Unref(f).frame = f /\ Unref(f).op = "unref"
    /\ \A f \in Frame \cup {NoFrame} :
          GotoOp(f) \in Op /\ GotoOp(f).frame = f /\ GotoOp(f).op = "goto"
    /\ \A o \in Object : /\ ReleaseOp(o) \in Op /\ ReleaseOp(o).frame = NoFrame
                         /\ ReleaseOp(o).op = "release" /\ ReleaseOp(o).obj = o
    /\ \A op \in Op : /\ op.op = "unref" => op.frame \in Frame
                      /\ op.op = "goto" => op.frame \in Frame \cup {NoFrame}
                      /\ op.op = "release" => op.obj \in Object /\ op.frame = NoFrame
BY DEF Op, Unref, GotoOp, ReleaseOp

LEMMA Pushing ==
    ASSUME NEW x \in Op, NEW ops \in Seq(Op)
    PROVE  LET new == <<x>> \o ops
           IN  /\ new \in Seq(Op) /\ Len(new) = Len(ops) + 1 /\ new # <<>>
               /\ Head(new) = x /\ new[1] = x /\ Len(ops) \in Nat
               /\ \A i \in 1 .. Len(ops) : new[i + 1] = ops[i]
<1>1. PICK n \in Nat : n = Len(ops)
  BY LenProperties
<1>2. PICK new \in Seq(Op) : new = <<x>> \o ops
  <2>1. <<x>> \in Seq(Op)
    OBVIOUS
  <2> QED BY <2>1, ConcatProperties
<1>3. Len(new) = n + 1 /\ new[1] = x /\ \A i \in 1 .. n : new[i + 1] = ops[i]
  BY <1>1, <1>2, ConcatProperties
<1>4. new # <<>>
  BY <1>1, <1>3, EmptySeq
<1>5. Head(new) = x
  BY <1>3, <1>4, HeadTailProperties
<1> QED BY <1>1, <1>2, <1>3, <1>4, <1>5

LEMMA Nothing == \A ops \in Seq(Op) : <<>> \o ops = ops
BY ConcatEmptySeq

\* What an eval leaves to the C stack
LEMMA Joined ==
    ASSUME NEW s \in Seq(Op), NEW x \in Op, NEW t \in Seq(Op), Len(t) = Len(s) + 1,
           \A i \in 1 .. Len(s) : t[i] = s[i], t[Len(s) + 1] = x
    PROVE  s \o <<x>> = t
<1>1. PICK n \in Nat : n = Len(s)
  BY LenProperties
<1>2. <<x>> \in Seq(Op) /\ Len(<<x>>) = 1 /\ <<x>>[1] = x
  OBVIOUS
<1>3. /\ s \o <<x>> \in Seq(Op) /\ Len(s \o <<x>>) = n + 1
      /\ \A i \in 1 .. n : (s \o <<x>>)[i] = s[i]
      /\ (s \o <<x>>)[n + 1] = x
  BY <1>1, <1>2, ConcatProperties
<1>4. ASSUME NEW i \in 1 .. n + 1 PROVE (s \o <<x>>)[i] = t[i]
  <2>1. CASE i = n + 1
    BY <1>1, <1>3, <2>1
  <2>2. CASE i \in 1 .. n
    BY <1>1, <1>3, <2>2
  <2>3. i = n + 1 \/ i \in 1 .. n
    OBVIOUS
  <2> QED BY <2>1, <2>2, <2>3
<1> QED BY <1>1, <1>3, <1>4, SeqEqual

LEMMA Left ==
    ASSUME NEW x \in Op
    PROVE  /\ <<>> \o <<x>> = <<x>> /\ <<x>> \in Seq(Op)
           /\ <<x>> # <<>> /\ Len(<<x>>) = 1 /\ Head(<<x>>) = x
           /\ \A y \in Op :
                /\ <<y>> \o <<x>> = <<y, x>> /\ <<y, x>> \in Seq(Op)
                /\ <<y, x>> # <<>> /\ Len(<<y, x>>) = 2 /\ Head(<<y, x>>) = y
                /\ \A z \in Op :
                     /\ (<<z>> \o <<y>>) \o <<x>> = <<z, y, x>> /\ <<z, y, x>> \in Seq(Op)
                     /\ <<z, y, x>> # <<>> /\ Len(<<z, y, x>>) = 3
                     /\ Head(<<z, y, x>>) = z
<1>1. /\ <<x>> \in Seq(Op) /\ <<>> \o <<x>> = <<x>>
      /\ <<x>> # <<>> /\ Len(<<x>>) = 1 /\ Head(<<x>>) = x
  BY ConcatEmptySeq
<1>2. ASSUME NEW y \in Op
      PROVE  /\ <<y>> \o <<x>> = <<y, x>> /\ <<y, x>> \in Seq(Op)
             /\ <<y, x>> # <<>> /\ Len(<<y, x>>) = 2 /\ Head(<<y, x>>) = y
  <2>1. /\ <<y>> \in Seq(Op) /\ Len(<<y>>) = 1 /\ <<y>>[1] = y
        /\ <<y, x>> \in Seq(Op) /\ Len(<<y, x>>) = 2
        /\ <<y, x>>[1] = y /\ <<y, x>>[2] = x
        /\ <<y, x>> # <<>> /\ Head(<<y, x>>) = y
    OBVIOUS
  <2>2. <<y>> \o <<x>> = <<y, x>>
    <3>1. PICK s \in Seq(Op), t \in Seq(Op) : s = <<y>> /\ t = <<y, x>>
      BY <2>1
    <3>2. /\ Len(s) = 1 /\ Len(t) = Len(s) + 1 /\ t[Len(s) + 1] = x
          /\ \A i \in 1 .. Len(s) : t[i] = s[i]
      BY <2>1, <3>1
    <3>3. s \o <<x>> = t
      BY <3>2, Joined
    <3> QED BY <3>1, <3>3
  <2> QED BY <2>1, <2>2
<1>3. ASSUME NEW y \in Op, NEW z \in Op
      PROVE  /\ (<<z>> \o <<y>>) \o <<x>> = <<z, y, x>> /\ <<z, y, x>> \in Seq(Op)
             /\ <<z, y, x>> # <<>> /\ Len(<<z, y, x>>) = 3
             /\ Head(<<z, y, x>>) = z
  <2>1. <<z>> \o <<y>> = <<z, y>>
    <3>1. /\ <<z>> \in Seq(Op) /\ Len(<<z>>) = 1 /\ <<z>>[1] = z
          /\ <<z, y>> \in Seq(Op) /\ Len(<<z, y>>) = 2
          /\ <<z, y>>[1] = z /\ <<z, y>>[2] = y
      OBVIOUS
    <3>2. PICK s \in Seq(Op), t \in Seq(Op) : s = <<z>> /\ t = <<z, y>>
      BY <3>1
    <3>3. /\ Len(s) = 1 /\ Len(t) = Len(s) + 1 /\ t[Len(s) + 1] = y
          /\ \A i \in 1 .. Len(s) : t[i] = s[i]
      BY <3>1, <3>2
    <3>4. s \o <<y>> = t
      BY <3>3, Joined
    <3> QED BY <3>2, <3>4
  <2>2. /\ <<z, y, x>> \in Seq(Op)
        /\ <<z, y, x>> # <<>> /\ Len(<<z, y, x>>) = 3 /\ Head(<<z, y, x>>) = z
    OBVIOUS
  <2>3. <<z, y>> \o <<x>> = <<z, y, x>>
    <3>1. /\ <<z, y>> \in Seq(Op) /\ Len(<<z, y>>) = 2
          /\ <<z, y>>[1] = z /\ <<z, y>>[2] = y
          /\ <<z, y, x>>[1] = z /\ <<z, y, x>>[2] = y /\ <<z, y, x>>[3] = x
      OBVIOUS
    <3>2. \A i \in 1 .. 2 : <<z, y, x>>[i] = <<z, y>>[i]
      OBVIOUS
    <3>3. PICK s \in Seq(Op), t \in Seq(Op) : s = <<z, y>> /\ t = <<z, y, x>>
      BY <2>2, <3>1
    <3>4. /\ Len(s) = 2 /\ Len(t) = Len(s) + 1 /\ t[Len(s) + 1] = x
          /\ \A i \in 1 .. Len(s) : t[i] = s[i]
      BY <2>2, <3>1, <3>2, <3>3
    <3>5. s \o <<x>> = t
      BY <3>4, Joined
    <3> QED BY <3>3, <3>5
  <2> QED BY <2>1, <2>2, <2>3
<1> QED BY <1>1, <1>2, <1>3

-----------------------------------------------------------------------------
(* What steps do to the frames *)

LEMMA Typed ==
    ASSUME TypeOK, NEW f \in Frame
    PROVE  /\ frame[f] \in FrameRecord
           /\ frame[f].kind \in {"none", "code", "entry", "destroy"}
           /\ frame[f].pos \in 0 .. Body + 2 /\ frame[f].rc \in Nat
           /\ frame[f].back \in Frame \cup {NoFrame}
           /\ frame[f].holds \subseteq Object
           /\ frame[f].value \in Object \cup {NoObject}
BY DEF TypeOK, FrameRecord

\* All frames but these are left as they are.
Only(fs) == frame' \in [Frame -> FrameRecord] /\ \A h \in Frame \ fs : frame'[h] = frame[h]

\* A frame is the one it was, and goes on to its next operation or not.
Alike(h) == /\ frame'[h].kind = frame[h].kind
            /\ frame'[h].back = frame[h].back
            /\ frame'[h].value = frame[h].value
Rests(h) == Alike(h) /\ frame'[h].pos = frame[h].pos

LEMMA OthersRest ==
    ASSUME NEW fs, Only(fs)
    PROVE  \A h \in Frame \ fs : Rests(h) /\ frame'[h] = frame[h]
BY DEF Only, Rests, Alike

LEMMA RestsNext ==
    ASSUME NEW h, Rests(h)
    PROVE  HasNext(frame[h])' <=> HasNext(frame[h])
BY DEF Rests, Alike, HasNext, Length

\* Frames have a place in memory as long as anything refers to them.
LEMMA LiveFrames ==
    ASSUME TypeOK, RoomInv, NEW f \in Frame
    PROVE  /\ frame[f].kind = "none" => frame[f].holds = {} /\ frame[f].rc = 0
           /\ frame[f].kind # "none" => frame[f].rc > 0
           /\ frame[f].kind = "none" <=> f \in Unused
<1>1. frame[f].kind = "none" => frame[f].holds = {} /\ frame[f].rc = 0
  BY DEF RoomInv
<1>2. frame[f].kind # "none" => frame[f].rc > 0
  BY DEF RoomInv
<1>3. frame[f].kind = "none" <=> f \in Unused
  BY DEF Unused
<1> QED BY <1>1, <1>2, <1>3

-----------------------------------------------------------------------------
(* Counting references *)

Backed(f) == Cardinality(Backs(f))

LEMMA BackedNumber == \A f : Backed(f) \in Nat /\ IsFiniteSet(Backs(f))
<1>1. \A f : Backs(f) \subseteq Frame
  BY DEF Backs
<1> QED BY <1>1, FrameSets DEF Backed

LEMMA BackedStays ==
    ASSUME \A h \in Frame : frame'[h].kind = frame[h].kind /\ frame'[h].back = frame[h].back
    PROVE  \A f : Backed(f)' = Backed(f)
<1>1. ASSUME NEW f PROVE Backs(f)' = Backs(f)
  <2>1. \A h : h \in Backs(f)' <=> h \in Backs(f)
    BY DEF Backs
  <2> QED BY <2>1
<1> QED BY <1>1 DEF Backed

LEMMA BackedMore ==
    ASSUME NEW fresh \in Frame, frame[fresh].kind = "none", frame'[fresh].kind # "none",
           \A h \in Frame \ {fresh} :
              frame'[h].kind = frame[h].kind /\ frame'[h].back = frame[h].back
    PROVE  \A f : Backed(f)' = Backed(f) + (IF f = frame'[fresh].back THEN 1 ELSE 0)
<1> SUFFICES ASSUME NEW f
             PROVE  Backed(f)' = Backed(f) + (IF f = frame'[fresh].back THEN 1 ELSE 0)
  OBVIOUS
<1>1. fresh \notin Backs(f) /\ IsFiniteSet(Backs(f)) /\ Cardinality(Backs(f)) \in Nat
  BY BackedNumber DEF Backs, Backed
<1>2. CASE f = frame'[fresh].back
  <2>1. \A h : h \in Backs(f)' <=> h \in Backs(f) \cup {fresh}
    BY <1>2 DEF Backs
  <2>2. Backs(f)' = Backs(f) \cup {fresh}
    BY <2>1
  <2> QED BY <1>1, <1>2, <2>2, Added DEF Backed
<1>3. CASE f # frame'[fresh].back
  <2>1. \A h : h \in Backs(f)' <=> h \in Backs(f)
    BY <1>3 DEF Backs
  <2>2. Backs(f)' = Backs(f)
    BY <2>1
  <2> QED BY <1>1, <1>3, <2>2 DEF Backed
<1> QED BY <1>2, <1>3

LEMMA BackedLess ==
    ASSUME NEW gone \in Frame, frame[gone].kind # "none", frame'[gone].kind = "none",
           \A h \in Frame \ {gone} :
              frame'[h].kind = frame[h].kind /\ frame'[h].back = frame[h].back
    PROVE  \A f : Backed(f)' = Backed(f) - (IF f = frame[gone].back THEN 1 ELSE 0)
<1> SUFFICES ASSUME NEW f
             PROVE  Backed(f)' = Backed(f) - (IF f = frame[gone].back THEN 1 ELSE 0)
  OBVIOUS
<1>1. IsFiniteSet(Backs(f)) /\ Cardinality(Backs(f)) \in Nat
  BY BackedNumber DEF Backed
<1>2. CASE f = frame[gone].back
  <2>1. \A h : h \in Backs(f)' <=> h \in Backs(f) \ {gone}
    BY DEF Backs
  <2>2. Backs(f)' = Backs(f) \ {gone} /\ gone \in Backs(f)
    BY <1>2, <2>1 DEF Backs
  <2> QED BY <1>1, <1>2, <2>2, Removed DEF Backed
<1>3. CASE f # frame[gone].back
  <2>1. \A h : h \in Backs(f)' <=> h \in Backs(f)
    BY <1>3 DEF Backs
  <2>2. Backs(f)' = Backs(f)
    BY <2>1
  <2> QED BY <1>1, <1>3, <2>2 DEF Backed
<1> QED BY <1>2, <1>3

Continues(f) == IF cont = f THEN 1 ELSE 0

LEMMA Counted ==
    FrameCountsExact <=>
        \A f \in Frame : frame[f].rc = Continues(f) + Backed(f) + Mentioned(agenda, f)
BY DEF FrameCountsExact, References, Continues, Backed, Mentioned

LEMMA CountedNext ==
    FrameCountsExact' <=>
        \A f \in Frame :
           frame'[f].rc = Continues(f)' + Backed(f)' + Mentioned(agenda, f)'
BY DEF FrameCountsExact, References, Continues, Backed, Mentioned

LEMMA MentionedThen == \A f : Mentioned(agenda, f)' = Mentioned(agenda', f)
BY DEF Mentioned, Mentions

\* What a frame that is referred to is
LEMMA Referred ==
    ASSUME TypeOK, RoomInv, FrameCountsExact, NEW f \in Frame,
           cont = f \/ Backs(f) # {} \/ (\E i \in DOMAIN agenda : agenda[i].frame = f)
    PROVE  frame[f].kind # "none" /\ frame[f].rc > 0
<1>1. frame[f].rc = Continues(f) + Backed(f) + Mentioned(agenda, f)
  BY Counted
<1>2. Backed(f) \in Nat /\ IsFiniteSet(Backs(f)) /\ Continues(f) \in {0, 1}
  BY BackedNumber DEF Continues
<1>3. Mentioned(agenda, f) \in Nat /\ IsFiniteSet(Mentions(agenda, f))
  BY MentionsNumber DEF TypeOK
<1>4. Backs(f) # {} => Backed(f) > 0
  BY <1>2, NonEmpty DEF Backed
<1>5. (\E i \in DOMAIN agenda : agenda[i].frame = f) => Mentioned(agenda, f) > 0
  <2>1. (\E i \in DOMAIN agenda : agenda[i].frame = f) => Mentions(agenda, f) # {}
    BY DEF Mentions
  <2> QED BY <1>3, <2>1, NonEmpty DEF Mentioned
<1>6. frame[f].rc > 0
  BY <1>1, <1>2, <1>3, <1>4, <1>5 DEF Continues
<1> QED BY <1>6, LiveFrames, Typed

-----------------------------------------------------------------------------
(* The chain of frames *)

LEMMA ChainTop ==
    ASSUME NEW n \in Nat, NEW s \in [1 .. n -> Frame], Chain(n, s)
    PROVE  /\ Root = NoFrame <=> n = 0
           /\ Root \in Frame <=> n > 0
           /\ n > 0 => s[n] = Root /\ InChain(n, s, Root)
           /\ \A i \in 1 .. n : s[i] \in Frame /\ s[i] # NoFrame
<1>1. Root = IF n = 0 THEN NoFrame ELSE s[n]
  BY DEF Chain
<1>2. \A i \in 1 .. n : s[i] \in Frame /\ s[i] # NoFrame
  BY InterpreterAssumption
<1>3. n > 0 => n \in 1 .. n
  OBVIOUS
<1> QED BY <1>1, <1>2, <1>3, InterpreterAssumption DEF InChain

\* Whenever the loop or the host acts, every frame is in the chain.
LEMMA NoneLeaving ==
    ASSUME TypeOK, RoomInv, FrameCountsExact, agenda = <<>>,
           NEW n \in Nat, NEW s \in [1 .. n -> Frame], Chain(n, s),
           NEW f \in Frame, frame[f].kind # "none"
    PROVE  InChain(n, s, f)
<1> SUFFICES ASSUME ~InChain(n, s, f) PROVE FALSE
  OBVIOUS
<1>1. Leaving(n, s, f)
  BY DEF Leaving
<1>2. cont # f
  <2>1. Root = cont
    BY DEF Root, Doing
  <2> QED BY <2>1, ChainTop DEF TypeOK
<1>3. Backs(f) = {}
  <2> SUFFICES ASSUME NEW g \in Frame, frame[g].kind # "none", frame[g].back = f PROVE FALSE
    BY DEF Backs
  <2>1. CASE InChain(n, s, g)
    <3>1. PICK i \in 1 .. n : s[i] = g
      BY <2>1 DEF InChain
    <3>2. f = IF i = 1 THEN NoFrame ELSE s[i - 1]
      BY <3>1 DEF Chain, Links
    <3>3. i # 1 => i - 1 \in 1 .. n
      OBVIOUS
    <3> QED BY <3>2, <3>3, InterpreterAssumption DEF InChain
  <2>2. CASE ~InChain(n, s, g)
    <3>1. Leaving(n, s, g)
      BY <2>2 DEF Leaving
    <3>2. f = g /\ (frame[f].back = NoFrame \/ InChain(n, s, frame[f].back))
      BY <1>1, <3>1 DEF Chain, LeavesOne
    <3> QED BY <3>2, InterpreterAssumption
  <2> QED BY <2>1, <2>2
<1>4. Continues(f) = 0 /\ Backed(f) = 0 /\ Mentioned(agenda, f) = 0
  BY <1>2, <1>3, FS_EmptySet, MentionedNone DEF Continues, Backed
<1>5. frame[f].rc = 0
  BY <1>4, Counted
<1> QED BY <1>5, LiveFrames

\* A frame whose count is one is not in the chain if a release mentions it.
LEMMA LastReference ==
    ASSUME TypeOK, RoomInv, FrameCountsExact, agenda # <<>>, Head(agenda).op = "unref",
           NEW n \in Nat, NEW s \in [1 .. n -> Frame], Chain(n, s),
           NEW f \in Frame, Head(agenda).frame = f, frame[f].rc = 1
    PROVE  /\ Leaving(n, s, f) /\ Tail(agenda) = <<>> /\ cont # f
           /\ Backed(f) = 0 /\ Mentioned(Tail(agenda), f) = 0
<1>1. /\ Mentioned(agenda, f) = Mentioned(Tail(agenda), f) + 1
      /\ Mentioned(Tail(agenda), f) \in Nat /\ Tail(agenda) \in Seq(Op)
  BY Stack, MentionsNumber
<1>2. Continues(f) \in {0, 1} /\ Backed(f) \in Nat /\ IsFiniteSet(Backs(f))
  BY BackedNumber DEF Continues
<1>3. 1 = Continues(f) + Backed(f) + Mentioned(agenda, f)
  BY Counted
<1>4. Continues(f) = 0 /\ Backed(f) = 0 /\ Mentioned(Tail(agenda), f) = 0
  BY <1>1, <1>2, <1>3
<1>5. cont # f /\ Backs(f) = {}
  <2>1. Backs(f) # {} => Backed(f) > 0
    BY <1>2, NonEmpty DEF Backed
  <2> QED BY <1>4, <2>1 DEF Continues
<1>6. ~InChain(n, s, f)
  <2> SUFFICES ASSUME NEW i \in 1 .. n, s[i] = f PROVE FALSE
    BY DEF InChain
  <2>1. CASE i = n
    <3>1. Root = cont
      BY DEF Root, Doing
    <3> QED BY <1>5, <2>1, <3>1, ChainTop
  <2>2. CASE i # n
    <3>1. i + 1 \in 1 .. n /\ i + 1 # 1 /\ (i + 1) - 1 = i
      BY <2>2
    <3>2. s[i + 1] \in Backs(f)
      BY <3>1 DEF Chain, Links, Backs
    <3> QED BY <1>5, <3>2
  <2> QED BY <2>1, <2>2
<1>7. frame[f].kind # "none"
  BY LiveFrames
<1>8. Tail(agenda) = <<>>
  <2>1. PICK l \in Nat : l = Len(agenda) /\ DOMAIN agenda = 1 .. l
    BY LenProperties DEF TypeOK
  <2>2. CASE l = 1
    <3>1. Len(Tail(agenda)) = 0
      BY <2>1, <2>2, Stack
    <3> QED BY <1>1, <3>1, EmptySeq
  <2>3. CASE l > 1
    <3>1. agenda[1].op = "unref" /\ agenda[1].frame = f
      BY Stack
    <3>2. agenda[l].frame = f
      BY <1>6, <2>1, <2>3, <3>1 DEF Chain, Harmless
    <3>3. l - 1 \in 1 .. l - 1 /\ Tail(agenda)[l - 1] = agenda[l] /\ Len(Tail(agenda)) = l - 1
      BY <2>1, <2>3, Stack
    <3>4. l - 1 \in Mentions(Tail(agenda), f)
      BY <1>1, <3>2, <3>3, LenProperties DEF Mentions
    <3>5. Mentioned(Tail(agenda), f) > 0
      BY <1>1, <3>4, MentionsNumber, NonEmpty DEF Mentioned
    <3> QED BY <1>4, <3>5
  <2>4. l # 0
    BY <2>1, EmptySeq DEF TypeOK
  <2> QED BY <2>1, <2>2, <2>3, <2>4
<1> QED BY <1>4, <1>5, <1>6, <1>7, <1>8 DEF Leaving

\* Frames rest, except that the one under evaluation goes on and has still
\* something to do, or is the body of a program.
Going(h) == HasNext(frame[h]) \/ (frame[h].back = NoFrame /\ frame[h].kind = "code")

LEMMA ChainStays ==
    ASSUME NEW n \in Nat, NEW s \in [1 .. n -> Frame], Chain(n, s), TypeOK,
           \A h \in Frame : Rests(h) \/ (h = Root /\ Alike(h) /\ Going(h)'),
           Root' = Root, Harmless(n, s)', Stopping' => Stopping
    PROVE  Chain(n, s)'
<1>1. \A h \in Frame : Alike(h)
  BY DEF Rests
<1>2. Links(n, s)'
  <2> SUFFICES ASSUME NEW i \in 1 .. n
               PROVE  /\ frame'[s[i]].kind # "none"
                      /\ frame'[s[i]].back = IF i = 1 THEN NoFrame ELSE s[i - 1]
                      /\ HasNext(frame[s[i]])' \/ (i = 1 /\ frame'[s[i]].kind = "code")
                      /\ frame'[s[i]].kind = "entry" => i > 1
    BY DEF Links
  <2>1. s[i] \in Frame /\ (i # 1 => s[i - 1] \in Frame)
    OBVIOUS
  <2>2. /\ frame[s[i]].kind # "none"
        /\ frame[s[i]].back = IF i = 1 THEN NoFrame ELSE s[i - 1]
        /\ HasNext(frame[s[i]]) \/ (i = 1 /\ frame[s[i]].kind = "code")
        /\ frame[s[i]].kind = "entry" => i > 1
    BY DEF Chain, Links
  <2>3. /\ frame'[s[i]].kind = frame[s[i]].kind
        /\ frame'[s[i]].back = frame[s[i]].back
    BY <1>1, <2>1 DEF Alike
  <2>4. CASE Rests(s[i])
    BY <2>2, <2>3, <2>4, RestsNext
  <2>5. CASE Going(s[i])'
    <3>1. frame'[s[i]].back = NoFrame => i = 1
      BY <2>1, <2>2, <2>3, InterpreterAssumption
    <3> QED BY <2>2, <2>3, <2>5, <3>1 DEF Going
  <2> QED BY <2>1, <2>4, <2>5
<1>3. LeavesOne(n, s)'
  <2>1. \A f \in Frame : Leaving(n, s, f)' <=> Leaving(n, s, f)
    BY <1>1 DEF Leaving, Alike
  <2>2. ASSUME NEW f \in Frame, Leaving(n, s, f)
        PROVE  Rests(f)
    <3>1. f # Root
      BY <2>2, ChainTop DEF Leaving
    <3> QED BY <3>1
  <2>3. ASSUME NEW f \in Frame, Leaving(n, s, f)'
        PROVE  /\ ~HasNext(frame[f])'
               /\ frame'[f].back = NoFrame \/ InChain(n, s, frame'[f].back)
               /\ \A g \in Frame : Leaving(n, s, g)' => f = g
    <3>1. Leaving(n, s, f) /\ Rests(f)
      BY <2>1, <2>2, <2>3
    <3>2. /\ ~HasNext(frame[f])
          /\ frame[f].back = NoFrame \/ InChain(n, s, frame[f].back)
          /\ \A g \in Frame : Leaving(n, s, g) => f = g
      BY <3>1 DEF Chain, LeavesOne
    <3>3. frame'[f].back = frame[f].back
      BY <1>1 DEF Alike
    <3> QED BY <2>1, <3>1, <3>2, <3>3, RestsNext
  <2> QED BY <2>3 DEF LeavesOne
<1>4. (Stopping' /\ n > 0) => frame'[s[1]].kind = "destroy"
  <2>1. n > 0 => s[1] \in Frame
    OBVIOUS
  <2> QED BY <1>1, <2>1 DEF Chain, Alike
<1> QED BY <1>2, <1>3, <1>4 DEF Chain

-----------------------------------------------------------------------------
(* What a step does to a frame *)

\* A frame keeps what it has, and is counted more times or fewer.
Keeps(h, more) == /\ Rests(h)
                  /\ frame'[h].holds = frame[h].holds
                  /\ frame'[h].rc = frame[h].rc + more

\* The frame under evaluation goes on.
Steps(h, holds, more) == /\ Alike(h)
                         /\ frame'[h].pos = frame[h].pos + 1
                         /\ frame'[h].holds = holds
                         /\ frame'[h].rc = frame[h].rc + more

\* A free frame is taken.
Made(f, kind, back, value, holds) ==
    /\ f \in Frame /\ frame[f].kind = "none"
    /\ frame[f].holds = {} /\ frame[f].rc = 0
    /\ frame'[f].kind = kind /\ frame'[f].pos = 0
    /\ frame'[f].back = back /\ frame'[f].value = value
    /\ frame'[f].holds = holds /\ frame'[f].rc = 1

Frames == frame' \in [Frame -> FrameRecord]

LEMMA FreshIsFree ==
    ASSUME TypeOK, RoomInv, Cardinality(Unused) > 0
    PROVE  /\ Fresh \in Frame /\ frame[Fresh].kind = "none"
           /\ frame[Fresh].holds = {} /\ frame[Fresh].rc = 0
<1>1. PICK f \in Frame : frame[f].kind = "none"
  <2>1. Unused # {}
    BY FS_EmptySet
  <2> QED BY <2>1 DEF Unused
<1>2. Fresh \in Frame /\ frame[Fresh].kind = "none"
  BY <1>1 DEF Fresh
<1>3. frame[Fresh].holds = {} /\ frame[Fresh].rc = 0
  BY <1>2, LiveFrames
<1> QED BY <1>2, <1>3

LEMMA NewFrames ==
    /\ Blank \in FrameRecord
    /\ \A back \in Frame \cup {NoFrame}, o \in Object :
          /\ DestroyFrame(back, o) \in FrameRecord
          /\ DestroyFrame(back, o).kind = "destroy" /\ DestroyFrame(back, o).pos = 0
          /\ DestroyFrame(back, o).back = back /\ DestroyFrame(back, o).value = o
          /\ DestroyFrame(back, o).holds = {} /\ DestroyFrame(back, o).rc = 1
    /\ \A kind \in {"code", "entry"}, back \in Frame \cup {NoFrame}, holds \in SUBSET Object :
          /\ CodeFrame(kind, back, holds) \in FrameRecord
          /\ CodeFrame(kind, back, holds).kind = kind /\ CodeFrame(kind, back, holds).pos = 0
          /\ CodeFrame(kind, back, holds).back = back
          /\ CodeFrame(kind, back, holds).value = NoObject
          /\ CodeFrame(kind, back, holds).holds = holds /\ CodeFrame(kind, back, holds).rc = 1
<1>0. Body \in Nat /\ 0 \in 0 .. Body + 2 /\ {} \in SUBSET Object
  BY InterpreterAssumption
<1>1. PICK b \in FrameRecord : b = Blank
  <2>1. Blank \in FrameRecord
    BY <1>0 DEF Blank, FrameRecord
  <2> QED BY <2>1
<1>2. b.pos = 0 /\ b.holds = {} /\ b.value = NoObject
  BY <1>1 DEF Blank
<1>3. ASSUME NEW back \in Frame \cup {NoFrame}, NEW o \in Object
      PROVE  LET new == DestroyFrame(back, o)
             IN  /\ new \in FrameRecord /\ new.kind = "destroy" /\ new.pos = 0
                 /\ new.back = back /\ new.value = o /\ new.holds = {} /\ new.rc = 1
  <2>1. [b EXCEPT !.kind = "destroy", !.back = back, !.value = o, !.rc = 1] \in FrameRecord
    BY DEF FrameRecord
  <2>2. PICK new \in FrameRecord :
           new = [b EXCEPT !.kind = "destroy", !.back = back, !.value = o, !.rc = 1]
    BY <2>1
  <2>3. /\ new.kind = "destroy" /\ new.pos = b.pos /\ new.back = back
        /\ new.value = o /\ new.holds = b.holds /\ new.rc = 1
    BY <2>2 DEF FrameRecord
  <2>4. DestroyFrame(back, o) = new
    BY <1>1, <2>2 DEF DestroyFrame
  <2> QED BY <1>2, <2>3, <2>4
<1>4. ASSUME NEW kind \in {"code", "entry"}, NEW back \in Frame \cup {NoFrame},
             NEW holds \in SUBSET Object
      PROVE  LET new == CodeFrame(kind, back, holds)
             IN  /\ new \in FrameRecord /\ new.kind = kind /\ new.pos = 0
                 /\ new.back = back /\ new.value = NoObject
                 /\ new.holds = holds /\ new.rc = 1
  <2>1. [b EXCEPT !.kind = kind, !.back = back, !.holds = holds, !.rc = 1] \in FrameRecord
    BY DEF FrameRecord
  <2>2. PICK new \in FrameRecord :
           new = [b EXCEPT !.kind = kind, !.back = back, !.holds = holds, !.rc = 1]
    BY <2>1
  <2>3. /\ new.kind = kind /\ new.pos = b.pos /\ new.back = back
        /\ new.value = b.value /\ new.holds = holds /\ new.rc = 1
    BY <2>2 DEF FrameRecord
  <2>4. CodeFrame(kind, back, holds) = new
    BY <1>1, <2>2 DEF CodeFrame
  <2> QED BY <1>2, <2>3, <2>4
<1> QED BY <1>1, <1>3, <1>4

\* The frame in hand when eval is called
LEMMA Evaluated ==
    ASSUME TypeOK, LoopInv, RoomInv, FrameCountsExact, NEW kind, Evaluating(kind)
    PROVE  /\ cur \in Frame /\ cur = cont /\ Root = cont /\ agenda = <<>>
           /\ frame[cur].kind = kind /\ kind # "none" /\ HasNext(frame[cur])
           /\ frame[cur].pos < Length(frame[cur]) /\ at = "eval"
           /\ host \in {"calling", "stopping"}
           /\ Length(frame[cur]) <= Body + 2 /\ Length(frame[cur]) \in Nat
<1>1. /\ cur \in Frame /\ agenda = <<>> /\ at = "eval" /\ HasNext(frame[cur])
      /\ frame[cur].kind = kind
  BY DEF Evaluating, TypeOK
<1>2. cur = cont /\ host \in {"calling", "stopping"}
  BY <1>1 DEF LoopInv
<1>3. Root = cont
  BY <1>1 DEF Root, Doing
<1>4. kind # "none"
  BY <1>1, <1>2, Referred
<1>5. frame[cur].pos < Length(frame[cur])
  BY <1>1 DEF HasNext
<1>6. Length(frame[cur]) <= Body + 2 /\ Length(frame[cur]) \in Nat
  BY <1>1, <1>4, Typed, InterpreterAssumption DEF Length
<1> QED BY <1>1, <1>2, <1>3, <1>4, <1>5, <1>6

LEMMA SteppedFrames ==
    ASSUME TypeOK, LoopInv, RoomInv, FrameCountsExact, NEW kind, Evaluating(kind),
           NEW w \in {"no", "called", "answered"}
    PROVE  /\ Stepped(w) \in [Frame -> FrameRecord]
           /\ \A h \in Frame : Stepped(w)[h].kind = frame[h].kind
           /\ \A h \in Frame : Stepped(w)[h].back = frame[h].back
           /\ \A h \in Frame : Stepped(w)[h].value = frame[h].value
           /\ \A h \in Frame : Stepped(w)[h].holds = frame[h].holds
           /\ Stepped(w)[cur].pos = frame[cur].pos + 1
           /\ Stepped(w)[cur].rc = frame[cur].rc + 1
           /\ \A h \in Frame \ {cur} : Stepped(w)[h] = frame[h]
<1>1. cur \in Frame /\ frame[cur].pos + 1 \in 0 .. Body + 2 /\ frame[cur].rc + 1 \in Nat
  BY Evaluated, Typed, InterpreterAssumption
<1>2. frame \in [Frame -> FrameRecord]
  BY DEF TypeOK
<1>3. PICK new \in FrameRecord :
         /\ new = [frame[cur] EXCEPT !.pos = @ + 1, !.rc = @ + 1, !.wait = w]
         /\ new.kind = frame[cur].kind /\ new.back = frame[cur].back
         /\ new.value = frame[cur].value /\ new.holds = frame[cur].holds
         /\ new.pos = frame[cur].pos + 1 /\ new.rc = frame[cur].rc + 1
  <2>1. PICK r \in FrameRecord : r = frame[cur]
    BY <1>1, <1>2
  <2>2. [r EXCEPT !.pos = @ + 1, !.rc = @ + 1, !.wait = w] \in FrameRecord
    BY <1>1, <2>1 DEF FrameRecord
  <2>3. PICK new \in FrameRecord : new = [r EXCEPT !.pos = @ + 1, !.rc = @ + 1, !.wait = w]
    BY <2>2
  <2>4. /\ new.kind = r.kind /\ new.back = r.back
        /\ new.value = r.value /\ new.holds = r.holds
        /\ new.pos = r.pos + 1 /\ new.rc = r.rc + 1
    BY <2>3 DEF FrameRecord
  <2> QED BY <2>1, <2>3, <2>4
<1>4. /\ Stepped(w) \in [Frame -> FrameRecord] /\ Stepped(w)[cur] = new
      /\ \A h \in Frame \ {cur} : Stepped(w)[h] = frame[h]
  BY <1>1, <1>2, <1>3 DEF Stepped
<1> QED BY <1>1, <1>3, <1>4

\* One more reference to a frame
LEMMA Retained ==
    ASSUME NEW fs \in [Frame -> FrameRecord], NEW f \in Frame \cup {NoFrame}
    PROVE  /\ Retain(fs, f) \in [Frame -> FrameRecord]
           /\ \A h \in Frame : Retain(fs, f)[h].kind = fs[h].kind
           /\ \A h \in Frame : Retain(fs, f)[h].back = fs[h].back
           /\ \A h \in Frame : Retain(fs, f)[h].value = fs[h].value
           /\ \A h \in Frame : Retain(fs, f)[h].pos = fs[h].pos
           /\ \A h \in Frame : Retain(fs, f)[h].holds = fs[h].holds
           /\ \A h \in Frame : Retain(fs, f)[h].rc = fs[h].rc + (IF h = f THEN 1 ELSE 0)
           /\ \A h \in Frame : fs[h].rc \in Nat
<1>0. \A h \in Frame : fs[h].rc \in Nat
  BY DEF FrameRecord
<1>1. CASE f = NoFrame
  BY <1>0, <1>1, InterpreterAssumption DEF Retain
<1>2. CASE f \in Frame
  <2>1. fs[f].rc \in Nat /\ fs[f].rc + 1 \in Nat
    BY <1>2 DEF FrameRecord
  <2>2. PICK new \in FrameRecord :
           /\ new = [fs[f] EXCEPT !.rc = @ + 1]
           /\ new.kind = fs[f].kind /\ new.back = fs[f].back
           /\ new.value = fs[f].value /\ new.holds = fs[f].holds
           /\ new.pos = fs[f].pos /\ new.rc = fs[f].rc + 1
    <3>1. PICK r \in FrameRecord : r = fs[f]
      BY <1>2
    <3>2. [r EXCEPT !.rc = @ + 1] \in FrameRecord
      BY <2>1, <3>1 DEF FrameRecord
    <3>3. PICK new \in FrameRecord : new = [r EXCEPT !.rc = @ + 1]
      BY <3>2
    <3>4. /\ new.kind = r.kind /\ new.back = r.back
          /\ new.value = r.value /\ new.holds = r.holds
          /\ new.pos = r.pos /\ new.rc = r.rc + 1
      BY <3>3 DEF FrameRecord
    <3> QED BY <3>1, <3>3, <3>4
  <2>3. /\ Retain(fs, f) \in [Frame -> FrameRecord] /\ Retain(fs, f)[f] = new
        /\ \A h \in Frame \ {f} : Retain(fs, f)[h] = fs[h]
    BY <1>2, <2>2, InterpreterAssumption DEF Retain
  <2>4. ASSUME NEW h \in Frame
        PROVE  /\ Retain(fs, f)[h].kind = fs[h].kind /\ Retain(fs, f)[h].back = fs[h].back
               /\ Retain(fs, f)[h].value = fs[h].value /\ Retain(fs, f)[h].pos = fs[h].pos
               /\ Retain(fs, f)[h].holds = fs[h].holds
               /\ Retain(fs, f)[h].rc = fs[h].rc + (IF h = f THEN 1 ELSE 0)
    <3>1. fs[h].rc \in Nat
      BY <1>0
    <3>2. CASE h = f
      BY <2>2, <2>3, <3>2
    <3>3. CASE h # f
      <4>1. Retain(fs, f)[h] = fs[h]
        BY <2>3, <3>3
      <4> QED BY <3>1, <3>3, <4>1
    <3> QED BY <3>2, <3>3
  <2> QED BY <1>0, <2>3, <2>4
<1> QED BY <1>1, <1>2
-----------------------------------------------------------------------------
(* There is room for the frames that will be needed *)

LEMMA RoomNumbers ==
    /\ Cardinality(Unused) \in Nat /\ Cardinality(Live) \in Nat
    /\ Cardinality(MethodsToCome) \in Nat /\ Cardinality(EntriesToCome) \in Nat
    /\ Cardinality({o \in ByMethod : status[o] \in {"live", "pending"}}) \in Nat
    /\ Cardinality({f \in Frame : frame[f].kind = "entry"}) \in Nat
    /\ IsFiniteSet(Unused) /\ IsFiniteSet(Live)
    /\ IsFiniteSet(MethodsToCome) /\ IsFiniteSet(EntriesToCome)
    /\ IsFiniteSet({f \in Frame : frame[f].kind = "entry"})
<1>1. Unused \subseteq Frame /\ EntriesToCome \subseteq Frame
  BY DEF Unused, EntriesToCome
<1>2. Live \subseteq Object /\ MethodsToCome \subseteq Object
  BY InterpreterAssumption DEF Live, MethodsToCome
<1>3. MethodsToCome = {o \in ByMethod : status[o] \in {"live", "pending"}}
  BY DEF MethodsToCome
<1>4. {f \in Frame : frame[f].kind = "entry"} \subseteq Frame
  OBVIOUS
<1> QED BY <1>1, <1>2, <1>3, <1>4, FrameSets, ObjectSets

LEMMA RoomFor ==
    ASSUME TypeOK, RoomInv,
           \/ Spare >= 1
           \/ \E o \in Object : status[o] = "live"
           \/ \E o \in ByMethod : status[o] = "pending"
           \/ \E f \in Frame : frame[f].kind = "entry" /\ frame[f].pos = 0
    PROVE  /\ Fresh \in Frame /\ frame[Fresh].kind = "none"
           /\ frame[Fresh].holds = {} /\ frame[Fresh].rc = 0
<1>1. Cardinality(Unused) >= Cardinality(Live) + Cardinality(MethodsToCome)
                                + Cardinality(EntriesToCome)
  BY DEF RoomInv
<1>2. CASE Spare >= 1
  BY <1>2, RoomNumbers, FreshIsFree DEF Spare, Reserved
<1>3. CASE \E o \in Object : status[o] = "live"
  <2>1. Live # {}
    BY <1>3 DEF Live
  <2>2. Cardinality(Live) > 0
    BY <2>1, RoomNumbers, NonEmpty
  <2> QED BY <1>1, <2>2, RoomNumbers, FreshIsFree
<1>4. CASE \E o \in ByMethod : status[o] = "pending"
  <2>1. MethodsToCome # {}
    BY <1>4 DEF MethodsToCome
  <2>2. Cardinality(MethodsToCome) > 0
    BY <2>1, RoomNumbers, NonEmpty
  <2> QED BY <1>1, <2>2, RoomNumbers, FreshIsFree
<1>5. CASE \E f \in Frame : frame[f].kind = "entry" /\ frame[f].pos = 0
  <2>1. EntriesToCome # {}
    BY <1>5 DEF EntriesToCome
  <2>2. Cardinality(EntriesToCome) > 0
    BY <2>1, RoomNumbers, NonEmpty
  <2> QED BY <1>1, <2>2, RoomNumbers, FreshIsFree
<1> QED BY <1>2, <1>3, <1>4, <1>5

-----------------------------------------------------------------------------
(* What the actions do *)

LEMMA Registers ==
    ASSUME NEW r \in FrameRecord, NEW hs \in SUBSET Object
    PROVE  /\ [r EXCEPT !.holds = hs] \in FrameRecord
           /\ [r EXCEPT !.holds = hs].kind = r.kind /\ [r EXCEPT !.holds = hs].back = r.back
           /\ [r EXCEPT !.holds = hs].value = r.value /\ [r EXCEPT !.holds = hs].pos = r.pos
           /\ [r EXCEPT !.holds = hs].rc = r.rc /\ [r EXCEPT !.holds = hs].holds = hs
<1>1. PICK new \in FrameRecord : new = [r EXCEPT !.holds = hs]
  <2>1. [r EXCEPT !.holds = hs] \in FrameRecord
    BY DEF FrameRecord
  <2> QED BY <2>1
<1>2. /\ new.kind = r.kind /\ new.back = r.back /\ new.value = r.value
      /\ new.pos = r.pos /\ new.rc = r.rc /\ new.holds = hs
  BY <1>1 DEF FrameRecord
<1> QED BY <1>1, <1>2

\* The evaluation of a frame, without what else it does
LEMMA Evaluation ==
    ASSUME IInv, NEW kind, Evaluating(kind), NEW w \in {"no", "called", "answered"}
    PROVE  /\ cur \in Frame /\ frame[cur].holds \subseteq Object
           /\ \A h \in Frame : frame[h].rc \in Nat
           /\ Unref(cur) \in Op /\ <<Unref(cur)>> \in Seq(Op)
           /\ \E fs \in [Frame -> FrameRecord] :
                 /\ fs = Stepped(w)
                 /\ fs[cur].kind = frame[cur].kind /\ fs[cur].back = frame[cur].back
                 /\ fs[cur].value = frame[cur].value /\ fs[cur].holds = frame[cur].holds
                 /\ fs[cur].pos = frame[cur].pos + 1 /\ fs[cur].rc = frame[cur].rc + 1
                 /\ \A h \in Frame \ {cur} : fs[h] = frame[h]
<1>1. /\ cur \in Frame /\ frame[cur].holds \subseteq Object
      /\ \A h \in Frame : frame[h].rc \in Nat
  BY Evaluated, Typed DEF IInv
<1>2. Unref(cur) \in Op /\ <<Unref(cur)>> \in Seq(Op)
  BY <1>1, Operations
<1>3. PICK fs \in [Frame -> FrameRecord] : fs = Stepped(w)
  BY SteppedFrames DEF IInv
<1>4. /\ fs[cur].kind = frame[cur].kind /\ fs[cur].back = frame[cur].back
      /\ fs[cur].value = frame[cur].value /\ fs[cur].holds = frame[cur].holds
      /\ fs[cur].pos = frame[cur].pos + 1 /\ fs[cur].rc = frame[cur].rc + 1
      /\ \A h \in Frame \ {cur} : fs[h] = frame[h]
  BY <1>1, <1>3, SteppedFrames DEF IInv
<1> QED BY <1>1, <1>2, <1>3, <1>4

\* What a step leaves alone
LEMMA Stay ==
    ASSUME NEW h, frame'[h] = frame[h], frame[h].rc \in Nat
    PROVE  Keeps(h, 0)
BY DEF Keeps, Rests, Alike

LEMMA NewDoes ==
    ASSUME IInv, EvalNew
    PROVE  /\ Evaluating("code") /\ frame[cur].pos < Body /\ Spare >= 2 /\ Frames
           /\ \E o \in Object, own \in frame[cur].holds \cup {NoObject} :
                 /\ status[o] = "unborn"
                 /\ status' = [status EXCEPT ![o] = "live"]
                 /\ field' = [field EXCEPT ![o] = own]
                 /\ Steps(cur, (frame[cur].holds \ {own}) \cup {o}, 1)
                 /\ \A h \in Frame \ {cur} : Keeps(h, 0)
           /\ agenda' = <<Unref(cur)>> /\ at' = "reread"
<1>1. Evaluating("code") /\ frame[cur].pos < Body /\ Spare >= 2
  BY DEF EvalNew, InBody
<1>2. PICK o \in Object, own \in frame[cur].holds \cup {NoObject} :
         /\ status[o] = "unborn"
         /\ status' = [status EXCEPT ![o] = "live"]
         /\ field' = [field EXCEPT ![o] = own]
         /\ frame' = [Stepped("no") EXCEPT ![cur].holds = (@ \ {own}) \cup {o}]
  BY DEF EvalNew
<1>3. PICK fs \in [Frame -> FrameRecord] :
         /\ fs = Stepped("no")
         /\ fs[cur].kind = frame[cur].kind /\ fs[cur].back = frame[cur].back
         /\ fs[cur].value = frame[cur].value /\ fs[cur].holds = frame[cur].holds
         /\ fs[cur].pos = frame[cur].pos + 1 /\ fs[cur].rc = frame[cur].rc + 1
         /\ \A h \in Frame \ {cur} : fs[h] = frame[h]
  BY <1>1, Evaluation
<1>4. /\ cur \in Frame /\ frame[cur].holds \subseteq Object
      /\ \A h \in Frame : frame[h].rc \in Nat
      /\ Unref(cur) \in Op
  BY <1>1, Evaluation
<1>5. PICK r \in FrameRecord : r = fs[cur]
  BY <1>4
<1>6. PICK hs \in SUBSET Object : hs = (frame[cur].holds \ {own}) \cup {o}
  BY <1>4
<1>7. frame' = [fs EXCEPT ![cur].holds = hs]
  BY <1>2, <1>3, <1>4, <1>6
<1>8. PICK new \in FrameRecord : new = [r EXCEPT !.holds = hs]
  BY Registers
<1>9. /\ new.kind = r.kind /\ new.back = r.back /\ new.value = r.value
      /\ new.pos = r.pos /\ new.rc = r.rc /\ new.holds = hs
  BY <1>8, Registers
<1>10. Frames /\ frame'[cur] = new /\ \A h \in Frame \ {cur} : frame'[h] = frame[h]
  BY <1>3, <1>4, <1>5, <1>7, <1>8 DEF Frames
<1>11. Steps(cur, hs, 1)
  BY <1>3, <1>5, <1>9, <1>10 DEF Steps, Alike
<1>12. \A h \in Frame \ {cur} : Keeps(h, 0)
  BY <1>4, <1>10, Stay
<1>13. agenda' = <<Unref(cur)>> /\ at' = "reread"
  <2>1. agenda' = <<>> \o <<Unref(cur)>> /\ at' = "reread"
    BY DEF EvalNew, EvalThen
  <2> QED BY <1>4, <2>1, Left
<1> QED BY <1>1, <1>2, <1>6, <1>10, <1>11, <1>12, <1>13

LEMMA OverwriteDoes ==
    ASSUME IInv, EvalOverwrite
    PROVE  /\ Evaluating("code") /\ frame[cur].pos < Body /\ Frames /\ at' = "reread"
           /\ \A h \in Frame \ {cur} : Keeps(h, 0)
           /\ \/ Steps(cur, frame[cur].holds, 1) /\ agenda' = <<Unref(cur)>>
              \/ \E o \in frame[cur].holds :
                    /\ Steps(cur, frame[cur].holds \ {o}, 1)
                    /\ agenda' = <<ReleaseOp(o), Unref(cur)>>
<1>1. Evaluating("code") /\ frame[cur].pos < Body /\ at' = "reread"
  BY DEF EvalOverwrite, InBody, EvalThen
<1>2. PICK fs \in [Frame -> FrameRecord] :
         /\ fs = Stepped("no")
         /\ fs[cur].kind = frame[cur].kind /\ fs[cur].back = frame[cur].back
         /\ fs[cur].value = frame[cur].value /\ fs[cur].holds = frame[cur].holds
         /\ fs[cur].pos = frame[cur].pos + 1 /\ fs[cur].rc = frame[cur].rc + 1
         /\ \A h \in Frame \ {cur} : fs[h] = frame[h]
  BY <1>1, Evaluation
<1>3. /\ cur \in Frame /\ frame[cur].holds \subseteq Object
      /\ \A h \in Frame : frame[h].rc \in Nat
      /\ Unref(cur) \in Op
  BY <1>1, Evaluation
<1>4. CASE frame' = Stepped("no") /\ EvalThen(<<>>)
  <2>1. Frames /\ \A h \in Frame \ {cur} : frame'[h] = frame[h]
    BY <1>2, <1>4 DEF Frames
  <2>2. Steps(cur, frame[cur].holds, 1)
    BY <1>2, <1>4 DEF Steps, Alike
  <2>3. agenda' = <<Unref(cur)>>
    <3>1. agenda' = <<>> \o <<Unref(cur)>>
      BY <1>4 DEF EvalThen
    <3> QED BY <1>3, <3>1, Left
  <2> QED BY <1>1, <1>3, <2>1, <2>2, <2>3, Stay
<1>5. CASE \E o \in frame[cur].holds :
              /\ frame' = [Stepped("no") EXCEPT ![cur].holds = @ \ {o}]
              /\ EvalThen(<<ReleaseOp(o)>>)
  <2>1. PICK o \in frame[cur].holds :
              /\ frame' = [Stepped("no") EXCEPT ![cur].holds = @ \ {o}]
              /\ EvalThen(<<ReleaseOp(o)>>)
    BY <1>5
  <2>2. PICK r \in FrameRecord : r = fs[cur]
    BY <1>3
  <2>3. PICK hs \in SUBSET Object : hs = frame[cur].holds \ {o}
    BY <1>3
  <2>4. PICK new \in FrameRecord : new = [r EXCEPT !.holds = hs]
    BY Registers
  <2>5. /\ new.kind = r.kind /\ new.back = r.back /\ new.value = r.value
        /\ new.pos = r.pos /\ new.rc = r.rc /\ new.holds = hs
    BY <2>4, Registers
  <2>6. frame' = [fs EXCEPT ![cur].holds = hs]
    BY <1>2, <1>3, <2>1, <2>3
  <2>7. Frames /\ frame'[cur] = new /\ \A h \in Frame \ {cur} : frame'[h] = frame[h]
    BY <1>2, <1>3, <2>2, <2>4, <2>6 DEF Frames
  <2>8. Steps(cur, hs, 1)
    BY <1>2, <2>2, <2>5, <2>7 DEF Steps, Alike
  <2>9. agenda' = <<ReleaseOp(o), Unref(cur)>>
    <3>1. agenda' = <<ReleaseOp(o)>> \o <<Unref(cur)>> /\ o \in Object
      BY <1>3, <2>1 DEF EvalThen
    <3> QED BY <1>3, <3>1, Left, Operations
  <2> QED BY <1>1, <1>3, <2>1, <2>3, <2>7, <2>8, <2>9, Stay
<1> QED BY <1>4, <1>5 DEF EvalOverwrite

\* A frame is made that goes back to another, while one is evaluated.
LEMMA MakesFrame ==
    ASSUME IInv, NEW kind, Evaluating(kind), NEW w \in {"no", "called", "answered"},
           NEW b \in Frame \cup {NoFrame}, NEW hs \in SUBSET Object,
           Fresh \in Frame, frame[Fresh].kind = "none",
           frame[Fresh].holds = {}, frame[Fresh].rc = 0,
           NEW made \in FrameRecord, made.pos = 0, made.rc = 1,
           \/ frame' = [Retain(Stepped(w), b) EXCEPT ![cur].holds = hs, ![Fresh] = made]
           \/ /\ frame' = [Retain(Stepped(w), b) EXCEPT ![Fresh] = made]
              /\ hs = frame[cur].holds
    PROVE  /\ Frames /\ Fresh # cur
           /\ Made(Fresh, made.kind, made.back, made.value, made.holds)
           /\ Steps(cur, hs, IF b = cur THEN 2 ELSE 1)
           /\ \A h \in Frame \ {cur, Fresh} : Keeps(h, IF h = b THEN 1 ELSE 0)
<1>1. PICK fs \in [Frame -> FrameRecord] :
         /\ fs = Stepped(w)
         /\ fs[cur].kind = frame[cur].kind /\ fs[cur].back = frame[cur].back
         /\ fs[cur].value = frame[cur].value /\ fs[cur].holds = frame[cur].holds
         /\ fs[cur].pos = frame[cur].pos + 1 /\ fs[cur].rc = frame[cur].rc + 1
         /\ \A h \in Frame \ {cur} : fs[h] = frame[h]
  BY Evaluation
<1>2. /\ cur \in Frame /\ frame[cur].holds \subseteq Object /\ Fresh # cur
      /\ \A h \in Frame : frame[h].rc \in Nat
  BY Evaluation, Evaluated DEF IInv
<1>3. PICK gs \in [Frame -> FrameRecord] :
         /\ gs = Retain(fs, b)
         /\ \A h \in Frame : gs[h].kind = fs[h].kind /\ gs[h].back = fs[h].back
         /\ \A h \in Frame : gs[h].value = fs[h].value /\ gs[h].pos = fs[h].pos
         /\ \A h \in Frame : gs[h].holds = fs[h].holds
         /\ \A h \in Frame : gs[h].rc = fs[h].rc + (IF h = b THEN 1 ELSE 0)
  BY Retained
<1>4. PICK r \in FrameRecord : r = gs[cur]
  BY <1>2
<1>5. PICK new \in FrameRecord : new = [r EXCEPT !.holds = hs]
  BY Registers
<1>6. /\ new.kind = r.kind /\ new.back = r.back /\ new.value = r.value
      /\ new.pos = r.pos /\ new.rc = r.rc /\ new.holds = hs
  BY <1>5, Registers
<1>7. /\ Frames /\ frame'[Fresh] = made
      /\ \A h \in Frame \ {cur, Fresh} : frame'[h] = gs[h]
      /\ frame'[cur] = new \/ (frame'[cur] = r /\ hs = frame[cur].holds)
  <2>1. CASE frame' = [gs EXCEPT ![cur].holds = hs, ![Fresh] = made]
    BY <1>2, <1>4, <1>5, <2>1 DEF Frames
  <2>2. CASE frame' = [gs EXCEPT ![Fresh] = made] /\ hs = frame[cur].holds
    BY <1>2, <1>4, <2>2 DEF Frames
  <2> QED BY <1>1, <1>3, <2>1, <2>2
<1>8. /\ frame'[cur].kind = r.kind /\ frame'[cur].back = r.back /\ frame'[cur].value = r.value
      /\ frame'[cur].pos = r.pos /\ frame'[cur].rc = r.rc /\ frame'[cur].holds = hs
  BY <1>1, <1>2, <1>3, <1>4, <1>6, <1>7
<1>9. Steps(cur, hs, IF b = cur THEN 2 ELSE 1)
  <2>1. frame[cur].rc \in Nat
    BY <1>2
  <2>2. /\ frame'[cur].kind = frame[cur].kind /\ frame'[cur].back = frame[cur].back
        /\ frame'[cur].value = frame[cur].value /\ frame'[cur].pos = frame[cur].pos + 1
    BY <1>1, <1>2, <1>3, <1>4, <1>8
  <2>3. frame'[cur].rc = (frame[cur].rc + 1) + (IF cur = b THEN 1 ELSE 0)
    BY <1>1, <1>2, <1>3, <1>4, <1>8
  <2>4. frame'[cur].rc = frame[cur].rc + (IF b = cur THEN 2 ELSE 1)
    BY <2>1, <2>3
  <2> QED BY <1>8, <2>2, <2>4 DEF Steps, Alike
<1>10. ASSUME NEW h \in Frame \ {cur, Fresh}
       PROVE  Keeps(h, IF h = b THEN 1 ELSE 0)
  BY <1>1, <1>3, <1>7 DEF Keeps, Rests, Alike
<1>11. Made(Fresh, made.kind, made.back, made.value, made.holds)
  BY <1>7 DEF Made
<1> QED BY <1>2, <1>7, <1>9, <1>10, <1>11

LEMMA CallDoes ==
    ASSUME IInv, EvalCall
    PROVE  /\ Evaluating("code") /\ frame[cur].pos < Body /\ Frames /\ at' = "reread"
           /\ Fresh # cur
           /\ \E kind \in {"code", "entry"}, given \in SUBSET frame[cur].holds :
                 \E old \in SUBSET (frame[cur].holds \ given) :
                    /\ Spare >= (IF kind = "code" THEN 1 ELSE 2)
                    /\ Made(Fresh, kind, cur, NoObject, given)
                    /\ Steps(cur, (frame[cur].holds \ given) \ old, 2)
                    /\ \A h \in Frame \ {cur, Fresh} : Keeps(h, 0)
                    /\ \/ old = {} /\ agenda' = <<GotoOp(Fresh), Unref(cur)>>
                       \/ \E o \in old :
                             /\ old = {o}
                             /\ agenda' = <<GotoOp(Fresh), ReleaseOp(o), Unref(cur)>>
<1>1. Evaluating("code") /\ frame[cur].pos < Body /\ at' = "reread"
  BY DEF EvalCall, InBody, EvalThen
<1>2. PICK kind \in {"code", "entry"}, given \in SUBSET frame[cur].holds :
         /\ Spare >= (IF kind = "code" THEN 1 ELSE 2)
         /\ \E old \in SUBSET (frame[cur].holds \ given) :
                /\ Cardinality(old) <= 1
                /\ frame' = [Retain(Stepped("called"), cont) EXCEPT
                               ![cur].holds = (frame[cur].holds \ given) \ old,
                               ![Fresh] = CodeFrame(kind, cont, given)]
                /\ EvalThen(<<GotoOp(Fresh)>> \o (IF old = {} THEN <<>>
                      ELSE <<ReleaseOp(CHOOSE o \in old : TRUE)>>))
  BY DEF EvalCall
<1>3. PICK old \in SUBSET (frame[cur].holds \ given) :
         /\ Cardinality(old) <= 1
         /\ frame' = [Retain(Stepped("called"), cont) EXCEPT
                        ![cur].holds = (frame[cur].holds \ given) \ old,
                        ![Fresh] = CodeFrame(kind, cont, given)]
         /\ EvalThen(<<GotoOp(Fresh)>> \o (IF old = {} THEN <<>>
                      ELSE <<ReleaseOp(CHOOSE o \in old : TRUE)>>))
  BY <1>2
<1>4. /\ cur \in Frame /\ cur = cont /\ frame[cur].holds \subseteq Object
      /\ Unref(cur) \in Op
  BY <1>1, Evaluation, Evaluated DEF IInv
<1>5. /\ Fresh \in Frame /\ frame[Fresh].kind = "none"
      /\ frame[Fresh].holds = {} /\ frame[Fresh].rc = 0
  <2>1. Spare >= 1
    <3>1. Spare \in Int
      BY RoomNumbers DEF Spare, Reserved
    <3> QED BY <1>2, <3>1
  <2> QED BY <2>1, RoomFor DEF IInv
<1>6. PICK hs \in SUBSET Object : hs = (frame[cur].holds \ given) \ old
  BY <1>4
<1>7. PICK made \in FrameRecord :
         /\ made = CodeFrame(kind, cont, given)
         /\ made.kind = kind /\ made.pos = 0 /\ made.back = cur
         /\ made.value = NoObject /\ made.holds = given /\ made.rc = 1
  <2>1. given \in SUBSET Object /\ cont \in Frame \cup {NoFrame}
    BY <1>4
  <2> QED BY <1>4, <2>1, NewFrames
<1>8. /\ Frames /\ Fresh # cur
      /\ Made(Fresh, made.kind, made.back, made.value, made.holds)
      /\ Steps(cur, hs, IF cur = cur THEN 2 ELSE 1)
      /\ \A h \in Frame \ {cur, Fresh} : Keeps(h, IF h = cur THEN 1 ELSE 0)
  <2>1. frame' = [Retain(Stepped("called"), cur) EXCEPT ![cur].holds = hs, ![Fresh] = made]
    BY <1>3, <1>4, <1>6, <1>7
  <2> QED BY <1>1, <1>4, <1>5, <1>7, <2>1, MakesFrame
<1>9. \/ old = {} /\ agenda' = <<GotoOp(Fresh), Unref(cur)>>
      \/ \E o \in old :
            /\ old = {o}
            /\ agenda' = <<GotoOp(Fresh), ReleaseOp(o), Unref(cur)>>
  <2>1. GotoOp(Fresh) \in Op
    BY <1>5, Operations
  <2>2. CASE old = {}
    <3>1. agenda' = (<<GotoOp(Fresh)>> \o <<>>) \o <<Unref(cur)>>
      BY <1>3, <2>2 DEF EvalThen
    <3>2. <<GotoOp(Fresh)>> \o <<>> = <<GotoOp(Fresh)>>
      BY <2>1, ConcatEmptySeq
    <3>3. PICK x \in Op : x = Unref(cur)
      BY <1>4
    <3>4. PICK g \in Op : g = GotoOp(Fresh)
      BY <2>1
    <3>5. <<g>> \o <<x>> = <<g, x>>
      BY Left
    <3> QED BY <2>2, <3>1, <3>2, <3>3, <3>4, <3>5
  <2>3. CASE old # {}
    <3>1. PICK o \in old : o = CHOOSE x \in old : TRUE
      BY <2>3
    <3>2. old = {o}
      <4>1. IsFiniteSet(old)
        BY <1>4, ObjectSets
      <4>2. Cardinality(old) = 1
        <5>1. Cardinality(old) > 0 /\ Cardinality(old) \in Nat
          BY <3>1, <4>1, NonEmpty, FS_CardinalityType
        <5> QED BY <1>3, <5>1
      <4>3. \E x : old = {x}
        BY <4>1, <4>2, FS_Singleton
      <4> QED BY <3>1, <4>3
    <3>3. ReleaseOp(o) \in Op
      BY <1>4, <3>1, Operations
    <3>4. agenda' = (<<GotoOp(Fresh)>> \o <<ReleaseOp(o)>>) \o <<Unref(cur)>>
      BY <1>3, <2>3, <3>1 DEF EvalThen
    <3>5. agenda' = <<GotoOp(Fresh), ReleaseOp(o), Unref(cur)>>
      BY <1>4, <2>1, <3>3, <3>4, Left
    <3> QED BY <3>1, <3>2, <3>5
  <2> QED BY <2>2, <2>3
<1>10. Made(Fresh, kind, cur, NoObject, given) /\ Steps(cur, hs, 2)
  BY <1>7, <1>8
<1>11. \A h \in Frame \ {cur, Fresh} : Keeps(h, 0)
  BY <1>8
<1> QED BY <1>1, <1>2, <1>6, <1>8, <1>9, <1>10, <1>11

LEMMA DestroyMethodDoes ==
    ASSUME IInv, EvalDestroyMethod
    PROVE  /\ Evaluating("destroy") /\ frame[cur].pos = 0 /\ Frames /\ at' = "reread"
           /\ Fresh # cur
           /\ frame[cur].value \in ByMethod /\ frame[cur].value \in Object
           /\ status' = [status EXCEPT ![frame[cur].value] = "dead"]
           /\ field' = [field EXCEPT ![frame[cur].value] = NoObject]
           /\ Made(Fresh, "code", cur, NoObject, {field[frame[cur].value]} \ {NoObject})
           /\ Steps(cur, frame[cur].holds, 2)
           /\ \A h \in Frame \ {cur, Fresh} : Keeps(h, 0)
           /\ agenda' = <<GotoOp(Fresh), Unref(cur)>>
<1>1. PICK o : o = frame[cur].value
  OBVIOUS
<1>2. /\ Evaluating("destroy") /\ frame[cur].pos = 0 /\ at' = "reread"
      /\ o \in ByMethod /\ o \in Object
      /\ status' = [status EXCEPT ![o] = "dead"]
      /\ field' = [field EXCEPT ![o] = NoObject]
      /\ frame' = [Retain(Stepped("called"), cont) EXCEPT
                       ![Fresh] = CodeFrame("code", cont, {field[o]} \ {NoObject})]
      /\ agenda' = <<GotoOp(Fresh)>> \o <<Unref(cur)>>
  BY <1>1, InterpreterAssumption DEF EvalDestroyMethod, EvalThen
<1>3. /\ cur \in Frame /\ cur = cont /\ frame[cur].holds \subseteq Object
      /\ Unref(cur) \in Op /\ frame[cur].kind = "destroy"
  BY <1>2, Evaluation, Evaluated DEF IInv
<1>4. status[o] = "pending"
  BY <1>1, <1>2, <1>3 DEF IInv, DestroyInv, Coming
<1>5. /\ Fresh \in Frame /\ frame[Fresh].kind = "none"
      /\ frame[Fresh].holds = {} /\ frame[Fresh].rc = 0
  BY <1>2, <1>4, RoomFor DEF IInv
<1>6. PICK given \in SUBSET Object : given = {field[o]} \ {NoObject}
  BY <1>2 DEF IInv, TypeOK
<1>7. PICK made \in FrameRecord :
         /\ made = CodeFrame("code", cont, given)
         /\ made.kind = "code" /\ made.pos = 0 /\ made.back = cur
         /\ made.value = NoObject /\ made.holds = given /\ made.rc = 1
  BY <1>3, NewFrames
<1>8. /\ Frames /\ Fresh # cur
      /\ Made(Fresh, made.kind, made.back, made.value, made.holds)
      /\ Steps(cur, frame[cur].holds, IF cur = cur THEN 2 ELSE 1)
      /\ \A h \in Frame \ {cur, Fresh} : Keeps(h, IF h = cur THEN 1 ELSE 0)
  <2>1. frame' = [Retain(Stepped("called"), cur) EXCEPT ![Fresh] = made]
    BY <1>2, <1>3, <1>6, <1>7
  <2> QED BY <1>2, <1>3, <1>5, <1>7, <2>1, MakesFrame
<1>9. agenda' = <<GotoOp(Fresh), Unref(cur)>>
  BY <1>2, <1>3, <1>5, Left, Operations
<1>10. \A h \in Frame \ {cur, Fresh} : Keeps(h, 0)
  BY <1>8
<1>11. Made(Fresh, "code", cur, NoObject, given) /\ Steps(cur, frame[cur].holds, 2)
  BY <1>7, <1>8
<1> QED BY <1>1, <1>2, <1>6, <1>8, <1>9, <1>10, <1>11
\* The frame under evaluation is the last of the chain.
LEMMA LastOfChain ==
    ASSUME IInv, NEW kind, Evaluating(kind),
           NEW n \in 0 .. Cardinality(Frame), NEW s \in [1 .. n -> Frame], Chain(n, s)
    PROVE  /\ n >= 1 /\ n \in Nat /\ s[n] = cur /\ InChain(n, s, cur)
           /\ frame[cur].back = (IF n = 1 THEN NoFrame ELSE s[n - 1])
           /\ frame[cur].back # cur
           /\ kind = "entry" => n > 1
           /\ frame[cur].back # NoFrame =>
                 n > 1 /\ frame[cur].back \in Frame /\ frame[frame[cur].back].kind # "none"
<1>1. n \in Nat /\ cur \in Frame /\ Root = cur /\ frame[cur].kind = kind
  BY FrameSets, Evaluated DEF IInv
<1>2. n > 0 /\ s[n] = cur /\ InChain(n, s, cur)
  BY <1>1, ChainTop
<1>3. n \in 1 .. n /\ (n > 1 => n - 1 \in 1 .. n)
  BY <1>1, <1>2
<1>4. frame[cur].back = (IF n = 1 THEN NoFrame ELSE s[n - 1]) /\ (kind = "entry" => n > 1)
  BY <1>1, <1>2, <1>3 DEF Chain, Links
<1>5. n > 1 => s[n - 1] # cur /\ s[n - 1] \in Frame /\ frame[s[n - 1]].kind # "none"
  <2>1. n > 1 => s[n - 1] # s[n]
    BY <1>1, <1>3 DEF Chain
  <2> QED BY <1>2, <1>3, <2>1 DEF Chain, Links
<1> QED BY <1>1, <1>2, <1>4, <1>5, InterpreterAssumption

LEMMA EnterDoes ==
    ASSUME IInv, EvalEnter
    PROVE  /\ Evaluating("entry") /\ frame[cur].pos = 0 /\ Frames /\ at' = "reread"
           /\ Fresh # cur /\ frame[cur].back # cur
           /\ \E given \in SUBSET frame[cur].holds :
                 /\ Made(Fresh, "code", frame[cur].back, NoObject, given)
                 /\ Steps(cur, frame[cur].holds \ given, 1)
           /\ \A h \in Frame \ {cur, Fresh} : Keeps(h, IF h = frame[cur].back THEN 1 ELSE 0)
           /\ agenda' = <<GotoOp(Fresh), Unref(cur)>>
<1>1. Evaluating("entry") /\ at' = "reread"
  BY DEF EvalEnter, EvalThen
<1>2. PICK given \in SUBSET frame[cur].holds :
         /\ frame' = [Retain(Stepped("no"), frame[cur].back) EXCEPT
                        ![cur].holds = frame[cur].holds \ given,
                        ![Fresh] = CodeFrame("code", frame[cur].back, given)]
         /\ EvalThen(<<GotoOp(Fresh)>>)
  <2>1. PICK given \in SUBSET frame[cur].holds :
         /\ frame' = [Retain(Stepped("no"), frame[cur].back) EXCEPT
                        ![cur].holds = @ \ given,
                        ![Fresh] = CodeFrame("code", frame[cur].back, given)]
         /\ EvalThen(<<GotoOp(Fresh)>>)
    BY DEF EvalEnter
  <2>2. frame[cur].back \in Frame \cup {NoFrame} /\ cur \in Frame
    BY <1>1, Evaluation, Typed DEF IInv
  <2>3. Retain(Stepped("no"), frame[cur].back)[cur].holds = frame[cur].holds
    <3>1. PICK fs \in [Frame -> FrameRecord] :
             fs = Stepped("no") /\ fs[cur].holds = frame[cur].holds
      BY <1>1, Evaluation
    <3> QED BY <2>2, <3>1, Retained
  <2> QED BY <2>1, <2>3
<1>3. /\ cur \in Frame /\ frame[cur].holds \subseteq Object
      /\ Unref(cur) \in Op /\ frame[cur].kind = "entry"
      /\ frame[cur].back \in Frame \cup {NoFrame}
  BY <1>1, Evaluation, Evaluated, Typed DEF IInv
<1>4. frame[cur].pos = 0
  <2>1. frame[cur].pos < 1 /\ frame[cur].pos \in Nat
    BY <1>1, <1>3, Typed, InterpreterAssumption DEF IInv, Evaluating, HasNext, Length
  <2> QED BY <2>1
<1>5. /\ Fresh \in Frame /\ frame[Fresh].kind = "none"
      /\ frame[Fresh].holds = {} /\ frame[Fresh].rc = 0
  BY <1>3, <1>4, RoomFor DEF IInv
<1>6. frame[cur].back # cur
  BY <1>1, LastOfChain DEF IInv, ChainInv
<1>7. PICK back \in Frame \cup {NoFrame} : back = frame[cur].back
  BY <1>3
<1>8. PICK made \in FrameRecord :
         /\ made = CodeFrame("code", back, given)
         /\ made.kind = "code" /\ made.pos = 0 /\ made.back = back
         /\ made.value = NoObject /\ made.holds = given /\ made.rc = 1
  <2>1. given \in SUBSET Object
    BY <1>3
  <2> QED BY <2>1, NewFrames
<1>9. PICK hs \in SUBSET Object : hs = frame[cur].holds \ given
  BY <1>3
<1>10. /\ Frames /\ Fresh # cur
       /\ Made(Fresh, made.kind, made.back, made.value, made.holds)
       /\ Steps(cur, hs, IF back = cur THEN 2 ELSE 1)
       /\ \A h \in Frame \ {cur, Fresh} : Keeps(h, IF h = back THEN 1 ELSE 0)
  <2>1. frame' = [Retain(Stepped("no"), back) EXCEPT ![cur].holds = hs, ![Fresh] = made]
    BY <1>2, <1>7, <1>8, <1>9
  <2> QED BY <1>1, <1>5, <1>8, <2>1, MakesFrame
<1>11. agenda' = <<GotoOp(Fresh), Unref(cur)>>
  BY <1>2, <1>3, <1>5, Left, Operations DEF EvalThen
<1>12. Made(Fresh, "code", back, NoObject, given) /\ Steps(cur, hs, 1)
  BY <1>6, <1>7, <1>8, <1>10
<1> QED BY <1>1, <1>4, <1>6, <1>7, <1>9, <1>10, <1>11, <1>12

\* $interpreter.goto at the end of a body, and of a destruction
LEMMA LeaveDoes ==
    ASSUME IInv, EvalReturn \/ EvalGotoCurrent
    PROVE  /\ \/ Evaluating("code") /\ frame[cur].pos = Body + 1
              \/ Evaluating("destroy") /\ frame[cur].pos = 1
           /\ Frames /\ at' = "reread"
           /\ frame[cur].back # cur /\ frame[cur].back \in Frame \cup {NoFrame}
           /\ Steps(cur, frame[cur].holds, 1)
           /\ \A h \in Frame \ {cur} : Keeps(h, IF h = frame[cur].back THEN 1 ELSE 0)
           /\ agenda' = <<GotoOp(frame[cur].back), Unref(cur)>>
<1>1. /\ \/ Evaluating("code") /\ frame[cur].pos = Body + 1
         \/ Evaluating("destroy") /\ frame[cur].pos = 1
      /\ at' = "reread"
      /\ frame' = Retain(Stepped("no"), frame[cur].back)
      /\ agenda' = <<GotoOp(frame[cur].back)>> \o <<Unref(cur)>>
  BY DEF EvalReturn, EvalGotoCurrent, EvalThen
<1>2. PICK kind : Evaluating(kind)
  BY <1>1
<1>3. PICK back \in Frame \cup {NoFrame} : back = frame[cur].back
  BY <1>2, Evaluation, Typed DEF IInv
<1>4. PICK fs \in [Frame -> FrameRecord] :
         /\ fs = Stepped("no")
         /\ fs[cur].kind = frame[cur].kind /\ fs[cur].back = frame[cur].back
         /\ fs[cur].value = frame[cur].value /\ fs[cur].holds = frame[cur].holds
         /\ fs[cur].pos = frame[cur].pos + 1 /\ fs[cur].rc = frame[cur].rc + 1
         /\ \A h \in Frame \ {cur} : fs[h] = frame[h]
  BY <1>2, Evaluation
<1>5. /\ cur \in Frame /\ Unref(cur) \in Op
      /\ \A h \in Frame : frame[h].rc \in Nat
  BY <1>2, Evaluation
<1>6. back # cur
  BY <1>2, <1>3, LastOfChain DEF IInv, ChainInv
<1>7. /\ frame' \in [Frame -> FrameRecord]
      /\ \A h \in Frame : frame'[h].kind = fs[h].kind /\ frame'[h].back = fs[h].back
      /\ \A h \in Frame : frame'[h].value = fs[h].value /\ frame'[h].pos = fs[h].pos
      /\ \A h \in Frame : frame'[h].holds = fs[h].holds
      /\ \A h \in Frame : frame'[h].rc = fs[h].rc + (IF h = back THEN 1 ELSE 0)
  BY <1>1, <1>3, <1>4, Retained
<1>8. Steps(cur, frame[cur].holds, 1)
  BY <1>4, <1>5, <1>6, <1>7 DEF Steps, Alike
<1>9. \A h \in Frame \ {cur} : Keeps(h, IF h = back THEN 1 ELSE 0)
  BY <1>4, <1>5, <1>7 DEF Keeps, Rests, Alike
<1>10. agenda' = <<GotoOp(back), Unref(cur)>>
  BY <1>1, <1>3, <1>5, Left, Operations
<1> QED BY <1>1, <1>3, <1>6, <1>7, <1>8, <1>9, <1>10 DEF Frames

LEMMA SetrDoes ==
    ASSUME IInv, EvalSetr
    PROVE  /\ Evaluating("code") /\ frame[cur].pos = Body /\ Frames /\ at' = "reread"
           /\ frame[cur].back \in Frame /\ frame[cur].back # cur
           /\ \E result \in SUBSET frame[cur].holds :
                 /\ Steps(cur, frame[cur].holds \ result, 1)
                 /\ Rests(frame[cur].back)
                 /\ frame'[frame[cur].back].rc = frame[frame[cur].back].rc
                 /\ frame'[frame[cur].back].holds = frame[frame[cur].back].holds \cup result
           /\ \A h \in Frame \ {cur, frame[cur].back} : Keeps(h, 0)
           /\ agenda' = <<Unref(cur)>>
<1>1. /\ Evaluating("code") /\ frame[cur].pos = Body /\ at' = "reread"
      /\ agenda' = <<>> \o <<Unref(cur)>>
  BY DEF EvalSetr, EvalThen
<1>2. /\ cur \in Frame /\ frame[cur].holds \subseteq Object /\ Unref(cur) \in Op
      /\ \A h \in Frame : frame[h].rc \in Nat /\ frame[h].holds \subseteq Object
  BY <1>1, Evaluation, Typed DEF IInv
<1>3. frame[cur].back # NoFrame
  <2>1. frame[cur].kind = "code" /\ HasNext(frame[cur])
    BY <1>1 DEF Evaluating
  <2>2. Body \in Nat
    BY InterpreterAssumption
  <2> QED BY <1>1, <2>1, <2>2 DEF HasNext, Length
<1>4. frame[cur].back \in Frame /\ frame[cur].back # cur
  BY <1>1, <1>3, LastOfChain DEF IInv, ChainInv
<1>5. PICK back \in Frame : back = frame[cur].back /\ back # cur
  BY <1>4
<1>6. PICK result \in SUBSET frame[cur].holds :
         frame' = [Stepped("no") EXCEPT
                            ![cur].holds = @ \ result,
                            ![back].holds = @ \cup result,
                            ![back].wait = "answered"]
  BY <1>5 DEF EvalSetr
<1>7. PICK fs \in [Frame -> FrameRecord] :
         /\ fs = Stepped("no")
         /\ fs[cur].kind = frame[cur].kind /\ fs[cur].back = frame[cur].back
         /\ fs[cur].value = frame[cur].value /\ fs[cur].holds = frame[cur].holds
         /\ fs[cur].pos = frame[cur].pos + 1 /\ fs[cur].rc = frame[cur].rc + 1
         /\ \A h \in Frame \ {cur} : fs[h] = frame[h]
  BY <1>1, Evaluation
<1>8. PICK r \in FrameRecord, q \in FrameRecord : r = fs[cur] /\ q = fs[back]
  BY <1>2, <1>5
<1>9. PICK hs \in SUBSET Object, bs \in SUBSET Object :
         hs = frame[cur].holds \ result /\ bs = frame[back].holds \cup result
  BY <1>2, <1>5
<1>10. PICK new \in FrameRecord : new = [r EXCEPT !.holds = hs]
  BY Registers
<1>11. /\ new.kind = r.kind /\ new.back = r.back /\ new.value = r.value
       /\ new.pos = r.pos /\ new.rc = r.rc /\ new.holds = hs
  BY <1>10, Registers
<1>12. PICK filled \in FrameRecord : filled = [q EXCEPT !.holds = bs]
  BY Registers
<1>13. /\ filled.kind = q.kind /\ filled.back = q.back /\ filled.value = q.value
       /\ filled.pos = q.pos /\ filled.rc = q.rc /\ filled.holds = bs
  BY <1>12, Registers
<1>14. PICK told \in FrameRecord : told = [filled EXCEPT !.wait = "answered"]
  <2>1. [filled EXCEPT !.wait = "answered"] \in FrameRecord
    BY DEF FrameRecord
  <2> QED BY <2>1
<1>15. /\ told.kind = q.kind /\ told.back = q.back /\ told.value = q.value
       /\ told.pos = q.pos /\ told.rc = q.rc /\ told.holds = bs
  <2>1. /\ told.kind = filled.kind /\ told.back = filled.back /\ told.value = filled.value
        /\ told.pos = filled.pos /\ told.rc = filled.rc /\ told.holds = filled.holds
    BY <1>14 DEF FrameRecord
  <2> QED BY <1>13, <2>1
<1>16. /\ frame' = [fs EXCEPT ![cur] = new, ![back] = told]
  <2>1. fs[cur].holds = frame[cur].holds /\ fs[back].holds = frame[back].holds
    BY <1>5, <1>7
  <2>2. frame' = [[[fs EXCEPT ![cur].holds = @ \ result] EXCEPT ![back].holds = @ \cup result]
                       EXCEPT ![back].wait = "answered"]
    BY <1>6, <1>7
  <2>3. PICK f1 \in [Frame -> FrameRecord] :
           f1 = [fs EXCEPT ![cur] = new] /\ f1[back] = q
    <3>1. [fs EXCEPT ![cur] = new] \in [Frame -> FrameRecord]
      OBVIOUS
    <3>2. [fs EXCEPT ![cur] = new][back] = q
      BY <1>5, <1>8
    <3> QED BY <3>1, <3>2
  <2>4. f1 = [fs EXCEPT ![cur].holds = @ \ result]
    BY <1>2, <1>8, <1>9, <1>10, <2>1, <2>3
  <2>5. PICK f2 \in [Frame -> FrameRecord] :
           f2 = [f1 EXCEPT ![back] = filled] /\ f2[back] = filled
    <3>1. [f1 EXCEPT ![back] = filled] \in [Frame -> FrameRecord]
      OBVIOUS
    <3>2. [f1 EXCEPT ![back] = filled][back] = filled
      OBVIOUS
    <3> QED BY <3>1, <3>2
  <2>6. f2 = [f1 EXCEPT ![back].holds = @ \cup result]
    BY <1>5, <1>8, <1>9, <1>12, <2>1, <2>3, <2>5
  <2>7. frame' = [f2 EXCEPT ![back].wait = "answered"]
    BY <2>2, <2>4, <2>6
  <2>8. frame' = [f2 EXCEPT ![back] = told]
    BY <1>5, <1>14, <2>5, <2>7
  <2> QED BY <2>3, <2>5, <2>8
<1>17. /\ Frames /\ frame'[cur] = new /\ frame'[back] = told
       /\ \A h \in Frame \ {cur, back} : frame'[h] = frame[h]
  BY <1>2, <1>5, <1>7, <1>16 DEF Frames
<1>18. Steps(cur, hs, 1)
  BY <1>7, <1>8, <1>11, <1>17 DEF Steps, Alike
<1>19. Rests(back) /\ frame'[back].rc = frame[back].rc /\ frame'[back].holds = bs
  BY <1>5, <1>7, <1>8, <1>15, <1>17 DEF Rests, Alike
<1>20. \A h \in Frame \ {cur, back} : Keeps(h, 0)
  BY <1>2, <1>17, Stay
<1>21. agenda' = <<Unref(cur)>>
  BY <1>1, <1>2, Left
<1> QED BY <1>1, <1>5, <1>9, <1>17, <1>18, <1>19, <1>20, <1>21

LEMMA DestroyAllDoes ==
    ASSUME IInv, EvalDestroyAll
    PROVE  /\ Evaluating("destroy") /\ frame[cur].pos = 0 /\ Frames /\ at' = "reread"
           /\ frame[cur].value \in Object \ ByMethod
           /\ status' = [status EXCEPT ![frame[cur].value] = "dead"]
           /\ field' = [field EXCEPT ![frame[cur].value] = NoObject]
           /\ Steps(cur, frame[cur].holds, 1)
           /\ \A h \in Frame \ {cur} : Keeps(h, 0)
           /\ \/ field[frame[cur].value] = NoObject /\ agenda' = <<Unref(cur)>>
              \/ /\ field[frame[cur].value] \in Object
                 /\ agenda' = <<ReleaseOp(field[frame[cur].value]), Unref(cur)>>
<1>1. PICK o : o = frame[cur].value
  OBVIOUS
<1>2. /\ Evaluating("destroy") /\ frame[cur].pos = 0 /\ at' = "reread"
      /\ o \notin ByMethod
      /\ status' = [status EXCEPT ![o] = "dead"]
      /\ field' = [field EXCEPT ![o] = NoObject]
      /\ frame' = Stepped("no")
      /\ agenda' = (IF field[o] = NoObject THEN <<>> ELSE <<ReleaseOp(field[o])>>)
                      \o <<Unref(cur)>>
  BY <1>1 DEF EvalDestroyAll, EvalThen
<1>3. PICK fs \in [Frame -> FrameRecord] :
         /\ fs = Stepped("no")
         /\ fs[cur].kind = frame[cur].kind /\ fs[cur].back = frame[cur].back
         /\ fs[cur].value = frame[cur].value /\ fs[cur].holds = frame[cur].holds
         /\ fs[cur].pos = frame[cur].pos + 1 /\ fs[cur].rc = frame[cur].rc + 1
         /\ \A h \in Frame \ {cur} : fs[h] = frame[h]
  BY <1>2, Evaluation
<1>4. /\ cur \in Frame /\ Unref(cur) \in Op /\ frame[cur].kind = "destroy"
      /\ \A h \in Frame : frame[h].rc \in Nat
  BY <1>2, Evaluation, Evaluated DEF IInv
<1>5. o \in Object
  BY <1>1, <1>4 DEF IInv, DestroyInv
<1>6. Frames /\ Steps(cur, frame[cur].holds, 1)
  BY <1>2, <1>3 DEF Steps, Alike, Frames
<1>7. \A h \in Frame \ {cur} : Keeps(h, 0)
  BY <1>2, <1>3, <1>4, Stay
<1>8. \/ field[o] = NoObject /\ agenda' = <<Unref(cur)>>
      \/ field[o] \in Object /\ agenda' = <<ReleaseOp(field[o]), Unref(cur)>>
  <2>1. CASE field[o] = NoObject
    BY <1>2, <1>4, <2>1, Left
  <2>2. CASE field[o] # NoObject
    <3>1. field[o] \in Object
      BY <1>5, <2>2 DEF IInv, TypeOK
    <3>2. ReleaseOp(field[o]) \in Op
      BY <3>1, Operations
    <3> QED BY <1>2, <1>4, <2>2, <3>1, <3>2, Left
  <2> QED BY <2>1, <2>2
<1> QED BY <1>1, <1>2, <1>5, <1>6, <1>7, <1>8

LEMMA ReleaseDoes ==
    ASSUME IInv, Release
    PROVE  /\ Doing("release") /\ Frames
           /\ Head(agenda).obj \in Object /\ status[Head(agenda).obj] = "live"
           /\ status' = [status EXCEPT ![Head(agenda).obj] = "pending"]
           /\ Made(Fresh, "destroy", cont, Head(agenda).obj, {})
           /\ \A h \in Frame \ {Fresh} : Keeps(h, IF h = cont THEN 1 ELSE 0)
           /\ GotoOp(Fresh) \in Op
           /\ agenda' = <<GotoOp(Fresh)>> \o Tail(agenda)
<1>1. PICK o : o = Head(agenda).obj
  OBVIOUS
<1>2. /\ Doing("release")
      /\ frame' = [Retain(frame, cont) EXCEPT ![Fresh] = DestroyFrame(cont, o)]
      /\ agenda' = <<GotoOp(Fresh)>> \o Tail(agenda)
      /\ status' = [status EXCEPT ![o] = "pending"]
  BY <1>1 DEF Release
<1>3. o \in Object /\ status[o] = "live"
  <2>1. agenda # <<>> /\ Head(agenda).op = "release"
    BY <1>2 DEF Doing
  <2>2. Head(agenda) \in Op /\ Head(agenda) = agenda[1] /\ 1 \in DOMAIN agenda
    <3>1. Len(agenda) # 0 /\ Len(agenda) \in Nat /\ DOMAIN agenda = 1 .. Len(agenda)
      BY <2>1, LenProperties, EmptySeq DEF IInv, TypeOK
    <3> QED BY <2>1, <3>1, Stack DEF IInv
  <2>3. o \in Object
    BY <1>1, <2>1, <2>2, Operations
  <2>4. InAgenda(o)
    BY <1>1, <2>1, <2>2 DEF InAgenda
  <2> QED BY <2>3, <2>4 DEF IInv, ObjectInv
<1>4. /\ Fresh \in Frame /\ frame[Fresh].kind = "none"
      /\ frame[Fresh].holds = {} /\ frame[Fresh].rc = 0
  BY <1>3, RoomFor DEF IInv
<1>5. cont \in Frame \cup {NoFrame} /\ frame \in [Frame -> FrameRecord]
  BY DEF IInv, TypeOK
<1>6. PICK made \in FrameRecord :
         /\ made = DestroyFrame(cont, o)
         /\ made.kind = "destroy" /\ made.pos = 0 /\ made.back = cont
         /\ made.value = o /\ made.holds = {} /\ made.rc = 1
  <2>1. PICK made : made = DestroyFrame(cont, o)
    OBVIOUS
  <2>2. /\ made \in FrameRecord /\ made.kind = "destroy" /\ made.pos = 0
        /\ made.back = cont /\ made.value = o /\ made.holds = {} /\ made.rc = 1
    BY <1>3, <1>5, <2>1, NewFrames
  <2> QED BY <2>1, <2>2
<1>7. PICK gs \in [Frame -> FrameRecord] :
         /\ gs = Retain(frame, cont)
         /\ \A h \in Frame : gs[h].kind = frame[h].kind /\ gs[h].back = frame[h].back
         /\ \A h \in Frame : gs[h].value = frame[h].value /\ gs[h].pos = frame[h].pos
         /\ \A h \in Frame : gs[h].holds = frame[h].holds
         /\ \A h \in Frame : gs[h].rc = frame[h].rc + (IF h = cont THEN 1 ELSE 0)
  BY <1>5, Retained
<1>8. /\ Frames /\ frame'[Fresh] = made
      /\ \A h \in Frame \ {Fresh} : frame'[h] = gs[h]
  BY <1>2, <1>4, <1>6, <1>7 DEF Frames
<1>9. Made(Fresh, "destroy", cont, o, {})
  BY <1>4, <1>6, <1>8 DEF Made
<1>10. \A h \in Frame \ {Fresh} : Keeps(h, IF h = cont THEN 1 ELSE 0)
  BY <1>7, <1>8 DEF Keeps, Rests, Alike
<1>11. GotoOp(Fresh) \in Op
  BY <1>4, Operations
<1> QED BY <1>1, <1>2, <1>3, <1>8, <1>9, <1>10, <1>11

LEMMA RunDoes ==
    ASSUME IInv, HostRun
    PROVE  /\ HostFree /\ Frames /\ Spare >= 1
           /\ Made(Fresh, "code", NoFrame, NoObject, {})
           /\ \A h \in Frame \ {Fresh} : Keeps(h, 0)
           /\ GotoOp(Fresh) \in Op
           /\ agenda' = <<GotoOp(Fresh)>>
<1>1. /\ HostFree /\ Spare >= 1
      /\ frame' = [frame EXCEPT ![Fresh] = CodeFrame("code", NoFrame, {})]
      /\ agenda' = <<GotoOp(Fresh)>>
  BY DEF HostRun
<1>2. /\ Fresh \in Frame /\ frame[Fresh].kind = "none"
      /\ frame[Fresh].holds = {} /\ frame[Fresh].rc = 0
  BY <1>1, RoomFor DEF IInv
<1>3. PICK made \in FrameRecord :
         /\ made = CodeFrame("code", NoFrame, {})
         /\ made.kind = "code" /\ made.pos = 0 /\ made.back = NoFrame
         /\ made.value = NoObject /\ made.holds = {} /\ made.rc = 1
  <2>1. {} \in SUBSET Object /\ NoFrame \in Frame \cup {NoFrame}
    OBVIOUS
  <2> QED BY <2>1, NewFrames
<1>4. /\ Frames /\ frame'[Fresh] = made
      /\ \A h \in Frame \ {Fresh} : frame'[h] = frame[h]
  BY <1>1, <1>2, <1>3 DEF Frames, IInv, TypeOK
<1>5. Made(Fresh, "code", NoFrame, NoObject, {})
  BY <1>2, <1>3, <1>4 DEF Made
<1>6. \A h \in Frame \ {Fresh} : Keeps(h, 0)
  <2>1. \A h \in Frame : frame[h].rc \in Nat
    BY Typed DEF IInv
  <2> QED BY <1>4, <2>1, Stay
<1>7. GotoOp(Fresh) \in Op
  BY <1>2, Operations
<1> QED BY <1>1, <1>4, <1>5, <1>6, <1>7

LEMMA Unreferencing ==
    ASSUME IInv, Doing("unref")
    PROVE  /\ agenda # <<>> /\ Head(agenda).op = "unref" /\ Head(agenda) \in Op
           /\ Head(agenda).frame \in Frame /\ Head(agenda) = agenda[1]
           /\ Tail(agenda) \in Seq(Op)
           /\ frame[Head(agenda).frame].kind # "none"
           /\ Root = cont
<1>1. agenda # <<>> /\ Head(agenda).op = "unref"
  BY DEF Doing
<1>2. Head(agenda) \in Op /\ Head(agenda) = agenda[1] /\ Tail(agenda) \in Seq(Op)
  BY <1>1, Stack DEF IInv
<1>3. Head(agenda).frame \in Frame
  BY <1>1, <1>2, Operations
<1>4. 1 \in DOMAIN agenda
  <2>1. Len(agenda) # 0 /\ Len(agenda) \in Nat /\ DOMAIN agenda = 1 .. Len(agenda)
    BY <1>1, LenProperties, EmptySeq DEF IInv, TypeOK
  <2> QED BY <2>1
<1>5. frame[Head(agenda).frame].kind # "none"
  BY <1>2, <1>3, <1>4, Referred DEF IInv
<1>6. Root = cont
  BY <1>1 DEF Root, Doing
<1> QED BY <1>1, <1>2, <1>3, <1>5, <1>6

LEMMA DropDoes ==
    ASSUME IInv, Drop
    PROVE  /\ Doing("unref") /\ Frames /\ frame[Head(agenda).frame].rc > 1
           /\ \A h \in Frame : Keeps(h, IF h = Head(agenda).frame THEN -1 ELSE 0)
           /\ agenda' = Tail(agenda)
<1>1. PICK f : f = Head(agenda).frame
  OBVIOUS
<1>2. /\ Doing("unref") /\ frame[f].rc > 1
      /\ frame' = [frame EXCEPT ![f].rc = @ - 1]
      /\ agenda' = Tail(agenda)
  BY <1>1 DEF Drop
<1>3. f \in Frame
  BY <1>1, <1>2, Unreferencing
<1>4. PICK r \in FrameRecord : r = frame[f]
  BY <1>3, Typed DEF IInv
<1>5. r.rc - 1 \in Nat
  BY <1>2, <1>4 DEF FrameRecord
<1>6. PICK new \in FrameRecord : new = [r EXCEPT !.rc = @ - 1]
  <2>1. [r EXCEPT !.rc = @ - 1] \in FrameRecord
    BY <1>5 DEF FrameRecord
  <2> QED BY <2>1
<1>7. /\ new.kind = r.kind /\ new.back = r.back /\ new.value = r.value
      /\ new.pos = r.pos /\ new.rc = r.rc - 1 /\ new.holds = r.holds
  BY <1>6 DEF FrameRecord
<1>8. /\ Frames /\ frame'[f] = new /\ \A h \in Frame \ {f} : frame'[h] = frame[h]
  BY <1>2, <1>3, <1>4, <1>6 DEF Frames, IInv, TypeOK
<1>9. ASSUME NEW h \in Frame PROVE Keeps(h, IF h = f THEN -1 ELSE 0)
  <2>1. frame[h].rc \in Nat
    BY Typed DEF IInv
  <2>2. CASE h = f
    BY <1>4, <1>7, <1>8, <2>1, <2>2 DEF Keeps, Rests, Alike
  <2>3. CASE h # f
    BY <1>8, <2>1, <2>3, Stay
  <2> QED BY <2>2, <2>3
<1> QED BY <1>1, <1>2, <1>8, <1>9

LEMMA DropRegisterDoes ==
    ASSUME IInv, DropRegister
    PROVE  /\ Doing("unref") /\ Frames /\ frame[Head(agenda).frame].rc = 1
           /\ \E o \in frame[Head(agenda).frame].holds :
                 /\ Rests(Head(agenda).frame)
                 /\ frame'[Head(agenda).frame].rc = frame[Head(agenda).frame].rc
                 /\ frame'[Head(agenda).frame].holds = frame[Head(agenda).frame].holds \ {o}
                 /\ o \in Object
                 /\ agenda' = <<ReleaseOp(o)>> \o agenda
           /\ \A h \in Frame \ {Head(agenda).frame} : Keeps(h, 0)
<1>1. PICK f : f = Head(agenda).frame
  OBVIOUS
<1>2. Doing("unref") /\ frame[f].rc = 1
  BY <1>1 DEF DropRegister
<1>3. PICK o \in frame[f].holds :
         /\ frame' = [frame EXCEPT ![f].holds = @ \ {o}]
         /\ agenda' = <<ReleaseOp(o)>> \o agenda
  BY <1>1 DEF DropRegister
<1>4. f \in Frame /\ frame[f].holds \subseteq Object
  BY <1>1, <1>2, Unreferencing, Typed DEF IInv
<1>5. PICK r \in FrameRecord : r = frame[f]
  BY <1>4, Typed DEF IInv
<1>6. PICK hs \in SUBSET Object : hs = frame[f].holds \ {o}
  BY <1>4
<1>7. PICK new \in FrameRecord : new = [r EXCEPT !.holds = hs]
  BY Registers
<1>8. /\ new.kind = r.kind /\ new.back = r.back /\ new.value = r.value
      /\ new.pos = r.pos /\ new.rc = r.rc /\ new.holds = hs
  BY <1>7, Registers
<1>9. /\ Frames /\ frame'[f] = new /\ \A h \in Frame \ {f} : frame'[h] = frame[h]
  BY <1>3, <1>4, <1>5, <1>6, <1>7 DEF Frames, IInv, TypeOK
<1>10. Rests(f) /\ frame'[f].rc = frame[f].rc /\ frame'[f].holds = hs
  BY <1>5, <1>8, <1>9 DEF Rests, Alike
<1>11. \A h \in Frame \ {f} : Keeps(h, 0)
  <2>1. \A h \in Frame : frame[h].rc \in Nat
    BY Typed DEF IInv
  <2> QED BY <1>9, <2>1, Stay
<1> QED BY <1>1, <1>2, <1>3, <1>4, <1>6, <1>9, <1>10, <1>11

LEMMA FreeDoes ==
    ASSUME IInv, FreeFrame
    PROVE  /\ Doing("unref") /\ Frames /\ frame[Head(agenda).frame].rc = 1
           /\ frame[Head(agenda).frame].holds = {}
           /\ frame'[Head(agenda).frame] = Blank
           /\ \A h \in Frame \ {Head(agenda).frame} : Keeps(h, 0)
           /\ agenda' = (IF frame[Head(agenda).frame].back = NoFrame THEN <<>>
                         ELSE <<Unref(frame[Head(agenda).frame].back)>>) \o Tail(agenda)
<1>1. PICK f : f = Head(agenda).frame
  OBVIOUS
<1>2. /\ Doing("unref") /\ frame[f].rc = 1 /\ frame[f].holds = {}
      /\ frame' = [frame EXCEPT ![f] = Blank]
      /\ agenda' = (IF frame[f].back = NoFrame THEN <<>>
                         ELSE <<Unref(frame[f].back)>>) \o Tail(agenda)
  BY <1>1 DEF FreeFrame
<1>3. f \in Frame
  BY <1>1, <1>2, Unreferencing
<1>4. Frames /\ frame'[f] = Blank /\ \A h \in Frame \ {f} : frame'[h] = frame[h]
  BY <1>2, <1>3, NewFrames DEF Frames, IInv, TypeOK
<1>5. \A h \in Frame \ {f} : Keeps(h, 0)
  <2>1. \A h \in Frame : frame[h].rc \in Nat
    BY Typed DEF IInv
  <2> QED BY <1>4, <2>1, Stay
<1> QED BY <1>1, <1>2, <1>4, <1>5

-----------------------------------------------------------------------------
(* The counts stay exact *)

LEMMA MentionedTwo ==
    ASSUME NEW x \in Op, NEW y \in Op, NEW f
    PROVE  Mentioned(<<x, y>>, f) = (IF x.frame = f THEN 1 ELSE 0)
                                      + (IF y.frame = f THEN 1 ELSE 0)
<1>1. <<x>> \o <<y>> = <<x, y>> /\ <<y>> \in Seq(Op)
  BY Left
<1>2. Mentioned(<<x>> \o <<y>>, f) = Mentioned(<<y>>, f) + (IF x.frame = f THEN 1 ELSE 0)
  BY <1>1, MentionedFirst
<1>3. Mentioned(<<x, y>>, f) = Mentioned(<<y>>, f) + (IF x.frame = f THEN 1 ELSE 0)
  BY <1>1, <1>2
<1>4. Mentioned(<<y>>, f) = IF y.frame = f THEN 1 ELSE 0
  BY MentionedOne
<1> QED BY <1>3, <1>4

LEMMA MentionedThree ==
    ASSUME NEW x \in Op, NEW y \in Op, NEW z \in Op, NEW f
    PROVE  Mentioned(<<x, y, z>>, f) = (IF x.frame = f THEN 1 ELSE 0)
                                      + (IF y.frame = f THEN 1 ELSE 0)
                                      + (IF z.frame = f THEN 1 ELSE 0)
<1>1. <<y, z>> \in Seq(Op) /\ <<x, y, z>> \in Seq(Op) /\ <<x>> \in Seq(Op)
  OBVIOUS
<1>2. <<x>> \o <<y, z>> = <<x, y, z>>
  <2>1. PICK t \in Seq(Op), u \in Seq(Op) :
           /\ t = <<y, z>> /\ u = <<x, y, z>> /\ Len(t) = 2 /\ Len(u) = 3
           /\ t[1] = y /\ t[2] = z /\ u[1] = x /\ u[2] = y /\ u[3] = z
    BY <1>1
  <2>2. PICK v \in Seq(Op) :
           v = <<x>> \o t /\ Len(v) = 3 /\ v[1] = x /\ v[2] = t[1] /\ v[3] = t[2]
    <3>1. /\ <<x>> \o t \in Seq(Op) /\ Len(<<x>> \o t) = Len(t) + 1
          /\ (<<x>> \o t)[1] = x
          /\ \A i \in 1 .. Len(t) : (<<x>> \o t)[i + 1] = t[i]
      BY Pushing
    <3>2. (<<x>> \o t)[1 + 1] = t[1] /\ (<<x>> \o t)[2 + 1] = t[2]
      BY <2>1, <3>1
    <3>3. PICK v \in Seq(Op) : v = <<x>> \o t
      BY <3>1
    <3>4. Len(v) = 2 + 1 /\ v[1] = x /\ v[1 + 1] = t[1] /\ v[2 + 1] = t[2]
      BY <2>1, <3>1, <3>2, <3>3
    <3>5. Len(v) = 3 /\ v[1] = x /\ v[2] = t[1] /\ v[3] = t[2]
      BY <3>4
    <3> QED BY <3>3, <3>5
  <2>3. \A i \in 1 .. Len(v) : v[i] = u[i]
    BY <2>1, <2>2
  <2>4. v = u
    BY <2>1, <2>2, <2>3, SeqEqual
  <2> QED BY <2>1, <2>2, <2>4
<1>3. Mentioned(<<x>> \o <<y, z>>, f)
        = Mentioned(<<y, z>>, f) + (IF x.frame = f THEN 1 ELSE 0)
  BY <1>1, MentionedFirst
<1>4. Mentioned(<<y, z>>, f) = (IF y.frame = f THEN 1 ELSE 0) + (IF z.frame = f THEN 1 ELSE 0)
  BY MentionedTwo
<1>5. Mentioned(<<x, y, z>>, f) = Mentioned(<<y, z>>, f) + (IF x.frame = f THEN 1 ELSE 0)
  BY <1>2, <1>3
<1> QED BY <1>4, <1>5

\* An eval that makes no frame: b is what it retains.
LEMMA EvalCounts ==
    ASSUME IInv, NEW kind, Evaluating(kind), cont' = cont,
           NEW hs, NEW b, b # cur, Steps(cur, hs, 1),
           \A h \in Frame \ {cur} :
              Alike(h) /\ frame'[h].rc = frame[h].rc + (IF h = b THEN 1 ELSE 0),
           \A f \in Frame : Mentioned(agenda', f) = (IF cur = f THEN 1 ELSE 0)
                                                      + (IF f = b THEN 1 ELSE 0)
    PROVE  FrameCountsExact'
<1>1. cur \in Frame /\ agenda = <<>>
  BY Evaluated DEF IInv
<1>2. \A h \in Frame : frame'[h].kind = frame[h].kind /\ frame'[h].back = frame[h].back
  BY DEF Steps, Alike
<1>3. ASSUME NEW f \in Frame
      PROVE  frame'[f].rc = Continues(f)' + Backed(f)' + Mentioned(agenda, f)'
  <2>1. Backed(f)' = Backed(f) /\ Backed(f) \in Nat
    BY <1>2, BackedStays, BackedNumber
  <2>2. Continues(f)' = Continues(f) /\ Continues(f) \in Nat
    BY DEF Continues
  <2>3. frame[f].rc = Continues(f) + Backed(f)
    <3>1. frame[f].rc = Continues(f) + Backed(f) + Mentioned(agenda, f)
      BY Counted DEF IInv
    <3>2. Mentioned(agenda, f) = 0
      BY <1>1, MentionedNone
    <3> QED BY <2>1, <2>2, <3>1, <3>2
  <2>4. Mentioned(agenda, f)' = (IF cur = f THEN 1 ELSE 0) + (IF f = b THEN 1 ELSE 0)
    BY MentionedThen
  <2>5. CASE f = cur
    <3>1. frame'[f].rc = frame[f].rc + 1
      BY <2>5 DEF Steps
    <3> QED BY <2>1, <2>2, <2>3, <2>4, <2>5, <3>1
  <2>6. CASE f # cur
    BY <2>1, <2>2, <2>3, <2>4, <2>6
  <2> QED BY <2>5, <2>6
<1> QED BY <1>3, CountedNext

\* An eval that makes a frame that goes back to b
LEMMA MakeCounts ==
    ASSUME IInv, NEW kind, Evaluating(kind), cont' = cont,
           NEW b, NEW fresh, fresh # cur, NEW made, NEW value, NEW given,
           Made(fresh, made, b, value, given), made # "none",
           Alike(cur), frame'[cur].rc = frame[cur].rc + (IF b = cur THEN 2 ELSE 1),
           \A h \in Frame \ {cur, fresh} :
              Alike(h) /\ frame'[h].rc = frame[h].rc + (IF h = b THEN 1 ELSE 0),
           b # fresh,
           \A f \in Frame : Mentioned(agenda', f) = (IF cur = f THEN 1 ELSE 0)
                                                      + (IF f = fresh THEN 1 ELSE 0)
    PROVE  FrameCountsExact'
<1>1. cur \in Frame /\ agenda = <<>>
  BY Evaluated DEF IInv
<1>2. \A h \in Frame \ {fresh} :
         frame'[h].kind = frame[h].kind /\ frame'[h].back = frame[h].back
  BY DEF Alike
<1>3. /\ fresh \in Frame /\ frame[fresh].kind = "none" /\ frame'[fresh].kind # "none"
      /\ frame'[fresh].back = b /\ frame[fresh].rc = 0 /\ frame'[fresh].rc = 1
  BY DEF Made
<1>4. ASSUME NEW f \in Frame
      PROVE  frame'[f].rc = Continues(f)' + Backed(f)' + Mentioned(agenda, f)'
  <2>1. Backed(f)' = Backed(f) + (IF f = b THEN 1 ELSE 0) /\ Backed(f) \in Nat
    BY <1>2, <1>3, BackedMore, BackedNumber
  <2>2. Continues(f)' = Continues(f) /\ Continues(f) \in Nat
    BY DEF Continues
  <2>3. frame[f].rc = Continues(f) + Backed(f)
    <3>1. frame[f].rc = Continues(f) + Backed(f) + Mentioned(agenda, f)
      BY Counted DEF IInv
    <3>2. Mentioned(agenda, f) = 0
      BY <1>1, MentionedNone
    <3> QED BY <2>1, <2>2, <3>1, <3>2
  <2>4. Mentioned(agenda, f)' = (IF cur = f THEN 1 ELSE 0) + (IF f = fresh THEN 1 ELSE 0)
    BY MentionedThen
  <2>5. CASE f = cur
    <3>1. frame'[f].rc = frame[f].rc + (IF b = cur THEN 2 ELSE 1)
      BY <2>5
    <3> QED BY <2>1, <2>2, <2>3, <2>4, <2>5, <3>1
  <2>6. CASE f = fresh
    <3>1. Continues(f) = 0 /\ Backed(f) = 0
      BY <1>3, <2>1, <2>2, <2>3, <2>6
    <3>2. Backed(f)' = 0 /\ Mentioned(agenda, f)' = 1
      BY <2>1, <2>4, <2>6, <3>1
    <3> QED BY <1>3, <2>2, <2>6, <3>1, <3>2
  <2>7. CASE f # cur /\ f # fresh
    <3>1. frame'[f].rc = frame[f].rc + (IF f = b THEN 1 ELSE 0)
      BY <2>7
    <3> QED BY <2>1, <2>2, <2>3, <2>4, <2>7, <3>1
  <2> QED BY <2>5, <2>6, <2>7
<1> QED BY <1>4, CountedNext

\* Operations that a step of the C stack does, and no frame is made or freed
LEMMA GotoCounts ==
    ASSUME IInv, Goto
    PROVE  FrameCountsExact'
<1>1. PICK g : g = Head(agenda).frame
  OBVIOUS
<1>2. PICK rest \in Seq(Op) : rest = Tail(agenda)
  BY Stack DEF IInv, Goto, Doing
<1>3. /\ agenda # <<>> /\ cont' = g /\ frame' = frame
      /\ agenda' = (IF cont = NoFrame THEN <<>> ELSE <<Unref(cont)>>) \o rest
  BY <1>1, <1>2 DEF Goto, Doing
<1>4. ASSUME NEW f \in Frame
      PROVE  frame'[f].rc = Continues(f)' + Backed(f)' + Mentioned(agenda, f)'
  <2>1. Backed(f)' = Backed(f) /\ Backed(f) \in Nat
    BY <1>3, BackedStays, BackedNumber
  <2>2. frame[f].rc = Continues(f) + Backed(f) + Mentioned(agenda, f)
    BY Counted DEF IInv
  <2>3. Mentioned(agenda, f) = Mentioned(rest, f) + (IF g = f THEN 1 ELSE 0)
    BY <1>1, <1>2, <1>3, Stack DEF IInv
  <2>4. Mentioned(agenda', f) = Mentioned(rest, f) + (IF cont = f THEN 1 ELSE 0)
    <3>1. CASE cont = NoFrame
      <4>1. agenda' = rest
        BY <1>3, <3>1, Nothing
      <4>2. cont # f /\ Mentioned(rest, f) \in Nat
        BY <3>1, InterpreterAssumption, MentionsNumber
      <4> QED BY <4>1, <4>2
    <3>2. CASE cont # NoFrame
      <4>1. Unref(cont) \in Op /\ Unref(cont).frame = cont
        BY <3>2, Operations DEF IInv, TypeOK
      <4> QED BY <1>3, <3>2, <4>1, MentionedFirst
    <3> QED BY <3>1, <3>2
  <2>5. Mentioned(rest, f) \in Nat
    BY MentionsNumber
  <2>6. Continues(f)' = IF g = f THEN 1 ELSE 0
    BY <1>3 DEF Continues
  <2> QED BY <1>3, <2>1, <2>2, <2>3, <2>4, <2>5, <2>6, MentionedThen DEF Continues
<1> QED BY <1>4, CountedNext

LEMMA DropCounts ==
    ASSUME IInv, Drop
    PROVE  FrameCountsExact'
<1>1. PICK g \in Frame : g = Head(agenda).frame
  BY DropDoes, Unreferencing
<1>2. PICK rest \in Seq(Op) : rest = Tail(agenda)
  BY DropDoes, Unreferencing
<1>3. /\ agenda # <<>> /\ cont' = cont /\ agenda' = rest
      /\ \A h \in Frame : Keeps(h, IF h = g THEN -1 ELSE 0)
  BY <1>1, <1>2, DropDoes DEF Drop, Doing
<1>4. ASSUME NEW f \in Frame
      PROVE  frame'[f].rc = Continues(f)' + Backed(f)' + Mentioned(agenda, f)'
  <2>1. Backed(f)' = Backed(f) /\ Backed(f) \in Nat
    BY <1>3, BackedStays, BackedNumber DEF Keeps, Rests, Alike
  <2>2. frame[f].rc = Continues(f) + Backed(f) + Mentioned(agenda, f)
    BY Counted DEF IInv
  <2>3. Mentioned(agenda, f) = Mentioned(rest, f) + (IF g = f THEN 1 ELSE 0)
    BY <1>1, <1>2, <1>3, Stack DEF IInv
  <2>4. Mentioned(agenda, f)' = Mentioned(rest, f) /\ Mentioned(rest, f) \in Nat
    BY <1>3, MentionedThen, MentionsNumber
  <2>5. Continues(f)' = Continues(f) /\ Continues(f) \in Nat
    BY <1>3 DEF Continues
  <2>6. frame'[f].rc = frame[f].rc + (IF f = g THEN -1 ELSE 0)
    BY <1>3 DEF Keeps
  <2> QED BY <2>1, <2>2, <2>3, <2>4, <2>5, <2>6
<1> QED BY <1>4, CountedNext

LEMMA DropRegisterCounts ==
    ASSUME IInv, DropRegister
    PROVE  FrameCountsExact'
<1>1. PICK g \in Frame : g = Head(agenda).frame
  BY DropRegisterDoes, Unreferencing
<1>2. PICK o \in Object :
         /\ Rests(g) /\ frame'[g].rc = frame[g].rc
         /\ agenda' = <<ReleaseOp(o)>> \o agenda
  BY <1>1, DropRegisterDoes
<1>3. cont' = cont /\ \A h \in Frame \ {g} : Keeps(h, 0)
  BY <1>1, DropRegisterDoes DEF DropRegister
<1>4. ASSUME NEW f \in Frame
      PROVE  frame'[f].rc = Continues(f)' + Backed(f)' + Mentioned(agenda, f)'
  <2>1. Backed(f)' = Backed(f)
    BY <1>2, <1>3, BackedStays DEF Keeps, Rests, Alike
  <2>2. frame[f].rc = Continues(f) + Backed(f) + Mentioned(agenda, f)
    BY Counted DEF IInv
  <2>3. Mentioned(agenda', f) = Mentioned(agenda, f)
    <3>1. ReleaseOp(o) \in Op /\ ReleaseOp(o).frame # f /\ agenda \in Seq(Op)
      BY Operations, InterpreterAssumption DEF IInv, TypeOK
    <3>2. Mentioned(agenda', f) = Mentioned(agenda, f) + 0 /\ Mentioned(agenda, f) \in Nat
      BY <1>2, <3>1, MentionedFirst, MentionsNumber
    <3> QED BY <3>2
  <2>4. Continues(f)' = Continues(f)
    BY <1>3 DEF Continues
  <2>5. frame'[f].rc = frame[f].rc
    <3>1. frame[f].rc \in Nat
      BY Typed DEF IInv
    <3> QED BY <1>2, <1>3, <3>1 DEF Keeps
  <2> QED BY <2>1, <2>2, <2>3, <2>4, <2>5, MentionedThen
<1> QED BY <1>4, CountedNext

LEMMA FreeCounts ==
    ASSUME IInv, FreeFrame
    PROVE  FrameCountsExact'
<1>1. PICK g \in Frame : g = Head(agenda).frame
  BY FreeDoes, Unreferencing
<1>2. PICK rest \in Seq(Op) : rest = Tail(agenda)
  BY FreeDoes, Unreferencing
<1>3. /\ agenda # <<>> /\ cont' = cont /\ frame[g].rc = 1 /\ frame[g].kind # "none"
      /\ frame'[g].kind = "none" /\ frame'[g].rc = 0
      /\ frame[g].back \in Frame \cup {NoFrame}
      /\ \A h \in Frame \ {g} : Keeps(h, 0)
      /\ agenda' = (IF frame[g].back = NoFrame THEN <<>> ELSE <<Unref(frame[g].back)>>) \o rest
  <2>1. /\ Doing("unref") /\ frame[g].rc = 1 /\ frame'[g] = Blank
        /\ \A h \in Frame \ {g} : Keeps(h, 0)
        /\ agenda' = (IF frame[g].back = NoFrame THEN <<>> ELSE <<Unref(frame[g].back)>>) \o rest
    BY <1>1, <1>2, FreeDoes
  <2>2. agenda # <<>> /\ frame[g].kind # "none"
    BY <1>1, <2>1, Unreferencing
  <2>3. cont' = cont
    BY DEF FreeFrame
  <2>4. frame[g].back \in Frame \cup {NoFrame}
    BY Typed DEF IInv
  <2>5. frame'[g].kind = "none" /\ frame'[g].rc = 0
    BY <2>1 DEF Blank
  <2> QED BY <2>1, <2>2, <2>3, <2>4, <2>5
<1>4. ASSUME NEW f \in Frame
      PROVE  frame'[f].rc = Continues(f)' + Backed(f)' + Mentioned(agenda, f)'
  <2>1. Backed(f)' = Backed(f) - (IF f = frame[g].back THEN 1 ELSE 0) /\ Backed(f) \in Nat
    BY <1>3, BackedLess, BackedNumber DEF Keeps, Rests, Alike
  <2>2. frame[f].rc = Continues(f) + Backed(f) + Mentioned(agenda, f)
    BY Counted DEF IInv
  <2>3. Mentioned(agenda, f) = Mentioned(rest, f) + (IF g = f THEN 1 ELSE 0)
    BY <1>1, <1>2, <1>3, Stack DEF IInv
  <2>4. /\ Mentioned(agenda, f)' = Mentioned(rest, f) + (IF f = frame[g].back THEN 1 ELSE 0)
        /\ Mentioned(rest, f) \in Nat
    <3>1. CASE frame[g].back = NoFrame
      <4>1. agenda' = rest
        BY <1>3, <3>1, Nothing
      <4>2. f # frame[g].back /\ Mentioned(rest, f) \in Nat
        BY <3>1, InterpreterAssumption, MentionsNumber
      <4> QED BY <4>1, <4>2, MentionedThen
    <3>2. CASE frame[g].back # NoFrame
      <4>1. /\ Unref(frame[g].back) \in Op /\ Unref(frame[g].back).frame = frame[g].back
            /\ Mentioned(rest, f) \in Nat
        BY <1>3, <3>2, Operations, MentionsNumber
      <4>2. Mentioned(agenda', f)
               = Mentioned(rest, f) + (IF frame[g].back = f THEN 1 ELSE 0)
        BY <1>3, <3>2, <4>1, MentionedFirst
      <4> QED BY <4>1, <4>2, MentionedThen
    <3> QED BY <3>1, <3>2
  <2>5. Continues(f)' = Continues(f) /\ Continues(f) \in Nat
    BY <1>3 DEF Continues
  <2>6. CASE f # g
    <3>1. frame'[f].rc = frame[f].rc /\ frame[f].rc \in Nat
      BY <1>3, <2>6, Typed DEF Keeps, IInv
    <3> QED BY <2>1, <2>2, <2>3, <2>4, <2>5, <2>6, <3>1
  <2>7. CASE f = g
    <3>1. frame[g].back # g
      <4>1. PICK n \in 0 .. Cardinality(Frame) : \E s \in [1 .. n -> Frame] : Chain(n, s)
        BY DEF IInv, ChainInv
      <4>2. PICK s \in [1 .. n -> Frame] : Chain(n, s)
        BY <4>1
      <4>3. n \in Nat /\ Head(agenda).op = "unref"
        BY FrameSets DEF FreeFrame, Doing
      <4>4. Leaving(n, s, g)
        BY <1>1, <1>3, <4>2, <4>3, LastReference DEF IInv
      <4>5. frame[g].back = NoFrame \/ InChain(n, s, frame[g].back)
        BY <4>2, <4>4 DEF Chain, LeavesOne
      <4> QED BY <4>4, <4>5, InterpreterAssumption DEF Leaving
    <3>2. 1 = Continues(f) + Backed(f) + (Mentioned(rest, f) + 1)
      BY <1>3, <2>2, <2>3, <2>7
    <3>3. Continues(f) = 0 /\ Backed(f) = 0 /\ Mentioned(rest, f) = 0 /\ f # frame[g].back
      BY <2>1, <2>4, <2>5, <2>7, <3>1, <3>2
    <3>5. Continues(f)' = 0
      BY <2>5, <3>3
    <3>6. Backed(f)' = 0
      <4>1. f # frame[g].back
        BY <3>3
      <4>2. Backed(f)' = Backed(f) - 0
        BY <2>1, <4>1
      <4> QED BY <3>3, <4>2
    <3>7. Mentioned(agenda, f)' = 0
      BY <2>4, <3>3
    <3>4. Continues(f)' = 0 /\ Backed(f)' = 0 /\ Mentioned(agenda, f)' = 0
      BY <3>5, <3>6, <3>7
    <3> QED BY <1>3, <2>7, <3>4
  <2> QED BY <2>6, <2>7
<1> QED BY <1>4, CountedNext

LEMMA ReleaseCounts ==
    ASSUME IInv, Release
    PROVE  FrameCountsExact'
<1>1. PICK rest \in Seq(Op) : rest = Tail(agenda)
  BY Stack, ReleaseDoes DEF IInv, Doing
<1>2. PICK fresh \in Frame : fresh = Fresh
  BY ReleaseDoes DEF Made
<1>3. /\ agenda # <<>> /\ Head(agenda).frame = NoFrame /\ cont' = cont
      /\ GotoOp(fresh) \in Op /\ agenda' = <<GotoOp(fresh)>> \o rest
      /\ frame[fresh].kind = "none" /\ frame'[fresh].kind # "none"
      /\ frame'[fresh].back = cont /\ frame[fresh].rc = 0 /\ frame'[fresh].rc = 1
      /\ \A h \in Frame \ {fresh} : Keeps(h, IF h = cont THEN 1 ELSE 0)
      /\ fresh # cont
  <2>1. Doing("release")
    BY ReleaseDoes
  <2>2. agenda # <<>> /\ Head(agenda).frame = NoFrame
    BY <2>1, Stack, Operations DEF Doing, IInv
  <2>3. fresh # cont
    <3>1. cont \in Frame => frame[cont].kind # "none"
      BY Referred DEF IInv
    <3> QED BY <1>2, <3>1, ReleaseDoes DEF Made
  <2> QED BY <1>1, <1>2, <2>2, <2>3, ReleaseDoes DEF Made, Release
<1>4. ASSUME NEW f \in Frame
      PROVE  frame'[f].rc = Continues(f)' + Backed(f)' + Mentioned(agenda, f)'
  <2>1. Backed(f)' = Backed(f) + (IF f = cont THEN 1 ELSE 0) /\ Backed(f) \in Nat
    BY <1>3, BackedMore, BackedNumber DEF Keeps, Rests, Alike
  <2>2. frame[f].rc = Continues(f) + Backed(f) + Mentioned(agenda, f)
    BY Counted DEF IInv
  <2>3. Mentioned(agenda, f) = Mentioned(rest, f) /\ Mentioned(rest, f) \in Nat
    <3>1. Mentioned(agenda, f) = Mentioned(rest, f) + (IF Head(agenda).frame = f THEN 1 ELSE 0)
      BY <1>1, <1>3, Stack DEF IInv
    <3>2. Head(agenda).frame # f
      BY <1>3, InterpreterAssumption
    <3> QED BY <3>1, <3>2, MentionsNumber
  <2>4. Mentioned(agenda, f)' = Mentioned(rest, f) + (IF f = fresh THEN 1 ELSE 0)
    <3>1. GotoOp(fresh).frame = fresh
      BY Operations
    <3>2. Mentioned(agenda', f) = Mentioned(rest, f) + (IF fresh = f THEN 1 ELSE 0)
      BY <1>3, <3>1, MentionedFirst
    <3> QED BY <3>2, MentionedThen
  <2>5. Continues(f)' = Continues(f) /\ Continues(f) \in Nat
    BY <1>3 DEF Continues
  <2>6. CASE f = fresh
    <3>1. Continues(f) = 0 /\ Backed(f) = 0 /\ Mentioned(rest, f) = 0
      BY <1>3, <2>1, <2>2, <2>3, <2>5, <2>6
    <3>2. Backed(f)' = 0 /\ Mentioned(agenda, f)' = 1 /\ Continues(f)' = 0
      BY <1>3, <2>1, <2>4, <2>5, <2>6, <3>1
    <3> QED BY <1>3, <2>6, <3>2
  <2>7. CASE f # fresh
    <3>1. frame'[f].rc = frame[f].rc + (IF f = cont THEN 1 ELSE 0)
      BY <1>3, <2>7 DEF Keeps
    <3> QED BY <2>1, <2>2, <2>3, <2>4, <2>5, <2>7, <3>1
  <2> QED BY <2>6, <2>7
<1> QED BY <1>4, CountedNext

LEMMA RunCounts ==
    ASSUME IInv, HostRun
    PROVE  FrameCountsExact'
<1>1. PICK fresh \in Frame : fresh = Fresh
  BY RunDoes DEF Made
<1>2. /\ agenda = <<>> /\ cont' = cont
      /\ GotoOp(fresh) \in Op /\ agenda' = <<GotoOp(fresh)>>
      /\ frame[fresh].kind = "none" /\ frame'[fresh].kind # "none"
      /\ frame'[fresh].back = NoFrame /\ frame[fresh].rc = 0 /\ frame'[fresh].rc = 1
      /\ \A h \in Frame \ {fresh} : Keeps(h, 0)
  BY <1>1, RunDoes DEF Made, HostRun, HostFree
<1>3. ASSUME NEW f \in Frame
      PROVE  frame'[f].rc = Continues(f)' + Backed(f)' + Mentioned(agenda, f)'
  <2>1. Backed(f)' = Backed(f) /\ Backed(f) \in Nat
    <3>1. Backed(f)' = Backed(f) + (IF f = NoFrame THEN 1 ELSE 0)
      BY <1>2, BackedMore DEF Keeps, Rests, Alike
    <3> QED BY <3>1, BackedNumber, InterpreterAssumption
  <2>2. frame[f].rc = Continues(f) + Backed(f) + Mentioned(agenda, f)
    BY Counted DEF IInv
  <2>3. Mentioned(agenda, f) = 0
    BY <1>2, MentionedNone
  <2>4. Mentioned(agenda, f)' = IF fresh = f THEN 1 ELSE 0
    BY <1>2, MentionedThen, MentionedOne, Operations
  <2>5. Continues(f)' = Continues(f) /\ Continues(f) \in Nat
    BY <1>2 DEF Continues
  <2>6. CASE f = fresh
    <3>1. Continues(f) = 0 /\ Backed(f) = 0
      BY <1>2, <2>1, <2>2, <2>3, <2>5, <2>6
    <3>2. Backed(f)' = 0 /\ Mentioned(agenda, f)' = 1
      BY <2>1, <2>4, <2>6, <3>1
    <3> QED BY <1>2, <2>5, <2>6, <3>1, <3>2
  <2>7. CASE f # fresh
    <3>1. frame'[f].rc = frame[f].rc + 0
      BY <1>2, <2>7 DEF Keeps
    <3> QED BY <2>1, <2>2, <2>3, <2>4, <2>5, <2>7, <3>1
  <2> QED BY <2>6, <2>7
<1> QED BY <1>3, CountedNext

-----------------------------------------------------------------------------
(* How the chain changes *)

LEMMA LinkStays ==
    ASSUME NEW n \in Nat, NEW s \in [1 .. n -> Frame], Chain(n, s), TypeOK,
           NEW i \in 1 .. n, Rests(s[i]) \/ (Alike(s[i]) /\ Going(s[i])')
    PROVE  /\ frame'[s[i]].kind # "none"
           /\ frame'[s[i]].back = IF i = 1 THEN NoFrame ELSE s[i - 1]
           /\ HasNext(frame[s[i]])' \/ (i = 1 /\ frame'[s[i]].kind = "code")
           /\ frame'[s[i]].kind = "entry" => i > 1
           /\ frame'[s[i]].kind = frame[s[i]].kind
<1>1. s[i] \in Frame /\ (i # 1 => s[i - 1] \in Frame)
  OBVIOUS
<1>2. /\ frame[s[i]].kind # "none"
      /\ frame[s[i]].back = IF i = 1 THEN NoFrame ELSE s[i - 1]
      /\ HasNext(frame[s[i]]) \/ (i = 1 /\ frame[s[i]].kind = "code")
      /\ frame[s[i]].kind = "entry" => i > 1
  BY DEF Chain, Links
<1>3. /\ frame'[s[i]].kind = frame[s[i]].kind
      /\ frame'[s[i]].back = frame[s[i]].back
  BY <1>1 DEF Alike, Rests
<1>4. CASE Rests(s[i])
  BY <1>2, <1>3, <1>4, RestsNext
<1>5. CASE Going(s[i])'
  <2>1. frame'[s[i]].back = NoFrame => i = 1
    BY <1>1, <1>2, <1>3, InterpreterAssumption
  <2> QED BY <1>2, <1>3, <1>5, <2>1 DEF Going
<1> QED BY <1>4, <1>5

\* The frames that leave a chain all of whose frames stay where they are
LEMMA LeavingStays ==
    ASSUME NEW n \in Nat, NEW s \in [1 .. n -> Frame], Chain(n, s),
           NEW f \in Frame, Leaving(n, s, f), Rests(f)
    PROVE  /\ Leaving(n, s, f)' /\ ~HasNext(frame[f])'
           /\ frame'[f].back = NoFrame \/ InChain(n, s, frame'[f].back)
           /\ \A g \in Frame : Leaving(n, s, g) => f = g
<1>1. frame'[f].kind = frame[f].kind /\ frame'[f].back = frame[f].back
  BY DEF Rests, Alike
<1>2. Leaving(n, s, f)'
  BY <1>1 DEF Leaving
<1> QED BY <1>1, <1>2, RestsNext DEF Chain, LeavesOne

LEMMA NewGoes ==
    ASSUME NEW f, NEW kind \in {"code", "entry", "destroy"}, NEW back, NEW value, NEW holds,
           Made(f, kind, back, value, holds)
    PROVE  HasNext(frame[f])'
<1>1. frame'[f].kind = kind /\ frame'[f].pos = 0
  BY DEF Made
<1>2. Length(frame'[f]) > 0
  BY <1>1, InterpreterAssumption DEF Length
<1> QED BY <1>1, <1>2 DEF HasNext

\* There are no more links than frames.
LEMMA ChainFits ==
    ASSUME NEW n \in Nat, NEW s \in [1 .. n -> Frame],
           \A i, j \in 1 .. n : s[i] = s[j] => i = j
    PROVE  n \in 0 .. Cardinality(Frame)
<1>1. s \in Injection(1 .. n, Frame)
  BY DEF Injection, IsInjective
<1>3. IsFiniteSet(1 .. n) /\ Cardinality(1 .. n) = n
  <2>1. 1 \in Int /\ n \in Int
    OBVIOUS
  <2>2. IsFiniteSet(1 .. n) /\ Cardinality(1 .. n) = IF 1 > n THEN 0 ELSE n - 1 + 1
    BY <2>1, FS_Interval
  <2> QED BY <2>2
<1>4. Cardinality(1 .. n) <= Cardinality(Frame)
  BY <1>1, InterpreterAssumption, FS_Injection
<1> QED BY <1>3, <1>4, FrameSets

\* A frame is put on top.
LEMMA ChainPush ==
    ASSUME IInv, NEW n \in Nat, NEW s \in [1 .. n -> Frame], Chain(n, s),
           NEW fresh, NEW kind \in {"code", "entry", "destroy"}, NEW value, NEW given,
           Made(fresh, kind, Root, value, given),
           kind = "entry" => n > 0,
           \A h \in Frame \ {fresh} : Rests(h) \/ (h = Root /\ Alike(h) /\ Going(h)'),
           Root = cont, cont' = cont, Doing("goto")', agenda'[1].op = "goto", Root' = fresh,
           Stopping' => Stopping /\ (n = 0 => kind = "destroy")
    PROVE  ChainInv'
<1>1. /\ fresh \in Frame /\ frame[fresh].kind = "none" /\ frame'[fresh].kind = kind
      /\ frame'[fresh].back = Root /\ HasNext(frame[fresh])'
  BY NewGoes DEF Made
<1>2. \A i \in 1 .. n : s[i] \in Frame /\ s[i] # fresh
  BY <1>1 DEF Chain, Links
<1>4. \A i \in 1 .. n + 1 : i = n + 1 \/ i \in 1 .. n
  OBVIOUS
<1>3. PICK t \in [1 .. n + 1 -> Frame] :
         /\ \A i \in 1 .. n : t[i] = s[i]
         /\ t[n + 1] = fresh
  <2>1. [i \in 1 .. n + 1 |-> IF i = n + 1 THEN fresh ELSE s[i]] \in [1 .. n + 1 -> Frame]
    <3>1. ASSUME NEW i \in 1 .. n + 1 PROVE (IF i = n + 1 THEN fresh ELSE s[i]) \in Frame
      <4>1. CASE i = n + 1
        BY <1>1, <4>1
      <4>2. CASE i # n + 1
        <5>1. i \in 1 .. n
          BY <1>4, <4>2
        <5> QED BY <1>2, <4>2, <5>1
      <4> QED BY <4>1, <4>2
    <3> QED BY <3>1
  <2>2. n + 1 \in 1 .. n + 1 /\ \A i \in 1 .. n : i \in 1 .. n + 1 /\ i # n + 1
    OBVIOUS
  <2> QED BY <2>1, <2>2
<1>5. \A i, j \in 1 .. n + 1 : t[i] = t[j] => i = j
  <2> SUFFICES ASSUME NEW i \in 1 .. n + 1, NEW j \in 1 .. n + 1, t[i] = t[j] PROVE i = j
    OBVIOUS
  <2>1. CASE i = n + 1 \/ j = n + 1
    BY <1>2, <1>3, <1>4, <2>1
  <2>2. CASE i \in 1 .. n /\ j \in 1 .. n
    BY <1>3, <2>2 DEF Chain
  <2> QED BY <1>4, <2>1, <2>2
<1>6. Root = IF n = 0 THEN NoFrame ELSE s[n]
  BY DEF Chain
<1>7. Links(n + 1, t)'
  <2> SUFFICES ASSUME NEW i \in 1 .. n + 1
               PROVE  /\ frame'[t[i]].kind # "none"
                      /\ frame'[t[i]].back = IF i = 1 THEN NoFrame ELSE t[i - 1]
                      /\ HasNext(frame[t[i]])' \/ (i = 1 /\ frame'[t[i]].kind = "code")
                      /\ frame'[t[i]].kind = "entry" => i > 1
    BY DEF Links
  <2>1. CASE i = n + 1
    <3>1. t[i] = fresh
      BY <1>3, <2>1
    <3>2. HasNext(frame[t[i]])'
      BY <1>1, <3>1
    <3>3. Root = IF i = 1 THEN NoFrame ELSE t[i - 1]
      BY <1>3, <1>6, <2>1
    <3> QED BY <1>1, <2>1, <3>1, <3>2, <3>3
  <2>2. CASE i \in 1 .. n
    <3>1. t[i] = s[i] /\ (i # 1 => t[i - 1] = s[i - 1])
      BY <1>3, <2>2
    <3>2. Rests(s[i]) \/ (Alike(s[i]) /\ Going(s[i])')
      BY <1>2, <2>2
    <3>3. /\ frame'[s[i]].kind # "none"
          /\ frame'[s[i]].back = IF i = 1 THEN NoFrame ELSE s[i - 1]
          /\ HasNext(frame[s[i]])' \/ (i = 1 /\ frame'[s[i]].kind = "code")
          /\ frame'[s[i]].kind = "entry" => i > 1
      BY <2>2, <3>2, LinkStays DEF IInv
    <3>4. HasNext(frame[t[i]])' <=> HasNext(frame[s[i]])'
      BY <3>1 DEF HasNext, Length
    <3> QED BY <3>1, <3>3, <3>4
  <2> QED BY <1>4, <2>1, <2>2
<1>8. \A f : InChain(n + 1, t, f) <=> InChain(n, s, f) \/ f = fresh
  <2>1. \A i \in 1 .. n : i \in 1 .. n + 1
    OBVIOUS
  <2>2. n + 1 \in 1 .. n + 1
    OBVIOUS
  <2> QED BY <1>3, <1>4, <2>1, <2>2 DEF InChain
<1>9. LeavesOne(n + 1, t)'
  <2>1. ASSUME NEW f \in Frame, Leaving(n + 1, t, f)'
        PROVE  Leaving(n, s, f) /\ f # fresh /\ Rests(f)
    <3>1. f # fresh /\ ~InChain(n, s, f) /\ frame'[f].kind # "none"
      BY <1>8, <2>1 DEF Leaving
    <3>2. frame[f].kind # "none"
      BY <3>1 DEF Rests, Alike
    <3>3. f # Root
      BY <3>1, ChainTop
    <3> QED BY <3>1, <3>2, <3>3 DEF Leaving
  <2>2. ASSUME NEW f \in Frame, Leaving(n + 1, t, f)'
        PROVE  /\ ~HasNext(frame[f])'
               /\ frame'[f].back = NoFrame \/ InChain(n + 1, t, frame'[f].back)
               /\ \A g \in Frame : Leaving(n + 1, t, g)' => f = g
    <3>1. Leaving(n, s, f) /\ Rests(f)
      BY <2>1, <2>2
    <3>2. /\ ~HasNext(frame[f])'
          /\ frame'[f].back = NoFrame \/ InChain(n, s, frame'[f].back)
          /\ \A g \in Frame : Leaving(n, s, g) => f = g
      BY <3>1, LeavingStays
    <3> QED BY <1>8, <2>1, <3>2
  <2> QED BY <2>2 DEF LeavesOne
<1>10. Harmless(n + 1, t)'
  <2>1. cont' = NoFrame \/ InChain(n, s, cont')
    BY <1>6, ChainTop
  <2>2. agenda'[1].op # "unref"
    OBVIOUS
  <2> QED BY <1>8, <2>1, <2>2 DEF Harmless
<1>11. Stopping' => frame'[t[1]].kind = "destroy"
  <2>1. CASE n = 0
    <3>1. t[1] = fresh
      BY <1>3, <2>1
    <3> QED BY <1>1, <2>1, <3>1
  <2>2. CASE n # 0
    <3>1. 1 \in 1 .. n /\ t[1] = s[1]
      BY <1>3, <2>2
    <3>2. Stopping' => frame[s[1]].kind = "destroy"
      BY <2>2 DEF Chain
    <3>3. frame'[s[1]].kind = frame[s[1]].kind
      <4>1. Rests(s[1]) \/ (Alike(s[1]) /\ Going(s[1])')
        BY <1>2, <3>1
      <4> QED BY <4>1 DEF Rests, Alike
    <3> QED BY <3>1, <3>2, <3>3
  <2> QED BY <2>1, <2>2
<1>12. Chain(n + 1, t)'
  <2>1. Root' = IF n + 1 = 0 THEN NoFrame ELSE t[n + 1]
    BY <1>3
  <2> QED BY <1>5, <1>7, <1>9, <1>10, <1>11, <2>1 DEF Chain
<1>13. n + 1 \in 0 .. Cardinality(Frame)
  BY <1>5, ChainFits
<1> QED BY <1>12, <1>13 DEF ChainInv

\* While a frame is evaluated, every frame is in the chain.
LEMMA AllInChain ==
    ASSUME IInv, agenda = <<>>, NEW n \in Nat, NEW s \in [1 .. n -> Frame], Chain(n, s)
    PROVE  \A f \in Frame : frame[f].kind # "none" => InChain(n, s, f)
BY NoneLeaving DEF IInv

\* The frame on top has done all it had to do, and leaves.
LEMMA ChainPop ==
    ASSUME IInv, NEW kind, Evaluating(kind),
           NEW n \in 0 .. Cardinality(Frame), NEW s \in [1 .. n -> Frame], Chain(n, s),
           \A h \in Frame \ {cur} : Rests(h),
           Alike(cur), ~HasNext(frame'[cur]),
           Root' = frame[cur].back, cont' = cont,
           Len(agenda') = 2, agenda'[1].op = "goto", agenda'[2].frame = cur,
           Stopping' => Stopping
    PROVE  ChainInv'
<1>1. /\ cur \in Frame /\ cur = cont /\ agenda = <<>> /\ frame[cur].kind = kind
      /\ kind # "none"
  BY Evaluated DEF IInv
<1>2. /\ n >= 1 /\ n \in Nat /\ s[n] = cur
      /\ frame[cur].back = (IF n = 1 THEN NoFrame ELSE s[n - 1])
  BY LastOfChain
<1>3. PICK m \in Nat : m = n - 1
  BY <1>2
<1>4. \A i \in 1 .. n : i = n \/ i \in 1 .. m
  BY <1>2, <1>3
<1>5. \A i \in 1 .. m : i \in 1 .. n /\ i # n
  BY <1>2, <1>3
<1>6. PICK t \in [1 .. m -> Frame] : \A i \in 1 .. m : t[i] = s[i]
  <2>1. [i \in 1 .. m |-> s[i]] \in [1 .. m -> Frame]
    BY <1>5
  <2> QED BY <2>1
<1>7. n \in 1 .. n
  BY <1>2
<1>8. \A i \in 1 .. m : t[i] # cur
  BY <1>2, <1>5, <1>6, <1>7 DEF Chain
<1>9. \A f : InChain(n, s, f) <=> InChain(m, t, f) \/ f = cur
  BY <1>2, <1>4, <1>5, <1>6, <1>7 DEF InChain
<1>10. \A f \in Frame : frame[f].kind # "none" => InChain(n, s, f)
  BY <1>1, <1>2, AllInChain
<1>11. \A i, j \in 1 .. m : t[i] = t[j] => i = j
  BY <1>5, <1>6 DEF Chain
<1>12. Links(m, t)'
  <2> SUFFICES ASSUME NEW i \in 1 .. m
               PROVE  /\ frame'[t[i]].kind # "none"
                      /\ frame'[t[i]].back = IF i = 1 THEN NoFrame ELSE t[i - 1]
                      /\ HasNext(frame[t[i]])' \/ (i = 1 /\ frame'[t[i]].kind = "code")
                      /\ frame'[t[i]].kind = "entry" => i > 1
    BY DEF Links
  <2>1. t[i] = s[i] /\ (i # 1 => t[i - 1] = s[i - 1]) /\ i \in 1 .. n
    <3>1. i # 1 => i - 1 \in 1 .. m
      OBVIOUS
    <3> QED BY <1>5, <1>6, <3>1
  <2>2. Rests(s[i])
    BY <1>6, <1>8, <2>1
  <2>3. /\ frame'[s[i]].kind # "none"
        /\ frame'[s[i]].back = IF i = 1 THEN NoFrame ELSE s[i - 1]
        /\ HasNext(frame[s[i]])' \/ (i = 1 /\ frame'[s[i]].kind = "code")
        /\ frame'[s[i]].kind = "entry" => i > 1
    BY <1>2, <2>1, <2>2, LinkStays DEF IInv
  <2>4. HasNext(frame[t[i]])' <=> HasNext(frame[s[i]])'
    BY <2>1 DEF HasNext, Length
  <2> QED BY <2>1, <2>3, <2>4
<1>13. m > 0 => t[m] = s[n - 1] /\ InChain(m, t, t[m])
  <2>1. m > 0 => m \in 1 .. m
    OBVIOUS
  <2> QED BY <1>3, <1>6, <2>1 DEF InChain
<1>14. frame[cur].back = IF m = 0 THEN NoFrame ELSE t[m]
  BY <1>2, <1>3, <1>13
<1>15. \A f \in Frame : Leaving(m, t, f)' => f = cur
  <2> SUFFICES ASSUME NEW f \in Frame, Leaving(m, t, f)', f # cur PROVE FALSE
    OBVIOUS
  <2>1. frame'[f].kind # "none" /\ ~InChain(m, t, f)
    BY DEF Leaving
  <2>2. frame[f].kind # "none"
    BY <2>1 DEF Rests, Alike
  <2> QED BY <1>9, <1>10, <2>1, <2>2
<1>16. LeavesOne(m, t)'
  <2>1. frame'[cur].back = NoFrame \/ InChain(m, t, frame'[cur].back)
    BY <1>13, <1>14 DEF Alike
  <2>2. ASSUME NEW f \in Frame, Leaving(m, t, f)'
        PROVE  /\ ~HasNext(frame[f])'
               /\ frame'[f].back = NoFrame \/ InChain(m, t, frame'[f].back)
               /\ \A g \in Frame : Leaving(m, t, g)' => f = g
    <3>1. f = cur
      BY <1>15, <2>2
    <3>2. ~HasNext(frame[f])'
      BY <3>1 DEF HasNext, Length
    <3> QED BY <1>15, <2>1, <3>1, <3>2
  <2> QED BY <2>2 DEF LeavesOne
<1>17. Harmless(m, t)'
  BY <1>1 DEF Harmless
<1>18. Stopping' /\ m > 0 => frame'[t[1]].kind = "destroy"
  <2> SUFFICES ASSUME Stopping', m > 0 PROVE frame'[t[1]].kind = "destroy"
    OBVIOUS
  <2>1. 1 \in 1 .. m
    OBVIOUS
  <2>2. t[1] = s[1] /\ Rests(s[1]) /\ s[1] \in Frame
    BY <1>5, <1>6, <1>8, <2>1
  <2>3. frame[s[1]].kind = "destroy"
    BY <1>2 DEF Chain
  <2> QED BY <2>2, <2>3 DEF Rests, Alike
<1>19. Chain(m, t)'
  BY <1>11, <1>12, <1>14, <1>16, <1>17, <1>18 DEF Chain
<1>20. m \in 0 .. Cardinality(Frame)
  BY <1>11, ChainFits
<1> QED BY <1>19, <1>20 DEF ChainInv

\* A frame takes over from the one on top, which leaves.
LEMMA ChainReplace ==
    ASSUME IInv, Evaluating("entry"),
           NEW n \in 0 .. Cardinality(Frame), NEW s \in [1 .. n -> Frame], Chain(n, s),
           NEW fresh, fresh # cur, NEW value, NEW given,
           Made(fresh, "code", frame[cur].back, value, given),
           \A h \in Frame \ {cur, fresh} : Rests(h),
           Alike(cur), ~HasNext(frame'[cur]),
           Root' = fresh, cont' = cont,
           Len(agenda') = 2, agenda'[1].op = "goto", agenda'[2].frame = cur,
           Stopping' => Stopping
    PROVE  ChainInv'
<1>1. /\ cur \in Frame /\ cur = cont /\ agenda = <<>> /\ frame[cur].kind = "entry"
  BY Evaluated DEF IInv
<1>2. /\ n > 1 /\ n \in Nat /\ s[n] = cur /\ frame[cur].back = s[n - 1]
  BY LastOfChain
<1>3. /\ fresh \in Frame /\ frame[fresh].kind = "none" /\ frame'[fresh].kind = "code"
      /\ frame'[fresh].back = frame[cur].back /\ HasNext(frame[fresh])'
  BY NewGoes DEF Made
<1>4. \A i \in 1 .. n : s[i] \in Frame /\ s[i] # fresh
  BY <1>3 DEF Chain, Links
<1>5. n \in 1 .. n /\ n - 1 \in 1 .. n /\ n - 1 # n /\ 1 \in 1 .. n /\ 1 # n
  BY <1>2
<1>6. PICK t \in [1 .. n -> Frame] :
         t[n] = fresh /\ \A i \in 1 .. n : i # n => t[i] = s[i]
  <2>1. [s EXCEPT ![n] = fresh] \in [1 .. n -> Frame]
    BY <1>3
  <2> QED BY <1>5, <2>1
<1>7. \A i \in 1 .. n : i # n => s[i] # cur
  BY <1>2, <1>5 DEF Chain
<1>8. \A i, j \in 1 .. n : t[i] = t[j] => i = j
  <2> SUFFICES ASSUME NEW i \in 1 .. n, NEW j \in 1 .. n, t[i] = t[j] PROVE i = j
    OBVIOUS
  <2>1. CASE i = n \/ j = n
    BY <1>4, <1>6, <2>1
  <2>2. CASE i # n /\ j # n
    BY <1>6, <2>2 DEF Chain
  <2> QED BY <2>1, <2>2
<1>9. \A f : InChain(n, t, f) <=> f = fresh \/ (InChain(n, s, f) /\ f # cur)
  BY <1>2, <1>5, <1>6, <1>7 DEF InChain
<1>10. \A f \in Frame : frame[f].kind # "none" => InChain(n, s, f)
  BY <1>1, <1>2, AllInChain
<1>11. Links(n, t)'
  <2> SUFFICES ASSUME NEW i \in 1 .. n
               PROVE  /\ frame'[t[i]].kind # "none"
                      /\ frame'[t[i]].back = IF i = 1 THEN NoFrame ELSE t[i - 1]
                      /\ HasNext(frame[t[i]])' \/ (i = 1 /\ frame'[t[i]].kind = "code")
                      /\ frame'[t[i]].kind = "entry" => i > 1
    BY DEF Links
  <2>1. CASE i = n
    <3>1. t[i] = fresh /\ frame'[fresh].back = t[i - 1] /\ i # 1
      BY <1>2, <1>3, <1>5, <1>6, <2>1
    <3>2. HasNext(frame[t[i]])'
      BY <1>3, <3>1
    <3> QED BY <1>3, <3>1, <3>2
  <2>2. CASE i # n
    <3>1. t[i] = s[i] /\ (i # 1 => t[i - 1] = s[i - 1])
      <4>1. i # 1 => i - 1 \in 1 .. n /\ i - 1 # n
        OBVIOUS
      <4> QED BY <1>6, <2>2, <4>1
    <3>2. Rests(s[i])
      BY <1>4, <1>7, <2>2
    <3>3. /\ frame'[s[i]].kind # "none"
          /\ frame'[s[i]].back = IF i = 1 THEN NoFrame ELSE s[i - 1]
          /\ HasNext(frame[s[i]])' \/ (i = 1 /\ frame'[s[i]].kind = "code")
          /\ frame'[s[i]].kind = "entry" => i > 1
      BY <1>2, <3>2, LinkStays DEF IInv
    <3>4. HasNext(frame[t[i]])' <=> HasNext(frame[s[i]])'
      BY <3>1 DEF HasNext, Length
    <3> QED BY <3>1, <3>3, <3>4
  <2> QED BY <2>1, <2>2
<1>12. \A f \in Frame : Leaving(n, t, f)' => f = cur
  <2> SUFFICES ASSUME NEW f \in Frame, Leaving(n, t, f)', f # cur PROVE FALSE
    OBVIOUS
  <2>1. frame'[f].kind # "none" /\ ~InChain(n, t, f)
    BY DEF Leaving
  <2>2. f # fresh
    BY <1>9, <2>1
  <2>3. frame[f].kind # "none"
    BY <2>1, <2>2 DEF Rests, Alike
  <2> QED BY <1>9, <1>10, <2>1, <2>3
<1>13. LeavesOne(n, t)'
  <2>1. frame'[cur].back = s[n - 1] /\ InChain(n, t, s[n - 1])
    BY <1>2, <1>5, <1>6 DEF Alike, InChain
  <2>2. ASSUME NEW f \in Frame, Leaving(n, t, f)'
        PROVE  /\ ~HasNext(frame[f])'
               /\ frame'[f].back = NoFrame \/ InChain(n, t, frame'[f].back)
               /\ \A g \in Frame : Leaving(n, t, g)' => f = g
    <3>1. f = cur
      BY <1>12, <2>2
    <3>2. ~HasNext(frame[f])'
      BY <3>1 DEF HasNext, Length
    <3> QED BY <1>12, <2>1, <3>1, <3>2
  <2> QED BY <2>2 DEF LeavesOne
<1>14. Harmless(n, t)'
  BY <1>1 DEF Harmless
<1>15. Stopping' /\ n > 0 => frame'[t[1]].kind = "destroy"
  <2>1. t[1] = s[1] /\ Rests(s[1]) /\ s[1] \in Frame
    BY <1>4, <1>5, <1>6, <1>7
  <2>2. Stopping' => frame[s[1]].kind = "destroy"
    BY <1>2 DEF Chain
  <2> QED BY <2>1, <2>2 DEF Rests, Alike
<1>16. Chain(n, t)'
  BY <1>2, <1>6, <1>8, <1>11, <1>13, <1>14, <1>15 DEF Chain
<1> QED BY <1>16 DEF ChainInv

\* When the host acts there is at most the body of a program that has run.
LEMMA HostChain ==
    ASSUME IInv, agenda = <<>>, at = "out" \/ at = "eval", cont = NoFrame \/ ~HasNext(frame[cont]),
           NEW n \in 0 .. Cardinality(Frame), NEW s \in [1 .. n -> Frame], Chain(n, s)
    PROVE  /\ n \in {0, 1} /\ (n = 0 <=> cont = NoFrame)
           /\ n = 1 => s[1] = cont /\ cont \in Frame /\ frame[cont].kind = "code"
                          /\ frame[cont].back = NoFrame
           /\ \A f \in Frame : frame[f].kind # "none" => f = cont
<1>1. n \in Nat /\ Root = cont
  BY FrameSets DEF Root, Doing
<1>2. n = 0 <=> cont = NoFrame
  BY <1>1, ChainTop
<1>3. n > 0 => s[n] = cont /\ cont \in Frame /\ n \in 1 .. n
  BY <1>1, ChainTop
<1>4. n > 0 => n = 1 /\ frame[cont].kind = "code" /\ frame[cont].back = NoFrame
  BY <1>2, <1>3 DEF Chain, Links
<1>5. \A f \in Frame : frame[f].kind # "none" => f = cont
  BY <1>1, <1>2, <1>3, <1>4, AllInChain DEF InChain
<1> QED BY <1>1, <1>2, <1>3, <1>4, <1>5

\* A program starts with a chain of its own ...
LEMMA ChainFresh ==
    ASSUME IInv, agenda = <<>>, at = "out", cont = NoFrame \/ ~HasNext(frame[cont]),
           NEW fresh, NEW value, NEW given, Made(fresh, "code", NoFrame, value, given),
           \A h \in Frame \ {fresh} : Rests(h),
           Root' = fresh, Len(agenda') = 1, ~Stopping'
    PROVE  ChainInv'
<1>1. PICK n \in 0 .. Cardinality(Frame) : \E s \in [1 .. n -> Frame] : Chain(n, s)
  BY DEF IInv, ChainInv
<1>2. PICK s \in [1 .. n -> Frame] : Chain(n, s)
  BY <1>1
<1>3. /\ \A f \in Frame : frame[f].kind # "none" => f = cont
      /\ cont # NoFrame => frame[cont].back = NoFrame
  BY <1>2, HostChain
<1>4. /\ fresh \in Frame /\ frame[fresh].kind = "none" /\ frame'[fresh].kind = "code"
      /\ frame'[fresh].back = NoFrame /\ HasNext(frame[fresh])'
  BY NewGoes DEF Made
<1>5. PICK t \in [1 .. 1 -> Frame] : t[1] = fresh
  <2>1. [i \in 1 .. 1 |-> fresh] \in [1 .. 1 -> Frame]
    BY <1>4
  <2>2. 1 \in 1 .. 1
    OBVIOUS
  <2> QED BY <2>1, <2>2
<1>6. \A i \in 1 .. 1 : i = 1
  OBVIOUS
<1>7. \A f : InChain(1, t, f) <=> f = fresh
  <2>1. 1 \in 1 .. 1
    OBVIOUS
  <2> QED BY <1>5, <1>6, <2>1 DEF InChain
<1>8. Links(1, t)'
  <2> SUFFICES ASSUME NEW i \in 1 .. 1
               PROVE  /\ frame'[t[i]].kind # "none"
                      /\ frame'[t[i]].back = IF i = 1 THEN NoFrame ELSE t[i - 1]
                      /\ HasNext(frame[t[i]])' \/ (i = 1 /\ frame'[t[i]].kind = "code")
                      /\ frame'[t[i]].kind = "entry" => i > 1
    BY DEF Links
  <2>1. i = 1 /\ t[i] = fresh
    BY <1>5, <1>6
  <2> QED BY <1>4, <2>1
<1>9. LeavesOne(1, t)'
  <2>1. ASSUME NEW f \in Frame, Leaving(1, t, f)'
        PROVE  f = cont /\ cont # NoFrame /\ Rests(f)
    <3>1. f # fresh /\ frame'[f].kind # "none"
      BY <1>7, <2>1 DEF Leaving
    <3>2. Rests(f) /\ frame[f].kind # "none"
      BY <3>1 DEF Rests, Alike
    <3> QED BY <1>3, <3>2, InterpreterAssumption
  <2>2. ASSUME NEW f \in Frame, Leaving(1, t, f)'
        PROVE  /\ ~HasNext(frame[f])'
               /\ frame'[f].back = NoFrame \/ InChain(1, t, frame'[f].back)
               /\ \A g \in Frame : Leaving(1, t, g)' => f = g
    <3>1. f = cont /\ cont # NoFrame /\ Rests(f)
      BY <2>1, <2>2
    <3>2. ~HasNext(frame[f])'
      BY <3>1, RestsNext
    <3>3. frame'[f].back = NoFrame
      BY <1>3, <3>1 DEF Rests, Alike
    <3> QED BY <2>1, <3>1, <3>2, <3>3
  <2> QED BY <2>2 DEF LeavesOne
<1>10. Harmless(1, t)'
  BY DEF Harmless
<1>11. Chain(1, t)'
  BY <1>5, <1>6, <1>8, <1>9, <1>10 DEF Chain
<1>12. 1 \in 0 .. Cardinality(Frame)
  <2>1. \A i, j \in 1 .. 1 : t[i] = t[j] => i = j
    BY <1>6
  <2> QED BY <2>1, ChainFits
<1> QED BY <1>11, <1>12 DEF ChainInv

\* ... and the host stops with an empty one.
LEMMA ChainEmpty ==
    ASSUME IInv, agenda = <<>>, at = "out", cont = NoFrame \/ ~HasNext(frame[cont]),
           frame' = frame, Root' = NoFrame, Len(agenda') <= 1, Len(agenda') \in Nat
    PROVE  ChainInv'
<1>1. PICK n \in 0 .. Cardinality(Frame) : \E s \in [1 .. n -> Frame] : Chain(n, s)
  BY DEF IInv, ChainInv
<1>2. PICK s \in [1 .. n -> Frame] : Chain(n, s)
  BY <1>1
<1>3. /\ \A f \in Frame : frame[f].kind # "none" => f = cont
      /\ cont # NoFrame => frame[cont].back = NoFrame
  BY <1>2, HostChain
<1>4. PICK t \in [1 .. 0 -> Frame] : TRUE
  <2>1. [i \in 1 .. 0 |-> NoFrame] \in [1 .. 0 -> Frame]
    OBVIOUS
  <2> QED BY <2>1
<1>5. \A i : i \notin 1 .. 0
  OBVIOUS
<1>6. Links(0, t)'
  BY <1>5 DEF Links
<1>7. LeavesOne(0, t)'
  <2>1. ASSUME NEW f \in Frame, Leaving(0, t, f)' PROVE f = cont /\ cont # NoFrame
    BY <1>3, <2>1, InterpreterAssumption DEF Leaving
  <2>2. \A f \in Frame : HasNext(frame[f])' <=> HasNext(frame[f])
    BY DEF HasNext, Length
  <2> QED BY <1>3, <2>1, <2>2 DEF LeavesOne
<1>8. Harmless(0, t)'
  BY DEF Harmless
<1>9. Chain(0, t)'
  BY <1>5, <1>6, <1>7, <1>8 DEF Chain
<1>10. 0 \in 0 .. Cardinality(Frame)
  BY FrameSets
<1> QED BY <1>9, <1>10 DEF ChainInv

\* A frame that leaves is freed.
LEMMA ChainFree ==
    ASSUME IInv, FreeFrame
    PROVE  ChainInv'
<1>1. PICK n \in 0 .. Cardinality(Frame) : \E s \in [1 .. n -> Frame] : Chain(n, s)
  BY DEF IInv, ChainInv
<1>2. PICK s \in [1 .. n -> Frame] : Chain(n, s)
  BY <1>1
<1>3. PICK f \in Frame : f = Head(agenda).frame
  BY FreeDoes, Unreferencing
<1>4. /\ n \in Nat /\ Leaving(n, s, f) /\ Tail(agenda) = <<>>
      /\ agenda # <<>> /\ Head(agenda).op = "unref" /\ Root = cont
  BY <1>2, <1>3, LastReference, FrameSets, Unreferencing DEF IInv, FreeFrame, Doing
<1>5. /\ frame'[f].kind = "none" /\ \A h \in Frame \ {f} : Rests(h)
      /\ frame[f].back \in Frame \cup {NoFrame} /\ cont' = cont /\ host' = host
  <2>1. frame'[f].kind = "none"
    BY <1>3, FreeDoes DEF Blank
  <2>2. \A h \in Frame \ {f} : Rests(h)
    BY <1>3, FreeDoes DEF Keeps
  <2>3. frame[f].back \in Frame \cup {NoFrame}
    BY Typed DEF IInv
  <2>4. cont' = cont /\ host' = host
    BY DEF FreeFrame
  <2> QED BY <2>1, <2>2, <2>3, <2>4
<1>6. Len(agenda') <= 1 /\ Len(agenda') \in Nat /\ Root' = cont
  <2>1. CASE frame[f].back = NoFrame
    <3>1. agenda' = <<>>
      <4>1. agenda' = <<>> \o <<>> /\ <<>> \in Seq(Op)
        BY <1>3, <1>4, <2>1, FreeDoes
      <4> QED BY <4>1, Nothing
    <3> QED BY <1>5, <3>1 DEF Root, Doing
  <2>2. CASE frame[f].back # NoFrame
    <3>1. PICK x \in Op : x = Unref(frame[f].back) /\ x.op = "unref"
      BY <1>5, <2>2, Operations
    <3>2. agenda' = <<x>>
      <4>1. agenda' = <<x>> \o <<>>
        BY <1>3, <1>4, <2>2, <3>1, FreeDoes
      <4> QED BY <4>1, ConcatEmptySeq
    <3>3. Len(<<x>>) = 1 /\ Head(<<x>>) = x
      OBVIOUS
    <3> QED BY <1>5, <3>1, <3>2, <3>3 DEF Root, Doing
  <2> QED BY <2>1, <2>2
<1>7. \A i \in 1 .. n : s[i] \in Frame /\ s[i] # f /\ Rests(s[i])
  BY <1>4, <1>5 DEF Leaving, InChain
<1>8. Links(n, s)'
  <2> SUFFICES ASSUME NEW i \in 1 .. n
               PROVE  /\ frame'[s[i]].kind # "none"
                      /\ frame'[s[i]].back = IF i = 1 THEN NoFrame ELSE s[i - 1]
                      /\ HasNext(frame[s[i]])' \/ (i = 1 /\ frame'[s[i]].kind = "code")
                      /\ frame'[s[i]].kind = "entry" => i > 1
    BY DEF Links
  <2> QED BY <1>2, <1>4, <1>7, LinkStays DEF IInv
<1>9. LeavesOne(n, s)'
  <2>1. ASSUME NEW g \in Frame, Leaving(n, s, g)' PROVE FALSE
    <3>1. g # f /\ ~InChain(n, s, g) /\ frame'[g].kind # "none"
      BY <1>5, <2>1 DEF Leaving
    <3>2. Leaving(n, s, g)
      BY <1>5, <3>1 DEF Leaving, Rests, Alike
    <3> QED BY <1>2, <1>4, <3>1, <3>2 DEF Chain, LeavesOne
  <2> QED BY <2>1 DEF LeavesOne
<1>10. Harmless(n, s)'
  BY <1>6 DEF Harmless
<1>11. Stopping' /\ n > 0 => frame'[s[1]].kind = "destroy"
  <2> SUFFICES ASSUME Stopping', n > 0 PROVE frame'[s[1]].kind = "destroy"
    OBVIOUS
  <2>1. 1 \in 1 .. n
    BY <1>4
  <2>2. frame[s[1]].kind = "destroy"
    BY <1>2, <1>5 DEF Chain, Stopping
  <2> QED BY <1>7, <2>1, <2>2 DEF Rests, Alike
<1>12. Chain(n, s)'
  BY <1>2, <1>4, <1>6, <1>8, <1>9, <1>10, <1>11 DEF Chain
<1> QED BY <1>12 DEF ChainInv

-----------------------------------------------------------------------------
(* What steps leave to the C stack *)

LEMMA OpsOne ==
    ASSUME NEW x \in Op, agenda' = <<x>>
    PROVE  /\ agenda' \in Seq(Op) /\ agenda' # <<>> /\ Len(agenda') = 1 /\ AgendaInv'
           /\ Root' = IF x.op = "goto" THEN x.frame ELSE cont'
           /\ agenda'[1] = x
           /\ \A o : InAgenda(o)' <=> x.op = "release" /\ x.obj = o
<1>1. /\ agenda' \in Seq(Op) /\ agenda' # <<>> /\ Len(agenda') = 1
      /\ Head(agenda') = x /\ agenda'[1] = x /\ DOMAIN agenda' = 1 .. 1
  OBVIOUS
<1>2. AgendaInv'
  <2>1. \A i : i \notin 2 .. 1
    OBVIOUS
  <2> QED BY <1>1, <2>1 DEF AgendaInv
<1>3. Root' = IF x.op = "goto" THEN x.frame ELSE cont'
  BY <1>1 DEF Root, Doing
<1>4. ASSUME NEW o PROVE InAgenda(o)' <=> x.op = "release" /\ x.obj = o
  <2>1. \A i : i \in 1 .. 1 <=> i = 1
    OBVIOUS
  <2> QED BY <1>1, <2>1 DEF InAgenda
<1> QED BY <1>1, <1>2, <1>3, <1>4

LEMMA OpsTwo ==
    ASSUME NEW x \in Op, NEW y \in Op, y.op = "unref", agenda' = <<x, y>>
    PROVE  /\ agenda' \in Seq(Op) /\ agenda' # <<>> /\ Len(agenda') = 2 /\ AgendaInv'
           /\ Root' = IF x.op = "goto" THEN x.frame ELSE cont'
           /\ agenda'[1] = x /\ agenda'[2] = y
           /\ \A o : InAgenda(o)' <=> x.op = "release" /\ x.obj = o
<1>1. /\ agenda' \in Seq(Op) /\ agenda' # <<>> /\ Len(agenda') = 2
      /\ Head(agenda') = x /\ agenda'[1] = x /\ agenda'[2] = y /\ DOMAIN agenda' = 1 .. 2
  OBVIOUS
<1>2. AgendaInv'
  <2>1. \A i : i \in 2 .. 2 <=> i = 2
    OBVIOUS
  <2> QED BY <1>1, <2>1 DEF AgendaInv
<1>3. Root' = IF x.op = "goto" THEN x.frame ELSE cont'
  BY <1>1 DEF Root, Doing
<1>4. ASSUME NEW o PROVE InAgenda(o)' <=> x.op = "release" /\ x.obj = o
  <2>1. \A i : i \in 1 .. 2 <=> (i = 1 \/ i = 2)
    OBVIOUS
  <2> QED BY <1>1, <2>1 DEF InAgenda
<1> QED BY <1>1, <1>2, <1>3, <1>4

LEMMA OpsThree ==
    ASSUME NEW x \in Op, NEW y \in Op, NEW z \in Op, agenda' = <<x, y, z>>,
           x.op # "release", y.op = "release", z.op = "unref"
    PROVE  /\ agenda' \in Seq(Op) /\ agenda' # <<>> /\ Len(agenda') = 3 /\ AgendaInv'
           /\ Root' = IF x.op = "goto" THEN x.frame ELSE cont'
           /\ agenda'[1] = x /\ agenda'[3] = z
           /\ \A o : InAgenda(o)' <=> y.obj = o
<1>1. /\ agenda' \in Seq(Op) /\ agenda' # <<>> /\ Len(agenda') = 3
      /\ Head(agenda') = x /\ agenda'[1] = x /\ agenda'[2] = y /\ agenda'[3] = z
      /\ DOMAIN agenda' = 1 .. 3
  OBVIOUS
<1>2. AgendaInv'
  <2>1. \A i : i \in 2 .. 3 <=> (i = 2 \/ i = 3)
    OBVIOUS
  <2> QED BY <1>1, <2>1 DEF AgendaInv
<1>3. Root' = IF x.op = "goto" THEN x.frame ELSE cont'
  BY <1>1 DEF Root, Doing
<1>4. ASSUME NEW o PROVE InAgenda(o)' <=> y.obj = o
  <2>1. \A i : i \in 1 .. 3 <=> (i = 1 \/ i = 2 \/ i = 3)
    OBVIOUS
  <2> QED BY <1>1, <2>1 DEF InAgenda
<1> QED BY <1>1, <1>2, <1>3, <1>4

LEMMA OpsNone ==
    ASSUME agenda' = <<>>
    PROVE  /\ agenda' \in Seq(Op) /\ Len(agenda') = 0 /\ AgendaInv'
           /\ Root' = cont' /\ \A o : ~InAgenda(o)'
<1>1. agenda' \in Seq(Op) /\ Len(agenda') = 0 /\ DOMAIN agenda' = {}
  OBVIOUS
<1>2. \A i : i \notin 2 .. 0
  OBVIOUS
<1>3. AgendaInv'
  BY <1>1, <1>2 DEF AgendaInv
<1> QED BY <1>1, <1>3 DEF Root, Doing, InAgenda

\* The operation in hand is done ...
LEMMA OpsDone ==
    ASSUME IInv, agenda # <<>>, agenda' = Tail(agenda)
    PROVE  /\ agenda' \in Seq(Op) /\ AgendaInv' /\ Root' = cont'
           /\ Len(agenda') > 1 => agenda'[1].op = "release"
           /\ \A o : InAgenda(o) <=>
                InAgenda(o)' \/ (Head(agenda).op = "release" /\ Head(agenda).obj = o)
<1>1. PICK l \in Nat : l = Len(agenda) /\ DOMAIN agenda = 1 .. l /\ l > 0 /\ l <= 3
  <2>1. Len(agenda) # 0
    BY EmptySeq DEF IInv, TypeOK
  <2> QED BY <2>1, LenProperties DEF IInv, TypeOK, AgendaInv
<1>2. PICK t \in Seq(Op) : /\ t = Tail(agenda) /\ Len(t) = l - 1 /\ DOMAIN t = 1 .. l - 1
                           /\ \A i \in 1 .. l - 1 : t[i] = agenda[i + 1]
                           /\ Head(agenda) = agenda[1]
  <2>1. /\ Tail(agenda) \in Seq(Op) /\ Len(Tail(agenda)) = l - 1
        /\ \A i \in 1 .. l - 1 : Tail(agenda)[i] = agenda[i + 1]
        /\ Head(agenda) = agenda[1]
    BY <1>1, Stack DEF IInv
  <2> QED BY <2>1, LenProperties
<1>3. /\ \A i \in 2 .. l : agenda[i].op = IF i = l THEN "unref" ELSE "release"
  BY <1>1 DEF IInv, AgendaInv
<1>4. \A i \in 1 .. l - 1 : t[i].op = IF i = l - 1 THEN "unref" ELSE "release"
  <2> SUFFICES ASSUME NEW i \in 1 .. l - 1
               PROVE  t[i].op = IF i = l - 1 THEN "unref" ELSE "release"
    OBVIOUS
  <2>1. i + 1 \in 2 .. l /\ (i + 1 = l <=> i = l - 1)
    BY <1>1
  <2> QED BY <1>2, <1>3, <2>1
<1>5. AgendaInv'
  <2>1. Len(agenda') = l - 1 /\ l - 1 <= 2
    BY <1>1, <1>2
  <2>2. \A i \in 2 .. l - 1 : i \in 1 .. l - 1
    OBVIOUS
  <2>3. agenda' = t /\ Len(t) = l - 1 /\ Len(t) <= 3 /\ Len(t) # 3
    BY <1>1, <1>2, <2>1
  <2>4. \A i \in 2 .. Len(t) : t[i].op = IF i = Len(t) THEN "unref" ELSE "release"
    BY <1>4, <2>2, <2>3
  <2> QED BY <2>3, <2>4 DEF AgendaInv
<1>6. Root' = cont'
  <2>1. CASE t = <<>>
    BY <1>2, <2>1 DEF Root, Doing
  <2>2. CASE t # <<>>
    <3>1. Head(t) = t[1] /\ 1 \in 1 .. l - 1
      <4>1. l - 1 # 0
        BY <1>2, <2>2, EmptySeq
      <4> QED BY <1>1, <1>2, <2>2, <4>1, HeadTailProperties
    <3>2. Head(t).op # "goto"
      BY <1>4, <3>1
    <3> QED BY <1>2, <3>2 DEF Root, Doing
  <2> QED BY <2>1, <2>2
<1>7. Len(agenda') > 1 => agenda'[1].op = "release"
  <2>1. agenda' = t /\ Len(t) = l - 1
    BY <1>2
  <2>2. l - 1 > 1 => 1 \in 1 .. l - 1 /\ 1 # l - 1
    BY <1>1
  <2>3. l - 1 > 1 => t[1].op = "release"
    BY <1>4, <2>2
  <2> QED BY <2>1, <2>3
<1>8. ASSUME NEW o
      PROVE  InAgenda(o) <=>
               InAgenda(o)' \/ (Head(agenda).op = "release" /\ Head(agenda).obj = o)
  <2>1. InAgenda(o) <=> \E i \in 1 .. l : agenda[i].op = "release" /\ agenda[i].obj = o
    BY <1>1 DEF InAgenda
  <2>2. InAgenda(o)' <=> \E i \in 1 .. l - 1 : t[i].op = "release" /\ t[i].obj = o
    BY <1>2 DEF InAgenda
  <2>3. ASSUME NEW i \in 1 .. l, agenda[i].op = "release", agenda[i].obj = o
        PROVE  InAgenda(o)' \/ (Head(agenda).op = "release" /\ Head(agenda).obj = o)
    <3>1. CASE i = 1
      BY <1>2, <2>3, <3>1
    <3>2. CASE i # 1
      <4>1. i - 1 \in 1 .. l - 1 /\ (i - 1) + 1 = i
        BY <3>2
      <4>2. t[i - 1] = agenda[i]
        BY <1>2, <4>1
      <4> QED BY <2>2, <2>3, <4>1, <4>2
    <3> QED BY <3>1, <3>2
  <2>4. ASSUME NEW i \in 1 .. l - 1, t[i].op = "release", t[i].obj = o PROVE InAgenda(o)
    <3>1. i + 1 \in 1 .. l /\ t[i] = agenda[i + 1]
      BY <1>1, <1>2
    <3> QED BY <2>1, <2>4, <3>1
  <2>5. 1 \in 1 .. l
    BY <1>1
  <2> QED BY <1>2, <2>1, <2>2, <2>3, <2>4, <2>5
<1> QED BY <1>2, <1>5, <1>6, <1>7, <1>8

\* ... and leaves another in its place.
LEMMA OpsReplaced ==
    ASSUME IInv, agenda # <<>>, NEW x \in Op, x.op # "release",
           agenda' = <<x>> \o Tail(agenda)
    PROVE  /\ agenda' \in Seq(Op) /\ agenda' # <<>> /\ AgendaInv'
           /\ Root' = IF x.op = "goto" THEN x.frame ELSE cont'
           /\ x.op = "goto" => Doing("goto")'
           /\ agenda'[1] = x /\ Len(agenda') = Len(agenda) /\ Len(agenda) \in Nat
           /\ \A i \in 2 .. Len(agenda) : agenda'[i] = agenda[i]
           /\ \A o : InAgenda(o) <=>
                InAgenda(o)' \/ (Head(agenda).op = "release" /\ Head(agenda).obj = o)
<1>1. PICK l \in Nat : l = Len(agenda) /\ DOMAIN agenda = 1 .. l /\ l > 0 /\ l <= 3
  <2>1. Len(agenda) # 0
    BY EmptySeq DEF IInv, TypeOK
  <2> QED BY <2>1, LenProperties DEF IInv, TypeOK, AgendaInv
<1>2. PICK t \in Seq(Op) : /\ t = Tail(agenda) /\ Len(t) = l - 1
                           /\ \A i \in 1 .. l - 1 : t[i] = agenda[i + 1]
                           /\ Head(agenda) = agenda[1]
  <2>1. /\ Tail(agenda) \in Seq(Op) /\ Len(Tail(agenda)) = l - 1
        /\ \A i \in 1 .. l - 1 : Tail(agenda)[i] = agenda[i + 1]
        /\ Head(agenda) = agenda[1]
    BY <1>1, Stack DEF IInv
  <2> QED BY <2>1
<1>3. PICK new \in Seq(Op) :
        /\ new = <<x>> \o t /\ Len(new) = Len(t) + 1 /\ new # <<>>
        /\ Head(new) = x /\ new[1] = x
        /\ \A i \in 1 .. Len(t) : new[i + 1] = t[i]
  <2>1. LET n == <<x>> \o t
        IN  /\ n \in Seq(Op) /\ Len(n) = Len(t) + 1 /\ n # <<>>
            /\ Head(n) = x /\ n[1] = x
            /\ \A i \in 1 .. Len(t) : n[i + 1] = t[i]
    BY Pushing
  <2> QED BY <2>1, Zenon
<1>4. agenda' = new /\ Len(new) = l /\ DOMAIN new = 1 .. l
  BY <1>1, <1>2, <1>3, LenProperties
<1>5. \A i \in 2 .. l : new[i] = agenda[i]
  <2> SUFFICES ASSUME NEW i \in 2 .. l PROVE new[i] = agenda[i]
    OBVIOUS
  <2>1. i - 1 \in 1 .. l - 1 /\ (i - 1) + 1 = i
    OBVIOUS
  <2> QED BY <1>2, <1>3, <2>1
<1>6. AgendaInv'
  BY <1>1, <1>3, <1>4, <1>5 DEF AgendaInv, IInv
<1>7. Root' = IF x.op = "goto" THEN x.frame ELSE cont'
  BY <1>3, <1>4 DEF Root, Doing
<1>8. ASSUME NEW o
      PROVE  InAgenda(o) <=>
               InAgenda(o)' \/ (Head(agenda).op = "release" /\ Head(agenda).obj = o)
  <2>1. InAgenda(o) <=> \E i \in 1 .. l : agenda[i].op = "release" /\ agenda[i].obj = o
    BY <1>1 DEF InAgenda
  <2>2. InAgenda(o)' <=> \E i \in 1 .. l : new[i].op = "release" /\ new[i].obj = o
    BY <1>4 DEF InAgenda
  <2>3. \A i \in 1 .. l : i = 1 \/ i \in 2 .. l
    OBVIOUS
  <2>4. 1 \in 1 .. l /\ \A i \in 2 .. l : i \in 1 .. l
    BY <1>1
  <2>5. ASSUME NEW i \in 1 .. l, agenda[i].op = "release", agenda[i].obj = o
        PROVE  InAgenda(o)' \/ (Head(agenda).op = "release" /\ Head(agenda).obj = o)
    BY <1>2, <1>5, <2>2, <2>3, <2>5
  <2>6. ASSUME NEW i \in 1 .. l, new[i].op = "release", new[i].obj = o
        PROVE  InAgenda(o)
    <3>1. i # 1
      BY <1>3, <2>6
    <3> QED BY <1>5, <2>1, <2>3, <2>6, <3>1
  <2> QED BY <1>2, <2>1, <2>2, <2>4, <2>5, <2>6
<1> QED BY <1>1, <1>3, <1>4, <1>5, <1>6, <1>7, <1>8 DEF Doing

-----------------------------------------------------------------------------
(* There is always room enough *)

Kept(f) == IF frame[f].kind = "none" THEN frame[f].holds = {} /\ frame[f].rc = 0
                                     ELSE frame[f].rc > 0
Enough == Cardinality(Unused) >= Cardinality(Live) + Cardinality(MethodsToCome)
                                   + Cardinality(EntriesToCome)

LEMMA RoomParts == RoomInv <=> (\A f \in Frame : Kept(f)) /\ Enough
BY DEF RoomInv, Kept, Enough

LEMMA RoomNext == RoomInv' <=> (\A f \in Frame : Kept(f)') /\ Enough'
BY DEF RoomInv, Kept, Enough

LEMMA RoomSubsets ==
    /\ Unused \subseteq Frame /\ Live \subseteq Object
    /\ MethodsToCome \subseteq Object /\ EntriesToCome \subseteq Frame
    /\ Unused' \subseteq Frame /\ Live' \subseteq Object
    /\ MethodsToCome' \subseteq Object /\ EntriesToCome' \subseteq Frame
BY InterpreterAssumption DEF Unused, Live, MethodsToCome, EntriesToCome

LEMMA Fewer ==
    ASSUME NEW T, IsFiniteSet(T), NEW S, S \subseteq T
    PROVE  /\ Cardinality(S) \in Nat /\ Cardinality(T) \in Nat
           /\ Cardinality(S) <= Cardinality(T)
BY FS_Subset, FS_CardinalityType

LEMMA FewerBut ==
    ASSUME NEW T, IsFiniteSet(T), NEW x \in T, NEW S, S \subseteq T \ {x}
    PROVE  /\ Cardinality(S) \in Nat /\ Cardinality(T) \in Nat
           /\ Cardinality(S) <= Cardinality(T) - 1
<1>1. IsFiniteSet(T \ {x}) /\ Cardinality(T \ {x}) = Cardinality(T) - 1
  BY FS_Subset, Removed
<1> QED BY <1>1, Fewer, FS_CardinalityType

LEMMA OneMore ==
    ASSUME NEW T, IsFiniteSet(T), NEW x, NEW S, S \subseteq T \cup {x}
    PROVE  /\ Cardinality(S) \in Nat /\ Cardinality(T) \in Nat
           /\ Cardinality(S) <= Cardinality(T) + 1
<1>1. Cardinality(T) \in Nat /\ IsFiniteSet(T \cup {x})
      /\ Cardinality(T \cup {x}) <= Cardinality(T) + 1
  <2>1. CASE x \in T
    <3>1. T \cup {x} = T
      BY <2>1
    <3>2. Cardinality(T) \in Nat
      BY FS_CardinalityType
    <3> QED BY <3>1, <3>2
  <2>2. CASE x \notin T
    <3>1. Cardinality(T) \in Nat /\ IsFiniteSet(T \cup {x})
      BY FS_AddElement, FS_CardinalityType
    <3>2. Cardinality(T \cup {x}) = Cardinality(T) + 1
      BY <2>2, Added
    <3> QED BY <3>1, <3>2
  <2> QED BY <2>1, <2>2
<1> QED BY <1>1, Fewer

LEMMA FiniteRooms ==
    /\ IsFiniteSet(Unused) /\ IsFiniteSet(Live)
    /\ IsFiniteSet(MethodsToCome) /\ IsFiniteSet(EntriesToCome)
    /\ IsFiniteSet(Unused')
BY RoomSubsets, FrameSets, ObjectSets

LEMMA EnoughKept ==
    ASSUME RoomInv, Unused \subseteq Unused', Live' \subseteq Live,
           MethodsToCome' \subseteq MethodsToCome, EntriesToCome' \subseteq EntriesToCome
    PROVE  Enough'
<1>1. Enough
  BY RoomParts
<1>2. /\ Cardinality(Unused) \in Nat /\ Cardinality(Unused') \in Nat
      /\ Cardinality(Unused) <= Cardinality(Unused')
  BY FiniteRooms, Fewer
<1>3. /\ Cardinality(Live) \in Nat /\ Cardinality(Live') \in Nat
      /\ Cardinality(Live') <= Cardinality(Live)
  BY FiniteRooms, Fewer
<1>4. /\ Cardinality(MethodsToCome) \in Nat /\ Cardinality(MethodsToCome') \in Nat
      /\ Cardinality(MethodsToCome') <= Cardinality(MethodsToCome)
  BY FiniteRooms, Fewer
<1>5. /\ Cardinality(EntriesToCome) \in Nat /\ Cardinality(EntriesToCome') \in Nat
      /\ Cardinality(EntriesToCome') <= Cardinality(EntriesToCome)
  BY FiniteRooms, Fewer
<1> QED BY <1>1, <1>2, <1>3, <1>4, <1>5 DEF Enough

\* A frame is taken for something that was to come ...
LEMMA EnoughTaken ==
    ASSUME RoomInv, NEW fresh \in Unused, Unused \ {fresh} \subseteq Unused',
           Live' \subseteq Live,
           MethodsToCome' \subseteq MethodsToCome, EntriesToCome' \subseteq EntriesToCome,
           \/ \E o \in Live : Live' \subseteq Live \ {o}
           \/ \E o \in MethodsToCome : MethodsToCome' \subseteq MethodsToCome \ {o}
           \/ \E f \in EntriesToCome : EntriesToCome' \subseteq EntriesToCome \ {f}
    PROVE  Enough'
<1>1. Enough
  BY RoomParts
<1>2. /\ Cardinality(Unused) \in Nat /\ Cardinality(Unused') \in Nat
      /\ Cardinality(Unused) - 1 <= Cardinality(Unused')
  <2>1. Unused \subseteq Unused' \cup {fresh}
    OBVIOUS
  <2>2. /\ Cardinality(Unused) \in Nat /\ Cardinality(Unused') \in Nat
        /\ Cardinality(Unused) <= Cardinality(Unused') + 1
    BY <2>1, FiniteRooms, OneMore
  <2> QED BY <2>2
<1>3. /\ Cardinality(Live) \in Nat /\ Cardinality(Live') \in Nat
      /\ Cardinality(Live') <= Cardinality(Live)
  BY FiniteRooms, Fewer
<1>4. /\ Cardinality(MethodsToCome) \in Nat /\ Cardinality(MethodsToCome') \in Nat
      /\ Cardinality(MethodsToCome') <= Cardinality(MethodsToCome)
  BY FiniteRooms, Fewer
<1>5. /\ Cardinality(EntriesToCome) \in Nat /\ Cardinality(EntriesToCome') \in Nat
      /\ Cardinality(EntriesToCome') <= Cardinality(EntriesToCome)
  BY FiniteRooms, Fewer
<1>6. \/ Cardinality(Live') <= Cardinality(Live) - 1
      \/ Cardinality(MethodsToCome') <= Cardinality(MethodsToCome) - 1
      \/ Cardinality(EntriesToCome') <= Cardinality(EntriesToCome) - 1
  <2>1. CASE \E o \in Live : Live' \subseteq Live \ {o}
    BY <2>1, FiniteRooms, FewerBut
  <2>2. CASE \E o \in MethodsToCome : MethodsToCome' \subseteq MethodsToCome \ {o}
    BY <2>2, FiniteRooms, FewerBut
  <2>3. CASE \E f \in EntriesToCome : EntriesToCome' \subseteq EntriesToCome \ {f}
    BY <2>3, FiniteRooms, FewerBut
  <2> QED BY <2>1, <2>2, <2>3
<1> QED BY <1>1, <1>2, <1>3, <1>4, <1>5, <1>6 DEF Enough

\* ... or for a call that leaves room for the rest.
LEMMA EntriesSpared ==
    /\ Spare \in Int /\ Cardinality(Unused) \in Nat /\ Cardinality(Live) \in Nat
    /\ Cardinality(MethodsToCome) \in Nat /\ Cardinality(EntriesToCome) \in Nat
    /\ Cardinality(Unused) >= Spare + Cardinality(Live) + Cardinality(MethodsToCome)
                                 + Cardinality(EntriesToCome)
<1>1. {o \in ByMethod : status[o] \in {"live", "pending"}} = MethodsToCome
  BY DEF MethodsToCome
<1>2. PICK e \in Nat : /\ e = Cardinality({f \in Frame : frame[f].kind = "entry"})
                       /\ Cardinality(EntriesToCome) <= e
  <2>1. EntriesToCome \subseteq {f \in Frame : frame[f].kind = "entry"}
    BY DEF EntriesToCome
  <2> QED BY <2>1, RoomNumbers, Fewer
<1>3. Spare = Cardinality(Unused) - (Cardinality(Live) + Cardinality(MethodsToCome) + e)
  BY <1>1, <1>2 DEF Spare, Reserved
<1> QED BY <1>2, <1>3, RoomNumbers

LEMMA EnoughCalled ==
    ASSUME RoomInv, NEW fresh \in Unused, Unused \ {fresh} \subseteq Unused',
           Live' \subseteq Live, MethodsToCome' \subseteq MethodsToCome,
           \/ Spare >= 1 /\ EntriesToCome' \subseteq EntriesToCome
           \/ Spare >= 2 /\ EntriesToCome' \subseteq EntriesToCome \cup {fresh}
    PROVE  Enough'
<1>1. /\ Cardinality(Unused) \in Nat /\ Cardinality(Unused') \in Nat
      /\ Cardinality(Unused) - 1 <= Cardinality(Unused')
  <2>1. Unused \subseteq Unused' \cup {fresh}
    OBVIOUS
  <2>2. /\ Cardinality(Unused) \in Nat /\ Cardinality(Unused') \in Nat
        /\ Cardinality(Unused) <= Cardinality(Unused') + 1
    BY <2>1, FiniteRooms, OneMore
  <2> QED BY <2>2
<1>2. /\ Cardinality(Live) \in Nat /\ Cardinality(Live') \in Nat
      /\ Cardinality(Live') <= Cardinality(Live)
  BY FiniteRooms, Fewer
<1>3. /\ Cardinality(MethodsToCome) \in Nat /\ Cardinality(MethodsToCome') \in Nat
      /\ Cardinality(MethodsToCome') <= Cardinality(MethodsToCome)
  BY FiniteRooms, Fewer
<1>4. /\ Cardinality(EntriesToCome) \in Nat /\ Cardinality(EntriesToCome') \in Nat
      /\ \/ Spare >= 1 /\ Cardinality(EntriesToCome') <= Cardinality(EntriesToCome)
         \/ Spare >= 2 /\ Cardinality(EntriesToCome') <= Cardinality(EntriesToCome) + 1
  <2>1. CASE Spare >= 1 /\ EntriesToCome' \subseteq EntriesToCome
    BY <2>1, FiniteRooms, Fewer
  <2>2. CASE Spare >= 2 /\ EntriesToCome' \subseteq EntriesToCome \cup {fresh}
    BY <2>2, FiniteRooms, OneMore
  <2> QED BY <2>1, <2>2
<1> QED BY <1>1, <1>2, <1>3, <1>4, EntriesSpared DEF Enough

\* An object is created that leaves room for its destruction.
LEMMA EnoughBorn ==
    ASSUME RoomInv, Unused \subseteq Unused', Spare >= 2, NEW o,
           Live' \subseteq Live \cup {o}, MethodsToCome' \subseteq MethodsToCome \cup {o},
           EntriesToCome' \subseteq EntriesToCome
    PROVE  Enough'
<1>1. /\ Cardinality(Unused) \in Nat /\ Cardinality(Unused') \in Nat
      /\ Cardinality(Unused) <= Cardinality(Unused')
  BY FiniteRooms, Fewer
<1>2. /\ Cardinality(Live) \in Nat /\ Cardinality(Live') \in Nat
      /\ Cardinality(Live') <= Cardinality(Live) + 1
  BY FiniteRooms, OneMore
<1>3. /\ Cardinality(MethodsToCome) \in Nat /\ Cardinality(MethodsToCome') \in Nat
      /\ Cardinality(MethodsToCome') <= Cardinality(MethodsToCome) + 1
  BY FiniteRooms, OneMore
<1>4. /\ Cardinality(EntriesToCome) \in Nat /\ Cardinality(EntriesToCome') \in Nat
      /\ Cardinality(EntriesToCome') <= Cardinality(EntriesToCome)
  BY FiniteRooms, Fewer
<1> QED BY <1>1, <1>2, <1>3, <1>4, EntriesSpared DEF Enough

\* Sets of frames after a step in which frames keep their place
Placed(h) == \/ Rests(h)
             \/ Alike(h) /\ frame[h].pos \in Nat /\ frame'[h].pos = frame[h].pos + 1

LEMMA FramesPlaced ==
    ASSUME NEW fs, \A h \in Frame \ fs : Placed(h)
    PROVE  /\ \A h \in Frame \ fs : h \in Unused <=> h \in Unused'
           /\ \A h \in Frame \ fs : h \in EntriesToCome' => h \in EntriesToCome
<1>1. \A h \in Frame \ fs : frame'[h].kind = frame[h].kind
  BY DEF Placed, Rests, Alike
<1>2. \A h \in Frame \ fs : h \in Unused <=> h \in Unused'
  BY <1>1 DEF Unused
<1>3. ASSUME NEW h \in Frame \ fs, h \in EntriesToCome' PROVE h \in EntriesToCome
  <2>1. frame'[h].kind = "entry" /\ frame'[h].pos = 0
    BY <1>3 DEF EntriesToCome
  <2>2. frame[h].pos = 0
    BY <2>1 DEF Placed, Rests
  <2> QED BY <1>1, <2>1, <2>2 DEF EntriesToCome
<1> QED BY <1>2, <1>3

\* A step that takes no frame and creates no object
LEMMA RoomKept ==
    ASSUME RoomInv, \A h \in Frame : Placed(h) /\ Kept(h)',
           \A o \in Object : status'[o] = "live" => status[o] = "live",
           \A o \in Object : status'[o] = "pending" => status[o] \in {"live", "pending"}
    PROVE  RoomInv'
<1>1. /\ \A h \in Frame : h \in Unused <=> h \in Unused'
      /\ \A h \in Frame : h \in EntriesToCome' => h \in EntriesToCome
  <2>1. \A h \in Frame \ {} : Placed(h)
    OBVIOUS
  <2> QED BY <2>1, FramesPlaced
<1>2. Unused \subseteq Unused' /\ EntriesToCome' \subseteq EntriesToCome
  BY <1>1, RoomSubsets
<1>3. Live' \subseteq Live /\ MethodsToCome' \subseteq MethodsToCome
  BY InterpreterAssumption DEF Live, MethodsToCome
<1> QED BY <1>2, <1>3, EnoughKept, RoomNext

-----------------------------------------------------------------------------
(* The owners of objects *)

ObjectAt(o) ==
    /\ \A f, g \in Frame : InFrame(f, o) /\ InFrame(g, o) => f = g
    /\ \A p, q \in Object : InObject(p, o) /\ InObject(q, o) => p = q
    /\ SomeFrame(o) => o \notin hostHolds /\ ~SomeObject(o) /\ ~InAgenda(o)
    /\ SomeObject(o) => o \notin hostHolds /\ ~InAgenda(o)
    /\ InAgenda(o) => o \notin hostHolds
    /\ status[o] = "live" <=>
          SomeFrame(o) \/ SomeObject(o) \/ InAgenda(o) \/ o \in hostHolds
    /\ status[o] \in {"unborn", "dead"} => field[o] = NoObject

LEMMA ObjectParts == ObjectInv <=> \A o \in Object : ObjectAt(o)
BY DEF ObjectInv, ObjectAt

LEMMA ObjectNext == ObjectInv' <=> \A o \in Object : ObjectAt(o)'
BY DEF ObjectInv, ObjectAt

\* What the owners of an object are not
OnlyFrame(f, o) == /\ \A g \in Frame : InFrame(g, o) => f = g
                   /\ o \notin hostHolds /\ ~SomeObject(o) /\ ~InAgenda(o)
OnlyObject(p, o) == /\ \A q \in Object : InObject(q, o) => p = q
                    /\ o \notin hostHolds /\ ~SomeFrame(o) /\ ~InAgenda(o)
OnlyAgenda(o) == o \notin hostHolds /\ ~SomeFrame(o) /\ ~SomeObject(o)
OnlyHost(o) == ~InAgenda(o) /\ ~SomeFrame(o) /\ ~SomeObject(o)
Nobody(o) == OnlyAgenda(o) /\ OnlyHost(o)

LEMMA Owners ==
    ASSUME ObjectInv, NEW o \in Object
    PROVE  /\ \A f \in Frame : InFrame(f, o) => OnlyFrame(f, o) /\ status[o] = "live"
           /\ \A p \in Object : InObject(p, o) => OnlyObject(p, o) /\ status[o] = "live"
           /\ InAgenda(o) => OnlyAgenda(o) /\ status[o] = "live"
           /\ o \in hostHolds => OnlyHost(o) /\ status[o] = "live"
           /\ status[o] # "live" => Nobody(o)
           /\ status[o] \in {"unborn", "dead"} => field[o] = NoObject
<1>1. ObjectAt(o)
  BY ObjectParts
<1> QED
  BY <1>1 DEF ObjectAt, OnlyFrame, OnlyObject, OnlyAgenda, OnlyHost, Nobody, SomeFrame, SomeObject

LEMMA OwnersNext ==
    ASSUME NEW o \in Object,
           \/ /\ status'[o] = "live"
              /\ \/ \E f \in Frame : InFrame(f, o)' /\ OnlyFrame(f, o)'
                 \/ \E p \in Object : InObject(p, o)' /\ OnlyObject(p, o)'
                 \/ InAgenda(o)' /\ OnlyAgenda(o)'
                 \/ o \in hostHolds' /\ OnlyHost(o)'
           \/ status'[o] # "live" /\ Nobody(o)',
           status'[o] \in {"unborn", "dead"} => field'[o] = NoObject
    PROVE  ObjectAt(o)'
BY DEF ObjectAt, OnlyFrame, OnlyObject, OnlyAgenda, OnlyHost, Nobody, SomeFrame, SomeObject

\* An object stays where it is.
Settled(o) ==
    /\ \A f \in Frame : InFrame(f, o)' <=> InFrame(f, o)
    /\ \A p \in Object : InObject(p, o)' <=> InObject(p, o)
    /\ InAgenda(o)' <=> InAgenda(o)
    /\ o \in hostHolds' <=> o \in hostHolds
    /\ status'[o] = "live" <=> status[o] = "live"

LEMMA OwnerStays ==
    ASSUME ObjectInv, NEW o \in Object, Settled(o),
           status'[o] \in {"unborn", "dead"} => field'[o] = NoObject
    PROVE  ObjectAt(o)'
<1>1. ObjectAt(o)
  BY ObjectParts
<1>2. (SomeFrame(o)' <=> SomeFrame(o)) /\ (SomeObject(o)' <=> SomeObject(o))
  BY DEF Settled, SomeFrame, SomeObject
<1> QED BY <1>1, <1>2 DEF ObjectAt, Settled

\* A step that moves no object
LEMMA ObjectsStay ==
    ASSUME ObjectInv, \A o \in Object : Settled(o),
           \A o \in Object : status'[o] \in {"unborn", "dead"} => field'[o] = NoObject
    PROVE  ObjectInv'
BY OwnerStays, ObjectNext

-----------------------------------------------------------------------------
(* The destructions to come *)

LEMMA DestroyKept ==
    ASSUME DestroyInv, \A h \in Frame : Placed(h),
           \A h \in Frame : frame[h].kind = "destroy" => Rests(h) \/ frame[h].pos # 0,
           \A o \in Object : status'[o] = "pending" <=> status[o] = "pending"
    PROVE  DestroyInv'
<1>1. \A h \in Frame : frame'[h].kind = frame[h].kind /\ frame'[h].value = frame[h].value
  BY DEF Placed, Rests, Alike
<1>2. ASSUME NEW d \in Frame, NEW o \in Object PROVE Coming(d, o)' <=> Coming(d, o)
  <2>1. CASE frame[d].kind # "destroy"
    BY <1>1, <2>1 DEF Coming
  <2>2. CASE Rests(d)
    BY <1>1, <2>2 DEF Coming, Rests
  <2>3. CASE frame[d].pos # 0 /\ ~Rests(d)
    <3>1. frame'[d].pos # 0
      BY <2>3 DEF Placed
    <3> QED BY <2>3, <3>1 DEF Coming
  <2> QED BY <2>1, <2>2, <2>3
<1> QED BY <1>1, <1>2 DEF DestroyInv

\* A frame is made, and it is for a destruction or not.
LEMMA DestroyMade ==
    ASSUME DestroyInv, NEW fresh, NEW kind \in {"code", "entry", "destroy"},
           NEW back, NEW value, NEW holds, Made(fresh, kind, back, value, holds),
           \A h \in Frame \ {fresh} : Placed(h),
           \A h \in Frame \ {fresh} :
              frame[h].kind = "destroy" => Rests(h) \/ frame[h].pos # 0,
           kind = "destroy" => value \in Object /\ status[value] # "pending",
           \A o \in Object : status'[o] = "pending" <=>
              status[o] = "pending" \/ (kind = "destroy" /\ o = value)
    PROVE  DestroyInv'
<1>1. \A h \in Frame \ {fresh} :
         frame'[h].kind = frame[h].kind /\ frame'[h].value = frame[h].value
  BY DEF Placed, Rests, Alike
<1>2. /\ fresh \in Frame /\ frame[fresh].kind = "none" /\ frame'[fresh].kind = kind
      /\ frame'[fresh].value = value /\ frame'[fresh].pos = 0
  BY DEF Made
<1>3. ASSUME NEW d \in Frame \ {fresh}, NEW o \in Object PROVE Coming(d, o)' <=> Coming(d, o)
  <2>1. CASE frame[d].kind # "destroy"
    BY <1>1, <2>1 DEF Coming
  <2>2. CASE Rests(d)
    BY <1>1, <2>2 DEF Coming, Rests
  <2>3. CASE frame[d].pos # 0 /\ ~Rests(d)
    <3>1. frame'[d].pos # 0
      BY <2>3 DEF Placed
    <3> QED BY <2>3, <3>1 DEF Coming
  <2> QED BY <2>1, <2>2, <2>3
<1>4. \A o : ~Coming(fresh, o) /\ (Coming(fresh, o)' <=> kind = "destroy" /\ o = value)
  BY <1>2 DEF Coming
<1>5. \A d \in Frame : frame'[d].kind = "destroy" => frame'[d].value \in Object
  BY <1>1, <1>2 DEF DestroyInv
<1>6. ASSUME NEW o \in Object
      PROVE  /\ status'[o] = "pending" <=> \E d \in Frame : Coming(d, o)'
             /\ \A d, e \in Frame : Coming(d, o)' /\ Coming(e, o)' => d = e
  <2>1. /\ status[o] = "pending" <=> \E d \in Frame : Coming(d, o)
        /\ \A d, e \in Frame : Coming(d, o) /\ Coming(e, o) => d = e
    BY DEF DestroyInv
  <2>2. \A d \in Frame : Coming(d, o)' <=>
                            Coming(d, o) \/ (d = fresh /\ kind = "destroy" /\ o = value)
    BY <1>3, <1>4
  <2> QED BY <1>2, <2>1, <2>2
<1> QED BY <1>5, <1>6 DEF DestroyInv

-----------------------------------------------------------------------------
(* Every action keeps the invariant *)

LEMMA KeepsPlace ==
    ASSUME TypeOK, RoomInv, NEW h \in Frame, NEW more \in {0, 1}, Keeps(h, more),
           more = 1 => frame[h].kind # "none"
    PROVE  /\ Placed(h) /\ Alike(h) /\ Rests(h) /\ Kept(h)'
           /\ \A o : InFrame(h, o)' <=> InFrame(h, o)
<1>1. Rests(h) /\ Alike(h) /\ Placed(h)
  BY DEF Keeps, Rests, Placed
<1>2. /\ frame'[h].kind = frame[h].kind /\ frame'[h].holds = frame[h].holds
      /\ frame'[h].rc = frame[h].rc + more /\ frame[h].rc \in Nat
  BY <1>1, Typed DEF Keeps, Alike
<1>3. Kept(h)'
  <2>1. CASE frame[h].kind = "none"
    BY <1>2, <2>1, LiveFrames DEF Kept
  <2>2. CASE frame[h].kind # "none"
    <3>1. frame[h].rc > 0
      BY <2>2, LiveFrames
    <3> QED BY <1>2, <2>2, <3>1 DEF Kept
  <2> QED BY <2>1, <2>2
<1> QED BY <1>1, <1>2, <1>3 DEF InFrame

LEMMA StepsPlace ==
    ASSUME TypeOK, NEW h \in Frame, NEW more \in {1, 2}, NEW hs, Steps(h, hs, more),
           frame[h].kind # "none"
    PROVE  /\ Placed(h) /\ Alike(h) /\ Kept(h)'
           /\ \A o : InFrame(h, o)' <=> o \in hs
<1>1. frame[h].rc \in Nat /\ frame[h].pos \in Nat
  BY Typed
<1>2. Alike(h) /\ Placed(h)
  BY <1>1 DEF Steps, Placed
<1>3. Kept(h)'
  BY <1>1 DEF Steps, Alike, Kept
<1> QED BY <1>2, <1>3 DEF Steps, InFrame

LEMMA MadePlace ==
    ASSUME NEW f, NEW kind, NEW back, NEW value, NEW holds, kind # "none",
           Made(f, kind, back, value, holds)
    PROVE  /\ f \in Frame /\ f \in Unused /\ Kept(f)'
           /\ \A o : ~InFrame(f, o)
           /\ \A o : InFrame(f, o)' <=> o \in holds
<1>1. /\ f \in Frame /\ f \in Unused
  BY DEF Made, Unused
<1>2. Kept(f)'
  BY DEF Made, Kept
<1> QED BY <1>1, <1>2 DEF Made, InFrame

\* What every eval does to the loop
LEMMA EvalLoop ==
    ASSUME IInv, NEW kind, Evaluating(kind), at' = "reread", host' = host, cur' = cur
    PROVE  LoopInv' /\ at' \in {"out", "eval", "reread"}
<1>1. host \in {"calling", "stopping"}
  BY Evaluated DEF IInv
<1> QED BY <1>1 DEF LoopInv

\* An operation in the body of a code frame
LEMMA BodyGoes ==
    ASSUME IInv, Evaluating("code"), NEW c \in Frame, c = cur, frame[c].pos < Body \/ (frame[c].pos = Body /\ frame[c].back # NoFrame), NEW hs, NEW more,
           Steps(c, hs, more)
    PROVE  Going(c)'
<1>1. frame[c].kind = "code" /\ frame[c].pos \in Nat /\ Body \in Nat
  BY Evaluated, Typed, InterpreterAssumption DEF IInv
<1>2. /\ frame'[c].kind = "code" /\ frame'[c].back = frame[c].back
      /\ frame'[c].pos = frame[c].pos + 1
  BY <1>1 DEF Steps, Alike
<1> QED BY <1>1, <1>2 DEF Going, HasNext, Length

LEMMA NewStep ==
    ASSUME IInv, EvalNew
    PROVE  IInv'
<1>1. /\ Evaluating("code") /\ frame[cur].pos < Body /\ Spare >= 2 /\ Frames
      /\ agenda' = <<Unref(cur)>> /\ at' = "reread"
  BY NewDoes
<1>2. PICK c \in Frame : c = cur /\ cont = c /\ Root = c /\ frame[c].kind = "code"
                             /\ agenda = <<>>
  BY <1>1, Evaluated DEF IInv
<1>3. PICK o \in Object, own \in frame[c].holds \cup {NoObject} :
         /\ status[o] = "unborn"
         /\ status' = [status EXCEPT ![o] = "live"]
         /\ field' = [field EXCEPT ![o] = own]
         /\ Steps(c, (frame[c].holds \ {own}) \cup {o}, 1)
         /\ \A h \in Frame \ {c} : Keeps(h, 0)
  BY <1>2, NewDoes
<1>4. cont' = cont /\ hostHolds' = hostHolds /\ cur' = cur /\ host' = host
  BY DEF EvalNew
<1>5. PICK x \in Op : x = Unref(c) /\ x.op = "unref" /\ x.frame = c
  BY <1>2, Operations
<1>6. agenda' = <<x>>
  BY <1>1, <1>2, <1>5
<1>7. /\ agenda' \in Seq(Op) /\ Len(agenda') = 1 /\ AgendaInv' /\ Root' = cont'
      /\ \A y : ~InAgenda(y)'
  BY <1>5, <1>6, OpsOne
<1>8. /\ \A h \in Frame : Placed(h) /\ Alike(h) /\ Kept(h)'
      /\ \A h \in Frame \ {c} : Rests(h) /\ \A y : InFrame(h, y)' <=> InFrame(h, y)
      /\ \A y : InFrame(c, y)' <=> y \in (frame[c].holds \ {own}) \cup {o}
  BY <1>2, <1>3, KeepsPlace, StepsPlace DEF IInv
<1>9. own \in Object \cup {NoObject} /\ frame[c].holds \subseteq Object
  BY Typed DEF IInv
<1>10. TypeOK'
  <2>1. /\ status' \in [Object -> {"unborn", "live", "pending", "dead"}]
        /\ field' \in [Object -> Object \cup {NoObject}]
    BY <1>3, <1>9 DEF IInv, TypeOK
  <2> QED BY <1>1, <1>4, <1>7, <2>1 DEF IInv, TypeOK, Frames
<1>11. FrameCountsExact'
  <2>1. \A h \in Frame \ {cur} : Alike(h)
            /\ frame'[h].rc = frame[h].rc + (IF h = NoFrame THEN 1 ELSE 0)
    BY <1>2, <1>3, <1>8, InterpreterAssumption DEF Keeps
  <2>2. ASSUME NEW f \in Frame
        PROVE  Mentioned(agenda', f) = (IF cur = f THEN 1 ELSE 0) + (IF f = NoFrame THEN 1 ELSE 0)
    <3>1. Mentioned(<<x>>, f) = IF x.frame = f THEN 1 ELSE 0
      BY MentionedOne
    <3>2. f # NoFrame
      BY InterpreterAssumption
    <3> QED BY <1>2, <1>5, <1>6, <3>1, <3>2
  <2>3. NoFrame # cur /\ Steps(cur, (frame[cur].holds \ {own}) \cup {o}, 1)
    BY <1>2, <1>3, InterpreterAssumption
  <2> QED BY <1>1, <1>4, <2>1, <2>2, <2>3, EvalCounts
<1>12. LoopInv'
  BY <1>1, <1>4, EvalLoop
<1>13. RoomInv'
  <2>1. Unused \subseteq Unused' /\ EntriesToCome' \subseteq EntriesToCome
    <3>1. \A h \in Frame \ {} : Placed(h)
      BY <1>8
    <3> QED BY <3>1, FramesPlaced, RoomSubsets
  <2>2. Live' \subseteq Live \cup {o} /\ MethodsToCome' \subseteq MethodsToCome \cup {o}
    BY <1>3, InterpreterAssumption DEF Live, MethodsToCome, IInv, TypeOK
  <2>3. Enough'
    BY <1>1, <2>1, <2>2, EnoughBorn DEF IInv
  <2> QED BY <1>8, <2>3, RoomNext
<1>14. ChainInv'
  <2>1. PICK n \in 0 .. Cardinality(Frame) : \E s \in [1 .. n -> Frame] : Chain(n, s)
    BY DEF IInv, ChainInv
  <2>2. PICK s \in [1 .. n -> Frame] : Chain(n, s)
    BY <2>1
  <2>3. \A h \in Frame : Rests(h) \/ (h = Root /\ Alike(h) /\ Going(h)')
    BY <1>1, <1>2, <1>3, <1>8, BodyGoes
  <2>4. Harmless(n, s)' /\ n \in Nat
    BY <1>7, FrameSets DEF Harmless
  <2>5. Chain(n, s)'
    BY <1>2, <1>4, <1>7, <2>2, <2>3, <2>4, ChainStays DEF IInv, Stopping
  <2> QED BY <2>5 DEF ChainInv
<1>15. ObjectInv'
  <2> SUFFICES ASSUME NEW y \in Object PROVE ObjectAt(y)'
    BY ObjectNext
  <2>1. own # o /\ field[o] = NoObject /\ Nobody(o)
    <3>1. own \in frame[c].holds => status[own] = "live"
      <4>1. own \in frame[c].holds => InFrame(c, own)
        BY DEF InFrame
      <4> QED BY <1>9, <4>1, Owners DEF IInv
    <3> QED BY <1>3, <3>1, Owners, InterpreterAssumption DEF IInv
  <2>2. \A p \in Object : InObject(p, y)' <=> (IF p = o THEN own = y ELSE InObject(p, y))
    BY <1>3, <1>9 DEF InObject, IInv, TypeOK
  <2>3. status'[y] = IF y = o THEN "live" ELSE status[y]
    BY <1>3 DEF IInv, TypeOK
  <2>4. status'[y] \in {"unborn", "dead"} => field'[y] = NoObject
    BY <1>3, <2>3, Owners DEF IInv, TypeOK
  <2>5. CASE y = o
    <3>1. InFrame(c, y)' /\ OnlyFrame(c, y)'
      <4>1. ~SomeFrame(y) /\ ~SomeObject(y) /\ y \notin hostHolds
        BY <2>1, <2>5 DEF Nobody, OnlyAgenda, OnlyHost
      <4>2. \A g \in Frame : InFrame(g, y)' => c = g
        BY <1>8, <4>1 DEF SomeFrame
      <4>3. ~SomeObject(y)'
        BY <2>1, <2>2, <2>5, <4>1 DEF SomeObject
      <4> QED BY <1>4, <1>7, <1>8, <2>5, <4>1, <4>2, <4>3 DEF OnlyFrame
    <3> QED BY <2>3, <2>4, <2>5, <3>1, OwnersNext
  <2>6. CASE y = own
    <3>1. InFrame(c, y) /\ OnlyFrame(c, y) /\ status[y] = "live"
      <4>1. InFrame(c, y)
        BY <2>6, InterpreterAssumption DEF InFrame
      <4> QED BY <4>1, Owners DEF IInv
    <3>2. InObject(o, y)' /\ OnlyObject(o, y)'
      <4>1. \A q \in Object : InObject(q, y)' => o = q
        BY <2>2, <3>1 DEF OnlyFrame, SomeObject
      <4>2. ~SomeFrame(y)'
        BY <1>8, <2>1, <2>6, <3>1 DEF SomeFrame, OnlyFrame
      <4> QED BY <1>4, <1>7, <2>2, <2>6, <3>1, <4>1, <4>2 DEF OnlyObject, OnlyFrame
    <3> QED BY <2>1, <2>3, <2>4, <2>6, <3>1, <3>2, OwnersNext
  <2>7. CASE y # o /\ y # own
    <3>1. \A f \in Frame : InFrame(f, y)' <=> InFrame(f, y)
      <4>1. InFrame(c, y)' <=> InFrame(c, y)
        BY <1>8, <2>7 DEF InFrame
      <4> QED BY <1>8, <4>1
    <3>2. \A p \in Object : InObject(p, y)' <=> InObject(p, y)
      BY <2>1, <2>2, <2>7, InterpreterAssumption DEF InObject
    <3>3. ~InAgenda(y)
      BY <1>2 DEF InAgenda
    <3>4. Settled(y)
      BY <1>4, <1>7, <2>3, <2>7, <3>1, <3>2, <3>3 DEF Settled
    <3> QED BY <2>4, <3>4, OwnerStays DEF IInv
  <2> QED BY <2>5, <2>6, <2>7
<1>16. DestroyInv'
  <2>1. \A y \in Object : status'[y] = "pending" <=> status[y] = "pending"
    BY <1>3 DEF IInv, TypeOK
  <2>2. \A h \in Frame : frame[h].kind = "destroy" => Rests(h)
    BY <1>2, <1>8
  <2> QED BY <1>8, <2>1, <2>2, DestroyKept DEF IInv
<1> QED BY <1>7, <1>10, <1>11, <1>12, <1>13, <1>14, <1>15, <1>16 DEF IInv

\* The value of a register is released when the eval is over, or none is.
LEMMA OverwriteStep ==
    ASSUME IInv, EvalOverwrite
    PROVE  IInv'
<1>1. /\ Evaluating("code") /\ frame[cur].pos < Body /\ Frames /\ at' = "reread"
      /\ \A h \in Frame \ {cur} : Keeps(h, 0)
  BY OverwriteDoes
<1>2. PICK c \in Frame : c = cur /\ cont = c /\ Root = c /\ frame[c].kind = "code"
                             /\ agenda = <<>>
  BY <1>1, Evaluated DEF IInv
<1>3. PICK x \in Op : x = Unref(c) /\ x.op = "unref" /\ x.frame = c
  BY <1>2, Operations
<1>4. frame[c].holds \subseteq Object
  BY Typed DEF IInv
<1>5. PICK gone \in SUBSET frame[c].holds :
         /\ Steps(c, frame[c].holds \ gone, 1)
         /\ agenda' \in Seq(Op) /\ AgendaInv' /\ Root' = cont'
         /\ Len(agenda') > 1 => agenda'[1].op = "release"
         /\ \A y : InAgenda(y)' <=> y \in gone
         /\ \A f \in Frame : Mentioned(agenda', f) = IF c = f THEN 1 ELSE 0
  <2>1. CASE Steps(cur, frame[cur].holds, 1) /\ agenda' = <<Unref(cur)>>
    <3>1. agenda' = <<x>>
      BY <1>2, <1>3, <2>1
    <3>2. /\ agenda' \in Seq(Op) /\ AgendaInv' /\ Root' = cont' /\ Len(agenda') = 1
          /\ \A y : ~InAgenda(y)'
      BY <1>3, <3>1, OpsOne
    <3>3. \A f \in Frame : Mentioned(agenda', f) = IF c = f THEN 1 ELSE 0
      BY <1>3, <3>1, MentionedOne
    <3>4. Steps(c, frame[c].holds \ {}, 1)
      <4>1. frame[c].holds \ {} = frame[c].holds
        OBVIOUS
      <4> QED BY <1>2, <2>1, <4>1
    <3>5. PICK none \in SUBSET frame[c].holds : none = {}
      OBVIOUS
    <3>6. Steps(c, frame[c].holds \ none, 1) /\ \A y : y \notin none
      BY <3>4, <3>5
    <3>7. \A y : InAgenda(y)' <=> y \in none
      BY <3>2, <3>6
    <3>8. Len(agenda') > 1 => agenda'[1].op = "release"
      BY <3>2
    <3> QED BY <3>2, <3>3, <3>5, <3>6, <3>7, <3>8
  <2>2. CASE \E o \in frame[cur].holds :
                    /\ Steps(cur, frame[cur].holds \ {o}, 1)
                    /\ agenda' = <<ReleaseOp(o), Unref(cur)>>
    <3>1. PICK o \in frame[c].holds :
                    /\ Steps(c, frame[c].holds \ {o}, 1)
                    /\ agenda' = <<ReleaseOp(o), Unref(c)>>
      BY <1>2, <2>2
    <3>2. PICK r \in Op : r = ReleaseOp(o) /\ r.op = "release" /\ r.obj = o /\ r.frame = NoFrame
      BY <1>4, Operations
    <3>3. agenda' = <<r, x>>
      BY <1>3, <3>1, <3>2
    <3>4. /\ agenda' \in Seq(Op) /\ AgendaInv' /\ Root' = cont' /\ agenda'[1] = r
          /\ \A y : InAgenda(y)' <=> r.op = "release" /\ r.obj = y
      BY <1>3, <3>2, <3>3, OpsTwo
    <3>5. ASSUME NEW f \in Frame
          PROVE  Mentioned(agenda', f) = IF c = f THEN 1 ELSE 0
      <4>1. Mentioned(<<r, x>>, f) = (IF r.frame = f THEN 1 ELSE 0) + (IF x.frame = f THEN 1 ELSE 0)
        BY MentionedTwo
      <4>2. NoFrame # f
        BY InterpreterAssumption
      <4> QED BY <1>3, <3>2, <3>3, <4>1, <4>2
    <3>6. {o} \in SUBSET frame[c].holds /\ \A y : y \in {o} <=> o = y
      OBVIOUS
    <3> QED BY <3>1, <3>2, <3>4, <3>5, <3>6
  <2> QED BY <2>1, <2>2, OverwriteDoes
<1>6. /\ cont' = cont /\ hostHolds' = hostHolds /\ cur' = cur /\ host' = host
      /\ status' = status /\ field' = field
  BY DEF EvalOverwrite
<1>7. /\ \A h \in Frame : Placed(h) /\ Alike(h) /\ Kept(h)'
      /\ \A h \in Frame \ {c} : Rests(h) /\ \A y : InFrame(h, y)' <=> InFrame(h, y)
      /\ \A y : InFrame(c, y)' <=> y \in frame[c].holds \ gone
  BY <1>1, <1>2, <1>5, KeepsPlace, StepsPlace DEF IInv
<1>8. TypeOK'
  BY <1>1, <1>5, <1>6 DEF IInv, TypeOK, Frames
<1>9. FrameCountsExact'
  <2>1. \A h \in Frame \ {cur} : Alike(h)
            /\ frame'[h].rc = frame[h].rc + (IF h = NoFrame THEN 1 ELSE 0)
    BY <1>1, <1>7, InterpreterAssumption DEF Keeps
  <2>2. \A f \in Frame : Mentioned(agenda', f)
                            = (IF cur = f THEN 1 ELSE 0) + (IF f = NoFrame THEN 1 ELSE 0)
    BY <1>2, <1>5, InterpreterAssumption
  <2>3. NoFrame # cur /\ Steps(cur, frame[cur].holds \ gone, 1)
    BY <1>2, <1>5, InterpreterAssumption
  <2> QED BY <1>1, <1>6, <2>1, <2>2, <2>3, EvalCounts
<1>10. LoopInv'
  BY <1>1, <1>6, EvalLoop
<1>11. RoomInv'
  BY <1>6, <1>7, RoomKept DEF IInv
<1>12. ChainInv'
  <2>1. PICK n \in 0 .. Cardinality(Frame) : \E s \in [1 .. n -> Frame] : Chain(n, s)
    BY DEF IInv, ChainInv
  <2>2. PICK s \in [1 .. n -> Frame] : Chain(n, s)
    BY <2>1
  <2>3. \A h \in Frame : Rests(h) \/ (h = Root /\ Alike(h) /\ Going(h)')
    BY <1>1, <1>2, <1>5, <1>7, BodyGoes
  <2>4. Harmless(n, s)' /\ n \in Nat
    BY <1>5, FrameSets DEF Harmless
  <2>5. Chain(n, s)'
    BY <1>2, <1>5, <1>6, <2>2, <2>3, <2>4, ChainStays DEF IInv, Stopping
  <2> QED BY <2>5 DEF ChainInv
<1>13. ObjectInv'
  <2> SUFFICES ASSUME NEW y \in Object PROVE ObjectAt(y)'
    BY ObjectNext
  <2>1. \A p \in Object : InObject(p, y)' <=> InObject(p, y)
    BY <1>6 DEF InObject
  <2>2. status'[y] \in {"unborn", "dead"} => field'[y] = NoObject
    BY <1>6, Owners DEF IInv
  <2>3. CASE y \in gone
    <3>1. OnlyFrame(c, y) /\ status[y] = "live"
      <4>1. InFrame(c, y)
        BY <2>3 DEF InFrame
      <4> QED BY <4>1, Owners DEF IInv
    <3>2. InAgenda(y)' /\ OnlyAgenda(y)'
      <4>1. ~SomeFrame(y)'
        BY <1>7, <2>3, <3>1 DEF SomeFrame, OnlyFrame
      <4>2. ~SomeObject(y)' /\ y \notin hostHolds'
        BY <1>6, <2>1, <3>1 DEF SomeObject, OnlyFrame
      <4> QED BY <1>5, <2>3, <4>1, <4>2 DEF OnlyAgenda
    <3> QED BY <1>6, <2>2, <3>1, <3>2, OwnersNext
  <2>4. CASE y \notin gone
    <3>1. \A f \in Frame : InFrame(f, y)' <=> InFrame(f, y)
      <4>1. InFrame(c, y)' <=> InFrame(c, y)
        BY <1>7, <2>4 DEF InFrame
      <4> QED BY <1>7, <4>1
    <3>2. ~InAgenda(y)
      BY <1>2 DEF InAgenda
    <3>3. Settled(y)
      BY <1>5, <1>6, <2>1, <2>4, <3>1, <3>2 DEF Settled
    <3> QED BY <2>2, <3>3, OwnerStays DEF IInv
  <2> QED BY <2>3, <2>4
<1>14. DestroyInv'
  BY <1>2, <1>6, <1>7, DestroyKept DEF IInv
<1> QED BY <1>5, <1>8, <1>9, <1>10, <1>11, <1>12, <1>13, <1>14 DEF IInv

LEMMA SetrStep ==
    ASSUME IInv, EvalSetr
    PROVE  IInv'
<1>1. /\ Evaluating("code") /\ frame[cur].pos = Body /\ Frames /\ at' = "reread"
      /\ agenda' = <<Unref(cur)>>
  BY SetrDoes
<1>2. PICK c \in Frame, b \in Frame :
         /\ c = cur /\ b = frame[cur].back /\ b # c
         /\ cont = c /\ Root = c /\ frame[c].kind = "code" /\ agenda = <<>>
  BY <1>1, SetrDoes, Evaluated DEF IInv
<1>3. PICK result \in SUBSET frame[c].holds :
         /\ Steps(c, frame[c].holds \ result, 1)
         /\ Rests(b) /\ frame'[b].rc = frame[b].rc
         /\ frame'[b].holds = frame[b].holds \cup result
         /\ \A h \in Frame \ {c, b} : Keeps(h, 0)
  BY <1>2, SetrDoes
<1>4. PICK x \in Op : x = Unref(c) /\ x.op = "unref" /\ x.frame = c
  BY <1>2, Operations
<1>5. agenda' = <<x>>
  BY <1>1, <1>2, <1>4
<1>6. /\ agenda' \in Seq(Op) /\ Len(agenda') = 1 /\ AgendaInv' /\ Root' = cont'
      /\ \A y : ~InAgenda(y)'
  BY <1>4, <1>5, OpsOne
<1>7. /\ cont' = cont /\ hostHolds' = hostHolds /\ cur' = cur /\ host' = host
      /\ status' = status /\ field' = field
  BY DEF EvalSetr
<1>8. frame[b].kind # "none"
  <2>1. c \in Backs(frame[c].back) => Backs(b) # {}
    BY <1>2
  <2>2. c \in Backs(frame[c].back)
    BY <1>2 DEF Backs
  <2> QED BY <2>1, <2>2, Referred DEF IInv
<1>9. /\ \A h \in Frame : Placed(h) /\ Alike(h) /\ Kept(h)'
      /\ \A h \in Frame \ {c} : Rests(h)
      /\ \A h \in Frame \ {c, b} : \A y : InFrame(h, y)' <=> InFrame(h, y)
      /\ \A y : InFrame(c, y)' <=> y \in frame[c].holds \ result
      /\ \A y : InFrame(b, y)' <=> y \in frame[b].holds \cup result
  <2>1. \A h \in Frame \ {c, b} : Placed(h) /\ Alike(h) /\ Rests(h) /\ Kept(h)'
                                    /\ \A y : InFrame(h, y)' <=> InFrame(h, y)
    BY <1>3, KeepsPlace DEF IInv
  <2>2. /\ Placed(c) /\ Alike(c) /\ Kept(c)'
        /\ \A y : InFrame(c, y)' <=> y \in frame[c].holds \ result
    BY <1>2, <1>3, StepsPlace DEF IInv
  <2>3. Placed(b) /\ Alike(b) /\ Kept(b)'
    <3>1. frame[b].rc > 0
      BY <1>8, LiveFrames DEF IInv
    <3> QED BY <1>3, <1>8, <3>1 DEF Placed, Rests, Alike, Kept
  <2>4. \A y : InFrame(b, y)' <=> y \in frame[b].holds \cup result
    BY <1>3 DEF InFrame
  <2> QED BY <1>3, <2>1, <2>2, <2>3, <2>4
<1>10. TypeOK'
  BY <1>1, <1>6, <1>7 DEF IInv, TypeOK, Frames
<1>11. FrameCountsExact'
  <2>1. \A h \in Frame \ {cur} : Alike(h)
            /\ frame'[h].rc = frame[h].rc + (IF h = NoFrame THEN 1 ELSE 0)
    <3>1. \A h \in Frame : frame[h].rc \in Nat /\ h # NoFrame
      BY Typed, InterpreterAssumption DEF IInv
    <3> QED BY <1>2, <1>3, <1>9, <3>1 DEF Keeps
  <2>2. ASSUME NEW f \in Frame
        PROVE  Mentioned(agenda', f) = (IF cur = f THEN 1 ELSE 0) + (IF f = NoFrame THEN 1 ELSE 0)
    <3>1. Mentioned(<<x>>, f) = IF x.frame = f THEN 1 ELSE 0
      BY MentionedOne
    <3>2. f # NoFrame
      BY InterpreterAssumption
    <3> QED BY <1>2, <1>4, <1>5, <3>1, <3>2
  <2>3. NoFrame # cur /\ Steps(cur, frame[cur].holds \ result, 1)
    BY <1>2, <1>3, InterpreterAssumption
  <2> QED BY <1>1, <1>7, <2>1, <2>2, <2>3, EvalCounts
<1>12. LoopInv'
  BY <1>1, <1>7, EvalLoop
<1>13. RoomInv'
  BY <1>7, <1>9, RoomKept DEF IInv
<1>14. ChainInv'
  <2>1. PICK n \in 0 .. Cardinality(Frame) : \E s \in [1 .. n -> Frame] : Chain(n, s)
    BY DEF IInv, ChainInv
  <2>2. PICK s \in [1 .. n -> Frame] : Chain(n, s)
    BY <2>1
  <2>3. \A h \in Frame : Rests(h) \/ (h = Root /\ Alike(h) /\ Going(h)')
    <3>1. frame[c].pos = Body /\ frame[c].back # NoFrame
      BY <1>1, <1>2, InterpreterAssumption
    <3>2. Going(c)'
      BY <1>1, <1>2, <1>3, <3>1, BodyGoes
    <3> QED BY <1>2, <1>9, <3>2
  <2>4. Harmless(n, s)' /\ n \in Nat
    BY <1>6, FrameSets DEF Harmless
  <2>5. Chain(n, s)'
    BY <1>2, <1>6, <1>7, <2>2, <2>3, <2>4, ChainStays DEF IInv, Stopping
  <2> QED BY <2>5 DEF ChainInv
<1>15. ObjectInv'
  <2> SUFFICES ASSUME NEW y \in Object PROVE ObjectAt(y)'
    BY ObjectNext
  <2>1. \A p \in Object : InObject(p, y)' <=> InObject(p, y)
    BY <1>7 DEF InObject
  <2>2. status'[y] \in {"unborn", "dead"} => field'[y] = NoObject
    BY <1>7, Owners DEF IInv
  <2>3. CASE y \in result
    <3>1. OnlyFrame(c, y) /\ status[y] = "live"
      <4>1. InFrame(c, y)
        BY <2>3 DEF InFrame
      <4> QED BY <4>1, Owners DEF IInv
    <3>2. InFrame(b, y)' /\ OnlyFrame(b, y)'
      <4>1. \A g \in Frame : InFrame(g, y)' => b = g
        BY <1>9, <2>3, <3>1 DEF OnlyFrame
      <4>2. ~SomeObject(y)' /\ y \notin hostHolds'
        BY <1>7, <2>1, <3>1 DEF SomeObject, OnlyFrame
      <4> QED BY <1>6, <1>9, <2>3, <4>1, <4>2 DEF OnlyFrame
    <3> QED BY <1>7, <2>2, <3>1, <3>2, OwnersNext
  <2>4. CASE y \notin result
    <3>1. \A f \in Frame : InFrame(f, y)' <=> InFrame(f, y)
      <4>1. (InFrame(c, y)' <=> InFrame(c, y)) /\ (InFrame(b, y)' <=> InFrame(b, y))
        BY <1>9, <2>4 DEF InFrame
      <4> QED BY <1>9, <4>1
    <3>2. ~InAgenda(y)
      BY <1>2 DEF InAgenda
    <3>3. Settled(y)
      BY <1>6, <1>7, <2>1, <3>1, <3>2 DEF Settled
    <3> QED BY <2>2, <3>3, OwnerStays DEF IInv
  <2> QED BY <2>3, <2>4
<1>16. DestroyInv'
  BY <1>2, <1>7, <1>9, DestroyKept DEF IInv
<1> QED BY <1>6, <1>10, <1>11, <1>12, <1>13, <1>14, <1>15, <1>16 DEF IInv

LEMMA OpsGoto ==
    ASSUME agenda' \in Seq(Op), agenda' # <<>>, agenda'[1].op = "goto"
    PROVE  Doing("goto")'
<1>1. Head(agenda') = agenda'[1]
  OBVIOUS
<1> QED BY <1>1 DEF Doing

\* What an eval that goes to a new frame leaves to the C stack
LEMMA OpsGoing ==
    ASSUME NEW c \in Frame, NEW f \in Frame, agenda' = <<GotoOp(f), Unref(c)>>
    PROVE  /\ agenda' \in Seq(Op) /\ AgendaInv' /\ Root' = f /\ Len(agenda') = 2
           /\ agenda'[1].op = "goto" /\ agenda'[2].frame = c /\ Doing("goto")'
           /\ \A y : ~InAgenda(y)'
           /\ \A h \in Frame : Mentioned(agenda', h) = (IF c = h THEN 1 ELSE 0)
                                                         + (IF h = f THEN 1 ELSE 0)
<1>1. PICK x \in Op : x = Unref(c) /\ x.op = "unref" /\ x.frame = c
  BY Operations
<1>2. PICK g \in Op : g = GotoOp(f) /\ g.op = "goto" /\ g.frame = f
  BY Operations
<1>3. agenda' = <<g, x>>
  BY <1>1, <1>2
<1>4. /\ agenda' \in Seq(Op) /\ agenda' # <<>> /\ Len(agenda') = 2 /\ AgendaInv'
      /\ Root' = f /\ agenda'[1] = g /\ agenda'[2] = x /\ \A y : ~InAgenda(y)'
  BY <1>1, <1>2, <1>3, OpsTwo
<1>5. Doing("goto")'
  BY <1>2, <1>4, OpsGoto
<1>6. ASSUME NEW h \in Frame
      PROVE  Mentioned(agenda', h) = (IF c = h THEN 1 ELSE 0) + (IF h = f THEN 1 ELSE 0)
  <2>1. Mentioned(<<g, x>>, h) = (IF g.frame = h THEN 1 ELSE 0) + (IF x.frame = h THEN 1 ELSE 0)
    BY MentionedTwo
  <2> QED BY <1>1, <1>2, <1>3, <2>1
<1> QED BY <1>1, <1>2, <1>4, <1>5, <1>6

LEMMA CallStep ==
    ASSUME IInv, EvalCall
    PROVE  IInv'
<1>1. /\ Evaluating("code") /\ frame[cur].pos < Body /\ Frames /\ at' = "reread"
      /\ Fresh # cur /\ Fresh \in Frame
  <2>1. /\ Evaluating("code") /\ frame[cur].pos < Body /\ Frames /\ at' = "reread"
        /\ Fresh # cur
    BY CallDoes
  <2>2. Fresh \in Frame
    BY CallDoes DEF Made
  <2> QED BY <2>1, <2>2
<1>2. PICK c \in Frame : c = cur /\ cont = c /\ Root = c /\ frame[c].kind = "code"
                             /\ agenda = <<>>
  BY <1>1, Evaluated DEF IInv
<1>3. PICK f \in Frame \ {c} : f = Fresh
  BY <1>1, <1>2
<1>a. PICK kind \in {"code", "entry"}, given \in SUBSET frame[c].holds :
         \E old \in SUBSET (frame[c].holds \ given) :
         /\ Spare >= (IF kind = "code" THEN 1 ELSE 2)
         /\ Made(f, kind, c, NoObject, given)
         /\ Steps(c, (frame[c].holds \ given) \ old, 2)
         /\ \A h \in Frame \ {c, f} : Keeps(h, 0)
         /\ \/ old = {} /\ agenda' = <<GotoOp(f), Unref(c)>>
            \/ \E o \in old : old = {o} /\ agenda' = <<GotoOp(f), ReleaseOp(o), Unref(c)>>
  BY <1>2, <1>3, CallDoes
<1>4. PICK old \in SUBSET (frame[c].holds \ given) :
         /\ Spare >= (IF kind = "code" THEN 1 ELSE 2)
         /\ Made(f, kind, c, NoObject, given)
         /\ Steps(c, (frame[c].holds \ given) \ old, 2)
         /\ \A h \in Frame \ {c, f} : Keeps(h, 0)
         /\ \/ old = {} /\ agenda' = <<GotoOp(f), Unref(c)>>
            \/ \E o \in old : old = {o} /\ agenda' = <<GotoOp(f), ReleaseOp(o), Unref(c)>>
  BY <1>a
<1>5. frame[c].holds \subseteq Object
  BY Typed DEF IInv
<1>6. /\ agenda' \in Seq(Op) /\ AgendaInv' /\ Root' = f
      /\ agenda'[1].op = "goto" /\ Doing("goto")'
      /\ \A y : InAgenda(y)' <=> y \in old
      /\ \A h \in Frame : Mentioned(agenda', h) = (IF c = h THEN 1 ELSE 0)
                                                    + (IF h = f THEN 1 ELSE 0)
  <2>1. CASE old = {} /\ agenda' = <<GotoOp(f), Unref(c)>>
    BY <2>1, OpsGoing
  <2>2. CASE \E o \in old : old = {o} /\ agenda' = <<GotoOp(f), ReleaseOp(o), Unref(c)>>
    <3>1. PICK o \in old : old = {o} /\ agenda' = <<GotoOp(f), ReleaseOp(o), Unref(c)>>
      BY <2>2
    <3>2. PICK x \in Op : x = Unref(c) /\ x.op = "unref" /\ x.frame = c
      BY Operations
    <3>3. PICK g \in Op : g = GotoOp(f) /\ g.op = "goto" /\ g.frame = f
      BY Operations
    <3>4. PICK r \in Op : r = ReleaseOp(o) /\ r.op = "release" /\ r.obj = o /\ r.frame = NoFrame
      BY <1>5, Operations
    <3>5. agenda' = <<g, r, x>>
      BY <3>1, <3>2, <3>3, <3>4
    <3>6. /\ agenda' \in Seq(Op) /\ agenda' # <<>> /\ AgendaInv' /\ Root' = f /\ agenda'[1] = g
          /\ \A y : InAgenda(y)' <=> r.obj = y
      BY <3>2, <3>3, <3>4, <3>5, OpsThree
    <3>7. \A y : InAgenda(y)' <=> y \in old
      BY <3>1, <3>4, <3>6
    <3>8. Doing("goto")'
      BY <3>3, <3>6, OpsGoto
    <3>9. ASSUME NEW h \in Frame
          PROVE  Mentioned(agenda', h) = (IF c = h THEN 1 ELSE 0) + (IF h = f THEN 1 ELSE 0)
      <4>1. Mentioned(<<g, r, x>>, h)
               = (IF g.frame = h THEN 1 ELSE 0) + (IF r.frame = h THEN 1 ELSE 0)
                    + (IF x.frame = h THEN 1 ELSE 0)
        BY MentionedThree
      <4>2. NoFrame # h
        BY InterpreterAssumption
      <4> QED BY <3>2, <3>3, <3>4, <3>5, <4>1, <4>2
    <3> QED BY <3>3, <3>6, <3>7, <3>8, <3>9
  <2> QED BY <1>4, <2>1, <2>2
<1>7. /\ cont' = cont /\ hostHolds' = hostHolds /\ cur' = cur /\ host' = host
      /\ status' = status /\ field' = field
  BY DEF EvalCall
<1>8. /\ \A h \in Frame \ {f} : Placed(h) /\ Alike(h)
      /\ \A h \in Frame : Kept(h)'
      /\ \A h \in Frame \ {c, f} : Rests(h) /\ \A y : InFrame(h, y)' <=> InFrame(h, y)
      /\ \A y : InFrame(c, y)' <=> y \in (frame[c].holds \ given) \ old
      /\ \A y : ~InFrame(f, y) /\ (InFrame(f, y)' <=> y \in given)
      /\ f \in Unused
  <2>1. \A h \in Frame \ {c, f} : Placed(h) /\ Alike(h) /\ Rests(h) /\ Kept(h)'
                                    /\ \A y : InFrame(h, y)' <=> InFrame(h, y)
    BY <1>4, KeepsPlace DEF IInv
  <2>2. /\ Placed(c) /\ Alike(c) /\ Kept(c)'
        /\ \A y : InFrame(c, y)' <=> y \in (frame[c].holds \ given) \ old
    BY <1>2, <1>4, StepsPlace DEF IInv
  <2>3. /\ Kept(f)' /\ f \in Unused
        /\ \A y : ~InFrame(f, y) /\ (InFrame(f, y)' <=> y \in given)
    BY <1>4, MadePlace
  <2> QED BY <2>1, <2>2, <2>3
<1>9. TypeOK'
  BY <1>1, <1>6, <1>7 DEF IInv, TypeOK, Frames
<1>10. FrameCountsExact'
  <2>1. /\ f # cur /\ c # f /\ Made(f, kind, c, NoObject, given) /\ kind # "none"
        /\ Alike(cur) /\ frame'[cur].rc = frame[cur].rc + (IF c = cur THEN 2 ELSE 1)
    BY <1>2, <1>3, <1>4 DEF Steps
  <2>2. \A h \in Frame \ {cur, f} :
           Alike(h) /\ frame'[h].rc = frame[h].rc + (IF h = c THEN 1 ELSE 0)
    BY <1>2, <1>4 DEF Keeps, Rests
  <2>3. \A h \in Frame : Mentioned(agenda', h) = (IF cur = h THEN 1 ELSE 0)
                                                    + (IF h = f THEN 1 ELSE 0)
    BY <1>2, <1>6
  <2>4. Evaluating("code") /\ cont' = cont
    BY <1>1, <1>7
  <2> QED BY <2>1, <2>2, <2>3, <2>4, MakeCounts
<1>11. LoopInv'
  BY <1>1, <1>7, EvalLoop
<1>12. RoomInv'
  <2>1. /\ Unused \ {f} \subseteq Unused' /\ EntriesToCome' \subseteq EntriesToCome \cup {f}
        /\ kind = "code" => EntriesToCome' \subseteq EntriesToCome
    <3>1. /\ \A h \in Frame \ {f} : h \in Unused <=> h \in Unused'
          /\ \A h \in Frame \ {f} : h \in EntriesToCome' => h \in EntriesToCome
      BY <1>8, FramesPlaced
    <3>2. kind = "code" => f \notin EntriesToCome'
      BY <1>4 DEF Made, EntriesToCome
    <3> QED BY <3>1, <3>2, RoomSubsets
  <2>2. Live' = Live /\ MethodsToCome' = MethodsToCome
    BY <1>7 DEF Live, MethodsToCome
  <2>3. \/ Spare >= 1 /\ EntriesToCome' \subseteq EntriesToCome
        \/ Spare >= 2 /\ EntriesToCome' \subseteq EntriesToCome \cup {f}
    BY <1>4, <2>1
  <2>4. Enough'
    BY <1>8, <2>1, <2>2, <2>3, EnoughCalled DEF IInv
  <2> QED BY <1>8, <2>4, RoomNext
<1>13. ChainInv'
  <2>1. PICK n \in 0 .. Cardinality(Frame) : \E s \in [1 .. n -> Frame] : Chain(n, s)
    BY DEF IInv, ChainInv
  <2>2. PICK s \in [1 .. n -> Frame] : Chain(n, s)
    BY <2>1
  <2>3. n \in Nat /\ n >= 1
    BY <1>1, <2>2, LastOfChain
  <2>4. \A h \in Frame \ {f} : Rests(h) \/ (h = Root /\ Alike(h) /\ Going(h)')
    <3>1. Going(c)'
      BY <1>1, <1>2, <1>4, BodyGoes
    <3> QED BY <1>2, <1>8, <3>1
  <2>5. Made(f, kind, Root, NoObject, given) /\ Root = cont
    BY <1>2, <1>4
  <2>6. Stopping' => Stopping /\ (n = 0 => kind = "destroy")
    BY <1>7, <2>3 DEF Stopping
  <2>7. (kind = "entry" => n > 0) /\ kind \in {"code", "entry", "destroy"}
    BY <2>3
  <2> QED BY <1>6, <1>7, <2>2, <2>3, <2>4, <2>5, <2>6, <2>7, ChainPush
<1>14. ObjectInv'
  <2> SUFFICES ASSUME NEW y \in Object PROVE ObjectAt(y)'
    BY ObjectNext
  <2>1. \A p \in Object : InObject(p, y)' <=> InObject(p, y)
    BY <1>7 DEF InObject
  <2>2. status'[y] \in {"unborn", "dead"} => field'[y] = NoObject
    BY <1>7, Owners DEF IInv
  <2>3. y \in given \cup old => OnlyFrame(c, y) /\ status[y] = "live" /\ InFrame(c, y)
    <3>1. y \in given \cup old => InFrame(c, y)
      BY DEF InFrame
    <3> QED BY <3>1, Owners DEF IInv
  <2>4. CASE y \in given
    <3>1. InFrame(f, y)' /\ OnlyFrame(f, y)'
      <4>1. \A g \in Frame : InFrame(g, y)' => f = g
        BY <1>8, <2>3, <2>4 DEF OnlyFrame
      <4>2. ~SomeObject(y)' /\ y \notin hostHolds' /\ ~InAgenda(y)'
        BY <1>6, <1>7, <2>1, <2>3, <2>4 DEF SomeObject, OnlyFrame
      <4> QED BY <1>8, <2>4, <4>1, <4>2 DEF OnlyFrame
    <3> QED BY <1>7, <2>2, <2>3, <2>4, <3>1, OwnersNext
  <2>5. CASE y \in old
    <3>1. InAgenda(y)' /\ OnlyAgenda(y)'
      <4>1. ~SomeFrame(y)'
        BY <1>8, <2>3, <2>5 DEF SomeFrame, OnlyFrame
      <4>2. ~SomeObject(y)' /\ y \notin hostHolds'
        BY <1>7, <2>1, <2>3, <2>5 DEF SomeObject, OnlyFrame
      <4> QED BY <1>6, <2>5, <4>1, <4>2 DEF OnlyAgenda
    <3> QED BY <1>7, <2>2, <2>3, <2>5, <3>1, OwnersNext
  <2>6. CASE y \notin given \cup old
    <3>1. \A g \in Frame : InFrame(g, y)' <=> InFrame(g, y)
      <4>1. InFrame(c, y)' <=> InFrame(c, y)
        BY <1>8, <2>6 DEF InFrame
      <4>2. InFrame(f, y)' <=> InFrame(f, y)
        BY <1>8, <2>6
      <4> QED BY <1>8, <4>1, <4>2
    <3>2. ~InAgenda(y)
      BY <1>2 DEF InAgenda
    <3>3. Settled(y)
      BY <1>6, <1>7, <2>1, <2>6, <3>1, <3>2 DEF Settled
    <3> QED BY <2>2, <3>3, OwnerStays DEF IInv
  <2> QED BY <2>4, <2>5, <2>6
<1>15. DestroyInv'
  <2>1. \A h \in Frame \ {f} : frame[h].kind = "destroy" => Rests(h) \/ frame[h].pos # 0
    BY <1>2, <1>8
  <2>2. /\ kind \in {"code", "entry", "destroy"} /\ kind # "destroy"
        /\ \A o \in Object : status'[o] = "pending" <=>
              status[o] = "pending" \/ (kind = "destroy" /\ o = NoObject)
    BY <1>7
  <2> QED BY <1>4, <1>8, <2>1, <2>2, DestroyMade DEF IInv
<1> QED BY <1>6, <1>9, <1>10, <1>11, <1>12, <1>13, <1>14, <1>15 DEF IInv

\* A destruction is performed.
LEMMA DestroyDone ==
    ASSUME DestroyInv, NEW c \in Frame, NEW o \in Object, Coming(c, o),
           \A h \in Frame : frame'[h].kind = "destroy" =>
              frame[h].kind = "destroy" /\ frame'[h].value = frame[h].value,
           \A h \in Frame \ {c} : \A y \in Object : Coming(h, y)' <=> Coming(h, y),
           \A y \in Object : ~Coming(c, y)',
           \A y \in Object : status'[y] = "pending" <=> status[y] = "pending" /\ y # o
    PROVE  DestroyInv'
<1>1. \A h \in Frame : frame'[h].kind = "destroy" => frame'[h].value \in Object
  BY DEF DestroyInv
<1>2. ASSUME NEW y \in Object
      PROVE  /\ status'[y] = "pending" <=> \E d \in Frame : Coming(d, y)'
             /\ \A d, e \in Frame : Coming(d, y)' /\ Coming(e, y)' => d = e
  <2>1. /\ status[y] = "pending" <=> \E d \in Frame : Coming(d, y)
        /\ \A d, e \in Frame : Coming(d, y) /\ Coming(e, y) => d = e
    BY DEF DestroyInv
  <2>2. \A d \in Frame : Coming(d, y)' <=> d # c /\ Coming(d, y)
    OBVIOUS
  <2>3. Coming(c, y) <=> y = o
    BY DEF Coming
  <2> QED BY <2>1, <2>2, <2>3
<1> QED BY <1>1, <1>2 DEF DestroyInv

\* The destruction that is to come, and what it does to its frame
LEMMA ComingNow ==
    ASSUME IInv, NEW c \in Frame, frame[c].kind = "destroy", frame[c].pos = 0
    PROVE  /\ frame[c].value \in Object /\ Coming(c, frame[c].value)
           /\ status[frame[c].value] = "pending"
<1>1. frame[c].value \in Object /\ Coming(c, frame[c].value)
  BY DEF IInv, DestroyInv, Coming
<1> QED BY <1>1 DEF IInv, DestroyInv

LEMMA DestroyMethodStep ==
    ASSUME IInv, EvalDestroyMethod
    PROVE  IInv'
<1>1. /\ Evaluating("destroy") /\ frame[cur].pos = 0 /\ Frames /\ at' = "reread"
      /\ Fresh # cur /\ Fresh \in Frame
  <2>1. /\ Evaluating("destroy") /\ frame[cur].pos = 0 /\ Frames /\ at' = "reread"
        /\ Fresh # cur
    BY DestroyMethodDoes
  <2>2. Fresh \in Frame
    BY DestroyMethodDoes DEF Made
  <2> QED BY <2>1, <2>2
<1>2. PICK c \in Frame : c = cur /\ cont = c /\ Root = c /\ frame[c].kind = "destroy"
                             /\ frame[c].pos = 0 /\ agenda = <<>>
  BY <1>1, Evaluated DEF IInv
<1>3. PICK f \in Frame \ {c} : f = Fresh
  BY <1>1, <1>2
<1>4. PICK o \in Object, given \in SUBSET Object :
         /\ o = frame[c].value /\ o \in ByMethod
         /\ status' = [status EXCEPT ![o] = "dead"]
         /\ field' = [field EXCEPT ![o] = NoObject]
         /\ given = {field[o]} \ {NoObject}
         /\ Made(f, "code", c, NoObject, given)
         /\ Steps(c, frame[c].holds, 2)
         /\ \A h \in Frame \ {c, f} : Keeps(h, 0)
         /\ agenda' = <<GotoOp(f), Unref(c)>>
  <2>1. PICK o \in Object : o = frame[c].value
    BY <1>2, DestroyMethodDoes
  <2>2. {field[o]} \ {NoObject} \in SUBSET Object
    BY DEF IInv, TypeOK
  <2> QED BY <1>2, <1>3, <2>1, <2>2, DestroyMethodDoes
<1>5. Coming(c, o) /\ status[o] = "pending"
  BY <1>2, <1>4, ComingNow
<1>6. /\ agenda' \in Seq(Op) /\ AgendaInv' /\ Root' = f
      /\ agenda'[1].op = "goto" /\ Doing("goto")'
      /\ \A y : ~InAgenda(y)'
      /\ \A h \in Frame : Mentioned(agenda', h) = (IF c = h THEN 1 ELSE 0)
                                                    + (IF h = f THEN 1 ELSE 0)
  BY <1>4, OpsGoing
<1>7. /\ cont' = cont /\ hostHolds' = hostHolds /\ cur' = cur /\ host' = host
  BY DEF EvalDestroyMethod
<1>8. /\ \A h \in Frame \ {f} : Placed(h) /\ Alike(h)
      /\ \A h \in Frame : Kept(h)'
      /\ \A h \in Frame \ {c, f} : Rests(h)
      /\ \A h \in Frame \ {f} : \A y : InFrame(h, y)' <=> InFrame(h, y)
      /\ \A y : ~InFrame(f, y) /\ (InFrame(f, y)' <=> y \in given)
      /\ f \in Unused
  <2>1. \A h \in Frame \ {c, f} : Placed(h) /\ Alike(h) /\ Rests(h) /\ Kept(h)'
                                    /\ \A y : InFrame(h, y)' <=> InFrame(h, y)
    BY <1>4, KeepsPlace DEF IInv
  <2>2. Placed(c) /\ Alike(c) /\ Kept(c)' /\ \A y : InFrame(c, y)' <=> InFrame(c, y)
    <3>1. /\ Placed(c) /\ Alike(c) /\ Kept(c)'
          /\ \A y : InFrame(c, y)' <=> y \in frame[c].holds
      BY <1>2, <1>4, StepsPlace DEF IInv
    <3> QED BY <3>1 DEF InFrame
  <2>3. /\ Kept(f)' /\ f \in Unused
        /\ \A y : ~InFrame(f, y) /\ (InFrame(f, y)' <=> y \in given)
    BY <1>4, MadePlace
  <2> QED BY <2>1, <2>2, <2>3
<1>9. TypeOK'
  <2>1. /\ status' \in [Object -> {"unborn", "live", "pending", "dead"}]
        /\ field' \in [Object -> Object \cup {NoObject}]
    BY <1>4 DEF IInv, TypeOK
  <2> QED BY <1>1, <1>6, <1>7, <2>1 DEF IInv, TypeOK, Frames
<1>10. FrameCountsExact'
  <2>1. /\ f # cur /\ c # f /\ Made(f, "code", c, NoObject, given) /\ "code" # "none"
        /\ Alike(cur) /\ frame'[cur].rc = frame[cur].rc + (IF c = cur THEN 2 ELSE 1)
    BY <1>2, <1>3, <1>4 DEF Steps
  <2>2. \A h \in Frame \ {cur, f} :
           Alike(h) /\ frame'[h].rc = frame[h].rc + (IF h = c THEN 1 ELSE 0)
    BY <1>2, <1>4 DEF Keeps, Rests
  <2>3. \A h \in Frame : Mentioned(agenda', h) = (IF cur = h THEN 1 ELSE 0)
                                                    + (IF h = f THEN 1 ELSE 0)
    BY <1>2, <1>6
  <2>4. Evaluating("destroy") /\ cont' = cont
    BY <1>1, <1>7
  <2> QED BY <2>1, <2>2, <2>3, <2>4, MakeCounts
<1>11. LoopInv'
  BY <1>1, <1>7, EvalLoop
<1>12. /\ \A y \in Object : status'[y] = IF y = o THEN "dead" ELSE status[y]
       /\ \A y \in Object : field'[y] = IF y = o THEN NoObject ELSE field[y]
  BY <1>4 DEF IInv, TypeOK
<1>13. RoomInv'
  <2>1. Unused \ {f} \subseteq Unused' /\ EntriesToCome' \subseteq EntriesToCome
    <3>1. /\ \A h \in Frame \ {f} : h \in Unused <=> h \in Unused'
          /\ \A h \in Frame \ {f} : h \in EntriesToCome' => h \in EntriesToCome
      BY <1>8, FramesPlaced
    <3>2. f \notin EntriesToCome'
      BY <1>4 DEF Made, EntriesToCome
    <3> QED BY <3>1, <3>2, RoomSubsets
  <2>2. /\ Live' \subseteq Live /\ o \in MethodsToCome
        /\ MethodsToCome' \subseteq MethodsToCome \ {o}
    BY <1>4, <1>5, <1>12, InterpreterAssumption DEF Live, MethodsToCome
  <2>3. Enough'
    BY <1>8, <2>1, <2>2, EnoughTaken DEF IInv
  <2> QED BY <1>8, <2>3, RoomNext
<1>14. ChainInv'
  <2>1. PICK n \in 0 .. Cardinality(Frame) : \E s \in [1 .. n -> Frame] : Chain(n, s)
    BY DEF IInv, ChainInv
  <2>2. PICK s \in [1 .. n -> Frame] : Chain(n, s)
    BY <2>1
  <2>3. n \in Nat /\ n >= 1
    BY <1>1, <2>2, LastOfChain
  <2>4. \A h \in Frame \ {f} : Rests(h) \/ (h = Root /\ Alike(h) /\ Going(h)')
    <3>1. frame'[c].kind = "destroy" /\ frame'[c].pos = 1
      BY <1>2, <1>4 DEF Steps, Alike
    <3>2. Going(c)'
      BY <3>1 DEF Going, HasNext, Length
    <3> QED BY <1>2, <1>8, <3>2
  <2>5. Made(f, "code", Root, NoObject, given) /\ Root = cont
    BY <1>2, <1>4
  <2>6. Stopping' => Stopping /\ (n = 0 => "code" = "destroy")
    BY <1>7, <2>3 DEF Stopping
  <2>7. ("code" = "entry" => n > 0) /\ "code" \in {"code", "entry", "destroy"}
    BY <2>3
  <2> QED BY <1>6, <1>7, <2>2, <2>3, <2>4, <2>5, <2>6, <2>7, ChainPush
<1>15. ObjectInv'
  <2> SUFFICES ASSUME NEW y \in Object PROVE ObjectAt(y)'
    BY ObjectNext
  <2>1. \A p \in Object : InObject(p, y)' <=> InObject(p, y) /\ p # o
    BY <1>12, InterpreterAssumption DEF InObject
  <2>2. status'[y] \in {"unborn", "dead"} => field'[y] = NoObject
    BY <1>12, Owners DEF IInv
  <2>3. y \in given <=> InObject(o, y)
    BY <1>4, InterpreterAssumption DEF InObject
  <2>4. ~InAgenda(y)
    BY <1>2 DEF InAgenda
  <2>5. CASE y \in given
    <3>1. OnlyObject(o, y) /\ status[y] = "live" /\ y # o
      BY <1>5, <2>3, <2>5, Owners DEF IInv
    <3>2. InFrame(f, y)' /\ OnlyFrame(f, y)'
      <4>1. \A g \in Frame : InFrame(g, y)' => f = g
        BY <1>8, <3>1 DEF OnlyObject, SomeFrame
      <4>2. ~SomeObject(y)' /\ y \notin hostHolds' /\ ~InAgenda(y)'
        BY <1>6, <1>7, <2>1, <3>1 DEF SomeObject, OnlyObject
      <4> QED BY <1>8, <2>5, <4>1, <4>2 DEF OnlyFrame
    <3> QED BY <1>12, <2>2, <3>1, <3>2, OwnersNext
  <2>6. CASE y = o
    <3>1. Nobody(y) /\ status'[y] # "live" /\ y \notin given
      BY <1>5, <1>12, <2>3, <2>6, Owners DEF IInv, Nobody, OnlyHost, SomeObject
    <3>2. Nobody(y)'
      <4>1. ~SomeFrame(y)'
        BY <1>8, <3>1 DEF SomeFrame, Nobody, OnlyHost
      <4>2. ~SomeObject(y)'
        BY <2>1, <3>1 DEF SomeObject, Nobody, OnlyHost
      <4> QED BY <1>6, <1>7, <3>1, <4>1, <4>2 DEF Nobody, OnlyHost, OnlyAgenda
    <3> QED BY <2>2, <3>1, <3>2, OwnersNext
  <2>7. CASE y \notin given /\ y # o
    <3>1. \A g \in Frame : InFrame(g, y)' <=> InFrame(g, y)
      BY <1>8, <2>7
    <3>2. \A p \in Object : InObject(p, y)' <=> InObject(p, y)
      BY <2>1, <2>3, <2>7
    <3>3. Settled(y)
      BY <1>6, <1>7, <1>12, <2>4, <2>7, <3>1, <3>2 DEF Settled
    <3> QED BY <2>2, <3>3, OwnerStays DEF IInv
  <2> QED BY <2>5, <2>6, <2>7
<1>16. DestroyInv'
  <2>1. \A h \in Frame : frame'[h].kind = "destroy" =>
              frame[h].kind = "destroy" /\ frame'[h].value = frame[h].value
    BY <1>4, <1>8 DEF Alike, Made
  <2>2. \A h \in Frame \ {c} : \A y \in Object : Coming(h, y)' <=> Coming(h, y)
    <3>1. \A y : ~Coming(f, y) /\ ~Coming(f, y)'
      BY <1>4 DEF Coming, Made
    <3>2. \A h \in Frame \ {c, f} : \A y : Coming(h, y)' <=> Coming(h, y)
      BY <1>8 DEF Coming, Rests, Alike
    <3> QED BY <3>1, <3>2
  <2>3. \A y : ~Coming(c, y)'
    BY <1>2, <1>4 DEF Coming, Steps
  <2>4. \A y \in Object : status'[y] = "pending" <=> status[y] = "pending" /\ y # o
    BY <1>12
  <2> QED BY <1>5, <2>1, <2>2, <2>3, <2>4, DestroyDone DEF IInv
<1> QED BY <1>6, <1>9, <1>10, <1>11, <1>13, <1>14, <1>15, <1>16 DEF IInv

\* The frames but two or one that an eval leaves alone, and what it retains
LEMMA BackPlace ==
    ASSUME IInv, NEW c \in Frame, frame[c].kind # "none", NEW h \in Frame,
           Keeps(h, IF h = frame[c].back THEN 1 ELSE 0)
    PROVE  /\ Placed(h) /\ Alike(h) /\ Rests(h) /\ Kept(h)'
           /\ \A o : InFrame(h, o)' <=> InFrame(h, o)
<1>1. CASE h = frame[c].back
  <2>1. c \in Backs(h)
    BY <1>1 DEF Backs
  <2>2. frame[h].kind # "none" /\ Keeps(h, 1)
    <3>1. Backs(h) # {}
      BY <2>1
    <3> QED BY <1>1, <3>1, Referred DEF IInv
  <2> QED BY <2>2, KeepsPlace DEF IInv
<1>2. CASE h # frame[c].back
  <2>1. Keeps(h, 0)
    BY <1>2
  <2> QED BY <2>1, KeepsPlace DEF IInv
<1> QED BY <1>1, <1>2

LEMMA EnterStep ==
    ASSUME IInv, EvalEnter
    PROVE  IInv'
<1>1. /\ Evaluating("entry") /\ frame[cur].pos = 0 /\ Frames /\ at' = "reread"
      /\ Fresh # cur /\ frame[cur].back # cur /\ Fresh \in Frame
  <2>1. /\ Evaluating("entry") /\ frame[cur].pos = 0 /\ Frames /\ at' = "reread"
        /\ Fresh # cur /\ frame[cur].back # cur
    BY EnterDoes
  <2>2. Fresh \in Frame
    BY EnterDoes DEF Made
  <2> QED BY <2>1, <2>2
<1>2. PICK c \in Frame, b \in Frame \cup {NoFrame} :
         /\ c = cur /\ cont = c /\ Root = c /\ b = frame[c].back /\ b # c
         /\ frame[c].kind = "entry" /\ frame[c].pos = 0 /\ agenda = <<>>
  <2>1. cur \in Frame
    BY <1>1, Evaluated DEF IInv
  <2>2. frame[cur].back \in Frame \cup {NoFrame}
    BY <2>1, Typed DEF IInv
  <2> QED BY <1>1, <2>1, <2>2, Evaluated DEF IInv
<1>3. PICK f \in Frame \ {c} : f = Fresh
  BY <1>1, <1>2
<1>4. PICK given \in SUBSET frame[c].holds :
         /\ Made(f, "code", b, NoObject, given)
         /\ Steps(c, frame[c].holds \ given, 1)
  BY <1>2, <1>3, EnterDoes
<1>5. /\ \A h \in Frame \ {c, f} : Keeps(h, IF h = frame[c].back THEN 1 ELSE 0)
      /\ agenda' = <<GotoOp(f), Unref(c)>>
  BY <1>2, <1>3, EnterDoes
<1>6. /\ agenda' \in Seq(Op) /\ AgendaInv' /\ Root' = f /\ Len(agenda') = 2
      /\ agenda'[1].op = "goto" /\ agenda'[2].frame = c /\ Doing("goto")'
      /\ \A y : ~InAgenda(y)'
      /\ \A h \in Frame : Mentioned(agenda', h) = (IF c = h THEN 1 ELSE 0)
                                                    + (IF h = f THEN 1 ELSE 0)
  BY <1>5, OpsGoing
<1>7. /\ cont' = cont /\ hostHolds' = hostHolds /\ cur' = cur /\ host' = host
      /\ status' = status /\ field' = field
  BY DEF EvalEnter
<1>8. /\ \A h \in Frame \ {f} : Placed(h) /\ Alike(h)
      /\ \A h \in Frame : Kept(h)'
      /\ \A h \in Frame \ {c, f} : Rests(h) /\ \A y : InFrame(h, y)' <=> InFrame(h, y)
      /\ \A y : InFrame(c, y)' <=> y \in frame[c].holds \ given
      /\ \A y : ~InFrame(f, y) /\ (InFrame(f, y)' <=> y \in given)
      /\ f \in Unused
  <2>1. \A h \in Frame \ {c, f} : Placed(h) /\ Alike(h) /\ Rests(h) /\ Kept(h)'
                                    /\ \A y : InFrame(h, y)' <=> InFrame(h, y)
    BY <1>2, <1>5, BackPlace
  <2>2. /\ Placed(c) /\ Alike(c) /\ Kept(c)'
        /\ \A y : InFrame(c, y)' <=> y \in frame[c].holds \ given
    BY <1>2, <1>4, StepsPlace DEF IInv
  <2>3. /\ Kept(f)' /\ f \in Unused
        /\ \A y : ~InFrame(f, y) /\ (InFrame(f, y)' <=> y \in given)
    BY <1>4, MadePlace
  <2> QED BY <2>1, <2>2, <2>3
<1>9. TypeOK'
  BY <1>1, <1>6, <1>7 DEF IInv, TypeOK, Frames
<1>10. FrameCountsExact'
  <2>1. b # f
    <3>1. b \in Frame => frame[b].kind # "none"
      <4>1. c \in Backs(b)
        BY <1>2 DEF Backs
      <4>2. Backs(b) # {}
        BY <4>1
      <4> QED BY <4>2, Referred DEF IInv
    <3> QED BY <1>4, <3>1, InterpreterAssumption DEF Made
  <2>2. /\ f # cur /\ b # f /\ Made(f, "code", b, NoObject, given) /\ "code" # "none"
        /\ Alike(cur) /\ frame'[cur].rc = frame[cur].rc + (IF b = cur THEN 2 ELSE 1)
    BY <1>2, <1>3, <1>4, <2>1 DEF Steps
  <2>3. \A h \in Frame \ {cur, f} :
           Alike(h) /\ frame'[h].rc = frame[h].rc + (IF h = b THEN 1 ELSE 0)
    BY <1>2, <1>5 DEF Keeps, Rests
  <2>4. \A h \in Frame : Mentioned(agenda', h) = (IF cur = h THEN 1 ELSE 0)
                                                    + (IF h = f THEN 1 ELSE 0)
    BY <1>2, <1>6
  <2>5. Evaluating("entry") /\ cont' = cont
    BY <1>1, <1>7
  <2> QED BY <2>2, <2>3, <2>4, <2>5, MakeCounts
<1>11. LoopInv'
  BY <1>1, <1>7, EvalLoop
<1>12. RoomInv'
  <2>1. /\ Unused \ {f} \subseteq Unused' /\ c \in EntriesToCome
        /\ EntriesToCome' \subseteq EntriesToCome \ {c}
    <3>1. /\ \A h \in Frame \ {f} : h \in Unused <=> h \in Unused'
          /\ \A h \in Frame \ {f} : h \in EntriesToCome' => h \in EntriesToCome
      BY <1>8, FramesPlaced
    <3>2. f \notin EntriesToCome'
      BY <1>4 DEF Made, EntriesToCome
    <3>3. c \in EntriesToCome /\ c \notin EntriesToCome'
      BY <1>2, <1>4 DEF Steps, EntriesToCome
    <3> QED BY <3>1, <3>2, <3>3, RoomSubsets
  <2>2. Live' = Live /\ MethodsToCome' = MethodsToCome
    BY <1>7 DEF Live, MethodsToCome
  <2>3. Enough'
    BY <1>8, <2>1, <2>2, EnoughTaken DEF IInv
  <2> QED BY <1>8, <2>3, RoomNext
<1>13. ChainInv'
  <2>1. PICK n \in 0 .. Cardinality(Frame) : \E s \in [1 .. n -> Frame] : Chain(n, s)
    BY DEF IInv, ChainInv
  <2>2. PICK s \in [1 .. n -> Frame] : Chain(n, s)
    BY <2>1
  <2>3. /\ f # cur /\ Made(f, "code", frame[cur].back, NoObject, given)
        /\ \A h \in Frame \ {cur, f} : Rests(h)
        /\ Alike(cur) /\ agenda'[2].frame = cur
    BY <1>2, <1>3, <1>4, <1>6, <1>8
  <2>4. ~HasNext(frame'[cur])
    <3>1. frame'[cur].kind = "entry" /\ frame'[cur].pos = 1
      BY <1>2, <1>4 DEF Steps, Alike
    <3> QED BY <3>1 DEF HasNext, Length
  <2>5. Stopping' => Stopping
    BY <1>7 DEF Stopping
  <2> QED BY <1>1, <1>6, <1>7, <2>2, <2>3, <2>4, <2>5, ChainReplace
<1>14. ObjectInv'
  <2> SUFFICES ASSUME NEW y \in Object PROVE ObjectAt(y)'
    BY ObjectNext
  <2>1. \A p \in Object : InObject(p, y)' <=> InObject(p, y)
    BY <1>7 DEF InObject
  <2>2. status'[y] \in {"unborn", "dead"} => field'[y] = NoObject
    BY <1>7, Owners DEF IInv
  <2>3. y \in given => OnlyFrame(c, y) /\ status[y] = "live" /\ InFrame(c, y)
    <3>1. y \in given => InFrame(c, y)
      BY DEF InFrame
    <3> QED BY <3>1, Owners DEF IInv
  <2>4. CASE y \in given
    <3>1. InFrame(f, y)' /\ OnlyFrame(f, y)'
      <4>1. \A g \in Frame : InFrame(g, y)' => f = g
        BY <1>8, <2>3, <2>4 DEF OnlyFrame
      <4>2. ~SomeObject(y)' /\ y \notin hostHolds' /\ ~InAgenda(y)'
        BY <1>6, <1>7, <2>1, <2>3, <2>4 DEF SomeObject, OnlyFrame
      <4> QED BY <1>8, <2>4, <4>1, <4>2 DEF OnlyFrame
    <3> QED BY <1>7, <2>2, <2>3, <2>4, <3>1, OwnersNext
  <2>5. CASE y \notin given
    <3>1. \A g \in Frame : InFrame(g, y)' <=> InFrame(g, y)
      <4>1. InFrame(c, y)' <=> InFrame(c, y)
        BY <1>8, <2>5 DEF InFrame
      <4>2. InFrame(f, y)' <=> InFrame(f, y)
        BY <1>8, <2>5
      <4> QED BY <1>8, <4>1, <4>2
    <3>2. ~InAgenda(y)
      BY <1>2 DEF InAgenda
    <3>3. Settled(y)
      BY <1>6, <1>7, <2>1, <3>1, <3>2 DEF Settled
    <3> QED BY <2>2, <3>3, OwnerStays DEF IInv
  <2> QED BY <2>4, <2>5
<1>15. DestroyInv'
  <2>1. \A h \in Frame \ {f} : frame[h].kind = "destroy" => Rests(h) \/ frame[h].pos # 0
    BY <1>2, <1>8
  <2>2. /\ "code" \in {"code", "entry", "destroy"} /\ "code" # "destroy"
        /\ \A o \in Object : status'[o] = "pending" <=>
              status[o] = "pending" \/ ("code" = "destroy" /\ o = NoObject)
    BY <1>7
  <2> QED BY <1>4, <1>8, <2>1, <2>2, DestroyMade DEF IInv
<1> QED BY <1>6, <1>9, <1>10, <1>11, <1>12, <1>13, <1>14, <1>15 DEF IInv

LEMMA LeaveStep ==
    ASSUME IInv, EvalReturn \/ EvalGotoCurrent
    PROVE  IInv'
<1>1. PICK kind \in {"code", "destroy"} :
         /\ Evaluating(kind)
         /\ frame[cur].pos = IF kind = "code" THEN Body + 1 ELSE 1
  BY LeaveDoes
<1>2. PICK c \in Frame, b \in Frame \cup {NoFrame} :
         /\ c = cur /\ cont = c /\ Root = c /\ b = frame[c].back /\ b # c
         /\ frame[c].kind = kind /\ agenda = <<>> /\ frame[c].pos # 0
  <2>1. cur \in Frame
    BY <1>1, Evaluated DEF IInv
  <2>2. frame[cur].pos # 0
    BY <1>1, InterpreterAssumption
  <2> QED BY <1>1, <2>1, <2>2, LeaveDoes, Evaluated DEF IInv
<1>3. /\ Frames /\ at' = "reread" /\ Steps(c, frame[c].holds, 1)
      /\ \A h \in Frame \ {c} : Keeps(h, IF h = frame[c].back THEN 1 ELSE 0)
      /\ agenda' = <<GotoOp(b), Unref(c)>>
  BY <1>2, LeaveDoes
<1>4. PICK x \in Op : x = Unref(c) /\ x.op = "unref" /\ x.frame = c
  BY Operations
<1>5. PICK g \in Op : g = GotoOp(b) /\ g.op = "goto" /\ g.frame = b
  BY Operations
<1>6. /\ agenda' \in Seq(Op) /\ AgendaInv' /\ Root' = b /\ Len(agenda') = 2
      /\ agenda'[1].op = "goto" /\ agenda'[2].frame = c
      /\ \A y : ~InAgenda(y)'
  <2>1. agenda' = <<g, x>>
    BY <1>3, <1>4, <1>5
  <2> QED BY <1>4, <1>5, <2>1, OpsTwo
<1>7. /\ cont' = cont /\ hostHolds' = hostHolds /\ cur' = cur /\ host' = host
      /\ status' = status /\ field' = field
  BY DEF EvalReturn, EvalGotoCurrent
<1>8. /\ \A h \in Frame : Placed(h) /\ Alike(h) /\ Kept(h)'
      /\ \A h \in Frame \ {c} : Rests(h)
      /\ \A h \in Frame : \A y : InFrame(h, y)' <=> InFrame(h, y)
  <2>1. \A h \in Frame \ {c} : Placed(h) /\ Alike(h) /\ Rests(h) /\ Kept(h)'
                                 /\ \A y : InFrame(h, y)' <=> InFrame(h, y)
    BY <1>2, <1>3, BackPlace
  <2>2. /\ Placed(c) /\ Alike(c) /\ Kept(c)'
        /\ \A y : InFrame(c, y)' <=> y \in frame[c].holds
    BY <1>2, <1>3, StepsPlace DEF IInv
  <2>3. \A y : InFrame(c, y)' <=> InFrame(c, y)
    BY <2>2 DEF InFrame
  <2> QED BY <2>1, <2>2, <2>3
<1>9. TypeOK'
  BY <1>3, <1>6, <1>7 DEF IInv, TypeOK, Frames
<1>10. FrameCountsExact'
  <2>1. \A h \in Frame \ {cur} : Alike(h)
            /\ frame'[h].rc = frame[h].rc + (IF h = b THEN 1 ELSE 0)
    BY <1>2, <1>3 DEF Keeps, Rests
  <2>2. ASSUME NEW h \in Frame
        PROVE  Mentioned(agenda', h) = (IF cur = h THEN 1 ELSE 0) + (IF h = b THEN 1 ELSE 0)
    <3>1. Mentioned(<<g, x>>, h) = (IF g.frame = h THEN 1 ELSE 0) + (IF x.frame = h THEN 1 ELSE 0)
      BY MentionedTwo
    <3> QED BY <1>2, <1>3, <1>4, <1>5, <3>1
  <2>3. b # cur /\ Steps(cur, frame[cur].holds, 1)
    BY <1>2, <1>3
  <2> QED BY <1>1, <1>7, <2>1, <2>2, <2>3, EvalCounts
<1>11. LoopInv'
  BY <1>1, <1>3, <1>7, EvalLoop
<1>12. RoomInv'
  BY <1>7, <1>8, RoomKept DEF IInv
<1>13. ChainInv'
  <2>1. PICK n \in 0 .. Cardinality(Frame) : \E s \in [1 .. n -> Frame] : Chain(n, s)
    BY DEF IInv, ChainInv
  <2>2. PICK s \in [1 .. n -> Frame] : Chain(n, s)
    BY <2>1
  <2>3. ~HasNext(frame'[cur])
    <3>1. frame'[cur].kind = kind
      BY <1>2, <1>3 DEF Steps, Alike
    <3>2. frame'[cur].pos = (IF kind = "code" THEN Body + 2 ELSE 2)
      BY <1>1, <1>2, <1>3, InterpreterAssumption DEF Steps
    <3>3. CASE kind = "code"
      BY <3>1, <3>2, <3>3, InterpreterAssumption DEF HasNext, Length
    <3>4. CASE kind = "destroy"
      BY <3>1, <3>2, <3>4 DEF HasNext, Length
    <3> QED BY <3>3, <3>4
  <2>4. Stopping' => Stopping
    BY <1>7 DEF Stopping
  <2>5. /\ \A h \in Frame \ {cur} : Rests(h)
        /\ Alike(cur) /\ Root' = frame[cur].back /\ agenda'[2].frame = cur
    BY <1>2, <1>6, <1>8
  <2> QED BY <1>1, <1>6, <1>7, <2>2, <2>3, <2>4, <2>5, ChainPop
<1>14. ObjectInv'
  <2>1. \A y \in Object : Settled(y)
    BY <1>2, <1>6, <1>7, <1>8 DEF Settled, InObject, InAgenda
  <2>2. \A y \in Object : status'[y] \in {"unborn", "dead"} => field'[y] = NoObject
    BY <1>7, Owners DEF IInv
  <2> QED BY <2>1, <2>2, ObjectsStay DEF IInv
<1>15. DestroyInv'
  <2>1. \A h \in Frame : frame[h].kind = "destroy" => Rests(h) \/ frame[h].pos # 0
    BY <1>2, <1>8
  <2> QED BY <1>7, <1>8, <2>1, DestroyKept DEF IInv
<1> QED BY <1>6, <1>9, <1>10, <1>11, <1>12, <1>13, <1>14, <1>15 DEF IInv

LEMMA DestroyAllStep ==
    ASSUME IInv, EvalDestroyAll
    PROVE  IInv'
<1>1. /\ Evaluating("destroy") /\ frame[cur].pos = 0 /\ Frames /\ at' = "reread"
  BY DestroyAllDoes
<1>2. PICK c \in Frame : c = cur /\ cont = c /\ Root = c /\ frame[c].kind = "destroy"
                             /\ frame[c].pos = 0 /\ agenda = <<>>
  BY <1>1, Evaluated DEF IInv
<1>3. PICK o \in Object, given \in SUBSET Object :
         /\ o = frame[c].value
         /\ status' = [status EXCEPT ![o] = "dead"]
         /\ field' = [field EXCEPT ![o] = NoObject]
         /\ given = {field[o]} \ {NoObject}
         /\ Steps(c, frame[c].holds, 1)
         /\ \A h \in Frame \ {c} : Keeps(h, 0)
         /\ \/ field[o] = NoObject /\ agenda' = <<Unref(c)>>
            \/ field[o] \in Object /\ agenda' = <<ReleaseOp(field[o]), Unref(c)>>
  <2>1. PICK o \in Object : o = frame[c].value
    BY <1>2, DestroyAllDoes
  <2>2. {field[o]} \ {NoObject} \in SUBSET Object
    BY DEF IInv, TypeOK
  <2> QED BY <1>2, <2>1, <2>2, DestroyAllDoes
<1>4. Coming(c, o) /\ status[o] = "pending"
  BY <1>2, <1>3, ComingNow
<1>5. PICK x \in Op : x = Unref(c) /\ x.op = "unref" /\ x.frame = c
  BY Operations
<1>6. /\ agenda' \in Seq(Op) /\ AgendaInv' /\ Root' = cont'
      /\ Len(agenda') > 1 => agenda'[1].op = "release"
      /\ \A y : InAgenda(y)' <=> y \in given
      /\ \A f \in Frame : Mentioned(agenda', f) = IF c = f THEN 1 ELSE 0
  <2>1. CASE field[o] = NoObject /\ agenda' = <<Unref(c)>>
    <3>1. agenda' = <<x>>
      BY <1>5, <2>1
    <3>2. /\ agenda' \in Seq(Op) /\ AgendaInv' /\ Root' = cont' /\ Len(agenda') = 1
          /\ \A y : ~InAgenda(y)'
      BY <1>5, <3>1, OpsOne
    <3>3. \A f \in Frame : Mentioned(agenda', f) = IF c = f THEN 1 ELSE 0
      BY <1>5, <3>1, MentionedOne
    <3>4. \A y : InAgenda(y)' <=> y \in given
      BY <1>3, <2>1, <3>2
    <3>5. Len(agenda') > 1 => agenda'[1].op = "release"
      BY <3>2
    <3> QED BY <3>2, <3>3, <3>4, <3>5
  <2>2. CASE field[o] \in Object /\ agenda' = <<ReleaseOp(field[o]), Unref(c)>>
    <3>1. PICK r \in Op : r = ReleaseOp(field[o]) /\ r.op = "release" /\ r.obj = field[o]
                             /\ r.frame = NoFrame
      BY <2>2, Operations
    <3>2. agenda' = <<r, x>>
      BY <1>5, <2>2, <3>1
    <3>3. /\ agenda' \in Seq(Op) /\ AgendaInv' /\ Root' = cont' /\ agenda'[1] = r
          /\ \A y : InAgenda(y)' <=> r.op = "release" /\ r.obj = y
      BY <1>5, <3>1, <3>2, OpsTwo
    <3>4. \A y : InAgenda(y)' <=> y \in given
      BY <1>3, <2>2, <3>1, <3>3, InterpreterAssumption
    <3>5. ASSUME NEW f \in Frame
          PROVE  Mentioned(agenda', f) = IF c = f THEN 1 ELSE 0
      <4>1. Mentioned(<<r, x>>, f) = (IF r.frame = f THEN 1 ELSE 0) + (IF x.frame = f THEN 1 ELSE 0)
        BY MentionedTwo
      <4>2. NoFrame # f
        BY InterpreterAssumption
      <4> QED BY <1>5, <3>1, <3>2, <4>1, <4>2
    <3> QED BY <3>1, <3>3, <3>4, <3>5
  <2> QED BY <1>3, <2>1, <2>2
<1>7. /\ cont' = cont /\ hostHolds' = hostHolds /\ cur' = cur /\ host' = host
  BY DEF EvalDestroyAll
<1>8. /\ \A h \in Frame : Placed(h) /\ Alike(h) /\ Kept(h)'
      /\ \A h \in Frame \ {c} : Rests(h)
      /\ \A h \in Frame : \A y : InFrame(h, y)' <=> InFrame(h, y)
  <2>1. \A h \in Frame \ {c} : Placed(h) /\ Alike(h) /\ Rests(h) /\ Kept(h)'
                                    /\ \A y : InFrame(h, y)' <=> InFrame(h, y)
    BY <1>3, KeepsPlace DEF IInv
  <2>2. /\ Placed(c) /\ Alike(c) /\ Kept(c)'
        /\ \A y : InFrame(c, y)' <=> y \in frame[c].holds
    BY <1>2, <1>3, StepsPlace DEF IInv
  <2>3. \A y : InFrame(c, y)' <=> InFrame(c, y)
    BY <2>2 DEF InFrame
  <2> QED BY <2>1, <2>2, <2>3
<1>9. /\ \A y \in Object : status'[y] = IF y = o THEN "dead" ELSE status[y]
      /\ \A y \in Object : field'[y] = IF y = o THEN NoObject ELSE field[y]
  BY <1>3 DEF IInv, TypeOK
<1>10. TypeOK'
  <2>1. /\ status' \in [Object -> {"unborn", "live", "pending", "dead"}]
        /\ field' \in [Object -> Object \cup {NoObject}]
    BY <1>3 DEF IInv, TypeOK
  <2> QED BY <1>1, <1>6, <1>7, <2>1 DEF IInv, TypeOK, Frames
<1>11. FrameCountsExact'
  <2>1. \A h \in Frame \ {cur} : Alike(h)
            /\ frame'[h].rc = frame[h].rc + (IF h = NoFrame THEN 1 ELSE 0)
    BY <1>2, <1>3, <1>8, InterpreterAssumption DEF Keeps
  <2>2. \A f \in Frame : Mentioned(agenda', f)
                            = (IF cur = f THEN 1 ELSE 0) + (IF f = NoFrame THEN 1 ELSE 0)
    BY <1>2, <1>6, InterpreterAssumption
  <2>3. NoFrame # cur /\ Steps(cur, frame[cur].holds, 1)
    BY <1>2, <1>3, InterpreterAssumption
  <2> QED BY <1>1, <1>7, <2>1, <2>2, <2>3, EvalCounts
<1>12. LoopInv'
  BY <1>1, <1>7, EvalLoop
<1>13. RoomInv'
  <2>1. /\ \A y \in Object : status'[y] = "live" => status[y] = "live"
        /\ \A y \in Object : status'[y] = "pending" => status[y] \in {"live", "pending"}
    BY <1>9
  <2> QED BY <1>8, <2>1, RoomKept DEF IInv
<1>14. ChainInv'
  <2>1. PICK n \in 0 .. Cardinality(Frame) : \E s \in [1 .. n -> Frame] : Chain(n, s)
    BY DEF IInv, ChainInv
  <2>2. PICK s \in [1 .. n -> Frame] : Chain(n, s)
    BY <2>1
  <2>3. \A h \in Frame : Rests(h) \/ (h = Root /\ Alike(h) /\ Going(h)')
    <3>1. frame'[c].kind = "destroy" /\ frame'[c].pos = 1
      BY <1>2, <1>3 DEF Steps, Alike
    <3>2. Going(c)'
      BY <3>1 DEF Going, HasNext, Length
    <3> QED BY <1>2, <1>8, <3>2
  <2>4. Harmless(n, s)' /\ n \in Nat
    BY <1>6, FrameSets DEF Harmless
  <2>5. Chain(n, s)'
    BY <1>2, <1>6, <1>7, <2>2, <2>3, <2>4, ChainStays DEF IInv, Stopping
  <2> QED BY <2>5 DEF ChainInv
<1>15. ObjectInv'
  <2> SUFFICES ASSUME NEW y \in Object PROVE ObjectAt(y)'
    BY ObjectNext
  <2>1. \A p \in Object : InObject(p, y)' <=> InObject(p, y) /\ p # o
    BY <1>9, InterpreterAssumption DEF InObject
  <2>2. status'[y] \in {"unborn", "dead"} => field'[y] = NoObject
    BY <1>9, Owners DEF IInv
  <2>3. y \in given <=> InObject(o, y)
    BY <1>3, InterpreterAssumption DEF InObject
  <2>4. ~InAgenda(y)
    BY <1>2 DEF InAgenda
  <2>5. CASE y \in given
    <3>1. OnlyObject(o, y) /\ status[y] = "live" /\ y # o
      BY <1>4, <2>3, <2>5, Owners DEF IInv
    <3>2. InAgenda(y)' /\ OnlyAgenda(y)'
      <4>1. ~SomeFrame(y)'
        BY <1>8, <3>1 DEF OnlyObject, SomeFrame
      <4>2. ~SomeObject(y)' /\ y \notin hostHolds'
        BY <1>7, <2>1, <3>1 DEF SomeObject, OnlyObject
      <4> QED BY <1>6, <2>5, <4>1, <4>2 DEF OnlyAgenda
    <3> QED BY <1>9, <2>2, <3>1, <3>2, OwnersNext
  <2>6. CASE y = o
    <3>1. Nobody(y) /\ status'[y] # "live" /\ y \notin given
      BY <1>4, <1>9, <2>3, <2>6, Owners DEF IInv, Nobody, OnlyHost, SomeObject
    <3>2. Nobody(y)'
      <4>1. ~SomeFrame(y)'
        BY <1>8, <3>1 DEF SomeFrame, Nobody, OnlyHost
      <4>2. ~SomeObject(y)'
        BY <2>1, <3>1 DEF SomeObject, Nobody, OnlyHost
      <4> QED BY <1>6, <1>7, <3>1, <4>1, <4>2 DEF Nobody, OnlyHost, OnlyAgenda
    <3> QED BY <2>2, <3>1, <3>2, OwnersNext
  <2>7. CASE y \notin given /\ y # o
    <3>1. \A p \in Object : InObject(p, y)' <=> InObject(p, y)
      BY <2>1, <2>3, <2>7
    <3>2. Settled(y)
      BY <1>6, <1>7, <1>8, <1>9, <2>4, <2>7, <3>1 DEF Settled
    <3> QED BY <2>2, <3>2, OwnerStays DEF IInv
  <2> QED BY <2>5, <2>6, <2>7
<1>16. DestroyInv'
  <2>1. \A h \in Frame : frame'[h].kind = "destroy" =>
              frame[h].kind = "destroy" /\ frame'[h].value = frame[h].value
    BY <1>8 DEF Alike
  <2>2. \A h \in Frame \ {c} : \A y \in Object : Coming(h, y)' <=> Coming(h, y)
    BY <1>8 DEF Coming, Rests, Alike
  <2>3. \A y : ~Coming(c, y)'
    BY <1>2, <1>3 DEF Coming, Steps
  <2>4. \A y \in Object : status'[y] = "pending" <=> status[y] = "pending" /\ y # o
    BY <1>9
  <2> QED BY <1>4, <2>1, <2>2, <2>3, <2>4, DestroyDone DEF IInv
<1> QED BY <1>6, <1>10, <1>11, <1>12, <1>13, <1>14, <1>15, <1>16 DEF IInv

\* The C stack works on while the loop and the host wait.
LEMMA StackLoop ==
    ASSUME IInv, agenda # <<>>, at' = at, host' = host
    PROVE  LoopInv' /\ at # "eval" /\ host \in {"calling", "stopping"}
BY DEF IInv, LoopInv

\* Frames that stay as they are
LEMMA SamePlace ==
    ASSUME IInv, frame' = frame
    PROVE  /\ Frames /\ \A h \in Frame : Placed(h) /\ Alike(h) /\ Rests(h) /\ Kept(h)'
           /\ \A h \in Frame : \A o : InFrame(h, o)' <=> InFrame(h, o)
<1>1. \A h \in Frame : frame[h].rc \in Nat /\ frame'[h] = frame[h]
  BY Typed DEF IInv
<1>2. \A h \in Frame : Keeps(h, 0)
  BY <1>1, Stay
<1>3. Frames
  BY DEF Frames, IInv, TypeOK
<1> QED BY <1>2, <1>3, KeepsPlace DEF IInv

LEMMA GotoStep ==
    ASSUME IInv, Goto
    PROVE  IInv'
<1>1. /\ Doing("goto") /\ agenda # <<>> /\ Head(agenda).op = "goto" /\ Head(agenda) \in Op
      /\ Head(agenda) = agenda[1] /\ Tail(agenda) \in Seq(Op)
  BY Stack DEF Goto, Doing, IInv
<1>2. PICK f \in Frame \cup {NoFrame} : f = Head(agenda).frame /\ f = Root /\ cont' = f
  BY <1>1, Operations DEF Goto, Root
<1>3. /\ frame' = frame /\ status' = status /\ field' = field /\ hostHolds' = hostHolds
      /\ at' = at /\ cur' = cur /\ host' = host
  BY DEF Goto
<1>4. cont \in Frame \cup {NoFrame}
  BY DEF IInv, TypeOK
<1>5. /\ agenda' \in Seq(Op) /\ AgendaInv' /\ Root' = cont'
      /\ \A y : InAgenda(y)' <=> InAgenda(y)
      /\ \/ Len(agenda') > 1 => agenda'[1].op = "release"
         \/ /\ cont # NoFrame /\ Len(agenda') = Len(agenda) /\ Len(agenda) \in Nat
            /\ agenda'[1].op = "unref" /\ agenda'[1].frame = cont
            /\ \A i \in 2 .. Len(agenda) : agenda'[i] = agenda[i]
  <2>1. CASE cont = NoFrame
    <3>1. agenda' = Tail(agenda)
      BY <1>1, <2>1, Nothing DEF Goto
    <3> QED BY <1>1, <3>1, OpsDone
  <2>2. CASE cont # NoFrame
    <3>1. PICK x \in Op : x = Unref(cont) /\ x.op = "unref" /\ x.frame = cont
      BY <1>4, <2>2, Operations
    <3>2. agenda' = <<x>> \o Tail(agenda)
      BY <2>2, <3>1 DEF Goto
    <3>3. x.op # "release" /\ x.op # "goto"
      BY <3>1
    <3> QED BY <1>1, <2>2, <3>1, <3>2, <3>3, OpsReplaced
  <2> QED BY <2>1, <2>2
<1>6. TypeOK'
  BY <1>2, <1>3, <1>5 DEF IInv, TypeOK
<1>7. FrameCountsExact'
  BY GotoCounts
<1>8. LoopInv'
  BY <1>1, <1>3, StackLoop
<1>9. RoomInv'
  BY <1>3, SamePlace, RoomKept DEF IInv
<1>10. ChainInv'
  <2>1. PICK n \in 0 .. Cardinality(Frame) : \E s \in [1 .. n -> Frame] : Chain(n, s)
    BY DEF IInv, ChainInv
  <2>2. PICK s \in [1 .. n -> Frame] : Chain(n, s)
    BY <2>1
  <2>3. \A h \in Frame : Rests(h)
    BY <1>3, SamePlace
  <2>4. n \in Nat
    BY FrameSets
  <2>5. Harmless(n, s)'
    <3>1. CASE Len(agenda') > 1 => agenda'[1].op = "release"
      BY <3>1 DEF Harmless
    <3>2. CASE /\ cont # NoFrame /\ Len(agenda') = Len(agenda) /\ Len(agenda) \in Nat
               /\ agenda'[1].op = "unref" /\ agenda'[1].frame = cont
               /\ \A i \in 2 .. Len(agenda) : agenda'[i] = agenda[i]
      <4>1. Len(agenda) > 1 => cont = agenda[Len(agenda)].frame \/ InChain(n, s, cont)
        BY <1>1, <2>2, <3>2 DEF Chain, Harmless
      <4>2. Len(agenda) > 1 => agenda'[Len(agenda')] = agenda[Len(agenda)]
        BY <3>2
      <4>3. Len(agenda) > 1 => \/ cont = agenda[Len(agenda)].frame
                               \/ \E i \in 1 .. n : s[i] = cont
        BY <4>1 DEF InChain
      <4> QED BY <3>2, <4>2, <4>3 DEF Harmless, InChain
    <3> QED BY <1>5, <3>1, <3>2
  <2>6. Root' = Root /\ (Stopping' => Stopping)
    BY <1>2, <1>3, <1>5 DEF Stopping
  <2>7. Chain(n, s)'
    BY <2>2, <2>3, <2>4, <2>5, <2>6, ChainStays DEF IInv
  <2> QED BY <2>7 DEF ChainInv
<1>11. ObjectInv'
  <2>1. \A y \in Object : Settled(y)
    BY <1>3, <1>5, SamePlace DEF Settled, InObject
  <2>2. \A y \in Object : status'[y] \in {"unborn", "dead"} => field'[y] = NoObject
    BY <1>3, Owners DEF IInv
  <2> QED BY <2>1, <2>2, ObjectsStay DEF IInv
<1>12. DestroyInv'
  BY <1>3, SamePlace, DestroyKept DEF IInv
<1> QED BY <1>5, <1>6, <1>7, <1>8, <1>9, <1>10, <1>11, <1>12 DEF IInv

LEMMA DropStep ==
    ASSUME IInv, Drop
    PROVE  IInv'
<1>1. /\ Doing("unref") /\ Frames /\ frame[Head(agenda).frame].rc > 1
      /\ agenda' = Tail(agenda)
  BY DropDoes
<1>2. /\ agenda # <<>> /\ Head(agenda).op = "unref" /\ Root = cont
  BY <1>1, Unreferencing
<1>3. PICK f \in Frame : f = Head(agenda).frame /\ frame[f].kind # "none"
  BY <1>1, Unreferencing
<1>4. /\ \A h \in Frame : Keeps(h, IF h = f THEN -1 ELSE 0)
      /\ frame[f].rc > 1
  BY <1>1, <1>3, DropDoes
<1>5. /\ cont' = cont /\ status' = status /\ field' = field /\ hostHolds' = hostHolds
      /\ at' = at /\ cur' = cur /\ host' = host
  BY DEF Drop
<1>6. /\ agenda' \in Seq(Op) /\ AgendaInv' /\ Root' = cont'
      /\ Len(agenda') > 1 => agenda'[1].op = "release"
      /\ \A y : InAgenda(y)' <=> InAgenda(y)
  BY <1>1, <1>2, OpsDone
<1>7. /\ \A h \in Frame : Placed(h) /\ Alike(h) /\ Rests(h) /\ Kept(h)'
      /\ \A h \in Frame : \A y : InFrame(h, y)' <=> InFrame(h, y)
  <2>1. \A h \in Frame \ {f} : Placed(h) /\ Alike(h) /\ Rests(h) /\ Kept(h)'
                                    /\ \A y : InFrame(h, y)' <=> InFrame(h, y)
    <3>1. \A h \in Frame \ {f} : Keeps(h, 0)
      BY <1>4
    <3> QED BY <3>1, KeepsPlace DEF IInv
  <2>2. Keeps(f, -1)
    BY <1>4
  <2>3. /\ Rests(f) /\ Alike(f) /\ Placed(f) /\ frame'[f].rc = frame[f].rc + (-1)
        /\ frame'[f].holds = frame[f].holds /\ frame'[f].kind = frame[f].kind
    BY <2>2 DEF Keeps, Rests, Alike, Placed
  <2>4. Kept(f)' /\ \A y : InFrame(f, y)' <=> InFrame(f, y)
    <3>1. frame[f].rc \in Nat
      BY Typed DEF IInv
    <3>2. frame'[f].rc > 0 /\ frame'[f].kind # "none"
      BY <1>3, <1>4, <2>3, <3>1
    <3> QED BY <2>3, <3>2 DEF Kept, InFrame
  <2> QED BY <2>1, <2>3, <2>4
<1>8. TypeOK'
  BY <1>1, <1>5, <1>6 DEF IInv, TypeOK, Frames
<1>9. FrameCountsExact'
  BY DropCounts
<1>10. LoopInv'
  BY <1>2, <1>5, StackLoop
<1>11. RoomInv'
  BY <1>5, <1>7, RoomKept DEF IInv
<1>12. ChainInv'
  <2>1. PICK n \in 0 .. Cardinality(Frame) : \E s \in [1 .. n -> Frame] : Chain(n, s)
    BY DEF IInv, ChainInv
  <2>2. PICK s \in [1 .. n -> Frame] : Chain(n, s)
    BY <2>1
  <2>3. Harmless(n, s)' /\ n \in Nat
    BY <1>6, FrameSets DEF Harmless
  <2>4. Root' = Root /\ (Stopping' => Stopping)
    BY <1>2, <1>5, <1>6 DEF Stopping
  <2>5. Chain(n, s)'
    BY <1>7, <2>2, <2>3, <2>4, ChainStays DEF IInv
  <2> QED BY <2>5 DEF ChainInv
<1>13. ObjectInv'
  <2>1. \A y \in Object : Settled(y)
    BY <1>5, <1>6, <1>7 DEF Settled, InObject
  <2>2. \A y \in Object : status'[y] \in {"unborn", "dead"} => field'[y] = NoObject
    BY <1>5, Owners DEF IInv
  <2> QED BY <2>1, <2>2, ObjectsStay DEF IInv
<1>14. DestroyInv'
  BY <1>5, <1>7, DestroyKept DEF IInv
<1> QED BY <1>6, <1>8, <1>9, <1>10, <1>11, <1>12, <1>13, <1>14 DEF IInv

LEMMA DropRegisterStep ==
    ASSUME IInv, DropRegister
    PROVE  IInv'
<1>1. /\ Doing("unref") /\ Frames /\ frame[Head(agenda).frame].rc = 1
  BY DropRegisterDoes
<1>2. /\ agenda # <<>> /\ Head(agenda).op = "unref" /\ Root = cont /\ Head(agenda) \in Op
      /\ Head(agenda) = agenda[1]
  BY <1>1, Unreferencing
<1>3. PICK f \in Frame : f = Head(agenda).frame /\ frame[f].kind # "none"
  BY <1>1, Unreferencing
<1>4. PICK o \in frame[f].holds :
         /\ Rests(f) /\ frame'[f].rc = frame[f].rc
         /\ frame'[f].holds = frame[f].holds \ {o}
         /\ o \in Object /\ agenda' = <<ReleaseOp(o)>> \o agenda
  BY <1>3, DropRegisterDoes
<1>5. \A h \in Frame \ {f} : Keeps(h, 0)
  BY <1>3, DropRegisterDoes
<1>6. /\ cont' = cont /\ status' = status /\ field' = field /\ hostHolds' = hostHolds
      /\ at' = at /\ cur' = cur /\ host' = host
  BY DEF DropRegister
<1>7. PICK n \in 0 .. Cardinality(Frame) : \E s \in [1 .. n -> Frame] : Chain(n, s)
  BY DEF IInv, ChainInv
<1>8. PICK s \in [1 .. n -> Frame] : Chain(n, s)
  BY <1>7
<1>9. n \in Nat
  BY FrameSets
<1>10. PICK x \in Op : x = Head(agenda) /\ x.op = "unref" /\ agenda = <<x>>
  <2>1. Tail(agenda) = <<>>
    BY <1>1, <1>2, <1>3, <1>8, <1>9, LastReference DEF IInv
  <2>2. Len(agenda) = 1
    <3>1. agenda \in Seq(Op) /\ Len(agenda) \in Nat
      BY DEF IInv, TypeOK
    <3>2. Len(Tail(agenda)) = Len(agenda) - 1
      BY <1>2, Stack DEF IInv
    <3>3. Len(Tail(agenda)) = 0
      BY <2>1, EmptySeq
    <3> QED BY <3>1, <3>2, <3>3
  <2>3. agenda = <<Head(agenda)>>
    BY <1>2, <2>2 DEF IInv, TypeOK
  <2> QED BY <1>2, <2>3
<1>11. PICK r \in Op : r = ReleaseOp(o) /\ r.op = "release" /\ r.obj = o /\ r.frame = NoFrame
  BY <1>4, Operations
<1>12. agenda' = <<r, x>>
  <2>1. <<r>> \o <<x>> = <<r, x>>
    BY Left
  <2> QED BY <1>4, <1>10, <1>11, <2>1
<1>13. /\ agenda' \in Seq(Op) /\ AgendaInv' /\ Root' = cont' /\ agenda'[1].op = "release"
       /\ \A y : InAgenda(y)' <=> y = o
  <2>1. /\ agenda' \in Seq(Op) /\ AgendaInv' /\ Root' = cont' /\ agenda'[1] = r
        /\ \A y : InAgenda(y)' <=> r.op = "release" /\ r.obj = y
    BY <1>10, <1>11, <1>12, OpsTwo
  <2> QED BY <1>11, <2>1
<1>14. \A y : ~InAgenda(y)
  BY <1>10 DEF InAgenda
<1>15. /\ \A h \in Frame : Placed(h) /\ Alike(h) /\ Rests(h) /\ Kept(h)'
       /\ \A h \in Frame \ {f} : \A y : InFrame(h, y)' <=> InFrame(h, y)
       /\ \A y : InFrame(f, y)' <=> InFrame(f, y) /\ y # o
  <2>1. \A h \in Frame \ {f} : Placed(h) /\ Alike(h) /\ Rests(h) /\ Kept(h)'
                                    /\ \A y : InFrame(h, y)' <=> InFrame(h, y)
    BY <1>5, KeepsPlace DEF IInv
  <2>2. Placed(f) /\ Alike(f) /\ Rests(f) /\ frame'[f].kind # "none"
    BY <1>3, <1>4 DEF Placed, Rests, Alike
  <2>3. Kept(f)'
    BY <1>1, <1>3, <1>4, <2>2 DEF Kept
  <2>4. \A y : InFrame(f, y)' <=> InFrame(f, y) /\ y # o
    BY <1>4 DEF InFrame
  <2> QED BY <2>1, <2>2, <2>3, <2>4
<1>16. TypeOK'
  BY <1>1, <1>6, <1>13 DEF IInv, TypeOK, Frames
<1>17. FrameCountsExact'
  BY DropRegisterCounts
<1>18. LoopInv'
  BY <1>2, <1>6, StackLoop
<1>19. RoomInv'
  BY <1>6, <1>15, RoomKept DEF IInv
<1>20. ChainInv'
  <2>1. Harmless(n, s)'
    BY <1>13 DEF Harmless
  <2>2. Root' = Root /\ (Stopping' => Stopping)
    BY <1>2, <1>6, <1>13 DEF Stopping
  <2>3. Chain(n, s)'
    BY <1>8, <1>9, <1>15, <2>1, <2>2, ChainStays DEF IInv
  <2> QED BY <2>3 DEF ChainInv
<1>21. ObjectInv'
  <2> SUFFICES ASSUME NEW y \in Object PROVE ObjectAt(y)'
    BY ObjectNext
  <2>1. \A p \in Object : InObject(p, y)' <=> InObject(p, y)
    BY <1>6 DEF InObject
  <2>2. status'[y] \in {"unborn", "dead"} => field'[y] = NoObject
    BY <1>6, Owners DEF IInv
  <2>3. CASE y = o
    <3>1. OnlyFrame(f, y) /\ status[y] = "live"
      <4>1. InFrame(f, y)
        BY <2>3 DEF InFrame
      <4> QED BY <4>1, Owners DEF IInv
    <3>2. InAgenda(y)' /\ OnlyAgenda(y)'
      <4>1. ~SomeFrame(y)'
        BY <1>15, <2>3, <3>1 DEF SomeFrame, OnlyFrame
      <4>2. ~SomeObject(y)' /\ y \notin hostHolds'
        BY <1>6, <2>1, <3>1 DEF SomeObject, OnlyFrame
      <4> QED BY <1>13, <2>3, <4>1, <4>2 DEF OnlyAgenda
    <3> QED BY <1>6, <2>2, <3>1, <3>2, OwnersNext
  <2>4. CASE y # o
    <3>1. \A g \in Frame : InFrame(g, y)' <=> InFrame(g, y)
      BY <1>15, <2>4
    <3>2. Settled(y)
      BY <1>6, <1>13, <1>14, <2>1, <2>4, <3>1 DEF Settled
    <3> QED BY <2>2, <3>2, OwnerStays DEF IInv
  <2> QED BY <2>3, <2>4
<1>22. DestroyInv'
  BY <1>6, <1>15, DestroyKept DEF IInv
<1> QED BY <1>13, <1>16, <1>17, <1>18, <1>19, <1>20, <1>21, <1>22 DEF IInv

LEMMA FreeStep ==
    ASSUME IInv, FreeFrame
    PROVE  IInv'
<1>1. /\ Doing("unref") /\ Frames /\ frame[Head(agenda).frame].rc = 1
  BY FreeDoes
<1>2. /\ agenda # <<>> /\ Head(agenda).op = "unref" /\ Root = cont /\ Head(agenda) \in Op
      /\ Head(agenda) = agenda[1]
  BY <1>1, Unreferencing
<1>3. PICK f \in Frame, b \in Frame \cup {NoFrame} :
         f = Head(agenda).frame /\ frame[f].kind # "none" /\ b = frame[f].back
  <2>1. PICK f \in Frame : f = Head(agenda).frame /\ frame[f].kind # "none"
    BY <1>1, Unreferencing
  <2> QED BY <2>1, Typed DEF IInv
<1>4. /\ frame[f].rc = 1 /\ frame[f].holds = {} /\ frame'[f] = Blank
      /\ \A h \in Frame \ {f} : Keeps(h, 0)
      /\ agenda' = (IF b = NoFrame THEN <<>> ELSE <<Unref(b)>>) \o Tail(agenda)
  BY <1>3, FreeDoes
<1>5. /\ cont' = cont /\ status' = status /\ field' = field /\ hostHolds' = hostHolds
      /\ at' = at /\ cur' = cur /\ host' = host
  BY DEF FreeFrame
<1>6. PICK n \in 0 .. Cardinality(Frame) : \E s \in [1 .. n -> Frame] : Chain(n, s)
  BY DEF IInv, ChainInv
<1>7. PICK s \in [1 .. n -> Frame] : Chain(n, s)
  BY <1>6
<1>8. n \in Nat
  BY FrameSets
<1>9. Leaving(n, s, f) /\ Tail(agenda) = <<>>
  BY <1>2, <1>3, <1>4, <1>7, <1>8, LastReference DEF IInv
<1>10. /\ agenda' \in Seq(Op) /\ AgendaInv' /\ \A y : ~InAgenda(y)'
  <2>1. CASE b = NoFrame
    <3>1. agenda' = <<>>
      BY <1>4, <1>9, <2>1
    <3> QED BY <3>1, OpsNone
  <2>2. CASE b # NoFrame
    <3>1. PICK x \in Op : x = Unref(b) /\ x.op = "unref"
      BY <2>2, Operations
    <3>2. <<x>> \o <<>> = <<x>>
      OBVIOUS
    <3>3. agenda' = <<x>>
      BY <1>4, <1>9, <2>2, <3>1, <3>2
    <3> QED BY <3>1, <3>3, OpsOne
  <2> QED BY <2>1, <2>2
<1>11. \A y : ~InAgenda(y)
  <2>1. Len(agenda) = 1
    <3>1. agenda \in Seq(Op) /\ Len(agenda) \in Nat
      BY DEF IInv, TypeOK
    <3>2. Len(Tail(agenda)) = Len(agenda) - 1
      BY <1>2, Stack DEF IInv
    <3>3. Len(Tail(agenda)) = 0
      BY <1>9, EmptySeq
    <3> QED BY <3>1, <3>2, <3>3
  <2>2. \A i \in DOMAIN agenda : i = 1
    BY <2>1 DEF IInv, TypeOK
  <2> QED BY <1>2, <2>2 DEF InAgenda
<1>12. /\ \A h \in Frame \ {f} : Placed(h) /\ Rests(h)
       /\ \A h \in Frame : Kept(h)'
       /\ \A h \in Frame : \A y : InFrame(h, y)' <=> InFrame(h, y)
       /\ frame'[f].kind = "none"
  <2>1. \A h \in Frame \ {f} : Placed(h) /\ Alike(h) /\ Rests(h) /\ Kept(h)'
                                    /\ \A y : InFrame(h, y)' <=> InFrame(h, y)
    BY <1>4, KeepsPlace DEF IInv
  <2>2. frame'[f].kind = "none" /\ frame'[f].holds = {} /\ frame'[f].rc = 0
    BY <1>4 DEF Blank
  <2>3. Kept(f)'
    BY <2>2 DEF Kept
  <2>4. \A y : InFrame(f, y)' <=> InFrame(f, y)
    BY <1>4, <2>2 DEF InFrame
  <2> QED BY <2>1, <2>2, <2>3, <2>4
<1>13. TypeOK'
  BY <1>1, <1>5, <1>10 DEF IInv, TypeOK, Frames
<1>14. FrameCountsExact'
  BY FreeCounts
<1>15. LoopInv'
  BY <1>2, <1>5, StackLoop
<1>16. RoomInv'
  <2>1. /\ Unused \subseteq Unused' /\ EntriesToCome' \subseteq EntriesToCome
    <3>1. /\ \A h \in Frame \ {f} : h \in Unused <=> h \in Unused'
          /\ \A h \in Frame \ {f} : h \in EntriesToCome' => h \in EntriesToCome
      BY <1>12, FramesPlaced
    <3>2. f \notin Unused /\ f \notin EntriesToCome'
      BY <1>3, <1>12 DEF Unused, EntriesToCome
    <3> QED BY <3>1, <3>2, RoomSubsets
  <2>2. Live' = Live /\ MethodsToCome' = MethodsToCome
    BY <1>5 DEF Live, MethodsToCome
  <2>3. Enough'
    BY <2>1, <2>2, EnoughKept DEF IInv
  <2> QED BY <1>12, <2>3, RoomNext
<1>17. ChainInv'
  BY ChainFree
<1>18. ObjectInv'
  <2>1. \A y \in Object : Settled(y)
    BY <1>5, <1>10, <1>11, <1>12 DEF Settled, InObject
  <2>2. \A y \in Object : status'[y] \in {"unborn", "dead"} => field'[y] = NoObject
    BY <1>5, Owners DEF IInv
  <2> QED BY <2>1, <2>2, ObjectsStay DEF IInv
<1>19. DestroyInv'
  <2>1. ASSUME NEW y PROVE ~Coming(f, y) /\ ~Coming(f, y)'
    <3>1. ~HasNext(frame[f])
      BY <1>7, <1>9 DEF Chain, LeavesOne
    <3>2. ~Coming(f, y)
      BY <3>1 DEF Coming, HasNext, Length
    <3> QED BY <1>12, <3>2 DEF Coming
  <2>2. ASSUME NEW h \in Frame \ {f}, NEW y PROVE Coming(h, y)' <=> Coming(h, y)
    BY <1>12 DEF Coming, Rests, Alike
  <2>3. \A h \in Frame, y \in Object : Coming(h, y)' <=> Coming(h, y)
    BY <2>1, <2>2
  <2>4. \A h \in Frame : frame'[h].kind = "destroy" => frame'[h].value \in Object
    BY <1>12 DEF Rests, Alike, IInv, DestroyInv
  <2>5. ASSUME NEW y \in Object
        PROVE  /\ status'[y] = "pending" <=> \E d \in Frame : Coming(d, y)'
               /\ \A d, e \in Frame : Coming(d, y)' /\ Coming(e, y)' => d = e
    <3>1. /\ status[y] = "pending" <=> \E d \in Frame : Coming(d, y)
          /\ \A d, e \in Frame : Coming(d, y) /\ Coming(e, y) => d = e
      BY DEF IInv, DestroyInv
    <3> QED BY <1>5, <2>3, <3>1
  <2> QED BY <2>4, <2>5 DEF DestroyInv
<1> QED BY <1>10, <1>13, <1>14, <1>15, <1>16, <1>17, <1>18, <1>19 DEF IInv

\* The operation that releases an object is the only one to do so.
LEMMA ReleaseAlone ==
    ASSUME IInv, Doing("release")
    PROVE  \A i \in 1 .. Len(agenda) - 1 : Tail(agenda)[i].op # "release"
<1>1. /\ Head(agenda).op = "release" /\ agenda # <<>> /\ agenda \in Seq(Op)
      /\ Head(agenda) = agenda[1]
      /\ \A i \in 1 .. Len(agenda) - 1 : Tail(agenda)[i] = agenda[i + 1]
  BY Stack DEF Doing, IInv, TypeOK
<1>2. Len(agenda) <= 2 /\ Len(agenda) \in Nat
  <2>1. PICK k \in Nat : k = Len(agenda)
    BY <1>1
  <2>2. k <= 3 /\ k # 3
    BY <1>1, <2>1 DEF IInv, AgendaInv
  <2>3. k <= 2
    BY <2>2
  <2> QED BY <2>1, <2>3
<1>3. \A i \in 2 .. Len(agenda) : i = Len(agenda) /\ agenda[i].op = "unref"
  BY <1>2 DEF IInv, AgendaInv
<1> QED BY <1>1, <1>2, <1>3

LEMMA ReleaseStep ==
    ASSUME IInv, Release
    PROVE  IInv'
<1>1. /\ Doing("release") /\ Frames /\ agenda' = <<GotoOp(Fresh)>> \o Tail(agenda)
      /\ GotoOp(Fresh) \in Op /\ Fresh \in Frame
  <2>1. Fresh \in Frame
    BY ReleaseDoes DEF Made
  <2> QED BY <2>1, ReleaseDoes
<1>2. /\ agenda # <<>> /\ Head(agenda).op = "release" /\ Head(agenda) \in Op
      /\ Tail(agenda) \in Seq(Op) /\ Root = cont
      /\ Head(agenda) = agenda[1] /\ Len(Tail(agenda)) = Len(agenda) - 1
  BY <1>1, Stack DEF Doing, IInv, Root
<1>3. PICK f \in Frame : f = Fresh
  BY <1>1
<1>4. PICK o \in Object :
         /\ o = Head(agenda).obj /\ status[o] = "live"
         /\ status' = [status EXCEPT ![o] = "pending"]
         /\ Made(f, "destroy", cont, o, {})
         /\ \A h \in Frame \ {f} : Keeps(h, IF h = cont THEN 1 ELSE 0)
  BY <1>3, ReleaseDoes
<1>5. /\ cont' = cont /\ field' = field /\ hostHolds' = hostHolds
      /\ at' = at /\ cur' = cur /\ host' = host
  BY DEF Release
<1>6. PICK g \in Op : g = GotoOp(f) /\ g.op = "goto" /\ g.frame = f
  BY Operations
<1>7. agenda' = <<g>> \o Tail(agenda)
  BY <1>1, <1>3, <1>6
<1>8. /\ agenda' \in Seq(Op) /\ AgendaInv' /\ Root' = f /\ Doing("goto")'
      /\ agenda'[1].op = "goto"
      /\ \A y : InAgenda(y) <=> InAgenda(y)' \/ o = y
  BY <1>2, <1>4, <1>6, <1>7, OpsReplaced
<1>9. ~InAgenda(o)' /\ InAgenda(o)
  <2>1. \A i \in 1 .. Len(agenda) - 1 : Tail(agenda)[i].op # "release"
    BY <1>1, ReleaseAlone
  <2>2. /\ Len(agenda') = Len(Tail(agenda)) + 1 /\ agenda'[1] = g /\ Len(Tail(agenda)) \in Nat
        /\ \A i \in 1 .. Len(Tail(agenda)) : agenda'[i + 1] = Tail(agenda)[i]
    BY <1>2, <1>7, Pushing
  <2>3. ASSUME NEW i \in DOMAIN agenda' PROVE agenda'[i].op # "release"
    <3>1. i \in 1 .. Len(agenda')
      BY <1>8
    <3>2. CASE i = 1
      BY <1>6, <2>2, <3>2
    <3>3. CASE i # 1
      <4>1. i - 1 \in 1 .. Len(Tail(agenda)) /\ (i - 1) + 1 = i
        BY <2>2, <3>1, <3>3
      <4>2. agenda'[i] = Tail(agenda)[i - 1]
        BY <2>2, <4>1
      <4>3. i - 1 \in 1 .. Len(agenda) - 1
        BY <1>2, <4>1
      <4> QED BY <2>1, <4>2, <4>3
    <3> QED BY <3>2, <3>3
  <2>4. \A y : ~InAgenda(y)'
    BY <2>3 DEF InAgenda
  <2> QED BY <1>8, <2>4
<1>10. /\ \A h \in Frame \ {f} : Placed(h) /\ Rests(h)
       /\ \A h \in Frame : Kept(h)'
       /\ \A h \in Frame : \A y : InFrame(h, y)' <=> InFrame(h, y)
       /\ f \in Unused
  <2>1. ASSUME NEW h \in Frame \ {f}
        PROVE  Placed(h) /\ Rests(h) /\ Kept(h)' /\ \A y : InFrame(h, y)' <=> InFrame(h, y)
    <3>1. CASE h = cont
      <4>1. frame[h].kind # "none" /\ Keeps(h, 1)
        BY <1>4, <3>1, Referred DEF IInv
      <4> QED BY <4>1, KeepsPlace DEF IInv
    <3>2. CASE h # cont
      <4>1. Keeps(h, 0)
        BY <1>4, <3>2
      <4> QED BY <4>1, KeepsPlace DEF IInv
    <3> QED BY <3>1, <3>2
  <2>2. /\ Kept(f)' /\ f \in Unused
        /\ \A y : ~InFrame(f, y) /\ (InFrame(f, y)' <=> y \in {})
    BY <1>4, MadePlace
  <2> QED BY <2>1, <2>2
<1>11. \A y \in Object : status'[y] = IF y = o THEN "pending" ELSE status[y]
  BY <1>4 DEF IInv, TypeOK
<1>12. TypeOK'
  <2>1. status' \in [Object -> {"unborn", "live", "pending", "dead"}]
    BY <1>4 DEF IInv, TypeOK
  <2> QED BY <1>1, <1>5, <1>8, <2>1 DEF IInv, TypeOK, Frames
<1>13. FrameCountsExact'
  BY ReleaseCounts
<1>14. LoopInv'
  BY <1>2, <1>5, StackLoop
<1>15. RoomInv'
  <2>1. Unused \ {f} \subseteq Unused' /\ EntriesToCome' \subseteq EntriesToCome
    <3>1. /\ \A h \in Frame \ {f} : h \in Unused <=> h \in Unused'
          /\ \A h \in Frame \ {f} : h \in EntriesToCome' => h \in EntriesToCome
      BY <1>10, FramesPlaced
    <3>2. f \notin EntriesToCome'
      BY <1>4 DEF Made, EntriesToCome
    <3> QED BY <3>1, <3>2, RoomSubsets
  <2>2. /\ o \in Live /\ Live' \subseteq Live \ {o} /\ MethodsToCome' \subseteq MethodsToCome
    BY <1>4, <1>11, InterpreterAssumption DEF Live, MethodsToCome
  <2>3. Enough'
    BY <1>10, <2>1, <2>2, EnoughTaken DEF IInv
  <2> QED BY <1>10, <2>3, RoomNext
<1>16. ChainInv'
  <2>1. PICK n \in 0 .. Cardinality(Frame) : \E s \in [1 .. n -> Frame] : Chain(n, s)
    BY DEF IInv, ChainInv
  <2>2. PICK s \in [1 .. n -> Frame] : Chain(n, s)
    BY <2>1
  <2>3. n \in Nat
    BY FrameSets
  <2>4. \A h \in Frame \ {f} : Rests(h) \/ (h = Root /\ Alike(h) /\ Going(h)')
    BY <1>10
  <2>5. Made(f, "destroy", Root, o, {}) /\ Root = cont
    BY <1>2, <1>4
  <2>6. Stopping' => Stopping /\ (n = 0 => "destroy" = "destroy")
    BY <1>5 DEF Stopping
  <2>7. ("destroy" = "entry" => n > 0) /\ "destroy" \in {"code", "entry", "destroy"}
    OBVIOUS
  <2> QED BY <1>5, <1>8, <2>2, <2>3, <2>4, <2>5, <2>6, <2>7, ChainPush
<1>17. ObjectInv'
  <2> SUFFICES ASSUME NEW y \in Object PROVE ObjectAt(y)'
    BY ObjectNext
  <2>1. \A p \in Object : InObject(p, y)' <=> InObject(p, y)
    BY <1>5 DEF InObject
  <2>2. status'[y] \in {"unborn", "dead"} => field'[y] = NoObject
    BY <1>5, <1>11, Owners DEF IInv
  <2>3. CASE y = o
    <3>1. OnlyAgenda(y)
      BY <1>9, <2>3, Owners DEF IInv
    <3>2. Nobody(y)'
      <4>1. ~SomeFrame(y)'
        BY <1>10, <3>1 DEF SomeFrame, OnlyAgenda
      <4>2. ~SomeObject(y)' /\ y \notin hostHolds'
        BY <1>5, <2>1, <3>1 DEF SomeObject, OnlyAgenda
      <4> QED BY <1>9, <2>3, <4>1, <4>2 DEF Nobody, OnlyAgenda, OnlyHost
    <3>3. status'[y] # "live"
      BY <1>11, <2>3
    <3> QED BY <2>2, <3>2, <3>3, OwnersNext
  <2>4. CASE y # o
    <3>1. Settled(y)
      BY <1>5, <1>8, <1>10, <1>11, <2>1, <2>4 DEF Settled
    <3> QED BY <2>2, <3>1, OwnerStays DEF IInv
  <2> QED BY <2>3, <2>4
<1>18. DestroyInv'
  <2>1. \A h \in Frame \ {f} : frame[h].kind = "destroy" => Rests(h) \/ frame[h].pos # 0
    BY <1>10
  <2>2. /\ "destroy" \in {"code", "entry", "destroy"}
        /\ "destroy" = "destroy" => o \in Object /\ status[o] # "pending"
        /\ \A y \in Object : status'[y] = "pending" <=>
              status[y] = "pending" \/ ("destroy" = "destroy" /\ y = o)
    BY <1>4, <1>11
  <2> QED BY <1>4, <1>10, <2>1, <2>2, DestroyMade DEF IInv
<1> QED BY <1>8, <1>12, <1>13, <1>14, <1>15, <1>16, <1>17, <1>18 DEF IInv

\* What the host finds when it may act
LEMMA HostFinds ==
    ASSUME IInv, HostFree
    PROVE  /\ host = "idle" /\ at = "out" /\ agenda = <<>> /\ Root = cont
           /\ cont = NoFrame \/ ~HasNext(frame[cont])
           /\ \A y : ~InAgenda(y)
<1>1. host = "idle" /\ at = "out" /\ agenda = <<>>
  BY DEF HostFree
<1>2. cont = NoFrame \/ ~HasNext(frame[cont])
  BY <1>1 DEF IInv, LoopInv
<1>3. Root = cont
  BY <1>1 DEF Root, Doing
<1>4. \A y : ~InAgenda(y)
  BY <1>1 DEF InAgenda
<1> QED BY <1>1, <1>2, <1>3, <1>4

LEMMA RunStep ==
    ASSUME IInv, HostRun
    PROVE  IInv'
<1>1. /\ HostFree /\ Frames /\ Spare >= 1 /\ agenda' = <<GotoOp(Fresh)>>
      /\ Fresh \in Frame
  <2>1. Fresh \in Frame
    BY RunDoes DEF Made
  <2> QED BY <2>1, RunDoes
<1>2. /\ agenda = <<>> /\ at = "out" /\ Root = cont /\ \A y : ~InAgenda(y)
      /\ cont = NoFrame \/ ~HasNext(frame[cont])
  BY <1>1, HostFinds
<1>3. PICK f \in Frame : f = Fresh
  BY <1>1
<1>4. /\ Made(f, "code", NoFrame, NoObject, {})
      /\ \A h \in Frame \ {f} : Keeps(h, 0)
  BY <1>3, RunDoes
<1>5. /\ cont' = cont /\ status' = status /\ field' = field /\ hostHolds' = hostHolds
      /\ at' = at /\ cur' = cur /\ host' = "calling"
  BY DEF HostRun
<1>6. PICK g \in Op : g = GotoOp(f) /\ g.op = "goto" /\ g.frame = f
  BY Operations
<1>7. agenda' = <<g>>
  BY <1>1, <1>3, <1>6
<1>8. /\ agenda' \in Seq(Op) /\ AgendaInv' /\ Root' = f /\ Len(agenda') = 1
      /\ \A y : ~InAgenda(y)'
  BY <1>6, <1>7, OpsOne
<1>9. /\ \A h \in Frame \ {f} : Placed(h) /\ Rests(h)
      /\ \A h \in Frame : Kept(h)'
      /\ \A h \in Frame : \A y : InFrame(h, y)' <=> InFrame(h, y)
      /\ f \in Unused
  <2>1. \A h \in Frame \ {f} : Placed(h) /\ Rests(h) /\ Kept(h)'
                                 /\ \A y : InFrame(h, y)' <=> InFrame(h, y)
    BY <1>4, KeepsPlace DEF IInv
  <2>2. /\ Kept(f)' /\ f \in Unused
        /\ \A y : ~InFrame(f, y) /\ (InFrame(f, y)' <=> y \in {})
    BY <1>4, MadePlace
  <2> QED BY <2>1, <2>2
<1>10. TypeOK'
  BY <1>1, <1>5, <1>8 DEF IInv, TypeOK, Frames
<1>11. FrameCountsExact'
  BY RunCounts
<1>12. LoopInv'
  BY <1>2, <1>5 DEF LoopInv
<1>13. RoomInv'
  <2>1. Unused \ {f} \subseteq Unused' /\ EntriesToCome' \subseteq EntriesToCome
    <3>1. /\ \A h \in Frame \ {f} : h \in Unused <=> h \in Unused'
          /\ \A h \in Frame \ {f} : h \in EntriesToCome' => h \in EntriesToCome
      BY <1>9, FramesPlaced
    <3>2. f \notin EntriesToCome'
      BY <1>4 DEF Made, EntriesToCome
    <3> QED BY <3>1, <3>2, RoomSubsets
  <2>2. Live' = Live /\ MethodsToCome' = MethodsToCome
    BY <1>5 DEF Live, MethodsToCome
  <2>3. Enough'
    BY <1>1, <1>9, <2>1, <2>2, EnoughCalled DEF IInv
  <2> QED BY <1>9, <2>3, RoomNext
<1>14. ChainInv'
  <2>1. ~Stopping'
    BY <1>5 DEF Stopping
  <2> QED BY <1>2, <1>4, <1>8, <1>9, <2>1, ChainFresh
<1>15. ObjectInv'
  <2>1. \A y \in Object : Settled(y)
    BY <1>2, <1>5, <1>8, <1>9 DEF Settled, InObject
  <2>2. \A y \in Object : status'[y] \in {"unborn", "dead"} => field'[y] = NoObject
    BY <1>5, Owners DEF IInv
  <2> QED BY <2>1, <2>2, ObjectsStay DEF IInv
<1>16. DestroyInv'
  <2>1. \A h \in Frame \ {f} : frame[h].kind = "destroy" => Rests(h) \/ frame[h].pos # 0
    BY <1>9
  <2>2. /\ "code" \in {"code", "entry", "destroy"} /\ "code" # "destroy"
        /\ \A o \in Object : status'[o] = "pending" <=>
              status[o] = "pending" \/ ("code" = "destroy" /\ o = NoObject)
    BY <1>5
  <2> QED BY <1>4, <1>9, <2>1, <2>2, DestroyMade DEF IInv
<1> QED BY <1>8, <1>10, <1>11, <1>12, <1>13, <1>14, <1>15, <1>16 DEF IInv

\* Frames and C stack stay as they are.
LEMMA SameCounts ==
    ASSUME IInv, frame' = frame, cont' = cont,
           \A f \in Frame : Mentioned(agenda', f) = Mentioned(agenda, f)
    PROVE  FrameCountsExact'
<1>1. \A f \in Frame : Backed(f)' = Backed(f)
  BY BackedStays
<1>2. ASSUME NEW f \in Frame
      PROVE  frame'[f].rc = Continues(f)' + Backed(f)' + Mentioned(agenda, f)'
  <2>1. frame[f].rc = Continues(f) + Backed(f) + Mentioned(agenda, f)
    BY Counted DEF IInv
  <2>2. Continues(f)' = Continues(f)
    BY DEF Continues
  <2>3. Mentioned(agenda, f)' = Mentioned(agenda, f)
    BY MentionedThen
  <2> QED BY <1>1, <2>1, <2>2, <2>3
<1> QED BY <1>2, CountedNext

LEMMA SameChain ==
    ASSUME IInv, frame' = frame, Root' = Root, Stopping' => Stopping,
           Len(agenda') <= 1, Len(agenda') \in Nat
    PROVE  ChainInv'
<1>1. PICK n \in 0 .. Cardinality(Frame) : \E s \in [1 .. n -> Frame] : Chain(n, s)
  BY DEF IInv, ChainInv
<1>2. PICK s \in [1 .. n -> Frame] : Chain(n, s)
  BY <1>1
<1>3. Harmless(n, s)' /\ n \in Nat
  BY FrameSets DEF Harmless
<1>4. \A h \in Frame : Rests(h)
  BY SamePlace
<1>5. Chain(n, s)'
  BY <1>2, <1>3, <1>4, ChainStays DEF IInv
<1> QED BY <1>5 DEF ChainInv

LEMMA CreateStep ==
    ASSUME IInv, HostCreate
    PROVE  IInv'
<1>1. HostFree /\ Spare >= 2
  BY DEF HostCreate
<1>2. /\ agenda = <<>> /\ at = "out" /\ Root = cont /\ host = "idle"
      /\ cont = NoFrame \/ ~HasNext(frame[cont])
  BY <1>1, HostFinds
<1>3. PICK o \in Object, own \in hostHolds \cup {NoObject} :
         /\ status[o] = "unborn"
         /\ status' = [status EXCEPT ![o] = "live"]
         /\ field' = [field EXCEPT ![o] = own]
         /\ hostHolds' = (hostHolds \ {own}) \cup {o}
  BY DEF HostCreate
<1>4. /\ cont' = cont /\ frame' = frame /\ agenda' = agenda
      /\ at' = at /\ cur' = cur /\ host' = host
  BY DEF HostCreate
<1>5. own \in Object \cup {NoObject} /\ hostHolds \subseteq Object
  BY DEF IInv, TypeOK
<1>6. /\ agenda' \in Seq(Op) /\ Len(agenda') = 0 /\ AgendaInv' /\ Root' = cont'
      /\ \A y : ~InAgenda(y)'
  BY <1>2, <1>4, OpsNone
<1>7. /\ \A h \in Frame : Placed(h) /\ Alike(h) /\ Rests(h) /\ Kept(h)'
      /\ \A h \in Frame : \A y : InFrame(h, y)' <=> InFrame(h, y)
  BY <1>4, SamePlace
<1>8. TypeOK'
  <2>1. /\ status' \in [Object -> {"unborn", "live", "pending", "dead"}]
        /\ field' \in [Object -> Object \cup {NoObject}]
        /\ hostHolds' \subseteq Object
    BY <1>3, <1>5 DEF IInv, TypeOK
  <2> QED BY <1>4, <2>1 DEF IInv, TypeOK
<1>9. FrameCountsExact'
  BY <1>4, SameCounts
<1>10. LoopInv'
  BY <1>2, <1>4 DEF LoopInv
<1>11. RoomInv'
  <2>1. Unused \subseteq Unused' /\ EntriesToCome' \subseteq EntriesToCome
    BY <1>4 DEF Unused, EntriesToCome
  <2>2. Live' \subseteq Live \cup {o} /\ MethodsToCome' \subseteq MethodsToCome \cup {o}
    BY <1>3, InterpreterAssumption DEF Live, MethodsToCome, IInv, TypeOK
  <2>3. Enough'
    BY <1>1, <2>1, <2>2, EnoughBorn DEF IInv
  <2> QED BY <1>7, <2>3, RoomNext
<1>12. ChainInv'
  BY <1>2, <1>4, <1>6, SameChain DEF Stopping
<1>13. ObjectInv'
  <2> SUFFICES ASSUME NEW y \in Object PROVE ObjectAt(y)'
    BY ObjectNext
  <2>1. own # o /\ field[o] = NoObject /\ Nobody(o)
    <3>1. own \in hostHolds => status[own] = "live"
      BY <1>5, Owners DEF IInv
    <3> QED BY <1>3, <3>1, Owners, InterpreterAssumption DEF IInv
  <2>2. \A p \in Object : InObject(p, y)' <=> (IF p = o THEN own = y ELSE InObject(p, y))
    BY <1>3, <1>5 DEF InObject, IInv, TypeOK
  <2>3. status'[y] = IF y = o THEN "live" ELSE status[y]
    BY <1>3 DEF IInv, TypeOK
  <2>4. status'[y] \in {"unborn", "dead"} => field'[y] = NoObject
    BY <1>3, <2>3, Owners DEF IInv, TypeOK
  <2>5. CASE y = o
    <3>1. y \in hostHolds' /\ OnlyHost(y)'
      <4>1. ~SomeFrame(y) /\ ~SomeObject(y)
        BY <2>1, <2>5 DEF Nobody, OnlyHost
      <4>2. ~SomeFrame(y)'
        BY <1>7, <4>1 DEF SomeFrame
      <4>3. ~SomeObject(y)'
        BY <2>1, <2>2, <2>5, <4>1 DEF SomeObject
      <4> QED BY <1>3, <1>6, <2>5, <4>2, <4>3 DEF OnlyHost
    <3> QED BY <2>3, <2>4, <2>5, <3>1, OwnersNext
  <2>6. CASE y = own
    <3>1. OnlyHost(y) /\ status[y] = "live"
      BY <1>3, <2>6, Owners, InterpreterAssumption DEF IInv
    <3>2. InObject(o, y)' /\ OnlyObject(o, y)'
      <4>1. \A q \in Object : InObject(q, y)' => o = q
        BY <2>2, <3>1 DEF OnlyHost, SomeObject
      <4>2. ~SomeFrame(y)'
        BY <1>7, <3>1 DEF SomeFrame, OnlyHost
      <4> QED BY <1>3, <1>6, <2>1, <2>2, <2>6, <4>1, <4>2 DEF OnlyObject
    <3> QED BY <2>1, <2>3, <2>4, <2>6, <3>1, <3>2, OwnersNext
  <2>7. CASE y # o /\ y # own
    <3>1. \A p \in Object : InObject(p, y)' <=> InObject(p, y)
      BY <2>1, <2>2, <2>7, InterpreterAssumption DEF InObject
    <3>2. ~InAgenda(y)
      BY <1>2 DEF InAgenda
    <3>3. Settled(y)
      BY <1>3, <1>6, <1>7, <2>3, <2>7, <3>1, <3>2 DEF Settled
    <3> QED BY <2>4, <3>3, OwnerStays DEF IInv
  <2> QED BY <2>5, <2>6, <2>7
<1>14. DestroyInv'
  <2>1. \A y \in Object : status'[y] = "pending" <=> status[y] = "pending"
    BY <1>3 DEF IInv, TypeOK
  <2> QED BY <1>7, <2>1, DestroyKept DEF IInv
<1> QED BY <1>6, <1>8, <1>9, <1>10, <1>11, <1>12, <1>13, <1>14 DEF IInv

LEMMA HostReleaseStep ==
    ASSUME IInv, HostRelease
    PROVE  IInv'
<1>1. /\ agenda = <<>> /\ at = "out" /\ Root = cont /\ host = "idle"
      /\ \A y : ~InAgenda(y)
  BY HostFinds DEF HostRelease
<1>2. PICK o \in hostHolds : hostHolds' = hostHolds \ {o} /\ agenda' = <<ReleaseOp(o)>>
  BY DEF HostRelease
<1>3. /\ cont' = cont /\ frame' = frame /\ status' = status /\ field' = field
      /\ at' = at /\ cur' = cur /\ host' = "calling"
  BY DEF HostRelease
<1>4. o \in Object
  BY DEF IInv, TypeOK
<1>5. PICK r \in Op : r = ReleaseOp(o) /\ r.op = "release" /\ r.obj = o /\ r.frame = NoFrame
  BY <1>4, Operations
<1>6. agenda' = <<r>>
  BY <1>2, <1>5
<1>7. /\ agenda' \in Seq(Op) /\ Len(agenda') = 1 /\ AgendaInv' /\ Root' = cont'
      /\ \A y : InAgenda(y)' <=> y = o
  <2>1. /\ agenda' \in Seq(Op) /\ Len(agenda') = 1 /\ AgendaInv' /\ Root' = cont'
        /\ \A y : InAgenda(y)' <=> r.op = "release" /\ r.obj = y
    BY <1>5, <1>6, OpsOne
  <2> QED BY <1>5, <2>1
<1>8. /\ \A h \in Frame : Placed(h) /\ Alike(h) /\ Rests(h) /\ Kept(h)'
      /\ \A h \in Frame : \A y : InFrame(h, y)' <=> InFrame(h, y)
  BY <1>3, SamePlace
<1>9. TypeOK'
  BY <1>2, <1>3, <1>7 DEF IInv, TypeOK
<1>10. FrameCountsExact'
  <2>1. ASSUME NEW f \in Frame PROVE Mentioned(agenda', f) = Mentioned(agenda, f)
    <3>1. Mentioned(<<r>>, f) = IF r.frame = f THEN 1 ELSE 0
      BY MentionedOne
    <3>2. f # NoFrame /\ Mentioned(agenda, f) = 0
      BY <1>1, MentionedNone, InterpreterAssumption
    <3> QED BY <1>5, <1>6, <3>1, <3>2
  <2> QED BY <1>3, <2>1, SameCounts
<1>11. LoopInv'
  BY <1>1, <1>3 DEF LoopInv
<1>12. RoomInv'
  BY <1>3, <1>8, RoomKept DEF IInv
<1>13. ChainInv'
  <2>1. ~Stopping'
    BY <1>3 DEF Stopping
  <2> QED BY <1>1, <1>3, <1>7, <2>1, SameChain
<1>14. ObjectInv'
  <2> SUFFICES ASSUME NEW y \in Object PROVE ObjectAt(y)'
    BY ObjectNext
  <2>1. \A p \in Object : InObject(p, y)' <=> InObject(p, y)
    BY <1>3 DEF InObject
  <2>2. status'[y] \in {"unborn", "dead"} => field'[y] = NoObject
    BY <1>3, Owners DEF IInv
  <2>3. CASE y = o
    <3>1. OnlyHost(y) /\ status[y] = "live"
      BY <2>3, Owners DEF IInv
    <3>2. InAgenda(y)' /\ OnlyAgenda(y)'
      <4>1. ~SomeFrame(y)' /\ ~SomeObject(y)'
        BY <1>8, <2>1, <3>1 DEF OnlyHost, SomeFrame, SomeObject
      <4> QED BY <1>2, <1>7, <2>3, <4>1 DEF OnlyAgenda
    <3> QED BY <1>3, <2>2, <3>1, <3>2, OwnersNext
  <2>4. CASE y # o
    <3>1. Settled(y)
      BY <1>1, <1>2, <1>3, <1>7, <1>8, <2>1, <2>4 DEF Settled
    <3> QED BY <2>2, <3>1, OwnerStays DEF IInv
  <2> QED BY <2>3, <2>4
<1>15. DestroyInv'
  BY <1>3, <1>8, DestroyKept DEF IInv
<1> QED BY <1>7, <1>9, <1>10, <1>11, <1>12, <1>13, <1>14, <1>15 DEF IInv

LEMMA StopStep ==
    ASSUME IInv, HostStop
    PROVE  IInv'
<1>1. /\ agenda = <<>> /\ at = "out" /\ Root = cont /\ host = "idle"
      /\ cont = NoFrame \/ ~HasNext(frame[cont])
      /\ \A y : ~InAgenda(y)
  BY HostFinds DEF HostStop
<1>2. /\ cont' = cont /\ frame' = frame /\ status' = status /\ field' = field
      /\ hostHolds' = hostHolds
      /\ at' = at /\ cur' = cur /\ host' = "stopping"
  BY DEF HostStop
<1>3. PICK g \in Op : g = GotoOp(NoFrame) /\ g.op = "goto" /\ g.frame = NoFrame
  BY Operations
<1>4. agenda' = <<g>>
  BY <1>3 DEF HostStop
<1>5. /\ agenda' \in Seq(Op) /\ Len(agenda') = 1 /\ AgendaInv' /\ Root' = NoFrame
      /\ \A y : ~InAgenda(y)'
  BY <1>3, <1>4, OpsOne
<1>6. /\ \A h \in Frame : Placed(h) /\ Alike(h) /\ Rests(h) /\ Kept(h)'
      /\ \A h \in Frame : \A y : InFrame(h, y)' <=> InFrame(h, y)
  BY <1>2, SamePlace
<1>7. TypeOK'
  BY <1>2, <1>5 DEF IInv, TypeOK
<1>8. FrameCountsExact'
  <2>1. ASSUME NEW f \in Frame PROVE Mentioned(agenda', f) = Mentioned(agenda, f)
    <3>1. Mentioned(<<g>>, f) = IF g.frame = f THEN 1 ELSE 0
      BY MentionedOne
    <3>2. f # NoFrame /\ Mentioned(agenda, f) = 0
      BY <1>1, MentionedNone, InterpreterAssumption
    <3> QED BY <1>3, <1>4, <3>1, <3>2
  <2> QED BY <1>2, <2>1, SameCounts
<1>9. LoopInv'
  BY <1>1, <1>2 DEF LoopInv
<1>10. RoomInv'
  BY <1>2, <1>6, RoomKept DEF IInv
<1>11. ChainInv'
  BY <1>1, <1>2, <1>5, ChainEmpty
<1>12. ObjectInv'
  <2>1. \A y \in Object : Settled(y)
    BY <1>1, <1>2, <1>5, <1>6 DEF Settled, InObject
  <2>2. \A y \in Object : status'[y] \in {"unborn", "dead"} => field'[y] = NoObject
    BY <1>2, Owners DEF IInv
  <2> QED BY <2>1, <2>2, ObjectsStay DEF IInv
<1>13. DestroyInv'
  BY <1>2, <1>6, DestroyKept DEF IInv
<1> QED BY <1>5, <1>7, <1>8, <1>9, <1>10, <1>11, <1>12, <1>13 DEF IInv

\* A step of the loop that sends no message, or of a host that has stopped
LEMMA QuietStep ==
    ASSUME IInv, agenda = <<>>,
           cont' = cont, frame' = frame, status' = status, field' = field,
           hostHolds' = hostHolds, agenda' = agenda,
           Stopping' => Stopping, LoopInv', at' \in {"out", "eval", "reread"},
           cur' \in Frame \cup {NoFrame},
           host' \in {"idle", "calling", "stopping", "stopped", "released"}
    PROVE  IInv'
<1>1. /\ agenda' \in Seq(Op) /\ Len(agenda') = 0 /\ AgendaInv' /\ Root' = cont'
      /\ \A y : ~InAgenda(y)'
  BY OpsNone
<1>2. Root = cont /\ \A y : ~InAgenda(y)
  BY DEF Root, Doing, InAgenda
<1>3. /\ \A h \in Frame : Placed(h) /\ Alike(h) /\ Rests(h) /\ Kept(h)'
      /\ \A h \in Frame : \A y : InFrame(h, y)' <=> InFrame(h, y)
  BY SamePlace
<1>4. TypeOK'
  BY <1>1 DEF IInv, TypeOK
<1>5. FrameCountsExact'
  BY SameCounts
<1>6. RoomInv'
  BY <1>3, RoomKept DEF IInv
<1>7. ChainInv'
  BY <1>1, <1>2, SameChain
<1>8. ObjectInv'
  <2>1. \A y \in Object : Settled(y)
    BY <1>1, <1>2, <1>3 DEF Settled, InObject
  <2>2. \A y \in Object : status'[y] \in {"unborn", "dead"} => field'[y] = NoObject
    BY Owners DEF IInv
  <2> QED BY <2>1, <2>2, ObjectsStay DEF IInv
<1>9. DestroyInv'
  BY <1>3, DestroyKept DEF IInv
<1> QED BY <1>1, <1>4, <1>5, <1>6, <1>7, <1>8, <1>9 DEF IInv

LEMMA LoopSteps ==
    ASSUME IInv, LoopEnter \/ Reread \/ LoopExit
    PROVE  IInv'
<1>1. /\ cont' = cont /\ frame' = frame /\ status' = status /\ field' = field
      /\ hostHolds' = hostHolds /\ agenda' = agenda /\ agenda = <<>>
      /\ cur' \in Frame \cup {NoFrame}
  BY DEF LoopEnter, Reread, LoopExit, IInv, TypeOK
<1>2. host \in {"idle", "calling", "stopping", "stopped", "released"}
  BY DEF IInv, TypeOK
<1>3. CASE LoopEnter \/ Reread
  <2>1. host' = host /\ at' = "eval" /\ cur' = cont /\ host \in {"calling", "stopping"}
    BY <1>3 DEF LoopEnter, Reread, IInv, LoopInv
  <2>2. LoopInv' /\ (Stopping' => Stopping)
    BY <1>1, <2>1 DEF LoopInv, Stopping
  <2> QED BY <1>1, <1>2, <2>1, <2>2, QuietStep
<1>4. CASE LoopExit
  <2>1. /\ cur = cont /\ host \in {"calling", "stopping"} /\ at' = "out"
        /\ host' = (IF host = "stopping" THEN "stopped" ELSE "idle")
        /\ cont = NoFrame \/ ~HasNext(frame[cont])
    BY <1>4 DEF LoopExit, IInv, LoopInv
  <2>2. LoopInv' /\ (Stopping' => Stopping)
    <3>1. cont' = NoFrame \/ ~HasNext(frame[cont])'
      BY <1>1, <2>1
    <3> QED BY <1>1, <2>1, <3>1 DEF LoopInv, Stopping
  <2>3. host' \in {"idle", "calling", "stopping", "stopped", "released"}
    BY <2>1
  <2> QED BY <1>1, <2>1, <2>2, <2>3, QuietStep
<1> QED BY <1>3, <1>4

\* A stopped interpreter has no continuation, and no frame is left.
LEMMA StoppedEmpty ==
    ASSUME IInv, host \in {"stopped", "released"}
    PROVE  /\ agenda = <<>> /\ cont = NoFrame /\ at = "out"
           /\ \A f \in Frame : frame[f].kind = "none"
<1>1. agenda = <<>> /\ at = "out" /\ (cont = NoFrame \/ ~HasNext(frame[cont]))
  BY DEF IInv, LoopInv, TypeOK
<1>2. PICK n \in 0 .. Cardinality(Frame) : \E s \in [1 .. n -> Frame] : Chain(n, s)
  BY DEF IInv, ChainInv
<1>3. PICK s \in [1 .. n -> Frame] : Chain(n, s)
  BY <1>2
<1>4. /\ n \in {0, 1} /\ (n = 0 <=> cont = NoFrame)
      /\ n = 1 => s[1] = cont /\ frame[cont].kind = "code"
      /\ \A f \in Frame : frame[f].kind # "none" => f = cont
  BY <1>1, <1>3, HostChain
<1>5. n # 1
  <2>1. n > 0 => frame[s[1]].kind = "destroy"
    BY <1>3 DEF Chain, Stopping
  <2> QED BY <1>4, <2>1
<1> QED BY <1>1, <1>4, <1>5, InterpreterAssumption

LEMMA ReleaseInterpreterStep ==
    ASSUME IInv, ReleaseInterpreter
    PROVE  IInv'
<1>1. agenda = <<>> /\ cont = NoFrame /\ at = "out" /\ host = "stopped"
  BY StoppedEmpty DEF ReleaseInterpreter
<1>2. /\ cont' = cont /\ frame' = frame /\ status' = status /\ field' = field
      /\ hostHolds' = hostHolds /\ agenda' = agenda /\ at' = at /\ cur' = cur
      /\ host' = "released"
  BY <1>1 DEF ReleaseInterpreter
<1>3. LoopInv' /\ (Stopping' => Stopping)
  BY <1>1, <1>2 DEF LoopInv, Stopping
<1>4. cur' \in Frame \cup {NoFrame}
  BY <1>2 DEF IInv, TypeOK
<1> QED BY <1>1, <1>2, <1>3, <1>4, QuietStep

LEMMA StutterStep ==
    ASSUME IInv, UNCHANGED vars
    PROVE  IInv'
<1>1. /\ cont' = cont /\ frame' = frame /\ status' = status /\ field' = field
      /\ hostHolds' = hostHolds /\ agenda' = agenda /\ at' = at /\ cur' = cur
      /\ host' = host
  BY DEF vars
<1>2. TypeOK' /\ AgendaInv' /\ LoopInv'
  BY <1>1 DEF IInv, TypeOK, AgendaInv, LoopInv
<1>3. FrameCountsExact'
  BY <1>1, SameCounts
<1>4. RoomInv'
  BY <1>1, SamePlace, RoomKept DEF IInv
<1>5. Root' = Root /\ (Stopping' => Stopping)
  BY <1>1 DEF Root, Doing, Stopping
<1>6. ChainInv'
  <2>1. PICK n \in 0 .. Cardinality(Frame) : \E s \in [1 .. n -> Frame] : Chain(n, s)
    BY DEF IInv, ChainInv
  <2>2. PICK s \in [1 .. n -> Frame] : Chain(n, s)
    BY <2>1
  <2>3. Harmless(n, s)' /\ n \in Nat
    BY <1>1, <2>2, FrameSets DEF Chain, Harmless
  <2>4. \A h \in Frame : Rests(h)
    BY <1>1, SamePlace
  <2>5. Chain(n, s)'
    BY <1>5, <2>2, <2>3, <2>4, ChainStays DEF IInv
  <2> QED BY <2>5 DEF ChainInv
<1>7. ObjectInv'
  <2>1. \A y \in Object : Settled(y)
    BY <1>1, SamePlace DEF Settled, InObject, InAgenda
  <2>2. \A y \in Object : status'[y] \in {"unborn", "dead"} => field'[y] = NoObject
    BY <1>1, Owners DEF IInv
  <2> QED BY <2>1, <2>2, ObjectsStay DEF IInv
<1>8. DestroyInv'
  BY <1>1, SamePlace, DestroyKept DEF IInv
<1> QED BY <1>2, <1>3, <1>4, <1>6, <1>7, <1>8 DEF IInv

LEMMA Start == Init => IInv
<1> SUFFICES ASSUME Init PROVE IInv
  OBVIOUS
<1>1. /\ \A f \in Frame : frame[f] = Blank
      /\ \A o \in Object : status[o] = "unborn" /\ field[o] = NoObject
      /\ cont = NoFrame /\ agenda = <<>> /\ hostHolds = {}
      /\ at = "out" /\ host = "idle"
  BY DEF Init
<1>2. TypeOK
  <2>1. Blank \in FrameRecord
    BY NewFrames
  <2>2. <<>> \in Seq(Op)
    OBVIOUS
  <2> QED BY <2>1, <2>2 DEF Init, TypeOK
<1>3. \A f \in Frame : /\ frame[f].kind = "none" /\ frame[f].holds = {}
                       /\ frame[f].rc = 0
  BY <1>1 DEF Blank
<1>4. FrameCountsExact
  <2>1. ASSUME NEW f \in Frame
        PROVE  frame[f].rc = Continues(f) + Backed(f) + Mentioned(agenda, f)
    <3>1. Backs(f) = {}
      BY <1>3 DEF Backs
    <3>2. Backed(f) = 0
      BY <3>1, FS_EmptySet DEF Backed
    <3>3. Mentioned(agenda, f) = 0
      BY <1>1, MentionedNone
    <3>4. Continues(f) = 0
      BY <1>1, InterpreterAssumption DEF Continues
    <3> QED BY <1>3, <3>2, <3>3, <3>4
  <2> QED BY <2>1, Counted
<1>5. AgendaInv
  <2>1. Len(agenda) = 0
    BY <1>1, EmptySeq
  <2> QED BY <2>1 DEF AgendaInv
<1>6. LoopInv
  BY <1>1 DEF LoopInv
<1>7. RoomInv
  <2>1. Live = {} /\ MethodsToCome = {} /\ EntriesToCome = {}
    BY <1>1, <1>3, InterpreterAssumption DEF Live, MethodsToCome, EntriesToCome
  <2>2. Cardinality({}) = 0 /\ Cardinality(Unused) \in Nat
    BY FS_EmptySet, RoomNumbers
  <2>3. Enough
    BY <2>1, <2>2 DEF Enough
  <2>4. \A f \in Frame : Kept(f)
    BY <1>3 DEF Kept
  <2> QED BY <2>3, <2>4, RoomParts
<1>8. ChainInv
  <2>1. PICK s \in [1 .. 0 -> Frame] : TRUE
    <3>1. [i \in 1 .. 0 |-> i] \in [1 .. 0 -> Frame]
      OBVIOUS
    <3> QED BY <3>1
  <2>2. Root = NoFrame
    BY <1>1 DEF Root, Doing
  <2>3. Links(0, s)
    BY DEF Links
  <2>4. LeavesOne(0, s)
    BY <1>3 DEF LeavesOne, Leaving
  <2>5. Harmless(0, s)
    BY <1>1, EmptySeq DEF Harmless
  <2>6. Chain(0, s)
    BY <2>2, <2>3, <2>4, <2>5 DEF Chain
  <2>7. 0 \in 0 .. Cardinality(Frame)
    BY FrameSets
  <2> QED BY <2>6, <2>7 DEF ChainInv
<1>9. ObjectInv
  <2>1. ASSUME NEW o \in Object PROVE ObjectAt(o)
    <3>1. ~SomeFrame(o) /\ \A f \in Frame : ~InFrame(f, o)
      BY <1>3 DEF SomeFrame, InFrame
    <3>2. ~SomeObject(o) /\ \A p \in Object : ~InObject(p, o)
      BY <1>1, InterpreterAssumption DEF SomeObject, InObject
    <3>3. ~InAgenda(o) /\ o \notin hostHolds
      BY <1>1 DEF InAgenda
    <3> QED BY <1>1, <3>1, <3>2, <3>3 DEF ObjectAt
  <2> QED BY <2>1, ObjectParts
<1>10. DestroyInv
  BY <1>1, <1>3 DEF DestroyInv, Coming
<1> QED BY <1>2, <1>4, <1>5, <1>6, <1>7, <1>8, <1>9, <1>10 DEF IInv

\* Everything said of the interpreter rests on this.
THEOREM InductiveInvariant == Spec => []IInv
<1>1. IInv /\ [Next]_vars => IInv'
  <2> SUFFICES ASSUME IInv, [Next]_vars PROVE IInv'
    OBVIOUS
  <2>1. CASE Goto
    BY <2>1, GotoStep
  <2>2. CASE Drop
    BY <2>2, DropStep
  <2>3. CASE DropRegister
    BY <2>3, DropRegisterStep
  <2>4. CASE FreeFrame
    BY <2>4, FreeStep
  <2>5. CASE Release
    BY <2>5, ReleaseStep
  <2>6. CASE EvalNew
    BY <2>6, NewStep
  <2>7. CASE EvalOverwrite
    BY <2>7, OverwriteStep
  <2>8. CASE EvalCall
    BY <2>8, CallStep
  <2>9. CASE EvalEnter
    BY <2>9, EnterStep
  <2>10. CASE EvalSetr
    BY <2>10, SetrStep
  <2>11. CASE EvalReturn \/ EvalGotoCurrent
    BY <2>11, LeaveStep
  <2>12. CASE EvalDestroyAll
    BY <2>12, DestroyAllStep
  <2>13. CASE EvalDestroyMethod
    BY <2>13, DestroyMethodStep
  <2>14. CASE LoopEnter \/ Reread \/ LoopExit
    BY <2>14, LoopSteps
  <2>15. CASE HostRun
    BY <2>15, RunStep
  <2>16. CASE HostCreate
    BY <2>16, CreateStep
  <2>17. CASE HostRelease
    BY <2>17, HostReleaseStep
  <2>18. CASE HostStop
    BY <2>18, StopStep
  <2>19. CASE ReleaseInterpreter
    BY <2>19, ReleaseInterpreterStep
  <2>20. CASE Terminated \/ UNCHANGED vars
    BY <2>20, StutterStep DEF Terminated
  <2> QED BY <2>1, <2>2, <2>3, <2>4, <2>5, <2>6, <2>7, <2>8, <2>9, <2>10, <2>11, <2>12,
             <2>13, <2>14, <2>15, <2>16, <2>17, <2>18, <2>19, <2>20
          DEF Next, CStack, RunLoop, Eval, Host
<1> QED BY <1>1, Start, PTL DEF Spec

\* Every variable keeps its type, and no count goes below zero.
THEOREM TypeCorrect == Spec => []TypeOK
BY InductiveInvariant, PTL DEF IInv

\* The count of a frame is the number of references there are to it.
THEOREM CountsAreExact == Spec => []FrameCountsExact
BY InductiveInvariant, PTL DEF IInv

\* runloop, which holds no reference to the frame it sends next and eval to,
\* always has the continuation in hand, and it is not a freed one.
THEOREM LoopIsCurrent == Spec => []DispatchesContinuation
<1>1. IInv => DispatchesContinuation
  <2> SUFFICES ASSUME IInv, at = "eval"
               PROVE  cur = cont /\ (cur # NoFrame => frame[cur].kind # "none")
    BY DEF DispatchesContinuation
  <2>1. cur = cont /\ cont \in Frame \cup {NoFrame}
    BY DEF IInv, LoopInv, TypeOK
  <2> QED BY <2>1, Referred DEF IInv
<1> QED BY <1>1, InductiveInvariant, PTL

\* A stopped interpreter has nothing to do, and no object is left but those
\* the host has and what they own.
THEOREM StopsClean == Spec => []CleanStop
<1>1. IInv => CleanStop
  <2> SUFFICES ASSUME IInv, host \in {"stopped", "released"}, agenda = <<>>
               PROVE  /\ cont = NoFrame /\ Unused = Frame
                      /\ \A o \in Object : status[o] # "pending"
                      /\ Live \subseteq Owned
    BY DEF CleanStop
  <2>1. cont = NoFrame /\ \A f \in Frame : frame[f].kind = "none"
    BY StoppedEmpty
  <2>2. Unused = Frame
    BY <2>1 DEF Unused
  <2>3. \A o \in Object : status[o] # "pending"
    BY <2>1 DEF IInv, DestroyInv, Coming
  <2>4. ASSUME NEW o \in Live PROVE o \in Owned
    <3>1. o \in Object /\ status[o] = "live"
      BY DEF Live
    <3>2. ~SomeFrame(o) /\ ~InAgenda(o)
      <4>1. \A f \in Frame : frame[f].holds = {}
        BY <2>1, LiveFrames DEF IInv
      <4> QED BY <4>1 DEF SomeFrame, InFrame, InAgenda
    <3>3. SomeObject(o) \/ o \in hostHolds
      BY <3>1, <3>2 DEF IInv, ObjectInv
    <3>4. ASSUME NEW p \in Object, field[p] = o PROVE p \in Live
      <4>1. status[p] \notin {"unborn", "dead"}
        BY <3>1, <3>4, Owners, InterpreterAssumption DEF IInv
      <4>2. status[p] \in {"unborn", "live", "pending", "dead"}
        BY DEF IInv, TypeOK
      <4> QED BY <2>3, <4>1, <4>2 DEF Live
    <3> QED BY <3>1, <3>3, <3>4 DEF Owned, SomeObject, InObject
  <2> QED BY <2>1, <2>2, <2>3, <2>4
<1> QED BY <1>1, InductiveInvariant, PTL

-----------------------------------------------------------------------------
(* The frames under a frame *)

\* The least-number principle, for sets of numbers.
LEMMA LeastNumber ==
    ASSUME NEW S \in SUBSET Nat, S # {}
    PROVE  \E m \in S : \A k \in S : m <= k
<1>1. PICK m \in S : \A k \in S : ~(<<k, m>> \in OpToRel(<, Nat))
  BY NatLessThanWellFounded, WFMin, Zenon
<1>2. ASSUME NEW k \in S PROVE m <= k
  <2>1. ~(k < m)
    BY <1>1 DEF OpToRel
  <2> QED BY <2>1
<1> QED BY <1>2

\* The links of the chain up to and with f
LinksTo(n, s, f) == {g \in Frame : \E i, j \in 1 .. n : j <= i /\ s[i] = f /\ s[j] = g}

LEMMA LinksUpTo ==
    ASSUME NEW n \in Nat, NEW s \in [1 .. n -> Frame], Chain(n, s), NEW f \in Frame,
           frame[f].kind # "none"
    PROVE  /\ InChain(n, s, f) => LinksTo(n, s, f) = {f} \cup LinksTo(n, s, frame[f].back)
           /\ InChain(n, s, frame[f].back) \/ frame[f].back = NoFrame
           /\ InChain(n, s, frame[f].back) =>
                 frame[f].back \in Frame /\ frame[frame[f].back].kind # "none"
           /\ LinksTo(n, s, NoFrame) = {}
<1>1. \A i, j \in 1 .. n : s[i] = s[j] => i = j
  BY DEF Chain
<1>2. \A i \in 1 .. n : s[i] \in Frame /\ s[i] # NoFrame /\ frame[s[i]].kind # "none"
                          /\ frame[s[i]].back = IF i = 1 THEN NoFrame ELSE s[i - 1]
  BY InterpreterAssumption DEF Chain, Links
<1>3. LinksTo(n, s, NoFrame) = {}
  BY <1>2 DEF LinksTo
<1>4. CASE InChain(n, s, f)
  <2>1. PICK k \in 1 .. n : s[k] = f
    BY <1>4 DEF InChain
  <2>2. CASE k = 1
    <3>1. frame[f].back = NoFrame
      BY <1>2, <2>1, <2>2
    <3>2. ASSUME NEW g \in Frame PROVE g \in LinksTo(n, s, f) <=> g = f
      BY <1>1, <2>1, <2>2 DEF LinksTo
    <3>3. \A g : g \in LinksTo(n, s, f) => g \in Frame
      BY DEF LinksTo
    <3>4. ~InChain(n, s, NoFrame)
      BY <1>2 DEF InChain
    <3>5. LinksTo(n, s, f) = {f}
      BY <3>2, <3>3
    <3> QED BY <1>3, <3>1, <3>4, <3>5
  <2>3. CASE k # 1
    <3>1. frame[f].back = s[k - 1] /\ k - 1 \in 1 .. n /\ frame[f].back # NoFrame
          /\ k - 1 < k
      BY <1>2, <2>1, <2>3
    <3>2. ASSUME NEW g \in Frame
          PROVE  g \in LinksTo(n, s, f) <=> g = f \/ g \in LinksTo(n, s, frame[f].back)
      <4>1. g \in LinksTo(n, s, f) <=> \E j \in 1 .. n : j <= k /\ s[j] = g
        BY <1>1, <2>1 DEF LinksTo
      <4>2. g \in LinksTo(n, s, frame[f].back) <=> \E j \in 1 .. n : j <= k - 1 /\ s[j] = g
        <5>1. \A i \in 1 .. n : s[i] = frame[f].back <=> i = k - 1
          BY <1>1, <3>1
        <5> QED BY <3>1, <5>1 DEF LinksTo
      <4>3. \A j \in 1 .. n : j <= k <=> j = k \/ j <= k - 1
        OBVIOUS
      <4> QED BY <2>1, <4>1, <4>2, <4>3
    <3>3. \A g : /\ g \in LinksTo(n, s, f) => g \in Frame
                 /\ g \in LinksTo(n, s, frame[f].back) => g \in Frame
      BY DEF LinksTo
    <3>4. LinksTo(n, s, f) = {f} \cup LinksTo(n, s, frame[f].back)
      BY <3>2, <3>3
    <3>5. InChain(n, s, frame[f].back) /\ frame[f].back \in Frame
          /\ frame[frame[f].back].kind # "none"
      BY <1>2, <3>1 DEF InChain
    <3> QED BY <1>3, <3>4, <3>5
  <2> QED BY <2>2, <2>3
<1>5. CASE ~InChain(n, s, f)
  <2>1. frame[f].back = NoFrame \/ InChain(n, s, frame[f].back)
    BY <1>5 DEF Chain, LeavesOne, Leaving
  <2>2. InChain(n, s, frame[f].back) =>
             frame[f].back \in Frame /\ frame[frame[f].back].kind # "none"
    BY <1>2 DEF InChain
  <2> QED BY <1>3, <1>5, <2>1, <2>2
<1> QED BY <1>4, <1>5

\* FramesUnder is well defined: the frames under one another have no cycle.
LEMMA FramesUnderIs ==
    ASSUME IInv
    PROVE  FramesUnder = [f \in Frame \cup {NoFrame} |->
                             IF f = NoFrame \/ frame[f].kind = "none" THEN {}
                             ELSE {f} \cup FramesUnder[frame[f].back]]
<1>1. PICK n \in 0 .. Cardinality(Frame) : \E s \in [1 .. n -> Frame] : Chain(n, s)
  BY DEF IInv, ChainInv
<1>2. PICK s \in [1 .. n -> Frame] : Chain(n, s)
  BY <1>1
<1>3. n \in Nat
  BY FrameSets
<1>4. PICK w : w = [f \in Frame \cup {NoFrame} |->
                       IF f = NoFrame \/ frame[f].kind = "none" THEN {}
                       ELSE {f} \cup LinksTo(n, s, frame[f].back)]
  OBVIOUS
<1>5. ASSUME NEW f \in Frame, frame[f].kind # "none"
      PROVE  w[frame[f].back] = LinksTo(n, s, frame[f].back)
  <2>1. /\ InChain(n, s, frame[f].back) \/ frame[f].back = NoFrame
        /\ InChain(n, s, frame[f].back) =>
                 frame[f].back \in Frame /\ frame[frame[f].back].kind # "none"
        /\ LinksTo(n, s, NoFrame) = {}
    BY <1>2, <1>3, <1>5, LinksUpTo
  <2>2. CASE frame[f].back = NoFrame
    <3>1. w[NoFrame] = {}
      BY <1>4
    <3> QED BY <2>1, <2>2, <3>1
  <2>3. CASE InChain(n, s, frame[f].back)
    <3>1. PICK b \in Frame : b = frame[f].back /\ frame[b].kind # "none"
      BY <2>1, <2>3
    <3>2. LinksTo(n, s, b) = {b} \cup LinksTo(n, s, frame[b].back)
      BY <1>2, <1>3, <2>3, <3>1, LinksUpTo
    <3>3. w[b] = {b} \cup LinksTo(n, s, frame[b].back)
      BY <1>4, <3>1, InterpreterAssumption
    <3> QED BY <3>1, <3>2, <3>3
  <2> QED BY <2>1, <2>2, <2>3
<1>6. w = [f \in Frame \cup {NoFrame} |->
              IF f = NoFrame \/ frame[f].kind = "none" THEN {}
              ELSE {f} \cup w[frame[f].back]]
  <2>1. ASSUME NEW f \in Frame \cup {NoFrame}
        PROVE  w[f] = IF f = NoFrame \/ frame[f].kind = "none" THEN {}
                      ELSE {f} \cup w[frame[f].back]
    <3>1. w[f] = IF f = NoFrame \/ frame[f].kind = "none" THEN {}
                 ELSE {f} \cup LinksTo(n, s, frame[f].back)
      BY <1>4
    <3> QED BY <1>5, <3>1
  <2> QED BY <1>4, <2>1
<1> QED BY <1>6 DEF FramesUnder

LEMMA FramesUnderAt ==
    ASSUME IInv, NEW n \in Nat, NEW s \in [1 .. n -> Frame], Chain(n, s)
    PROVE  /\ FramesUnder[NoFrame] = {}
           /\ \A f \in Frame : frame[f].kind = "none" => FramesUnder[f] = {}
           /\ \A f \in Frame : frame[f].kind # "none" =>
                 FramesUnder[f] = {f} \cup FramesUnder[frame[f].back]
           /\ \A i \in 1 .. n : FramesUnder[s[i]] = {s[j] : j \in 1 .. i}
<1>1. PICK w : w = FramesUnder
  OBVIOUS
<1>2. w = [f \in Frame \cup {NoFrame} |->
              IF f = NoFrame \/ frame[f].kind = "none" THEN {}
              ELSE {f} \cup w[frame[f].back]]
  BY <1>1, FramesUnderIs
<1>3. /\ w[NoFrame] = {}
      /\ \A f \in Frame : w[f] = IF frame[f].kind = "none" THEN {}
                                 ELSE {f} \cup w[frame[f].back]
  <2>1. \A f \in Frame \cup {NoFrame} :
           w[f] = IF f = NoFrame \/ frame[f].kind = "none" THEN {}
                  ELSE {f} \cup w[frame[f].back]
    BY <1>2, Zenon
  <2>2. \A f \in Frame : f # NoFrame
    BY InterpreterAssumption
  <2> QED BY <2>1, <2>2
<1>4. \A i \in 1 .. n : s[i] \in Frame /\ frame[s[i]].kind # "none"
                          /\ frame[s[i]].back = IF i = 1 THEN NoFrame ELSE s[i - 1]
  BY DEF Chain, Links
<1>5. \A i \in 1 .. n : w[s[i]] = {s[j] : j \in 1 .. i}
  <2>1. PICK Bad : Bad = {i \in 1 .. n : w[s[i]] # {s[j] : j \in 1 .. i}}
    OBVIOUS
  <2>2. SUFFICES ASSUME Bad # {} PROVE FALSE
    BY <2>1
  <2>8. Bad \in SUBSET Nat
    BY <2>1
  <2>3. PICK m \in Bad : \A k \in Bad : m <= k
    BY <2>2, <2>8, LeastNumber
  <2>4. m \in 1 .. n /\ w[s[m]] # {s[j] : j \in 1 .. m}
    BY <2>1
  <2>5. w[s[m]] = {s[m]} \cup w[frame[s[m]].back]
    BY <1>3, <1>4, <2>4
  <2>6. CASE m = 1
    <3>1. w[s[m]] = {s[m]}
      BY <1>3, <1>4, <2>4, <2>5, <2>6
    <3>2. {s[j] : j \in 1 .. m} = {s[m]}
      BY <2>6
    <3> QED BY <2>4, <3>1, <3>2
  <2>7. CASE m # 1
    <3>1. PICK k \in 1 .. n : k = m - 1 /\ k < m /\ k + 1 = m
      BY <2>4, <2>7
    <3>2. w[s[k]] = {s[j] : j \in 1 .. k}
      BY <2>1, <2>3, <3>1
    <3>3. frame[s[m]].back = s[k]
      BY <1>4, <2>4, <2>7, <3>1
    <3>4. {s[j] : j \in 1 .. m} = {s[m]} \cup {s[j] : j \in 1 .. k}
      <4>1. \A j : j \in 1 .. m <=> j = m \/ j \in 1 .. k
        BY <2>4, <3>1
      <4> QED BY <4>1
    <3> QED BY <2>4, <2>5, <3>2, <3>3, <3>4
  <2> QED BY <2>6, <2>7
<1> QED BY <1>1, <1>3, <1>5

\* A destruction that was started is in the chain of frames, once.
THEOREM DestructionsAreKept == Spec => []DestructionsKept
<1>1. IInv => DestructionsKept
  <2> SUFFICES ASSUME IInv PROVE DestructionsKept
    OBVIOUS
  <2>1. PICK n \in 0 .. Cardinality(Frame) : \E s \in [1 .. n -> Frame] : Chain(n, s)
    BY DEF IInv, ChainInv
  <2>2. PICK s \in [1 .. n -> Frame] : Chain(n, s)
    BY <2>1
  <2>3. n \in Nat
    BY FrameSets
  <2>4. PICK under : under = FramesUnder
    OBVIOUS
  <2>5. /\ under[NoFrame] = {}
        /\ \A f \in Frame : frame[f].kind = "none" => under[f] = {}
        /\ \A f \in Frame : frame[f].kind # "none" =>
                 under[f] = {f} \cup under[frame[f].back]
        /\ \A i \in 1 .. n : under[s[i]] = {s[j] : j \in 1 .. i}
    BY <2>2, <2>3, <2>4, FramesUnderAt
  <2>6. ASSUME NEW f \in Frame \cup {NoFrame} PROVE under[f] \subseteq Frame
    <3>1. ASSUME NEW g \in Frame, InChain(n, s, g) PROVE under[g] \subseteq Frame
      <4>1. PICK i \in 1 .. n : s[i] = g
        BY <3>1 DEF InChain
      <4>2. under[g] = {s[j] : j \in 1 .. i}
        BY <2>5, <4>1
      <4>3. \A j \in 1 .. i : s[j] \in Frame
        BY <2>3
      <4> QED BY <4>2, <4>3
    <3>2. CASE f = NoFrame
      BY <2>5, <3>2
    <3>3. CASE f \in Frame /\ frame[f].kind = "none"
      BY <2>5, <3>3
    <3>4. CASE f \in Frame /\ frame[f].kind # "none"
      <4>1. /\ InChain(n, s, frame[f].back) \/ frame[f].back = NoFrame
            /\ InChain(n, s, frame[f].back) => frame[f].back \in Frame
        BY <2>2, <2>3, <3>4, LinksUpTo
      <4>2. under[frame[f].back] \subseteq Frame
        BY <2>5, <3>1, <4>1
      <4>3. under[f] = {f} \cup under[frame[f].back]
        BY <2>5, <3>4
      <4> QED BY <3>4, <4>2, <4>3
    <3> QED BY <3>2, <3>3, <3>4
  <2>7. PICK reached : reached = under[cont]
                   \cup UNION {under[agenda[i].frame] :
                                 i \in {j \in DOMAIN agenda : agenda[j].op = "goto"}}
    OBVIOUS
  <2>8. reached \subseteq Frame
    <3>1. \A i \in DOMAIN agenda : agenda[i] \in Op
      BY DEF IInv, TypeOK
    <3>2. \A i \in DOMAIN agenda : agenda[i].op = "goto" =>
             agenda[i].frame \in Frame \cup {NoFrame}
      BY <3>1, Operations
    <3>3. cont \in Frame \cup {NoFrame}
      BY DEF IInv, TypeOK
    <3> QED BY <2>6, <2>7, <3>2, <3>3
  <2>9. under[Root] \subseteq reached
    <3>1. CASE Doing("goto")
      <4>1. agenda # <<>> /\ agenda[1].op = "goto" /\ Root = agenda[1].frame
        BY <3>1, Stack DEF Doing, Root, IInv
      <4>2. 1 \in DOMAIN agenda
        <5>1. agenda \in Seq(Op)
          BY DEF IInv, TypeOK
        <5> QED BY <4>1, <5>1, EmptySeq
      <4> QED BY <2>7, <4>1, <4>2
    <3>2. CASE ~Doing("goto")
      BY <2>7, <3>2 DEF Root
    <3> QED BY <3>1, <3>2
  <2>10. ASSUME NEW o \in Object, status[o] = "pending"
         PROVE  Cardinality({d \in reached : /\ frame[d].kind = "destroy"
                                             /\ frame[d].value = o
                                             /\ frame[d].pos = 0}) = 1
    <3>1. PICK d \in Frame : Coming(d, o)
      BY <2>10 DEF IInv, DestroyInv
    <3>2. \A e \in Frame : Coming(e, o) => d = e
      BY <3>1 DEF IInv, DestroyInv
    <3>3. HasNext(frame[d]) /\ frame[d].kind # "none"
      BY <3>1 DEF Coming, HasNext, Length
    <3>4. PICK k \in 1 .. n : s[k] = d
      <4>1. InChain(n, s, d)
        BY <2>2, <3>3 DEF Chain, LeavesOne, Leaving
      <4> QED BY <4>1 DEF InChain
    <3>5. d \in under[Root]
      <4>1. n > 0 /\ n \in 1 .. n /\ Root = s[n]
        <5>1. n > 0 /\ n \in 1 .. n
          BY <2>3, <3>4
        <5> QED BY <2>2, <5>1 DEF Chain
      <4>2. under[Root] = {s[j] : j \in 1 .. n}
        BY <2>5, <4>1
      <4> QED BY <3>4, <4>2
    <3>6. {e \in reached : /\ frame[e].kind = "destroy"
                           /\ frame[e].value = o
                           /\ frame[e].pos = 0} = {d}
      BY <2>8, <2>9, <3>1, <3>2, <3>5 DEF Coming
    <3> QED BY <3>6, FS_Singleton
  <2> QED BY <2>4, <2>7, <2>10 DEF DestructionsKept
<1> QED BY <1>1, InductiveInvariant, PTL

=============================================================================
