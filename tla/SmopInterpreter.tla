-------------------------- MODULE SmopInterpreter --------------------------
(***************************************************************************)
(* One SMOP interpreter (src/v6/smop/src/interpreter.c) that runs mold     *)
(* frames (src/mold.c): code bodies that call one another by passing       *)
(* continuations, and the frames that smop_lowlevel_refcnt_dec puts in     *)
(* front of the current continuation to call DESTROYALL on an object whose *)
(* last reference is gone.  The host is a C program, or Perl 5 through     *)
(* SMOP/SMOP.xs, that starts programs, drops objects and calls the loop.   *)
(*                                                                         *)
(* An interpreter belongs to one thread.  What is hard here is the order   *)
(* of things: agenda is the C stack, the operations a message handler has  *)
(* still to perform, and every one of them may change the continuation     *)
(* that runloop is in the middle of evaluating.  The counts of objects     *)
(* are SmopLowlevel's matter: an object here has one owner.  The counts of *)
(* frames are kept as the code keeps them.                                 *)
(***************************************************************************)
EXTENDS Integers, Sequences, FiniteSets

CONSTANTS Frame,       \* the frames that may exist at a time
          Object,
          ByMethod,    \* objects whose DESTROYALL is a method (p6opaque)
          Body,        \* operations of a code body, before it returns
          NoFrame, NoObject

ASSUME InterpreterAssumption ==
    /\ IsFiniteSet(Frame) /\ IsFiniteSet(Object)
    /\ ByMethod \subseteq Object
    /\ Body \in Nat \ {0}
    /\ NoFrame \notin Frame /\ NoObject \notin Object

VARIABLES cont,        \* the interpreter's continuation
          frame,       \* every mold frame
          status,      \* of every object
          field,       \* the object every object owns
          hostHolds,   \* the objects the host has a reference to
          agenda,      \* what the C stack has still to do
          at, cur,     \* where runloop is, and its local cont
          host         \* what the host is doing

vars == <<cont, frame, status, field, hostHolds, agenda, at, cur, host>>

-----------------------------------------------------------------------------
(* Frames *)

\* back is the $back register of a code frame and the $current register of a
\* destruction frame; holds, the other objects in its registers.
Blank == [kind |-> "none", pos |-> 0, back |-> NoFrame, value |-> NoObject,
          holds |-> {}, rc |-> 0, wait |-> "no"]

\* SMOP__Mold__Frame_create and the mold_reg_set calls that follow it
CodeFrame(kind, back, holds) ==
    [Blank EXCEPT !.kind = kind, !.back = back, !.holds = holds, !.rc = 1]

\* free_obj's frame: $value.DESTROYALL($value); $interpreter.goto($current)
DestroyFrame(back, o) ==
    [Blank EXCEPT !.kind = "destroy", !.back = back, !.value = o, !.rc = 1]

\* A code body that was called ends with setr and goto on its caller.  The
\* frame in which a code object binds its arguments only enters the body.
Length(f) == CASE f.kind = "none" -> 0
               [] f.kind = "destroy" -> 2
               [] f.kind = "entry" -> 1
               [] f.kind = "code" -> IF f.back = NoFrame THEN Body ELSE Body + 2

HasNext(f) == f.pos < Length(f)

Retain(frames, f) ==
    IF f = NoFrame THEN frames ELSE [frames EXCEPT ![f].rc = @ + 1]

Unused == {f \in Frame : frame[f].kind = "none"}

\* Which free frame calloc returns makes no difference.
Fresh == CHOOSE f \in Frame : frame[f].kind = "none"

Live == {o \in Object : status[o] = "live"}

\* The frames the objects still alive may need for their destruction, and the
\* bodies still to be entered; a bound on the frames that programs create.
Reserved == Cardinality(Live)
            + Cardinality({o \in ByMethod : status[o] \in {"live", "pending"}})
            + Cardinality({f \in Frame : frame[f].kind = "entry"})
Spare == Cardinality(Unused) - Reserved

\* The operations left to the C stack.
GotoOp(f) == [op |-> "goto", frame |-> f, obj |-> NoObject]
Unref(f) == [op |-> "unref", frame |-> f, obj |-> NoObject]
ReleaseOp(o) == [op |-> "release", frame |-> NoFrame, obj |-> o]

Op == [op : {"goto"}, frame : Frame \cup {NoFrame}, obj : {NoObject}]
        \cup [op : {"unref"}, frame : Frame, obj : {NoObject}]
        \cup [op : {"release"}, frame : {NoFrame}, obj : Object]

FrameRecord ==
    [kind : {"none", "code", "entry", "destroy"}, pos : 0 .. Body + 2,
     back : Frame \cup {NoFrame}, value : Object \cup {NoObject},
     holds : SUBSET Object, rc : Nat, wait : {"no", "called", "answered"}]

TypeOK ==
    /\ cont \in Frame \cup {NoFrame}
    /\ frame \in [Frame -> FrameRecord]
    /\ status \in [Object -> {"unborn", "live", "pending", "dead"}]
    /\ field \in [Object -> Object \cup {NoObject}]
    /\ hostHolds \subseteq Object
    /\ agenda \in Seq(Op)
    /\ at \in {"out", "eval", "reread"}
    /\ cur \in Frame \cup {NoFrame}
    /\ host \in {"idle", "calling", "stopping", "stopped", "released"}

Init ==
    /\ cont = NoFrame
    /\ frame = [f \in Frame |-> Blank]
    /\ status = [o \in Object |-> "unborn"]
    /\ field = [o \in Object |-> NoObject]
    /\ hostHolds = {}
    /\ agenda = <<>>
    /\ at = "out" /\ cur = NoFrame
    /\ host = "idle"

-----------------------------------------------------------------------------
(* The C stack *)

Doing(op) == agenda # <<>> /\ Head(agenda).op = op

\* interpreter.goto: the target's reference becomes the interpreter's, and
\* only then is the old continuation released.
Goto ==
    /\ Doing("goto")
    /\ cont' = Head(agenda).frame
    /\ agenda' = (IF cont = NoFrame THEN <<>> ELSE <<Unref(cont)>>)
                   \o Tail(agenda)
    /\ UNCHANGED <<frame, status, field, hostHolds, at, cur, host>>

Drop ==
    LET f == Head(agenda).frame
    IN  /\ Doing("unref") /\ frame[f].rc > 1
        /\ frame' = [frame EXCEPT ![f].rc = @ - 1]
        /\ agenda' = Tail(agenda)
        /\ UNCHANGED <<cont, status, field, hostHolds, at, cur, host>>

\* A frame's DESTROYALL runs at once and releases its registers ...
DropRegister ==
    LET f == Head(agenda).frame
    IN  /\ Doing("unref") /\ frame[f].rc = 1
        /\ \E o \in frame[f].holds :
              /\ frame' = [frame EXCEPT ![f].holds = @ \ {o}]
              /\ agenda' = <<ReleaseOp(o)>> \o agenda
        /\ UNCHANGED <<cont, status, field, hostHolds, at, cur, host>>

\* Mutant: the back of a frame is released without asking whether it has one.
FreeFrameAnyBack ==
    LET f == Head(agenda).frame
    IN  /\ Doing("unref") /\ frame[f].rc = 1 /\ frame[f].holds = {}
        /\ frame' = [frame EXCEPT ![f] = Blank]
        /\ agenda' = <<Unref(frame[f].back)>> \o Tail(agenda)
        /\ UNCHANGED <<cont, status, field, hostHolds, at, cur, host>>

\* ... its back, and the frame is freed.
FreeFrame ==
    LET f == Head(agenda).frame
    IN  /\ Doing("unref") /\ frame[f].rc = 1 /\ frame[f].holds = {}
        /\ frame' = [frame EXCEPT ![f] = Blank]
        /\ agenda' = (IF frame[f].back = NoFrame THEN <<>>
                      ELSE <<Unref(frame[f].back)>>) \o Tail(agenda)
        /\ UNCHANGED <<cont, status, field, hostHolds, at, cur, host>>

\* Mutant: the destruction frame goes back to where the continuation would.
ReleaseReturning ==
    /\ Doing("release")
    /\ LET back == IF cont = NoFrame THEN NoFrame ELSE frame[cont].back
       IN  frame' = [Retain(frame, back) EXCEPT
                       ![Fresh] = DestroyFrame(back, Head(agenda).obj)]
    /\ agenda' = <<GotoOp(Fresh)>> \o Tail(agenda)
    /\ status' = [status EXCEPT ![Head(agenda).obj] = "pending"]
    /\ UNCHANGED <<cont, field, hostHolds, at, cur, host>>

\* The last branch of smop_lowlevel_refcnt_dec.
Release ==
    /\ Doing("release")
    /\ frame' = [Retain(frame, cont) EXCEPT
                   ![Fresh] = DestroyFrame(cont, Head(agenda).obj)]
    /\ agenda' = <<GotoOp(Fresh)>> \o Tail(agenda)
    /\ status' = [status EXCEPT ![Head(agenda).obj] = "pending"]
    /\ UNCHANGED <<cont, field, hostHolds, at, cur, host>>

-----------------------------------------------------------------------------
(* runloop *)

\* cont is passed to eval in a capture that holds a reference to it.
Evaluating(kind) ==
    /\ at = "eval" /\ agenda = <<>> /\ cur # NoFrame
    /\ HasNext(frame[cur]) /\ frame[cur].kind = kind

\* The frame after one more operation; its capture is released at the end.
Stepped(wait) ==
    [frame EXCEPT ![cur].pos = @ + 1, ![cur].rc = @ + 1, ![cur].wait = wait]

EvalThen(ops) ==
    /\ agenda' = ops \o <<Unref(cur)>>
    /\ at' = "reread"

InBody == Evaluating("code") /\ frame[cur].pos < Body

\* A call that returns a new object, which may take over one of the frame's.
EvalNew ==
    /\ InBody /\ Spare >= 2
    /\ \E o \in Object, own \in frame[cur].holds \cup {NoObject} :
          /\ status[o] = "unborn"
          /\ status' = [status EXCEPT ![o] = "live"]
          /\ field' = [field EXCEPT ![o] = own]
          /\ frame' = [Stepped("no") EXCEPT ![cur].holds = (@ \ {own}) \cup {o}]
    /\ EvalThen(<<>>)
    /\ UNCHANGED <<cont, hostHolds, cur, host>>

\* A call whose result overwrites a register, or a goto or a br.
EvalOverwrite ==
    /\ InBody
    /\ \/ /\ frame' = Stepped("no")
          /\ EvalThen(<<>>)
       \/ \E o \in frame[cur].holds :
             /\ frame' = [Stepped("no") EXCEPT ![cur].holds = @ \ {o}]
             /\ EvalThen(<<ReleaseOp(o)>>)
    /\ UNCHANGED <<cont, status, field, hostHolds, cur, host>>

\* Mutant: the old value of the target register is released before the call.
EvalReleaseCall ==
    /\ InBody
    /\ \E kind \in {"code", "entry"}, given \in SUBSET frame[cur].holds :
          /\ Spare >= (IF kind = "code" THEN 1 ELSE 2)
          /\ LET kept == frame[cur].holds \ given
             IN  \E old \in SUBSET kept :
                /\ Cardinality(old) <= 1
                /\ frame' = [Retain(Stepped("called"), cont) EXCEPT
                               ![cur].holds = kept \ old,
                               ![Fresh] = CodeFrame(kind, cont, given)]
                /\ EvalThen((IF old = {} THEN <<>>
                      ELSE <<ReleaseOp(CHOOSE o \in old : TRUE)>>) \o <<GotoOp(Fresh)>>)
    /\ UNCHANGED <<cont, status, field, hostHolds, cur, host>>

\* A call of code: the handler makes a frame whose $back is the continuation,
\* passes it some of the caller's objects and goes to it.  After that the old
\* value of the target register is released.
EvalCall ==
    /\ InBody
    /\ \E kind \in {"code", "entry"}, given \in SUBSET frame[cur].holds :
          /\ Spare >= (IF kind = "code" THEN 1 ELSE 2)
          /\ LET kept == frame[cur].holds \ given
             IN  \E old \in SUBSET kept :
                /\ Cardinality(old) <= 1
                /\ frame' = [Retain(Stepped("called"), cont) EXCEPT
                               ![cur].holds = kept \ old,
                               ![Fresh] = CodeFrame(kind, cont, given)]
                /\ EvalThen(<<GotoOp(Fresh)>> \o (IF old = {} THEN <<>>
                      ELSE <<ReleaseOp(CHOOSE o \in old : TRUE)>>))
    /\ UNCHANGED <<cont, status, field, hostHolds, cur, host>>

\* smop_s1p_code_mold: a frame for the body, with the same $back, takes over
\* from the frame that has bound the arguments.
EvalEnter ==
    /\ Evaluating("entry")
    /\ \E given \in SUBSET frame[cur].holds :
          /\ frame' = [Retain(Stepped("no"), frame[cur].back) EXCEPT
                         ![cur].holds = @ \ given,
                         ![Fresh] = CodeFrame("code", frame[cur].back, given)]
          /\ EvalThen(<<GotoOp(Fresh)>>)
    /\ UNCHANGED <<cont, status, field, hostHolds, cur, host>>

\* $back.setr($result): the caller gets an object, or one not counted.
EvalSetr ==
    /\ Evaluating("code") /\ frame[cur].pos = Body
    /\ LET back == frame[cur].back
       IN  \E result \in SUBSET frame[cur].holds :
             /\ Cardinality(result) <= 1
             /\ frame' = [Stepped("no") EXCEPT
                            ![cur].holds = @ \ result,
                            ![back].holds = @ \cup result,
                            ![back].wait = "answered"]
    /\ EvalThen(<<>>)
    /\ UNCHANGED <<cont, status, field, hostHolds, cur, host>>

\* Mutant: goto is passed a $back that keeps no reference of its own.
EvalReturnOnce ==
    /\ Evaluating("code") /\ frame[cur].pos = Body + 1
    /\ frame' = Stepped("no")
    /\ EvalThen(<<GotoOp(frame[cur].back)>>)
    /\ UNCHANGED <<cont, status, field, hostHolds, cur, host>>

\* $interpreter.goto($back)
EvalReturn ==
    /\ Evaluating("code") /\ frame[cur].pos = Body + 1
    /\ frame' = Retain(Stepped("no"), frame[cur].back)
    /\ EvalThen(<<GotoOp(frame[cur].back)>>)
    /\ UNCHANGED <<cont, status, field, hostHolds, cur, host>>

\* Mutant of EvalDestroyAll: eval sends the message again and again, because
\* it has not moved the frame's position.
EvalDestroyAllAgain ==
    /\ Evaluating("destroy") /\ frame[cur].pos = 0 /\ frame[cur].value \notin ByMethod
    /\ frame' = [Stepped("no") EXCEPT ![cur].pos = 0]
    /\ EvalThen(<<>>)
    /\ UNCHANGED <<cont, status, field, hostHolds, cur, host>>

\* $value.DESTROYALL($value), in a handler that releases what the object owns
EvalDestroyAll ==
    LET o == frame[cur].value
    IN  /\ Evaluating("destroy") /\ frame[cur].pos = 0 /\ o \notin ByMethod
        /\ status' = [status EXCEPT ![o] = "dead"]
        /\ field' = [field EXCEPT ![o] = NoObject]
        /\ frame' = Stepped("no")
        /\ EvalThen(IF field[o] = NoObject THEN <<>>
                    ELSE <<ReleaseOp(field[o])>>)
        /\ UNCHANGED <<cont, hostHolds, cur, host>>

\* or in a handler that makes a frame for the method and goes to it
EvalDestroyMethod ==
    LET o == frame[cur].value
    IN  /\ Evaluating("destroy") /\ frame[cur].pos = 0 /\ o \in ByMethod
        /\ status' = [status EXCEPT ![o] = "dead"]
        /\ field' = [field EXCEPT ![o] = NoObject]
        /\ frame' = [Retain(Stepped("called"), cont) EXCEPT
                       ![Fresh] = CodeFrame("code", cont, {field[o]} \ {NoObject})]
        /\ EvalThen(<<GotoOp(Fresh)>>)
        /\ UNCHANGED <<cont, hostHolds, cur, host>>

\* $interpreter.goto($current)
EvalGotoCurrent ==
    /\ Evaluating("destroy") /\ frame[cur].pos = 1
    /\ frame' = Retain(Stepped("no"), frame[cur].back)
    /\ EvalThen(<<GotoOp(frame[cur].back)>>)
    /\ UNCHANGED <<cont, status, field, hostHolds, cur, host>>

\* Mutant: runloop carries on with the continuation it started from.
RereadNot ==
    /\ at = "reread" /\ agenda = <<>>
    /\ at' = "eval"
    /\ UNCHANGED <<cont, frame, status, field, hostHolds, agenda, cur, host>>

\* The continuation may be another one by now.
Reread ==
    /\ at = "reread" /\ agenda = <<>>
    /\ at' = "eval" /\ cur' = cont
    /\ UNCHANGED <<cont, frame, status, field, hostHolds, agenda, host>>

LoopExit ==
    /\ at = "eval" /\ agenda = <<>>
    /\ ~(cur # NoFrame /\ HasNext(frame[cur]))
    /\ at' = "out" /\ cur' = NoFrame
    /\ host' = IF host = "stopping" THEN "stopped" ELSE "idle"
    /\ UNCHANGED <<cont, frame, status, field, hostHolds, agenda>>

-----------------------------------------------------------------------------
(* The host *)

HostFree == host = "idle" /\ at = "out" /\ agenda = <<>>

\* goto(frame), and loop
HostRun ==
    /\ HostFree /\ Spare >= 1
    /\ frame' = [frame EXCEPT ![Fresh] = CodeFrame("code", NoFrame, {})]
    /\ agenda' = <<GotoOp(Fresh)>>
    /\ host' = "calling"
    /\ UNCHANGED <<cont, status, field, hostHolds, at, cur>>

HostCreate ==
    /\ HostFree /\ Spare >= 2
    /\ \E o \in Object, own \in hostHolds \cup {NoObject} :
          /\ status[o] = "unborn"
          /\ status' = [status EXCEPT ![o] = "live"]
          /\ field' = [field EXCEPT ![o] = own]
          /\ hostHolds' = (hostHolds \ {own}) \cup {o}
    /\ UNCHANGED <<cont, frame, agenda, at, cur, host>>

\* SMOP::Object::DESTROY: SMOP_RELEASE, and loop
HostRelease ==
    /\ HostFree
    /\ \E o \in hostHolds :
          /\ hostHolds' = hostHolds \ {o}
          /\ agenda' = <<ReleaseOp(o)>>
    /\ host' = "calling"
    /\ UNCHANGED <<cont, frame, status, field, at, cur>>

\* Mutant: the program is over and only the loop is called again.
HostStopKeeping ==
    /\ HostFree
    /\ host' = "stopping"
    /\ UNCHANGED <<cont, frame, status, field, hostHolds, agenda, at, cur>>

\* goto(false), and the second loop of smop_loop
HostStop ==
    /\ HostFree
    /\ agenda' = <<GotoOp(NoFrame)>>
    /\ host' = "stopping"
    /\ UNCHANGED <<cont, frame, status, field, hostHolds, at, cur>>

LoopEnter ==
    /\ host \in {"calling", "stopping"} /\ at = "out" /\ agenda = <<>>
    /\ at' = "eval" /\ cur' = cont
    /\ UNCHANGED <<cont, frame, status, field, hostHolds, agenda, host>>

\* SMOP_RELEASE(SMOP__INTPTR__InterpreterInstance, interpreter): DESTROYALL of
\* the interpreter releases its continuation.
ReleaseInterpreter ==
    /\ host = "stopped"
    /\ agenda' = IF cont = NoFrame THEN <<>> ELSE <<Unref(cont)>>
    /\ cont' = NoFrame
    /\ host' = "released"
    /\ UNCHANGED <<frame, status, field, hostHolds, at, cur>>

Terminated == host = "released" /\ agenda = <<>> /\ UNCHANGED vars

-----------------------------------------------------------------------------
CStack == Goto \/ Drop \/ DropRegister \/ FreeFrame \/ Release

Eval == EvalNew \/ EvalOverwrite \/ EvalCall \/ EvalEnter \/ EvalSetr \/ EvalReturn
        \/ EvalDestroyAll \/ EvalDestroyMethod \/ EvalGotoCurrent

RunLoop == LoopEnter \/ Eval \/ Reread \/ LoopExit

Host == HostRun \/ HostCreate \/ HostRelease \/ HostStop \/ ReleaseInterpreter

Next == CStack \/ RunLoop \/ Host \/ Terminated

Spec == Init /\ [][Next]_vars

\* The C stack and the loop run on; the host need not do anything.
FairSpec == Spec /\ WF_vars(CStack \/ RunLoop)

-----------------------------------------------------------------------------
(* Properties *)

\* runloop sends next and eval to the continuation of the moment, and to a
\* frame that has not been freed, although it holds no reference of its own.
DispatchesContinuation ==
    at = "eval" => /\ cur = cont
                   /\ cur # NoFrame => frame[cur].kind # "none"

\* What refers to a frame: the interpreter, registers of other frames, and
\* the operations under way.
Backs(f) == {g \in Frame : frame[g].kind # "none" /\ frame[g].back = f}
Mentions(ops, f) == {i \in DOMAIN ops : ops[i].frame = f}

References(f) ==
    (IF cont = f THEN 1 ELSE 0) + Cardinality(Backs(f)) + Cardinality(Mentions(agenda, f))

\* No frame is leaked and none is freed early: the references that goto,
\* continuation, registers and captures pass on to one another add up.
FrameCountsExact ==
    \A f \in Frame : frame[f].rc = References(f)

\* The frames from one down to where nothing is left to go back to.
FramesUnder[f \in Frame \cup {NoFrame}] ==
    IF f = NoFrame \/ frame[f].kind = "none" THEN {}
    ELSE {f} \cup FramesUnder[frame[f].back]

\* A destruction that was started is never lost: the frame that will perform
\* it is the continuation, or what some destruction or call goes back to, or
\* about to become it.  There is one such frame.
DestructionsKept ==
    LET reached == FramesUnder[cont]
                   \cup UNION {FramesUnder[agenda[i].frame] :
                                 i \in {j \in DOMAIN agenda : agenda[j].op = "goto"}}
    IN  \A o \in Object : status[o] = "pending" =>
          Cardinality({d \in reached : /\ frame[d].kind = "destroy"
                                       /\ frame[d].value = o
                                       /\ frame[d].pos = 0}) = 1

\* goto; loop; goto(false); loop leaves an interpreter with nothing to do: no
\* continuation and no frame, and no object but those the host still has.
Owned == hostHolds \cup {o \in Object : \E p \in Live : field[p] = o}

CleanStop ==
    (host \in {"stopped", "released"} /\ agenda = <<>>) =>
        /\ cont = NoFrame
        /\ Unused = Frame
        /\ \A o \in Object : status[o] # "pending"
        /\ Live \subseteq Owned

\* A destruction, once started, is carried out: loops end, whatever they are
\* asked to destroy on the way.
DestructionsFinish ==
    \A o \in Object : status[o] = "pending" ~> status[o] = "dead"

\* To the program all this is a stack of calls.
CallsUnder[f \in Frame \cup {NoFrame}] ==
    IF f = NoFrame \/ frame[f].kind = "none" THEN <<>>
    ELSE IF frame[f].kind = "destroy" THEN CallsUnder[frame[f].back]
    ELSE LET b == frame[f].back
         IN  Append(CallsUnder[b],
                    [pos |-> IF frame[f].kind = "entry" THEN 0 ELSE frame[f].pos, wait |-> frame[f].wait,
                     destructor |-> b # NoFrame /\ frame[b].kind = "destroy"])

Calls == INSTANCE CallStack WITH calls <- CallsUnder[cont]
ImplementsCallStack == Calls!StackSpec

-----------------------------------------------------------------------------
(* The inductive invariant *)

\* The continuation, or what it is about to become
Root == IF Doing("goto") THEN Head(agenda).frame ELSE cont

\* The C stack is never deep: an operation, the release of a register's old
\* value, and the release of the frame that was evaluated.
AgendaInv ==
    /\ Len(agenda) <= 3
    /\ \A i \in 2 .. Len(agenda) :
          agenda[i].op = IF i = Len(agenda) THEN "unref" ELSE "release"
    /\ Len(agenda) = 3 => agenda[1].op # "release"

\* The loop is in the middle of an eval, or the host waits for it, or nothing
\* is left to be done.
LoopInv ==
    /\ at = "eval" => agenda = <<>> /\ cur = cont
    /\ at # "out" => host \in {"calling", "stopping"}
    /\ host \notin {"calling", "stopping"} =>
          agenda = <<>> /\ (cont = NoFrame \/ ~HasNext(frame[cont]))

\* A free frame holds nothing and is not referred to, and there are enough of
\* them for the destructions and the bodies to come.
EntriesToCome == {f \in Frame : frame[f].kind = "entry" /\ frame[f].pos = 0}
MethodsToCome == {o \in ByMethod : status[o] \in {"live", "pending"}}

RoomInv ==
    /\ \A f \in Frame : IF frame[f].kind = "none" THEN frame[f].holds = {} /\ frame[f].rc = 0
                          ELSE frame[f].rc > 0
    /\ Cardinality(Unused) >= Cardinality(Live) + Cardinality(MethodsToCome)
                                + Cardinality(EntriesToCome)

\* s is the chain of the n frames under the continuation, the oldest first.
\* All of them have still something to do, but for the body of a program that
\* has run.  One frame at most is on its way out, and has nothing left to do.
InChain(n, s, f) == \E i \in 1 .. n : s[i] = f
Leaving(n, s, f) == frame[f].kind # "none" /\ ~InChain(n, s, f)

Links(n, s) ==
    \A i \in 1 .. n :
        /\ frame[s[i]].kind # "none"
        /\ frame[s[i]].back = IF i = 1 THEN NoFrame ELSE s[i - 1]
        /\ HasNext(frame[s[i]]) \/ (i = 1 /\ frame[s[i]].kind = "code")
        /\ frame[s[i]].kind = "entry" => i > 1

LeavesOne(n, s) ==
    \A f \in Frame : Leaving(n, s, f) =>
        /\ ~HasNext(frame[f])
        /\ frame[f].back = NoFrame \/ InChain(n, s, frame[f].back)
        /\ \A g \in Frame : Leaving(n, s, g) => f = g

\* An operation that has others behind it frees no frame.
Harmless(n, s) ==
    Len(agenda) > 1 =>
        /\ agenda[1].op = "unref" =>
              agenda[1].frame = agenda[Len(agenda)].frame \/ InChain(n, s, agenda[1].frame)
        /\ agenda[1].op = "goto" =>
              cont \in {NoFrame, agenda[Len(agenda)].frame} \/ InChain(n, s, cont)

Stopping == host \in {"stopping", "stopped", "released"}

Chain(n, s) ==
    /\ \A i, j \in 1 .. n : s[i] = s[j] => i = j
    /\ Root = IF n = 0 THEN NoFrame ELSE s[n]
    /\ Links(n, s) /\ LeavesOne(n, s) /\ Harmless(n, s)
    /\ Stopping /\ n > 0 => frame[s[1]].kind = "destroy"

ChainInv == \E n \in 0 .. Cardinality(Frame) : \E s \in [1 .. n -> Frame] : Chain(n, s)

\* Who owns an object
InFrame(f, o) == o \in frame[f].holds
InObject(p, o) == field[p] = o
InAgenda(o) == \E i \in DOMAIN agenda : agenda[i].op = "release" /\ agenda[i].obj = o
SomeFrame(o) == \E f \in Frame : InFrame(f, o)
SomeObject(o) == \E p \in Object : InObject(p, o)

\* An object has one owner as long as it lives, and none before and after.
ObjectInv ==
    \A o \in Object :
        /\ \A f, g \in Frame : InFrame(f, o) /\ InFrame(g, o) => f = g
        /\ \A p, q \in Object : InObject(p, o) /\ InObject(q, o) => p = q
        /\ SomeFrame(o) => o \notin hostHolds /\ ~SomeObject(o) /\ ~InAgenda(o)
        /\ SomeObject(o) => o \notin hostHolds /\ ~InAgenda(o)
        /\ InAgenda(o) => o \notin hostHolds
        /\ status[o] = "live" <=>
              SomeFrame(o) \/ SomeObject(o) \/ InAgenda(o) \/ o \in hostHolds
        /\ status[o] \in {"unborn", "dead"} => field[o] = NoObject

\* One destruction is to come for every object whose last reference is gone.
Coming(d, o) == frame[d].kind = "destroy" /\ frame[d].value = o /\ frame[d].pos = 0

DestroyInv ==
    /\ \A d \in Frame : frame[d].kind = "destroy" => frame[d].value \in Object
    /\ \A o \in Object :
          /\ status[o] = "pending" <=> \E d \in Frame : Coming(d, o)
          /\ \A d, e \in Frame : Coming(d, o) /\ Coming(e, o) => d = e

IInv == /\ TypeOK /\ FrameCountsExact /\ AgendaInv /\ LoopInv /\ RoomInv
        /\ ChainInv /\ ObjectInv /\ DestroyInv

\* What the refinement of CallStack needs besides: how the frames of the program
\* wait for one another.  The one that has been called goes back to a body
\* that waits, or to the destruction that called a method.
Program(g) == frame[g].kind \in {"code", "entry"}
Answered(g) == frame[g].kind = "code" /\ frame[g].pos > Body
Unanswered(g) == \/ frame[g].kind = "entry" /\ frame[g].pos = 0
                 \/ frame[g].kind = "code" /\ frame[g].pos <= Body

GoesBack(g, b) ==
    /\ frame[b].kind \in {"code", "destroy"}
    /\ frame[b].kind = "code" =>
          frame[b].wait = IF Answered(g) THEN "answered" ELSE "called"

Waits(g) ==
    /\ Program(g) /\ frame[g].back # NoFrame => GoesBack(g, frame[g].back)
    /\ frame[g].kind = "code" /\ frame[g].wait = "called" =>
          \E f \in Frame : Unanswered(f) /\ frame[f].back = g
    /\ frame[g].kind = "code" /\ frame[g].back = NoFrame => frame[g].pos <= Body
    /\ frame[g].kind = "entry" => frame[g].wait = "no"

WaitInv == \A g \in Frame : Waits(g)

\* The body of a program that has run
Ran == cont = NoFrame \/ (frame[cont].kind = "code" /\ frame[cont].back = NoFrame
                           /\ frame[cont].pos = Body /\ frame[cont].wait # "called")

\* Where a goto leads: to a frame just made, for a call, a destruction or the
\* body of an entry, or back to what the continuation came from.
Newly(f) == frame[f].pos = 0 /\ frame[f].wait = "no"

Called(f) ==
    /\ Newly(f) /\ frame[f].back = cont
    /\ \/ frame[f].kind = "destroy"
       \/ /\ Program(f) /\ cont # NoFrame
          /\ \/ frame[cont].kind = "destroy"
             \/ frame[cont].kind = "code" /\ frame[cont].wait = "called"

Started(f) == frame[f].kind = "code" /\ Newly(f) /\ frame[f].back = NoFrame /\ Ran

EntersBody(f) ==
    /\ cont # NoFrame /\ frame[cont].kind = "entry"
    /\ frame[f].kind = "code" /\ Newly(f) /\ frame[f].back = frame[cont].back

Returns(f) ==
    /\ cont # NoFrame /\ f = frame[cont].back
    /\ \/ frame[cont].kind = "destroy"
       \/ /\ frame[cont].kind = "code" /\ f # NoFrame
          /\ frame[cont].pos = Body + 2 /\ frame[cont].wait # "called"

GotoInv ==
    Doing("goto") =>
        LET f == Head(agenda).frame
        IN  \/ f = NoFrame /\ Ran
            \/ f # NoFrame /\ (Called(f) \/ Started(f) \/ EntersBody(f))
            \/ Returns(f)

CallsInv == WaitInv /\ GotoInv

=============================================================================
