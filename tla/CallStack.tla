----------------------------- MODULE CallStack -----------------------------
(***************************************************************************)
(* What a program running on a SMOP interpreter is entitled to see: a      *)
(* stack of calls.  There are no continuations, frames or references here, *)
(* and destroying objects is invisible but for the destructor methods that *)
(* run like interrupts.                                                    *)
(***************************************************************************)
EXTENDS Naturals, Sequences

CONSTANT Body          \* operations of a code body, before it returns

VARIABLE calls         \* the activations, the running one last

\* wait: whether the activation is in the middle of a call, and whether the
\* callee has delivered its result.
ActivationOf(destructor) == [pos |-> 0, wait |-> "no", destructor |-> destructor]

Top == calls[Len(calls)]
Under == SubSeq(calls, 1, Len(calls) - 1)

\* The program has run to its end and returned from every call it made.
Finished ==
    \/ calls = <<>>
    \/ Len(calls) = 1 /\ calls[1].pos = Body /\ calls[1].wait # "called"

Begin == Finished /\ calls' = <<ActivationOf(FALSE)>>

End == Finished /\ calls' = <<>>

\* The running activation performs its next operation, and so starts a call
\* or not.  One whose call has not returned cannot.
Advance ==
    /\ calls # <<>> /\ Top.wait # "called"
    /\ \E wait \in {"no", "called"} :
          calls' = Append(Under, [Top EXCEPT !.pos = @ + 1, !.wait = wait])

Enter ==
    /\ calls # <<>> /\ Top.wait = "called"
    /\ calls' = Append(calls, ActivationOf(FALSE))

\* A destructor runs between two operations of whatever is running.
Interrupt == calls' = Append(calls, ActivationOf(TRUE))

\* The callee delivers its result to the activation that called it.
Answer ==
    /\ Len(calls) > 1 /\ ~Top.destructor
    /\ LET caller == calls[Len(calls) - 1]
       IN  /\ caller.wait = "called"
           /\ calls' = Append(Append(SubSeq(Under, 1, Len(Under) - 1),
                                     [caller EXCEPT !.wait = "answered"]),
                              [Top EXCEPT !.pos = @ + 1, !.wait = "no"])

\* Control returns to the caller, which finds its result there, or to where
\* the destructor interrupted.
Leave ==
    /\ calls # <<>> /\ Top.pos = Body + 2 /\ Top.wait # "called"
    /\ ~Top.destructor => Len(calls) > 1 /\ calls[Len(calls) - 1].wait = "answered"
    /\ calls' = Under

StackNext == Begin \/ End \/ Advance \/ Enter \/ Interrupt \/ Answer \/ Leave

StackSpec == calls = <<>> /\ [][StackNext]_calls

=============================================================================
