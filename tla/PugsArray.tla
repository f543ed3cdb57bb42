----------------------------- MODULE PugsArray -----------------------------
(***************************************************************************)
(* The transactions of Pugs's arrays, src/src/Pugs/Types/Array.hs.  An     *)
(* IArray is one TVar that holds the elements, and an element is a scalar  *)
(* container with a TVar of its own: taking an element out of the array    *)
(* leaves the container to whoever has already fetched it.                 *)
(*                                                                         *)
(* An array is a record: elems are the containers in order, by number, and *)
(* val is what each container ever made for this array holds.              *)
(***************************************************************************)
LOCAL INSTANCE Integers
LOCAL INSTANCE Sequences

undef == "undef"

NewArray == [elems |-> <<>>, val |-> <<>>]

a_size(a) == Len(a.elems)

\* newScalar for n more elements, each of them holding v.
Grown(a, n, v) ==
    [elems |-> a.elems \o [i \in 1 .. n |-> Len(a.val) + i],
     val   |-> a.val \o [i \in 1 .. n |-> v]]

array_push(a, v) == Grown(a, 1, v)

\* Mutant of array_extendSize: the size asked for is taken for an index.
array_extendShort(a, sz) == IF a_size(a) < sz THEN Grown(a, sz - 1 - a_size(a), undef) ELSE a

array_extendSize(a, sz) == IF a_size(a) < sz THEN Grown(a, sz - a_size(a), undef) ELSE a

\* What array_shift and array_pop write back; they return the container that
\* was there, to be read after the transaction.
Shifted(a) == [a EXCEPT !.elems = Tail(@)]
Popped(a) == [a EXCEPT !.elems = SubSeq(@, 1, Len(@) - 1)]

\* getArrayIndex: the container at idx, or 0 when the array is too short.
getArrayIndex(a, idx) == IF idx < a_size(a) THEN a.elems[idx + 1] ELSE 0

scalar_store(a, container, v) == [a EXCEPT !.val[container] = v]
=============================================================================
