--------------------------- MODULE ObjectLifetime ---------------------------
(***************************************************************************)
(* What the SMOP low level promises the responder interfaces built on it,  *)
(* with no counts, no locks and no threads: an object lives as long as     *)
(* some counted pointer leads to it, starts dying with the step that drops *)
(* the last one, and is destroyed exactly once, which hands the pointer it *)
(* kept in its field over to the destroyer.                                *)
(***************************************************************************)
EXTENDS FiniteSets

CONSTANTS Object,      \* the objects the program may allocate
          Local,       \* counted pointer variables of the C program
          NoObject     \* the NULL pointer

VARIABLES ptr,         \* what each counted pointer variable points at
          phase        \* how far each object has come in its life

lifeVars == <<ptr, phase>>

\* The pointer an object owns (a scalar's cell, a capture's invocant, ...)
\* and the C local of its DESTROYALL that takes this pointer over.
Field(o) == <<"field", o>>
Moved(o) == <<"moved", o>>

Slot == Local \cup {Field(o) : o \in Object} \cup {Moved(o) : o \in Object}

Pointers(o) == {s \in Slot : ptr[s] = o}

Phases == {"unborn", "live", "dying", "dead"}

LifeTypeOK == /\ ptr \in [Slot -> Object \cup {NoObject}]
              /\ phase \in [Object -> Phases]

LifeInit == /\ ptr = [s \in Slot |-> NoObject]
            /\ phase = [o \in Object |-> "unborn"]

\* x = create(x): the new object takes over the pointer that was in x.
New(o, s) ==
    /\ phase[o] = "unborn"
    /\ ptr' = [ptr EXCEPT ![Field(o)] = ptr[s], ![s] = o]
    /\ phase' = [phase EXCEPT ![o] = "live"]

\* Only an object that some pointer leads to can be pointed at once more.
Copy(s, d) ==
    /\ ptr[s] # NoObject /\ ptr[d] = NoObject
    /\ ptr' = [ptr EXCEPT ![d] = ptr[s]]
    /\ UNCHANGED phase

Move(s, d) ==
    /\ ptr[s] # NoObject /\ ptr[d] = NoObject
    /\ ptr' = [ptr EXCEPT ![d] = ptr[s], ![s] = NoObject]
    /\ UNCHANGED phase

\* The step that drops the last pointer is the step that dooms the object.
Drop(s) ==
    /\ ptr[s] # NoObject
    /\ ptr' = [ptr EXCEPT ![s] = NoObject]
    /\ phase' = IF Pointers(ptr[s]) = {s}
                THEN [phase EXCEPT ![ptr[s]] = "dying"]
                ELSE phase

Destroy(o) ==
    /\ phase[o] = "dying"
    /\ ptr' = [ptr EXCEPT ![Moved(o)] = ptr[Field(o)], ![Field(o)] = NoObject]
    /\ phase' = [phase EXCEPT ![o] = "dead"]

LifeNext ==
    \/ \E o \in Object, s \in Local : New(o, s)
    \/ \E s, d \in Local : Copy(s, d) \/ Move(s, d)
    \/ \E s \in Slot : Drop(s)
    \/ \E o \in Object : Destroy(o)

LifeSpec == LifeInit /\ [][LifeNext]_lifeVars

=============================================================================
