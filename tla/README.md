# A TLA+ model of the Pugs run times: SMOP, and the threads of Pugs

Pugs is a Perl 6 implementation.  The repository holds an interpreter in
Haskell (`src/src/Pugs`), several bootstrapping compilers (`src/v6`), and a
large body of tests, Perl modules and documents.  This project is about the
parts where order and sharing matter most.  One is **SMOP** (`src/v6/smop`), a
run time in C in which everything is an object that answers messages, objects
are counted, several OS threads may share them, and control is passed around as
continuations.  The other is what **threads in Pugs** share: Perl 6 code that
runs in Haskell threads over lexical pads, scalars and arrays, in and out of
software transactions.  All paths below are relative to `src/v6/smop` unless
they start with `src/`.

## 1. The system

| Component | State it keeps | Operations | What is hard |
|---|---|---|---|
| low level, `src/lowlevel.sm0p` | `ref_cnt` and an rwlock per object | alloc, refcnt_inc, refcnt_dec, free, lock | several threads on one count; destroying an object uses the very operations that count it; destruction nests, and is partly deferred |
| interpreter, `src/interpreter.c` | one continuation | goto, continuation, loop, setr, DESTROYALL | every call, return and destruction replaces the one continuation, also while the loop is evaluating it |
| mold frames, `src/mold.c` | position, registers, back, target | create, set_reg, set_back, has_next, eval, setr, DESTROYALL | a result is delivered to whoever is waiting for it, not returned; frames keep one another alive |
| constant identifiers, `src/idconst.c` | a sorted array of all names | create | identity is the address: one object for each name, from any thread |
| scalar, `src/s1p_scalar.c` | a cell | FETCH, STORE, new, DESTROYALL | references are taken and given up outside the lock |
| captures, `src/native_capture.c` | invocant, positional and named arguments | create, delegate, lookup, FETCH | every message owns one, and releases it; named arguments of two kinds, one of them sorted |
| code objects and iterators, `src/s1p_code.sm0p`, `src/s1p_array_iterator.sm0p` | mold, outer scope, signature; index | call, next item | return by `setr` and `goto` on the caller's frame |
| arrays and proxies, `src/s1p_array.c` | elements, their number, room for more | push, unshift, `[ ]`, FETCH, STORE | the old element is released before the slot is written; no lock |
| hashes, bvalues, lexical scopes, `src/s1p_hash.sm0p`, `src/s1p_hash_bvalue.ri`, `src/s1p_lexicalscope.ri` | a chain of buckets; a hash and a key; a hash and an outer scope | bind_key, lookup_key, exists, `{ }` | the hash is used after it was released; scopes delegate; no lock |
| p6opaque, `src/p6opaque.sm0p` | storage per object and class | DISPATCH, REPR_* | methods, and DESTROYALL itself, run by continuation |
| boot and shutdown, `src/smop.c`, `src/internal.h` | the global interpreter | init, loop, destr | objects are destroyed by a loop that has to be called |
| Perl 5 binding, `SMOP/SMOP.xs` | references held by Perl 5 | constructors, run, DESTROY | the host decides when the loop is called |
| Pugs threads, `src/src/Pugs/Prim.hs` | a lock for the result of each thread | async, join, detach, kill, contend, maybe, defer | who gets the result, and once; what a failed or deferred block leaves behind |
| Pugs evaluator, `src/src/Pugs/Eval.hs`, `Monads.hs` | environments, pads, `subStarted` | enter a sub, loop, assign, bind | every access outside a transaction is one of its own; threads enter the same sub |
| Pugs containers, `src/src/Pugs/Types/*.hs` | a TVar for an array, one for each scalar, a mutable table for a hash | push, shift, pop, fetch, store | an operation is several transactions |

How they interact: a message is sent by calling the handler of an object's
responder interface with the interpreter and a capture.  A handler owns the
capture and releases it, and the objects it fetched from it, when it ends.  A
handler that runs code makes a mold frame, stores the current continuation in
it and calls `goto` on the interpreter; the code runs when the loop gets to it.
The last release of an object makes such a frame too, so that a release
anywhere may put a frame in front of the continuation.  Identifiers are never
counted.  Perl 5, the C test drivers and `smop_loop` call the loop.

What makes each part correct:

- low level: counts are exact; an object is destroyed once, by one thread, when
  nothing refers to it any more, and in the end is;
- interpreter and frames: a program sees a stack of calls; no destruction is
  lost or done twice, no frame is leaked or freed while something may go back to it;
- identifiers: one per name; the search finds what is there;
- scalar: what was in the cell is released once; nobody works with a value that is gone;
- captures and containers: every reference taken is kept, returned or given up;
  nothing is used after it is gone; arguments and bindings are found again;
- Pugs threads: no increment and no element is lost; a result goes to whoever
  joins, once; a thread's own variables are its own;
- p6opaque, boot, map and grep, junctions: planned (section 6).

`PROJECT.json` lists every component with its status, and every hazard at its line.

## 2. The modules

    ObjectLifetime  <--implements--  SmopLowlevel  <--  MCSmopLowlevel
                                          ^-- SmopLowlevelProofs  <--  SmopLifetimeProofs
    CallStack       <--implements--  SmopInterpreter  <--  MCSmopInterpreter
                                          ^-- SmopInterpreterProofs  <--  SmopCallStackProofs
                                     SmopIdconst  <--  MCSmopIdconst
                                          ^-- SmopIdconstProofs
                                     SmopScalar   <--  MCSmopScalar
                                          ^-- SmopScalarProofs
                                     SmopMessages <--  MCSmopMessages
                                          ^-- SmopMessagesProofs
    PugsArray  <--extends--  PugsThreads  <--  MCPugsThreads
                                  ^-- PugsThreadsProofs

A `Proofs` module holds the theorems about the module it extends (section 5).
Definitions named as mutants in a comment are plausible bugs of the operation
after them.  They are part of no specification; each is there to show that a
property would notice.

**SmopLowlevel** models `refcnt_inc` and `refcnt_dec` as threads run them: lock,
load, store, unlock.  `ptr` is every counted pointer variable of the program
(locals of threads, one field per object, and the C local in which DESTROYALL
keeps the field's pointer while it releases it), so that "the count is right"
can be said.  `stack` is the nested destructions on a thread's C stack, `chain`
the destruction frames in front of its interpreter's continuation.
`Direct` is the case distinction of `refcnt_dec`; `DirectKind` are the molds,
frames, captures and interpreters.  An object has one field: DESTROYALL is
that of a scalar, and stands for the handlers that move their pointers out
under the lock.

**ObjectLifetime** is what this promises: pointers, and objects that are unborn,
live, dying or dead.  The step that drops the last pointer is the one that dooms the object.

**SmopInterpreter** models one interpreter (they belong to one thread each).
`agenda` is what the C stack has still to do: `goto`, release of a frame,
release of an object.  Each of these may push more, and `runloop` goes on when
the agenda is empty.  `at` and `cur` are its program counter and its local
`cont`.  Frames have the counts that the code gives them; objects have one
owner each, because counting them is SmopLowlevel's subject.  A frame's code is
abstract: `Body` operations, each of which may create an object, overwrite a
register or call code, then `setr` and `goto`.  An *entry* frame is
`smop_s1p_code_mold`, which binds arguments and hands its back to the body.  An
object in `ByMethod` is destroyed by a method that runs by continuation, as
p6opaque's are: it counts as destroyed when the method is dispatched, so that
what is shown of it is that the method starts, not that it ends.  `HostRun` leaves
out the host's own reference to the frame it runs (`SMOP/SMOP.xs:173`), which only
keeps that frame longer.  `wait` is not in the code: it records whether an activation
is in the middle of a call, for the refinement.

**CallStack** is what a program may rely on: a stack of activations; a caller
goes on only when its callee has delivered a result; destructors run between
two operations, like interrupts, and do not answer for anybody.

**SmopIdconst** models the pool with `bsearch` as single comparisons and `qsort` as
exchanges of neighbours, so that another thread may look in between.
`cmp_idconst`, `strncmp` and the copy made by `strncpy` are modelled on
sequences of bytes, since where a NUL or a prefix ends a name is what matters.

**SmopScalar** models messages to one scalar; a count is one step here, which
SmopLowlevel justifies.  It keeps track of what the message's own capture
still holds.  FETCH, STORE and the last user's DESTROYALL overlap freely.  `late` is
history: the values that a FETCH referenced when they were already gone.

**SmopMessages** composes captures with the containers that receive them:
`native_capture.c`, `s1p_array.c`, the hash, its bvalues and lexical scopes.
An action is a handler as far as its releases, which go to `todo`, the C stack,
and are made one at a time; a capture is destroyed there and then, other
objects by `chain`, the frames in front of the continuation.  Three handlers go
on after a release has come back (`pending`): STORE of a proxy and `bind_key`
write their slot, `lookup_key` references what it has found in a hash it no
longer owns.  `capture_named` is the binary search over arguments sorted by the
address of their keys, `Passed` and `Overwritten` are what `capture_delegate`
does to them.  A scope's messages are delegated to its hash within one action,
as the handler calls the other one.  The molds of hashes, bvalues and scopes
(`{ }`, `exists`, `lookup`, BIND, FETCH, STORE) keep a capture in a register
and send messages; they are callers like any other, so their messages are
actions and they are not.  `Arranged` puts arguments in an order by saying how
many come before each: the order of addresses is what `qsort` makes, the order of
places what the loop of `capture_create` does.  A reference is a place in an object's
`References`, and the number of references is the size of a set of places
(`Referring`, `Occurrences`).  `given` and `bound` are history: the arguments a
capture was asked to carry, and what was bound in a hash.  `lost` counts, for each
object, references that the code forgets, which keeps `CountsExact` an equation that
says of every other operation that it forgets none.  Three do: FETCH of a capture,
`capture_delegate` of named arguments of both kinds, and a hash asked with a counted
key.  A hash makes an identifier of a string (`KeyOf`) and gives the string's
reference up; any other object is a key by its address, and the reference that
`capture_positional` took to it is kept by a new bucket, but by nothing else (`Kept`).
The content of scalars is SmopScalar's.

**PugsThreads** models Haskell threads that run the sub of
`src/t/spec/S17-async/contend.t`: a loop with variables of its own around one of
several bodies, or an operation on the array of the module **PugsArray**, or a
join.  Every access to a variable is a step (`Fetch`, `Store`).
Outside a transaction it is an `atomically` of its own (`AST/Eval.hs`, `liftSTM`);
in a block of `contend` or `maybe`, and in `post:++` and `post:--` (`atomicEval`), it
works on the transaction's log.  The log belongs to GHC's library and is modelled by what
it promises (`Noted`, `Valid`): what a block has come across is read in the log, its
writes are made when it ends and nothing it has come across has changed, and it
begins again otherwise (`Restart`).  What the code adds to that is which accesses go to
the log, and what happens to a block that dies (`Commits`) or defers (`OrDefer`,
`Wake`, `Alternative`).  The blocks themselves (`Code`) are the test's two assignments, one
`++`, and two in their manner, which take from `$counter` before they look, or die.  Each
operation in PugsArray is one transaction in the code, and one step.  `started` and
`lex` are `subStarted` and the variables in every pad, `lock` is the `TMVar` in which
a thread leaves its result.  `hist` is history that the code does not keep: blocks that
ended, rounds made, results taken, elements taken out.  The main thread goes on when a
thread it joins has died; in the code it may end then (`evaluate'`, `Eval.hs:153-156`), which
allows less.

## 3. What the runs check

| Run | Instance | Shows |
|---|---|---|
| `lowlevel` | 2 threads, 3 objects (one direct), 3 locals | exact counts, no dangling pointer, no use after free, no nested lock, each object destroyed once; implements ObjectLifetime |
| `lowlevel_live` | 2 threads, 2 objects | everything unreferenced is destroyed in the end |
| `lowlevel_freed` | same | **violated**: by continuation it is never freed |
| `interpreter` | 5 frames, 3 objects (one by method), bodies of 2 | no destruction lost, exact frame counts, a clean stop, every destruction carried out; implements CallStack |
| `idconst` | 2 threads; 4 names, 2 of them asked for by calls that overlap, 1 at boot | readers see a sorted pool, the search is right, nothing is lost, at most one duplicate per thread, calls return; calls that overlap no other intern names as far as the first NUL, whatever others left behind |
| `idconst_race` | 2 threads | **violated**: two identifiers for one name |
| `idconst_stale` | 2 threads | **violated**: an identifier with another name |
| `scalar` | 3 threads, 2 values; any messages overlap | exact counts; nobody works with a value that is gone, unless a FETCH came late to it |
| `scalar_fetch` | 2 threads, 3 values | **violated**: a fetched value is gone before it is referenced |
| `messages` | 5 names for objects; six programs: of 1 array, 1 proxy, 2 values and 1 capture; of 2 captures and 2 values; of 1 hash, 1 bvalue, 2 values and 1 capture, with identifiers as keys; of 1 hash, 1 bvalue, 1 value and 1 capture, with objects as keys; of 1 hash, 1 string, 1 value and 1 capture; of 1 scope with its hash, 2 values and 2 captures | every reference is in its place or one of those known to be forgotten, no pointer to what is gone, arguments found by place and by name, one bucket per key with what was bound last |
| `pugs_threads` | 2 threads and the main one, 1 round, 1 detach; four mixes of bodies | counters add up, a block that defers never overdraws, loops make their rounds, results are taken once and by the right thread, no element is lost, an assignment fails only by a race, joins return |
| `pugs_first_call` | 2 threads, 2 rounds of `contend` | **violated**: two first calls of a sub share its variables |

Why the bounds are enough.  The low level's races need two threads on one
object, and its nesting an object that owns one that owns one; both destruction
kinds occur at either end.  The interpreter's interesting cases are a call, a
release after it, a destructor method that calls and creates, and nested
releases: five frames are a caller and a callee with a destruction, its method
and one more above them.  Programs may make a call or an object only while
enough frames are left for the destructions this may lead to (`Spare`): memory
for a frame is never short in the code.  Duplicated identifiers need two
threads between search and append, and the order of names one prefix.  A
scalar's value may overtake another store's with two threads, and a third can end it;
two values are one that is stored over another.
A duplicate under `idconst` needs two calls that overlap; `Contended` says which
names these may ask for, so that the others are those of calls that overlap no
other.  In SmopMessages a name (`Object`) is used again when its object is gone,
so that the number of objects in a history is not bounded, only how many there are at a time:
`Clients` says how many of each kind a program may have, which arguments it
passes to which receivers, and how many references it may lose (`lost`).  Two
elements (`MaxElems`) are an array with a slot that is not the first; two keys a
chain with a bucket that is not the last; two named arguments an order.  Indices of arrays
and places of arguments are not negative, though the code takes an int for both and checks neither
(`src/s1p_array.c:117,127-130`, `src/native_capture.c:321`).  Nothing is released by the
prototype of interpreters, the first case of `refcnt_dec`
(`src/lowlevel.sm0p:155-170`; SmopLowlevel has it as a direct destruction), and a bvalue's DEBUG,
which prints, is left out.  One program has one container, and captures are not
put into arrays: the counts of different containers do not meet.  In PugsThreads one round
(`Rounds`) makes a block of one thread meet one of the other, and begin again when that has
committed; what more of them do, which no run with liveness could hold, is left to the proofs, and
`pugs_first_call` has two.  One detach (`MaxDetach`) fills a lock twice.  `Mixes` puts side by side what works
on the same variables.  The program has put
one element into the array before; an assignment is to the second (`Index`), so
that the array has to be extended, and a `pop` may meet a `push`.

`SYMMETRY` is used for the scalar's values and the names of SmopMessages, in
runs without liveness.  Which free frame an allocation returns makes no
difference, so a `CHOOSE` picks one.

Terminating behaviours of the low level, the interpreter, the identifiers and
the scalar end in a step that changes nothing (`Terminated`, `Over`), so that
deadlock is checked there.  It is not checked in `messages`, where a program may
have left all its objects in cycles or lost them and can make no further one
within the bounds, nor in the runs on Pugs threads, which may all have ended, or
wait for one another in `join`, or defer for ever.

Where the code is not what is written about it:

- five findings in `PROJECT.json`, each with its run;
- `createn_nolist` copies with `strncpy`, and `cmp_idconst` compares with `strncmp`,
  which stop at a NUL (`src/idconst.c:111`), while `test/03_const_identifier.c:42`
  wants the NUL "part of the compairision".  `AloneInterns` therefore speaks of
  names as far as their first NUL;
- a `contend` block that dies keeps what it wrote before, as `runEvalSTM` makes
  a value of the exception.  `CountersAddUp` counts it so;
- `detach` fills the lock of a thread; after the thread has ended it does
  nothing, and a later `join` still gives the thread's own result;
- `capture_delegate`, which by `include/smop_native.h:51-53` "creates a clone",
  loses arguments when the original has both kinds of keys (`src/native_capture.c:444`).
  `ArgumentsFound` leaves that case out: it says of other delegates that they have what their
  original was given;
- captures are "subject to gc" (`src/native_capture.c:9-12`), but FETCH of one
  leaks the capture and its receiver (`src/native_capture.c:129-131`).  A hash leaks keys as well,
  if they are counted and no strings (`src/s1p_hash.sm0p:66,87-91,126-128,175-190`); no text says
  what keys may be.  The model does what the code does, and counts these references in `lost`.

## 4. Fairness

- SmopLowlevel: weak fairness for a thread inside a call (`Proceed`); strong
  fairness for a lock that keeps becoming free, since the critical sections are
  bounded; strong fairness for entering the loop.  The last is an assumption on
  programs: `SMOP::Object::DESTROY` (`SMOP/SMOP.xs:25-29`), `smop_loop`
  (`src/smop.c:19-33`) and the generated drivers (`m0ld/m0ld_boilerplate_back`)
  call the loop after they release.  Without it nothing is ever destroyed by continuation.
- SmopInterpreter: weak fairness of the C stack and the loop, which are one
  thread; the host need do nothing.
- SmopIdconst: as SmopLowlevel for locks; callers need not call.
- PugsThreads: weak fairness for each worker that can take a step, and for a
  join of the main thread whose lock is full.  GHC's scheduler runs every
  runnable thread, and wakes a blocked one when what it waits for changes.  The
  main thread need not create, join, detach or kill anybody.
- SmopMessages states safety only.

## 5. What is proved

`SmopLowlevelProofs.tla` proves, for any sets of threads, objects and pointer
variables that satisfy `LowlevelAssumption` (finite sets of objects and of
locals, each local owned by a thread, null values outside), that `Spec`
implies always `TypeOK`, `CountMatchesPointers`, `NoDangling` and
`NoRecursionWhileLocked`, and the action property `LifecycleForward`.

None of these is inductive.  A store writes what an earlier load saw, so
`LockInv` (who is inside a call on an object holds its lock) and `LoadInv`
(what was loaded is still there) are needed for the count.  A decrement removes
a pointer that was there when the call began: `IncInv`, `DecInv` and
`DistinctDrops` say that a call's pointers are its thread's own, or were taken
out of an object by its DESTROYALL, and that no two calls drop the same one.
`EmptyInv` is about fields before and after an object's life.  `OneDestroyer`
says that an object being destroyed is the business of one thread, and
`SentinelInv` that its count is 999 until the one release of itself that its
destruction makes: with this the release cannot reach zero again.  `IInv` is
their conjunction.  The proof has lemmas on the cardinality of the pointer set
when one variable changes, one lemma for each action, and the theorems at the
end.  TLC was used on each conjunct before.

`PugsThreadsProofs.tla` proves, for any finite set of threads and any `Mixes`,
`Rounds` and `MaxDetach` that satisfy `ThreadsAssumption`, that `Spec` implies
always `TypeOK`, `ResultsTakenOnce`, `JoinGivesResult`, `ElementsKept`,
`AssignmentFailsByRace`, `CountersAddUp`, `NeverOverdrawn` and `RoundsMade`.  Its `IInv` adds to the types what the place of a
thread tells about it (`Place`: a loop runs in a known pad, an assignment that
extends is an assignment, a join knows whom).  `ResultInv` ties what is in a
lock, or was taken from it, to a thread that has ended or to a detach; a count
of joins alone would not say whose result it was.  `TakenInv` says that the
containers in the array and those taken out are together all that were made,
each once, for which the array's own operations are shown to keep its elements
distinct (`Appended`, `WithoutHead`, `WithoutLast`).  `RaceInv` says that while
a thread is between its extension and its second fetch, the array is long
enough, or somebody has shortened it.  There is one lemma for what each action
does to its thread's record, and one step per action for each part of `IInv`.

`SmopLifetimeProofs.tla` proves that the low level implements ObjectLifetime
(`Refinement`, the property `ImplementsLifetime`) and `NoUseAfterFree`, under
the same assumption.  Both need to know more of an object than its count:
`PlaceInv` says that what a thread is about to unlock is live or doomed, and
at which stage of its life every object on a C stack or in a chain is, by
where it stands there.  Each step then maps to one of the abstract ones or to
none; the one that dooms an object is the store of a zero.

`SmopScalarProofs.tla` proves `TypeOK`, `CountsExact` and `ValuesAlive`, for any
finite sets of threads and values and any overlap of messages.  `Holders` is the set of all
threads' references to a value; every step is shown to add or take one of them together with a
count.  `WriterInv` says that what STORE or DESTROYALL has read under the write lock is still in
the cell until it is written, `UsersInv` that the last thread destroys the scalar
alone.  What the code does not guarantee is in the properties, not in a hypothesis: a value is
`late` once a FETCH has referenced it when it was gone (`LateInv`, `FetchInv`); its count goes on being
exact, but no reference brings it back.  `scalar_fetch` shows that this happens.

The second half of `PugsThreadsProofs.tla` proves the properties of counters and rounds.  Rounds are
history, and are counted for each pad (`hist.done`).  The loop variable of a
pad is never ahead of it (`PadCount`), and equal to it while one call has the pad to
itself (`Made`), whatever threads in other pads do; of calls that share the
sub's first pad, which is what `pugs_first_call` is about, it is known only that
they end when enough rounds were made between them.  For `CountersAddUp`, `BlockInv` says what the log
of a block contains at each of its lines: what it has read is what it saw, and what it is going
to write is that and the changes of the lines before.  A block ends only when what it saw is still
there, so that its writes are its change of the variables as they are then; without
the log's check, or with one access that goes past the log, the step would not follow.  `NeverOverdrawn`
holds because the line that defers looks at what the block itself has written.

`SmopIdconstProofs.tla` proves all the safety properties of the pool:
`TypeOK`, `SortedWhenShared`, `NothingLost`, `SearchFinds`, `DuplicatesBounded`,
`AloneInterns` and `AloneReturnsItsName`.  It is shown that `cmp_idconst` is a linear
order on contents; the sort under way is an exchange of neighbours in a pool that
keeps its elements; a search holds the read lock, so that the pool stays
sorted, and what it looks for is never outside the part still to be searched.  A
second copy of a content can only come from a thread that had looked before the
first was appended, which bounds the copies by the threads.  `AloneInterns` is
about the names whose contents no overlapping calls ask for: a copy that
those leave behind would let a later lone call find the one or the other.  The
assumption that the names made at boot have different contents is true of
the 115 names of `src/idconst_init_all.c`.

`SmopInterpreterProofs.tla` proves `TypeOK`, `FrameCountsExact`,
`DispatchesContinuation`, `CleanStop` and `DestructionsKept`, for any finite
sets of frames and objects, any choice of those destroyed by a method, and bodies
of any length.  Exact counts alone are not inductive, as nothing in them says that a
back is not freed while a frame still has it to return to, or that frames do not lead back to
themselves.  `ChainInv` says that the frames under the continuation, or under
the target of a `goto` in progress, are one chain without repetition, each
with something left to do; at most one other frame exists, which is on its way out
and goes back into the chain.  `AgendaInv` and `Harmless` bound the C
stack, and say that an operation with others behind it frees no frame: that is what
lets the release of a register's old value, after a call, find the
continuation alive.  `ObjectInv` gives every live object one owner.  `RoomInv` says
that a free frame is left for every destruction that may come, without which `Fresh`
would be undefined; the code has no such limit, and `Spare` keeps programs within it.
`DestroyInv` gives every object whose last reference is gone exactly one frame that has
still to destroy it.  While the interpreter stops, the bottom of the chain is a
destruction frame, which goes back to nothing; a loop that has ended then has no
chain left, and this is `CleanStop`.  `FramesUnder` recurses over the chain.  No
induction over it is available, but the chain itself is a witness for the function
that its definition chooses, and least numbers (WellFoundedInduction) do the rest.

`SmopCallStackProofs.tla` proves that the interpreter implements CallStack
(`IsACallStack`, the property `ImplementsCallStack`), under the same
assumption.  Two more invariants are needed for it.  `WaitInv` says how frames
wait for one another: what goes back to a body finds it waiting, and told of
the answer when it has given one; and who waits is waited for by a frame that
has not answered yet, so that the frame under evaluation never waits.  `GotoInv` says where a `goto`
in progress leads: to a frame just made for a call, for a destruction or for the body of
an entry, or back to where the continuation came from.  The calls under a frame
(`CallsUnder`) depend on the frames under it in the chain only (`CallsStand`), which an
evaluation leaves as they are but for the caller that is told of an answer.  A
`goto` then is the beginning or the end of a program, an entry, a return, an
interrupt, or does not show; `setr` is an answer, unless it is a method's that
destroys, to which nobody listens; other operations advance, and
the C stack does not show at all.

`SmopMessagesProofs.tla` proves `TypeOK`, `CountsExact`, `PointersAlive`,
`BindingsKept` and `ArgumentsFound`, for any finite sets of objects and
identifiers, any programs (`Clients`) and any size of arrays.  The first four follow
from `IInv`.  It adds to the counts and bindings themselves that objects have the
fields of their kind (`Typed`), that an array's room covers its elements and what a
proxy, a bvalue or a scope refers to is of the kind it needs (`ArrayFits`, `Linked`), what a
handler that waits for a release will go on with (`PendingFits`), and that nobody refers to
what waits to be destroyed, which is never a capture (`ChainFits`).  References are counted
as pairs of an object and one of its slots; the slot that STORE or `bind_key` is
about to write is taken out of them (`Masked`).  A handler that starts on an idle C
stack is shown to move references between variables, slots and pending releases,
and to count those it adds (`IdleStep`); a release, a write after it, or a
destruction is shown to take one of them away together with its count
(`RunStep`).  That STORE still has its array after the release is a consequence: its
proxy is among the releases that are still to be made, and the proxy refers to the array.
`bind_key` and `lookup_key` go on with a hash that the releases have left alive
because nothing is destroyed by a frame before the handler has returned.

`ArgumentsAreFound` rests on `AInv`: a capture has the positional arguments it was
given, and its optimised arguments are the given ones in the order of their
addresses, also when it was made from another one by `capture_delegate`
(`PassedIds`).  The binary search recurses over ranges of places; that there is the
function it chooses is shown by the least size of a range for which there would be
none.  A key is never outside the range still searched, since the arguments are
ordered, and with injective addresses the argument found has the key asked for
(`FindsKey`).

What is only model-checked: the liveness properties `EventuallyDestroyed`,
`DestructionsFinish`, `CallsReturn` and `JoinReturns`, which are out of the proof
system's reach.  Every other property of a passing run is a theorem.

The assumptions in the modules (`LowlevelAssumption`, `InterpreterAssumption`,
`IdconstAssumption`, `ScalarAssumption`, `ThreadsAssumption`,
`MessagesAssumption`) are all that the theorems take for granted of the constants:
finite sets of threads, frames and objects, null values that are no members of
them, different addresses of different identifiers, and tables of the right shape.
The runs evaluate them on their instances.

## 6. Plan

1. *Done*: low level, its abstraction and proof; interpreter and frames, with
   their abstraction; identifiers; scalar; captures, arrays, hashes and scopes
   as receivers of messages; threads, transactions and arrays in Pugs, and their proof.
2. Threads in one container: hash chains and arrays take no lock.  The search
   and append of a chain are what the identifiers do without their write lock.
3. `SmopMold`: opcodes, registers and target in detail.  map, grep and the
   array iterator, which are loops in continuations; lookup through outer scopes
   with an abstract map from names to values.
4. p6opaque and multi dispatch as operators checked against a reference; code
   objects, signatures and the natives' accessors.
5. Boot and shutdown: the order of the sequences in `src/internal.h`.
6. Pugs: hashes, `lazy`, junctions that fork, `coro`, `gather`; the evaluation
   monad's control flow; C3 as an operator.
7. Proofs: *done* for every safety property of the passing runs (section 5).
   New components bring their own.

## 7. Not modelled

Parsers and code generators (their behaviour is in text), the m0ld compiler and
the source preprocessors (they end before anything runs), the Perl 5 and Haskell
foreign interfaces (the behaviour is in libraries outside the repository), the
generated bootstrapping compilers, the memory tracing of the low level, and
assertions that end the process when the operating system is out of memory.

Most of the repository's C is not its own program: of 41651 lines,
`src/src/cbits/Prelude_pm.c` (29854) is generated from a parsed prelude and
`SMOP/ppport.h` (6376) is a vendored header of Perl's.  Much of the program is in
Haskell, `.sm0p` and `.ri` files, which are C and m0ld with a preprocessor in
front; the modules above are about those as much as about C.
