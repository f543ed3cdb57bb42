---------------------------- MODULE SmopMessages ----------------------------
(***************************************************************************)
(* Messages, their captures and the containers that receive them:          *)
(* native_capture.c, s1p_array.c, s1p_hash.sm0p, s1p_hash_bvalue.ri and    *)
(* s1p_lexicalscope.ri in src/v6/smop/src.                                 *)
(*                                                                         *)
(* Code that calls a method makes a capture, which takes over the          *)
(* references to the receiver and to the arguments, and gives its own      *)
(* reference to the capture to the handler.  A handler takes references    *)
(* out of the capture, keeps or returns some of them, and releases the     *)
(* rest.  An action is a handler up to its releases; they go to todo, the  *)
(* C stack, and are made one at a time.  A capture whose count reaches     *)
(* zero is destroyed at once, any other object by a frame that runs when   *)
(* the handler has returned (smop_lowlevel_refcnt_dec, which SmopLowlevel  *)
(* has in detail).  One interpreter runs here.                             *)
(*                                                                         *)
(* The molds of these files - { } and exists of a hash, BIND, FETCH and    *)
(* STORE of a bvalue, lookup of a scope - are frames that keep the capture *)
(* in a register and send further messages: they are calling code too.     *)
(***************************************************************************)
EXTENDS Integers, Sequences, FiniteSetsExt, SequencesExt

CONSTANTS Object,         \* names for counted objects; a name is used again
          Interpreter,    \* the interpreter, an object of its own
          IntptrCapture,  \* smop_native_intptr_invocant_capture
          Id,             \* constant identifiers: never counted
          Address,        \* where each of them is
          NoObject,       \* NULL
          MaxElems,       \* elements of an array
          Clients         \* programs: how many objects of each kind they may
                          \* have (room), the arguments they pass, by receiver
                          \* (calls), and the references they may lose (lost)

Kinds == {"value", "str", "array", "proxy", "hash", "bvalue", "scope", "capture"}

ASSUME MessagesAssumption ==
    /\ IsFiniteSet(Object) /\ IsFiniteSet(Id)
    /\ Object \cap Id = {} /\ Interpreter \notin Object \cup Id
    /\ {IntptrCapture, NoObject} \cap (Object \cup Id \cup {Interpreter}) = {}
    /\ Address \in [Id -> Nat] /\ IsInjective(Address)
    /\ MaxElems \in Nat
    /\ \A client \in Clients :
          /\ client.room \in [Kinds -> Nat]
          /\ client.lost \in Nat
          /\ DOMAIN client.calls = Kinds \cup {"free", "interpreter", "none"}
          /\ \A args \in UNION Range(client.calls) :
                /\ args.positional \in Seq(Object \cup Id)
                /\ args.named \in Seq([key : Object \cup Id, value : Object \cup Id])

Counted == Object \cup {Interpreter}
Item == Object \cup Id

VARIABLES heap,    \* every object
          refCnt,  \* its ref_cnt
          held,    \* what the registers of the calling code refer to
          todo,    \* the SMOP_RELEASE calls still to be made by the C code
          chain,   \* the destructions the interpreter has still to run
          pending, \* the handler that goes on when its releases are made
          lost,    \* how many references to it the code has forgotten
          given,   \* the arguments each capture was asked to carry
          bound,   \* what each hash was asked to bind
          client   \* the calling program

vars == <<heap, refCnt, held, todo, chain, pending, lost, given, bound, client>>

-----------------------------------------------------------------------------
Free == [kind |-> "free"]
Value == [kind |-> "value"]      \* an object of no interest, or an integer
Str(id) == [kind |-> "str", id |-> id]   \* a string that spells an identifier
Array(content, elems) == [kind |-> "array", content |-> content, elems |-> elems]
Proxy(array, index) == [kind |-> "proxy", array |-> array, index |-> index]

\* There is one chain of buckets, as size is 1 and hashing_result 0.
Hash(buckets) == [kind |-> "hash", buckets |-> buckets]
Bucket(key, cell) == [key |-> key, cell |-> cell]
BValue(owner, key) == [kind |-> "bvalue", owner |-> owner, key |-> key]
Scope(entries, outer) == [kind |-> "scope", entries |-> entries, outer |-> outer]

\* named_argument
Named(key, value) == [key |-> key, value |-> value]

Arguments(positional, named) == [positional |-> positional, named |-> named]
NoArguments == Arguments(<<>>, <<>>)

\* l_opt of capture_create: the pairs whose key is a constant identifier
IdKey(n) == n.key \in Id
OtherKey(n) == n.key \notin Id

\* Mutant of cmp_opt_named: the arguments stay in the order they came in.
cmp_opt_namedNever(m, n) == FALSE

cmp_opt_named(m, n) == Address[m.key] < Address[n.key]

\* The elements of seq at these places, in the order that "before" relates them
Arranged(seq, places, before) ==
    [n \in 1 .. Cardinality(places) |->
        seq[CHOOSE i \in places : Cardinality({j \in places : <<j, i>> \in before}) = n - 1]]

\* qsort of the arguments at these places
Sorted(named, places) ==
    LET before == {p \in places \X places :
                     LET m == named[p[1]]  n == named[p[2]]
                     IN  cmp_opt_named(m, n) \/ (~cmp_opt_named(n, m) /\ p[1] < p[2])}
    IN  Arranged(named, places, before)

\* The arguments at these places as they come
InOrder(named, places) == Arranged(named, places, {p \in places \X places : p[1] < p[2]})

\* The new object of capture_create, with its named arguments split by kind
\* and the optimised ones sorted by address.
Capture(invocant, args) ==
    [kind |-> "capture", invocant |-> invocant, positional |-> args.positional,
     o_named |-> Sorted(args.named, {i \in DOMAIN args.named : IdKey(args.named[i])}),
     named |-> InOrder(args.named, {i \in DOMAIN args.named : OtherKey(args.named[i])})]

\* The two captures made at startup are never counted; in the empty one there
\* is nothing to follow.
At(c) == IF c = IntptrCapture THEN Capture(Interpreter, NoArguments) ELSE heap[c]

capture_invocant(c) == At(c).invocant

\* Here p counts from zero, as in the code.
capture_positional(c, p) ==
    IF p < Len(At(c).positional) THEN At(c).positional[p + 1] ELSE NoObject

\* bsearch over the sorted arguments; the middle is where glibc looks first.
capture_named(c, id) ==
    LET o_named == At(c).o_named
        Middle(r) == (r[1] + r[2]) \div 2
        find[r \in (0 .. Len(o_named)) \X (0 .. Len(o_named))] ==
            IF r[1] >= r[2] THEN NoObject
            ELSE LET n == o_named[Middle(r) + 1]
                 IN  CASE Address[id] = Address[n.key] -> n.value
                       [] Address[id] < Address[n.key] -> find[<<r[1], Middle(r)>>]
                       [] OTHER -> find[<<Middle(r) + 1, r[2]>>]
    IN  IF id \in Id THEN find[<<0, Len(o_named)>>] ELSE NoObject

Keys(named) == [i \in DOMAIN named |-> named[i].key]
Values(named) == [i \in DOMAIN named |-> named[i].value]

\* The keys and cells of a chain of buckets, in the order they are released in
KeysAndCells(buckets) ==
    [i \in 1 .. 2 * Len(buckets) |->
        LET b == buckets[(i + 1) \div 2] IN IF i % 2 = 1 THEN b.key ELSE b.cell]

\* The references that an object keeps
References(body) ==
    CASE body.kind = "array" -> body.content
      [] body.kind = "proxy" -> <<body.array>>
      [] body.kind = "hash" -> KeysAndCells(body.buckets)
      [] body.kind = "bvalue" -> <<body.owner, body.key>>
      [] body.kind = "scope" -> <<body.entries, body.outer>>
      [] body.kind = "capture" ->
            <<body.invocant>> \o body.positional
            \o Keys(body.o_named) \o Values(body.o_named)
            \o Keys(body.named) \o Values(body.named)
      [] OTHER -> <<>>

Kind(o) == CASE o \in Object -> heap[o].kind
             [] o = Interpreter -> "interpreter"
             [] o = IntptrCapture -> "capture"
             [] OTHER -> "none"

Where(seq, o) == {i \in DOMAIN seq : seq[i] = o}
Occurrences(seq, o) == Cardinality(Where(seq, o))

\* Only what is counted is referenced and released: SMOP_REFERENCE and
\* SMOP_RELEASE of an identifier, of the shared captures and of a prototype do
\* nothing, and NULL is tested for.
Plus(bag, seq) == [o \in DOMAIN bag |-> bag[o] + Occurrences(seq, o)]
Minus(bag, seq) == [o \in DOMAIN bag |-> bag[o] - Occurrences(seq, o)]

\* A handler in the middle: it writes a slot of obj, or reads it, when the C
\* stack has come back to it, and then makes the releases in "then".
Pending(op, obj, slot, value, then) ==
    [op |-> op, obj |-> obj, slot |-> slot, value |-> value, then |-> then]
NoPending == Pending("none", NoObject, 0, NoObject, <<>>)

Forgets(seq) ==
    /\ lost' = Plus(lost, seq)
    /\ SumFunction(lost') <= client.lost

TypeOK ==
    /\ \A o \in Object :
          CASE heap[o].kind = "array" ->
                  /\ heap[o].elems \in 0 .. Len(heap[o].content)
                  /\ heap[o].content \in BoundedSeq(Item \cup {NoObject}, MaxElems)
            [] heap[o].kind = "proxy" ->
                  heap[o].array \in Object /\ heap[o].index \in 0 .. MaxElems - 1
            [] heap[o].kind = "hash" ->
                  Range(heap[o].buckets) \subseteq [key : Item, cell : Item]
            [] heap[o].kind = "bvalue" -> heap[o].owner \in Object /\ heap[o].key \in Item
            [] heap[o].kind = "str" -> heap[o].id \in Id
            [] heap[o].kind = "scope" -> {heap[o].entries, heap[o].outer} \subseteq Object
            [] heap[o].kind = "capture" ->
                  /\ heap[o].invocant \in Counted \cup {IntptrCapture, NoObject}
                  /\ heap[o].positional \in Seq(Item)
                  /\ Range(heap[o].o_named) \subseteq [key : Id, value : Item]
                  /\ Range(heap[o].named) \subseteq [key : Object, value : Item]
            [] OTHER -> heap[o] \in {Free, Value}
    /\ refCnt \in [Counted -> Nat]
    /\ held \subseteq Object
    /\ IsInjective(chain)
    /\ pending.op \in {"none", "STORE", "bind_key", "lookup_key"}
    /\ pending # NoPending =>
          /\ heap[pending.obj].kind \in {"array", "hash"}
          /\ pending.slot \in DOMAIN References(heap[pending.obj])
    /\ client \in Clients

Init ==
    /\ heap = [o \in Object |-> Free]
    /\ refCnt = [o \in Counted |-> IF o = Interpreter THEN 1 ELSE 0]
    /\ held = {}
    /\ todo = <<>> /\ chain = <<>>
    /\ pending = NoPending
    /\ lost = [o \in Counted |-> 0]
    /\ given = [o \in Object |-> NoArguments]
    /\ bound = [o \in Object |-> {}]
    /\ client \in Clients

-----------------------------------------------------------------------------
(* The code that calls                                                      *)

CCode == todo # <<>> \/ pending # NoPending
Idle == ~CCode /\ chain = <<>>

\* A name for a new object, within the bounds
Unused(o, kind) ==
    /\ heap[o].kind = "free"
    /\ Cardinality({p \in Object : heap[p].kind = kind}) < client.room[kind]

NewObject(o, body) ==
    /\ Idle /\ Unused(o, body.kind)
    /\ heap' = [heap EXCEPT ![o] = body]
    /\ refCnt' = [refCnt EXCEPT ![o] = 1]
    /\ held' = held \cup {o}
    /\ UNCHANGED <<todo, chain, pending, lost, given, bound, client>>

New(o) == NewObject(o, Value)

\* SMOP__S1P__Str_create
Str_create(o, id) == NewObject(o, Str(id))

\* SMOP__S1P__Array_create
Array_create(o) == NewObject(o, Array(<<>>, 0))

\* SMOP__S1P__Hash_create
Hash_create(o) == NewObject(o, Hash(<<>>))

\* new of a lexical scope, with a hash and a scalar of its own
NewScope(s, entries, outer) ==
    /\ Idle /\ Cardinality({s, entries, outer}) = 3
    /\ Unused(s, "scope") /\ Unused(entries, "hash") /\ Unused(outer, "value")
    /\ heap' = [heap EXCEPT ![s] = Scope(entries, outer), ![entries] = Hash(<<>>), ![outer] = Value]
    /\ refCnt' = [refCnt EXCEPT ![s] = 1, ![entries] = 1, ![outer] = 1]
    /\ held' = held \cup {s}
    /\ UNCHANGED <<todo, chain, pending, lost, given, bound, client>>

Release(o) ==
    /\ Idle /\ o \in held
    /\ held' = held \ {o}
    /\ todo' = <<o>>
    /\ UNCHANGED <<heap, refCnt, chain, pending, lost, given, bound, client>>

Known(seq) == Range(seq) \cap Object \subseteq held

\* capture_create, called with new references to what is in the registers: c is
\* the new capture, unless one of the shared ones will do.
capture_create(c, invocant, args) ==
    LET refs == <<invocant>> \o args.positional \o Keys(args.named) \o Values(args.named)
    IN  /\ Idle /\ Unused(c, "capture") /\ Known(refs)
        /\ IF args = NoArguments /\ invocant = NoObject THEN UNCHANGED vars
           ELSE IF args = NoArguments /\ invocant = Interpreter
           THEN /\ refCnt' = Plus(refCnt, refs)
                /\ todo' = <<Interpreter>>
                /\ UNCHANGED <<heap, held, chain, pending, lost, given, bound, client>>
           ELSE /\ heap' = [heap EXCEPT ![c] = Capture(invocant, args)]
                /\ refCnt' = [Plus(refCnt, refs) EXCEPT ![c] = 1]
                /\ held' = held \cup {c}
                /\ given' = [given EXCEPT ![c] = args]
                /\ UNCHANGED <<todo, chain, pending, lost, bound, client>>

\* The named arguments that capture_delegate passes on: both kinds are written
\* from the start of one list, so that the second overwrites the first, and
\* the hole that leaves at the end of the list is never looked behind.
Overwritten(k) == SubSeq(At(k).named, 1, Min({Len(At(k).o_named), Len(At(k).named)}))
Passed(k) == At(k).o_named \o SubSeq(At(k).named, Len(At(k).o_named) + 1, Len(At(k).named))

\* capture_delegate, called with new references to both: a capture with the
\* arguments of k for another receiver.  k is not one of the shared captures.
capture_delegate(c, invocant, k) ==
    LET args == Arguments(At(k).positional, Passed(k))
        shared == invocant = Interpreter /\ args = NoArguments
        gone == Keys(Overwritten(k)) \o Values(Overwritten(k))
        refs == <<invocant, k>> \o Tail(References(At(k)))
    IN  /\ Idle /\ Unused(c, "capture") /\ heap[k].kind = "capture"
        /\ Known(<<invocant, k>>)
        /\ \E usual \in client.calls[Kind(invocant)] : usual.positional = args.positional
        /\ todo' = IF shared THEN <<k, Interpreter>> ELSE <<k>>
        /\ refCnt' = [Plus(refCnt, refs) EXCEPT ![c] = IF shared THEN 0 ELSE 1]
        /\ IF shared THEN UNCHANGED <<heap, held, given>>
           ELSE /\ heap' = [heap EXCEPT ![c] = Capture(invocant, args)]
                /\ held' = held \cup {c}
                /\ given' = [given EXCEPT ![c] = IF gone = <<>> THEN given[k] ELSE args]
        /\ Forgets(gone)
        /\ UNCHANGED <<chain, pending, bound, client>>

-----------------------------------------------------------------------------
(* Handlers.  c is the capture of the message.                              *)

Receives(c, kind) ==
    /\ Idle /\ c \in held
    /\ heap[c].kind = "capture"
    /\ capture_invocant(c) \in Object
    /\ heap[capture_invocant(c)].kind = kind

\* A handler that takes and releases these references and returns ret, which
\* the caller puts in a register unless it has it already.
Replies(c, taken, ret, released) ==
    /\ refCnt' = Plus(refCnt, taken)
    /\ held' = (held \ {c}) \cup ({ret} \cap Object)
    /\ todo' = released \o (IF ret \in (held \ {c}) \cup {Interpreter} THEN <<ret>> ELSE <<>>)

\* One that returns the new object n.
RepliesNew(c, n, body, taken, released) ==
    /\ Unused(n, body.kind)
    /\ heap' = [heap EXCEPT ![n] = body]
    /\ refCnt' = [Plus(refCnt, taken) EXCEPT ![n] = 1]
    /\ held' = (held \ {c}) \cup {n}
    /\ todo' = released
    /\ UNCHANGED <<chain, pending, given, bound, client>>

\* Mutant of resize_array: one slot less than the code makes.
resize_arrayShort(content, size) ==
    IF size - 1 > Len(content)
    THEN content \o [i \in 1 .. size - 1 - Len(content) |-> NoObject] ELSE content

\* The new slots are NULL.
resize_array(content, size) ==
    IF size > Len(content)
    THEN content \o [i \in 1 .. size - Len(content) |-> NoObject] ELSE content

\* The array keeps the reference that capture_positional has made; without an
\* argument it keeps NULL.
Push(c) ==
    LET a == capture_invocant(c)
        value == capture_positional(c, 0)
        content == resize_array(heap[a].content, heap[a].elems + 1)
    IN  /\ heap[a].elems < MaxElems
        /\ heap' = [heap EXCEPT ![a] = Array([content EXCEPT ![heap[a].elems + 1] = value],
                                             heap[a].elems + 1)]
        /\ Replies(c, <<a, value>>, NoObject, <<a, c>>)
        /\ UNCHANGED <<chain, pending, lost, given, bound, client>>

\* memmove by one slot; the slots beyond the elements stay where they are.
Unshift(c) ==
    LET a == capture_invocant(c)
        value == capture_positional(c, 0)
        n == heap[a].elems
        content == resize_array(heap[a].content, n + 1)
    IN  /\ n < MaxElems
        /\ heap' = [heap EXCEPT ![a] =
                      Array(<<value>> \o SubSeq(content, 1, n) \o SubSeq(content, n + 2, Len(content)),
                            n + 1)]
        /\ Replies(c, <<a, value>>, NoObject, <<a, c>>)
        /\ UNCHANGED <<chain, pending, lost, given, bound, client>>

\* postcircumfix:[ ] makes a proxy p, for the index in its argument.
Square(c, p, i) ==
    LET a == capture_invocant(c)
        pos0 == capture_positional(c, 0)
    IN  /\ pos0 \in Object /\ heap[pos0].kind = "value"
        /\ RepliesNew(c, p, Proxy(a, i), <<a, pos0, a>>, <<pos0, a, c>>)
        /\ UNCHANGED lost

\* elems, of an array, a proxy and a capture
Elems(c, n) ==
    LET o == capture_invocant(c)
    IN  /\ RepliesNew(c, n, Value, <<o>>, <<o, c>>)
        /\ UNCHANGED lost

\* FETCH of an array and List of a proxy: ___VALUE_FETCH___
ValueFetch(c) ==
    LET o == capture_invocant(c)
    IN  /\ Replies(c, <<o, o>>, o, <<o, c>>)
        /\ UNCHANGED <<heap, chain, pending, lost, given, bound, client>>

\* An element beyond the end and one that is NULL are fetched as false.
Element(p) ==
    LET a == heap[heap[p].array]
    IN  IF heap[p].index < a.elems THEN a.content[heap[p].index + 1] ELSE NoObject

\* Mutant of ProxyFetch: the element is returned without a reference.
ProxyFetchBorrowing(c) ==
    LET p == capture_invocant(c)
    IN  /\ Replies(c, <<p>>, Element(p), <<p, c>>)
        /\ UNCHANGED <<heap, chain, pending, lost, given, bound, client>>

ProxyFetch(c) ==
    LET p == capture_invocant(c)
    IN  /\ Replies(c, <<p, Element(p)>>, Element(p), <<p, c>>)
        /\ UNCHANGED <<heap, chain, pending, lost, given, bound, client>>

\* STORE of a proxy makes room and releases what is in the slot; only then
\* does it write the slot.
ProxyStore(c) ==
    LET p == capture_invocant(c)
        a == heap[p].array
        content == resize_array(heap[a].content, heap[p].index + 1)
    IN  /\ heap' = [heap EXCEPT ![a] = Array(content, @.elems)]
        /\ Replies(c, <<p>>, NoObject, <<content[heap[p].index + 1]>>)
        /\ pending' = Pending("STORE", a, heap[p].index + 1, NoObject, <<p, c>>)
        /\ UNCHANGED <<chain, lost, given, bound, client>>

\* Mutant of ProxyPut: the number of elements is not adjusted.
ProxyPutShort ==
    LET a == pending.obj
        value == capture_positional(pending.then[2], 0)
    IN  /\ pending.op = "STORE" /\ todo = <<>>
        /\ heap' = [heap EXCEPT ![a].content[pending.slot] = value]
        /\ refCnt' = Plus(refCnt, <<value>>)
        /\ todo' = pending.then
        /\ pending' = NoPending
        /\ UNCHANGED <<held, chain, lost, given, bound, client>>

ProxyPut ==
    LET a == pending.obj
        value == capture_positional(pending.then[2], 0)
    IN  /\ pending.op = "STORE" /\ todo = <<>>
        /\ heap' = [heap EXCEPT ![a] = Array([@.content EXCEPT ![pending.slot] = value],
                                             Max({@.elems, pending.slot}))]
        /\ refCnt' = Plus(refCnt, <<value>>)
        /\ todo' = pending.then
        /\ pending' = NoPending
        /\ UNCHANGED <<held, chain, lost, given, bound, client>>

\* Messages that return a boolean and change nothing: defined and true of a
\* proxy, true of a scope, and messages to a hash with the wrong number of
\* arguments.
Asks(c) ==
    LET o == capture_invocant(c)
    IN  /\ Replies(c, <<o>>, NoObject, <<o, c>>)
        /\ UNCHANGED <<heap, chain, pending, lost, given, bound, client>>

-----------------------------------------------------------------------------
(* Hashes, and scopes that delegate to them                                 *)

\* What a hash knows a key by: a string is made an identifier, and its reference
\* is given up at once; any other object is its own key, with the reference
\* that capture_positional has made.
IsStr(key) == key \in Object /\ heap[key].kind = "str"
KeyOf(key) == IF IsStr(key) THEN heap[key].id ELSE key
Kept(key) == IF IsStr(key) THEN NoObject ELSE key

\* Mutant of Found: the last bucket is not compared.
FoundBefore(h, key) == {i \in 1 .. Len(heap[h].buckets) - 1 : heap[h].buckets[i].key = key}

\* The buckets with a key; there is at most one (BindingsKept).
Found(h, key) == {i \in DOMAIN heap[h].buckets : heap[h].buckets[i].key = key}

\* History: what is bound when the key is bound to the cell
Bound(buckets, key, cell) == {b \in buckets : b.key # key} \cup {Bucket(key, cell)}

\* bind_key of hash h, with d as the capture that the hash receives, or that a
\* scope has just made for it, and "then" what the scope's handler releases
\* afterwards.  A new key gets a bucket at the end.  A key that is there loses
\* its old cell when the hash and the capture have been released, and gets the
\* new one after that; the reference made to the key is forgotten.
Bind(h, d, body, then) ==
    LET key == KeyOf(body.positional[1])
        value == body.positional[2]
        found == Found(h, key)
    IN  /\ Len(body.positional) = 2
        /\ IF found = {}
           THEN /\ heap' = [heap EXCEPT ![d] = body,
                                         ![h] = Hash(Append(@.buckets, Bucket(key, value)))]
                /\ bound' = [bound EXCEPT ![h] = Bound(@, key, value)]
                /\ todo' = <<h, d>> \o then
                /\ UNCHANGED <<pending, lost>>
           ELSE /\ heap' = [heap EXCEPT ![d] = body]
                /\ UNCHANGED bound
                /\ todo' = <<h, d>> \o <<heap[h].buckets[Min(found)].cell>>
                /\ pending' = Pending("bind_key", h, 2 * Min(found), value, then)
                /\ Forgets(<<Kept(body.positional[1])>>)

BindKey(c) ==
    LET h == capture_invocant(c)
        args == At(c).positional
    IN  /\ Bind(h, c, heap[c], <<>>)
        /\ refCnt' = Plus(refCnt, <<h, Kept(args[1]), args[2]>>)
        /\ held' = held \ {c}
        /\ UNCHANGED <<chain, given, client>>

BindPut ==
    LET h == pending.obj
        buckets == heap[h].buckets
        n == pending.slot \div 2
    IN  /\ pending.op = "bind_key" /\ todo = <<>>
        /\ heap' = [heap EXCEPT ![h] = Hash([buckets EXCEPT ![n].cell = pending.value])]
        /\ bound' = [bound EXCEPT ![h] = Bound(@, buckets[n].key, pending.value)]
        /\ todo' = pending.then
        /\ pending' = NoPending
        /\ UNCHANGED <<refCnt, held, chain, lost, given, client>>

\* lookup_key references the cell when it has already released the hash, and
\* forgets the reference to the key.
LookupKey(c) ==
    LET h == capture_invocant(c)
        args == At(c).positional
        found == Found(h, KeyOf(args[1]))
    IN  /\ Len(args) = 1 /\ found # {}
        /\ Replies(c, <<h, Kept(args[1])>>, NoObject, <<h, c>>)
        /\ pending' = Pending("lookup_key", h, 2 * Min(found), NoObject, <<>>)
        /\ Forgets(<<Kept(args[1])>>)
        /\ UNCHANGED <<heap, chain, given, bound, client>>

LookupReturn ==
    LET cell == heap[pending.obj].buckets[pending.slot \div 2].cell
    IN  /\ pending.op = "lookup_key" /\ todo = <<>>
        /\ refCnt' = Plus(refCnt, <<cell>>)
        /\ held' = held \cup ({cell} \cap Object)
        /\ todo' = IF cell \in held \cup {Interpreter} THEN <<cell>> ELSE <<>>
        /\ pending' = NoPending
        /\ UNCHANGED <<heap, chain, lost, given, bound, client>>

\* A key that is not there gets a new scalar.
LookupNew(c, cell) ==
    LET h == capture_invocant(c)
        args == At(c).positional
        key == KeyOf(args[1])
    IN  /\ Len(args) = 1 /\ Found(h, key) = {}
        /\ Unused(cell, "value")
        /\ heap' = [heap EXCEPT ![cell] = Value,
                                 ![h] = Hash(Append(@.buckets, Bucket(key, cell)))]
        /\ refCnt' = [Plus(refCnt, <<h, Kept(args[1])>>) EXCEPT ![cell] = 2]
        /\ held' = (held \ {c}) \cup {cell}
        /\ todo' = <<h, c>>
        /\ bound' = [bound EXCEPT ![h] = Bound(@, key, cell)]
        /\ UNCHANGED <<chain, pending, lost, given, client>>

\* What the mold of exists sends: the reference to the key is forgotten, found
\* or not.
Exists(c) ==
    LET h == capture_invocant(c)
        args == At(c).positional
    IN  /\ Len(args) = 1
        /\ Replies(c, <<h, Kept(args[1])>>, NoObject, <<h, c>>)
        /\ Forgets(<<Kept(args[1])>>)
        /\ UNCHANGED <<heap, chain, pending, given, bound, client>>

\* What the mold of postcircumfix:{ } sends: b is the new bvalue, which gets a
\* reference to the key of its own; the one made before is forgotten.
Curly(c, b) ==
    LET h == capture_invocant(c)
        args == At(c).positional
        kept == Kept(args[1])
    IN  /\ Len(args) = 1
        /\ RepliesNew(c, b, BValue(h, KeyOf(args[1])), <<h, h, kept, kept>>, <<h, c>>)
        /\ Forgets(<<kept>>)

\* owner and key of a bvalue; entries and outer of a scope
Get(c, field) ==
    LET o == capture_invocant(c)
        ret == heap[o][field]
    IN  /\ Replies(c, <<o, ret>>, ret, <<o, c>>)
        /\ UNCHANGED <<heap, chain, pending, lost, given, bound, client>>

\* What a scope passes on to its hash, for a message without named arguments
Delegate(c) == Capture(heap[capture_invocant(c)].entries, Arguments(At(c).positional, Passed(c)))

\* postcircumfix:{ } and exists of a scope: the frame that the hash makes for
\* the message keeps the new capture d.
ScopePass(c, d) ==
    LET s == capture_invocant(c)
    IN  /\ Unused(d, "capture") /\ Passed(c) = <<>>
        /\ heap' = [heap EXCEPT ![d] = Delegate(c)]
        /\ refCnt' = [Plus(refCnt, <<s>> \o References(Delegate(c))) EXCEPT ![d] = 1]
        /\ given' = [given EXCEPT ![d] = Arguments(At(c).positional, <<>>)]
        /\ held' = (held \ {c}) \cup {d}
        /\ todo' = <<s, c>>
        /\ UNCHANGED <<chain, pending, lost, bound, client>>

\* bind_key of a scope
ScopeBind(c, d) ==
    LET s == capture_invocant(c)
        h == heap[s].entries
        args == At(c).positional
    IN  /\ Unused(d, "capture") /\ Passed(c) = <<>>
        /\ Bind(h, d, Delegate(c), <<s, c>>)
        /\ refCnt' = [Plus(refCnt, <<s, h, Kept(args[1]), args[2]>> \o References(Delegate(c)))
                      EXCEPT ![d] = 1]
        /\ given' = [given EXCEPT ![d] = Arguments(At(c).positional, <<>>)]
        /\ held' = held \ {c}
        /\ UNCHANGED <<chain, client>>

-----------------------------------------------------------------------------
(* Captures that are themselves the receiver                                *)

\* invocant, positional and named
CaptureInvocant(c) ==
    LET k == capture_invocant(c)
        ret == capture_invocant(k)
    IN  /\ Replies(c, <<k, ret>>, ret, <<k, c>>)
        /\ UNCHANGED <<heap, chain, pending, lost, given, bound, client>>

CapturePositional(c, p) ==
    LET k == capture_invocant(c)
        intask == capture_positional(c, 0)
        ret == capture_positional(k, p)
    IN  /\ intask \in Object /\ heap[intask].kind = "value"
        /\ Replies(c, <<k, intask, ret>>, ret, <<intask, k, c>>)
        /\ UNCHANGED <<heap, chain, pending, lost, given, bound, client>>

CaptureNamed(c) ==
    LET k == capture_invocant(c)
        named_ask == capture_positional(c, 0)
        ret == capture_named(k, named_ask)
    IN  /\ named_ask # NoObject
        /\ Replies(c, <<k, named_ask, ret>>, ret, <<named_ask, k, c>>)
        /\ UNCHANGED <<heap, chain, pending, lost, given, bound, client>>

\* FETCH of a capture references the receiver twice, returns one of the
\* references and forgets the other and its own reference to c.
CaptureFetch(c) ==
    LET k == capture_invocant(c)
    IN  /\ Replies(c, <<k, k>>, k, <<>>)
        /\ Forgets(<<k, c>>)
        /\ UNCHANGED <<heap, chain, pending, given, bound, client>>

-----------------------------------------------------------------------------
(* Releases                                                                 *)

\* smop_lowlevel_refcnt_dec of the objects on the C stack, as far as the first
\* whose count it takes to zero.  DESTROYALL of a capture releases the invocant,
\* then the arguments, by kind.
ReleaseNext ==
    LET Zero(i) == /\ todo[i] \in Counted
                   /\ Occurrences(SubSeq(todo, 1, i), todo[i]) = refCnt[todo[i]]
        zeros == {i \in DOMAIN todo : Zero(i)}
        n == IF zeros = {} THEN Len(todo) ELSE Min(zeros)
        rest == SubSeq(todo, n + 1, Len(todo))
        o == todo[n]
    IN  /\ todo # <<>>
        /\ refCnt' = Minus(refCnt, SubSeq(todo, 1, n))
        /\ IF zeros = {}
           THEN todo' = rest /\ UNCHANGED <<heap, chain, given>>
           ELSE IF heap[o].kind = "capture"
           THEN /\ todo' = References(heap[o]) \o rest
                /\ heap' = [heap EXCEPT ![o] = Free]
                /\ given' = [given EXCEPT ![o] = NoArguments]
                /\ UNCHANGED chain
           ELSE /\ todo' = rest
                /\ chain' = <<o>> \o chain
                /\ UNCHANGED <<heap, given>>
        /\ UNCHANGED <<held, pending, lost, bound, client>>

\* The DESTROYALL of the last frame pushed.  An array releases its elements,
\* not what might lie behind them.
Destroy ==
    LET o == Head(chain)
        body == heap[o]
    IN  /\ ~CCode /\ chain # <<>>
        /\ todo' = IF body.kind = "array" THEN SubSeq(body.content, 1, body.elems)
                   ELSE References(body)
        /\ heap' = [heap EXCEPT ![o] = Free]
        /\ chain' = Tail(chain)
        /\ bound' = [bound EXCEPT ![o] = {}]
        /\ UNCHANGED <<refCnt, held, pending, lost, given, client>>

-----------------------------------------------------------------------------
Client ==
    \/ \E o \in Object : New(o) \/ Array_create(o) \/ Hash_create(o)
    \/ \E o \in Object, id \in Id : Str_create(o, id)
    \/ \E s, entries, outer \in Object : NewScope(s, entries, outer)
    \/ \E o \in Object : Release(o)
    \/ \E c \in Object,
          invocant \in Counted \cup {IntptrCapture, NoObject} :
             \E args \in client.calls[Kind(invocant)] : capture_create(c, invocant, args)
    \/ \E c, k \in Object, invocant \in Counted : capture_delegate(c, invocant, k)

Send ==
    \E c \in Object :
       \/ /\ Receives(c, "array")
          /\ \/ Push(c) \/ Unshift(c) \/ ValueFetch(c)
             \/ \E n \in Object : Elems(c, n)
             \/ \E p \in Object, i \in 0 .. MaxElems - 1 : Square(c, p, i)
       \/ /\ Receives(c, "proxy")
          /\ \/ ProxyFetch(c) \/ ProxyStore(c) \/ ValueFetch(c) \/ Asks(c)
             \/ \E n \in Object : Elems(c, n)
       \/ /\ Receives(c, "hash")
          /\ \/ BindKey(c) \/ LookupKey(c) \/ Exists(c) \/ ValueFetch(c) \/ Asks(c)
             \/ \E n \in Object : LookupNew(c, n) \/ Curly(c, n)
       \/ /\ Receives(c, "bvalue")
          /\ Get(c, "owner") \/ Get(c, "key")
       \/ /\ Receives(c, "scope")
          /\ \/ Get(c, "entries") \/ Get(c, "outer") \/ Asks(c)
             \/ \E d \in Object : ScopePass(c, d) \/ ScopeBind(c, d)
       \/ /\ Receives(c, "capture")
          /\ \/ CaptureInvocant(c) \/ CaptureNamed(c) \/ CaptureFetch(c)
             \/ \E p \in 0 .. 1 : CapturePositional(c, p)
             \/ \E n \in Object : Elems(c, n)

Runtime == ReleaseNext \/ ProxyPut \/ BindPut \/ LookupReturn \/ Destroy

Next == Client \/ Send \/ Runtime

Spec == Init /\ [][Next]_vars

-----------------------------------------------------------------------------
(* Properties *)

\* What an object refers to, without the slot that STORE or bind_key has
\* released and not yet written.
Slots(a) ==
    IF pending.obj = a /\ pending.op \in {"STORE", "bind_key"}
    THEN [References(heap[a]) EXCEPT ![pending.slot] = NoObject]
    ELSE References(heap[a])

\* The references of a handler in the middle
InHandler == Append(pending.then, pending.value)

\* The slots that refer to an object, as pairs of their object and their number
Referring(o) == UNION {{a} \X Where(Slots(a), o) : a \in Object}

Owners(o) ==
    Cardinality(Referring(o)) + (IF o \in held THEN 1 ELSE 0)
    + Occurrences(todo, o) + Occurrences(InHandler, o) + lost[o]
    + (IF o = Interpreter THEN 1 ELSE 0)

\* Whatever is called on captures and containers, in any order, every reference
\* is owned by one object, one variable or one pending release, but for those
\* that are forgotten by FETCH of a capture, by delegating two kinds of named
\* arguments, and by asking a hash with a counted key other than a string, or
\* binding one it has already; and an object is there exactly as long as it is
\* referenced.
CountsExact ==
    /\ \A o \in Counted : refCnt[o] = Owners(o)
    /\ \A o \in Object : heap[o].kind # "free" <=> refCnt[o] > 0 \/ o \in Range(chain)

\* No object, variable or pending release points to an object that is gone or
\* waits to be destroyed, except the slot that is about to be written; and the
\* container that a handler goes on with, after it has released it, is there.
PointersAlive ==
    LET pointed == (UNION {Range(Slots(a)) : a \in Object})
                   \cup Range(todo) \cup held \cup Range(InHandler)
    IN  /\ \A o \in pointed \cap Object : heap[o].kind # "free" /\ o \notin Range(chain)
        /\ pending.obj \in Object => heap[pending.obj].kind \in {"array", "hash"}

\* A hash has one bucket for every key that was ever bound or looked up in it,
\* with what was bound last, whoever bound it: directly, by a bvalue or by a scope.
BindingsKept ==
    \A h \in Object : heap[h].kind = "hash" =>
        Range(heap[h].buckets) = bound[h] /\ IsInjective(Keys(heap[h].buckets))

\* What a capture was made with can be found in it: every positional argument
\* at its place, and under every constant identifier a value given for it.  A
\* delegate has the arguments of its original, unless they had both kinds of
\* keys.
ArgumentsFound ==
    \A c \in Object : heap[c].kind = "capture" =>
        /\ heap[c].positional = given[c].positional
        /\ \A n \in Range(given[c].named) :
              IdKey(n) => Named(n.key, capture_named(c, n.key)) \in Range(given[c].named)
=============================================================================
