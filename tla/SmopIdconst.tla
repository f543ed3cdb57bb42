---------------------------- MODULE SmopIdconst ----------------------------
(***************************************************************************)
(* The pool of constant identifiers, src/v6/smop/src/idconst.c.  Every     *)
(* method name and hash key in SMOP is one of these objects and is         *)
(* compared by address, so two calls of idconst_createn with one name must *)
(* return one object.                                                      *)
(*                                                                         *)
(* The pool is an array kept sorted by cmp_idconst.  createn searches it   *)
(* with bsearch under the read lock, dereferences what bsearch returned    *)
(* after the unlock, and appends and sorts under the write lock, which it  *)
(* takes afterwards.  bsearch, qsort, realloc and the rwlock belong to the *)
(* C library: the search and the sort are the steps they make on the array.*)
(***************************************************************************)
EXTENDS Integers, Sequences, FiniteSets

CONSTANTS Thread,
          Name,        \* the names asked for, as sequences of bytes
          Contended,   \* the names that calls which overlap may ask for
          Boot         \* the names of idconst_init_all.c

NUL == 0

VARIABLES ident,       \* content of every identifier, in order of creation
          constlist,   \* the pool: indices into ident
          call,        \* the idconst_createn each thread is inside of
          given        \* history: the identifiers returned for each name

vars == <<ident, constlist, call, given>>

-----------------------------------------------------------------------------
(* Names *)

\* strncpy stops at the first NUL; calloc has zeroed the rest.
Content(name) ==
    [i \in DOMAIN name |-> IF \E j \in 1 .. i : name[j] = NUL THEN NUL ELSE name[i]]

\* The generated list of boot names has none twice.
ASSUME IdconstAssumption ==
    /\ Thread # {} /\ IsFiniteSet(Thread)
    /\ \A n \in Name : n \in Seq(Nat)
    /\ Contended \subseteq Name
    /\ Boot \in Seq(Seq(Nat))
    /\ \A i, j \in DOMAIN Boot : Content(Boot[i]) = Content(Boot[j]) => i = j

\* strncmp stops at the first difference or NUL.
strncmp(a, b, n) ==
    LET Ends(i) == a[i] # b[i] \/ a[i] = NUL
        stops == {i \in 1 .. n : Ends(i) /\ \A j \in 1 .. i - 1 : ~Ends(j)}
    IN  IF stops = {} THEN 0 ELSE LET i == CHOOSE i \in stops : TRUE IN a[i] - b[i]

\* Mutant of cmp_idconst: the answer does not depend on which of the two is
\* the prefix.
cmp_either(a, b) ==
    LET r == strncmp(a, b, IF Len(a) < Len(b) THEN Len(a) ELSE Len(b))
    IN  IF r # 0 THEN r ELSE IF Len(a) = Len(b) THEN 0 ELSE 1

\* A name comes before its prefixes.
cmp_idconst(a, b) ==
    LET n == IF Len(a) < Len(b) THEN Len(a) ELSE Len(b)
        r == strncmp(a, b, n)
    IN  IF r # 0 THEN r ELSE Len(b) - Len(a)

At(i) == ident[constlist[i]]

Sorted == \A i, j \in 1 .. Len(constlist) : i < j => cmp_idconst(At(i), At(j)) <= 0

-----------------------------------------------------------------------------
(* Threads *)

\* lo, hi: where bsearch still looks; slot: the entry it has found, or 0, and
\* after the append the candidate; stale: realloc has moved the array since.
Calling(at, name) == [at |-> at, name |-> name, lo |-> 0, hi |-> 0, slot |-> 0,
                      stale |-> FALSE]
NoCall == Calling("none", <<>>)

Readers == {t \in Thread : call[t].at = "search"}
Writers == {t \in Thread : call[t].at \in {"append", "sort"}}

Places == {"none", "rdlock", "search", "deref", "wrlock", "append", "sort"}

TypeOK ==
    /\ ident \in Seq(Seq(Nat))
    /\ constlist \in Seq(DOMAIN ident)
    /\ call \in [Thread -> [at : Places, name : Name \cup {<<>>}, lo : Nat, hi : Nat,
                           slot : Nat, stale : BOOLEAN]]
    /\ \A t \in Thread :
          /\ call[t].lo <= call[t].hi
          /\ {call[t].hi, call[t].slot} \subseteq 0 .. Len(constlist)
    /\ given \subseteq (Name \cup {Boot[i] : i \in DOMAIN Boot}) \X Nat

\* qsort leaves the boot names in some sorted order.
Init ==
    /\ ident = [i \in DOMAIN Boot |-> Content(Boot[i])]
    /\ constlist \in [DOMAIN Boot -> DOMAIN Boot]
    /\ {constlist[i] : i \in DOMAIN Boot} = DOMAIN Boot /\ Sorted
    /\ call = [t \in Thread |-> NoCall]
    /\ given = {<<Boot[i], i>> : i \in DOMAIN Boot}

Create(t, name) ==
    /\ call[t].at = "none"
    /\ \A u \in Thread : call[u].at # "none" => {name, call[u].name} \subseteq Contended
    /\ call' = [call EXCEPT ![t] = Calling("rdlock", name)]
    /\ UNCHANGED <<ident, constlist, given>>

\* Mutant of RdLock: the search is told of one entry too many.
RdLockBeyond(t) ==
    /\ call[t].at = "rdlock" /\ Writers = {}
    /\ call' = [call EXCEPT ![t].at = "search", ![t].hi = Len(constlist) + 1]
    /\ UNCHANGED <<ident, constlist, given>>

RdLock(t) ==
    /\ call[t].at = "rdlock" /\ Writers = {}
    /\ call' = [call EXCEPT ![t].at = "search", ![t].hi = Len(constlist)]
    /\ UNCHANGED <<ident, constlist, given>>

Searching(t) == call[t].at = "search" /\ call[t].lo < call[t].hi

\* One comparison of bsearch.
Probe(t) ==
    LET c == call[t]
        idx == (c.lo + c.hi) \div 2
        r == cmp_idconst(Content(c.name), At(idx + 1))
    IN  /\ Searching(t)
        /\ call' = IF r < 0 THEN [call EXCEPT ![t].hi = idx]
                   ELSE IF r > 0 THEN [call EXCEPT ![t].lo = idx + 1]
                   ELSE [call EXCEPT ![t].slot = idx + 1, ![t].lo = c.hi]
        /\ UNCHANGED <<ident, constlist, given>>

\* Mutant of RdUnlock: what the search has found is ignored.
RdUnlockIgnoring(t) ==
    /\ call[t].at = "search" /\ ~Searching(t)
    /\ call' = [call EXCEPT ![t].at = "wrlock"]
    /\ UNCHANGED <<ident, constlist, given>>

RdUnlock(t) ==
    /\ call[t].at = "search" /\ ~Searching(t)
    /\ call' = [call EXCEPT ![t].at = IF call[t].slot = 0 THEN "wrlock" ELSE "deref"]
    /\ UNCHANGED <<ident, constlist, given>>

Return(t, id) ==
    /\ call' = [call EXCEPT ![t] = NoCall]
    /\ given' = given \cup {<<call[t].name, id>>}

\* return *ret, without a lock: another thread may have sorted the array, or
\* realloc may have moved it, when anything may be found in the old place.
Deref(t) ==
    /\ call[t].at = "deref"
    /\ \E id \in IF call[t].stale THEN 0 .. Len(ident) ELSE {constlist[call[t].slot]} :
          Return(t, id)
    /\ UNCHANGED <<ident, constlist>>

\* Mutant of WrLock: it does not wait for the readers.
WrLockAmongReaders(t) ==
    /\ call[t].at = "wrlock" /\ Writers = {}
    /\ call' = [call EXCEPT ![t].at = "append"]
    /\ UNCHANGED <<ident, constlist, given>>

WrLock(t) ==
    /\ call[t].at = "wrlock" /\ Writers = {} /\ Readers = {}
    /\ call' = [call EXCEPT ![t].at = "append"]
    /\ UNCHANGED <<ident, constlist, given>>

\* Mutant of Enlarge: the candidate overwrites the last entry.
EnlargeNot(t) ==
    /\ call[t].at = "append"
    /\ ident' = Append(ident, Content(call[t].name))
    /\ constlist' = [constlist EXCEPT ![Len(constlist)] = Len(ident) + 1]
    /\ call' = [call EXCEPT ![t].at = "sort", ![t].slot = Len(constlist)]
    /\ UNCHANGED given

\* constlist_size++, realloc, which may move the array, and the candidate.
Enlarge(t) ==
    /\ call[t].at = "append"
    /\ ident' = Append(ident, Content(call[t].name))
    /\ constlist' = Append(constlist, Len(ident) + 1)
    /\ \E moves \in BOOLEAN :
          call' = [u \in Thread |->
                     IF u = t THEN [call[u] EXCEPT !.at = "sort", !.slot = Len(ident) + 1]
                     ELSE [call[u] EXCEPT !.stale = @ \/ (moves /\ call[u].at = "deref")]]
    /\ UNCHANGED given

\* One step of qsort: two entries out of order change places.
Exchange(t) ==
    /\ call[t].at = "sort"
    /\ \E i \in 1 .. Len(constlist) - 1 :
          /\ cmp_idconst(At(i), At(i + 1)) > 0
          /\ constlist' = [constlist EXCEPT ![i] = constlist[i + 1], ![i + 1] = constlist[i]]
    /\ UNCHANGED <<ident, call, given>>

\* Mutant of WrUnlock: the sort is left out.
WrUnlockUnsorted(t) ==
    /\ call[t].at = "sort"
    /\ Return(t, call[t].slot)
    /\ UNCHANGED <<ident, constlist>>

\* Mutant of WrUnlock: the last entry is returned, where the candidate was put
\* before the sort.
WrUnlockLast(t) ==
    /\ call[t].at = "sort" /\ Sorted
    /\ Return(t, constlist[Len(constlist)])
    /\ UNCHANGED <<ident, constlist>>

WrUnlock(t) ==
    /\ call[t].at = "sort" /\ Sorted
    /\ Return(t, call[t].slot)
    /\ UNCHANGED <<ident, constlist>>

Proceed(t) == Probe(t) \/ RdUnlock(t) \/ Deref(t) \/ Enlarge(t) \/ Exchange(t) \/ WrUnlock(t)

Next == \E t \in Thread :
            \/ \E name \in Name : Create(t, name)
            \/ RdLock(t) \/ WrLock(t) \/ Proceed(t)

Spec == Init /\ [][Next]_vars

\* A thread that holds the lock or needs none runs on, and one that waits for
\* a lock that keeps becoming free gets it.
FairSpec == Spec /\ \A t \in Thread : /\ WF_vars(Proceed(t))
                                      /\ SF_vars(RdLock(t)) /\ SF_vars(WrLock(t))

-----------------------------------------------------------------------------
(* Properties *)

\* Whenever no thread is inside the write lock the pool is sorted: no reader
\* ever searches a pool that is being changed.
SortedWhenShared == Writers = {} => Sorted

\* Every identifier ever returned stays in the pool, once: the array grows by
\* one entry per identifier, whichever threads append.
NothingLost ==
    /\ Len(constlist) = Len(ident)
    /\ {constlist[i] : i \in DOMAIN constlist} = DOMAIN ident

\* What bsearch answers, while its thread still holds the read lock: the
\* entry with that name, or that there is none.  This needs cmp_idconst to be
\* an order in which names that are prefixes of one another have a place.
SearchFinds ==
    \A t \in Thread : (call[t].at = "search" /\ ~Searching(t)) =>
        LET matches == {i \in DOMAIN constlist : At(i) = Content(call[t].name)}
        IN  IF call[t].slot = 0 THEN matches = {} ELSE call[t].slot \in matches

\* "idconst_create should check for previously created matching constants"
\* (test/03_const_identifier.c): equal names, and only those, get one object.
OneIdentifierPerName ==
    \A p, q \in given : p[1] = q[1] <=> p[2] = q[2]

\* Calls that overlap no other intern names as far as their first NUL: equal
\* names get the same identifier, and different names different ones.  What
\* overlapping calls leave in the pool does not matter, unless it is the same
\* name twice.
AloneInterns ==
    LET Overlapping == {Content(name) : name \in Contended}
    IN  \A p, q \in given :
            {Content(p[1]), Content(q[1])} \cap Overlapping = {} =>
                (Content(p[1]) = Content(q[1]) <=> p[2] = q[2])

\* The identifier that createn returns is one that has the name asked for.
ReturnsItsName ==
    \A p \in given : p[2] \in DOMAIN ident /\ ident[p[2]] = Content(p[1])

\* So it is for every call that overlapped no other.
AloneReturnsItsName ==
    \A p \in given : p[1] \notin Contended =>
        p[2] \in DOMAIN ident /\ ident[p[2]] = Content(p[1])

\* The window between the locks costs at most one duplicate per thread: the
\* pool does not go on growing.
DuplicatesBounded ==
    \A name \in Name :
        Cardinality({i \in DOMAIN ident : ident[i] = Content(name)}) <= Cardinality(Thread)

\* Every call returns.
CallsReturn == \A t \in Thread : call[t].at # "none" ~> call[t].at = "none"

=============================================================================
