---------------------------- MODULE PugsThreads ----------------------------
(***************************************************************************)
(* Perl 6 threads in Pugs: async, join, detach and kill (src/src/Pugs/     *)
(* Prim.hs), the transactions made by contend, maybe and defer, the entry  *)
(* of subroutines (Monads.hs), and the variables that threads share.       *)
(*                                                                         *)
(* Every access to a variable is a step.  Outside a transaction it is an   *)
(* atomically of its own; inside one it works on the transaction's log     *)
(* (AST/Eval.hs, liftSTM), which the run time checks and commits.  The     *)
(* threads run the sub doit of t/spec/S17-async/contend.t, a loop around   *)
(* one of several bodies, or work on an array, or join another thread.     *)
(***************************************************************************)
EXTENDS Integers, Sequences, FiniteSets, FiniteSetsExt, PugsArray

CONSTANTS Worker,      \* the threads that async may make
          Main,        \* the thread of the program
          Mixes,       \* sets of Bodies that threads run side by side
          Rounds,      \* how often the loop runs (bound; 500 in the test)
          MaxDetach,   \* how often threads are detached (bound)
          SubPad,      \* the pad that doit was compiled with
          Nobody

LoopBodies == {"plain", "contend", "++", "defer", "maybe", "die"}
ArrayBodies == {"push", "shift", "pop", "assign"}
Bodies == LoopBodies \cup ArrayBodies \cup {"join"}

ASSUME ThreadsAssumption ==
    /\ IsFiniteSet(Worker) /\ Main \notin Worker
    /\ SubPad \notin Worker /\ Nobody \notin Worker \cup {Main, SubPad}
    /\ Mixes \subseteq SUBSET Bodies
    /\ Rounds \in Nat /\ MaxDetach \in Nat

Thread == Worker \cup {Main}

VARIABLES scalars,     \* the shared scalars $counter and $moved
          queue,       \* the shared array
          started,     \* subStarted of doit
          lex,         \* $i and $val in every pad of doit
          th,          \* what every thread is doing
          lock,        \* threadLock of every thread
          hist         \* history: what the properties are about

vars == <<scalars, queue, started, lex, th, lock, hist>>

-----------------------------------------------------------------------------
(* Transactions *)

Var == {"counter", "moved", "val"}

Set(to, from, add) == [op |-> "=", to |-> to, from |-> from, add |-> add]
Op(name) == [op |-> name, to |-> "counter", from |-> "counter", add |-> 0]

Contend == <<Set("val", "counter", 0), Set("counter", "val", 1), Op("end")>>
Increment == <<Set("counter", "counter", 1), Op("end")>>
Move == <<Set("counter", "counter", -1), Op("defer"), Set("moved", "moved", 1), Op("end")>>
Die == <<Set("counter", "counter", -1), Op("die"), Set("moved", "moved", 1), Op("end")>>

\* { $val = $counter; $counter = $val + 1 }, with contend and without; post:++;
\* { $counter--; $counter >= 0 or defer; $moved++ }; { $counter--; die; $moved++ }
Code(sub) == CASE sub \in {"contend", "plain"} -> Contend
               [] sub = "++"    -> Increment
               [] sub = "defer" -> Move
               [] sub = "die"   -> Die
               [] OTHER -> <<Op("end")>>

\* The first block of maybe { Move } maybe { Increment }.
First(body) == IF body = "maybe" THEN "defer" ELSE body

\* A transaction's log: known, the variables the block has come across; seen,
\* what they were then; now, what they are for the block.
Log == [known : SUBSET Var, seen : [Var -> Int], now : [Var -> Int]]
NewLog == [known |-> {}, seen |-> [v \in Var |-> 0], now |-> [v \in Var |-> 0]]

\* runEvalSTM: the block sub, whose next statement is the line-th, with a new log.
Begin(sub) == [sub |-> sub, line |-> 1, log |-> NewLog]

-----------------------------------------------------------------------------
(* Threads *)

\* pad: the pad of the call of doit; tmp: a value or container fetched; who:
\* whom the thread is joining; raced: another thread has shortened the array
\* while this one was about to fetch an element for the second time.
\* block: the block of the loop it is in.
Doing(at, body) == [at |-> at, body |-> body, pad |-> Nobody, tmp |-> 0,
                    who |-> Nobody, raced |-> FALSE, result |-> "none",
                    block |-> Begin(First(body))]

Steps == {"unborn", "enter", "reclose", "init", "test", "body", "store", "wait",
          "next", "readIVar", "extend", "again", "assign", "join",
          "put", "dead", "killed", "main"}

Results == {"value", "error", undef}

Activity == [at : Steps, body : Bodies \cup {"none"}, pad : Worker \cup {SubPad, Nobody},
             tmp : Int, who : Worker \cup {Nobody}, raced : BOOLEAN,
             result : Results \cup {"none"},
             block : [sub : Bodies \cup {"none"}, line : 1 .. 4, log : Log]]

History == [ended : [LoopBodies -> Nat], done : [Worker \cup {SubPad} -> Nat], joins : [Worker -> Nat],
            got : [Worker -> SUBSET Results], detached : [Worker -> Nat],
            taken : SUBSET (Nat \X Worker)]

TypeOK ==
    /\ scalars \in [counter : Int, moved : Int]
    /\ queue \in [elems : Seq(Nat), val : Seq(Worker \cup {undef})]
    /\ \A i \in 1 .. Len(queue.elems) : queue.elems[i] \in 1 .. Len(queue.val)
    /\ started \in BOOLEAN
    /\ lex \in [Worker \cup {SubPad} -> [i : Nat, val : Int]]
    /\ th \in [Thread -> Activity]
    /\ lock \in [Worker -> Results \cup {"empty"}]
    /\ hist \in History

Init ==
    /\ scalars = [counter |-> 0, moved |-> 0]
    /\ queue = array_push(NewArray, undef)    \* the program has put one element there
    /\ started = FALSE
    /\ lex = [p \in Worker \cup {SubPad} |-> [i |-> 0, val |-> 0]]
    /\ th = [t \in Thread |-> Doing(IF t = Main THEN "main" ELSE "unborn", "none")]
    /\ lock = [u \in Worker |-> "empty"]
    /\ hist = [ended |-> [sub \in LoopBodies |-> 0],
               done |-> [p \in Worker \cup {SubPad} |-> 0],
               joins |-> [u \in Worker |-> 0], got |-> [u \in Worker |-> {}],
               detached |-> [u \in Worker |-> 0], taken |-> {}]

Runs(t, at) == th[t].at = at
Goes(t, at) == th' = [th EXCEPT ![t].at = at]
GoesAfresh(t, at) == th' = [th EXCEPT ![t].at = at, ![t].block = Begin(First(th[t].body))]
GoesWith(t, at, tmp) == th' = [th EXCEPT ![t].at = at, ![t].tmp = tmp]

\* Mutant of Leaves: the value of the code is dropped.
LeavesWithout(t, result) == Goes(t, "put")

\* runEvalIO returns the value of the code, or the exception as a value.
Leaves(t, result) == th' = [th EXCEPT ![t].at = "put", ![t].result = result]

tryPutTMVar(u, v) == lock' = IF lock[u] = "empty" THEN [lock EXCEPT ![u] = v] ELSE lock

-----------------------------------------------------------------------------
(* async, join, detach, kill *)

\* forkIO; newEmptyTMVar has made the lock.
Async(u, body) ==
    /\ Runs(Main, "main") /\ th[u].at = "unborn"
    /\ \E mix \in Mixes : {body} \cup {th[t].body : t \in Worker} \subseteq mix \cup {"none"}
    /\ th' = [th EXCEPT ![u] = Doing("enter", body)]
    /\ UNCHANGED <<scalars, queue, started, lex, lock, hist>>

\* Mutant of Put: an exception in the code leaves the lock empty.
PutValue(t) ==
    /\ Runs(t, "put")
    /\ IF th[t].result = "error" THEN UNCHANGED lock ELSE tryPutTMVar(t, th[t].result)
    /\ Goes(t, "dead")
    /\ UNCHANGED <<scalars, queue, started, lex, hist>>

Put(t) ==
    /\ Runs(t, "put")
    /\ tryPutTMVar(t, th[t].result)
    /\ Goes(t, "dead")
    /\ UNCHANGED <<scalars, queue, started, lex, hist>>

\* Anybody who knows a thread may join it: the main thread, or a worker.
Join(t, u) ==
    /\ Runs(t, "main") \/ (Runs(t, "enter") /\ th[t].body = "join")
    /\ th[u].at # "unborn"
    /\ th' = [th EXCEPT ![t].at = "join", ![t].who = u]
    /\ UNCHANGED <<scalars, queue, started, lex, lock, hist>>

Joined(t, u) ==
    /\ hist' = [hist EXCEPT !.joins[u] = @ + 1, !.got[u] = @ \cup {lock[u]}]
    /\ IF t = Main THEN th' = [th EXCEPT ![t].at = "main", ![t].who = Nobody]
       ELSE Leaves(t, lock[u])

\* Mutant of JoinReturn: readTMVar, which leaves the value in the lock.
JoinReturnReading(t) ==
    LET u == th[t].who
    IN  /\ Runs(t, "join") /\ lock[u] # "empty"
        /\ Joined(t, u)
        /\ UNCHANGED <<scalars, queue, started, lex, lock>>

\* takeTMVar
JoinReturn(t) ==
    LET u == th[t].who
    IN  /\ Runs(t, "join") /\ lock[u] # "empty"
        /\ lock' = [lock EXCEPT ![u] = "empty"]
        /\ Joined(t, u)
        /\ UNCHANGED <<scalars, queue, started, lex>>

Detach(u) ==
    /\ Runs(Main, "main") /\ th[u].at # "unborn"
    /\ MapThenSumSet(LAMBDA t : hist.detached[t], Worker) < MaxDetach
    /\ tryPutTMVar(u, undef)
    /\ hist' = [hist EXCEPT !.detached[u] = @ + 1]
    /\ UNCHANGED <<scalars, queue, started, lex, th>>

\* Mutant of Kill: whoever joins the thread is told something.
KillAnswering(u) ==
    /\ Runs(Main, "main") /\ th[u].at \notin {"unborn", "dead", "killed"}
    /\ tryPutTMVar(u, undef)
    /\ GoesAfresh(u, "killed")
    /\ UNCHANGED <<scalars, queue, started, lex, hist>>

\* killThread throws an exception into the thread, which drops the transaction
\* it is in; the lock stays as it is.
Kill(u) ==
    /\ Runs(Main, "main") /\ th[u].at \notin {"unborn", "dead", "killed"}
    /\ GoesAfresh(u, "killed")
    /\ UNCHANGED <<scalars, queue, started, lex, lock, hist>>

-----------------------------------------------------------------------------
(* sub doit: my $val; loop (my $i = 0; $i < Rounds; $i++) { ... }          *)

Looping(t) == th[t].body \in LoopBodies
Lexicals(t) == lex[th[t].pad]
SetLex(t, field, n) == lex' = [lex EXCEPT ![th[t].pad][field] = n]

\* enterSub reads subStarted.  A call after the first refreshes the pad: it
\* gets variables of its own, which here bear the name of the thread.
EnterSub(t) ==
    /\ Runs(t, "enter") /\ Looping(t)
    /\ th' = IF started THEN [th EXCEPT ![t].at = "init", ![t].pad = t]
             ELSE [th EXCEPT ![t].at = "reclose"]
    /\ UNCHANGED <<scalars, queue, started, lex, lock, hist>>

\* In a transaction of its own the first call marks the sub as started, and
\* goes on with the variables of the pad it was compiled with.
Reclose(t) ==
    /\ Runs(t, "reclose")
    /\ started' = TRUE
    /\ th' = [th EXCEPT ![t].at = "init", ![t].pad = SubPad]
    /\ UNCHANGED <<scalars, queue, lex, lock, hist>>

LoopInit(t) ==
    /\ Runs(t, "init")
    /\ SetLex(t, "i", 0)
    /\ Goes(t, "test")
    /\ UNCHANGED <<scalars, queue, started, lock, hist>>

\* Mutant of LoopTest: one round too many.
LoopTestLate(t) ==
    /\ Runs(t, "test")
    /\ IF Lexicals(t).i <= Rounds THEN Goes(t, "body") ELSE Leaves(t, "value")
    /\ UNCHANGED <<scalars, queue, started, lex, lock, hist>>

LoopTest(t) ==
    /\ Runs(t, "test")
    /\ IF Lexicals(t).i < Rounds THEN Goes(t, "body") ELSE Leaves(t, "value")
    /\ UNCHANGED <<scalars, queue, started, lex, lock, hist>>

\* $i++
LoopNext(t) ==
    /\ Runs(t, "next")
    /\ SetLex(t, "i", Lexicals(t).i + 1)
    /\ Goes(t, "test")
    /\ hist' = [hist EXCEPT !.done[th[t].pad] = @ + 1]
    /\ UNCHANGED <<scalars, queue, started, lock>>

-----------------------------------------------------------------------------
(* The block in the loop *)

\* envAtomic
Atomic(t) == th[t].body # "plain"

LogOf(t) == th[t].block.log
Line(t) == Code(th[t].block.sub)[th[t].block.line]
BlockOver(t) == Line(t).op \in {"end", "die"}

\* The variables themselves.
TVars(t) == [v \in Var |-> IF v = "val" THEN Lexicals(t).val ELSE scalars[v]]
Write(t, new) == /\ scalars' = [counter |-> new["counter"], moved |-> new["moved"]]
                 /\ SetLex(t, "val", new["val"])

\* The variables as the block has left them.
AsNow(t) == [v \in Var |-> IF v \in LogOf(t).known THEN LogOf(t).now[v] ELSE TVars(t)[v]]

\* Mutant of readTVar: reading goes past the log.
readTVarIO(t, v) == TVars(t)[v]

\* What the block has come across is read in its log.
readTVar(t, v) == AsNow(t)[v]

\* The log when the block has come across v, and v is x for it.
Noted(t, v, x) ==
    LET log == LogOf(t)
    IN  [known |-> log.known \cup {v},
         seen  |-> IF v \in log.known THEN log.seen ELSE [log.seen EXCEPT ![v] = TVars(t)[v]],
         now   |-> [log.now EXCEPT ![v] = x]]

\* No variable the block has come across has changed since.
Valid(t) == \A v \in LogOf(t).known : LogOf(t).seen[v] = TVars(t)[v]

\* Mutant of Fetch: liftSTM reads by io in a transaction, too.
FetchIO(t) ==
    /\ Runs(t, "body") /\ Line(t).op = "="
    /\ GoesWith(t, "store", readTVar(t, Line(t).from) + Line(t).add)
    /\ UNCHANGED <<scalars, queue, started, lex, lock, hist>>

\* The right-hand side of an assignment, and what ++ and -- read.
Fetch(t) ==
    /\ Runs(t, "body") /\ Line(t).op = "="
    /\ LET x == readTVar(t, Line(t).from)
       IN  th' = [th EXCEPT ![t].at = "store", ![t].tmp = x + Line(t).add,
                            ![t].block.log = IF Atomic(t) THEN Noted(t, Line(t).from, x) ELSE @]
    /\ UNCHANGED <<scalars, queue, started, lex, lock, hist>>

Store(t) ==
    /\ Runs(t, "store")
    /\ th' = [th EXCEPT ![t].at = "body", ![t].block.line = @ + 1,
                        ![t].block.log = IF Atomic(t) THEN Noted(t, Line(t).to, th[t].tmp) ELSE @]
    /\ IF Atomic(t) THEN UNCHANGED <<scalars, lex>>
       ELSE Write(t, [TVars(t) EXCEPT ![Line(t).to] = th[t].tmp])
    /\ UNCHANGED <<queue, started, lock, hist>>

\* orElse takes back what the first block has written, and evaluates the second.
Alternative(t) ==
    [sub |-> "++", line |-> 1, log |-> [LogOf(t) EXCEPT !.now = LogOf(t).seen]]

\* $counter >= 0 or defer: retry, unless there is another block.
OrDefer(t) ==
    /\ Runs(t, "body") /\ Line(t).op = "defer"
    /\ th' = IF readTVar(t, "counter") >= 0 THEN [th EXCEPT ![t].block.line = @ + 1]
             ELSE IF th[t].body = "maybe" THEN [th EXCEPT ![t].block = Alternative(t)]
             ELSE [th EXCEPT ![t].at = "wait"]
    /\ UNCHANGED <<scalars, queue, started, lex, lock, hist>>

\* A thread that has deferred waits for another to change what it has read.
Deferred(t) == Runs(t, "wait") /\ Valid(t)

Wake(t) ==
    /\ Runs(t, "wait") /\ ~Valid(t)
    /\ GoesAfresh(t, "body")
    /\ UNCHANGED <<scalars, queue, started, lex, lock, hist>>

\* The run time begins the block again if its log is not valid any more.
Restart(t) ==
    /\ Runs(t, "body") /\ BlockOver(t) /\ ~Valid(t)
    /\ GoesAfresh(t, "body")
    /\ UNCHANGED <<scalars, queue, started, lex, lock, hist>>

\* Mutant of Commits: a block that dies is rolled back.
CommitsUnlessDead(t) ==
    IF Line(t).op = "die" THEN UNCHANGED <<scalars, lex>>
    ELSE Write(t, AsNow(t))

\* runEvalSTM makes a value of an exception, so that a block that dies commits
\* what it wrote before; only retry takes its writes back.
Commits(t) == Write(t, AsNow(t))

\* The exception leaves the loop, by trapVal.
EndBlock(t) ==
    LET died == Line(t).op = "die"
    IN  /\ Runs(t, "body") /\ BlockOver(t) /\ Valid(t)
        /\ Commits(t)
        /\ hist' = [hist EXCEPT !.ended[th[t].block.sub] = @ + 1]
        /\ th' = [th EXCEPT ![t].at = IF died THEN "put" ELSE "next",
                            ![t].result = IF died THEN "error" ELSE @,
                            ![t].block = Begin(First(th[t].body))]
        /\ UNCHANGED <<queue, started, lock>>

-----------------------------------------------------------------------------
(* @queue *)

Push(t) ==
    /\ Runs(t, "enter") /\ th[t].body = "push"
    /\ queue' = array_push(queue, t)
    /\ Leaves(t, "value")
    /\ UNCHANGED <<scalars, started, lex, lock, hist>>

Again == {u \in Worker : th[u].at = "again"}

\* Mutant of Remove: the element is read in one transaction, and taken out in
\* the next one.
RemoveLater(t) ==
    LET shift == th[t].body = "shift"
        container == IF shift THEN Head(queue.elems) ELSE queue.elems[a_size(queue)]
    IN  /\ Runs(t, "enter") /\ th[t].body \in {"shift", "pop"} /\ a_size(queue) > 0
        /\ \/ th[t].tmp = 0 /\ GoesWith(t, "enter", container) /\ UNCHANGED <<queue, hist>>
           \/ /\ th[t].tmp # 0
              /\ queue' = IF shift THEN Shifted(queue) ELSE Popped(queue)
              /\ hist' = [hist EXCEPT !.taken = @ \cup {<<th[t].tmp, t>>}]
              /\ Goes(t, "readIVar")
        /\ UNCHANGED <<scalars, started, lex, lock>>

\* array_shift and array_pop take the element out in one transaction.
Remove(t) ==
    LET shift == th[t].body = "shift"
        container == IF shift THEN Head(queue.elems) ELSE queue.elems[a_size(queue)]
    IN  /\ Runs(t, "enter") /\ th[t].body \in {"shift", "pop"}
        /\ a_size(queue) > 0
        /\ queue' = IF shift THEN Shifted(queue) ELSE Popped(queue)
        /\ th' = [u \in Thread |->
                    IF u = t THEN [th[u] EXCEPT !.at = "readIVar", !.tmp = container]
                    ELSE IF u \in Again THEN [th[u] EXCEPT !.raced = TRUE] ELSE th[u]]
        /\ hist' = [hist EXCEPT !.taken = @ \cup {<<container, t>>}]
        /\ UNCHANGED <<scalars, started, lex, lock>>

RemoveNothing(t) ==
    /\ Runs(t, "enter") /\ th[t].body \in {"shift", "pop"}
    /\ a_size(queue) = 0
    /\ Leaves(t, undef)
    /\ UNCHANGED <<scalars, queue, started, lex, lock, hist>>

\* The value is read when the element has left the array.
ReadIVar(t) ==
    /\ Runs(t, "readIVar")
    /\ Leaves(t, IF queue.val[th[t].tmp] = undef THEN undef ELSE "value")
    /\ UNCHANGED <<scalars, queue, started, lex, lock, hist>>

\* $queue[Index] = t: array_fetchElem as an lvalue, and a store into what it
\* returns.
Index == 1

FetchElem(t) ==
    LET container == getArrayIndex(queue, Index)
    IN  /\ Runs(t, "enter") /\ th[t].body = "assign"
        /\ IF container # 0 THEN GoesWith(t, "assign", container) ELSE Goes(t, "extend")
        /\ UNCHANGED <<scalars, queue, started, lex, lock, hist>>

Extend(t) ==
    /\ Runs(t, "extend")
    /\ queue' = array_extendSize(queue, Index + 1)
    /\ Goes(t, "again")
    /\ UNCHANGED <<scalars, started, lex, lock, hist>>

\* An array that is still too short is an error this time.
FetchAgain(t) ==
    LET container == getArrayIndex(queue, Index)
    IN  /\ Runs(t, "again")
        /\ IF container # 0 THEN GoesWith(t, "assign", container) ELSE Leaves(t, "error")
        /\ UNCHANGED <<scalars, queue, started, lex, lock, hist>>

Assign(t) ==
    /\ Runs(t, "assign")
    /\ queue' = scalar_store(queue, th[t].tmp, t)
    /\ Leaves(t, "value")
    /\ UNCHANGED <<scalars, started, lex, lock, hist>>

-----------------------------------------------------------------------------
Doit(t) == \/ EnterSub(t) \/ Reclose(t) \/ LoopInit(t) \/ LoopTest(t) \/ LoopNext(t)
           \/ Fetch(t) \/ Store(t) \/ OrDefer(t) \/ Wake(t) \/ Restart(t) \/ EndBlock(t)

Array(t) == \/ Push(t) \/ Remove(t) \/ RemoveNothing(t) \/ ReadIVar(t)
            \/ FetchElem(t) \/ Extend(t) \/ FetchAgain(t) \/ Assign(t)

Runnable(t) == \/ Doit(t) \/ Array(t) \/ Put(t)
               \/ JoinReturn(t) \/ \E u \in Worker : Join(t, u)

Control(u) == \/ \E body \in Bodies : Async(u, body)
              \/ Join(Main, u) \/ Detach(u) \/ Kill(u)

Next == \/ \E t \in Worker : Runnable(t)
        \/ JoinReturn(Main)
        \/ \E u \in Worker : Control(u)

Spec == Init /\ [][Next]_vars

\* The run time lets every thread that can run do so.  Nothing makes the main
\* thread create, join or kill.
FairSpec == Spec /\ WF_vars(JoinReturn(Main)) /\ \A t \in Worker : WF_vars(Runnable(t))

-----------------------------------------------------------------------------
(* Properties *)

Uses(body) == \E t \in Worker : th[t].body = body
Ended(t) == th[t].at \in {"put", "dead"}

\* The counters are what the blocks that have ended make of them, one after the
\* other, however threads interleave: no increment is lost, a block that defers
\* or is begun again leaves nothing behind, and one that dies leaves what it
\* wrote before.
CountersAddUp ==
    ~Uses("plain") =>
        /\ scalars.moved = hist.ended["defer"]
        /\ scalars.counter = hist.ended["contend"] + hist.ended["++"]
                                 - hist.ended["defer"] - hist.ended["die"]

\* A block that defers when it has taken too much never leaves the counter below
\* zero, though it writes before it looks, and others move at the same time.
NeverOverdrawn == (~Uses("plain") /\ ~Uses("die")) => scalars.counter >= 0

\* A call that shares its pad with nobody makes all its rounds, and calls that
\* share one make at least as many between them as one call would.
RoundsMade ==
    \A p \in Worker \cup {SubPad} :
        LET users == {t \in Worker : th[t].pad = p}
        IN  (users # {} /\ \A t \in users : Ended(t) /\ th[t].result = "value")
            => IF Cardinality(users) = 1 THEN hist.done[p] = Rounds
               ELSE hist.done[p] >= Rounds

\* The test's "now we reach the end": when threads that contend have ended,
\* each of them has counted all its rounds (t/spec/S17-async/contend.t:56).
AllCounted ==
    (\A t \in Worker : th[t].at = "dead" /\ th[t].body = "contend")
        => scalars.counter = Rounds * Cardinality(Worker)

\* join gives what the code of the thread returned or died of, or undef when
\* somebody has detached the thread; a killed thread answers nobody.
JoinGivesResult ==
    \A u \in Worker :
        hist.got[u] \ (IF hist.detached[u] > 0 THEN {undef} ELSE {}) \subseteq {th[u].result}

\* One join, or one detach, for every time the lock is filled: no two threads
\* take the same result.
ResultsTakenOnce ==
    \A u \in Worker :
        hist.joins[u] + (IF lock[u] = "empty" THEN 0 ELSE 1)
            <= hist.detached[u] + (IF th[u].at = "dead" THEN 1 ELSE 0)

\* Every element ever made for the array is in it, once, or was taken out by
\* one thread.
ElementsKept ==
    LET taken == {e[1] : e \in hist.taken}
        inside == {queue.elems[i] : i \in DOMAIN queue.elems}
    IN  /\ Cardinality(inside) = a_size(queue)
        /\ Cardinality(taken) = Cardinality(hist.taken)
        /\ inside \cap taken = {} /\ inside \cup taken = DOMAIN queue.val

\* An assignment to an element fails only if the array was shortened between
\* its extension and the second fetch.
AssignmentFailsByRace ==
    \A t \in Worker : (th[t].body = "assign" /\ th[t].result = "error") => th[t].raced

\* Nothing can happen to what the thread waits for, unless by the main thread.
Stopped(t) == th[t].at \in {"unborn", "dead", "killed", "join"} \/ Deferred(t)

\* join returns once the thread has ended, unless somebody else has taken the
\* result, or the thread was killed, or is itself joining, or has deferred and
\* nobody is left to change what it has read.
JoinReturns ==
    \A t \in Thread :
        th[t].at = "join" ~>
            \/ th[t].at # "join"
            \/ hist.joins[th[t].who] > 0
            \/ th[th[t].who].at \in {"killed", "join"}
            \/ Deferred(th[t].who) /\ \A other \in Worker : Stopped(other)
=============================================================================
