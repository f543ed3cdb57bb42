--------------------------- MODULE MCSmopMessages ---------------------------
(* A few objects, and captures with few arguments.                         *)
EXTENDS SmopMessages, TLC

CONSTANTS o1, o2, o3, o4, o5, x, y

MCAddress == x :> 2 @@ y :> 1

Nothing == {NoArguments}
OneObject == {Arguments(<<o>>, <<>>) : o \in Object}

\* Two constant identifiers as keys; one key of either kind.
NamedLists == {Arguments(<<>>, <<Named(x, o), Named(y, x)>>) : o \in Object}
              \cup {Arguments(<<>>, <<Named(o, x), Named(x, y)>>) : o \in Object}

\* Of two identifiers as keys, one is only bound; objects are keys as well.
Keyed == {Arguments(<<x>>, <<>>), Arguments(<<y, x>>, <<>>)}
         \cup {Arguments(<<x, o>>, <<>>) : o \in Object}
KeyedByObjects == OneObject \cup {Arguments(<<o, x>>, <<>>) : o \in Object}

NoRoom == [kind \in Kinds |-> 0]
NoCalls == [kind \in Kinds \cup {"free", "interpreter", "none"} |-> {}]

\* One program works with an array, one with captures, three with a hash, whose
\* keys are identifiers, objects, or strings and what is lost without any
\* reference, and one with a scope.
MCClients ==
    {[room  |-> [NoRoom EXCEPT !["value"] = 2, !["array"] = 1, !["proxy"] = 1, !["capture"] = 1],
      calls |-> [NoCalls EXCEPT !["array"] = Nothing \cup OneObject,
                                !["proxy"] = Nothing \cup OneObject],
      lost  |-> 0],
     [room  |-> [NoRoom EXCEPT !["value"] = 2, !["capture"] = 2],
      calls |-> [NoCalls EXCEPT !["value"] = OneObject \cup NamedLists,
                                !["capture"] = Nothing \cup OneObject \cup {Arguments(<<x>>, <<>>)},
                                !["interpreter"] = Nothing, !["none"] = Nothing],
      lost  |-> 2],
     [room  |-> [NoRoom EXCEPT !["value"] = 2, !["hash"] = 1, !["bvalue"] = 1, !["capture"] = 1],
      calls |-> [NoCalls EXCEPT !["hash"] = Keyed, !["bvalue"] = Nothing],
      lost  |-> 0],
     [room  |-> [NoRoom EXCEPT !["value"] = 1, !["hash"] = 1, !["bvalue"] = 1, !["capture"] = 1],
      calls |-> [NoCalls EXCEPT !["hash"] = KeyedByObjects, !["bvalue"] = Nothing],
      lost  |-> 1],
     [room  |-> [NoRoom EXCEPT !["value"] = 1, !["str"] = 1, !["hash"] = 1, !["capture"] = 1],
      calls |-> [NoCalls EXCEPT !["hash"] = KeyedByObjects],
      lost  |-> 0],
     [room  |-> [NoRoom EXCEPT !["value"] = 2, !["hash"] = 1, !["scope"] = 1, !["capture"] = 2],
      calls |-> [NoCalls EXCEPT !["hash"] = Nothing, !["scope"] = Nothing \cup Keyed],
      lost  |-> 0]}

ObjectSymmetry == Permutations(Object)
=============================================================================
