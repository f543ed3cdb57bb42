---------------------------- MODULE MCSmopScalar ----------------------------
(* A few threads that share one scalar.                                    *)
EXTENDS SmopScalar, TLC

CONSTANTS t1, t2, t3, u, v, w

Symmetry == {p @@ q : p \in Permutations(Thread), q \in Permutations(Value)}
=============================================================================
