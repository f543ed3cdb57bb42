-------------------------- MODULE MCSmopLowlevel --------------------------
(* Two threads, one of which builds and hands over what the other shares.  *)
EXTENDS SmopLowlevel, TLC

CONSTANTS t1, t2, x, y, z, la, lb, lc

MCLocalOf == [l \in Local |-> IF l \in {la, lb} THEN t1 ELSE t2]
=============================================================================
