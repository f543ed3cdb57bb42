--------------------------- MODULE MCPugsThreads ---------------------------
(* The threads of t/spec/S17-async/contend.t and async.t.                  *)
EXTENDS PugsThreads

CONSTANTS a, b

\* What touches the same variables runs together.
MCMixes == {{"contend", "plain"}, {"++", "defer", "maybe", "die"},
            {"push", "shift", "pop", "assign"}, {"join", "++"}}
MCContend == {{"contend"}}
=============================================================================
