--------------------------- MODULE MCSmopIdconst ---------------------------
(* Names that are prefixes of one another, and names with a NUL byte.      *)
EXTENDS SmopIdconst

CONSTANTS t1, t2, t3

he == <<2, 1>>
hel == <<2, 1, 3>>
hi == <<2, 4>>

nul3 == <<2, NUL, 3>>
nul4 == <<2, NUL, 4>>

\* What test/03_const_identifier.c creates, with more around it.
MCName == {he, hel, nul3, nul4}
MCFewNames == {he, hel}

MCBoot == <<hi>>
=============================================================================
