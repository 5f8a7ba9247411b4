--------------------------- MODULE MCFatalReport ---------------------------
(* A small instance of FatalReport for TLC.                                *)
EXTENDS FatalReport

CONSTANTS t1, t2, t3, alien, dump

Threads == {t1, t2, t3, alien, dump}
Aliens  == {alien}

=============================================================================
