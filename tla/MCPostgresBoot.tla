---------------------------- MODULE MCPostgresBoot ----------------------------
EXTENDS PostgresBoot

CONSTANTS t1, t2
TwoTx == {t1, t2}

OnlyExit == {"exit"}
OnlyFallback == {"fallback-to-runtime"}
OnlyOutside == {"outside"}
=============================================================================
