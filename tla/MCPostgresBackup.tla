--------------------------- MODULE MCPostgresBackup ---------------------------
EXTENDS PostgresBackup, TLC

CONSTANTS loop, once1, once2, noproc

OneOnce == {once1}
TwoOnces == {once1, once2}
=============================================================================
