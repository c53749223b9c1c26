-------------------------- MODULE MCRetentionHistory --------------------------
EXTENDS RetentionHistory

\* Around the boundaries of the tiers: a dump in the same 5 minutes, one past the first
\* 15 minutes, an hour, a day, more than a week, and a clock set back by a minute.
TieredGaps == {290, 901, 3600, 86400, 700000, -60}
=============================================================================
