--------------------------- MODULE RetentionHistory ---------------------------
(***************************************************************************)
(* Months of pruning: docker/postgres-backup-loop takes a dump, prunes,    *)
(* and takes the next one some time later. Checks what is left of the      *)
(* history, and the pruning loop as written against the sets of Retention. *)
(***************************************************************************)
EXTENDS Retention, SequencesExt

CONSTANTS Gaps,       \* seconds from one dump to the next; negative: the clock was set back
          MaxDumps    \* bounds the dumps taken

ASSUME HistoryAssumption == Gaps \subseteq Int /\ MaxDumps \in Nat

VARIABLES policy,    \* POSTGRES_BACKUP_RETENTION_POLICY
          now,       \* the second of the last prune
          backups,   \* the dumps on disk
          peak,      \* ghost: the furthest the clock has been
          taken,     \* ghost: every dump ever taken
          capped     \* ghost: the retain count has cut a dump that a bucket would keep

vars == <<policy, now, backups, peak, taken, capped>>

\* Far enough from 0 that every age and bucket is that of a real epoch.
Start == 1728000

Init ==
    /\ policy \in Policies
    /\ now = Start
    /\ peak = Start
    /\ backups = {}
    /\ taken = {}
    /\ capped = FALSE

-----------------------------------------------------------------------------
(* prune_old_backups as the script runs it, over a list in descending order. *)

Descending(S) == SetToSortSeq(S, LAMBDA a, b : a > b)

\* One round of the walk: the loop's variables after it has seen the dump e.
Visit(acc, e, t) ==
    LET bucket == RetentionBucket(e, t)
        kept == [acc EXCEPT !.index = @ + 1, !.keep_list = Append(@, e)]
    IN  IF acc.index < 2 THEN kept
        ELSE IF bucket # NoBucket /\ bucket \notin acc.seen_bucket
        THEN [kept EXCEPT !.seen_bucket = @ \cup {bucket}]
        ELSE [acc EXCEPT !.index = @ + 1]

FirstOf(list, n) == IF Len(list) <= n THEN ToSet(list) ELSE ToSet(SubSeq(list, 1, n))

\* Defect: the walk starts where the two newest dumps are behind it.
LoopKeptOnce(S, t) ==
    LET walk == FoldLeft(LAMBDA acc, e : Visit(acc, e, t),
                         [index |-> 2, keep_list |-> <<>>, seen_bucket |-> {}], Descending(S))
    IN  FirstOf(walk.keep_list, Retain)

\* The dumps the loop does not remove.
LoopKept(S, t) ==
    LET walk == FoldLeft(LAMBDA acc, e : Visit(acc, e, t),
                         [index |-> 0, keep_list |-> <<>>, seen_bucket |-> {}], Descending(S))
    IN  IF policy = "count" THEN FirstOf(Descending(S), Retain)
        ELSE IF Cardinality(S) <= 2 THEN S
        ELSE FirstOf(walk.keep_list, Retain)

-----------------------------------------------------------------------------
Backup(gap) ==
    LET t == now + gap
        all == backups \cup {t}
    IN  /\ Cardinality(taken) < MaxDumps
        /\ t \notin backups
        /\ now' = t
        /\ backups' = Kept(policy, all, t)
        /\ peak' = IF t > peak THEN t ELSE peak
        /\ taken' = taken \cup {t}
        /\ UNCHANGED policy
        /\ capped' = (capped \/ Cardinality(Marked(all, t)) > Retain)

Next == \E gap \in Gaps : Backup(gap)

Spec == Init /\ [][Next]_vars

-----------------------------------------------------------------------------
\* Every prune leaves exactly what the loop of prune_old_backups leaves.
LoopLeavesKept ==
    [][backups' = LoopKept(backups \cup {now'}, now')]_vars

\* Another dump of the same span of `width` seconds survives.
Covered(t, width) == \E b \in backups : b \div width = t \div width

Age(t) == peak - t

\* Until the retain count bites, tiered retention never loses a span it promises to keep a
\* dump of: each 5 minutes of the last 2 hours, each hour of the last day and each day of
\* the last week, however the dumps were spaced and pruned on the way.
TiersCovered ==
    policy = "tiered" /\ ~capped =>
        \A t \in taken :
            /\ Age(t) <= 900 => t \in backups
            /\ Age(t) <= 7200 => Covered(t, 300)
            /\ Age(t) <= 86400 => Covered(t, 3600)
            /\ Age(t) <= 604800 => Covered(t, 86400)

\* However far the clock is set back, a prune never removes one of the two newest dumps
\* ever taken. While the clock moves forward, the dump it was run for is one of them.
NewestTwoSurvive ==
    [][Newest(taken', 2) \subseteq backups']_vars
=============================================================================
