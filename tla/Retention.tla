------------------------------ MODULE Retention ------------------------------
(***************************************************************************)
(* Which timestamped dumps docker/postgres-backup-loop keeps.              *)
(*                                                                         *)
(* A dump is identified with its epoch: its name is the UTC second it was  *)
(* stamped with, and names sort in the order of the epochs they stand for. *)
(* The script walks the names in descending order and keeps a list; what   *)
(* it keeps is stated here as sets, and RetentionHistory checks the loop   *)
(* itself against these definitions.                                       *)
(***************************************************************************)
EXTENDS Integers, FiniteSets

CONSTANT RetainSetting   \* POSTGRES_BACKUP_RETAIN_COUNT, NotANumber for any other text

NotANumber == -1

\* What POSTGRES_BACKUP_RETENTION_POLICY can select.
Policies == {"tiered", "count"}

ASSUME RetentionAssumption == RetainSetting \in Nat \cup {NotANumber}

\* A decimal setting clamped to [low, high]; any other text is the default.
ParseUint(value, default, low, high) ==
    LET v == IF value = NotANumber THEN default ELSE value
        raised == IF v < low THEN low ELSE v
    IN  IF raised > high THEN high ELSE raised

Retain == ParseUint(RetainSetting, 65, 2, 200)

-----------------------------------------------------------------------------
NoBucket == <<"none", 0>>

\* Defect: spans are counted back from now, so they move along with the clock.
BucketByAge(epoch, now) ==
    LET age == IF now - epoch < 0 THEN 0 ELSE now - epoch
    IN  CASE age <= 900                     -> <<"recent", epoch>>
          [] age > 900   /\ age <= 7200     -> <<"five-minute", age \div 300>>
          [] age > 7200  /\ age <= 86400    -> <<"hourly", age \div 3600>>
          [] age > 86400 /\ age <= 604800   -> <<"daily", age \div 86400>>
          [] age > 604800                   -> NoBucket

\* The bucket a dump competes in, by its age. A dump from the future, which a
\* clock that stepped back leaves behind, has age 0.
RetentionBucket(epoch, now) ==
    LET age == IF now - epoch < 0 THEN 0 ELSE now - epoch
    IN  CASE age <= 900                     -> <<"recent", epoch>>
          [] age > 900   /\ age <= 7200     -> <<"five-minute", epoch \div 300>>
          [] age > 7200  /\ age <= 86400    -> <<"hourly", epoch \div 3600>>
          [] age > 86400 /\ age <= 604800   -> <<"daily", epoch \div 86400>>
          [] age > 604800                   -> NoBucket

\* The n newest members of S.
Newest(S, n) == {e \in S : Cardinality({f \in S : f > e}) < n}

\* Defect: the two newest are not exempt.
MarkedByBucket(S, now) ==
    {e \in S : /\ RetentionBucket(e, now) # NoBucket
               /\ \A f \in S : f > e => RetentionBucket(f, now) # RetentionBucket(e, now)}

\* What the walk marks: the two newest, which take no bucket, and the newest
\* remaining dump of every bucket.
Marked(S, now) ==
    LET rest == S \ Newest(S, 2)
        bucket(e) == RetentionBucket(e, now)
    IN  Newest(S, 2) \cup
        {e \in rest : /\ bucket(e) # NoBucket
                      /\ \A f \in rest : f > e => bucket(f) # bucket(e)}

\* What survives a prune of the dumps S at time now.
Kept(policy, S, now) ==
    IF policy = "count" THEN Newest(S, Retain) ELSE Newest(Marked(S, now), Retain)
=============================================================================
