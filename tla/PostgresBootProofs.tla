--------------------------- MODULE PostgresBootProofs ---------------------------
(***************************************************************************)
(* What PostgresBoot guarantees for every set of transactions, every choice *)
(* of failure modes and runtime roots and every value of the bounds. The   *)
(* inductive invariant says, for each point of a boot, what is known of    *)
(* the live cluster, of the link and of the postmasters still running.     *)
(***************************************************************************)
EXTENDS PostgresBoot, FiniteSetTheorems, TLAPS

USE BootAssumption

-----------------------------------------------------------------------------
(* The inductive invariant. *)

\* The boot has a running postmaster on an initialised cluster, or hands it over.
Up == {"restore", "restoring", "createdb", "migrate", "stop", "supervisord", "serving"}

\* Nothing is in a database that was not committed, nor in the dump that was not saved.
DataInv ==
    /\ \A place \in Places :
           /\ pgdata[place].db = "none" => pgdata[place].data = {}
           /\ pgdata[place].data \subseteq committed
    /\ dump.data \subseteq saved
    /\ ~dump.exists => dump.data = {}

\* What the boot's position says of the link and of the cluster behind it.
LinkInv ==
    /\ link = "scratch" => strayed
    /\ pc \in {"init", "switch", "relink"} => link = "bucket"
    /\ pc = "relink" => root = "outside" /\ pgdata["scratch"] = Empty
    /\ pc = "initdb" => Live.form \in {"torn", "stub"}
    /\ pc \in Up => Live.form = "ready"

\* Only the live cluster has a postmaster that postmaster.pid names, and only a failed
\* start leaves one that it does not name.
PostmasterInv ==
    /\ pc \in {"down", "link_dir", "init"} => alive = {}
    /\ alive \ hidden \subseteq {link}
    /\ pc \in {"fallback_init", "initdb", "start", "switch", "relink", "supervisord"} =>
           alive = hidden
    /\ link = "bucket" => hidden \subseteq {"bucket"}
    /\ link \in hidden => pc \in {"failed", "switch", "relink"}
    /\ spent.hidden = 0 => hidden = {}

\* How far the live cluster is with the restore.
RestoreInv ==
    /\ pc = "restoring" => Live.db = "partial" /\ Live.data = {} /\ dump.exists
    /\ pc = "createdb" /\ Live.db = "none" => ~dump.exists
    /\ pc \in {"migrate", "stop", "supervisord", "serving"} => Live.db # "none"

\* A fallback begins without a database, and has all of the dump from the restore on.
FallbackInv ==
    link = "scratch" =>
        /\ pc \in {"fallback_init", "initdb", "start", "restore"} => Live.db = "none"
        /\ pc \in {"createdb", "migrate", "stop", "supervisord", "serving"} =>
               Live.db # "partial" /\ dump.data \subseteq Live.data

\* Where everything committed is, before the first fallback and the first restore that
\* is cut off.
CommittedInv ==
    ~strayed /\ ~cut =>
        /\ pgdata["bucket"].db = "whole" => pgdata["bucket"].data = committed
        /\ pgdata["bucket"].db = "none" => dump.data = committed
        /\ pgdata["bucket"].db = "partial" =>
               pc = "restoring" /\ link = "bucket" /\ dump.data = committed

BInv == TypeOK /\ DataInv /\ LinkInv /\ PostmasterInv /\ RestoreInv /\ FallbackInv /\ CommittedInv

-----------------------------------------------------------------------------
(* Every step keeps it. *)

\* The invariant holds before the first boot.
LEMMA InitInv == Init => BInv
<1> SUFFICES ASSUME Init PROVE BInv OBVIOUS
<1> USE DEF Init, Places, Empty, NoDump, ghosts
<1>d. dump \in Dump /\ (~dump.exists => dump.data = {})
  <2>1. CASE dump = NoDump BY <2>1 DEF Dump
  <2>2. CASE dump \in [exists : {TRUE}, data : SUBSET Tx] BY <2>2 DEF Dump
  <2>3. QED BY <2>1, <2>2
<1>e. dump.data \in SUBSET Tx BY <1>d DEF Dump
<1>s. spent \in [DOMAIN Budget -> Nat] BY DEF Budget
<1>1. TypeOK BY <1>d, <1>e, <1>s DEF TypeOK, Cluster, PC
<1>2. DataInv BY <1>d DEF DataInv
<1>3. LinkInv /\ PostmasterInv BY DEF LinkInv, PostmasterInv, Up
<1>4. RestoreInv /\ FallbackInv BY DEF RestoreInv, FallbackInv
<1>5. CommittedInv BY DEF CommittedInv
<1>6. QED BY <1>1, <1>2, <1>3, <1>4, <1>5 DEF BInv

\* Using up a bound keeps the counters natural numbers, and never takes a hidden
\* postmaster back.
LEMMA SpendType ==
    ASSUME TypeOK, NEW what \in DOMAIN Budget, Spend(what)
    PROVE  /\ spent' \in [DOMAIN Budget -> Nat]
           /\ spent'.hidden = 0 => spent.hidden = 0
BY DEF TypeOK, Spend, Budget

\* However the container ends, the next boot finds the invariant.
LEMMA EndInv ==
    ASSUME BInv, Ends,
           spent' \in [DOMAIN Budget -> Nat], spent'.hidden = 0 => spent.hidden = 0
    PROVE  BInv'
<1> USE DEF Ends, EndsWith, BInv
<1>1. TypeOK' BY DEF TypeOK, Cluster, Empty, Places, PC
<1>2. DataInv' BY DEF DataInv, Places, Empty, TypeOK
<1>3. LinkInv' BY DEF LinkInv, Up
<1>4. PostmasterInv' BY DEF PostmasterInv
<1>5. RestoreInv' BY DEF RestoreInv
<1>6. FallbackInv' BY DEF FallbackInv
<1>7. CommittedInv' BY DEF CommittedInv, Places, TypeOK
<1>8. QED BY <1>1, <1>2, <1>3, <1>4, <1>5, <1>6, <1>7

\* The steps with which a container ends.
LEMMA EndStep ==
    ASSUME BInv,
           \/ InitdbRefuses \/ ExitAfterFailure \/ StopRefused \/ RecreateRefused
           \/ RestoreFails \/ MigrationFails \/ CommandFails \/ Restart \/ Crash
    PROVE  BInv'
<1> DEFINE Counted == spent' \in [DOMAIN Budget -> Nat] /\ (spent'.hidden = 0 => spent.hidden = 0)
<1>1. ASSUME UNCHANGED spent PROVE Counted BY <1>1 DEF BInv, TypeOK
<1>2. ASSUME NEW what \in DOMAIN Budget, Spend(what) PROVE Counted
  BY <1>2, SpendType DEF BInv
<1>3. {"failures", "restarts", "crashes"} \subseteq DOMAIN Budget BY DEF Budget
<1>4. CASE InitdbRefuses \/ ExitAfterFailure \/ RecreateRefused \/ MigrationFails
  BY <1>1, <1>4, EndInv DEF InitdbRefuses, ExitAfterFailure, RecreateRefused, MigrationFails
<1>5. CASE StopRefused \/ RestoreFails \/ CommandFails \/ Restart \/ Crash
  BY <1>2, <1>3, <1>5, EndInv DEF StopRefused, RestoreFails, CommandFails, Restart, Crash
<1>6. QED BY <1>4, <1>5

\* The steps of prepare_dirs and initdb.
LEMMA InitdbStep ==
    ASSUME BInv,
           \/ Boot \/ link_dir \/ SkipInitdb
           \/ StartInitdb \/ WriteVersion \/ EndInitdb \/ InitdbFails
    PROVE  BInv'
<1> USE DEF BInv, TypeOK, DataInv, LinkInv, PostmasterInv, RestoreInv, FallbackInv, CommittedInv,
            Live, Goto, Keeps, Becomes, ghosts, Places, Cluster, Empty, PC, Up, Budget
<1>1. CASE Boot BY <1>1 DEF Boot
<1>2. CASE link_dir BY <1>2 DEF link_dir
<1>3. CASE SkipInitdb BY <1>3 DEF SkipInitdb
<1>4. CASE StartInitdb BY <1>4 DEF StartInitdb
<1>5. CASE WriteVersion BY <1>5 DEF WriteVersion
<1>6. CASE EndInitdb BY <1>6 DEF EndInitdb
<1>7. CASE InitdbFails BY <1>7 DEF InitdbFails, EndsWith, Spend
<1>8. QED BY <1>1, <1>2, <1>3, <1>4, <1>5, <1>6, <1>7

\* The start of PostgreSQL and the way to the fallback.
LEMMA StartStep ==
    ASSUME BInv,
           \/ StartSucceeds \/ StartFails \/ StartTimesOut
           \/ StopFailed \/ Recreate \/ switch_postgres_to_runtime_fallback
    PROVE  BInv'
<1> USE DEF BInv, TypeOK, DataInv, LinkInv, PostmasterInv, RestoreInv, FallbackInv, CommittedInv,
            Live, Goto, Keeps, ghosts, Places, PC, Up, Budget
<1>1. CASE StartSucceeds BY <1>1 DEF StartSucceeds
<1>2. CASE StartFails BY <1>2 DEF StartFails, Spend
<1>3. CASE StartTimesOut
  <2> USE <1>3 DEF StartTimesOut
  <2>1. spent' \in [DOMAIN Budget -> Nat] /\ (spent'.hidden = 0 => spent.hidden = 0)
    BY SpendType
  <2>2. hidden' # hidden => spent'.hidden # 0 BY DEF Spend
  <2>3. TypeOK' BY <2>1
  <2>4. PostmasterInv'
    <3>1. alive' \ hidden' \subseteq {link'} OBVIOUS
    <3>2. link = "bucket" => hidden' \subseteq {"bucket"} OBVIOUS
    <3>3. spent'.hidden = 0 => hidden' = {} BY <2>1, <2>2
    <3>4. QED BY <3>1, <3>2, <3>3
  <2>5. DataInv' /\ LinkInv' /\ RestoreInv' OBVIOUS
  <2>6. FallbackInv' /\ CommittedInv' OBVIOUS
  <2>7. QED BY <2>3, <2>4, <2>5, <2>6
<1>4. CASE StopFailed BY <1>4 DEF StopFailed, FallsBack
<1>5. CASE Recreate BY <1>5 DEF Recreate, Recreatable, RuntimePlace, Cluster, Empty
<1>6. CASE switch_postgres_to_runtime_fallback
  BY <1>6 DEF switch_postgres_to_runtime_fallback, RuntimePlace, Empty
<1>7. QED BY <1>1, <1>2, <1>3, <1>4, <1>5, <1>6

\* The restore, and the rest of the boot.
LEMMA RestoreStep ==
    ASSUME BInv,
           \/ SkipRestore \/ StartRestore \/ EndRestore \/ CreateDatabase
           \/ run_dify_migration \/ stop_temp_postgres \/ Serve
    PROVE  BInv'
<1> USE DEF BInv, TypeOK, DataInv, LinkInv, PostmasterInv, RestoreInv, FallbackInv, CommittedInv,
            Live, Goto, Keeps, Becomes, ghosts, Places, PC, Up, RestoreNeeded
<1>1. CASE SkipRestore BY <1>1 DEF SkipRestore
<1>2. CASE StartRestore
  <2> DEFINE cluster == [Live EXCEPT !.db = "partial", !.data = {}]
  <2> USE <1>2 DEF StartRestore
  <2>1. cluster \in Cluster /\ cluster.form = "ready" /\ cluster.db = "partial" /\ cluster.data = {}
    BY DEF Cluster
  <2>2. pgdata' = [pgdata EXCEPT ![link] = cluster] OBVIOUS
  <2> HIDE DEF cluster
  <2>3. TypeOK' BY <2>1, <2>2
  <2>4. DataInv' /\ LinkInv' /\ PostmasterInv' BY <2>1, <2>2
  <2>5. RestoreInv' /\ FallbackInv' /\ CommittedInv' BY <2>1, <2>2
  <2>6. QED BY <2>3, <2>4, <2>5
<1>3. CASE EndRestore
  <2> DEFINE cluster == [Live EXCEPT !.db = "whole", !.data = dump.data]
  <2> USE <1>3 DEF EndRestore
  <2>1. dump.data \in SUBSET Tx BY DEF Dump
  <2>2. /\ cluster \in Cluster
        /\ cluster.form = "ready" /\ cluster.db = "whole" /\ cluster.data = dump.data
    BY <2>1 DEF Cluster
  <2>3. pgdata' = [pgdata EXCEPT ![link] = cluster] OBVIOUS
  <2> HIDE DEF cluster
  <2>4. TypeOK' BY <2>2, <2>3
  <2>5. DataInv' /\ LinkInv' /\ PostmasterInv' BY <2>2, <2>3
  <2>6. RestoreInv' /\ FallbackInv' /\ CommittedInv' BY <2>2, <2>3
  <2>7. QED BY <2>4, <2>5, <2>6
<1>4. CASE CreateDatabase BY <1>4 DEF CreateDatabase, Cluster
<1>5. CASE run_dify_migration BY <1>5 DEF run_dify_migration
<1>6. CASE stop_temp_postgres
  <2> USE <1>6 DEF stop_temp_postgres
  <2>1. link \notin hidden OBVIOUS
  <2>2. alive' = hidden BY <2>1
  <2>3. TypeOK' BY <2>2
  <2>4. PostmasterInv' BY <2>1, <2>2
  <2>5. DataInv' /\ LinkInv' /\ RestoreInv' OBVIOUS
  <2>6. FallbackInv' /\ CommittedInv' OBVIOUS
  <2>7. QED BY <2>3, <2>4, <2>5, <2>6
<1>7. CASE Serve BY <1>7 DEF Serve
<1>8. QED BY <1>1, <1>2, <1>3, <1>4, <1>5, <1>6, <1>7

\* The database in use.
LEMMA ServingStep ==
    ASSUME BInv, Commit \/ Backup
    PROVE  BInv'
<1> USE DEF BInv, TypeOK, DataInv, LinkInv, PostmasterInv, RestoreInv, FallbackInv, CommittedInv,
            Live, Places, Cluster, Dump, PC, Up
<1>1. CASE Commit BY <1>1 DEF Commit
<1>2. CASE Backup BY <1>2 DEF Backup
<1>3. QED BY <1>1, <1>2

\* Every step keeps the invariant.
LEMMA NextInv == BInv /\ [Next]_vars => BInv'
<1> SUFFICES ASSUME BInv, [Next]_vars PROVE BInv'
  OBVIOUS
<1>1. CASE Next
  BY <1>1, EndStep, InitdbStep, StartStep, RestoreStep, ServingStep DEF Next, Step
<1>2. CASE UNCHANGED vars
  BY <1>2 DEF vars, ghosts, BInv, TypeOK, DataInv, LinkInv, PostmasterInv, RestoreInv, FallbackInv,
              CommittedInv, Live
<1>3. QED BY <1>1, <1>2

-----------------------------------------------------------------------------
(* The theorems. *)

\* The inductive invariant holds in every state of every boot.
THEOREM BootInvariance == Spec => []BInv
<1>1. QED BY InitInv, NextInv, PTL DEF Spec

\* Every variable of every boot has its type.
THEOREM BootTypeCorrect == Spec => []TypeOK
<1>1. BInv => TypeOK BY DEF BInv
<1>2. QED BY <1>1, BootInvariance, PTL

\* stop_temp_postgres before the fallback and before supervisord: no boot has two
\* postmasters, unless one hangs before it writes postmaster.pid.
THEOREM SinglePostmaster == Spec => []OnePostmaster
<1>1. ASSUME BInv PROVE OnePostmaster
  <2> SUFFICES ASSUME spent.hidden = 0 PROVE Cardinality(alive) <= 1 BY DEF OnePostmaster
  <2>1. alive \subseteq {link} BY <1>1 DEF BInv, PostmasterInv
  <2>2. IsFiniteSet({link}) /\ Cardinality({link}) = 1 BY FS_Singleton
  <2>3. IsFiniteSet(alive) /\ Cardinality(alive) <= Cardinality({link}) BY <2>1, <2>2, FS_Subset
  <2>4. QED BY <2>2, <2>3
<1>2. QED BY <1>1, BootInvariance, PTL

\* recreate_runtime_postgres_fallback_dir and all the rest of the boot: an initialised
\* PGDATA of the bucket loses nothing to any step, whatever RUNTIME_ROOT leads to.
THEOREM PersistentSafe == Spec => PersistentUntouched
<1> DEFINE Same == pgdata'["bucket"] = pgdata["bucket"]
           Untouched == pgdata["bucket"].form = "ready" =>
                            /\ pgdata'["bucket"].form = "ready"
                            /\ pgdata["bucket"].data \subseteq pgdata'["bucket"].data
<1>1. ASSUME BInv, [Next]_vars PROVE Untouched
  <2> USE <1>1 DEF BInv, TypeOK, Places
  <2>1. ASSUME Same PROVE Untouched BY <2>1
  <2>2. CASE Ends BY <2>1, <2>2 DEF Ends, EndsWith
  <2>3. CASE UNCHANGED pgdata BY <2>1, <2>3
  <2>4. CASE StartInitdb \/ WriteVersion \/ EndInitdb
    BY <2>4 DEF StartInitdb, WriteVersion, EndInitdb, Becomes, Live
  <2>5. CASE InitdbFails BY <2>5 DEF InitdbFails, EndsWith, LinkInv, Live
  <2>6. CASE Recreate BY <2>1, <2>6 DEF Recreate, Recreatable, RuntimePlace
  <2>7. CASE StartRestore
    BY <2>7 DEF StartRestore, RestoreNeeded, Becomes, DataInv, Live
  <2>8. CASE EndRestore BY <2>8 DEF EndRestore, Becomes, Goto, RestoreInv, Live
  <2>9. CASE CreateDatabase BY <2>9 DEF CreateDatabase, Becomes, Live
  <2>10. CASE Commit BY <2>10 DEF Commit
  <2>11. QED
    BY <2>2, <2>3, <2>4, <2>5, <2>6, <2>7, <2>8, <2>9, <2>10
    DEF Next, Step, vars, Keeps, Boot, link_dir, SkipInitdb, InitdbRefuses, StartSucceeds,
        StartFails, StartTimesOut, ExitAfterFailure, StopFailed, StopRefused, RecreateRefused,
        switch_postgres_to_runtime_fallback, SkipRestore, RestoreFails, run_dify_migration,
        MigrationFails, CommandFails, stop_temp_postgres, Serve, Backup, Restart, Crash
<1>2. QED BY <1>1, BootInvariance, PTL DEF Spec, PersistentUntouched

\* restore_postgres_backup_if_needed, createdb and initdb: until a boot falls back or has
\* a restore into the bucket cut off, whatever serves has everything ever committed.
THEOREM NothingIsLost == Spec => []NothingLost
<1>1. ASSUME BInv PROVE NothingLost
  <2> SUFFICES ASSUME pc = "serving", ~strayed, ~cut PROVE Live.data = committed
    BY DEF NothingLost
  <2> USE <1>1 DEF BInv
  <2>1. link = "bucket" BY DEF TypeOK, Places, LinkInv
  <2>2. pgdata["bucket"].db = "whole"
    BY <2>1 DEF TypeOK, Places, Cluster, RestoreInv, CommittedInv, Live
  <2>3. QED BY <2>1, <2>2 DEF CommittedInv, Live
<1>2. QED BY <1>1, BootInvariance, PTL

\* switch_postgres_to_runtime_fallback and the restore after it: what a fallback serves
\* begins with all of the dump, whatever earlier fallbacks left behind.
THEOREM FallbackComplete == Spec => []FallbackServesDump
<1>1. BInv => FallbackServesDump
  BY DEF BInv, FallbackServesDump, FallbackInv, RestoreInv, TypeOK, Places, Cluster, Live
<1>2. QED BY <1>1, BootInvariance, PTL
=============================================================================
