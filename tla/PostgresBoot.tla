----------------------------- MODULE PostgresBoot -----------------------------
(***************************************************************************)
(* docker/entrypoint.sh: how a boot of the container brings PostgreSQL up. *)
(*                                                                         *)
(* /data/postgres is a link to the PGDATA in use: the persistent one in    *)
(* the bucket, or a scratch one a boot makes anew when PostgreSQL does not *)
(* start on the bucket and POSTGRES_BUCKET_FAILURE_MODE allows it. A boot  *)
(* initialises the PGDATA, starts a temporary postmaster, restores the     *)
(* latest dump into a cluster without the Dify database, stops the         *)
(* postmaster and hands over to supervisord. The container may crash       *)
(* between any two steps; what the script's `exit 1` ends, the platform    *)
(* boots again, with the scratch directory or without it.                  *)
(*                                                                         *)
(* A database is the set of transactions in it. The dump directory is one  *)
(* dump that a successful backup replaces, as PostgresBackup shows it to   *)
(* be as long as no command fails. PostgreSQL keeps what it committed.     *)
(***************************************************************************)
EXTENDS Integers, FiniteSets

CONSTANTS Tx,           \* the transactions of the Dify database
          Modes,        \* the values of POSTGRES_BUCKET_FAILURE_MODE in use
          RuntimeRoots, \* the kinds of RUNTIME_ROOT in use
          MaxRestarts,  \* bounds the restarts of a container that serves
          MaxCrashes,   \* bounds the crashes during a boot
          MaxFailures,  \* bounds the other commands of a boot that fail
          MaxStarts,    \* bounds the starts of PostgreSQL that fail
          MaxHidden     \* bounds the postmasters that hang without postmaster.pid

\* ${RUNTIME_ROOT}/postgres is a directory outside PERSIST_ROOT, the bucket's PGDATA
\* itself, or a symlink to it.
AllRuntimeRoots == {"outside", "inside", "symlink"}
AllModes == {"fallback-to-runtime", "exit"}

ASSUME BootAssumption ==
    /\ Modes \subseteq AllModes
    /\ RuntimeRoots \subseteq AllRuntimeRoots
    /\ {MaxRestarts, MaxCrashes, MaxFailures, MaxStarts, MaxHidden} \subseteq Nat

VARIABLES
    pgdata,      \* the clusters, in the bucket and in the scratch directory
    dump,        \* what latest.sql.gz restores
    link,        \* where /data/postgres leads
    pc,          \* the next step of the boot
    mode,        \* this boot's POSTGRES_BUCKET_FAILURE_MODE
    root,        \* this boot's kind of RUNTIME_ROOT
    alive,       \* the clusters a postmaster runs on
    hidden,      \* those whose postmaster has not written postmaster.pid
    committed,   \* ghost: the transactions ever committed
    saved,       \* ghost: the transactions ever in a successful backup
    strayed,     \* ghost: a boot has switched to the scratch directory
    cut,         \* ghost: a restore into the bucket has been cut off
    spent        \* what is used up of each bound

ghosts == <<committed, saved, strayed, cut>>
vars == <<pgdata, dump, link, pc, mode, root, alive, hidden, ghosts, spent>>

Places == {"bucket", "scratch"}

\* "torn": initdb was cut off and PG_VERSION is missing. "stub": PG_VERSION is there and
\* the rest is not. db is the Dify database, data the transactions in it.
Cluster == [form : {"empty", "torn", "stub", "ready"},
            db : {"none", "partial", "whole"}, data : SUBSET Tx]
Empty == [form |-> "empty", db |-> "none", data |-> {}]

Dump == [exists : BOOLEAN, data : SUBSET Tx]
NoDump == [exists |-> FALSE, data |-> {}]

PC == {"down", "link_dir", "init", "fallback_init", "initdb", "start", "failed", "switch",
       "relink", "restore", "restoring", "createdb", "migrate", "stop", "supervisord", "serving"}

Budget == [restarts |-> MaxRestarts, crashes |-> MaxCrashes, failures |-> MaxFailures,
           starts |-> MaxStarts, hidden |-> MaxHidden]

Spend(what) ==
    /\ spent[what] < Budget[what]
    /\ spent' = [spent EXCEPT ![what] = @ + 1]

\* A new Space: nothing in the bucket but, in a restore drill, a dump.
Init ==
    /\ pgdata = [place \in Places |-> Empty]
    /\ dump \in {NoDump} \cup [exists : {TRUE}, data : SUBSET Tx]
    /\ link = "none"
    /\ pc = "down"
    /\ mode \in Modes
    /\ root \in RuntimeRoots
    /\ alive = {}
    /\ hidden = {}
    /\ committed = dump.data
    /\ saved = dump.data
    /\ strayed = FALSE
    /\ cut = FALSE
    /\ spent = [what \in DOMAIN Budget |-> 0]

\* The cluster at /data/postgres.
Live == pgdata[link]

Goto(at, to) == pc = at /\ pc' = to

\* The steps that change no cluster, and those that change the live one only.
Keeps == UNCHANGED <<pgdata, dump, mode, root, ghosts>>
Becomes(cluster) ==
    /\ pgdata' = [pgdata EXCEPT ![link] = cluster]
    /\ UNCHANGED <<dump, link, mode, root, alive, hidden>>

\* The container ends, and with it every process. It comes back with its own file system
\* or with a new one, where the scratch directory and the link are gone.
EndsWith(clusters) ==
    /\ pc' = "down"
    /\ alive' = {}
    /\ hidden' = {}
    /\ \/ pgdata' = clusters /\ UNCHANGED link
       \/ pgdata' = [clusters EXCEPT !["scratch"] = Empty] /\ link' = "none"
    /\ cut' = (cut \/ (pc = "restoring" /\ link = "bucket"))
    /\ UNCHANGED <<dump, mode, root, committed, saved, strayed>>

Ends == EndsWith(pgdata)

-----------------------------------------------------------------------------
(* prepare_dirs and the initialisation of the cluster. *)

\* The operator may change the configuration between two boots.
Boot ==
    /\ Goto("down", "link_dir")
    /\ mode' \in Modes
    /\ root' \in RuntimeRoots
    /\ UNCHANGED <<pgdata, dump, link, alive, hidden, ghosts, spent>>

\* Defect: whatever is at /data/postgres is left there.
LinkLeftAsItIs ==
    /\ Goto("link_dir", "init")
    /\ Keeps
    /\ UNCHANGED <<link, alive, hidden, spent>>

\* link_dir replaces a link that leads elsewhere.
link_dir ==
    /\ Goto("link_dir", "init")
    /\ link' = "bucket"
    /\ Keeps
    /\ UNCHANGED <<alive, hidden, spent>>

SkipInitdb ==
    /\ Goto("init", "start")
    /\ Live.form \in {"stub", "ready"}
    /\ Keeps
    /\ UNCHANGED <<link, alive, hidden, spent>>

\* initdb wants an empty directory, and fills it before it writes PG_VERSION.
StartInitdb ==
    /\ \/ Goto("init", "initdb")
       \/ Goto("fallback_init", "initdb")
    /\ Live.form = "empty"
    /\ Becomes([Live EXCEPT !.form = "torn"])
    /\ UNCHANGED <<ghosts, spent>>

InitdbRefuses ==
    /\ \/ pc = "init" /\ Live.form = "torn"
       \/ pc = "fallback_init" /\ Live.form # "empty"
    /\ Ends
    /\ UNCHANGED spent

WriteVersion ==
    /\ Goto("initdb", "initdb")
    /\ Live.form = "torn"
    /\ Becomes([Live EXCEPT !.form = "stub"])
    /\ UNCHANGED <<ghosts, spent>>

EndInitdb ==
    /\ Goto("initdb", "start")
    /\ Live.form = "stub"
    /\ Becomes([Live EXCEPT !.form = "ready"])
    /\ UNCHANGED <<ghosts, spent>>

\* initdb reports an error, and empties the directory before it exits.
InitdbFails ==
    /\ pc = "initdb"
    /\ Spend("failures")
    /\ EndsWith([pgdata EXCEPT ![link] = Empty])

-----------------------------------------------------------------------------
(* start_temp_postgres and the fallback. *)

StartSucceeds ==
    /\ Goto("start", "restore")
    /\ Live.form = "ready"
    /\ alive' = alive \cup {link}
    /\ Keeps
    /\ UNCHANGED <<link, hidden, spent>>

\* The postmaster exits: it cannot read what is there.
StartFails ==
    /\ Goto("start", "failed")
    /\ IF Live.form = "ready" THEN Spend("starts") ELSE UNCHANGED spent
    /\ Keeps
    /\ UNCHANGED <<link, alive, hidden>>

\* pg_ctl gives up after its timeout, and the postmaster goes on starting.
StartTimesOut ==
    /\ Goto("start", "failed")
    /\ Live.form = "ready"
    /\ alive' = alive \cup {link}
    /\ \/ Spend("starts") /\ UNCHANGED hidden
       \/ Spend("hidden") /\ hidden' = hidden \cup {link}
    /\ Keeps
    /\ UNCHANGED link

\* postgres_on_bucket_path && postgres_bucket_fallback_enabled
FallsBack == link = "bucket" /\ mode = "fallback-to-runtime"

\* Defect: only the failure mode is looked at, and nothing is done for the scratch PGDATA.
ExitUnlessFallback ==
    /\ pc = "failed"
    /\ mode # "fallback-to-runtime"
    /\ Ends
    /\ UNCHANGED spent

\* exit 1
ExitAfterFailure ==
    /\ pc = "failed"
    /\ ~FallsBack
    /\ Ends
    /\ UNCHANGED spent

\* Defect: the fallback does not wait for the postmaster to stop.
SwitchWithoutStop ==
    /\ Goto("failed", "switch")
    /\ FallsBack
    /\ Keeps
    /\ UNCHANGED <<link, alive, hidden, spent>>

\* stop_temp_postgres stops, terminates or kills the postmaster that postmaster.pid
\* names. One it does not name is taken to be stopped.
StopFailed ==
    /\ Goto("failed", "switch")
    /\ FallsBack
    /\ alive' = alive \ ({link} \ hidden)
    /\ Keeps
    /\ UNCHANGED <<link, hidden, spent>>

\* The postmaster survives even KILL: the boot refuses to go on.
StopRefused ==
    /\ \/ pc = "failed" /\ FallsBack
       \/ pc = "stop"
    /\ link \in alive \ hidden
    /\ Spend("failures")
    /\ Ends

\* ${RUNTIME_ROOT}/postgres is a real directory that does not overlap PERSIST_ROOT.
Recreatable == root = "outside"

\* The place that RUNTIME_ROOT leads to.
RuntimePlace == IF root = "outside" THEN "scratch" ELSE "bucket"

\* Defect: neither the symlink nor the overlap is looked at.
RecreateAnywhere ==
    /\ Goto("switch", "relink")
    /\ pgdata' = [pgdata EXCEPT ![RuntimePlace] = Empty]
    /\ UNCHANGED <<dump, link, mode, root, alive, hidden, ghosts, spent>>

\* recreate_runtime_postgres_fallback_dir
Recreate ==
    /\ Goto("switch", "relink")
    /\ Recreatable
    /\ pgdata' = [pgdata EXCEPT ![RuntimePlace] = Empty]
    /\ UNCHANGED <<dump, link, mode, root, alive, hidden, ghosts, spent>>

RecreateRefused ==
    /\ pc = "switch"
    /\ ~Recreatable
    /\ Ends
    /\ UNCHANGED spent

switch_postgres_to_runtime_fallback ==
    /\ Goto("relink", "fallback_init")
    /\ link' = RuntimePlace
    /\ strayed' = TRUE
    /\ UNCHANGED <<pgdata, dump, mode, root, alive, hidden, committed, saved, cut, spent>>

-----------------------------------------------------------------------------
(* restore_postgres_backup_if_needed and the rest of the boot. *)

\* Defect: the database is not looked at.
RestoreWheneverDumped == dump.exists

\* Defect: a fallback starts from an empty database.
RestoreOnBucketOnly == dump.exists /\ Live.db = "none" /\ link = "bucket"

RestoreNeeded == dump.exists /\ Live.db = "none"

SkipRestore ==
    /\ Goto("restore", "createdb")
    /\ ~RestoreNeeded
    /\ Keeps
    /\ UNCHANGED <<link, alive, hidden, spent>>

\* The dump's CREATE DATABASE comes long before the last of its rows.
StartRestore ==
    /\ Goto("restore", "restoring")
    /\ RestoreNeeded
    /\ Becomes([Live EXCEPT !.db = "partial", !.data = {}])
    /\ UNCHANGED <<ghosts, spent>>

EndRestore ==
    /\ Goto("restoring", "createdb")
    /\ Becomes([Live EXCEPT !.db = "whole", !.data = dump.data])
    /\ UNCHANGED <<ghosts, spent>>

\* psql stops at the first error: exit 1.
RestoreFails ==
    /\ pc = "restoring"
    /\ Spend("failures")
    /\ Ends

\* createdb, unless the database is there.
CreateDatabase ==
    /\ Goto("createdb", "migrate")
    /\ Becomes([Live EXCEPT !.db = IF @ = "none" THEN "whole" ELSE @])
    /\ UNCHANGED <<ghosts, spent>>

run_dify_migration ==
    /\ Goto("migrate", "stop")
    /\ Keeps
    /\ UNCHANGED <<link, alive, hidden, spent>>

\* What a restore left half done may be more than the migration can deal with.
MigrationFails ==
    /\ pc = "migrate"
    /\ Live.db = "partial"
    /\ Ends
    /\ UNCHANGED spent

\* `set -e`. When it is the query for the database that fails, the restore it leads to
\* ends at the dump's first CREATE ROLE.
CommandFails ==
    /\ pc \in {"restore", "createdb", "migrate"}
    /\ Spend("failures")
    /\ Ends

stop_temp_postgres ==
    /\ Goto("stop", "supervisord")
    /\ alive' = alive \ {link}
    /\ Keeps
    /\ UNCHANGED <<link, hidden, spent>>

\* supervisord runs run-postgres.
Serve ==
    /\ Goto("supervisord", "serving")
    /\ alive' = alive \cup {link}
    /\ Keeps
    /\ UNCHANGED <<link, hidden, spent>>

Commit ==
    /\ pc = "serving"
    /\ \E tx \in Tx \ committed :
           /\ pgdata' = [pgdata EXCEPT ![link].data = @ \cup {tx}]
           /\ committed' = committed \cup {tx}
    /\ UNCHANGED <<dump, link, pc, mode, root, alive, hidden, saved, strayed, cut, spent>>

\* postgres-backup-loop: a successful backup.
Backup ==
    /\ pc = "serving"
    /\ dump' = [exists |-> TRUE, data |-> Live.data]
    /\ saved' = saved \cup Live.data
    /\ UNCHANGED <<pgdata, link, pc, mode, root, alive, hidden, committed, strayed, cut, spent>>

-----------------------------------------------------------------------------
(* The platform. *)

Restart ==
    /\ pc = "serving"
    /\ Spend("restarts")
    /\ Ends

Crash ==
    /\ pc \notin {"down", "serving"}
    /\ Spend("crashes")
    /\ Ends

-----------------------------------------------------------------------------
\* What a boot does by itself.
Step ==
    \/ Boot \/ link_dir
    \/ SkipInitdb \/ StartInitdb \/ InitdbRefuses \/ WriteVersion \/ EndInitdb \/ InitdbFails
    \/ StartSucceeds \/ StartFails \/ StartTimesOut
    \/ ExitAfterFailure \/ StopFailed \/ StopRefused
    \/ Recreate \/ RecreateRefused \/ switch_postgres_to_runtime_fallback
    \/ SkipRestore \/ StartRestore \/ EndRestore \/ RestoreFails
    \/ CreateDatabase \/ run_dify_migration \/ MigrationFails \/ CommandFails
    \/ stop_temp_postgres \/ Serve

Next == Step \/ Commit \/ Backup \/ Restart \/ Crash

Spec == Init /\ [][Next]_vars

\* The script goes on, and the platform boots a container that ended.
FairSpec == Spec /\ WF_vars(Step)

-----------------------------------------------------------------------------
(* Properties. *)

\* Every variable has its type, and a cluster that is not initialised holds no database.
TypeOK ==
    /\ pgdata \in [Places -> Cluster]
    /\ \A place \in Places : pgdata[place].form # "ready" => pgdata[place].db = "none"
    /\ dump \in Dump
    /\ link \in Places \cup {"none"}
    /\ link = "none" => pc \in {"down", "link_dir"}
    /\ pc \in PC
    /\ mode \in Modes
    /\ root \in RuntimeRoots
    /\ alive \in SUBSET Places
    /\ hidden \in SUBSET alive
    /\ committed \in SUBSET Tx
    /\ saved \in SUBSET committed
    /\ strayed \in BOOLEAN
    /\ cut \in BOOLEAN
    /\ spent \in [DOMAIN Budget -> Nat]

\* Unless a postmaster hangs before it writes postmaster.pid, no boot goes on to another
\* PGDATA, or serves, while a postmaster of the PGDATA it left still runs.
OnePostmaster == spent.hidden = 0 => Cardinality(alive) <= 1

\* The fallback confirms that the old PostgreSQL process has stopped.
OldPostmasterStopped == Cardinality(alive) <= 1

\* No step of any boot removes an initialised PGDATA of the bucket, or a transaction in
\* it, whatever RUNTIME_ROOT and the failures are.
PersistentUntouched ==
    [][pgdata["bucket"].form = "ready" =>
         pgdata'["bucket"].form = "ready" /\ pgdata["bucket"].data \subseteq pgdata'["bucket"].data]_vars

\* As long as no boot has fallen back and no restore was cut off, whatever serves holds
\* every transaction ever committed, through all crashes and restarts.
NothingLost == pc = "serving" /\ ~strayed /\ ~cut => Live.data = committed

\* A fallback serves all of the newest dump, and never what an earlier fallback left.
FallbackServesDump ==
    pc = "serving" /\ link = "scratch" => Live.db = "whole" /\ dump.data \subseteq Live.data

\* Only transactions that no successful backup had can be missing from what serves.
OnlyUnsavedIsLost == pc = "serving" => saved \subseteq Live.data

\* Once the bucket has a PGDATA that initdb completed, the boots that fail are followed by
\* one that serves, in either failure mode, unless a restore into it was cut off.
ServesAgain == pgdata["bucket"].form = "ready" ~> pc = "serving" \/ cut
=============================================================================
