# Formal model of Dify all-in-one for Hugging Face Spaces

TLA+ specifications of the parts of this repository whose bugs would cost data, the TLC
configurations that check them on small instances, and proofs, checked by TLAPS, that hold
for every instance. The system is one container: an entrypoint that prepares `/data` and
PostgreSQL, then `supervisord` with PostgreSQL, Redis, the Dify services, a backup loop and
two HTTP services for operators. Its only durable storage is a bucket mounted at `/persist`,
which may be slow, may lose empty directories, and on which PostgreSQL may not start at all.
What users stand to lose is therefore decided by three pieces of shell: the backup loop, its
pruning, and the boot that chooses between the bucket's PGDATA and the latest dump.
These are modelled first; after them how the Dify runtime gets into the container and `/data` into
the bucket, how a commit is deployed to the Space, and what the two HTTP services do and say.

    tlasany M.tla                      parse a module
    tlc -workers 2 -config X.cfg M     run a configuration (module and cfg are paired below)
    tlapm M.tla                        check the proofs of a module

## 1. Inventory

Paths are relative to the repository root.

### PostgreSQL backup loop - `docker/postgres-backup-loop`

State: the backup directory (`<stamp>.sql.gz`, `<stamp>.sha256`, `latest.sql.gz`,
`latest.sha256`, `latest.err`), the flock on `.backup.lock`, and the shell variables of each
running instance. Operations: a run of the supervised loop, a forced `--once` run of the
admin service, the signal handler with its final run, pruning. Instances meet in the
directory and in the lock. Hard: kills that leave a child with the lock's descriptor, a
handler that starts a run inside a run, container crashes between any two commands, `set +e`.
Correct when: runs are serialised, timestamped dumps are complete, a crash never leaves a
`latest.sql.gz` the next boot refuses, what was reported saved can be restored, a stop takes
a fresh final dump and ends.

### Retention - `prune_old_backups` in the same script

State: the dumps on disk; operations: prune by policy `tiered` or `count`. Hard: each prune
only sees what the earlier ones left, dumps change tier as they age, boundaries, the cap, a
clock that is set back. Correct when: no promised span loses its last dump, the newest two
stay, the count is bounded.

### PostgreSQL boot, fallback, restore - `docker/entrypoint.sh`, `docker/run-postgres`

State: the PGDATA in the bucket, a scratch PGDATA in `RUNTIME_ROOT`, the link
`/data/postgres`, the postmasters alive, the latest dump. Operations: `link_dir`, `initdb`,
temporary start and stop, fallback to scratch, restore, `createdb`, migration, hand-over to
supervisord. Hard: crash or failure between any two steps, a container that comes back with
or without its scratch files, a postmaster that outlives `pg_ctl`'s patience, directories that
are the same one under two names. Correct when: one postmaster at a time, the bucket's PGDATA
is never damaged, nothing committed or saved disappears, a Space that can serve does.

### Persistent layout - `docker/entrypoint.sh`

State: the directories of `/data` (a directory or a symlink each), those of `/persist`, and
`generated.env`. Operations: `detect_persist_mode`; `link_dir` (copy into an empty target, remove the
source, link); `mkdir -p` of what is missing; `write_generated_env` (read the secrets or make them,
rewrite the file in place at each boot). Hard: the script ends anywhere and another boot, or
another container with another volume or no bucket, goes on from there. Correct when: no
directory's content and no secret is lost on the way.

### Runtime artifact - `docker/dify_artifact_contract.py`, `docker/dify-artifact-bootstrap`

State: the install root (a symlink to a release directory), stages and old releases,
and the archive and manifest of a slot in the artifact bucket. Operations: publish archive, then
manifest; download, validate, extract, activate by rename, remove the previous release, copy
`/conf` and `/dependencies`. Hard: a publication between the two downloads, crash windows
between two renames, a removal of the wrong release, leftovers with random names. Correct when:
the active runtime is always a complete one, what serves matches manifest and Variable, nothing
piles up, and a settled slot comes to be served.

### Formal deployment - `scripts/deploy_hfs_formal.py`, `scripts/check_hfs_visibility.py`, workflow

State: the Space's `main`, its Variables, the manifest in the artifact bucket, its runtime and the
visibility of both, all shared with other actors. Operations: authorize a commit, check the
visibility, upload with compare-and-swap and read back, bind the artifact Variable and verify it,
restart and poll. Hard: no transaction over the resources, lost responses, a runtime that has not
yet gone down, re-runs of old commits. Correct when: a commit is exactly the bundle, the
Variable and the restart rest on what was read while the deployed revision was HEAD, and the
Space never goes back.

### Space bundle - `scripts/export_hfs_space_bundle.py`

State: the exported directory with its evidence and checksums, the checkout. Operations: export from
a commit, verify before the upload. Hard: the directory is open to others between the two, an
export that stops half way. Correct when: what verify accepts is what the commit has.

### Admin service - `docker/admin_service.py`

State: login failures per address and in total under a lock, signed sessions, an audit file, the
file tree, plugin packages, application tokens. Operations: login; upload, text write, rename,
delete, mkdir; plugin restore with its restart, token repair, forced backup. Hard: threads between
check and act, a clock that is read before the lock is taken, timeouts that kill a client and
not what it began. Correct when: guessing is limited, an answer says what happened to the
files, and a repair that is not done is reported as such.

### Ops service - `docker/ops_service.py`

State: a cache of sections under one re-entrant lock, and otherwise what it reads. Operations:
health, `/status`, `/persistence`, `/provider-models`. Hard: builds that nest and wait for
each other, data that is older than the cache's time to live, verdicts derived from sections
that failed or are empty. Correct when: what is served has a bounded age, every request is
answered, the two verdicts on plugins agree, and "ready" is not said without grounds.

### Supervision and the rest

`docker/supervisord.conf` with `wait-for-core` (start order by unbounded waiting), the sandbox
self-check, the plugin import hook `sitecustomize.py`, nginx, packaging scripts, other
workflows, smoke tests. Little or no state of their own.

### How they interact

The admin service forces backups and kills their shell at a timeout; supervisord stops and
restarts the loop; the loop writes the directory that the next boot restores from and that the
ops service judges; the boot leaves the PGDATA that supervisord's PostgreSQL serves and the
loop dumps; the deployment script changes what the bootstrap installs and reboots the container.

## 2. Modules

| module | models | composed of |
|---|---|---|
| `Retention` | clamping of the retain count, tiers, which dumps a prune keeps, as sets | |
| `RetentionHistory` | months of dumps and prunes, and the pruning loop as written | `Retention` |
| `RetentionProofs` | what prunes in a row keep | `RetentionHistory` |
| `PostgresBackup` | the backup processes, command by command, and the restore's check of the dump | `Retention` |
| `DurableBackup` | what backups promise: one restore point that only moves forward | |
| `PostgresBackupProofs` | invariants of and refinement by `PostgresBackup` | `PostgresBackup` |
| `PostgresBoot` | boots of the container: link, initdb, start, fallback, restore, serve | |
| `PostgresBootProofs` | invariants of `PostgresBoot` | `PostgresBoot` |
| `ArtifactInstall` | publication, download, activation and copies of the Dify runtime | |
| `ArtifactInstallProofs` | invariants of `ArtifactInstall` | `ArtifactInstall` |
| `PersistLayout` | from `/data` to the bucket over cut-off boots and exchanged containers; `generated.env` | |
| `FormalDeploy` | runs of the deployment workflow among pushes, drifts and failing calls | |
| `SpaceBundle` | export and verification of the bundle, and others at its directory | |
| `DeployProofs` | invariants of both | `FormalDeploy`, `SpaceBundle` |
| `AdminLogin` | the login limit under concurrent requests | |
| `AdminFiles` | the writing file operations, one system call at a time | |
| `AdminActions` | plugin restore with restart, token repair | |
| `AdminProofs` | invariants of the three | `AdminLogin`, `AdminFiles`, `AdminActions` |
| `OpsCache` | the cached sections, their lock and their age | |
| `OpsReadiness` | the verdicts on plugins and applications, from one set of reads | |
| `OpsProofs` | invariants of both, and an action property of the cache | `OpsCache`, `OpsReadiness` |
| `MCControlPlane` | `PersistLayout` to `OpsReadiness` as one instance | these eight |
| `ControlPlaneProofs` | invariants of `PersistLayout`; `MCControlPlane` implements each of the eight | `MCControlPlane`, `DeployProofs`, `AdminProofs`, `OpsProofs` |
| `MC...` | model values and small sets for TLC | the module named |

`PostgresBackup` uses `Retention` for its `Prune` command, so every run of the backup processes
prunes as the script does. `PostgresBoot` abstracts the backup directory to one dump
that is replaced atomically, which is what `ImplementsDurableBackup` establishes of it as long
as no command fails.

### Retention and RetentionHistory

A dump is its epoch, the second its name stands for. `Kept` says which dumps survive a prune;
`LoopKept` is the walk of the script with its list, counter and seen buckets, and
`LoopLeavesKept` checks one against the other in every reachable history. `Gaps` are the
distances between two dumps.

### PostgresBackup

| variable | in the code |
|---|---|
| `dir` | the files in `POSTGRES_BACKUP_DIR` |
| `lock` | the flock on `.backup.lock`, with the inherited descriptors |
| `pc`, `run` | where each shell is in `run_backup_once`, and its `stamp`, `tmp`, `status` |
| `handler`, `signalled` | `shutdown_requested`, and a signal bash has not yet handled |
| `clock`, `committed` | the wall clock, and how much the live database holds |
| `acked`, `atSignal`, `spent` | history for the properties, and the bounds used up |

A file is what a reader can tell of it: absent, partial or whole, and the amount of data in it.
A checksum file holds the file it is the checksum of, since two files agree on sha256 exactly
when they are equal. The actions are the commands of the script in its order:
`flock`, `TakeStamp`/`StampTaken`/`RetakeStamp`, `StartDump`/`EndDump`/`DumpFails`,
`VerifyPasses`/`VerifyFails`, `Publish`, `WriteDumpSha`, `StartCopy`/`EndCopy`, `Rename`,
`TruncateSha`/`WriteSha`, `Cleanup`, `Prune`, `Unlock`. bash runs a trap between two
commands or when the child it waits for ends; `InChild` says which commands those are.
The environment lets time pass, commits transactions, sends signals, kills shells (leaving a
writing child behind), makes a command fail, loses bytes of a dump, and crashes the container.

### PostgresBoot

| variable | in the code |
|---|---|
| `pgdata` | `/persist/postgres` ("bucket") and `${RUNTIME_ROOT}/postgres` ("scratch") |
| `link` | where the symlink `/data/postgres` leads |
| `pc` | the next step of the boot |
| `mode`, `root` | `POSTGRES_BUCKET_FAILURE_MODE`, and how `RUNTIME_ROOT` lies to `PERSIST_ROOT` |
| `alive`, `hidden` | running postmasters, and those that have not written `postmaster.pid` |
| `dump` | what `latest.sql.gz` restores |
| `committed`, `saved`, `strayed`, `cut` | history for the properties |

A boot goes `link_dir`, `initdb` (which fills the directory before it writes `PG_VERSION`),
start (which succeeds, fails, or leaves a postmaster behind at `pg_ctl`'s timeout), then either
the restore or the fallback: stop the old postmaster, empty the scratch directory, relink,
`initdb`, start. After a crash or an `exit 1` the container comes back with its file system
or with a new one, and possibly with another configuration.

### ArtifactInstall

| variable | in the code |
|---|---|
| `archive`, `manifest` | the slot in the artifact bucket: `dify-runtime-<ref>.tar.gz`, `manifest.json` |
| `publishing` | a run of the publishing workflow between its two uploads |
| `expected` | the Variable `DIFY_ARTIFACT_EXPECTED_SOURCE_REF` |
| `root` | `/opt/dify/runtime`: absent, a directory, a foreign link, or a link to a release |
| `release`, `links`, `stages`, `legacy` | `.runtime-release-*`, `.runtime-next-*`, `.runtime-stage-*`, `.runtime-legacy-*` |
| `conf` | `/conf` and `/dependencies`: the tree copied into them, and whose hidden files may be there |
| `pc`, `boot` | the next step of the bootstrap, and its files and variables |

An archive is the payload it carries: the commit and which build of it, since a commit can be
published again under the same name. Publication and bootstrap are not synchronised: a boot can
download the manifest, then find the archive of the next publication. The actions from `Boot` to
`EndCopy` are `dify-artifact-bootstrap` from top to bottom with `validate_and_extract` and
`_atomically_activate_runtime` inside; `Unlink`, `Discard` and `Unstage` are the `finally`
clauses. An unlink that raises (`UnlinkFails`) skips the rest of its clause, whereas `rmtree` goes on after
an error (`RemovalFails`). `rm -rf /conf/* /dependencies/*` passes over names that begin with a dot, while
`cp -a` copies them: `EmptyConf` leaves them, and `conf` remembers the archives they can be from. The `uuid4` names are a fresh member of `Ids`, so the release, the stage and the
link of one boot share theirs. Removal of the previous release begins (`RemovePrevious`) and
ends (`PreviousRemoved`) in two steps, because a crash between them leaves part of it.
Whatever ends the container, it comes back with its file system or with that of the image. The
image builds no install root; the contract accepts the other kinds, and so does the model.

### PersistLayout

| variable | in the code |
|---|---|
| `box` | what the platform gives a container: a volume at `/data`, a bucket, `PERSIST_MODE` |
| `dataDir`, `persist` | `/data/<d>` on the volume and on the image's layer; `/persist/<d>` of the bucket and of the image |
| `made` | where `configure_bucket_layout` has made its directories |
| `boot` | the step of `prepare_dirs` and `write_generated_env`, the directory, `SECRET_KEY` |
| `found`, `cut`, `spent` | history: what the container was given, what was cut off, bounds |

A directory holds the data of the installation whose `SECRET_KEY` it was begun with, all of it or a
part. `LinkBegins`, `CopyEnds`, `Remove` and `Point` are `link_dir`; a crash between any two leaves
what is there, and `NewContainer` brings another volume, bucket or mode. A link into a bucket that
is not there ends the boot (`MakeDirs`).

### FormalDeploy

| variable | in the code |
|---|---|
| `main` | the last commit of GitHub's `main` |
| `space` | the commits of the Space repository; the last one is its HEAD, and a revision is its place |
| `settings` | the Space Variables: the selected manifest and the expected artifact |
| `manifests` | the release manifest in each bucket that can be selected |
| `visibility` | of the Space, and of each bucket |
| `runtime` | what the platform says of the container, and a restart that was asked for |
| `run` | the run under way: its remote call, its commit and artifact, the revisions it has read |
| `held`, `deploySpent` | history: which readings were true while HEAD was the deployed revision; bounds |

One run at a time (the workflow's concurrency group), among others who push to the Space, change
Variables, the manifest and the visibility. Every remote call is a step, and any can fail; one
that writes can also fail after it took effect (`Answered`). Uploads name the listed revision as
parent, and the platform refuses them when HEAD has moved (`ParentIsHead`).

### SpaceBundle

| variable | in the code |
|---|---|
| `checkout` | HEAD of the checkout, and whether it has changes |
| `bundle`, `evidence`, `sums` | the files of the output directory, `BUILD_SOURCE.json`, `SHA256SUMS` |
| `exporting` | the export under way: its commit and the files it has not written |
| `accepted`, `bundleSpent` | history: the commits for which the directory, as it is, was verified; bounds |

`Repository` has the files of each commit. A file is its bytes and its mode, and its bytes are a text,
whether a token pattern matches it and whether it parses. Export writes files one by one and can stop;
others edit files and refresh the evidence and the checksums; `Verify` makes the checks of the
script in its order.

### AdminLogin, AdminFiles, AdminActions

`AdminLogin` has the two lists of failures (`byIp`, `global`) and, in `login`, where each request to
`/api/login` is in `do_POST`: read the clock, take the lock and check (`login_retry_after`), compare,
read the clock, take the lock and record (`record_login_failure`) or clear. `Stall` bounds how
long a thread can wait between its clock and its lock. `missesByIp` and `misses` are history.

`AdminFiles` is a file system of paths (`dir`) and inodes (`data`); `req` is each request with its
next system call, as `upload_payload`, `write_text_payload`, `rename_payload`, `delete_payload` and
`mkdir_payload` make them, interleaved with those of the others. `due` is what the answers promised.

In `AdminActions`, `installed` is the package of each plugin in `PLUGIN_INSTALLED_PATH`: none, a part or
the whole of it. A request looks for a package (`Look`), opens the copy (`OpenTarget`) and fills it
(`Copied`, `CopyFails`) in steps that interleave with those of the others: two that found it missing both
open it, the later one truncates what is there, loaded or not, and marks the copy of the other as `cut`. What
a cut copy leaves may be whole or not. `loaded` are the plugins the daemon runs; it loads what is installed when it is
restarted. `rows` counts the rows of a token, which one `psql` looks for and another inserts; a timeout
can cut the second off from the request while it goes on. `repair` are the requests, `reported`
(the plugins that an answer left open) and `raced` (how often a request missed a row whose insertion was
under way) history.

### OpsCache, OpsReadiness

`frames` is the stack of calls of each thread: the request, the section that it builds, the section
that one is built from. A thread with more than one frame holds the lock. A build takes time only
while it probes, and its entry expires `Ttl` after its end. `OpsReadiness` has no steps of its own: its one
variable is a set of reads (database rows, installed files, Redis state, log lines,
applications), every one of which can fail, and its operators are the conditions of
`persistence_payload`, `plugin_runtime_readiness_section` and `app_api_readiness_section`; its step takes another set of
reads.

Lines in the sources that say "Defect:" are not part of the specification. Each is an
alternative body of one definition, a slip a maintainer could make; putting it in place
makes TLC report a named property, which shows that the property depends on that line of code.

## 3. Runs

| cfg (module) | asks | result |
|---|---|---|
| `RetentionPrune` (`MCRetentionHistory`) | does repeated pruning keep what the tiers promise, and is the loop what the sets say? | holds, 112 thousand states |
| `BackupSafety` (`MCPostgresBackup`) | do interrupted, concurrent and failing runs leave a directory the boot can use? | holds, 3.4 million states |
| `BackupLiveness` (`MCPostgresBackup`) | do runs and shutdowns end, and is the directory one restore point? | holds, 123 thousand states |
| `BackupDiskFull` (`MCPostgresBackup`) | is `latest.sql.gz` always a verified dump? | violated, finding 1 |
| `BootSafety` (`MCPostgresBoot`) | do boots in any configuration keep the data and come to serve? | holds, 1.1 million states |
| `BootStaleBucket` (`MCPostgresBoot`) | is only unsaved data lost, when the bucket starts again after a fallback? | violated, finding 2 |
| `BootCutRestore` (`MCPostgresBoot`) | the same, when a restore is cut off | violated, finding 3 |
| `BootHiddenPostmaster` (`MCPostgresBoot`) | has the old postmaster stopped when a fallback goes on? | violated, finding 4 |
| `InstallSafety` (`MCArtifactInstall`) | is the root always whole, does the selected payload serve, is nothing left without a cause? | holds, 2.2 million states |
| `InstallLiveness` (`MCArtifactInstall`) | does a settled slot come to be served? | holds, 696 thousand states |
| `ControlPlane` (`MCControlPlane`) | do layout, deployment, bundle, login, files, repairs, cache and verdicts keep their promises under their interleavings and failures? | holds, 755 thousand states |
| `OpsFalseGreen` (`MCControlPlane`) | is no application called ready whose plugin is not there? | violated, finding 5 |

The comment before each property says what it claims and of which code.

### Bounds, and why they are enough

* `RetentionPrune`: six dumps whose distances (`TieredGaps` in the MC module) cross every tier
  boundary, with one negative distance for a clock set back, and a retain count of five, so that
  the cap bites in some histories and not in others.
* `BackupSafety`: the supervised loop and one forced run; three runs (one to publish, one to
  be interrupted, one final or queued), two seconds in which stamps collide, one commit to tell
  old data from new, and up to three of: failing command, kill, two signals, one crash.
  `MaxTrouble` bounds their sum. A third process adds only another one that waits; the
  proofs cover every number.
* `BackupLiveness`: no command fails, since after a failure nothing is promised; two commits, so
  that the restore point can be late by one and by two.
* `BootSafety`: two transactions (one saved and one not), both modes, all three kinds of
  `RUNTIME_ROOT`, two restarts, one crash, one failing command, two failed starts and one hidden
  postmaster: a fallback, a second fallback over the first one's scratch, and a return to
  the bucket all fit in one behaviour.
* `InstallSafety`: two commits with two builds each, of which two are published (a new commit, or
  the same one again); two restarts, one crash and two failing operations, so that a boot can
  follow one that crashed and precede one that removes what it installed, and an activation can fail
  together with the unlink that cleans up after it; three names: two leftovers and one to install under (a
  history in which three are left ends there). `InstallLiveness`: one commit, two builds, four names, one crash and one
  failing operation, no restart of a container that serves (a crash during the copies leaves the same files).
* `ControlPlane`: the eight modules share no state, so `scene` lets one of them run in each behaviour
  and the number of states is the sum. `PersistLayout`: three containers (a volume without
  bucket, a bucket without volume, and both) and two crashes, one of which can interrupt what the
  boot after the other continues (34 thousand states). `FormalDeploy`: two artifacts, two
  commits, two runs, one change by others and one failing call (104 thousand). `SpaceBundle`: two
  files, three contents, four commits (a good one, a later one, one with a token, one with a file
  missing), two edits (62 thousand). `AdminLogin`: two addresses, two threads, five attempts, limits
  of two and three, and seconds enough for a block to end (220 thousand). `AdminFiles`: three
  requests on two paths, two blocks of data (114 thousand). `AdminActions`: three repairs, two
  plugins of which one has a cached package, one token (100 thousand). `OpsCache`: two threads, a
  time to live of two seconds, probes of one, four seconds (53 thousand): an entry can expire
  while it is served and while "status" is built over it. `OpsReadiness`: every set of reads over two
  identifiers, two plugin ids and three logs (67 thousand).
* The violation runs use the smallest bounds that show their counterexample, and nothing else
  may go wrong in them.

`CHECK_DEADLOCK FALSE` stands in every cfg of backups and boots because bounded histories end: no
dump, run or restart is left to take, and requests, runs and containers are. In `ArtifactInstall` the operator can always set the
Variable again. That nothing is stuck is what the liveness properties say. `InstallSafety`
uses the symmetry of commits, builds and names; no other run does, and no liveness run.

### Fairness

`PostgresBackup!Fairness`: a process whose next command can run runs it (weak fairness of
`Step`, which includes that `pg_dumpall` and `cp` end; the code gives them no timeout, see 6);
the kernel's flock is granted to every waiter when it is freed again and again (strong fairness
of `flock`); bash runs a pending trap when the current child ends (weak fairness of the two
handler actions). Nothing is assumed of signals, kills, crashes, commits or new runs.
`PostgresBoot!FairSpec`: weak fairness of `Step`, the script going on and the platform booting
a container that has ended. `ArtifactInstall!FairSpec`: the same, of the bootstrap; nothing is
assumed of publications or of the operator. `FormalDeploy!DeployFairness`: a run that is under way goes
on; nothing is assumed of others, and the polling must end by its deadline whatever the platform
reports. `OpsCache!CacheFairness`: every thread of the server runs, and its probes end, for each
has a timeout. Failures are bounded by their budgets, so liveness says that
failures that stop are recovered from.

## 4. Proofs

The proofs hold for every value of the constants under the assumptions named in the
models (`RetentionAssumption`, `HistoryAssumption`, `BackupAssumption`, `BootAssumption`, `InstallAssumption`,
`LayoutAssumption`, `DeployAssumption`, `BundleAssumption`, `LoginAssumption`, `FilesAssumption`,
`ActionsAssumption`, `CacheAssumption`, `ReadinessAssumption`: bounds are natural numbers,
processes are distinct, sets that something is chosen from are not empty, modes and roots are among the ones the
code knows). Every invariant and action property of the passing runs is a theorem, with one exception
that is named at the end.

`RetentionProofs` proves `TiersCovered` and `NewestTwoSurvive` for every retain count, every spacing of
the dumps, every length of the history, and a clock set back by any amount. `TiersCovered` alone is not
inductive: it is content with any dump of a span, but the next prune may drop an older one that has just
left the tier. `TierInv` therefore has in each span a dump that is as new as the one it stands for
(`Held`); such a dump is as young as it has to be, and because 300 divides 3600 and 3600 divides 86400 the newest
of a span within a tier is marked by that tier or belongs to a finer one that marks one of its own.
`NewestTwoSurvive` follows from `NewestInv` and from `Retain >= 2`, whatever the setting's text is.

`PostgresBackupProofs` proves all six invariants of `BackupSafety` and, with
`MaxFaults = 0`, the refinement of `DurableBackup`. None but `TypeOK` is inductive. `IInv`
adds

* `DirInv`: dumps are whole, named by a second that has passed, and hold only committed data;
* `ProcInv`: past the flock a process holds the lock, its stamp is a name no dump has until it
  publishes, and it publishes only what it verified;
* `RestoreInv`: every checksum file has its dump, the boot accepts the directory, and the restore
  point covers what was acknowledged;
* `RunInv`: by position in the run, which of the timestamped dump, its checksum and
  `latest.sql.gz` are already the new ones, and that the new dump is no older than what it replaces;
* `FinalInv`: the run in the handler began after the signal.

`ProcInv` is what serialises (`Alone`); with it a command of one process is a step of a
sequential program, and `RunInv` is the loop invariant of that program. The central case is a
crash between `Rename` and `WriteSha`, where `latest.sha256` belongs to another run: the boot
still accepts, because `RunInv` has the timestamped dump and its checksum in place and `RestoreInv`
lets the boot match `latest.sql.gz` against them. `RestoreInv` and `RunInv` are conditional on
no command having failed, which finding 1 shows to be necessary.

`PostgresBootProofs` proves the four invariants and the action property of `BootSafety`. `BInv`
adds where the link may lead at each step (`LinkInv`), which postmasters can be alive
there (`PostmasterInv`), how far a restore is (`RestoreInv`), that a fallback begins without a
database and has all of the dump after its restore (`FallbackInv`), and that before the first
fallback and the first cut restore everything committed is in the bucket's PGDATA or, where it has
no database yet, in the dump (`CommittedInv`). `PersistentUntouched` follows from
`LinkInv`: only `Recreate` empties a directory of an initialised cluster, its guard makes that the
scratch one, and `initdb` and the restore change only a cluster that is not ready or has no
database.

`ArtifactInstallProofs` proves `TypeOK`, `RootIsWhole`, `ServesSelected` and `RuntimeStays` for any
number of crashes, failures, publications and boots. `InstallInv` adds what the boot has
compared by each step (`BootInv`: after `VerifyArchive` the archive is the manifest's), and which
release is which (`ReleaseInv`: up to the swap the root leads to another release than the new one;
after it the root is the new one, and the release to be removed is not). `HiddenInv` counts the archives other than this boot's whose hidden files
can be in `/conf`: one can join them only when a container that has begun to copy ends and comes back. `RootIsWhole`
alone is not inductive: that a removal spares the root follows only from what `OwnedRelease`
read before the swap. `LeftoversHaveCause` is about counts, and so is `LeftInv`: set aside what the boot
at its present step is still to remove (`ReleaseDue`, `StageDue`, `LinkDue`); of the rest there is at most one
per crash or failed operation. A link counts twice, for without a crash it takes the failure of the activation and that of
the unlink; at `Unlinking` the first of them is already spent. The swap is the step that exchanges the one for the other: before it the new
release is due for removal, after it the one that `OwnedRelease` read.

`DeployProofs`, of `FormalDeploy`: the types and three properties for any number of artifacts,
pushes, runs and drifts. `ExactInv`: between its listing and its commit a run has listed a revision of the
history, and past the listing one without a path outside the allowlist; as the commit names it as parent,
nothing that a push brings in between can be in what is committed. `VerifiedInv`: the deployed revision is
at most HEAD, and HEAD only grows, so what was read under an older HEAD cannot pass the comparison
that follows. `ForwardInv`: as long as a run may upload, nothing that runs deployed is newer than its
commit, because the run was authorized when that was the last of `main` and runs do not overlap.

Of `SpaceBundle`: `BundleInv` says that an export works in a directory nobody has accepted and has
written, so far, what its commit has, and that a directory that was accepted has all its files; that it
is the committed content follows from the checks of `Verify` and is lost with the first edit.

`AdminProofs`, of `AdminLogin`: `GuessesBounded` for any number of addresses, threads, attempts and any
limits, window and stall. By `ListsInv` a list is all the failures there were without a first part of them that
has expired, though they are not recorded in the order of their clocks. `FewInv` counts, for every stretch of
time, the failures recorded in it together with the attempts that have passed the check and may still be
recorded in it: at most the limit and the other threads. The check is the step that matters:
it lets an attempt through only below the limit, and by `ClockInv` its clock is not older than a stall.
Of `AdminFiles`: `DueIsKept` for any number of requests, paths and blocks, one system call at a
time. `InodeInv` gives each file one path and each request an inode of its own; `AloneInv` says that
a request nobody shared a path with still finds its file as it opened it; `DueInv` that what an answer
promised is in the inode and no request under way names the path.
Of `AdminActions`: by `UnloadedInv`, a package that is there in part is reported or being copied by a request
that will answer for it, and one that is whole and not loaded is reported or has a request that copies it or owes the
restart. A truncated package of which the last copy ended `cut` is the case that makes the two parts
necessary: the request that is still writing answers for it. By `TokenInv`, the rows of a token and the requests that
are to insert it are together at most one more than the races.

`OpsProofs`, of `OpsReadiness`: the two verdicts agree as formulas, by cases on what each source
gave. Of `OpsCache`: `BuildInv` says which stacks of builds there can be and how old
each frame is at its position, `LockInv` that one thread builds at a time and only what has expired, and
`KeptInv` that an entry is no older than its build could be long; the age bound of "status", twice
that of a probe, comes out of the frame of "status" while its second section is built. Together
they also give that the verdict in an entry changes only with its expiry.

`ControlPlaneProofs` proves `ServesWhatItWasGiven` of `PersistLayout` for any number of containers and crashes.
Its invariant follows one directory after the other in the order the script links them: what is before
the present one is linked and what is removed has a counterpart in the bucket (`LinkInv`, `HereInv`), and
what the container was given is where the boot, if it went on, would find it (`HeldInv`), except for the
copy and the `generated.env` that are under way, where it is still in the source or in the shell's memory.
The same module composes: `ImplementsEach` shows that the specification of the run `ControlPlane` implements
each of the eight it is made of, since a step is one of theirs and leaves the variables of the others
alone. `ControlPlaneTypes` and `ControlPlaneSafe` then state the invariants and the action property of the run of
that specification, by citing the theorems of the parts.

Only model-checked: `RunsEnd`, `ShutdownEnds`, `ServesAgain`, `SettledSlotServes`, `DeployEnds`, `RepliesEnd`
(liveness under fairness is beyond the prover), and `LoopLeavesKept`: the pruning loop is a fold over a
sorted list, and what a fold computes for every list is an induction over data. The theorems of `RetentionProofs` are about
the set `Kept`, which that run compares with the loop in every history it reaches.

## 5. Findings

1. **A full disk makes an unverified `latest.sql.gz`** (`BackupDiskFull`). `cp` fails half way,
   `set +e` goes on, `mv` puts the truncated copy in place, the run reports success and removes
   `latest.err`. `README.md:208` says the file is updated after verification. A boot that
   needs the dump refuses to start.
2. **A fallback session disappears when the bucket starts again** (`BootStaleBucket`). The next
   boot serves the bucket's older PGDATA although newer transactions are in a successful
   dump, and its first backup replaces that dump. `docs/configuration.md:278` says only
   transactions without a dump can be lost.
3. **A restore that is cut off is never repeated** (`BootCutRestore`). The next boot sees that
   the database exists, skips the restore and serves the part.
4. **A hung postmaster without `postmaster.pid` counts as stopped** (`BootHiddenPostmaster`), so
   the fallback runs beside it; `docs/configuration.md:278` says it is confirmed to have stopped.

5. **An application can be called ready without its plugin** (`OpsFalseGreen`).
   `docker/ops_service.py:2485` looks at a provider's plugin only where the plugin section has rows; with a
   plugin database that has none, no plugin code is raised and `ready_for_llm_dispatch` is true.
   `docs/ops-runbook.md:302` says the plugin codes are there so that there is no false green.

What the models show besides, as the code is written, without a run of its own:

* A copy of `link_dir` that is cut off loses what it had not copied: the next boot sees entries on
  both sides, keeps the part and removes the source. A cut-off `generated.env` can cost the keys. A
  volume that was linked into the bucket in part gives, without its bucket or its mode, a
  database and keys that do not belong together. (`ServesWhatItWasGiven` exempts what was cut off in one of
  the first two ways, so it says that they are the only losses within a container, not that they do not happen.)
* After the restart request, the first poll may see the RUNNING of the container from before, at the
  same revision, and pass (`deploy_hfs_formal.py:501`); `DeployEnds` says only that the polling ends. The manifest may change between its last read and
  the restart. The visibility check looks at the bucket of a Variable that may change before bind reads it.
* Two uploads or text writes to one path that overlap can both be answered ok and leave mixed
  bytes (`DueIsKept` exempts requests that overlap on a path); an upload may replace what arrives after its check, where `docs/configuration.md:607` says
  that uploads and renames replace nothing. A failed upload leaves a part, which a retry finds
  in its way (409).
* A copy that fails while plugins are restored is neither caught nor audited. What it leaves counts as
  installed: later requests answer ok for it (`admin_service.py:954`). Two restores that overlap can both find a package
  missing, and the second truncates the one that the first has installed and the daemon has loaded
  (`admin_service.py:966`); `UnloadedIsReported` holds because some answer left it open, not because every answer does.
  `ensure-app-api-token` without a token inserts a new one each time it is asked.
* A login failure that is recorded late can lift a block, by as much as the thread stalled; a
  success clears the failures of its address only. The limit is on `/api/login` alone: a wrong token in a header
  (`admin_service.py:2111-2120`) is compared at every request and never counted, and `GuessesBounded` says nothing of it.
* Two requests that look for the same application token before either has inserted it both insert
  it, and so does a retry while the first statement still runs. `TokensOnce` bounds the rows by these races.
* The hidden files of an earlier archive stay in `/conf` and `/dependencies` of a container that restarts with its
  file system (`dify-artifact-bootstrap:134`). `ServesSelected` bounds whose they are.
* An unlink that fails in the cleanup of an activation that failed leaves its link and, since lines 428-434 of
  `dify_artifact_contract.py` are then skipped, the new release as well.
* `/status` is kept over sections that were kept: its data can be as old as two times to live and
  two builds, where `docs/configuration.md:495` names one time to live.
* `error_count_after_last_ready` counts the errors after the first ready line of the log. A
  `latest.err` of more than 8192 bytes reads as empty, and `safe_to_restart` is true. A failed
  Redis scan of the first prefix is hidden by a later one that succeeds and finds nothing.

## 6. Assumptions and what is not modelled

* One container, one PID namespace, one replica. Two containers on one bucket are not modelled.
* In `PostgresBackup` the clock moves forward, and rename within the backup directory is atomic.
  `RetentionHistory` also sets the clock back.
* `Prune` of `PostgresBackup` is one step, where the script removes a dump and its checksum after the other. The
  boot's check does not tell a prune half done from one done: it reads `latest.*` and a checksum whose dump it finds.
* `NothingLost` speaks of boots without a fallback and without a cut restore; what those lose is in
  `OnlyUnsavedIsLost`, which findings 2 and 3 violate, and in `FallbackServesDump`.
* `pg_dumpall`'s snapshot has everything committed when it starts, and PostgreSQL keeps what it
  committed, on either PGDATA; a bucket that corrupts PGDATA shows as starts that fail.
* A dump, once it is whole, restores unless the restore is cut off or fails.
* Left out because nothing reads it back: `latest.created_at`, log lines, `.tmp` and `.err` files of
  killed runs.
* In `ArtifactInstall` a manifest is well formed or not there; a malformed manifest, archive or layout
  ends the boot as `ValidateFails` or `RejectManifest` do. sha256 identifies an archive. Nothing
  in the repository deletes an archive from a slot, so one that has a manifest is there. The
  workflow's concurrency group lets one publication run per slot.
* In `PersistLayout` the secrets come from no setting, `PERSIST_ROOT` stays the same, and the database
  runs in the directory it is given; `PostgresBoot` has the fallback.
* In `FormalDeploy` the platform decides a compare-and-swap atomically, and HEAD is what the last commit
  made it. In `OpsReadiness` one request reads everything at one moment; the limits on rows (the first
  100 bindings, 500 nodes, 200 provider rows) are left out. `OPS_CACHE_TTL_SECONDS=0` is left out of `OpsCache`.
* Partly modelled: of the admin service, sessions and CSRF tokens (signed values without state), the
  actions that are one command or one statement, and the audit file (append-only) are left out;
  of the ops service `safe_to_restart` (one file, read once), process and log listings, probes,
  and formatting.
* Not modelled, with the reason: external PostgreSQL and Redis (probed and created once, no state
  that outlives the boot); supervision and start order (loops that wait for a port without
  limit: the modelled part would be the library's own restart rules); the plugin import hook (it patches
  third-party classes inside a process that is not in the repository); the sandbox self-check, smoke
  and static checks, nginx and the other workflows (configuration and tests of it); the packaging scripts
  (one-shot transformations of files in a fresh runner).

## 7. Plan

Done: all the modules of 2, with proofs of every system. What is left, in this order:

1. `LoopLeavesKept` from the steps of the loop, with the position at which it first differs from
   `Kept` as the least counterexample.
2. An abstract "the active runtime is one selected release" implemented by `ArtifactInstall`, and an
   abstract atomic deployment implemented by `FormalDeploy` where the code can.
3. `BackupBoot`: `PostgresBackup`'s directory in place of `PostgresBoot`'s single dump, judged by
   `safe_to_restart`.
4. `StartOrder`: supervisord and `wait-for-core`.

Runs stay at two or three actors and one or two values each, as above; each new model gets a type
invariant, an inductive invariant and, where there is one, its abstract specification.
