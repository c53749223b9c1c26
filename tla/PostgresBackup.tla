---------------------------- MODULE PostgresBackup ----------------------------
(***************************************************************************)
(* docker/postgres-backup-loop: the processes that dump PostgreSQL into    *)
(* POSTGRES_BACKUP_DIR, one shell command per step, and the check that     *)
(* docker/entrypoint.sh makes of latest.sql.gz before it restores it.      *)
(*                                                                         *)
(* The processes are the supervised loop and the `--once` runs an          *)
(* administrator forces. They share the backup directory and a flock on    *)
(* .backup.lock. Any of them may be killed, the container may crash        *)
(* between any two commands, and a command may fail on a full disk.        *)
(*                                                                         *)
(* A file is what a reader can tell of it: absent (or empty), a complete   *)
(* gzip dump or a truncated one, and the amount of committed data in it.   *)
(* Two files have the same sha256 exactly when they are equal, so a        *)
(* checksum file holds the file it is the checksum of. latest.created_at   *)
(* and the logs, which nothing reads back, are left out.                   *)
(***************************************************************************)
EXTENDS Retention

CONSTANTS Loop,         \* the supervised postgres-backup process
          Onces,        \* concurrent `postgres-backup-loop --once` processes
          NoProc,       \* nobody: the lock is free
          Policy,       \* POSTGRES_BACKUP_RETENTION_POLICY
          MaxRuns,      \* bounds the backup runs started
          MaxData,      \* bounds the transactions committed
          MaxClock,     \* bounds the seconds that pass on their own
          MaxFaults,    \* bounds the commands that fail or lose bytes
          MaxKills,     \* bounds the processes killed
          MaxSignals,   \* bounds the signals sent to the loop
          MaxCrashes,   \* bounds the container crashes
          MaxTrouble    \* bounds the faults, kills, signals and crashes together

Procs == {Loop} \cup Onces

ASSUME BackupAssumption ==
    /\ Loop \notin Onces
    /\ NoProc \notin Procs
    /\ Policy \in Policies
    /\ {MaxRuns, MaxData, MaxClock, MaxFaults, MaxKills, MaxSignals, MaxCrashes,
        MaxTrouble} \subseteq Nat

\* Every run may push the clock one second past MaxClock (the `sleep 1`).
Stamps == 0..(MaxClock + MaxRuns)

File == [kind : {"none", "partial", "whole"}, data : Nat]
NoFile == [kind |-> "none", data |-> 0]
Exists(f) == f.kind # "none"

VARIABLES
    clock,       \* the wall clock, in seconds
    committed,   \* what the live database holds
    dir,         \* POSTGRES_BACKUP_DIR
    lock,        \* who holds the flock on .backup.lock
    pc,          \* pc[p]: the next command of p
    run,         \* run[p]: p's local variables
    handler,     \* shutdown_requested: the loop is in its signal handler
    signalled,   \* a TERM or INT waits for the loop's current command to end
    atSignal,    \* ghost: what was committed when the handled signal arrived
    acked,       \* ghost: what was committed before the last run that reported success
    spent        \* what is used up of each bound

procs == <<lock, pc, run, handler, signalled>>
ghosts == <<atSignal, acked>>
vars == <<clock, committed, dir, procs, ghosts, spent>>

\* The commands of a run, in the order of the script.
Holding == {"stamp", "restamp", "dump", "dumping", "verify", "publish", "sha", "copy",
            "copying", "rename", "truncate", "checksum", "cleanup", "prune", "unlock"}

\* A child a killed shell left behind: it inherited the descriptor of the lock.
Orphaned == {"orphan_dump", "orphan_copy"}

PC == {"idle", "want", "exited"} \cup Holding \cup Orphaned

\* Here the shell waits for a child, and runs no trap until the child ends.
InChild == {"want", "restamp", "dumping", "copying"}

\* <stamp>.sql.gz and <stamp>.sha256, and the latest.* files.
Dir == [dump : [Stamps -> File], sha : [Stamps -> File], latestTmp : File,
        latest : File, latestSha : File, latestErr : BOOLEAN]

\* start is what was committed when the run began, out the file pg_dumpall | gzip
\* writes, ok whether the run reports success.
Run == [stamp : Stamps, out : File, start : Nat, ok : BOOLEAN]
NoRun == [stamp |-> 0, out |-> NoFile, start |-> 0, ok |-> FALSE]
NewRun == [NoRun EXCEPT !.start = committed]

Budget == [runs |-> MaxRuns, faults |-> MaxFaults, kills |-> MaxKills,
           signals |-> MaxSignals, crashes |-> MaxCrashes]

Spend(what) ==
    /\ spent[what] < Budget[what]
    /\ what # "runs" =>
           spent.faults + spent.kills + spent.signals + spent.crashes < MaxTrouble
    /\ spent' = [spent EXCEPT ![what] = @ + 1]

Init ==
    /\ clock = 0
    /\ committed = 0
    /\ dir = [dump |-> [s \in Stamps |-> NoFile], sha |-> [s \in Stamps |-> NoFile],
              latestTmp |-> NoFile, latest |-> NoFile, latestSha |-> NoFile,
              latestErr |-> FALSE]
    /\ lock = NoProc
    /\ pc = [p \in Procs |-> "idle"]
    /\ run = [p \in Procs |-> NoRun]
    /\ handler = FALSE
    /\ signalled = FALSE
    /\ atSignal = 0
    /\ acked = 0
    /\ spent = [what \in DOMAIN Budget |-> 0]

-----------------------------------------------------------------------------
(* The environment of the script. *)

Tick ==
    /\ clock < MaxClock
    /\ clock' = clock + 1
    /\ UNCHANGED <<committed, dir, procs, ghosts, spent>>

Commit ==
    /\ committed < MaxData
    /\ committed' = committed + 1
    /\ UNCHANGED <<clock, dir, procs, ghosts, spent>>

-----------------------------------------------------------------------------
(* run_backup_once, command by command. *)

Goto(p, to) == pc' = [pc EXCEPT ![p] = to]

\* p goes from one command to the next; no signal is handled in between.
From(p, at, to) ==
    /\ pc[p] = at
    /\ p = Loop /\ signalled => at \in InChild
    /\ Goto(p, to)
    /\ UNCHANGED <<committed, handler, signalled, atSignal>>

\* A command that leaves the directory as d.
Writes(p, at, to, d) ==
    /\ From(p, at, to)
    /\ dir' = d
    /\ UNCHANGED <<clock, lock, run, acked, spent>>

\* A command that leaves p's local variables as r.
Assigns(p, at, to, r) ==
    /\ From(p, at, to)
    /\ run' = [run EXCEPT ![p] = r]
    /\ UNCHANGED <<dir, lock, acked>>

\* The loop's next iteration, or an administrator's --once.
run_backup_once(p) ==
    /\ Assigns(p, "idle", "want", NewRun)
    /\ Spend("runs")
    /\ UNCHANGED clock

\* Defect: `flock -n`, whose failure nobody looks at.
flock_without_waiting(p) ==
    /\ From(p, "want", "stamp")
    /\ lock' = p
    /\ UNCHANGED <<clock, dir, run, acked, spent>>

flock(p) ==
    /\ From(p, "want", "stamp")
    /\ lock = NoProc
    /\ lock' = p
    /\ UNCHANGED <<clock, dir, run, acked, spent>>

\* Defect: the name is made from the second before.
TakePreviousSecond(p) ==
    /\ ~Exists(dir.dump[clock])
    /\ Assigns(p, "stamp", "dump", [run[p] EXCEPT !.stamp = clock - 1])
    /\ UNCHANGED <<clock, spent>>

\* The stamp is the current second. When a dump has that name, `sleep 1` and the new
\* second, with no further test.
TakeStamp(p) ==
    /\ ~Exists(dir.dump[clock])
    /\ Assigns(p, "stamp", "dump", [run[p] EXCEPT !.stamp = clock])
    /\ UNCHANGED <<clock, spent>>

StampTaken(p) ==
    /\ Exists(dir.dump[clock])
    /\ Writes(p, "stamp", "restamp", dir)

RetakeStamp(p) ==
    /\ clock + 1 \in Stamps
    /\ clock' = clock + 1
    /\ Assigns(p, "restamp", "dump", [run[p] EXCEPT !.stamp = clock + 1])
    /\ UNCHANGED spent

\* pg_dumpall takes its snapshot as it starts.
StartDump(p) ==
    /\ Assigns(p, "dump", "dumping",
               [run[p] EXCEPT !.out = [kind |-> "partial", data |-> committed]])
    /\ UNCHANGED <<clock, spent>>

EndDump(p) ==
    /\ Assigns(p, "dumping", "verify", [run[p] EXCEPT !.out.kind = "whole"])
    /\ UNCHANGED <<clock, spent>>

\* The pipeline exits with 0 and the file misses bytes all the same.
LoseBytes(p) ==
    /\ Assigns(p, "dumping", "verify", run[p])
    /\ Spend("faults")
    /\ UNCHANGED clock

\* Defect: the error of the pipeline does not reach the exit status.
DumpErrorIgnored(p) ==
    /\ Assigns(p, "dumping", "unlock", [run[p] EXCEPT !.ok = TRUE])
    /\ UNCHANGED <<clock, spent>>

\* pg_dumpall or gzip reports an error: the run gives up and leaves latest.err.
DumpFails(p) == Writes(p, "dumping", "unlock", [dir EXCEPT !.latestErr = TRUE])

\* Defect: no gzip -t.
VerifyNothing(p) == Writes(p, "verify", "publish", dir)

\* gzip -t and the test for an empty file.
VerifyPasses(p) ==
    /\ run[p].out.kind = "whole"
    /\ Writes(p, "verify", "publish", dir)

VerifyFails(p) ==
    /\ run[p].out.kind # "whole"
    /\ Writes(p, "verify", "unlock", [dir EXCEPT !.latestErr = TRUE])

\* mv "$tmp" "$target"
Publish(p) ==
    Writes(p, "publish", "sha",
           [dir EXCEPT !.dump = [@ EXCEPT ![run[p].stamp] = run[p].out]])

\* Defect: the dump's own checksum file is not written.
NoDumpSha(p) == Writes(p, "sha", "copy", dir)

\* printf "$sha" > "${target%.sql.gz}.sha256"
WriteDumpSha(p) ==
    Writes(p, "sha", "copy",
           [dir EXCEPT !.sha = [@ EXCEPT ![run[p].stamp] = run[p].out]])

\* cp "$target" latest.sql.gz.tmp empties its destination first.
StartCopy(p) ==
    /\ Exists(dir.dump[run[p].stamp])
    /\ Writes(p, "copy", "copying",
              [dir EXCEPT !.latestTmp = [dir.dump[run[p].stamp] EXCEPT !.kind = "partial"]])

EndCopy(p) ==
    Writes(p, "copying", "rename", [dir EXCEPT !.latestTmp = dir.dump[run[p].stamp]])

\* The mv before failed: there is nothing to copy.
NoTarget(p) ==
    /\ ~Exists(dir.dump[run[p].stamp])
    /\ Writes(p, "copy", "rename", dir)

\* mv latest.sql.gz.tmp latest.sql.gz, without effect where there is nothing to move.
Rename(p) ==
    Writes(p, "rename", "truncate",
           [dir EXCEPT !.latest = IF Exists(dir.latestTmp) THEN dir.latestTmp ELSE @,
                       !.latestTmp = NoFile])

\* printf "$sha" > latest.sha256 opens the file empty, then writes it.
TruncateSha(p) == Writes(p, "truncate", "checksum", [dir EXCEPT !.latestSha = NoFile])
WriteSha(p) == Writes(p, "checksum", "cleanup", [dir EXCEPT !.latestSha = run[p].out])

\* rm -f "$err" latest.err
Cleanup(p) == Writes(p, "cleanup", "prune", [dir EXCEPT !.latestErr = FALSE])

\* prune_old_backups: each dump that is not kept goes with its checksum.
Pruned(d) ==
    LET all == {s \in Stamps : Exists(d.dump[s])}
        gone == all \ Kept(Policy, all, clock)
        without(f) == [s \in Stamps |-> IF s \in gone THEN NoFile ELSE f[s]]
    IN  [d EXCEPT !.dump = without(@), !.sha = without(@)]

Prune(p) ==
    /\ From(p, "prune", "unlock")
    /\ dir' = Pruned(dir)
    /\ run' = [run EXCEPT ![p].ok = TRUE]
    /\ UNCHANGED <<clock, lock, acked, spent>>

\* Defect: the handler returns to the loop.
UnlockAndLoop(p) ==
    /\ From(p, "unlock", "idle")
    /\ lock' = NoProc
    /\ acked' = IF run[p].ok /\ run[p].start > acked THEN run[p].start ELSE acked
    /\ run' = [run EXCEPT ![p] = NoRun]
    /\ UNCHANGED <<clock, dir, spent>>

\* flock -u, exec 9>&- and the return of the status. In the handler the shell exits.
Unlock(p) ==
    LET exits == p = Loop /\ handler
    IN  /\ From(p, "unlock", IF exits THEN "exited" ELSE "idle")
        /\ lock' = NoProc
        /\ acked' = IF run[p].ok /\ run[p].start > acked THEN run[p].start ELSE acked
        /\ run' = IF exits THEN run ELSE [run EXCEPT ![p] = NoRun]
        /\ UNCHANGED <<clock, dir, spent>>

\* `set +e` is in force inside a run: a command that fails is a command skipped.
AfterFailure == [publish |-> "sha", sha |-> "copy", copy |-> "rename",
                 copying |-> "rename", rename |-> "truncate", truncate |-> "cleanup",
                 checksum |-> "cleanup"]

CommandFails(p) ==
    /\ pc[p] \in DOMAIN AfterFailure
    /\ Assigns(p, pc[p], AfterFailure[pc[p]], run[p])
    /\ Spend("faults")
    /\ UNCHANGED clock

-----------------------------------------------------------------------------
(* Signals, kills and crashes. *)

\* Defect: a lock file that only its owner removes, in place of flock.
LeavesLocked(p, to, r) ==
    /\ Goto(p, to)
    /\ run' = [run EXCEPT ![p] = r]
    /\ UNCHANGED <<clock, committed, acked, lock>>

\* p's shell is gone, or starts over: its descriptor of the lock file is closed.
Leaves(p, to, r) ==
    /\ lock' = IF lock = p THEN NoProc ELSE lock
    /\ Goto(p, to)
    /\ run' = [run EXCEPT ![p] = r]
    /\ UNCHANGED <<clock, committed, acked>>

\* supervisord stops or restarts the loop: a TERM at any moment.
Signal ==
    /\ pc[Loop] \notin {"exited"} \cup Orphaned
    /\ ~signalled
    /\ Spend("signals")
    /\ signalled' = TRUE
    /\ atSignal' = IF handler THEN atSignal ELSE committed
    /\ UNCHANGED <<clock, committed, dir, lock, pc, run, handler, acked>>

\* The loop runs its trap: between two commands, or after the `sleep` of an idle loop.
Trap ==
    /\ signalled
    /\ pc[Loop] \notin InChild
    /\ handler' = TRUE
    /\ signalled' = FALSE
    /\ UNCHANGED <<dir, atSignal>>

\* Defect: a run that is under way serves as the final one.
handle_shutdown_in_run ==
    /\ Trap
    /\ ~handler
    /\ IF lock = Loop
         THEN UNCHANGED <<clock, committed, lock, pc, run, acked>>
         ELSE Leaves(Loop, "want", NewRun)
    /\ Spend("runs")

\* The first signal starts a final run: its `exec 9>` drops the lock of the run it
\* interrupts, which is never finished.
handle_shutdown ==
    /\ Trap
    /\ ~handler
    /\ Leaves(Loop, "want", NewRun)
    /\ Spend("runs")

\* Backups are disabled or PostgreSQL is not ready, or it is the second signal.
ExitOnSignal ==
    /\ Trap
    /\ Leaves(Loop, "exited", NoRun)
    /\ UNCHANGED spent

\* supervisord starts the program again.
Restart ==
    /\ pc[Loop] = "exited"
    /\ Leaves(Loop, "idle", NoRun)
    /\ handler' = FALSE
    /\ UNCHANGED <<dir, signalled, atSignal, spent>>

\* SIGKILL, after run_cmd's timeout or stopwaitsecs, reaches the shell alone. A child
\* that is writing keeps the descriptor it inherited, and with it the lock.
Orphan == [dumping |-> "orphan_dump", copying |-> "orphan_copy"]

\* Defect: the children do not inherit the lock's descriptor.
KillAndRelease(p) ==
    /\ pc[p] \notin {"idle", "exited"} \cup Orphaned
    /\ Spend("kills")
    /\ IF pc[p] \in DOMAIN Orphan
         THEN Leaves(p, Orphan[pc[p]], run[p])
         ELSE Leaves(p, "idle", NoRun)
    /\ handler' = (handler /\ p # Loop)
    /\ signalled' = (signalled /\ p # Loop)
    /\ UNCHANGED <<dir, atSignal>>

Kill(p) ==
    /\ pc[p] \notin {"idle", "exited"} \cup Orphaned
    /\ Spend("kills")
    /\ IF pc[p] \in DOMAIN Orphan
         THEN Goto(p, Orphan[pc[p]]) /\ UNCHANGED <<clock, committed, lock, run, acked>>
         ELSE Leaves(p, "idle", NoRun)
    /\ handler' = (handler /\ p # Loop)
    /\ signalled' = (signalled /\ p # Loop)
    /\ UNCHANGED <<dir, atSignal>>

\* The orphan ends, and the lock is free.
OrphanExit(p) ==
    /\ pc[p] \in Orphaned
    /\ dir' = [dir EXCEPT !.latestTmp =
                  IF pc[p] = "orphan_copy" THEN dir.dump[run[p].stamp] ELSE @]
    /\ Leaves(p, "idle", NoRun)
    /\ UNCHANGED <<handler, signalled, atSignal, spent>>

\* The container dies: the directory stays, every process goes.
Crash ==
    /\ Spend("crashes")
    /\ lock' = NoProc
    /\ pc' = [p \in Procs |-> "idle"]
    /\ run' = [p \in Procs |-> NoRun]
    /\ handler' = FALSE
    /\ signalled' = FALSE
    /\ UNCHANGED <<clock, committed, dir, ghosts>>

-----------------------------------------------------------------------------
\* What a process does by itself once a run has started.
Step(p) ==
    \/ flock(p)      \/ TakeStamp(p)     \/ StampTaken(p)  \/ RetakeStamp(p)
    \/ StartDump(p)  \/ EndDump(p)       \/ DumpFails(p)
    \/ VerifyPasses(p) \/ VerifyFails(p)
    \/ Publish(p)    \/ WriteDumpSha(p)
    \/ StartCopy(p)  \/ EndCopy(p)       \/ NoTarget(p)    \/ Rename(p)
    \/ TruncateSha(p) \/ WriteSha(p)
    \/ Cleanup(p)    \/ Prune(p)         \/ Unlock(p)
    \/ OrphanExit(p)

Next ==
    \/ Tick \/ Commit
    \/ \E p \in Procs : run_backup_once(p) \/ Step(p) \/ LoseBytes(p) \/ CommandFails(p)
                         \/ Kill(p)
    \/ Signal \/ handle_shutdown \/ ExitOnSignal \/ Restart
    \/ Crash

Spec == Init /\ [][Next]_vars

\* A process that can go on does, the kernel grants a lock that is freed again and
\* again to every waiter in turn, and a pending trap runs.
Fairness ==
    /\ \A p \in Procs : WF_vars(Step(p)) /\ SF_vars(flock(p))
    /\ WF_vars(handle_shutdown \/ ExitOnSignal)

FairSpec == Spec /\ Fairness

-----------------------------------------------------------------------------
(* The check that restore_postgres_backup_if_needed makes of a directory d. *)

\* find_timestamped_backup_for_sha: latest.sql.gz is one of the timestamped dumps.
MatchesTimestamped(d) == \E s \in Stamps : d.sha[s] = d.latest /\ Exists(d.dump[s])

ShaAgrees(d) == ~Exists(d.latestSha) \/ d.latestSha = d.latest \/ MatchesTimestamped(d)

\* Without latest.sql.gz there is nothing to restore; gzip -t comes after the checksum.
RestoreAccepts(d) == Exists(d.latest) => ShaAgrees(d) /\ d.latest.kind = "whole"

\* What a restore brings back; -1 when the boot refuses to go on.
RestorePoint(d) == IF RestoreAccepts(d) THEN d.latest.data ELSE -1

-----------------------------------------------------------------------------
(* Properties. *)

NoFaults == spent.faults = 0

\* Every variable has its type.
TypeOK ==
    /\ clock \in Stamps
    /\ committed \in Nat
    /\ dir \in Dir
    /\ lock \in Procs \cup {NoProc}
    /\ pc \in [Procs -> PC]
    /\ run \in [Procs -> Run]
    /\ handler \in BOOLEAN
    /\ signalled \in BOOLEAN
    /\ atSignal \in Nat
    /\ acked \in Nat
    /\ spent \in [DOMAIN Budget -> Nat]

\* Automatic, forced and final backups are serialised: at most one process, or the child
\* a killed one left behind, works in the directory, whatever was signalled or killed.
Serialised ==
    \A p, q \in Procs : pc[p] \in Holding \cup Orphaned /\ pc[q] \in Holding \cup Orphaned
                        => p = q

\* A timestamped dump is complete, even when commands fail or bytes get lost.
PublishedDumpsAreWhole == \A s \in Stamps : dir.dump[s].kind # "partial"

\* Unless a command failed, a container that crashes at any moment finds a latest.sql.gz
\* that the next boot agrees to restore.
BootNeverRefuses == NoFaults => RestoreAccepts(dir)

\* Unless a command failed, a run that reports success leaves everything committed
\* before it began in what the next boot restores, from then on.
SuccessIsDurable == NoFaults => acked <= RestorePoint(dir)

\* Unless a command failed, a loop that exits after its final backup has saved all that
\* was committed when it was told to stop.
FinalDumpIsFresh ==
    NoFaults /\ pc[Loop] = "exited" /\ run[Loop].ok => atSignal <= RestorePoint(dir)

\* latest.sql.gz is a dump that passed verification, whatever fails.
LatestIsVerified == dir.latest.kind # "partial"

\* As long as no command fails, the files, the lock and every crash amount to one restore
\* point that only moves forward, to something committed.
Promise == INSTANCE DurableBackup WITH point <- RestorePoint(dir)
ImplementsDurableBackup == Promise!Spec

\* Every run that waits for the lock gets it and ends.
RunsEnd == \A p \in Procs : pc[p] = "want" ~> pc[p] \in {"idle", "exited"}

\* A loop that is told to stop exits, whoever holds the lock; or it is killed.
ShutdownEnds == signalled ~> ~signalled /\ (pc[Loop] = "exited" \/ ~handler)
=============================================================================
