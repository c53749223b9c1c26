-------------------------- MODULE PostgresBackupProofs --------------------------
(***************************************************************************)
(* What PostgresBackup guarantees for every number of forced backups and   *)
(* every value of the bounds. The heart is the inductive invariant IInv:   *)
(* whoever is past the flock is alone with the directory, and the position *)
(* of its run says which files are already the new dump and which are not. *)
(* Everything but the type invariant follows from IInv.                    *)
(***************************************************************************)
EXTENDS PostgresBackup, TLAPS

USE BackupAssumption DEF Procs

-----------------------------------------------------------------------------
(* Types. *)

\* Pruning keeps the directory a directory.
LEMMA PrunedType ==
    ASSUME dir \in Dir
    PROVE  Pruned(dir) \in Dir
<1> DEFINE all == {s \in Stamps : Exists(dir.dump[s])}
           gone == all \ Kept(Policy, all, clock)
           dump == [s \in Stamps |-> IF s \in gone THEN NoFile ELSE dir.dump[s]]
           sha == [s \in Stamps |-> IF s \in gone THEN NoFile ELSE dir.sha[s]]
<1>1. NoFile \in File BY DEF NoFile, File
<1>2. dir.dump \in [Stamps -> File] /\ dir.sha \in [Stamps -> File] BY DEF Dir
<1>3. dump \in [Stamps -> File] /\ sha \in [Stamps -> File] BY <1>1, <1>2
<1>4. Pruned(dir) = [dir EXCEPT !.dump = dump, !.sha = sha] BY DEF Pruned
<1>5. QED
  <2> HIDE DEF dump, sha
  <2> QED BY <1>3, <1>4 DEF Dir

\* The values variables are reset to have their types.
LEMMA InitialValues == 0 \in Stamps /\ NoFile \in File /\ NoRun \in Run
<1>1. MaxClock + MaxRuns \in Nat OBVIOUS
<1>2. 0 \in Stamps BY <1>1 DEF Stamps
<1>3. NoFile \in File BY DEF NoFile, File
<1>4. QED BY <1>2, <1>3 DEF Run, NoRun

\* The type invariant holds initially.
LEMMA InitType == Init => TypeOK
<1> SUFFICES ASSUME Init PROVE TypeOK OBVIOUS
<1>1. dir \in Dir BY InitialValues DEF Init, Dir
<1>2. run \in [Procs -> Run] BY InitialValues DEF Init
<1>3. spent \in [DOMAIN Budget -> Nat] BY DEF Init, Budget
<1>4. QED BY <1>1, <1>2, <1>3, InitialValues DEF Init, TypeOK, PC

\* Using up a bound keeps the counters natural numbers.
LEMMA SpendType ==
    ASSUME spent \in [DOMAIN Budget -> Nat], NEW what \in DOMAIN Budget, Spend(what)
    PROVE  spent' \in [DOMAIN Budget -> Nat]
BY DEF Spend, Budget

\* Every command of a run keeps the types.
LEMMA StepType ==
    ASSUME TypeOK, NEW p \in Procs, Step(p)
    PROVE  TypeOK'
<1> USE DEF TypeOK, From, Goto, Writes, Assigns
<1>1. CASE flock(p) BY <1>1 DEF flock, PC, Holding
<1>2. CASE TakeStamp(p) BY <1>2 DEF TakeStamp, PC, Holding, Run
<1>3. CASE StampTaken(p) BY <1>3 DEF StampTaken, PC, Holding
<1>4. CASE RetakeStamp(p) BY <1>4 DEF RetakeStamp, PC, Holding, Run
<1>5. CASE StartDump(p) BY <1>5 DEF StartDump, PC, Holding, Run, File
<1>6. CASE EndDump(p) BY <1>6 DEF EndDump, PC, Holding, Run, File
<1>7. CASE DumpFails(p) BY <1>7 DEF DumpFails, PC, Holding, Dir
<1>8. CASE VerifyPasses(p) BY <1>8 DEF VerifyPasses, PC, Holding
<1>9. CASE VerifyFails(p) BY <1>9 DEF VerifyFails, PC, Holding, Dir
<1>10. CASE Publish(p) BY <1>10 DEF Publish, PC, Holding, Dir, Run
<1>11. CASE WriteDumpSha(p) BY <1>11 DEF WriteDumpSha, PC, Holding, Dir, Run
<1>12. CASE StartCopy(p) BY <1>12 DEF StartCopy, PC, Holding, Dir, Run, File
<1>13. CASE EndCopy(p) BY <1>13 DEF EndCopy, PC, Holding, Dir, Run
<1>14. CASE NoTarget(p) BY <1>14 DEF NoTarget, PC, Holding
<1>15. CASE Rename(p) BY <1>15 DEF Rename, PC, Holding, Dir, NoFile, File
<1>16. CASE TruncateSha(p) BY <1>16 DEF TruncateSha, PC, Holding, Dir, NoFile, File
<1>17. CASE WriteSha(p) BY <1>17 DEF WriteSha, PC, Holding, Dir, Run
<1>18. CASE Cleanup(p) BY <1>18 DEF Cleanup, PC, Holding, Dir
<1>19. CASE Prune(p) BY <1>19, PrunedType DEF Prune, PC, Holding, Run
<1>20. CASE Unlock(p) BY <1>20, InitialValues DEF Unlock, PC, Holding, Run
<1>21. CASE OrphanExit(p)
  <2>1. dir.dump[run[p].stamp] \in File /\ dir.latestTmp \in File BY DEF Dir, Run
  <2>2. dir' \in Dir BY <1>21, <2>1 DEF OrphanExit, Dir
  <2> QED BY <1>21, <2>2, InitialValues DEF OrphanExit, Leaves, PC, Orphaned
<1>22. QED BY <1>1, <1>2, <1>3, <1>4, <1>5, <1>6, <1>7, <1>8, <1>9, <1>10, <1>11, <1>12, <1>13,
    <1>14, <1>15, <1>16, <1>17, <1>18, <1>19, <1>20, <1>21 DEF Step

\* Every step keeps the types.
LEMMA NextType == TypeOK /\ [Next]_vars => TypeOK'
<1> SUFFICES ASSUME TypeOK, [Next]_vars PROVE TypeOK'
  OBVIOUS
<1>a. NoRun \in Run BY InitialValues
<1>b. NewRun \in Run BY InitialValues DEF TypeOK, NewRun, Run
<1>c. {"idle", "want", "exited"} \cup Orphaned \subseteq PC BY DEF PC
<1>1. CASE Tick BY <1>1 DEF Tick, TypeOK, Stamps, procs, ghosts
<1>2. CASE Commit BY <1>2 DEF Commit, TypeOK, procs, ghosts
<1>3. CASE \E p \in Procs : Step(p) BY <1>3, StepType
<1> USE DEF TypeOK, From, Goto, Assigns
<1>4. CASE \E p \in Procs : run_backup_once(p)
  BY <1>4, <1>b, <1>c, SpendType DEF run_backup_once, Budget
<1>5. CASE \E p \in Procs : LoseBytes(p)
  BY <1>5, SpendType DEF LoseBytes, PC, Holding, Budget
<1>6. CASE \E p \in Procs : CommandFails(p)
  BY <1>6, SpendType DEF CommandFails, AfterFailure, PC, Holding, Budget
<1>7. CASE \E p \in Procs : Kill(p)
  BY <1>7, <1>a, <1>c, SpendType DEF Kill, Leaves, Orphan, Orphaned, Budget
<1>8. CASE Signal BY <1>8, SpendType DEF Signal, Budget
<1>9. CASE handle_shutdown
  BY <1>9, <1>b, <1>c, SpendType DEF handle_shutdown, Trap, Leaves, Budget
<1>10. CASE ExitOnSignal BY <1>10, <1>a, <1>c DEF ExitOnSignal, Trap, Leaves
<1>11. CASE Restart BY <1>11, <1>a, <1>c DEF Restart, Leaves
<1>12. CASE Crash BY <1>12, <1>a, <1>c, SpendType DEF Crash, ghosts, Budget
<1>13. CASE UNCHANGED vars BY <1>13 DEF vars, procs, ghosts
<1>14. QED BY <1>1, <1>2, <1>3, <1>4, <1>5, <1>6, <1>7, <1>8, <1>9, <1>10, <1>11, <1>12, <1>13
           DEF Next

\* Every variable of the backup processes always has its type.
THEOREM TypeCorrect == Spec => []TypeOK
BY InitType, NextType, PTL DEF Spec

-----------------------------------------------------------------------------
(* The inductive invariant. *)

\* The run p from its snapshot to the mv of its dump, from there to the mv of
\* latest.sql.gz, and after it.
Unpublished == {"dumping", "verify", "publish"}
Published == {"sha", "copy", "copying", "rename"}
Renamed == {"truncate", "checksum", "cleanup", "prune"}

\* Dumps are complete and named by a second that has passed; the data is committed data.
DirInv ==
    /\ PublishedDumpsAreWhole
    /\ \A s \in Stamps : Exists(dir.dump[s]) => s <= clock
    /\ \A s \in Stamps : dir.dump[s].data <= committed
    /\ dir.latestTmp.data <= committed
    /\ dir.latest.data <= committed

\* Past the flock p holds the lock, writes under a name no dump has, and publishes only
\* what passed verification.
ProcInv(p) ==
    /\ pc[p] \in Holding \cup Orphaned => lock = p
    /\ pc[p] \in {"dump"} \cup Unpublished =>
           ~Exists(dir.dump[run[p].stamp]) /\ run[p].stamp <= clock
    /\ pc[p] = "publish" => run[p].out.kind = "whole"
    /\ run[p].start <= committed
    /\ run[p].out.data <= committed
    /\ run[p].ok => pc[p] \in {"unlock", "exited"}

\* What p's run has put on disk so far, and how old it is.
RunInv(p) ==
    LET r == run[p] IN
    /\ pc[p] \in Unpublished \cup Published \cup Renamed => r.start <= r.out.data
    /\ pc[p] \in Unpublished \cup Published => dir.latest.data <= r.out.data
    /\ pc[p] \in Published \cup Renamed => r.out.kind = "whole"
    /\ pc[p] \in Published => dir.dump[r.stamp] = r.out
    /\ pc[p] = "sha" => ~Exists(dir.sha[r.stamp])
    /\ pc[p] \in Published \ {"sha"} => dir.sha[r.stamp] = r.out
    /\ pc[p] = "rename" => dir.latestTmp = r.out
    /\ pc[p] \in Renamed => dir.latest = r.out
    /\ pc[p] \in {"cleanup", "prune"} => dir.latestSha = r.out
    /\ pc[p] = "unlock" /\ r.ok => r.start <= dir.latest.data

\* Every checksum has its dump, latest.sql.gz can be restored, and it holds whatever a
\* run has reported to be saved.
RestoreInv ==
    /\ \A s \in Stamps : Exists(dir.sha[s]) => Exists(dir.dump[s])
    /\ RestoreAccepts(dir)
    /\ acked <= dir.latest.data

\* The final run of a stopped loop starts after the signal.
FinalInv ==
    /\ atSignal <= committed
    /\ handler /\ pc[Loop] \in {"want"} \cup Holding => atSignal <= run[Loop].start
    /\ NoFaults /\ pc[Loop] = "exited" /\ run[Loop].ok => atSignal <= dir.latest.data

\* Files, checksums, lock and processes together, in every reachable state.
IInv ==
    /\ TypeOK
    /\ DirInv
    /\ \A p \in Procs : ProcInv(p)
    /\ NoFaults => RestoreInv /\ \A p \in Procs : RunInv(p)
    /\ FinalInv

-----------------------------------------------------------------------------
(* The commands of a run. *)

\* A command of p leaves the environment and the other processes alone, and p has or
\* takes the lock.
LEMMA StepFrame ==
    ASSUME TypeOK, NEW p \in Procs, Step(p)
    PROVE  /\ clock \in Nat /\ clock' \in Nat /\ clock <= clock'
           /\ UNCHANGED <<committed, handler, signalled, atSignal, spent>>
           /\ \A q \in Procs : q # p => pc'[q] = pc[q] /\ run'[q] = run[q]
           /\ pc[p] \in Holding \cup Orphaned \/ lock = NoProc
BY DEF TypeOK, Stamps, Holding, Orphaned, Step, From, Goto, Writes, Assigns, Leaves, flock,
    TakeStamp, StampTaken, RetakeStamp, StartDump, EndDump, DumpFails, VerifyPasses,
    VerifyFails, Publish, WriteDumpSha, StartCopy, EndCopy, NoTarget, Rename, TruncateSha,
    WriteSha, Cleanup, Prune, Unlock, OrphanExit

\* While a command of p runs, nobody else is past the flock.
LEMMA Alone ==
    ASSUME TypeOK, \A q \in Procs : ProcInv(q), NEW p \in Procs, Step(p),
           NEW q \in Procs, q # p
    PROVE  pc[q] \notin Holding \cup Orphaned
BY StepFrame DEF ProcInv

\* Every command keeps the dumps complete and named by a second that has passed.
LEMMA StepDir ==
    ASSUME TypeOK, DirInv, NEW p \in Procs, ProcInv(p), Step(p)
    PROVE  DirInv'
<1>0. /\ pc \in [Procs -> PC] /\ run \in [Procs -> Run] /\ dir \in Dir
      /\ clock \in Stamps /\ committed \in Nat /\ acked \in Nat
  BY DEF TypeOK
<1>1. CASE dir' = dir
  <2>1. \A s \in Stamps : s \in Nat BY DEF Stamps
  <2>2. clock \in Nat /\ clock' \in Nat /\ clock <= clock' /\ committed' = committed
    BY StepFrame
  <2> QED BY <1>1, <2>1, <2>2 DEF DirInv, PublishedDumpsAreWhole
<1> USE <1>0 DEF From, Goto, Writes, Assigns, DirInv, PublishedDumpsAreWhole, ProcInv, Dir,
    Run, File, Exists, NoFile, Stamps, Unpublished
<1>2. CASE DumpFails(p) BY <1>2 DEF DumpFails
<1>3. CASE VerifyFails(p) BY <1>3 DEF VerifyFails
<1>4. CASE Publish(p)
  <2>1. /\ dir'.latest = dir.latest /\ clock' = clock /\ committed' = committed
        /\ dir'.latestTmp = dir.latestTmp
        /\ \A s \in Stamps : dir'.dump[s] = IF s = run[p].stamp THEN run[p].out
                                                              ELSE dir.dump[s]
    BY <1>4 DEF Publish
  <2>2. run[p].out.kind = "whole" /\ run[p].stamp <= clock BY <1>4 DEF Publish
  <2> QED BY <2>1, <2>2
<1>5. CASE WriteDumpSha(p) BY <1>5 DEF WriteDumpSha
<1>6. CASE StartCopy(p) BY <1>6 DEF StartCopy
<1>7. CASE EndCopy(p) BY <1>7 DEF EndCopy
<1>8. CASE Rename(p)
  <2>1. dir'.dump = dir.dump /\ clock' = clock /\ committed' = committed BY <1>8 DEF Rename
  <2>2. dir'.latest \in {dir.latest, dir.latestTmp} /\ dir'.latestTmp \in {dir.latestTmp, NoFile}
    BY <1>8 DEF Rename
  <2> QED BY <2>1, <2>2
<1>9. CASE TruncateSha(p) BY <1>9 DEF TruncateSha
<1>10. CASE WriteSha(p) BY <1>10 DEF WriteSha
<1>11. CASE Cleanup(p) BY <1>11 DEF Cleanup
<1>12. CASE Prune(p)
  <2>1. /\ dir'.latestTmp = dir.latestTmp /\ dir'.latest = dir.latest
        /\ clock' = clock /\ committed' = committed
    BY <1>12 DEF Prune, Pruned
  <2>2. \A s \in Stamps : dir'.dump[s] \in {dir.dump[s], NoFile}
    BY <1>12 DEF Prune, Pruned
  <2>3. NoFile.kind = "none" /\ NoFile.data <= committed OBVIOUS
  <2>4. \A s \in Stamps : /\ dir'.dump[s].kind # "partial"
                          /\ Exists(dir'.dump[s]) => s <= clock
                          /\ dir'.dump[s].data <= committed
    BY <2>2, <2>3
  <2> QED BY <2>1, <2>4
<1>13. CASE OrphanExit(p) BY <1>13 DEF OrphanExit, NoRun, NoFile, Orphaned, Leaves
<1> QED BY <1>1, <1>2, <1>3, <1>4, <1>5, <1>6, <1>7, <1>8, <1>9, <1>10, <1>11, <1>12, <1>13
    DEF Step, flock, TakeStamp, StampTaken, RetakeStamp, StartDump, EndDump, VerifyPasses,
        NoTarget, Unlock

\* Every command of p keeps what is known of p.
LEMMA StepProc ==
    ASSUME TypeOK, DirInv, NEW p \in Procs, ProcInv(p), Step(p)
    PROVE  ProcInv(p)'
<1>0. /\ pc \in [Procs -> PC] /\ run \in [Procs -> Run] /\ dir \in Dir
      /\ clock \in Stamps /\ committed \in Nat /\ acked \in Nat
  BY DEF TypeOK
<1> USE <1>0 DEF From, Goto, Writes, Assigns, ProcInv, Dir, Run, File, Exists, Stamps,
    Unpublished, Holding, Orphaned, DirInv
<1>1. CASE flock(p) BY <1>1 DEF flock
<1>2. CASE TakeStamp(p) BY <1>2 DEF TakeStamp
<1>3. CASE StampTaken(p) BY <1>3 DEF StampTaken
<1>4. CASE RetakeStamp(p)
  <2>0. clock + 1 \in Stamps /\ ~(clock + 1 <= clock) BY <1>4 DEF RetakeStamp
  <2>1. ~Exists(dir.dump[clock + 1]) BY <2>0
  <2>2. run'[p] = [run[p] EXCEPT !.stamp = clock + 1] /\ pc'[p] = "dump" BY <1>4 DEF RetakeStamp
  <2>3. UNCHANGED <<dir, lock, committed>> /\ clock' = clock + 1 /\ pc[p] = "restamp"
    BY <1>4 DEF RetakeStamp
  <2> QED BY <2>1, <2>2, <2>3
<1>5. CASE StartDump(p) BY <1>5 DEF StartDump
<1>6. CASE EndDump(p) BY <1>6 DEF EndDump
<1>7. CASE DumpFails(p) BY <1>7 DEF DumpFails
<1>8. CASE VerifyPasses(p) BY <1>8 DEF VerifyPasses
<1>9. CASE VerifyFails(p) BY <1>9 DEF VerifyFails
<1>10. CASE Publish(p) BY <1>10 DEF Publish
<1>11. CASE WriteDumpSha(p) BY <1>11 DEF WriteDumpSha
<1>12. CASE StartCopy(p) BY <1>12 DEF StartCopy
<1>13. CASE EndCopy(p) BY <1>13 DEF EndCopy
<1>14. CASE NoTarget(p) BY <1>14 DEF NoTarget
<1>15. CASE Rename(p) BY <1>15 DEF Rename
<1>16. CASE TruncateSha(p) BY <1>16 DEF TruncateSha
<1>17. CASE WriteSha(p) BY <1>17 DEF WriteSha
<1>18. CASE Cleanup(p) BY <1>18 DEF Cleanup
<1>19. CASE Prune(p) BY <1>19 DEF Prune, Pruned
<1>20. CASE Unlock(p) BY <1>20 DEF Unlock, NoRun, NoFile
<1>21. CASE OrphanExit(p) BY <1>21 DEF OrphanExit, NoRun, NoFile, Orphaned, Leaves
<1> QED BY <1>1, <1>2, <1>3, <1>4, <1>5, <1>6, <1>7, <1>8, <1>9, <1>10, <1>11, <1>12, <1>13,
    <1>14, <1>15, <1>16, <1>17, <1>18, <1>19, <1>20, <1>21 DEF Step

\* Without failing commands, every command of p keeps what p has put on disk.
LEMMA StepRun ==
    ASSUME TypeOK, DirInv, NEW p \in Procs, ProcInv(p), Step(p), RestoreInv, RunInv(p)
    PROVE  RunInv(p)'
<1>0. /\ pc \in [Procs -> PC] /\ run \in [Procs -> Run] /\ dir \in Dir
      /\ clock \in Stamps /\ committed \in Nat /\ acked \in Nat
  BY DEF TypeOK
<1> USE <1>0 DEF From, Goto, Writes, Assigns, RestoreInv, ProcInv, RunInv, Dir, Run, File,
    Exists, NoFile, Stamps, Unpublished, Published, Renamed
<1>1. CASE flock(p) BY <1>1 DEF flock
<1>2. CASE TakeStamp(p) BY <1>2 DEF TakeStamp
<1>3. CASE StampTaken(p) BY <1>3 DEF StampTaken
<1>4. CASE RetakeStamp(p) BY <1>4 DEF RetakeStamp
<1>5. CASE StartDump(p) BY <1>5 DEF StartDump, DirInv
<1>6. CASE EndDump(p) BY <1>6 DEF EndDump
<1>7. CASE DumpFails(p) BY <1>7 DEF DumpFails
<1>8. CASE VerifyPasses(p) BY <1>8 DEF VerifyPasses
<1>9. CASE VerifyFails(p) BY <1>9 DEF VerifyFails
<1>10. CASE Publish(p) BY <1>10 DEF Publish
<1>11. CASE WriteDumpSha(p) BY <1>11 DEF WriteDumpSha
<1>12. CASE StartCopy(p) BY <1>12 DEF StartCopy
<1>13. CASE EndCopy(p) BY <1>13 DEF EndCopy
<1>14. CASE NoTarget(p) BY <1>14 DEF NoTarget
<1>15. CASE Rename(p) BY <1>15 DEF Rename
<1>16. CASE TruncateSha(p) BY <1>16 DEF TruncateSha
<1>17. CASE WriteSha(p) BY <1>17 DEF WriteSha
<1>18. CASE Cleanup(p) BY <1>18 DEF Cleanup
<1>19. CASE Prune(p)
  <2>1. dir'.latest = dir.latest BY <1>19 DEF Prune, Pruned
  <2>2. run'[p] = [run[p] EXCEPT !.ok = TRUE] /\ pc[p] = "prune" /\ pc'[p] = "unlock"
    BY <1>19 DEF Prune
  <2>3. run'[p].start = run[p].start BY <2>2
  <2>4. run[p].start <= dir'.latest.data BY <2>1, <2>2
  <2> QED BY <2>2, <2>3, <2>4
<1>20. CASE Unlock(p) BY <1>20 DEF Unlock, NoRun, NoFile
<1>21. CASE OrphanExit(p) BY <1>21 DEF OrphanExit, NoRun, NoFile, Orphaned, Leaves
<1> QED BY <1>1, <1>2, <1>3, <1>4, <1>5, <1>6, <1>7, <1>8, <1>9, <1>10, <1>11, <1>12, <1>13,
    <1>14, <1>15, <1>16, <1>17, <1>18, <1>19, <1>20, <1>21 DEF Step

\* Without failing commands, after every command the directory can be restored.
LEMMA StepRestore ==
    ASSUME TypeOK, DirInv, NEW p \in Procs, ProcInv(p), Step(p), RestoreInv, RunInv(p)
    PROVE  RestoreInv'
<1>0. /\ pc \in [Procs -> PC] /\ run \in [Procs -> Run] /\ dir \in Dir
      /\ clock \in Stamps /\ committed \in Nat /\ acked \in Nat
  BY DEF TypeOK
<1> USE <1>0 DEF From, Goto, Writes, Assigns, RestoreInv, ProcInv, RunInv, Dir, Run, File,
    Exists, NoFile, Unpublished, Published, Renamed, RestoreAccepts, ShaAgrees,
    MatchesTimestamped
<1>1. CASE DumpFails(p) BY <1>1 DEF DumpFails
<1>2. CASE VerifyFails(p) BY <1>2 DEF VerifyFails
<1>3. CASE dir' = dir /\ acked' = acked BY <1>3
<1>4. CASE Publish(p) BY <1>4 DEF Publish
<1>5. CASE WriteDumpSha(p) BY <1>5 DEF WriteDumpSha
<1>6. CASE StartCopy(p) BY <1>6 DEF StartCopy
<1>7. CASE EndCopy(p) BY <1>7 DEF EndCopy
<1>8. CASE Rename(p) BY <1>8 DEF Rename
<1>9. CASE TruncateSha(p) BY <1>9 DEF TruncateSha
<1>10. CASE WriteSha(p) BY <1>10 DEF WriteSha
<1>11. CASE Cleanup(p) BY <1>11 DEF Cleanup
<1>12. CASE Prune(p) BY <1>12 DEF Prune, Pruned
<1>13. CASE Unlock(p) BY <1>13 DEF Unlock, NoRun, NoFile
<1>14. CASE OrphanExit(p) BY <1>14 DEF OrphanExit, NoRun, NoFile, Orphaned, Leaves
<1> QED BY <1>1, <1>2, <1>3, <1>4, <1>5, <1>6, <1>7, <1>8, <1>9, <1>10, <1>11, <1>12, <1>13,
    <1>14
    DEF Step, flock, TakeStamp, StampTaken, RetakeStamp, StartDump, EndDump, VerifyPasses,
        NoTarget

\* Without failing commands, latest.sql.gz never gets older.
LEMMA StepForward ==
    ASSUME TypeOK, NEW p \in Procs, RunInv(p), Step(p)
    PROVE  dir.latest.data <= dir'.latest.data
<1>1. dir \in Dir BY DEF TypeOK
<1>2. dir.latest.data \in Nat BY <1>1 DEF Dir, File
<1>3. CASE Rename(p)
  BY <1>1, <1>3 DEF Rename, Writes, From, RunInv, Published, Dir, File, Exists
<1>4. CASE ~Rename(p)
  <2>1. dir'.latest = dir.latest
    BY <1>1, <1>4 DEF Step, Writes, Assigns, Leaves, Pruned, Dir, flock, TakeStamp,
        StampTaken, RetakeStamp, StartDump, EndDump, DumpFails, VerifyPasses, VerifyFails,
        Publish, WriteDumpSha, StartCopy, EndCopy, NoTarget, Rename, TruncateSha, WriteSha,
        Cleanup, Prune, Unlock, OrphanExit
  <2> QED BY <1>2, <2>1
<1>5. QED BY <1>3, <1>4

\* Every command of the loop keeps what is known of its final run.
LEMMA StepFinal ==
    ASSUME IInv, Step(Loop)
    PROVE  FinalInv'
<1>1. /\ pc \in [Procs -> PC] /\ run \in [Procs -> Run] /\ handler \in BOOLEAN
      /\ atSignal \in Nat /\ committed \in Nat
  BY DEF IInv, TypeOK
<1>2. UNCHANGED <<committed, handler, atSignal, spent>> BY StepFrame DEF IInv
<1>3. CASE Unlock(Loop)
  <2>1. NoFaults => RunInv(Loop) BY DEF IInv
  <2>2. run[Loop].start \in Nat /\ dir.latest.data \in Nat
    BY DEF IInv, TypeOK, Run, Dir, File
  <2>3. pc[Loop] = "unlock" /\ dir' = dir BY <1>3 DEF Unlock, From
  <2>4. handler => atSignal <= run[Loop].start BY <2>3 DEF IInv, FinalInv, Holding
  <2>5. NoFaults /\ run[Loop].ok => run[Loop].start <= dir.latest.data
    BY <2>1, <2>3 DEF RunInv
  <2>6. CASE handler
    <3>1. pc'[Loop] = "exited" /\ run' = run BY <1>1, <1>3, <2>6 DEF Unlock, From, Goto
    <3> QED BY <1>1, <1>2, <2>2, <2>3, <2>4, <2>5, <2>6, <3>1
            DEF IInv, FinalInv, NoFaults, Holding
  <2>7. CASE ~handler
    <3>1. pc'[Loop] = "idle" BY <1>1, <1>3, <2>7 DEF Unlock, From, Goto
    <3> QED BY <1>2, <2>7, <3>1 DEF IInv, FinalInv, Holding
  <2> QED BY <1>1, <2>6, <2>7
<1>4. CASE OrphanExit(Loop)
  BY <1>1, <1>2, <1>4 DEF OrphanExit, Leaves, Goto, IInv, FinalInv, Holding, NoRun
<1>5. CASE ~Unlock(Loop) /\ ~OrphanExit(Loop)
  <2>1. /\ pc[Loop] \in {"want"} \cup Holding
        /\ pc'[Loop] # "exited"
        /\ run'[Loop].start = run[Loop].start
    BY <1>1, <1>5 DEF Step, From, Goto, Writes, Assigns, Holding, Run, flock, TakeStamp,
        StampTaken, RetakeStamp, StartDump, EndDump, DumpFails, VerifyPasses, VerifyFails,
        Publish, WriteDumpSha, StartCopy, EndCopy, NoTarget, Rename, TruncateSha, WriteSha,
        Cleanup, Prune, Unlock, OrphanExit
  <2> QED BY <1>2, <2>1 DEF IInv, FinalInv
<1>6. QED BY <1>3, <1>4, <1>5

\* Every command keeps the invariant.
LEMMA StepInv ==
    ASSUME IInv, NEW p \in Procs, Step(p)
    PROVE  IInv'
<1> USE DEF IInv
<1>1. TypeOK' BY StepType
<1>2. DirInv' BY StepDir
<1>3. ASSUME NEW q \in Procs, q # p
      PROVE  /\ ProcInv(q)'
             /\ RunInv(q) => RunInv(q)'
  <2>1. pc[q] \notin Holding \cup Orphaned BY <1>3, Alone
  <2>2. pc'[q] = pc[q] /\ run'[q] = run[q] BY <1>3, StepFrame
  <2>3. committed' = committed BY StepFrame
  <2> QED BY <2>1, <2>2, <2>3
          DEF ProcInv, RunInv, Holding, Unpublished, Published, Renamed
<1>4. \A q \in Procs : ProcInv(q)' BY <1>3, StepProc
<1>5. ASSUME NoFaults'
      PROVE  RestoreInv' /\ \A q \in Procs : RunInv(q)'
  <2>1. NoFaults BY <1>5, StepFrame DEF NoFaults
  <2> QED BY <1>3, <2>1, StepRun, StepRestore
<1>6. FinalInv'
  <2>1. UNCHANGED <<committed, handler, atSignal, spent>> BY StepFrame
  <2>2. NoFaults' => dir.latest.data <= dir'.latest.data
    BY <2>1, StepForward DEF NoFaults
  <2>3. CASE p # Loop
    <3>1. pc'[Loop] = pc[Loop] /\ run'[Loop] = run[Loop] BY <2>3, StepFrame
    <3>2. dir.latest.data \in Nat /\ dir'.latest.data \in Nat /\ atSignal \in Nat
      BY <1>1 DEF TypeOK, Dir, File
    <3> QED BY <2>1, <2>2, <3>1, <3>2 DEF FinalInv, NoFaults
  <2>4. CASE p = Loop
    <3> QED BY <2>4, StepFinal DEF FinalInv
  <2> QED BY <2>3, <2>4
<1>7. QED BY <1>1, <1>2, <1>4, <1>5, <1>6

-----------------------------------------------------------------------------
(* The theorems. *)

\* New runs, failing commands, kills, signals and crashes keep the invariant.
LEMMA EnvironmentInv ==
    ASSUME IInv,
           \/ \E p \in Procs : run_backup_once(p) \/ LoseBytes(p) \/ CommandFails(p) \/ Kill(p)
           \/ Signal \/ handle_shutdown \/ ExitOnSignal \/ Restart \/ Crash
    PROVE  IInv'
<1> USE DEF IInv
<1>a. /\ pc \in [Procs -> PC] /\ run \in [Procs -> Run] /\ dir \in Dir
      /\ lock \in Procs \cup {NoProc} /\ clock \in Stamps /\ committed \in Nat
      /\ acked \in Nat /\ atSignal \in Nat /\ handler \in BOOLEAN
      /\ signalled \in BOOLEAN /\ spent \in [DOMAIN Budget -> Nat]
  BY DEF TypeOK
<1>b. UNCHANGED <<dir, clock, committed, acked>>
  BY DEF run_backup_once, LoseBytes, CommandFails, Kill, Signal, handle_shutdown, ExitOnSignal,
         Restart, Crash, Assigns, From, Trap, Leaves, ghosts
<1>c. DirInv' BY <1>b DEF DirInv, PublishedDumpsAreWhole
<1>d. RestoreInv => RestoreInv'
  BY <1>b DEF RestoreInv, RestoreAccepts, ShaAgrees, MatchesTimestamped
<1>e. SUFFICES /\ \A q \in Procs : ProcInv(q)'
               /\ NoFaults' => NoFaults /\ \A q \in Procs : RunInv(q) => RunInv(q)'
               /\ FinalInv'
  <2>1. TypeOK' BY NextType DEF Next
  <2> QED BY <1>c, <1>d, <2>1
<1> USE <1>a, <1>b DEF ProcInv, RunInv, FinalInv, NoFaults, Goto, Holding, Orphaned,
        Unpublished, Published, Renamed, NoRun, NewRun, NoFile, Spend, Budget
<1>1. CASE \E p \in Procs : run_backup_once(p) BY <1>1 DEF run_backup_once, Assigns, From
<1>2. CASE \E p \in Procs : LoseBytes(p) BY <1>2 DEF LoseBytes, Assigns, From
<1>3. CASE \E p \in Procs : CommandFails(p)
  BY <1>3 DEF CommandFails, AfterFailure, Assigns, From
<1>4. CASE \E p \in Procs : Kill(p) BY <1>4 DEF Kill, Leaves, Orphan
<1>5. CASE Signal BY <1>5 DEF Signal
<1>6. CASE handle_shutdown BY <1>6 DEF handle_shutdown, Trap, Leaves
<1>7. CASE ExitOnSignal BY <1>7 DEF ExitOnSignal, Trap, Leaves
<1>8. CASE Restart BY <1>8 DEF Restart, Leaves
<1>9. CASE Crash BY <1>9 DEF Crash, ghosts
<1>10. QED BY <1>1, <1>2, <1>3, <1>4, <1>5, <1>6, <1>7, <1>8, <1>9

\* Every step keeps the invariant.
LEMMA NextInv == IInv /\ [Next]_vars => IInv'
<1> SUFFICES ASSUME IInv, [Next]_vars PROVE IInv' OBVIOUS
<1> USE DEF IInv
<1>0. TypeOK' BY NextType
<1>1. CASE Tick
  <2>1. clock \in Nat /\ clock' = clock + 1 BY <1>1 DEF Tick, TypeOK, Stamps
  <2>2. UNCHANGED <<committed, dir, lock, pc, run, handler, atSignal, acked, spent>>
    BY <1>1 DEF Tick, procs, ghosts
  <2>3. DirInv' BY <2>1, <2>2 DEF DirInv, PublishedDumpsAreWhole, Stamps
  <2>4. ASSUME NEW p \in Procs PROVE ProcInv(p)'
    <3>1. run[p].stamp \in Nat BY DEF TypeOK, Run, Stamps
    <3> QED BY <2>1, <2>2, <3>1 DEF ProcInv
  <2> QED BY <1>0, <2>2, <2>3, <2>4 DEF RunInv, RestoreInv, FinalInv, NoFaults, RestoreAccepts,
      ShaAgrees, MatchesTimestamped
<1>2. CASE Commit
  <2>1. committed \in Nat /\ dir \in Dir /\ run \in [Procs -> Run] /\ atSignal \in Nat
    BY DEF TypeOK
  <2> QED BY <1>0, <1>2, <2>1 DEF Commit, procs, ghosts, DirInv, PublishedDumpsAreWhole,
      ProcInv, RunInv, RestoreInv, FinalInv, NoFaults, RestoreAccepts, ShaAgrees,
      MatchesTimestamped, Dir, Run, File
<1>3. CASE \E p \in Procs : Step(p) BY <1>3, StepInv
<1>4. CASE UNCHANGED vars
  BY <1>0, <1>4 DEF vars, procs, ghosts, DirInv, PublishedDumpsAreWhole, ProcInv, RunInv,
      RestoreInv, FinalInv, NoFaults, RestoreAccepts, ShaAgrees, MatchesTimestamped
<1>5. CASE Next /\ ~Tick /\ ~Commit /\ ~\E p \in Procs : Step(p)
  BY <1>5, EnvironmentInv DEF Next
<1>6. QED BY <1>1, <1>2, <1>3, <1>4, <1>5

\* The empty directory satisfies the invariant.
LEMMA InitInv == Init => IInv
<1> SUFFICES ASSUME Init PROVE IInv OBVIOUS
<1>1. TypeOK BY InitType
<1>2. DirInv BY DEF Init, DirInv, PublishedDumpsAreWhole, Exists, NoFile
<1>3. \A p \in Procs : ProcInv(p) /\ RunInv(p)
  BY DEF Init, ProcInv, RunInv, NoRun, NoFile, Holding, Orphaned, Unpublished, Published,
      Renamed
<1>4. RestoreInv BY DEF Init, RestoreInv, RestoreAccepts, Exists, NoFile
<1>5. FinalInv BY DEF Init, FinalInv, NoRun, Holding
<1>6. QED BY <1>1, <1>2, <1>3, <1>4, <1>5 DEF IInv

\* IInv holds in every reachable state.
THEOREM Invariance == Spec => []IInv
BY InitInv, NextInv, PTL DEF Spec

\* Automatic, forced and final backups, and the children of killed ones, never overlap.
THEOREM Serialisation == Spec => []Serialised
<1>1. IInv => Serialised BY DEF IInv, ProcInv, Serialised
<1>2. QED BY <1>1, Invariance, PTL

\* No timestamped dump is ever truncated, whatever fails.
THEOREM DumpsAreWhole == Spec => []PublishedDumpsAreWhole
<1>1. IInv => PublishedDumpsAreWhole BY DEF IInv, DirInv
<1>2. QED BY <1>1, Invariance, PTL

\* Whenever the container crashes, unless a command failed before, the next boot accepts
\* the latest.sql.gz it finds.
THEOREM BootAccepts == Spec => []BootNeverRefuses
<1>1. IInv => BootNeverRefuses BY DEF IInv, RestoreInv, BootNeverRefuses
<1>2. QED BY <1>1, Invariance, PTL

\* Unless a command failed, a reported success is never lost to the next restore.
THEOREM SuccessDurable == Spec => []SuccessIsDurable
<1>1. IInv => SuccessIsDurable BY DEF IInv, RestoreInv, RestorePoint, SuccessIsDurable
<1>2. QED BY <1>1, Invariance, PTL

\* Unless a command failed, the final backup of a stopped loop covers all that was
\* committed when it was told to stop.
THEOREM FinalFresh == Spec => []FinalDumpIsFresh
<1>1. IInv => FinalDumpIsFresh
  BY DEF IInv, FinalInv, RestoreInv, RestorePoint, FinalDumpIsFresh
<1>2. QED BY <1>1, Invariance, PTL

\* Without a budget for failures no command fails.
LEMMA FaultFree ==
    ASSUME MaxFaults = 0
    PROVE  Spec => []NoFaults
<1>1. Init => NoFaults BY DEF Init, NoFaults, Budget
<1>2. TypeOK /\ NoFaults /\ [Next]_vars => NoFaults'
  <2> SUFFICES ASSUME TypeOK, NoFaults, [Next]_vars PROVE NoFaults' OBVIOUS
  <2>1. CASE \E what \in DOMAIN Budget : Spend(what)
    BY <2>1 DEF TypeOK, NoFaults, Spend, Budget
  <2>2. CASE UNCHANGED spent BY <2>2 DEF NoFaults
  <2>3. CASE \E p \in Procs : Step(p) BY <2>2, <2>3, StepFrame
  <2> QED BY <2>1, <2>2, <2>3
          DEF Next, Tick, Commit, run_backup_once, LoseBytes, CommandFails, Kill, Signal,
              handle_shutdown, ExitOnSignal, Restart, Crash, vars, Budget
<1>3. QED BY <1>1, <1>2, TypeCorrect, PTL DEF Spec

\* A command of a run moves the restore point forward or acknowledges it.
LEMMA StepPromise ==
    ASSUME IInv, IInv', NoFaults, NoFaults', NEW p \in Procs, Step(p)
    PROVE  [Promise!Next]_(Promise!vars)
<1>1. /\ dir \in Dir /\ dir' \in Dir /\ run \in [Procs -> Run] /\ committed \in Nat /\ acked \in Nat
      /\ dir.latest.data \in Nat /\ dir'.latest.data \in Nat
  BY DEF IInv, TypeOK, Dir, File
<1>2. /\ RestorePoint(dir) = dir.latest.data /\ RestorePoint(dir') = dir'.latest.data
      /\ acked <= dir.latest.data /\ acked' <= dir'.latest.data
      /\ dir'.latest.data <= committed'
      /\ RunInv(p)
  BY DEF IInv, RestoreInv, RestorePoint, DirInv
<1>3. committed' = committed BY StepFrame DEF IInv
<1>4. dir.latest.data <= dir'.latest.data BY <1>2, StepForward DEF IInv
<1>5. CASE acked' = acked
  <2>1. Promise!Save BY <1>1, <1>2, <1>3, <1>4, <1>5 DEF Promise!Save
  <2> QED BY <2>1 DEF Promise!Next
<1>6. CASE acked' # acked
  <2>1. Unlock(p)
    BY <1>6 DEF Step, From, Writes, Assigns, Leaves, flock, TakeStamp, StampTaken, RetakeStamp,
       StartDump, EndDump, DumpFails, VerifyPasses, VerifyFails, Publish, WriteDumpSha, StartCopy,
       EndCopy, NoTarget, Rename, TruncateSha, WriteSha, Cleanup, Prune, OrphanExit
  <2>2. dir' = dir /\ acked' = run[p].start /\ acked < run[p].start /\ run[p].start \in Nat
    BY <1>1, <1>6, <2>1 DEF Unlock, Run
  <2>3. Promise!Acknowledge BY <1>1, <1>2, <1>3, <2>2 DEF Promise!Acknowledge
  <2> QED BY <2>3 DEF Promise!Next
<1>7. QED BY <1>5, <1>6

\* As long as no command fails, the directory implements DurableBackup: signals, kills,
\* crashes and concurrent runs are invisible but for a restore point that moves forward.
THEOREM Refinement ==
    ASSUME MaxFaults = 0
    PROVE  Spec => ImplementsDurableBackup
<1>1. Init => Promise!Init
  BY DEF Init, Promise!Init, RestorePoint, RestoreAccepts, Exists, NoFile
<1>2. IInv /\ IInv' /\ NoFaults /\ NoFaults' /\ [Next]_vars => [Promise!Next]_(Promise!vars)
  <2> SUFFICES ASSUME IInv, IInv', NoFaults, NoFaults', [Next]_vars
               PROVE  [Promise!Next]_(Promise!vars)
    OBVIOUS
  <2>1. CASE \E p \in Procs : Step(p) BY <2>1, StepPromise
  <2>2. CASE Commit
    BY <2>2 DEF Commit, procs, ghosts, Promise!Next, Promise!Commit, RestorePoint,
       RestoreAccepts, ShaAgrees, MatchesTimestamped
  <2>3. CASE UNCHANGED <<committed, dir, acked>>
    BY <2>3 DEF Promise!vars, RestorePoint, RestoreAccepts, ShaAgrees, MatchesTimestamped
  <2> QED BY <2>1, <2>2, <2>3
          DEF Next, Tick, run_backup_once, LoseBytes, CommandFails, Kill, Signal,
              handle_shutdown, ExitOnSignal, Restart, Crash, Assigns, From, Trap, Leaves,
              vars, procs, ghosts
<1>3. QED BY <1>1, <1>2, Invariance, FaultFree, PTL
          DEF Spec, ImplementsDurableBackup, Promise!Spec
=============================================================================
