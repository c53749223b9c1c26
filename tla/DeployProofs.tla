----------------------------- MODULE DeployProofs -----------------------------
(***************************************************************************)
(* What FormalDeploy guarantees for any number of commits, runs, calls that*)
(* fail and changes by others: each safety property has an invariant of its*)
(* own above the types, what a run knows at each of its calls. And that    *)
(* SpaceBundle accepts only what the commit holds, for any allowlist, any  *)
(* repository and any number of exports and edits.                         *)
(***************************************************************************)
EXTENDS FormalDeploy, SpaceBundle, SequenceTheorems, TLAPS

-----------------------------------------------------------------------------
(* The formal deployment. *)

USE DeployAssumption

-----------------------------------------------------------------------------
(* The types. *)

PCs == Upload \cup Binding \cup Ended \cup {"restart", "poll"}

\* A run that only goes on keeps its type, and so does one whose task, selection or
\* outdated mark changes with it.
LEMMA RunMoveType ==
    ASSUME run \in Run, NEW pc \in PCs
    PROVE  [run EXCEPT !.pc = pc] \in Run
BY DEF Run, PCs

\* A run that goes on to another remote call keeps its type.
LEMMA TaskType ==
    ASSUME run \in Run, NEW pc \in PCs, NEW task \in {"upload", "uploaded", "bind", "rebind", "bound", "reboot"}
    PROVE  [run EXCEPT !.pc = pc, !.task = task] \in Run
BY DEF Run, PCs

\* So does one that notes the revision it has deployed.
LEMMA DeployedType ==
    ASSUME run \in Run, NEW pc \in PCs, NEW n \in Nat
    PROVE  [run EXCEPT !.pc = pc, !.deployed = n] \in Run
BY DEF Run, PCs

\* So does one that goes on or fails by a condition.
LEMMA GoOnType ==
    ASSUME run \in Run, NEW to \in PCs, NEW holds, GoOn(holds, to)
    PROVE  run' \in Run
<1>1. (IF holds THEN to ELSE "failed") \in PCs BY DEF PCs, Ended
<1>2. QED BY <1>1, RunMoveType DEF GoOn

\* Using up a bound keeps the counters in it.
LEMMA SpendType ==
    ASSUME DeployTypeOK, NEW what \in {"runs", "drifts", "faults"}, DeploySpend(what)
    PROVE  deploySpent' \in [runs : 0..MaxDeploys, drifts : 0..MaxDrifts, faults : 0..MaxCallFaults]
BY DEF DeployTypeOK, DeploySpend, DeployBudget

\* The history of the Space is not empty, and a commit more is a history.
LEMMA HistoryType ==
    ASSUME DeployTypeOK, NEW c \in SpaceCommit, space' = Append(space, c)
    PROVE  space' \in Seq(SpaceCommit) /\ space' # <<>> /\ Len(space') = Len(space) + 1
BY DEF DeployTypeOK

\* The invariant holds before the first run.
LEMMA InitTypes == DeployInit => DeployTypeOK
<1> SUFFICES ASSUME DeployInit PROVE DeployTypeOK OBVIOUS
<1> USE DEF DeployInit
<1>1. space \in Seq(SpaceCommit) /\ space # <<>> BY DEF SpaceCommit
<1>2. run \in Run BY DEF Run, Ended, Selections
<1>3. main \in 1..MaxMain OBVIOUS
<1>4. settings \in [selection : Selections, expected : Artifacts] BY DEF Selections
<1>5. manifests \in [Selections -> [ref : Artifacts, tag : BOOLEAN]] OBVIOUS
<1>6. visibility \in [protected : BOOLEAN, private : [Selections -> BOOLEAN]] OBVIOUS
<1>7. runtime \in [stage : {"RUNNING", "BUILDING", "BUILD_ERROR"}, sha : Nat, requested : BOOLEAN]
  OBVIOUS
<1>8. QED BY <1>1, <1>2, <1>3, <1>4, <1>5, <1>6, <1>7 DEF DeployTypeOK

\* A step of the run keeps the types.
LEMMA RunTypes == ASSUME DeployTypeOK, RunStep PROVE DeployTypeOK'
<1> USE DEF remote
<1>t. run \in Run /\ Tip \in Nat BY DEF DeployTypeOK, Tip
<1>g. \A p \in PCs : [run EXCEPT !.pc = p] \in Run BY <1>t, RunMoveType
<1>p. {"failed", "passed", "poll", "restart", "head", "selection", "manifest", "settings", "tail",
       "write", "visible", "private", "preflight", "list", "commit", "readback"} \subseteq PCs
  BY DEF PCs, Upload, Binding, Ended
<1>s. run' \in Run /\ UNCHANGED <<main, space, settings, manifests, visibility, runtime>>
      /\ held' \subseteq Facts /\ deploySpent' = deploySpent
        => DeployTypeOK'
  BY DEF DeployTypeOK
<1>1. CASE Authorize \/ CheckSpaceVisibility \/ ListPaths
  <2>1. run' \in Run BY <1>1, <1>t, <1>p, GoOnType DEF Authorize, CheckSpaceVisibility, ListPaths
  <2>2. QED BY <1>1, <2>1, <1>s DEF Authorize, CheckSpaceVisibility, ListPaths, DeployTypeOK
<1>2. CASE CheckBucketVisibility
  <2> DEFINE private == visibility.private["release"] /\ visibility.private[settings.selection]
  <2>1. run' \in Run
    <3>1. CASE private
      <4>1. run' = IF run.task = "upload" THEN [run EXCEPT !.pc = "preflight"]
                   ELSE [run EXCEPT !.pc = "head", !.task = "bind"]
        BY <1>2, <3>1 DEF CheckBucketVisibility
      <4>2. [run EXCEPT !.pc = "preflight"] \in Run BY <1>p, <1>g
      <4>3. [run EXCEPT !.pc = "head", !.task = "bind"] \in Run BY <1>t, <1>p, TaskType
      <4>4. QED BY <4>1, <4>2, <4>3
    <3>2. CASE ~private
      <4>1. GoOn(FALSE, "failed") BY <1>2, <3>2 DEF CheckBucketVisibility
      <4>2. QED BY <4>1, <1>t, <1>p, GoOnType
    <3>3. QED BY <3>1, <3>2
  <2>2. QED BY <1>2, <2>1, <1>s DEF CheckBucketVisibility, DeployTypeOK
<1>3. CASE Preflight
  <2>1. run' \in Run BY <1>3, <1>t DEF Preflight, Upload, Run
  <2>2. QED BY <1>3, <2>1, <1>s DEF Preflight, DeployTypeOK
<1>4. CASE Commit
  <2>1. UNCHANGED <<main, settings, manifests, visibility, runtime, held>> BY <1>4 DEF Commit
  <2>r. run' = [run EXCEPT !.pc = "readback", !.deployed = Tip + 1] \/ GoOn(FALSE, "failed")
    BY <1>4 DEF Commit
  <2>2. run' \in Run
    <3>1. CASE run' = [run EXCEPT !.pc = "readback", !.deployed = Tip + 1]
      <4>1. Tip + 1 \in Nat BY <1>t
      <4>2. "readback" \in PCs BY <1>p
      <4>3. QED BY <4>1, <4>2, <3>1, <1>t, DeployedType
    <3>2. CASE GoOn(FALSE, "failed") BY <3>2, <1>t, <1>p, GoOnType
    <3>3. QED BY <3>1, <3>2, <2>r
  <2>3. space' \in Seq(SpaceCommit) /\ space' # <<>>
    <3>1. CASE UNCHANGED space BY <3>1 DEF DeployTypeOK
    <3>2. CASE space' = SpaceAfterUpload
      <4>1. space[Tip] \in SpaceCommit BY DEF DeployTypeOK, Tip
      <4>2. [source |-> run.source, extra |-> space[Tip].extra, by |-> "run"] \in SpaceCommit
        BY <4>1, <1>t DEF SpaceCommit, Run
      <4>3. QED BY <3>2, <4>2, HistoryType DEF SpaceAfterUpload
    <3>3. QED BY <1>4, <3>1, <3>2 DEF Commit
  <2>4. deploySpent' \in [runs : 0..MaxDeploys, drifts : 0..MaxDrifts, faults : 0..MaxCallFaults]
    <3>1. UNCHANGED deploySpent \/ DeploySpend("faults") BY <1>4 DEF Commit
    <3>2. QED BY <3>1, SpendType DEF DeployTypeOK
  <2>5. QED BY <2>1, <2>2, <2>3, <2>4 DEF DeployTypeOK
<1>5. CASE Readback
  <2>1. run' \in Run BY <1>5, <1>t DEF Readback, Upload, Ended, Run
  <2>2. QED BY <1>5, <2>1, <1>s DEF Readback, DeployTypeOK
<1>6. CASE RequireRevision \/ RequireRevisionAgain
  <2>a. AfterRevision \in Run
    <3>1. AfterRevision \in {[run EXCEPT !.pc = "write"], [run EXCEPT !.pc = "head", !.task = "bound"],
                             [run EXCEPT !.pc = "head", !.task = "reboot"], [run EXCEPT !.pc = "restart"]}
      BY <1>t DEF AfterRevision, Run
    <3>2. [run EXCEPT !.pc = "write"] \in Run /\ [run EXCEPT !.pc = "restart"] \in Run BY <1>p, <1>g
    <3>3. [run EXCEPT !.pc = "head", !.task = "bound"] \in Run BY <1>p, <1>t, TaskType
    <3>4. [run EXCEPT !.pc = "head", !.task = "reboot"] \in Run BY <1>p, <1>t, TaskType
    <3>5. QED BY <3>1, <3>2, <3>3, <3>4
  <2>1. run' \in Run BY <1>6, <2>a, <1>t, <1>p, GoOnType DEF RequireRevision, RequireRevisionAgain
  <2>2. held' \subseteq Facts BY <1>6 DEF RequireRevision, RequireRevisionAgain, DeployTypeOK, Facts
  <2>3. QED BY <1>6, <2>1, <2>2, <1>s DEF RequireRevision, RequireRevisionAgain
<1>7. CASE ReadSelection
  <2>1. run' \in Run BY <1>7, <1>g, <1>t DEF ReadSelection, Binding, Ended, Run, DeployTypeOK
  <2>2. held' \subseteq Facts BY <1>7 DEF ReadSelection, DeployTypeOK, Facts
  <2>3. QED BY <1>7, <2>1, <2>2, <1>s DEF ReadSelection
<1>8. CASE ReadManifest
  <2>1. run' \in Run BY <1>8, <1>t, <1>p, GoOnType DEF ReadManifest
  <2>2. held' \subseteq Facts BY <1>8 DEF ReadManifest, DeployTypeOK, Facts, Note
  <2>3. QED BY <1>8, <2>1, <2>2, <1>s DEF ReadManifest
<1>9. CASE ReadSettings
  <2>a. AfterSettings \in Run
    <3>1. CASE run.task = "rebind" BY <3>1, <1>t, <1>p DEF AfterSettings, Run, Binding
    <3>2. CASE run.task # "rebind"
      <4>1. AfterSettings \in {[run EXCEPT !.pc = "head", !.task = "bound"],
                [run EXCEPT !.pc = "selection", !.task = "rebind"],
                [run EXCEPT !.pc = "tail"], [run EXCEPT !.pc = "failed"]}
        BY <3>2 DEF AfterSettings
      <4>2. [run EXCEPT !.pc = "tail"] \in Run /\ [run EXCEPT !.pc = "failed"] \in Run BY <1>p, <1>g
      <4>3. [run EXCEPT !.pc = "head", !.task = "bound"] \in Run BY <1>p, <1>t, TaskType
      <4>4. [run EXCEPT !.pc = "selection", !.task = "rebind"] \in Run BY <1>p, <1>t, TaskType
      <4>5. QED BY <4>1, <4>2, <4>3, <4>4
    <3>3. QED BY <3>1, <3>2
  <2>1. run' \in Run BY <1>9, <2>a, <1>t, <1>p, GoOnType DEF ReadSettings
  <2>2. held' \subseteq Facts BY <1>9 DEF ReadSettings, DeployTypeOK, Facts, Note
  <2>3. QED BY <1>9, <2>1, <2>2, <1>s DEF ReadSettings
<1>10. CASE WriteVariable
  <2> USE <1>10 DEF WriteVariable
  <2>1. run' \in Run BY <1>t, <1>p, GoOnType, TaskType
  <2>2. settings' \in [selection : Selections, expected : Artifacts] BY <1>t DEF DeployTypeOK, Run
  <2>3. UNCHANGED deploySpent \/ DeploySpend("faults") OBVIOUS
  <2>4. QED BY <2>1, <2>2, <2>3, SpendType DEF DeployTypeOK
<1>11. CASE RequestRestart
  <2> USE <1>11 DEF RequestRestart, Answered
  <2>1. run' \in Run BY <1>t, <1>p, GoOnType
  <2>2. runtime' \in [stage : {"RUNNING", "BUILDING", "BUILD_ERROR"}, sha : Nat, requested : BOOLEAN]
    BY DEF DeployTypeOK
  <2>3. UNCHANGED deploySpent \/ DeploySpend("faults") OBVIOUS
  <2>4. QED BY <2>1, <2>2, <2>3, SpendType DEF DeployTypeOK
<1>12. CASE Poll
  <2>1. run' \in Run BY <1>12, <1>t DEF Poll, DeadlinePassed, Ended, Run
  <2>2. QED BY <1>12, <2>1, <1>s DEF Poll, DeployTypeOK
<1>13. QED
  BY <1>1, <1>2, <1>3, <1>4, <1>5, <1>6, <1>7, <1>8, <1>9, <1>10, <1>11, <1>12 DEF RunStep

\* What others and the platform do keeps the types, and so do a dispatch and a
\* failed call.
LEMMA OtherTypes ==
    ASSUME DeployTypeOK,
           \/ \E source \in 1..main, artifact \in Artifacts : Dispatch(source, artifact)
           \/ CallFails \/ PushToMain \/ PushToSpace \/ ChangeSettings \/ PublishManifest
           \/ ChangeVisibility \/ StartBuild \/ EndBuild
    PROVE  DeployTypeOK'
<1> USE DEF remote
<1>1. CASE \E source \in 1..main, artifact \in Artifacts : Dispatch(source, artifact)
  <2>1. PICK source \in 1..main, artifact \in Artifacts : Dispatch(source, artifact) BY <1>1
  <2>2. source \in 0..MaxMain BY DEF DeployTypeOK
  <2>3. run' \in Run
    <3>1. run \in Run BY DEF DeployTypeOK
    <3>2. 0 \in 0..MaxPolls OBVIOUS
    <3>3. QED BY <2>1, <2>2, <3>1, <3>2 DEF Dispatch, Run, Upload
  <2>4. QED BY <2>1, <2>3, SpendType DEF Dispatch, DeployTypeOK
<1>2. CASE CallFails
  <2>1. run' \in Run BY <1>2, GoOnType DEF CallFails, DeployTypeOK, PCs, Ended
  <2>2. QED BY <1>2, <2>1, SpendType DEF CallFails, DeployTypeOK
<1>3. CASE PushToMain BY <1>3 DEF PushToMain, DeployTypeOK
<1>4. CASE PushToSpace
  <2>1. PICK extra \in BOOLEAN :
            space' = Append(space, [source |-> 0, extra |-> extra, by |-> "other"])
    BY <1>4 DEF PushToSpace
  <2>2. [source |-> 0, extra |-> extra, by |-> "other"] \in SpaceCommit BY DEF SpaceCommit
  <2>3. QED BY <1>4, <2>1, <2>2, HistoryType, SpendType DEF PushToSpace, DeployTypeOK
<1>5. CASE ChangeSettings
  <2>1. settings' \in [selection : Selections, expected : Artifacts]
    BY <1>5 DEF ChangeSettings, DeployTypeOK
  <2>2. QED BY <1>5, <2>1, SpendType DEF ChangeSettings, DeployTypeOK
<1>6. CASE PublishManifest
  <2>1. manifests' \in [Selections -> [ref : Artifacts, tag : BOOLEAN]]
    BY <1>6 DEF PublishManifest, DeployTypeOK
  <2>2. QED BY <1>6, <2>1, SpendType DEF PublishManifest, DeployTypeOK
<1>7. CASE ChangeVisibility
  <2>1. visibility' \in [protected : BOOLEAN, private : [Selections -> BOOLEAN]]
    <3>1. CASE visibility' = [visibility EXCEPT !.protected = ~@] BY <3>1 DEF DeployTypeOK
    <3>2. CASE \E selection \in Selections :
                   visibility' = [visibility EXCEPT !.private[selection] = ~@]
      <4>1. PICK selection \in Selections :
                visibility' = [visibility EXCEPT !.private[selection] = ~@]
        BY <3>2
      <4> DEFINE private == [visibility.private EXCEPT ![selection] = ~@]
      <4>2. private \in [Selections -> BOOLEAN] BY DEF DeployTypeOK
      <4>3. visibility' = [visibility EXCEPT !.private = private] BY <4>1
      <4> HIDE DEF private
      <4>4. QED BY <4>2, <4>3 DEF DeployTypeOK
    <3>3. QED BY <1>7, <3>1, <3>2 DEF ChangeVisibility
  <2>2. QED BY <1>7, <2>1, SpendType DEF ChangeVisibility, DeployTypeOK
<1>8. CASE StartBuild BY <1>8 DEF StartBuild, DeployTypeOK, Tip
<1>9. CASE EndBuild BY <1>9 DEF EndBuild, DeployTypeOK
<1>10. QED BY <1>1, <1>2, <1>3, <1>4, <1>5, <1>6, <1>7, <1>8, <1>9

\* The variables keep their types.
THEOREM DeployTypes == DeploySpec => []DeployTypeOK
<1>1. DeployTypeOK /\ [DeployNext]_deployVars => DeployTypeOK'
  <2> SUFFICES ASSUME DeployTypeOK, [DeployNext]_deployVars PROVE DeployTypeOK' OBVIOUS
  <2>1. CASE DeployNext BY <2>1, RunTypes, OtherTypes DEF DeployNext
  <2>2. CASE UNCHANGED deployVars BY <2>2 DEF deployVars, remote, DeployTypeOK
  <2>3. QED BY <2>1, <2>2
<1>2. QED BY <1>1, InitTypes, PTL DEF DeploySpec

-----------------------------------------------------------------------------
(* CommitsAreExact *)

\* From the listing on, the revision that the run saw is one of the history, and
\* past the listing it has no path outside the allowlist.
ExactInv ==
    /\ run.pc \notin Ended => run.source > 0
    /\ run.pc \in {"list", "commit"} => run.preflight \in DOMAIN space
    /\ run.pc = "commit" => ~space[run.preflight].extra
    /\ CommitsAreExact

\* A revision stays what it is when the history grows.
LEMMA HistoryStays ==
    ASSUME DeployTypeOK, NEW c, space' = Append(space, c)
    PROVE  /\ DOMAIN space' = 1..(Tip + 1) /\ DOMAIN space = 1..Tip /\ Tip \in Nat \ {0}
           /\ \A i \in DOMAIN space : space'[i] = space[i]
           /\ space'[Tip + 1] = c
BY DEF DeployTypeOK, Tip

\* The upload is a compare-and-swap: where the run lists a revision without extra
\* paths and commits only on top of it, what it commits has none either.
LEMMA ExactStep == ASSUME DeployTypeOK, ExactInv, DeployNext PROVE ExactInv'
<1> USE DEF remote
<1>t. run \in Run /\ Tip \in Nat \ {0} /\ DOMAIN space = 1..Tip BY DEF DeployTypeOK, Tip
<1>1. CASE \E source \in 1..main, artifact \in Artifacts : Dispatch(source, artifact)
  BY <1>1, <1>t DEF Dispatch, ExactInv, CommitsAreExact, Run, DeployTypeOK, Ended
<1>2. CASE CallFails
  BY <1>2, <1>t DEF CallFails, GoOn, ExactInv, CommitsAreExact, Run, Ended
<1>3. CASE UNCHANGED <<space, run>>
  BY <1>3 DEF ExactInv, CommitsAreExact
<1>4. CASE PushToSpace
  <2>1. PICK extra \in BOOLEAN :
            space' = Append(space, [source |-> 0, extra |-> extra, by |-> "other"])
    BY <1>4 DEF PushToSpace
  <2>2. run' = run BY <1>4 DEF PushToSpace
  <2>3. QED BY <2>1, <2>2, <1>t, HistoryStays DEF ExactInv, CommitsAreExact
<1>5. CASE Preflight
  BY <1>5, <1>t DEF Preflight, ExactInv, CommitsAreExact, Run, Ended
<1>6. CASE ListPaths
  BY <1>6, <1>t DEF ListPaths, GoOn, ExactInv, CommitsAreExact, Run, Ended
<1>7. CASE Commit
  <2>1. CASE space' = space
    <3>1. run'.pc = "failed" BY <1>7, <2>1, <1>t, HistoryStays DEF Commit, SpaceAfterUpload, GoOn, Run
    <3>2. QED BY <2>1, <3>1 DEF ExactInv, CommitsAreExact, Ended
  <2>2. CASE space' = SpaceAfterUpload /\ ParentIsHead
    <3>1. ~space[Tip].extra BY <2>2, <1>7 DEF ExactInv, Commit, ParentIsHead
    <3>2. run.source > 0 BY <1>7 DEF ExactInv, Commit, Ended
    <3>3. run'.pc \in {"readback", "failed"} /\ run'.source = run.source
      BY <1>7, <1>t DEF Commit, GoOn, Run
    <3>4. CommitsAreExact'
      BY <2>2, <3>1, <3>2, <1>t, HistoryStays DEF SpaceAfterUpload, ExactInv, CommitsAreExact
    <3>5. QED BY <3>2, <3>3, <3>4 DEF ExactInv, Ended
  <2>3. QED BY <1>7, <2>1, <2>2 DEF Commit
<1>8. CASE /\ UNCHANGED space /\ run'.source = run.source /\ run'.pc \notin {"list", "commit"}
           /\ run.pc \notin Ended
  BY <1>8 DEF ExactInv, CommitsAreExact
<1>9. CASE Authorize \/ CheckSpaceVisibility \/ CheckBucketVisibility \/ Readback
  BY <1>9, <1>8, <1>t
  DEF Authorize, CheckSpaceVisibility, CheckBucketVisibility, Readback, GoOn, Run, Ended
<1>10. CASE RequireRevision \/ ReadSelection \/ ReadManifest \/ RequireRevisionAgain
  BY <1>10, <1>8, <1>t
  DEF RequireRevision, ReadSelection, ReadManifest, RequireRevisionAgain, AfterRevision, GoOn, Run, Ended
<1>11. CASE ReadSettings \/ WriteVariable \/ RequestRestart \/ Poll
  BY <1>11, <1>8, <1>t
  DEF ReadSettings, AfterSettings, WriteVariable, RequestRestart, Answered, Poll, GoOn, Run, Ended
<1>12. CASE PushToMain \/ ChangeSettings \/ PublishManifest \/ ChangeVisibility \/ StartBuild \/ EndBuild
  BY <1>12, <1>3
  DEF PushToMain, ChangeSettings, PublishManifest, ChangeVisibility, StartBuild, EndBuild
<1>13. QED
  BY <1>1, <1>2, <1>4, <1>5, <1>6, <1>7, <1>9, <1>10, <1>11, <1>12 DEF DeployNext, RunStep

\* What a run commits is the bundle and nothing else, for any number of pushes
\* between its listing and its commit.
THEOREM DeployCommitsAreExact == DeploySpec => []CommitsAreExact
<1>1. DeployInit => ExactInv BY DEF DeployInit, ExactInv, CommitsAreExact, Ended
<1>2. DeployTypeOK /\ ExactInv /\ [DeployNext]_deployVars => ExactInv'
  <2> SUFFICES ASSUME DeployTypeOK, ExactInv, [DeployNext]_deployVars PROVE ExactInv' OBVIOUS
  <2>1. CASE DeployNext BY <2>1, ExactStep
  <2>2. CASE UNCHANGED deployVars BY <2>2 DEF deployVars, remote, ExactInv, CommitsAreExact
  <2>3. QED BY <2>1, <2>2
<1>3. ExactInv => CommitsAreExact BY DEF ExactInv
<1>4. QED BY <1>1, <1>2, <1>3, DeployTypes, PTL DEF DeploySpec

-----------------------------------------------------------------------------
(* StepsAreVerified *)

\* The history only grows, so what was read under an older HEAD than the deployed
\* revision can never pass the comparison with it that follows the readings.
VerifiedInv ==
    /\ run.deployed <= Tip
    /\ run.pc = "settings" /\ Tip = run.deployed => "manifest" \in held
    /\ run.pc = "tail" /\ Tip = run.deployed => held = Facts
    /\ StepsAreVerified

\* A run begins with a revision of the history at most.
LEMMA VerifiedInit == DeployInit => VerifiedInv
BY DEF DeployInit, VerifiedInv, StepsAreVerified, Tip

\* The reading of the manifest and of the Variables.
LEMMA VerifiedReading ==
    ASSUME DeployTypeOK, VerifiedInv, ReadManifest \/ ReadSettings
    PROVE  VerifiedInv'
<1> USE DEF remote
<1>t. run \in Run /\ Tip \in Nat /\ held \subseteq Facts BY DEF DeployTypeOK, Tip
<1>1. CASE ReadManifest
  <2>1. run'.pc \in {"settings", "failed"} /\ run'.deployed = run.deployed /\ Tip' = Tip
    BY <1>1, <1>t DEF ReadManifest, GoOn, Run, Tip
  <2>2. Tip = run.deployed => "manifest" \in held' BY <1>1 DEF ReadManifest, Note
  <2>3. QED BY <2>1, <2>2 DEF VerifiedInv, StepsAreVerified
<1>2. CASE ReadSettings
  <2>1. run'.pc \in {"head", "selection", "tail", "failed"} /\ run'.deployed = run.deployed /\ Tip' = Tip
    <3>1. CASE settings.selection = run.selection
      <4>1. run' = AfterSettings /\ UNCHANGED space BY <1>2, <3>1 DEF ReadSettings
      <4>2. AfterSettings.pc \in {"head", "selection", "tail", "failed"}
            /\ AfterSettings.deployed = run.deployed
        BY <1>t DEF AfterSettings, Run
      <4>3. QED BY <4>1, <4>2 DEF Tip
    <3>2. CASE settings.selection # run.selection
      BY <1>2, <3>2, <1>t DEF ReadSettings, GoOn, Run, Tip
    <3>3. QED BY <3>1, <3>2
  <2>2. run'.pc = "tail" /\ Tip = run.deployed => held' = Facts
    <3>1. run'.pc = "tail" => settings.selection = run.selection
      BY <1>2, <1>t DEF ReadSettings, GoOn, Run
    <3>2. Tip = run.deployed => "manifest" \in held BY <1>2 DEF VerifiedInv, ReadSettings
    <3>3. QED BY <1>2, <3>1, <3>2, <1>t DEF ReadSettings, Note, Facts
  <2>3. QED BY <2>1, <2>2 DEF VerifiedInv, StepsAreVerified
<1>3. QED BY <1>1, <1>2

\* What each step does to the position of the run and to the history.
LEMMA VerifiedStep == ASSUME DeployTypeOK, VerifiedInv, DeployNext PROVE VerifiedInv'
<1> USE DEF remote
<1>t. run \in Run /\ Tip \in Nat \ {0} /\ held \subseteq Facts BY DEF DeployTypeOK, Tip
<1> DEFINE Done == {"write", "restart", "poll", "passed"}
<1>a. CASE /\ run'.deployed = run.deployed /\ UNCHANGED space
           /\ run'.pc \notin {"settings", "tail"} \cup Done
  BY <1>a DEF VerifiedInv, StepsAreVerified, Tip
<1>b. CASE UNCHANGED <<space, run, held>>
  BY <1>b DEF VerifiedInv, StepsAreVerified, Tip
<1>c. CASE /\ run'.deployed = run.deployed /\ UNCHANGED <<space, held>>
           /\ run.pc \in Done /\ run'.pc \notin {"settings", "tail"}
  BY <1>c DEF VerifiedInv, StepsAreVerified, Tip
<1>1. CASE \E source \in 1..main, artifact \in Artifacts : Dispatch(source, artifact)
  BY <1>1, <1>a, <1>t DEF Dispatch, Run
<1>2. CASE CallFails BY <1>2, <1>a, <1>t DEF CallFails, GoOn, Run
<1>3. CASE PushToSpace
  <2>1. Tip' = Tip + 1 BY <1>3, <1>t, HistoryStays DEF PushToSpace, Tip, DeployTypeOK
  <2>2. UNCHANGED <<run, held>> BY <1>3 DEF PushToSpace
  <2>3. QED BY <2>1, <2>2, <1>t DEF VerifiedInv, StepsAreVerified, Run
<1>4. CASE Commit
  <2>1. CASE UNCHANGED space /\ run'.deployed = run.deployed /\ run'.pc = "failed"
    BY <2>1, <1>a
  <2>2. CASE space' = SpaceAfterUpload
    <3>1. Tip' = Tip + 1 BY <2>2, <1>t DEF SpaceAfterUpload, Tip, DeployTypeOK
    <3>2. run'.deployed \in {Tip + 1, run.deployed} /\ run'.pc \in {"readback", "failed"}
      BY <1>4, <1>t DEF Commit, GoOn, Run
    <3>3. QED BY <3>1, <3>2, <1>t DEF VerifiedInv, StepsAreVerified, Run
  <2>3. QED BY <1>4, <2>1, <2>2, <1>t DEF Commit, GoOn, Run
<1>5. CASE Authorize \/ CheckSpaceVisibility \/ CheckBucketVisibility
  BY <1>5, <1>a, <1>t DEF Authorize, CheckSpaceVisibility, CheckBucketVisibility, GoOn, Run
<1>6. CASE Preflight \/ ListPaths \/ Readback
  BY <1>6, <1>a, <1>t DEF Preflight, ListPaths, Readback, GoOn, Run
<1>7. CASE RequireRevision \/ ReadSelection
  BY <1>7, <1>a, <1>t DEF RequireRevision, ReadSelection, GoOn, Run
<1>8. CASE ReadManifest \/ ReadSettings BY <1>8, VerifiedReading
<1>9. CASE RequireRevisionAgain
  <2>1. CASE Tip = run.deployed
    <3>1. held' = Facts BY <1>9, <2>1 DEF RequireRevisionAgain, VerifiedInv
    <3>2. UNCHANGED space /\ run' = AfterRevision BY <1>9, <2>1 DEF RequireRevisionAgain
    <3>3. run'.deployed = run.deployed /\ run'.pc \in {"write", "head", "restart"}
      BY <3>2, <1>t DEF AfterRevision, Run
    <3>4. QED BY <3>1, <3>2, <3>3 DEF VerifiedInv, StepsAreVerified, Tip
  <2>2. CASE Tip # run.deployed
    BY <1>9, <2>2, <1>a, <1>t DEF RequireRevisionAgain, GoOn, Run
  <2>3. QED BY <2>1, <2>2
<1>10. CASE WriteVariable \/ RequestRestart
  BY <1>10, <1>c, <1>t DEF WriteVariable, RequestRestart, Answered, GoOn, Run
<1>11. CASE Poll
  BY <1>11, <1>c, <1>t DEF Poll, Run
<1>12. CASE PushToMain \/ ChangeSettings \/ PublishManifest \/ ChangeVisibility \/ StartBuild \/ EndBuild
  BY <1>12, <1>b
  DEF PushToMain, ChangeSettings, PublishManifest, ChangeVisibility, StartBuild, EndBuild
<1>13. QED
  BY <1>1, <1>2, <1>3, <1>4, <1>5, <1>6, <1>7, <1>8, <1>9, <1>10, <1>11, <1>12
  DEF DeployNext, RunStep

\* The Variable is written, and the Space restarted, only on a manifest and Variables
\* that were read while the deployed revision was HEAD.
THEOREM DeployStepsAreVerified == DeploySpec => []StepsAreVerified
<1>1. DeployTypeOK /\ VerifiedInv /\ [DeployNext]_deployVars => VerifiedInv'
  <2> SUFFICES ASSUME DeployTypeOK, VerifiedInv, [DeployNext]_deployVars PROVE VerifiedInv' OBVIOUS
  <2>1. CASE DeployNext BY <2>1, VerifiedStep
  <2>2. CASE UNCHANGED deployVars BY <2>2 DEF deployVars, remote, VerifiedInv, StepsAreVerified, Tip
  <2>3. QED BY <2>1, <2>2
<1>2. VerifiedInv => StepsAreVerified BY DEF VerifiedInv
<1>3. QED BY <1>1, <1>2, VerifiedInit, DeployTypes, PTL DEF DeploySpec

-----------------------------------------------------------------------------
(* DeploysForward *)

\* A run that may still upload was authorized when its commit was the last one of
\* main, and nothing newer was deployed since.
MayUpload ==
    \/ run.pc \in {"preflight", "list", "commit"}
    \/ run.pc \in {"visible", "private"} /\ run.task = "upload"

ForwardInv ==
    /\ run.source <= main
    /\ \A i \in DOMAIN space : space[i].by = "run" => space[i].source <= main
    /\ MayUpload =>
           \A i \in DOMAIN space : space[i].by = "run" => space[i].source <= run.source
    /\ DeploysForward

\* Nothing is deployed before the first run.
LEMMA ForwardInit == DeployInit => ForwardInv
BY DEF MayUpload, DeployInit, ForwardInv, DeploysForward

\* Only the commit extends what runs deployed.
LEMMA ForwardStep == ASSUME DeployTypeOK, ForwardInv, DeployNext PROVE ForwardInv'
<1> USE DEF remote, MayUpload
<1>t. run \in Run /\ main \in Nat /\ Tip \in Nat \ {0} /\ DOMAIN space = 1..Tip
  BY DEF DeployTypeOK, Tip
<1>a. CASE /\ UNCHANGED <<main, space>> /\ run'.source = run.source
           /\ run'.pc \notin {"visible", "private", "preflight", "list", "commit"}
  BY <1>a DEF ForwardInv, DeploysForward
<1>b. CASE UNCHANGED <<main, space, run>>
  BY <1>b DEF ForwardInv, DeploysForward
<1>c. CASE /\ UNCHANGED <<main, space>> /\ run'.source = run.source /\ run'.task = run.task
           /\ \/ run.pc = "visible" /\ run'.pc = "private"
              \/ run.pc = "private" /\ run'.pc = "preflight" /\ run.task = "upload"
              \/ run.pc = "preflight" /\ run'.pc = "list"
              \/ run.pc = "list" /\ run'.pc = "commit"
  BY <1>c DEF ForwardInv, DeploysForward
<1>1. CASE \E source \in 1..main, artifact \in Artifacts : Dispatch(source, artifact)
  BY <1>1, <1>t DEF Dispatch, Run, ForwardInv, DeploysForward
<1>2. CASE CallFails BY <1>2, <1>a, <1>t DEF CallFails, GoOn, Run
<1>3. CASE PushToMain
  <2>1. main' = main + 1 /\ UNCHANGED <<space, run>> BY <1>3 DEF PushToMain
  <2>2. \A i \in DOMAIN space : space[i].source \in Nat
    <3>1. \A i \in DOMAIN space : space[i] \in SpaceCommit BY DEF DeployTypeOK
    <3>2. QED BY <3>1 DEF SpaceCommit
  <2>3. QED BY <2>1, <2>2, <1>t DEF ForwardInv, DeploysForward, Run
<1>4. CASE PushToSpace
  <2>1. PICK extra \in BOOLEAN :
            space' = Append(space, [source |-> 0, extra |-> extra, by |-> "other"])
    BY <1>4 DEF PushToSpace
  <2>2. UNCHANGED <<main, run>> BY <1>4 DEF PushToSpace
  <2>3. QED BY <2>1, <2>2, <1>t, HistoryStays DEF ForwardInv, DeploysForward
<1>5. CASE Authorize
  <2>1. CASE run.source = main
    BY <1>5, <2>1, <1>t DEF Authorize, GoOn, Run, ForwardInv, DeploysForward
  <2>2. CASE run.source # main
    BY <1>5, <2>2, <1>a, <1>t DEF Authorize, GoOn, Run
  <2>3. QED BY <2>1, <2>2
<1>6. CASE CheckSpaceVisibility \/ Preflight \/ ListPaths
  BY <1>6, <1>a, <1>c, <1>t DEF CheckSpaceVisibility, Preflight, ListPaths, GoOn, Run
<1>7. CASE CheckBucketVisibility
  BY <1>7, <1>a, <1>c, <1>t DEF CheckBucketVisibility, GoOn, Run
<1>8. CASE Commit
  <2>1. CASE UNCHANGED <<main, space>> /\ run'.source = run.source /\ run'.pc = "failed"
    BY <2>1, <1>a
  <2>2. CASE space' = SpaceAfterUpload
    <3>1. UNCHANGED main /\ run'.source = run.source /\ run'.pc \in {"readback", "failed"}
      BY <1>8, <1>t DEF Commit, GoOn, Run
    <3>2. \A i \in DOMAIN space : space[i].by = "run" => space[i].source <= run.source
      BY <1>8 DEF Commit, ForwardInv
    <3>3. DeploysForward'
      BY <2>2, <3>2, <1>t, HistoryStays DEF SpaceAfterUpload, ForwardInv, DeploysForward
    <3>4. \A i \in DOMAIN space' : space'[i].by = "run" => space'[i].source <= main
      BY <2>2, <1>t, HistoryStays DEF SpaceAfterUpload, ForwardInv
    <3>5. QED BY <3>1, <3>3, <3>4 DEF ForwardInv
  <2>3. QED BY <1>8, <2>1, <2>2, <1>t DEF Commit, GoOn, Run
<1>9. CASE Readback
  <2>1. UNCHANGED <<main, space>> /\ run'.source = run.source
        /\ run'.pc \in {"failed", "visible"} /\ (run'.pc = "visible" => run'.task = "uploaded")
    BY <1>9, <1>t DEF Readback, Run
  <2>2. QED BY <2>1 DEF ForwardInv, DeploysForward
<1>10. CASE RequireRevision \/ ReadSelection \/ ReadManifest \/ RequireRevisionAgain
  BY <1>10, <1>a, <1>t
  DEF RequireRevision, ReadSelection, ReadManifest, RequireRevisionAgain, AfterRevision, GoOn, Run
<1>11. CASE ReadSettings \/ WriteVariable \/ RequestRestart \/ Poll
  BY <1>11, <1>a, <1>t
  DEF ReadSettings, AfterSettings, WriteVariable, RequestRestart, Answered, Poll, GoOn, Run
<1>12. CASE ChangeSettings \/ PublishManifest \/ ChangeVisibility \/ StartBuild \/ EndBuild
  BY <1>12, <1>b DEF ChangeSettings, PublishManifest, ChangeVisibility, StartBuild, EndBuild
<1>13. QED
  BY <1>1, <1>2, <1>3, <1>4, <1>5, <1>6, <1>7, <1>8, <1>9, <1>10, <1>11, <1>12
  DEF DeployNext, RunStep

\* Runs and re-runs never take the Space back to an earlier commit of main.
THEOREM DeployDeploysForward == DeploySpec => []DeploysForward
<1>1. DeployTypeOK /\ ForwardInv /\ [DeployNext]_deployVars => ForwardInv'
  <2> SUFFICES ASSUME DeployTypeOK, ForwardInv, [DeployNext]_deployVars PROVE ForwardInv' OBVIOUS
  <2>1. CASE DeployNext BY <2>1, ForwardStep
  <2>2. CASE UNCHANGED deployVars BY <2>2 DEF MayUpload, deployVars, remote, ForwardInv, DeploysForward
  <2>3. QED BY <2>1, <2>2
<1>2. ForwardInv => DeploysForward BY DEF ForwardInv
<1>3. QED BY <1>1, <1>2, ForwardInit, DeployTypes, PTL DEF DeploySpec

HIDE DeployAssumption

-----------------------------------------------------------------------------
(* The bundle that it uploads. *)

USE BundleAssumption

\* What a directory that is being exported holds so far.
CopiedSoFar(commit) ==
    \A path \in DOMAIN bundle :
        path \in DOMAIN Repository[commit] /\ bundle[path] = File(Repository[commit][path])

\* An export begins in an empty directory, which no verification accepted, and until
\* it ends nobody else writes to it.
ExportInv ==
    ~Idle => /\ exporting.commit \in Commits
             /\ exporting.left \subseteq BundleFiles
             /\ DOMAIN bundle = BundleFiles \ exporting.left
             /\ CopiedSoFar(exporting.commit)
             /\ accepted = {}

\* Files, evidence and exports are records.
ShapeInv ==
    /\ \A path \in DOMAIN bundle : bundle[path] \in Entry
    /\ evidence = [commit |-> evidence.commit, entries |-> evidence.entries]
    /\ exporting = [commit |-> exporting.commit, left |-> exporting.left]

BundleInv ==
    /\ ExportInv
    /\ ShapeInv
    /\ accepted \subseteq Commits
    /\ accepted # {} => DOMAIN bundle = BundleFiles
    /\ AcceptedIsCommitted

\* A commit tracks allowlisted files only.
LEMMA TrackedFiles ==
    ASSUME NEW commit \in Commits
    PROVE  /\ DOMAIN Repository[commit] \subseteq BundleFiles
           /\ \A path \in DOMAIN Repository[commit] : Repository[commit][path] \in Blob
<1>1. PICK tracked \in SUBSET BundleFiles : Repository[commit] \in [tracked -> Blob] OBVIOUS
<1>2. QED BY <1>1

\* A file of a commit is an entry of a directory.
LEMMA FileIsEntry == ASSUME NEW blob \in Blob PROVE File(blob) \in Entry
BY DEF File, Entry

\* The checkout of an operator has an empty output directory.
LEMMA BundleStart == BundleInit => BundleInv
BY DEF BundleInit, BundleInv, ExportInv, ShapeInv, AcceptedIsCommitted, Idle, NoEvidence, NoExport

\* The commands of the script.
LEMMA CommandsKeep ==
    ASSUME BundleInv,
           \/ \E commit \in Commits : BeginExport(commit) \/ Verify(commit)
           \/ \E path \in BundleFiles : CopyFile(path)
           \/ EndExport \/ ExportStops
    PROVE  BundleInv'
<1> USE DEF directory
<1>1. ASSUME NEW commit \in Commits, BeginExport(commit) PROVE BundleInv'
  <2>1. accepted = {} BY <1>1 DEF BeginExport, Empty, BundleInv
  <2>2. UNCHANGED <<bundle, evidence, accepted>> /\ bundle = <<>>
    BY <1>1 DEF BeginExport, Empty
  <2>3. ExportInv' BY <1>1, <2>1, <2>2 DEF BeginExport, ExportInv, CopiedSoFar
  <2>4. QED BY <1>1, <2>1, <2>2, <2>3 DEF BeginExport, BundleInv, ShapeInv, AcceptedIsCommitted
<1>2. ASSUME NEW commit \in Commits, Verify(commit) PROVE BundleInv'
  <2>1. UNCHANGED <<bundle, evidence, exporting>> /\ accepted' = accepted \cup {commit} /\ Idle
    BY <1>2 DEF Verify
  <2>2. /\ DOMAIN bundle = BundleFiles
        /\ DOMAIN bundle = DOMAIN Repository[commit]
        /\ \A path \in DOMAIN bundle : bundle[path] = File(Repository[commit][path])
    <3>1. /\ [path \in DOMAIN bundle |-> bundle[path].blob] = Repository[commit]
          /\ DOMAIN bundle = BundleFiles
          /\ \A path \in DOMAIN bundle : bundle[path].kind = "file"
      BY <1>2 DEF Verify, Verifies, SourcesMatch, PathsMatch
    <3>2. DOMAIN bundle = DOMAIN Repository[commit] BY <3>1
    <3>3. \A path \in DOMAIN bundle : bundle[path].blob = Repository[commit][path] BY <3>1
    <3>4. ASSUME NEW path \in DOMAIN bundle
          PROVE  bundle[path] = File(Repository[commit][path])
      <4>1. bundle[path] \in Entry BY DEF BundleInv, ShapeInv
      <4>2. bundle[path] = [kind |-> bundle[path].kind, blob |-> bundle[path].blob]
        BY <4>1 DEF Entry
      <4>3. QED BY <4>2, <3>1, <3>3 DEF File
    <3>5. QED BY <3>1, <3>2, <3>4
  <2>3. evidence = [commit |-> commit, entries |-> Repository[commit]]
    <3>1. evidence.commit = commit /\ evidence.entries = Repository[commit]
      BY <1>2 DEF Verify, Verifies, EvidenceMatches
    <3>2. QED BY <3>1 DEF BundleInv, ShapeInv
  <2>4. AcceptedIsCommitted' BY <2>1, <2>2, <2>3 DEF BundleInv, AcceptedIsCommitted
  <2>5. QED BY <2>1, <2>2, <2>4 DEF BundleInv, ExportInv, ShapeInv, Idle
<1>3. ASSUME NEW path \in BundleFiles, CopyFile(path) PROVE BundleInv'
  <2>1. ~Idle BY <1>3 DEF CopyFile, Idle, NoExport
  <2>2. exporting.commit \in Commits /\ accepted = {} /\ CopiedSoFar(exporting.commit)
        /\ DOMAIN bundle = BundleFiles \ exporting.left /\ exporting.left \subseteq BundleFiles
    BY <2>1 DEF BundleInv, ExportInv
  <2>3. /\ bundle' = [p \in DOMAIN bundle \cup {path} |->
                         IF p = path THEN File(Repository[exporting.commit][path]) ELSE bundle[p]]
        /\ exporting' = [exporting EXCEPT !.left = @ \ {path}]
        /\ path \in exporting.left /\ path \in DOMAIN Repository[exporting.commit]
        /\ UNCHANGED <<evidence, accepted>>
    BY <1>3 DEF CopyFile
  <2>4. exporting' = [commit |-> exporting.commit, left |-> exporting.left \ {path}]
    BY <2>3 DEF BundleInv, ShapeInv
  <2>5. DOMAIN bundle' = DOMAIN bundle \cup {path} BY <2>3
  <2>6. ExportInv' BY <2>2, <2>3, <2>4, <2>5 DEF ExportInv, CopiedSoFar
  <2>7. \A p \in DOMAIN bundle' : bundle'[p] \in Entry
    BY <2>2, <2>3, <2>5, TrackedFiles, FileIsEntry DEF BundleInv, ShapeInv
  <2>8. QED BY <2>2, <2>3, <2>4, <2>6, <2>7 DEF BundleInv, ShapeInv, AcceptedIsCommitted
<1>4. CASE EndExport
  <2> DEFINE commit == exporting.commit
  <2>1. /\ commit \in Commits /\ DOMAIN bundle = BundleFiles /\ CopiedSoFar(commit)
    BY <1>4 DEF EndExport, BundleInv, ExportInv
  <2>2. DOMAIN bundle = DOMAIN Repository[commit] BY <2>1, TrackedFiles DEF CopiedSoFar
  <2>3. /\ evidence' = [commit |-> commit, entries |-> Repository[commit]]
        /\ accepted' \subseteq {commit} /\ UNCHANGED bundle /\ exporting' = NoExport /\ Idle'
    BY <1>4 DEF EndExport, Idle
  <2>4. AcceptedIsCommitted' BY <2>1, <2>2, <2>3 DEF AcceptedIsCommitted, CopiedSoFar
  <2>5. QED BY <2>1, <2>3, <2>4 DEF BundleInv, ExportInv, ShapeInv, NoExport
<1>5. CASE ExportStops
  BY <1>5 DEF ExportStops, BundleInv, ExportInv, ShapeInv, AcceptedIsCommitted, Idle, NoExport
<1>6. QED BY <1>1, <1>2, <1>3, <1>4, <1>5

\* What else happens on the machine forgets that the directory was accepted.
LEMMA OthersKeep ==
    ASSUME BundleInv,
           \/ \E commit \in Commits : ForgeEvidence(commit)
           \/ \E path \in BundleFiles : RemoveFile(path)
           \/ \E path \in Paths, entry \in Entry : ChangeFile(path, entry)
           \/ RefreshSums \/ Clean \/ Checkout
    PROVE  BundleInv'
<1> USE DEF directory
<1>a. ASSUME Idle, accepted' = {}, UNCHANGED exporting, ShapeInv' PROVE BundleInv'
  BY <1>a DEF BundleInv, ExportInv, AcceptedIsCommitted, Idle
<1>1. ASSUME NEW commit \in Commits, ForgeEvidence(commit) PROVE BundleInv'
  <2>1. ShapeInv' BY <1>1 DEF ForgeEvidence, Edit, BundleInv, ShapeInv
  <2>2. QED BY <1>1, <1>a, <2>1 DEF ForgeEvidence, Edit
<1>2. ASSUME NEW path \in BundleFiles, RemoveFile(path) PROVE BundleInv'
  <2>1. ShapeInv' BY <1>2 DEF RemoveFile, Edit, BundleInv, ShapeInv
  <2>2. QED BY <1>2, <1>a, <2>1 DEF RemoveFile, Edit
<1>3. ASSUME NEW path \in Paths, NEW entry \in Entry, ChangeFile(path, entry) PROVE BundleInv'
  <2>1. ShapeInv' BY <1>3 DEF ChangeFile, Edit, BundleInv, ShapeInv
  <2>2. QED BY <1>3, <1>a, <2>1 DEF ChangeFile, Edit
<1>4. CASE RefreshSums
  <2>1. ShapeInv' BY <1>4 DEF RefreshSums, Edit, BundleInv, ShapeInv
  <2>2. QED BY <1>4, <1>a, <2>1 DEF RefreshSums, Edit
<1>5. CASE Clean
  <2>1. ShapeInv' BY <1>5 DEF Clean, BundleInv, ShapeInv, NoEvidence
  <2>2. QED BY <1>5, <1>a, <2>1 DEF Clean
<1>6. CASE Checkout
  BY <1>6 DEF Checkout, BundleInv, ExportInv, ShapeInv, CopiedSoFar, AcceptedIsCommitted, Idle
<1>7. QED BY <1>1, <1>2, <1>3, <1>4, <1>5, <1>6

\* Every command and every change by others keeps the invariant.
THEOREM BundleInvariant == BundleSpec => []BundleInv
<1>1. BundleInv /\ [BundleNext]_bundleVars => BundleInv'
  <2> SUFFICES ASSUME BundleInv, [BundleNext]_bundleVars PROVE BundleInv' OBVIOUS
  <2>1. CASE BundleNext BY <2>1, CommandsKeep, OthersKeep DEF BundleNext
  <2>2. CASE UNCHANGED bundleVars
    BY <2>2 DEF bundleVars, directory, BundleInv, ExportInv, ShapeInv, CopiedSoFar,
                AcceptedIsCommitted, Idle
  <2>3. QED BY <2>1, <2>2
<1>2. QED BY <1>1, BundleStart, PTL DEF BundleSpec

\* A directory that a verification accepted is the commit.
THEOREM BundleAcceptedIsCommitted == BundleSpec => []AcceptedIsCommitted
<1>1. BundleInv => AcceptedIsCommitted BY DEF BundleInv
<1>2. QED BY <1>1, BundleInvariant, PTL

\* What no check of the script looks at: the checkout, and which names a directory has.
PlaceInv ==
    /\ checkout \in [head : Commits, dirty : BOOLEAN]
    /\ DOMAIN bundle \subseteq Paths

\* A file that is written, by whom ever, has one of the paths.
LEMMA PlaceStep == ASSUME PlaceInv, [BundleNext]_bundleVars PROVE PlaceInv'
<1> USE DEF directory
<1>1. ASSUME NEW commit \in Commits, BeginExport(commit) \/ Verify(commit) \/ ForgeEvidence(commit)
      PROVE  PlaceInv'
  <2>1. UNCHANGED <<checkout, bundle>> BY <1>1 DEF BeginExport, Verify, ForgeEvidence
  <2>2. QED BY <2>1 DEF PlaceInv
<1>2. ASSUME NEW path \in BundleFiles, CopyFile(path) \/ RemoveFile(path) PROVE PlaceInv'
  <2>1. UNCHANGED checkout /\ DOMAIN bundle' \subseteq DOMAIN bundle \cup {path}
    BY <1>2 DEF CopyFile, RemoveFile
  <2>2. QED BY <2>1 DEF PlaceInv, Paths
<1>3. ASSUME NEW path \in Paths, NEW entry \in Entry, ChangeFile(path, entry) PROVE PlaceInv'
  <2>1. UNCHANGED checkout /\ DOMAIN bundle' = DOMAIN bundle \cup {path}
    BY <1>3 DEF ChangeFile
  <2>2. QED BY <2>1 DEF PlaceInv
<1>4. CASE EndExport \/ ExportStops \/ RefreshSums \/ Clean
  <2>1. UNCHANGED checkout /\ (UNCHANGED bundle \/ bundle' = <<>>)
    BY <1>4 DEF EndExport, ExportStops, RefreshSums, Clean
  <2>2. DOMAIN <<>> = {} OBVIOUS
  <2>3. QED BY <2>1, <2>2 DEF PlaceInv
<1>5. CASE Checkout BY <1>5 DEF Checkout, PlaceInv
<1>6. CASE UNCHANGED bundleVars BY <1>6 DEF bundleVars, PlaceInv
<1>7. QED BY <1>1, <1>2, <1>3, <1>4, <1>5, <1>6 DEF BundleNext

\* The state of the bundle keeps its types.
THEOREM BundleTypes == BundleSpec => []BundleTypeOK
<1>1. BundleInit => PlaceInv
  <2>1. (CHOOSE c \in Commits : TRUE) \in Commits OBVIOUS
  <2>2. BundleInit => checkout \in [head : Commits, dirty : BOOLEAN] BY <2>1 DEF BundleInit
  <2>3. BundleInit => DOMAIN bundle \subseteq Paths BY DEF BundleInit
  <2>4. QED BY <2>2, <2>3 DEF PlaceInv
<1>2. PlaceInv /\ [BundleNext]_bundleVars => PlaceInv' BY PlaceStep
<1>3. BundleInv /\ PlaceInv => BundleTypeOK
  BY DEF BundleInv, ExportInv, ShapeInv, PlaceInv, BundleTypeOK, Idle, NoExport
<1>4. QED BY <1>1, <1>2, <1>3, BundleInvariant, PTL DEF BundleSpec
=============================================================================
