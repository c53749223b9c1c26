------------------------------ MODULE FormalDeploy ------------------------------
(***************************************************************************)
(* The deployment of the formal Space. The workflow deploy-hfs-formal.yml  *)
(* runs one at a time: it authorizes the commit of GitHub's main, checks   *)
(* the visibility of the Space and of its buckets, uploads the bundle with *)
(* a compare-and-swap commit and reads it back, checks the visibility      *)
(* again, binds the artifact that the release manifest selects, verifies   *)
(* the binding and restarts the Space.                                     *)
(*                                                                         *)
(* The Space repository, its Variables and the bucket are three remote     *)
(* resources without a common transaction: every call is a step, and       *)
(* others push, change Variables or publish artifacts between two calls.   *)
(* A call may fail, and a call that writes may fail after it took effect.  *)
(***************************************************************************)
EXTENDS Integers, Sequences

CONSTANTS Artifacts,   \* commits of the Dify fork a manifest can select
          FirstArtifact, \* the one the Space runs before the first run
          MaxMain,     \* bounds the commits of GitHub's main
          MaxDeploys,  \* bounds the runs of the workflow
          MaxDrifts,   \* bounds what others change
          MaxCallFaults, \* bounds the calls that fail
          MaxPolls     \* the polls that fit before the deadline

ASSUME DeployAssumption ==
    /\ FirstArtifact \in Artifacts
    /\ MaxMain \in Nat \ {0}
    /\ {MaxDeploys, MaxDrifts, MaxCallFaults, MaxPolls} \subseteq Nat

VARIABLES
    main,        \* GitHub's main, as the number of its last commit
    space,       \* the commits of the Space repository; the last one is its HEAD
    settings,    \* the Space Variables
    manifests,   \* the release manifest in each bucket
    visibility,  \* of the Space and of the bucket of each selection
    runtime,     \* the container of the Space
    run,         \* the run of the workflow
    held,        \* what was true, with HEAD the deployed revision, when it was read
    deploySpent  \* what is used up of each bound

remote == <<space, settings, manifests, visibility, runtime>>
deployVars == <<main, remote, run, held, deploySpent>>

\* A manifest URI names a bucket and a slot: two buckets with a release slot, and
\* another slot.
Selections == {"release", "moved", "preview"}
ReleaseLane == {"release", "moved"}

\* source: the commit of main whose bundle it is, 0 for any other content;
\* extra: it has a path outside the allowlist.
SpaceCommit == [source : 0..MaxMain, extra : BOOLEAN, by : {"run", "other"}]

Upload == {"authorize", "visible", "private", "preflight", "list", "commit", "readback"}
Binding == {"head", "selection", "manifest", "settings", "tail", "write"}
Ended == {"idle", "passed", "failed"}

Run == [pc : Upload \cup Binding \cup Ended \cup {"restart", "poll"},
        task : {"upload", "uploaded", "bind", "rebind", "bound", "reboot"},
        source : 0..MaxMain, artifact : Artifacts,
        preflight : Nat, deployed : Nat,      \* revisions, as lengths of the history
        selection : Selections, outdated : BOOLEAN, polls : 0..MaxPolls]

Facts == {"manifest", "settings"}

DeployBudget == [runs |-> MaxDeploys, drifts |-> MaxDrifts, faults |-> MaxCallFaults]

DeploySpend(what) ==
    /\ deploySpent[what] < DeployBudget[what]
    /\ deploySpent' = [deploySpent EXCEPT ![what] = @ + 1]

Tip == Len(space)

DeployInit ==
    /\ main = 1
    /\ space = <<[source |-> 0, extra |-> FALSE, by |-> "other"]>>
    /\ settings = [selection |-> "release", expected |-> FirstArtifact]
    /\ manifests = [s \in Selections |-> [ref |-> FirstArtifact, tag |-> TRUE]]
    /\ visibility = [protected |-> TRUE, private |-> [s \in Selections |-> TRUE]]
    /\ runtime = [stage |-> "RUNNING", sha |-> 1, requested |-> FALSE]
    /\ run = [pc |-> "idle", task |-> "upload", source |-> 0, artifact |-> FirstArtifact,
                  preflight |-> 0, deployed |-> 0, selection |-> "release",
                  outdated |-> FALSE, polls |-> 0]
    /\ held = {}
    /\ deploySpent = [runs |-> 0, drifts |-> 0, faults |-> 0]

------------------------------------------------------------------------------
(* The steps of a run *)

\* The run goes on where the condition holds and raises FormalDeploymentError, or
\* exits, where it does not.
GoOn(holds, to) == run' = [run EXCEPT !.pc = IF holds THEN to ELSE "failed"]

\* Any call may raise: the run stops there.
CallFails ==
    /\ run.pc \notin Ended
    /\ DeploySpend("faults")
    /\ GoOn(FALSE, "failed")
    /\ UNCHANGED <<main, remote, held>>

\* A call that changed something raises all the same where its answer is lost.
Answered(to) ==
    \/ GoOn(TRUE, to) /\ UNCHANGED deploySpent
    \/ GoOn(FALSE, to) /\ DeploySpend("faults")

\* A dispatch of the current main, or a re-run of an earlier run with its commit.
Dispatch(source, artifact) ==
    /\ run.pc \in Ended
    /\ DeploySpend("runs")
    /\ run' = [run EXCEPT !.pc = "authorize", !.task = "upload", !.source = source,
                          !.artifact = artifact, !.polls = 0]
    /\ UNCHANGED <<main, remote, held>>

\* Defect: The run does not compare its commit with origin/main.
AnyCommitAuthorized ==
    /\ run.pc = "authorize"
    /\ GoOn(TRUE, "visible")
    /\ UNCHANGED <<main, remote, held, deploySpent>>

Authorize ==
    /\ run.pc = "authorize"
    /\ GoOn(run.source = main, "visible")
    /\ UNCHANGED <<main, remote, held, deploySpent>>

\* exact_space_visibility: before the upload and after it.
CheckSpaceVisibility ==
    /\ run.pc = "visible"
    /\ GoOn(visibility.protected, "private")
    /\ UNCHANGED <<main, remote, held, deploySpent>>

\* The buckets that the hfs manifest and the Space's Variable name now.
CheckBucketVisibility ==
    /\ run.pc = "private"
    /\ IF visibility.private["release"] /\ visibility.private[settings.selection]
       THEN run' = IF run.task = "upload" THEN [run EXCEPT !.pc = "preflight"]
                   ELSE [run EXCEPT !.pc = "head", !.task = "bind"]
       ELSE GoOn(FALSE, "failed")
    /\ UNCHANGED <<main, remote, held, deploySpent>>

Preflight ==
    /\ run.pc = "preflight"
    /\ run' = [run EXCEPT !.pc = "list", !.preflight = Tip]
    /\ UNCHANGED <<main, remote, held, deploySpent>>

\* Defect: The upload does not list what the Space holds.
PathsNotListed ==
    /\ run.pc = "list"
    /\ GoOn(TRUE, "commit")
    /\ UNCHANGED <<main, remote, held, deploySpent>>

ListPaths ==
    /\ run.pc = "list"
    /\ GoOn(~space[run.preflight].extra, "commit")
    /\ UNCHANGED <<main, remote, held, deploySpent>>

\* The commit adds the files of the bundle to the tree of its parent.
SpaceAfterUpload ==
    Append(space, [source |-> run.source, extra |-> space[Tip].extra, by |-> "run"])

\* Defect: The commit names no parent.
NoParent == TRUE

ParentIsHead == run.preflight = Tip

Commit ==
    /\ run.pc = "commit"
    /\ IF ParentIsHead
       THEN /\ space' = SpaceAfterUpload
            /\ \/ /\ run' = [run EXCEPT !.pc = "readback", !.deployed = Tip + 1]
                  /\ UNCHANGED deploySpent
               \/ GoOn(FALSE, "failed") /\ DeploySpend("faults")
       ELSE GoOn(FALSE, "failed") /\ UNCHANGED <<space, deploySpent>>
    /\ UNCHANGED <<main, settings, manifests, visibility, runtime, held>>

Readback ==
    /\ run.pc = "readback"
    /\ LET deployed == space[run.deployed] IN
       run' = IF ~deployed.extra /\ deployed.source = run.source
              THEN [run EXCEPT !.pc = "visible", !.task = "uploaded"]
              ELSE [run EXCEPT !.pc = "failed"]
    /\ UNCHANGED <<main, remote, held, deploySpent>>

\* _require_space_revision, before a manifest is read ...
RequireRevision ==
    /\ run.pc = "head"
    /\ GoOn(Tip = run.deployed, "selection")
    /\ held' = {}
    /\ UNCHANGED <<main, remote, deploySpent>>

ReadSelection ==
    /\ run.pc = "selection"
    /\ run' = [run EXCEPT !.selection = settings.selection,
                          !.pc = IF settings.selection \in ReleaseLane
                                 THEN "manifest" ELSE "failed"]
    /\ held' = {}
    /\ UNCHANGED <<main, remote, deploySpent>>

Note(fact) == held' = IF Tip = run.deployed THEN held \cup {fact} ELSE held

ReadManifest ==
    /\ run.pc = "manifest"
    /\ GoOn(manifests[run.selection] = [ref |-> run.artifact, tag |-> TRUE], "settings")
    /\ Note("manifest")
    /\ UNCHANGED <<main, remote, deploySpent>>

\* bind_formal_artifact starts over before it writes; the verification refuses.
AfterSettings ==
    LET bound == settings.expected = run.artifact IN
    CASE run.task = "bind" /\ bound -> [run EXCEPT !.pc = "head", !.task = "bound"]
      [] run.task = "bind" /\ ~bound -> [run EXCEPT !.pc = "selection", !.task = "rebind"]
      [] run.task = "rebind" -> [run EXCEPT !.pc = "tail", !.outdated = ~bound]
      [] OTHER -> [run EXCEPT !.pc = IF bound THEN "tail" ELSE "failed"]

ReadSettings ==
    /\ run.pc = "settings"
    /\ IF settings.selection = run.selection
       THEN run' = AfterSettings /\ Note("settings")
       ELSE GoOn(FALSE, "failed") /\ UNCHANGED held
    /\ UNCHANGED <<main, remote, deploySpent>>

\* ... and after it.
AfterRevision ==
    CASE run.task = "rebind" /\ run.outdated -> [run EXCEPT !.pc = "write"]
      [] run.task = "rebind" /\ ~run.outdated -> [run EXCEPT !.pc = "head", !.task = "bound"]
      [] run.task = "bound" -> [run EXCEPT !.pc = "head", !.task = "reboot"]
      [] OTHER -> [run EXCEPT !.pc = "restart"]

\* Defect: HEAD is not read again after the manifest.
RevisionReadOnce ==
    /\ run.pc = "tail"
    /\ run' = AfterRevision
    /\ UNCHANGED <<main, remote, held, deploySpent>>

RequireRevisionAgain ==
    /\ run.pc = "tail"
    /\ IF Tip = run.deployed THEN run' = AfterRevision ELSE GoOn(FALSE, "failed")
    /\ UNCHANGED <<main, remote, held, deploySpent>>

WriteVariable ==
    /\ run.pc = "write"
    /\ settings' = [settings EXCEPT !.expected = run.artifact]
    /\ \/ run' = [run EXCEPT !.pc = "head", !.task = "bound"] /\ UNCHANGED deploySpent
       \/ GoOn(FALSE, "failed") /\ DeploySpend("faults")
    /\ UNCHANGED <<main, space, manifests, visibility, runtime, held>>

RequestRestart ==
    /\ run.pc = "restart"
    /\ runtime' = [runtime EXCEPT !.requested = TRUE]
    /\ Answered("poll")
    /\ UNCHANGED <<main, space, settings, manifests, visibility, held>>

\* Defect: The deadline never passes.
DeadlineMoves == FALSE

\* A poll at the deadline is the last one.
DeadlinePassed == run.polls = MaxPolls

\* Defect: The loop has no deadline.
PollForever ==
    /\ run.pc = "poll"
    /\ run' = IF runtime.stage = "RUNNING" /\ runtime.sha = run.deployed
              THEN [run EXCEPT !.pc = "passed"]
              ELSE IF runtime.stage = "BUILD_ERROR" THEN [run EXCEPT !.pc = "failed"] ELSE run
    /\ UNCHANGED <<main, remote, held, deploySpent>>

Poll ==
    /\ run.pc = "poll"
    /\ run' = IF runtime.stage = "RUNNING" /\ runtime.sha = run.deployed
              THEN [run EXCEPT !.pc = "passed"]
              ELSE IF runtime.stage = "BUILD_ERROR" \/ DeadlinePassed
              THEN [run EXCEPT !.pc = "failed"]
              ELSE [run EXCEPT !.polls = @ + 1]
    /\ UNCHANGED <<main, remote, held, deploySpent>>

RunStep ==
    \/ Authorize \/ CheckSpaceVisibility \/ CheckBucketVisibility
    \/ Preflight \/ ListPaths \/ Commit \/ Readback
    \/ RequireRevision \/ ReadSelection \/ ReadManifest \/ ReadSettings
    \/ RequireRevisionAgain \/ WriteVariable \/ RequestRestart \/ Poll

------------------------------------------------------------------------------
(* What others do, and the platform *)

PushToMain ==
    /\ main < MaxMain
    /\ main' = main + 1
    /\ UNCHANGED <<remote, run, held, deploySpent>>

PushToSpace ==
    /\ DeploySpend("drifts")
    /\ \E extra \in BOOLEAN :
           space' = Append(space, [source |-> 0, extra |-> extra, by |-> "other"])
    /\ UNCHANGED <<main, settings, manifests, visibility, runtime, run, held>>

ChangeSettings ==
    /\ DeploySpend("drifts")
    /\ \/ \E selection \in Selections : settings' = [settings EXCEPT !.selection = selection]
       \/ \E artifact \in Artifacts : settings' = [settings EXCEPT !.expected = artifact]
    /\ UNCHANGED <<main, space, manifests, visibility, runtime, run, held>>

PublishManifest ==
    /\ DeploySpend("drifts")
    /\ \E selection \in Selections, artifact \in Artifacts, tag \in BOOLEAN :
           manifests' = [manifests EXCEPT ![selection] = [ref |-> artifact, tag |-> tag]]
    /\ UNCHANGED <<main, space, settings, visibility, runtime, run, held>>

ChangeVisibility ==
    /\ DeploySpend("drifts")
    /\ \/ visibility' = [visibility EXCEPT !.protected = ~@]
       \/ \E selection \in Selections :
              visibility' = [visibility EXCEPT !.private[selection] = ~@]
    /\ UNCHANGED <<main, space, settings, manifests, runtime, run, held>>

\* The platform builds HEAD when it is asked to, sooner or later or never.
StartBuild ==
    /\ runtime.requested
    /\ runtime' = [stage |-> "BUILDING", sha |-> Tip, requested |-> FALSE]
    /\ UNCHANGED <<main, space, settings, manifests, visibility, run, held, deploySpent>>

EndBuild ==
    /\ runtime.stage = "BUILDING"
    /\ \E stage \in {"RUNNING", "BUILD_ERROR"} : runtime' = [runtime EXCEPT !.stage = stage]
    /\ UNCHANGED <<main, space, settings, manifests, visibility, run, held, deploySpent>>

DeployNext ==
    \/ \E source \in 1..main, artifact \in Artifacts : Dispatch(source, artifact)
    \/ RunStep \/ CallFails
    \/ PushToMain \/ PushToSpace \/ ChangeSettings \/ PublishManifest \/ ChangeVisibility
    \/ StartBuild \/ EndBuild

\* A run goes on until it ends; nobody owes it anything else.
DeployFairness == WF_deployVars(RunStep)

DeploySpec == DeployInit /\ [][DeployNext]_deployVars /\ DeployFairness

------------------------------------------------------------------------------
(* Properties *)

\* The variables keep their types.
DeployTypeOK ==
    /\ main \in 1..MaxMain
    /\ space \in Seq(SpaceCommit) /\ space # <<>>
    /\ settings \in [selection : Selections, expected : Artifacts]
    /\ manifests \in [Selections -> [ref : Artifacts, tag : BOOLEAN]]
    /\ visibility \in [protected : BOOLEAN, private : [Selections -> BOOLEAN]]
    /\ runtime \in [stage : {"RUNNING", "BUILDING", "BUILD_ERROR"}, sha : Nat,
                    requested : BOOLEAN]
    /\ run \in Run
    /\ held \subseteq Facts
    /\ deploySpent \in [runs : 0..MaxDeploys, drifts : 0..MaxDrifts, faults : 0..MaxCallFaults]

\* What a run commits is the bundle and nothing else, whoever pushes between its
\* listing of the Space and its commit.
CommitsAreExact ==
    \A i \in DOMAIN space : space[i].by = "run" => space[i].source > 0 /\ ~space[i].extra

\* Runs and re-runs never take the Space back to an earlier commit of main.
DeploysForward ==
    \A i, j \in DOMAIN space :
        i < j /\ space[i].by = "run" /\ space[j].by = "run"
            => space[i].source <= space[j].source

\* The Variable is written, and the Space restarted, only on what was read while
\* the deployed revision was HEAD: both the manifest of the artifact and the
\* Variables that select it, however the remote resources change between the calls.
StepsAreVerified == run.pc \in {"write", "restart", "poll", "passed"} => held = Facts

\* A run ends, even where the platform never builds what it was asked to.
DeployEnds == run.pc \notin Ended ~> run.pc \in Ended
=============================================================================
