----------------------------- MODULE MCControlPlane -----------------------------
(***************************************************************************)
(* The components around the container's data, on one small instance. They *)
(* share no state, so each behaviour lets one of them run and leaves the   *)
(* others as they begin: "scene" says which.                               *)
(***************************************************************************)
EXTENDS FormalDeploy, SpaceBundle, AdminLogin, AdminFiles, AdminActions, OpsCache,
        OpsReadiness, PersistLayout

VARIABLE scene

\* The variables of all the components but one.
ButDeploy == <<bundleVars, loginVars, filesVars, actionsVars, cacheVars, seen, layoutVars>>
ButBundle == <<deployVars, loginVars, filesVars, actionsVars, cacheVars, seen, layoutVars>>
ButLogin == <<deployVars, bundleVars, filesVars, actionsVars, cacheVars, seen, layoutVars>>
ButFiles == <<deployVars, bundleVars, loginVars, actionsVars, cacheVars, seen, layoutVars>>
ButActions == <<deployVars, bundleVars, loginVars, filesVars, cacheVars, seen, layoutVars>>
ButCache == <<deployVars, bundleVars, loginVars, filesVars, actionsVars, seen, layoutVars>>
ButReadiness ==
    <<deployVars, bundleVars, loginVars, filesVars, actionsVars, cacheVars, layoutVars>>
ButLayout == <<deployVars, bundleVars, loginVars, filesVars, actionsVars, cacheVars, seen>>

vars == <<scene, deployVars, ButDeploy>>

\* Where the layout does not run, one container begins.
QuietLayout == LayoutInit /\ box = [volume |-> FALSE, bucket |-> TRUE, setting |-> "auto"]

Init ==
    /\ scene \in {"deploy", "bundle", "login", "files", "actions", "cache", "readiness", "layout"}
    /\ DeployInit /\ BundleInit /\ LoginInit /\ FilesInit /\ ActionsInit /\ CacheInit
    /\ ReadinessInit
    /\ IF scene = "layout" THEN LayoutInit ELSE QuietLayout

Next ==
    /\ UNCHANGED scene
    /\ \/ scene = "deploy" /\ DeployNext /\ UNCHANGED ButDeploy
       \/ scene = "bundle" /\ BundleNext /\ UNCHANGED ButBundle
       \/ scene = "login" /\ LoginNext /\ UNCHANGED ButLogin
       \/ scene = "files" /\ FilesNext /\ UNCHANGED ButFiles
       \/ scene = "actions" /\ ActionsNext /\ UNCHANGED ButActions
       \/ scene = "cache" /\ CacheNext /\ UNCHANGED ButCache
       \/ scene = "readiness" /\ ReadinessNext /\ UNCHANGED ButReadiness
       \/ scene = "layout" /\ LayoutNext /\ UNCHANGED ButLayout

\* A component that does not run has nothing to do, so that its fairness asks nothing.
Spec == Init /\ [][Next]_vars /\ DeployFairness /\ CacheFairness

\* The variables keep their types: one invariant for all the components.
TypeOK ==
    /\ DeployTypeOK /\ BundleTypeOK /\ LoginTypeOK /\ FilesTypeOK /\ ActionsTypeOK
    /\ CacheTypeOK /\ ReadinessTypeOK /\ LayoutTypeOK

------------------------------------------------------------------------------
(* The bundle's repository: two files, at four commits. *)

PlainBytes == [text |-> 1, token |-> FALSE, valid |-> TRUE]
OtherBytes == [text |-> 2, token |-> FALSE, valid |-> TRUE]
LeakyBytes == [text |-> 2, token |-> TRUE, valid |-> TRUE]
SomeBytes == {PlainBytes, OtherBytes, LeakyBytes}

GoodCommit == [path \in {"toml", "run"} |->
                  [bytes |-> PlainBytes, mode |-> IF path = "run" THEN "0755" ELSE "0644"]]
SomeCommits == [good  |-> GoodCommit,
                next  |-> [GoodCommit EXCEPT !["run"].bytes = OtherBytes],
                leaky |-> [GoodCommit EXCEPT !["run"].bytes = LeakyBytes],
                short |-> [path \in {"toml"} |-> GoodCommit[path]]]

------------------------------------------------------------------------------
(* What the daemon may have logged. *)

SomeLogs == {<<>>, <<"ready">>, <<"ready", "error", "ready">>}
=============================================================================
