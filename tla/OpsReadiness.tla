------------------------------ MODULE OpsReadiness ------------------------------
(***************************************************************************)
(* The verdicts of docker/ops_service.py on plugins and applications. Two  *)
(* endpoints judge the same plugins with code of their own: /persistence   *)
(* gives one verdict for all of them, /provider-models one per plugin and, *)
(* from those, one per application: is it ready for an LLM call? Both read *)
(* the plugin database, the plugin directories, the daemon's log and its   *)
(* state in Redis, for which several databases and key prefixes are tried. *)
(*                                                                         *)
(* The module judges one snapshot of what is read; the codes of an         *)
(* application's API keys and workflows do not count for an LLM call and   *)
(* are left out, and so are the limits on the number of rows.              *)
(***************************************************************************)
EXTENDS FiniteSets, Integers, Sequences

CONSTANTS Identifiers,   \* plugin_unique_identifier: a version of a plugin
          PluginIds,     \* plugin_id: what a provider's name begins with
          Needed,        \* the plugin of the provider that the application is bound to
          NoPlugin,      \* no plugin: not listed, or a provider without one
          Unreachable,   \* a scan of Redis failed
          Stateful,      \* the versions that may have a state in Redis
          Logs,          \* what the daemon may have logged of a version
          MaxBindings    \* bounds the model bindings of the application

ASSUME ReadinessAssumption ==
    /\ Needed \in PluginIds
    /\ NoPlugin \notin PluginIds
    /\ Stateful \subseteq Identifiers
    /\ \A states \in SUBSET Identifiers : Unreachable # states
    /\ Logs \subseteq Seq({"ready", "error"}) /\ <<>> \in Logs
    /\ MaxBindings \in Nat

VARIABLE seen    \* the snapshot

\* How the database knows a version, and what there is of it: its package and its
\* installed file, each under one of its two names, and its lines in the log.
Version == [plugin : PluginIds \cup {NoPlugin}, package : BOOLEAN, installed : BOOLEAN,
            log : Logs]
Scans == {Unreachable} \cup SUBSET Stateful

\* A binding of a model in a workflow; a provider that is not a plugin has valid models.
Bindings == {[plugin |-> Needed, model |-> m] : m \in {"unnamed", "missing", "invalid", "valid"}}
                \cup {[plugin |-> NoPlugin, model |-> "valid"]}

Snapshot == [versions : [Identifiers -> Version], scans : Seq(Scans),
             failed : SUBSET {"plugins", "references", "models"},
             bucket : BOOLEAN, paths : {"direct", "symlink", "missing"},
             bindings : SUBSET Bindings]

Unlisted == [plugin |-> NoPlugin, package |-> FALSE, installed |-> FALSE, log |-> <<>>]
Blank == [versions |-> [i \in Identifiers |-> Unlisted], scans |-> <<{}, {}>>,
          failed |-> {}, bucket |-> FALSE, paths |-> "direct", bindings |-> {}]

------------------------------------------------------------------------------
(* What both endpoints read *)

Rows == {i \in Identifiers : seen.versions[i].plugin # NoPlugin}
DatabasesOk == seen.failed \cap {"plugins", "references"} = {}

\* The first scan that finds states, or else the first one that does not fail.
RuntimeState ==
    LET Answers == {n \in DOMAIN seen.scans : seen.scans[n] # Unreachable}
        Full == {n \in Answers : seen.scans[n] # {}}
        First(ns) == seen.scans[CHOOSE n \in ns : \A other \in ns : n <= other]
    IN IF Full # {} THEN First(Full) ELSE IF Answers # {} THEN {} ELSE Unreachable

RedisOk == RuntimeState # Unreachable
HasState(i) == RedisOk /\ i \in RuntimeState

\* An error counts from the first line on that says ready, whatever follows it.
LogReady(log) == \E n \in DOMAIN log : log[n] = "ready"
LogErrors(log) ==
    Cardinality({n \in DOMAIN log : log[n] = "error" /\ LogReady(SubSeq(log, 1, n))})

------------------------------------------------------------------------------
(* The verdict of /persistence *)

MissingPackages == {i \in Rows : ~seen.versions[i].package}
MissingInstalled == {i \in Rows : ~seen.versions[i].installed}
MissingStates ==
    {i \in Rows : ~HasState(i) /\ LET log == seen.versions[i].log IN
                                  ~LogReady(log) \/ LogErrors(log) > 0}

PathsOk == seen.paths # "missing"
LayoutOk == seen.bucket => seen.paths # "symlink"

PersistenceOk ==
    /\ PathsOk /\ DatabasesOk /\ LayoutOk /\ RedisOk
    /\ MissingPackages = {} /\ MissingInstalled = {} /\ MissingStates = {}

------------------------------------------------------------------------------
(* The verdicts of /provider-models *)

\* Defect: an error after the daemon was ready is not looked at.
ReadyOnceEnough(i) ==
    seen.versions[i].installed /\ (HasState(i) \/ LogReady(seen.versions[i].log))

\* plugin_runtime_ready
RuntimeReady(i) ==
    /\ seen.versions[i].installed
    /\ \/ HasState(i)
       \/ LogReady(seen.versions[i].log) /\ LogErrors(seen.versions[i].log) = 0

PluginIssues(i) ==
    LET v == seen.versions[i] IN
    {code \in {"package_missing", "installed_missing", "state_missing", "state_unverified"} :
        \/ code = "package_missing" /\ ~v.package
        \/ code = "installed_missing" /\ ~v.installed
        \/ code = "state_missing" /\ v.installed /\ ~RuntimeReady(i)
        \/ code = "state_unverified" /\ ~RedisOk}

PluginSectionOk == DatabasesOk /\ RedisOk

\* When a database cannot be read the section has no rows.
SectionRows == IF DatabasesOk THEN Rows ELSE {}

ModelIssues(binding) ==
    CASE binding.model = "missing" -> {"model_missing"}
      [] binding.model = "invalid" -> {"model_invalid"}
      [] OTHER -> {}

\* A section without rows raises no issue.
RuntimeIssues(binding) ==
    LET versions == {i \in SectionRows : seen.versions[i].plugin = binding.plugin} IN
    CASE binding.plugin = NoPlugin -> {}
      [] binding.plugin # NoPlugin /\ ~PluginSectionOk -> {"runtime_unverified"}
      [] OTHER ->
            IF SectionRows = {} \/ \E i \in versions : RuntimeReady(i) THEN {}
            ELSE IF versions = {} THEN {"metadata_missing"}
            ELSE IF \E i \in versions : "installed_missing" \in PluginIssues(i)
                 THEN {"installed_missing"}
                 ELSE {"runtime_missing"}

AppIssues == UNION {ModelIssues(b) \cup RuntimeIssues(b) : b \in seen.bindings}

\* Defect: what could not be verified does not block.
MissingBlocks == {"model_missing", "model_invalid", "metadata_missing",
                  "installed_missing", "runtime_missing"}

BlockingCodes == {"model_missing", "model_invalid", "metadata_missing",
                  "installed_missing", "runtime_missing", "runtime_unverified"}

ReadyForDispatch ==
    /\ "models" \notin seen.failed
    /\ seen.bindings # {}
    /\ AppIssues \cap BlockingCodes = {}

------------------------------------------------------------------------------

ReadinessInit == seen = Blank

ListedVersions(plugins) ==
    {v \in Version : v.plugin \in plugins \/ v = Unlisted}

LookAtPersistence(versions, scans, failed, bucket, paths) ==
    seen' = [Blank EXCEPT !.versions = versions, !.scans = scans, !.failed = failed,
                          !.bucket = bucket, !.paths = paths]

\* Whether there is a package does not matter to an application, and of the scans only
\* the one that is taken does.
LookAtApplication(versions, scan, failed, bindings) ==
    seen' = [Blank EXCEPT !.versions = versions, !.scans = <<scan>>, !.failed = failed,
                          !.bindings = bindings]

OneFailed == {{}} \cup {{part} : part \in {"plugins", "references", "models"}}

ReadinessNext ==
    /\ seen = Blank
    /\ \E failed \in OneFailed :
        \/ \E versions \in [Identifiers -> ListedVersions({Needed})], a, b \in Scans,
              bucket \in BOOLEAN, paths \in {"direct", "symlink", "missing"} :
               LookAtPersistence(versions, <<a, b>>, failed, bucket, paths)
        \/ \E versions \in [Identifiers -> {v \in ListedVersions(PluginIds) :
                                               v.package \/ v = Unlisted}],
              scan \in Scans,
              bindings \in {bs \in SUBSET Bindings : Cardinality(bs) \in 1..MaxBindings} :
               LookAtApplication(versions, scan, failed, bindings)

ReadinessSpec == ReadinessInit /\ [][ReadinessNext]_seen

------------------------------------------------------------------------------
(* Properties *)

\* The snapshot keeps its type.
ReadinessTypeOK == seen \in Snapshot

\* The two endpoints agree: where the paths are sound, /persistence is ok exactly when
\* the plugin section of /provider-models is ok and finds every plugin ready and
\* without an issue.
PersistenceAgrees ==
    PersistenceOk <=>
        /\ PathsOk /\ LayoutOk /\ PluginSectionOk
        /\ \A i \in SectionRows : RuntimeReady(i) /\ PluginIssues(i) = {}

\* A plugin has a version that is installed and runs, by its state or by a log whose
\* last word is that it is ready.
LastWordReady(log) ==
    \E n \in DOMAIN log : log[n] = "ready" /\ \A m \in DOMAIN log : m > n => log[m] # "error"
Runs(plugin) ==
    \E i \in Rows : /\ seen.versions[i].plugin = plugin
                    /\ seen.versions[i].installed
                    /\ HasState(i) \/ LastWordReady(seen.versions[i].log)

\* An application that is called ready has models that are valid where they are named,
\* and providers whose plugin runs, as far as the plugin section has rows at all; what
\* could not be read never makes it ready.
DispatchSound ==
    ReadyForDispatch =>
        \A b \in seen.bindings :
            /\ b.model \in {"valid", "unnamed"}
            /\ b.plugin # NoPlugin =>
                   DatabasesOk /\ RedisOk /\ (Rows # {} => Runs(b.plugin))

\* docs/ops-runbook.md:302: "ready_for_llm_dispatch" also considers missing plugins,
\* so that it is never green while the models are listed and their plugin cannot run.
NoFalseGreen ==
    ReadyForDispatch =>
        \A b \in seen.bindings : b.plugin # NoPlugin => Runs(b.plugin)
=============================================================================
