------------------------------ MODULE AdminActions ------------------------------
(***************************************************************************)
(* Two repairs of docker/admin_service.py that take several steps on state *)
(* others share: ensure-plugin-installed-from-cache copies the packages    *)
(* that are not installed and restarts the plugin daemon; ensure-app-api-  *)
(* token looks for a token and inserts it. Requests run in threads of      *)
(* their own. Two of them may find the same package missing, and the one   *)
(* that opens the copy later truncates what the other one has written. A   *)
(* copy may fail halfway, a command may time out and take effect all the   *)
(* same, and a statement may run on after psql was killed.                 *)
(***************************************************************************)
EXTENDS Integers, FiniteSets

CONSTANTS Repairs,  \* the requests, each served once
          Plugins,  \* what the plugin database registers
          Cached,   \* those whose package is in the cache
          ApiTokens \* the tokens of one app that requests ask for

ASSUME ActionsAssumption == Cached \subseteq Plugins /\ IsFiniteSet(Repairs)

VARIABLES
    installed,  \* the package of each plugin in PLUGIN_INSTALLED_PATH
    loaded,     \* the plugins that the daemon runs
    rows,       \* the rows of each token in api_tokens
    repair,     \* the requests
    reported,   \* the plugins that a request, since they last ran, did not promise to have running
    raced       \* how often a request missed a token whose insertion was under way

actionsVars == <<installed, loaded, rows, repair, reported, raced>>

\* cut: another request truncated the package that this one is writing.
Repair == [pc : {"new", "look", "open", "copy", "restart", "insert", "late", "done"},
           wanted : SUBSET Plugins, left : SUBSET Plugins, copying : SUBSET Plugins,
           cut : BOOLEAN, copied : BOOLEAN, missing : BOOLEAN, restart : BOOLEAN,
           token : SUBSET ApiTokens]

NewRepair == [pc |-> "new", wanted |-> {}, left |-> {}, copying |-> {}, cut |-> FALSE,
              copied |-> FALSE, missing |-> FALSE, restart |-> FALSE, token |-> {}]

ActionsInit ==
    /\ installed = [p \in Plugins |-> "none"]
    /\ loaded = {}
    /\ rows = [t \in ApiTokens |-> 0]
    /\ repair = [r \in Repairs |-> NewRepair]
    /\ reported = {}
    /\ raced = [t \in ApiTokens |-> 0]

\* What the answer promises is told by "reported".
Finish(r) == repair' = [repair EXCEPT ![r] = [NewRepair EXCEPT !.pc = "done"]]

------------------------------------------------------------------------------
(* ensure-plugin-installed-from-cache *)

\* One registered plugin, or all of them.
AskPlugins(r, wanted, restart) ==
    /\ repair[r].pc = "new"
    /\ \/ repair' = [repair EXCEPT ![r] = [NewRepair EXCEPT !.pc = "look", !.wanted = wanted,
                                               !.left = wanted, !.restart = restart]]
       \/ Finish(r)
    /\ UNCHANGED <<installed, loaded, rows, reported, raced>>

\* What is reported stays so until it is whole and runs; what is not there needs no report.
Report(plugins) ==
    reported' = {p \in reported \cup plugins :
                    installed'[p] # "none" /\ (installed'[p] = "whole" => p \notin loaded')}

\* sorted(): all requests go through the identifiers in the same order.
FirstOne(identifiers) == CHOOSE p \in identifiers : TRUE

\* Any file under the name counts as installed.
Look(r, p) ==
    /\ repair[r].pc = "look"
    /\ p \in repair[r].left /\ p = FirstOne(repair[r].left)
    /\ repair' = IF installed[p] = "none" /\ p \in Cached
                 THEN [repair EXCEPT ![r].left = @ \ {p}, ![r].pc = "open", ![r].copying = {p}]
                 ELSE [repair EXCEPT ![r].left = @ \ {p},
                                     ![r].missing = @ \/ installed[p] = "none"]
    /\ UNCHANGED <<installed, loaded, rows, reported, raced>>

\* copy2 opens its target and truncates what another request put there since the check.
OpenTarget(r) ==
    /\ repair[r].pc = "open"
    /\ installed' = [p \in Plugins |-> IF p \in repair[r].copying THEN "partial" ELSE installed[p]]
    /\ repair' = [q \in Repairs |->
                     IF q = r THEN [repair[q] EXCEPT !.pc = "copy"]
                     ELSE IF repair[q].pc = "copy" /\ repair[q].copying = repair[r].copying
                     THEN [repair[q] EXCEPT !.cut = TRUE]
                     ELSE repair[q]]
    /\ UNCHANGED <<loaded, rows, reported, raced>>

Filled(r) == [p \in Plugins |-> IF p \in repair[r].copying THEN "whole" ELSE installed[p]]

\* All is written; where it was cut, the beginning may be lost unless the other wrote it.
Copied(r) ==
    /\ repair[r].pc = "copy"
    /\ installed' = Filled(r) \/ (repair[r].cut /\ UNCHANGED installed)
    /\ repair' = [repair EXCEPT ![r].pc = "look", ![r].copying = {}, ![r].cut = FALSE,
                                ![r].copied = TRUE]
    /\ UNCHANGED <<loaded, rows, reported, raced>>

\* An OSError, even one after the last byte, ends the request with no answer and no audit
\* line; the cut copy stays.
CopyFails(r) ==
    /\ repair[r].pc \in {"open", "copy"}
    /\ UNCHANGED installed \/ (repair[r].pc = "copy" /\ installed' = Filled(r))
    /\ Finish(r)
    /\ UNCHANGED <<loaded, rows, raced>>
    /\ Report(repair[r].wanted)

\* Defect: the answer does not depend on the restart.
RestartIgnored(r, restarted) == ~repair[r].missing

AllDone(r, restarted) == ~repair[r].missing /\ restarted

\* A request that copied and was asked not to restart does not promise that the
\* plugins run.
AnswerPlugins(r, restarted) ==
    LET promised == AllDone(r, restarted) /\ (repair[r].copied => repair[r].restart)
    IN Finish(r) /\ Report(IF promised THEN {} ELSE repair[r].wanted)

AllLooked(r) ==
    /\ repair[r].pc = "look"
    /\ repair[r].left = {}
    /\ UNCHANGED <<installed, loaded, rows, raced>>
    /\ IF repair[r].copied /\ repair[r].restart
       THEN repair' = [repair EXCEPT ![r].pc = "restart"] /\ UNCHANGED reported
       ELSE AnswerPlugins(r, TRUE)

\* A package that is not whole does not load.
Loadable == {p \in Plugins : installed[p] = "whole"}

\* Supervisor restarts the daemon; or it fails; or the command times out after 30
\* seconds although the daemon did restart.
RestartDaemon(r) ==
    /\ repair[r].pc = "restart"
    /\ UNCHANGED <<installed, rows, raced>>
    /\ \/ loaded' = Loadable /\ AnswerPlugins(r, TRUE)
       \/ loaded' \in {loaded, Loadable} /\ AnswerPlugins(r, FALSE)

\* The daemon restarts for another reason: restart-service, an exit.
DaemonRestarts ==
    /\ loaded' = Loadable
    /\ UNCHANGED <<installed, rows, repair, raced>>
    /\ Report({})

------------------------------------------------------------------------------
(* ensure-app-api-token *)

Inserting(r, t) == repair[r].pc \in {"insert", "late"} /\ t \in repair[r].token

\* Defect: the token is inserted whether it exists or not.
NeverExists(t) == FALSE

TokenExists(t) == rows[t] > 0

ReadToken(r, t) ==
    /\ repair[r].pc = "new"
    /\ IF TokenExists(t)
       THEN Finish(r) /\ UNCHANGED raced
       ELSE /\ repair' = [repair EXCEPT ![r].pc = "insert", ![r].token = {t}]
            /\ raced' = IF \E other \in Repairs : Inserting(other, t)
                        THEN [raced EXCEPT ![t] = @ + 1] ELSE raced
    /\ UNCHANGED <<installed, loaded, rows, reported>>

Inserted(r) == rows' = [t \in ApiTokens |-> IF t \in repair[r].token THEN rows[t] + 1 ELSE rows[t]]

\* psql is killed when it times out; the server may still run what it was sent.
Insert(r) ==
    /\ repair[r].pc = "insert"
    /\ \/ Finish(r) /\ Inserted(r)
       \/ Finish(r) /\ UNCHANGED rows
       \/ repair' = [repair EXCEPT ![r].pc = "late"] /\ UNCHANGED rows
    /\ UNCHANGED <<installed, loaded, reported, raced>>

\* The request has long been answered with an error.
LateInsert(r) ==
    /\ repair[r].pc = "late"
    /\ Finish(r)
    /\ Inserted(r)
    /\ UNCHANGED <<installed, loaded, reported, raced>>

ActionsNext ==
    \/ \E r \in Repairs :
           \/ \E wanted \in {{p} : p \in Plugins} \cup {Plugins}, restart \in BOOLEAN :
                  AskPlugins(r, wanted, restart)
           \/ \E p \in Plugins : Look(r, p)
           \/ OpenTarget(r) \/ Copied(r) \/ CopyFails(r) \/ AllLooked(r) \/ RestartDaemon(r)
           \/ \E t \in ApiTokens : ReadToken(r, t)
           \/ Insert(r) \/ LateInsert(r)
    \/ DaemonRestarts

ActionsSpec == ActionsInit /\ [][ActionsNext]_actionsVars

------------------------------------------------------------------------------
(* Properties *)

\* The variables keep their types.
ActionsTypeOK ==
    /\ installed \in [Plugins -> {"none", "partial", "whole"}]
    /\ loaded \subseteq Plugins
    /\ rows \in [ApiTokens -> Nat]
    /\ repair \in [Repairs -> Repair]
    /\ reported \subseteq Plugins
    /\ raced \in [ApiTokens -> Nat]

AtRest == \A r \in Repairs : repair[r].pc \in {"new", "insert", "late", "done"}

\* When no plugin repair is under way, a package that is installed and that the daemon
\* does not run was asked for, since it last ran whole, by a request that did not promise
\* it: that failed, got no answer, or was told not to restart. Requests that overlap never
\* leave one behind that each of them took to be the other's, or to be installed already,
\* though one may truncate what another has installed and the daemon has loaded.
UnloadedIsReported ==
    AtRest => \A p \in Plugins : installed[p] # "none" /\ p \notin loaded => p \in reported

\* A token has no more rows than one and one for each time a request looked for it while the
\* insertion of another one was under way, in a statement that may have outlived its request.
TokensOnce == \A t \in ApiTokens : rows[t] <= 1 + raced[t]
=============================================================================
