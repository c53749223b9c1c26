---------------------------- MODULE ArtifactInstall ----------------------------
(***************************************************************************)
(* How the Dify runtime gets into a container. The publishing workflow     *)
(* puts an archive and then a manifest into a slot of the bucket; at every *)
(* boot docker/dify-artifact-bootstrap downloads the manifest, then the    *)
(* archive it names, and docker/dify_artifact_contract.py verifies,        *)
(* extracts and activates it: the install root becomes a link to a fresh   *)
(* release directory, and what it was before is removed. Then /conf and    *)
(* /dependencies are filled from it.                                       *)
(*                                                                         *)
(* The container may crash between any two file operations that matter to  *)
(* a later boot, which finds the file system as it was or that of a new    *)
(* container. An operation that raises OSError takes the code's cleanup    *)
(* path.                                                                   *)
(*                                                                         *)
(* The bytes of an archive are a payload: the commit it was built from and *)
(* which build of it. The manifest's sha256 identifies the payload.        *)
(***************************************************************************)
EXTENDS Integers, FiniteSets

CONSTANTS Refs,          \* producer commits
          Builds,        \* different archives of one commit
          Nothing,       \* no payload, no ref
          Ids,           \* the uuids that name releases, stages and links
          ImageRoots,    \* what a new container has at the install root
          MaxPublishes,  \* bounds the archives published
          MaxRestarts,   \* bounds the restarts of a container that serves
          MaxCrashes,    \* bounds the crashes during a bootstrap
          MaxFailures    \* bounds the operations that fail

\* No install root, the image's own directory, or a link that leads elsewhere.
AllImageRoots == {"absent", "directory", "foreign"}

ASSUME InstallAssumption ==
    /\ Nothing \notin Refs \cup Ids \cup [ref : Refs, build : Builds]
    /\ ImageRoots \subseteq AllImageRoots
    /\ ImageRoots # {}
    /\ {MaxPublishes, MaxRestarts, MaxCrashes, MaxFailures} \subseteq Nat

Payload == [ref : Refs, build : Builds]

VARIABLES
    archive,     \* the archive of each commit in the slot
    manifest,    \* the payload that the slot's manifest describes
    publishing,  \* the payload whose manifest is still to come
    expected,    \* the Variable DIFY_ARTIFACT_EXPECTED_SOURCE_REF
    root,        \* /opt/dify/runtime
    release,     \* .runtime-release-*
    links,       \* .runtime-next-*
    stages,      \* .runtime-stage-*
    legacy,      \* .runtime-legacy-*: the image's directory, set aside
    conf,        \* /conf and /dependencies
    pc,          \* the next step of the bootstrap
    boot,        \* the local variables of this boot
    spent        \* what is used up of each bound

bucket == <<archive, manifest, publishing, expected>>
files == <<root, release, links, stages, legacy, conf>>
vars == <<bucket, files, pc, boot, spent>>

Tree == [kind : {"none", "partial", "whole"}, of : Payload \cup {Nothing}]
NoTree == [kind |-> "none", of |-> Nothing]
Partly(payload) == [kind |-> "partial", of |-> payload]
Whole(payload) == [kind |-> "whole", of |-> payload]

\* hidden: the archives whose files with a leading dot may be there, too.
Conf == [tree : Tree, hidden : SUBSET Payload]
NoConf == [tree |-> NoTree, hidden |-> {}]

\* id matters where the root is a link to a release.
Root == [kind : AllImageRoots \cup {"release"}, id : Ids \cup {Nothing}]
ImageRoot(kind) == [kind |-> kind, id |-> Nothing]

\* wanted: the Variable when the container started; manifest, archive: the downloaded
\* files; id: the uuid of this installation; previous: the release to remove.
BootState == [wanted : Refs \cup {Nothing}, manifest : Payload \cup {Nothing},
              archive : Payload \cup {Nothing}, id : Ids \cup {Nothing},
              previous : Ids \cup {Nothing}]
NoBoot == [wanted |-> Nothing, manifest |-> Nothing, archive |-> Nothing,
           id |-> Nothing, previous |-> Nothing]

PC == {"down", "manifest", "contract", "archive", "verify", "extract", "validate", "move",
       "link", "aside", "swap", "swap_aside", "drop_legacy", "drop_previous", "dropping",
       "unstage", "conf", "copy", "copying", "serving", "discard", "discard_release",
       "unstage_failed", "exit"}

Budget == [publishes |-> MaxPublishes, restarts |-> MaxRestarts,
           crashes |-> MaxCrashes, failures |-> MaxFailures]

Spend(what) ==
    /\ spent[what] < Budget[what]
    /\ spent' = [spent EXCEPT ![what] = @ + 1]

Init ==
    /\ archive = [ref \in Refs |-> Nothing]
    /\ manifest = Nothing
    /\ publishing = Nothing
    /\ expected = Nothing
    /\ \E kind \in ImageRoots : root = ImageRoot(kind)
    /\ release = [id \in Ids |-> NoTree]
    /\ links = {}
    /\ stages = {}
    /\ legacy = FALSE
    /\ conf = NoConf
    /\ pc = "down"
    /\ boot = NoBoot
    /\ spent = [what \in DOMAIN Budget |-> 0]

-----------------------------------------------------------------------------
(* The publishing workflow, one run at a time, and the operator. *)

\* Defect: the archive's name does not hold the commit.
PublishSameName(payload) ==
    /\ publishing = Nothing
    /\ archive' = [ref \in Refs |-> payload]
    /\ publishing' = payload
    /\ Spend("publishes")
    /\ UNCHANGED <<manifest, expected, files, pc, boot>>

PublishArchive(payload) ==
    /\ publishing = Nothing
    /\ archive' = [archive EXCEPT ![payload.ref] = payload]
    /\ publishing' = payload
    /\ Spend("publishes")
    /\ UNCHANGED <<manifest, expected, files, pc, boot>>

\* The run ends with the manifest, or before it.
PublishManifest ==
    /\ publishing # Nothing
    /\ publishing' = Nothing
    /\ manifest' \in {manifest, publishing}
    /\ UNCHANGED <<archive, expected, files, pc, boot, spent>>

SetExpected ==
    /\ expected' \in Refs \cup {Nothing}
    /\ UNCHANGED <<archive, manifest, publishing, files, pc, boot, spent>>

-----------------------------------------------------------------------------
(* The container ends. *)

\* It comes back with these files, or with those of the image.
Ends ==
    /\ pc' = "down"
    /\ boot' = NoBoot
    /\ \/ UNCHANGED files
       \/ /\ \E kind \in ImageRoots : root' = ImageRoot(kind)
          /\ release' = [id \in Ids |-> NoTree]
          /\ links' = {}
          /\ stages' = {}
          /\ legacy' = FALSE
          /\ conf' = NoConf
    /\ UNCHANGED bucket

Restart ==
    /\ pc = "serving"
    /\ Spend("restarts")
    /\ Ends

Crash ==
    /\ pc \notin {"down", "serving"}
    /\ Spend("crashes")
    /\ Ends

-----------------------------------------------------------------------------
(* dify-artifact-bootstrap: the downloads. *)

Goto(at, to) == pc = at /\ pc' = to

\* The steps that touch no file of the runtime.
Reads(at, to, b) ==
    /\ Goto(at, to)
    /\ boot' = b
    /\ UNCHANGED <<bucket, files, spent>>

\* exit 64, 65 and 66.
Exits(at) ==
    /\ pc = at
    /\ Ends
    /\ UNCHANGED spent

Boot == Reads("down", "manifest", [NoBoot EXCEPT !.wanted = expected])

DownloadManifest ==
    /\ manifest # Nothing
    /\ Reads("manifest", "contract", [boot EXCEPT !.manifest = manifest])

NoManifest == Exits("manifest") /\ manifest = Nothing

\* Defect: a setting that is not there is compared too.
AlwaysCompare == boot.wanted = boot.manifest.ref

AcceptManifest == boot.wanted \in {Nothing, boot.manifest.ref}

load_manifest == Reads("contract", "archive", boot) /\ AcceptManifest

RejectManifest == Exits("contract") /\ ~AcceptManifest

\* A slot with the manifest of a commit has an archive of that commit.
DownloadArchive ==
    Reads("archive", "verify", [boot EXCEPT !.archive = archive[boot.manifest.ref]])

DownloadFails ==
    /\ pc \in {"manifest", "archive"}
    /\ Spend("failures")
    /\ Ends

-----------------------------------------------------------------------------
(* validate_and_extract. *)

\* Defect: the archive's name, which holds the ref, is thought to be enough.
VerifyName == Reads("verify", "extract", boot)

\* Size and sha256 of the archive are those of the manifest.
VerifyArchive ==
    /\ boot.archive = boot.manifest
    /\ Reads("verify", "extract", boot)

RejectArchive == Exits("verify") /\ boot.archive # boot.manifest

\* A name no other file has.
Fresh(id) == release[id].kind = "none" /\ id \notin links \cup stages

Extract ==
    /\ Goto("extract", "validate")
    /\ \E id \in Ids :
           /\ Fresh(id)
           /\ stages' = stages \cup {id}
           /\ boot' = [boot EXCEPT !.id = id]
    /\ UNCHANGED <<bucket, root, release, links, legacy, conf, spent>>

\* The whole tree is there, and has the layout and the lock it must have.
Validate == Reads("validate", "move", boot)

\* The archive cannot be read, or its content is not what the contract demands.
ValidateFails ==
    /\ Goto("validate", "unstage_failed")
    /\ Spend("failures")
    /\ UNCHANGED <<bucket, files, boot>>

-----------------------------------------------------------------------------
(* _atomically_activate_runtime. *)

\* The release that the root is a link to, if this contract made it.
OwnedRelease == IF root.kind = "release" THEN root.id ELSE Nothing

\* os.replace(extracted, release_root)
Move ==
    /\ Goto("move", "link")
    /\ release' = [release EXCEPT ![boot.id] = Whole(boot.archive)]
    /\ boot' = [boot EXCEPT !.previous = OwnedRelease]
    /\ UNCHANGED <<bucket, root, links, stages, legacy, conf, spent>>

\* os.symlink(release_root.name, link_path)
Link ==
    /\ Goto("link", "aside")
    /\ links' = links \cup {boot.id}
    /\ UNCHANGED <<bucket, root, release, stages, legacy, conf, boot, spent>>

\* Defect: a link is moved out of the way like a directory.
SetAnythingAside ==
    /\ root.kind \in {"directory", "release"}
    /\ Goto("aside", "swap_aside")
    /\ root' = ImageRoot("absent")
    /\ legacy' = (root.kind = "directory")
    /\ UNCHANGED <<bucket, release, links, stages, conf, boot, spent>>

\* os.replace(install_root, legacy_path)
SetAside ==
    /\ root.kind = "directory"
    /\ Goto("aside", "swap_aside")
    /\ root' = ImageRoot("absent")
    /\ legacy' = TRUE
    /\ UNCHANGED <<bucket, release, links, stages, conf, boot, spent>>

NothingToSetAside == root.kind # "directory" /\ Reads("aside", "swap", boot)

\* os.replace(link_path, install_root)
Swap ==
    /\ \/ Goto("swap", "drop_previous")
       \/ Goto("swap_aside", "drop_legacy")
    /\ root' = [kind |-> "release", id |-> boot.id]
    /\ links' = links \ {boot.id}
    /\ UNCHANGED <<bucket, release, stages, legacy, conf, boot, spent>>

\* It raises OSError, and the directory goes back, unless that fails too.
SwapFails ==
    /\ \/ Goto("swap", "discard") /\ UNCHANGED <<root, legacy>>
       \/ /\ Goto("swap_aside", "discard")
          /\ \/ root' = ImageRoot("directory") /\ legacy' = FALSE
             \/ UNCHANGED <<root, legacy>>
    /\ Spend("failures")
    /\ UNCHANGED <<bucket, release, links, stages, conf, boot>>

\* So does one of the operations before it.
ActivationFails ==
    /\ \/ Goto("move", "discard")
       \/ Goto("link", "discard")
       \/ Goto("aside", "discard")
    /\ Spend("failures")
    /\ UNCHANGED <<bucket, files, boot>>

\* shutil.rmtree(legacy_path, ignore_errors=True)
DropLegacy ==
    /\ Goto("drop_legacy", "drop_previous")
    /\ legacy' = FALSE
    /\ UNCHANGED <<bucket, root, release, links, stages, conf, boot, spent>>

\* Defect: what the root leads to now is taken for the previous release.
RemoveCurrent ==
    /\ Goto("drop_previous", "dropping")
    /\ release' = [release EXCEPT ![root.id].kind = "partial"]
    /\ boot' = [boot EXCEPT !.previous = root.id]
    /\ UNCHANGED <<bucket, root, links, stages, legacy, conf, spent>>

\* Defect: the previous release stays.
KeepPrevious == boot.previous \in Ids /\ Reads("drop_previous", "unstage", boot)

\* shutil.rmtree(previous_release, ignore_errors=True) takes many operations.
RemovePrevious ==
    /\ Goto("drop_previous", "dropping")
    /\ boot.previous \in Ids
    /\ release' = [release EXCEPT ![boot.previous].kind = "partial"]
    /\ UNCHANGED <<bucket, root, links, stages, legacy, conf, boot, spent>>

PreviousRemoved ==
    /\ Goto("dropping", "unstage")
    /\ release' = [release EXCEPT ![boot.previous] = NoTree]
    /\ UNCHANGED <<bucket, root, links, stages, legacy, conf, boot, spent>>

NoPrevious == boot.previous \notin Ids /\ Reads("drop_previous", "unstage", boot)

\* The finally clause of an activation that failed.
Unlink ==
    /\ Goto("discard", "discard_release")
    /\ links' = links \ {boot.id}
    /\ UNCHANGED <<bucket, root, release, stages, legacy, conf, boot, spent>>

\* It raises OSError as well, and the rest of the clause is skipped.
UnlinkFails ==
    /\ Goto("discard", "unstage_failed")
    /\ boot.id \in links
    /\ Spend("failures")
    /\ UNCHANGED <<bucket, files, boot>>

Discard ==
    /\ Goto("discard_release", "unstage_failed")
    /\ release' = [release EXCEPT ![boot.id] = NoTree]
    /\ UNCHANGED <<bucket, root, links, stages, legacy, conf, boot, spent>>

\* shutil.rmtree(stage, ignore_errors=True)
Unstage ==
    /\ \/ Goto("unstage", "conf")
       \/ Goto("unstage_failed", "exit")
    /\ stages' = stages \ {boot.id}
    /\ UNCHANGED <<bucket, root, release, links, legacy, conf, boot, spent>>

\* rmtree goes on after an error, and leaves what it could not remove.
RemovalFails ==
    /\ \/ Goto("dropping", "unstage")
       \/ Goto("drop_legacy", "drop_previous")
       \/ Goto("discard_release", "unstage_failed")
       \/ Goto("unstage", "conf")
       \/ Goto("unstage_failed", "exit")
    /\ Spend("failures")
    /\ UNCHANGED <<bucket, files, boot>>

\* exit 66.
Rejected == Exits("exit")

-----------------------------------------------------------------------------
(* dify-artifact-bootstrap: the copies. *)

\* rm -rf /conf/* /dependencies/* takes no file whose name begins with a dot.
EmptyConf ==
    /\ Goto("conf", "copy")
    /\ conf' = [conf EXCEPT !.tree = NoTree]
    /\ UNCHANGED <<bucket, root, release, links, stages, legacy, boot, spent>>

\* cp -a of one directory, then of the other, from where the root leads.
StartCopy ==
    /\ Goto("copy", "copying")
    /\ conf' = [tree |-> Partly(release[root.id].of),
                hidden |-> conf.hidden \cup {release[root.id].of}]
    /\ UNCHANGED <<bucket, root, release, links, stages, legacy, boot, spent>>

EndCopy ==
    /\ Goto("copying", "serving")
    /\ conf' = [conf EXCEPT !.tree.kind = "whole"]
    /\ UNCHANGED <<bucket, root, release, links, stages, legacy, boot, spent>>

\* `set -e`
CopyFails ==
    /\ pc \in {"conf", "copy", "copying"}
    /\ Spend("failures")
    /\ Ends

-----------------------------------------------------------------------------
(* The system. *)

\* What the bootstrap does by itself, started again whenever the container is down.
Step ==
    \/ Boot \/ DownloadManifest \/ NoManifest
    \/ load_manifest \/ RejectManifest
    \/ DownloadArchive
    \/ VerifyArchive \/ RejectArchive \/ Extract \/ Validate
    \/ Move \/ Link \/ SetAside \/ NothingToSetAside \/ Swap
    \/ DropLegacy \/ RemovePrevious \/ PreviousRemoved \/ NoPrevious
    \/ Unlink \/ Discard \/ Unstage \/ Rejected
    \/ EmptyConf \/ StartCopy \/ EndCopy

Fails ==
    \/ DownloadFails \/ ValidateFails \/ ActivationFails \/ SwapFails
    \/ UnlinkFails \/ RemovalFails \/ CopyFails

Next ==
    \/ Step
    \/ Fails
    \/ Restart
    \/ Crash
    \/ \E payload \in Payload : PublishArchive(payload)
    \/ PublishManifest
    \/ SetExpected

Spec == Init /\ [][Next]_vars

FairSpec == Spec /\ WF_vars(Step)

-----------------------------------------------------------------------------
(* Properties. *)

\* Every variable has its type.
TypeOK ==
    /\ archive \in [Refs -> Payload \cup {Nothing}]
    /\ \A ref \in Refs : archive[ref] # Nothing => archive[ref].ref = ref
    /\ {manifest, publishing} \subseteq Payload \cup {Nothing}
    /\ expected \in Refs \cup {Nothing}
    /\ root \in Root
    /\ release \in [Ids -> Tree]
    /\ links \in SUBSET Ids
    /\ stages \in SUBSET Ids
    /\ legacy \in BOOLEAN
    /\ conf \in Conf
    /\ pc \in PC
    /\ boot \in BootState
    /\ spent \in [DOMAIN Budget -> Nat]

\* Whatever crashed or failed, in whatever boot, the root never leads to a release that
\* is gone, or that a removal has begun to empty.
RootIsWhole == root.kind = "release" => release[root.id].kind = "whole"

\* What serves is all of the archive that the manifest of this boot describes, with its
\* own /conf and /dependencies, at the commit the Variable asked for: never the build
\* the slot had for this commit before or after. All that an earlier boot can have left in
\* them are hidden files, of one archive for each time this container came back.
ServesSelected ==
    pc = "serving" =>
        /\ root.kind = "release"
        /\ release[root.id] = Whole(boot.manifest)
        /\ conf.tree = Whole(boot.manifest)
        /\ Cardinality(conf.hidden \ {boot.manifest}) <= spent.restarts + spent.crashes + spent.failures
        /\ boot.wanted \in {Nothing, boot.manifest.ref}

\* The boots leave nothing behind without a cause: a release or a stage that is of no use
\* has a crash or a failed operation of its own, and a link that was not swapped in a
\* crash or two failed operations, the second one being its removal.
LeftoversHaveCause ==
    pc \in {"down", "serving"} =>
        LET Unused == {id \in Ids : release[id].kind # "none" /\ ~(root.kind = "release" /\ root.id = id)}
            Causes == spent.crashes + spent.failures
        IN  /\ Cardinality(Unused) <= Causes
            /\ Cardinality(stages) <= Causes
            /\ 2 * Cardinality(links) <= 2 * spent.crashes + spent.failures

\* Until the container ends, a release is replaced by nothing but a release, and the
\* image's own directory, at the root or set aside, goes only when a release is the root.
RuntimeStays ==
    [][pc' # "down" =>
         /\ root.kind \in {"release", "foreign"} => root'.kind \in {root.kind, "release"}
         /\ root.kind = "directory" \/ legacy =>
                root'.kind \in {"directory", "release"} \/ legacy']_vars

\* The slot holds a manifest with its archive, and the Variable is empty or its commit.
Settled ==
    /\ manifest # Nothing
    /\ archive[manifest.ref] = manifest
    /\ publishing = Nothing
    /\ expected \in {Nothing, manifest.ref}

\* Once slot and Variable have settled, a boot serves, whatever the boots before it left
\* in the file system, and wherever a publication caught them.
SettledSlotServes == <>[]Settled => <>[](pc = "serving")
=============================================================================
