-------------------------- MODULE ArtifactInstallProofs --------------------------
(***************************************************************************)
(* What ArtifactInstall guarantees for every set of commits, builds and    *)
(* names, every kind of install root and every value of the bounds. The    *)
(* inductive invariant says, for each point of a boot, what was downloaded *)
(* and checked, and which release is new, active or about to be removed.   *)
(***************************************************************************)
EXTENDS ArtifactInstall, FiniteSetTheorems, TLAPS

USE InstallAssumption

-----------------------------------------------------------------------------
(* The inductive invariant. *)

\* This boot's release is the install root.
Active == {"drop_legacy", "drop_previous", "dropping", "unstage", "conf", "copy", "copying",
           "serving"}

\* It is complete, and becomes the root.
Ready == {"link", "aside", "swap", "swap_aside"}

\* The boot has a name for it that the root does not lead to.
Unrooted == {"validate", "move", "discard", "discard_release"} \cup Ready

\* The archive is the one of the manifest.
Installing == {"extract", "validate", "move"} \cup Ready \cup Active

\* What this boot has downloaded and compared.
BootInv ==
    /\ pc \in {"contract", "archive", "verify"} \cup Installing => boot.manifest \in Payload
    /\ pc \in {"archive", "verify"} \cup Installing => AcceptManifest
    /\ pc \in Installing => boot.archive = boot.manifest
    /\ pc \in Unrooted \cup Active => boot.id \in Ids
    /\ pc = "dropping" => boot.previous \in Ids

\* Which release is whole, and which one is the root.
ReleaseInv ==
    /\ root.kind = "release" => root.id \in Ids /\ release[root.id].kind = "whole"
    /\ pc \in Unrooted /\ root.kind = "release" => root.id # boot.id
    /\ pc \in Ready \cup Active =>
           boot.previous # boot.id /\ release[boot.id] = Whole(boot.manifest)
    /\ pc \in Active => root = [kind |-> "release", id |-> boot.id]

\* How far the copies are.
ConfInv ==
    /\ pc = "copying" => conf.tree = Partly(boot.manifest)
    /\ pc = "serving" => conf.tree = Whole(boot.manifest)

\* While the root is away, its directory is aside.
AsideInv == pc = "swap_aside" => root.kind = "absent"

InstallInv == TypeOK /\ BootInv /\ ReleaseInv /\ ConfInv /\ AsideInv

-----------------------------------------------------------------------------
(* Every step keeps the types. *)

\* What the trees and the bounds are made of.
LEMMA Values ==
    /\ NoTree \in Tree /\ NoConf \in Conf
    /\ \A p \in Payload : Whole(p) \in Tree /\ Partly(p) \in Tree
    /\ \A t \in Tree : [t EXCEPT !.kind = "whole"] \in Tree /\ [t EXCEPT !.kind = "partial"] \in Tree
    /\ NoBoot \in BootState
    /\ \A kind \in ImageRoots : ImageRoot(kind) \in Root
    /\ ImageRoot("absent") \in Root /\ ImageRoot("directory") \in Root
BY DEF NoTree, Tree, Conf, NoConf, Whole, Partly, NoBoot, BootState, ImageRoot, Root, AllImageRoots

\* Using up a bound keeps the counters natural numbers.
LEMMA SpendType ==
    ASSUME TypeOK, NEW what \in DOMAIN Budget, Spend(what)
    PROVE  spent' \in [DOMAIN Budget -> Nat]
BY DEF TypeOK, Spend, Budget

\* The names of the bounds.
LEMMA Bounds == DOMAIN Budget = {"publishes", "restarts", "crashes", "failures"}
BY DEF Budget

\* However the container ends, the invariant holds at the next boot.
LEMMA EndInv ==
    ASSUME InstallInv, Ends, spent' \in [DOMAIN Budget -> Nat]
    PROVE  InstallInv'
<1> USE DEF Ends, InstallInv, bucket, files
<1>1. TypeOK' BY Values DEF TypeOK, PC
<1>2. BootInv' BY DEF BootInv, Unrooted, Active, Ready, Installing
<1>3. ReleaseInv' BY DEF ReleaseInv, Unrooted, Active, Ready, ImageRoot, AllImageRoots
<1>4. ConfInv' /\ AsideInv' BY DEF ConfInv, AsideInv
<1>5. QED BY <1>1, <1>2, <1>3, <1>4

\* The invariant holds before the first boot.
LEMMA InitInv == Init => InstallInv
<1> SUFFICES ASSUME Init PROVE InstallInv OBVIOUS
<1> USE DEF Init
<1>1. TypeOK
  <2>1. spent \in [DOMAIN Budget -> Nat] BY DEF Budget
  <2>2. QED BY <2>1, Values DEF TypeOK, PC
<1>2. BootInv BY DEF BootInv, Unrooted, Active, Ready, Installing
<1>3. ReleaseInv BY DEF ReleaseInv, Unrooted, Active, Ready, ImageRoot, AllImageRoots
<1>4. ConfInv /\ AsideInv BY DEF ConfInv, AsideInv
<1>5. QED BY <1>1, <1>2, <1>3, <1>4 DEF InstallInv

-----------------------------------------------------------------------------
(* Every step keeps it. *)

\* What happens in the bucket leaves container and boot alone.
LEMMA BucketInv ==
    ASSUME InstallInv,
           (\E payload \in Payload : PublishArchive(payload)) \/ PublishManifest \/ SetExpected
    PROVE  InstallInv' /\ UNCHANGED <<files, pc, boot>>
<1> USE DEF InstallInv, files
<1>1. UNCHANGED <<files, pc, boot>> BY DEF PublishArchive, PublishManifest, SetExpected
<1>2. TypeOK'
  <2>1. ASSUME NEW payload \in Payload, PublishArchive(payload) PROVE TypeOK'
    <3>1. spent' \in [DOMAIN Budget -> Nat]
      BY <2>1, SpendType, Bounds DEF PublishArchive
    <3>2. archive' \in [Refs -> Payload \cup {Nothing}]
          /\ \A ref \in Refs : archive'[ref] # Nothing => archive'[ref].ref = ref
      BY <2>1 DEF PublishArchive, TypeOK, Payload
    <3>3. QED BY <2>1, <1>1, <3>1, <3>2 DEF PublishArchive, TypeOK
  <2>2. CASE PublishManifest BY <2>2 DEF PublishManifest, TypeOK
  <2>3. CASE SetExpected BY <2>3 DEF SetExpected, TypeOK
  <2>4. QED BY <2>1, <2>2, <2>3
<1>3. BootInv' BY <1>1 DEF BootInv, AcceptManifest
<1>4. ReleaseInv' /\ ConfInv' /\ AsideInv' BY <1>1 DEF ReleaseInv, ConfInv, AsideInv
<1>5. QED BY <1>1, <1>2, <1>3, <1>4

\* Every way a container ends: a restart, a crash, a boot that exits.
LEMMA EndsInv ==
    ASSUME InstallInv,
           \/ NoManifest \/ RejectManifest \/ RejectArchive \/ Rejected
           \/ DownloadFails \/ CopyFails \/ Restart \/ Crash
    PROVE  InstallInv' /\ pc' = "down"
<1>1. TypeOK BY DEF InstallInv
<1>2. Ends
  BY DEF NoManifest, RejectManifest, RejectArchive, Rejected, Exits,
         DownloadFails, CopyFails, Restart, Crash
<1>3. spent' \in [DOMAIN Budget -> Nat]
  <2>1. CASE NoManifest \/ RejectManifest \/ RejectArchive \/ Rejected
    BY <1>1, <2>1 DEF NoManifest, RejectManifest, RejectArchive, Rejected, Exits, TypeOK
  <2>2. CASE DownloadFails \/ CopyFails \/ Restart \/ Crash
    BY <1>1, <2>2, SpendType, Bounds DEF DownloadFails, CopyFails, Restart, Crash
  <2>3. QED BY <2>1, <2>2
<1>4. QED BY <1>2, <1>3, EndInv DEF Ends

\* The steps of the downloads and the checks change the boot's variables only.
LEMMA ReadsInv ==
    ASSUME InstallInv,
           \/ Boot \/ DownloadManifest \/ load_manifest \/ DownloadArchive \/ VerifyArchive
           \/ Validate \/ NothingToSetAside \/ NoPrevious
    PROVE  InstallInv' /\ UNCHANGED files
<1> USE DEF InstallInv, Reads, Goto, bucket, files
<1>1. CASE Boot
  <2>1. TypeOK' BY <1>1 DEF Boot, TypeOK, PC, NoBoot, BootState
  <2>2. QED BY <1>1, <2>1 DEF Boot, BootInv, ReleaseInv, ConfInv, AsideInv, Unrooted, Active, Ready, Installing
<1>2. CASE DownloadManifest
  <2>1. TypeOK' BY <1>2 DEF DownloadManifest, TypeOK, PC, BootState
  <2>2. boot'.manifest \in Payload BY <1>2 DEF DownloadManifest, TypeOK, BootState
  <2>3. QED BY <1>2, <2>1, <2>2 DEF DownloadManifest, BootInv, ReleaseInv, ConfInv, AsideInv, Unrooted, Active, Ready, Installing
<1>3. CASE load_manifest
  <2>1. TypeOK' BY <1>3 DEF load_manifest, TypeOK, PC
  <2>2. AcceptManifest' BY <1>3 DEF load_manifest, AcceptManifest
  <2>3. QED BY <1>3, <2>1, <2>2 DEF load_manifest, BootInv, ReleaseInv, ConfInv, AsideInv, Unrooted, Active, Ready, Installing
<1>4. CASE DownloadArchive
  <2>1. boot.manifest \in Payload BY <1>4 DEF DownloadArchive, BootInv
  <2>2. boot.manifest.ref \in Refs BY <2>1 DEF Payload
  <2>3. TypeOK' BY <1>4, <2>2 DEF DownloadArchive, TypeOK, PC, BootState
  <2>4. boot'.manifest = boot.manifest /\ boot'.wanted = boot.wanted
    BY <1>4 DEF DownloadArchive, TypeOK, BootState
  <2>5. AcceptManifest' BY <1>4, <2>4 DEF DownloadArchive, BootInv, AcceptManifest
  <2>6. QED BY <1>4, <2>1, <2>3, <2>4, <2>5 DEF DownloadArchive, BootInv, ReleaseInv, ConfInv, AsideInv, Unrooted, Active, Ready, Installing
<1>5. CASE VerifyArchive \/ Validate \/ NothingToSetAside \/ NoPrevious
  <2> USE DEF VerifyArchive, Validate, NothingToSetAside, NoPrevious
  <2>1. TypeOK' BY <1>5 DEF TypeOK, PC
  <2>2. BootInv' BY <1>5 DEF BootInv, AcceptManifest, Unrooted, Active, Ready, Installing
  <2>3. ReleaseInv' BY <1>5 DEF ReleaseInv, Unrooted, Active, Ready
  <2>4. ConfInv' /\ AsideInv' BY <1>5 DEF ConfInv, AsideInv
  <2>5. QED BY <1>5, <2>1, <2>2, <2>3, <2>4
<1>6. QED BY <1>1, <1>2, <1>3, <1>4, <1>5

\* Extraction and activation: the new release is never the root before the swap, and the
\* previous one never after it.
LEMMA ActivateInv ==
    ASSUME InstallInv,
           Extract \/ Move \/ Link \/ SetAside \/ Swap
    PROVE  InstallInv'
<1> USE DEF InstallInv, Goto, bucket, files
<1>1. CASE Extract
  <2> PICK id \in Ids : Fresh(id) /\ stages' = stages \cup {id} /\ boot' = [boot EXCEPT !.id = id]
    BY <1>1 DEF Extract
  <2>1. UNCHANGED <<bucket, root, release, links, legacy, conf, spent>> /\ pc = "extract" /\ pc' = "validate"
    BY <1>1 DEF Extract
  <2>2. TypeOK' BY <2>1 DEF TypeOK, PC, BootState
  <2>3. /\ boot'.id = id /\ boot'.manifest = boot.manifest /\ boot'.archive = boot.archive
        /\ boot'.wanted = boot.wanted
    BY DEF TypeOK, BootState
  <2>4. BootInv' BY <2>1, <2>3 DEF BootInv, AcceptManifest, Unrooted, Active, Ready, Installing
  <2>5. ReleaseInv' BY <2>1, <2>3 DEF ReleaseInv, Fresh, Unrooted, Active, Ready
  <2>6. QED BY <2>1, <2>2, <2>4, <2>5 DEF ConfInv, AsideInv
<1>2. CASE Move
  <2>1. /\ pc = "move" /\ pc' = "link"
        /\ release' = [release EXCEPT ![boot.id] = Whole(boot.archive)]
        /\ boot' = [boot EXCEPT !.previous = OwnedRelease]
        /\ UNCHANGED <<bucket, root, links, stages, legacy, conf, spent>>
    BY <1>2 DEF Move
  <2>2. boot.archive = boot.manifest /\ boot.manifest \in Payload /\ boot.id \in Ids /\ AcceptManifest
    BY <2>1 DEF BootInv, Installing, Unrooted
  <2>3. OwnedRelease \in Ids \cup {Nothing} /\ OwnedRelease # boot.id
    BY <2>1, <2>2 DEF OwnedRelease, TypeOK, Root, ReleaseInv, Unrooted
  <2>4. /\ boot'.id = boot.id /\ boot'.manifest = boot.manifest /\ boot'.archive = boot.archive
        /\ boot'.wanted = boot.wanted /\ boot'.previous = OwnedRelease
    BY <2>1 DEF TypeOK, BootState
  <2>5. TypeOK' BY <2>1, <2>2, <2>3, Values DEF TypeOK, PC, BootState
  <2>6. BootInv' BY <2>1, <2>2, <2>4 DEF BootInv, AcceptManifest, Unrooted, Active, Ready, Installing
  <2>7. ReleaseInv' BY <2>1, <2>2, <2>3, <2>4 DEF ReleaseInv, TypeOK, Unrooted, Active, Ready
  <2>8. QED BY <2>1, <2>5, <2>6, <2>7 DEF ConfInv, AsideInv
<1>3. CASE Link \/ SetAside \/ Swap
  <2> USE DEF Link, SetAside, Swap
  <2>0. pc \in Ready /\ boot.id \in Ids /\ boot' = boot
    BY <1>3 DEF Ready, BootInv, Unrooted
  <2>1. TypeOK'
    <3>1. CASE Link BY <2>0, <3>1 DEF TypeOK, PC
    <3>2. CASE SetAside BY <3>2, Values DEF TypeOK, PC
    <3>3. CASE Swap
      <4>1. root' \in Root BY <2>0, <3>3 DEF Root
      <4>2. QED BY <2>0, <3>3, <4>1 DEF TypeOK, PC
    <3>4. QED BY <1>3, <3>1, <3>2, <3>3
  <2>2. BootInv' BY <1>3 DEF BootInv, AcceptManifest, Unrooted, Active, Ready, Installing
  <2>3. ReleaseInv'
    BY <1>3, <2>0 DEF ReleaseInv, ImageRoot, Whole, Unrooted, Active, Ready
  <2>4. ConfInv' /\ AsideInv' BY <1>3 DEF ConfInv, AsideInv, ImageRoot
  <2>5. QED BY <2>1, <2>2, <2>3, <2>4
<1>4. QED BY <1>1, <1>2, <1>3

\* What is removed after an activation, or after a failed one, is not the root.
LEMMA CleanupInv ==
    ASSUME InstallInv,
           DropLegacy \/ RemovePrevious \/ PreviousRemoved \/ Unlink \/ Discard \/ Unstage
    PROVE  InstallInv' /\ root' = root
<1> USE DEF InstallInv, Goto, bucket, files
<1>1. CASE DropLegacy \/ Unlink \/ Unstage
  <2> USE DEF DropLegacy, Unlink, Unstage
  <2>1. TypeOK' BY <1>1 DEF TypeOK, PC
  <2>2. BootInv' BY <1>1 DEF BootInv, AcceptManifest, Unrooted, Active, Ready, Installing
  <2>3. ReleaseInv' BY <1>1 DEF ReleaseInv, Unrooted, Active, Ready
  <2>4. ConfInv' /\ AsideInv' BY <1>1 DEF ConfInv, AsideInv
  <2>5. QED BY <1>1, <2>1, <2>2, <2>3, <2>4
<1>2. CASE RemovePrevious
  <2>1. /\ pc = "drop_previous" /\ pc' = "dropping" /\ boot.previous \in Ids
        /\ release' = [release EXCEPT ![boot.previous] = [@ EXCEPT !.kind = "partial"]]
        /\ UNCHANGED <<bucket, root, links, stages, legacy, conf, boot, spent>>
    BY <1>2 DEF RemovePrevious
  <2>2. TypeOK'
    <3>1. [release[boot.previous] EXCEPT !.kind = "partial"] \in Tree BY <2>1, Values DEF TypeOK
    <3>2. release' \in [Ids -> Tree] BY <2>1, <3>1 DEF TypeOK
    <3>3. QED BY <2>1, <3>2 DEF TypeOK, PC
  <2>3. BootInv' BY <2>1 DEF BootInv, AcceptManifest, Unrooted, Active, Ready, Installing
  <2>4. boot.previous # boot.id /\ boot.id \in Ids /\ root.id = boot.id
    BY <2>1 DEF ReleaseInv, BootInv, Active
  <2>5. release'[boot.id] = release[boot.id] BY <2>1, <2>4 DEF TypeOK
  <2>6. ReleaseInv' BY <2>1, <2>4, <2>5 DEF ReleaseInv, Unrooted, Active, Ready
  <2>7. QED BY <2>1, <2>2, <2>3, <2>6 DEF ConfInv, AsideInv
<1>3. CASE PreviousRemoved
  <2>1. /\ pc = "dropping" /\ pc' = "unstage" /\ boot.previous \in Ids
        /\ release' = [release EXCEPT ![boot.previous] = NoTree]
        /\ UNCHANGED <<bucket, root, links, stages, legacy, conf, boot, spent>>
    BY <1>3 DEF PreviousRemoved, BootInv
  <2>2. TypeOK' BY <2>1, Values DEF TypeOK, PC
  <2>3. BootInv' BY <2>1 DEF BootInv, AcceptManifest, Unrooted, Active, Ready, Installing
  <2>4. boot.previous # boot.id /\ boot.id \in Ids /\ root.id = boot.id
    BY <2>1 DEF ReleaseInv, BootInv, Active
  <2>5. release'[boot.id] = release[boot.id] BY <2>1, <2>4 DEF TypeOK
  <2>6. ReleaseInv' BY <2>1, <2>4, <2>5 DEF ReleaseInv, Unrooted, Active, Ready
  <2>7. QED BY <2>1, <2>2, <2>3, <2>6 DEF ConfInv, AsideInv
<1>4. CASE Discard
  <2>1. /\ pc = "discard_release" /\ pc' = "unstage_failed"
        /\ release' = [release EXCEPT ![boot.id] = NoTree]
        /\ UNCHANGED <<bucket, root, links, stages, legacy, conf, boot, spent>>
    BY <1>4 DEF Discard
  <2>2. TypeOK' BY <2>1, Values DEF TypeOK, PC
  <2>3. BootInv' BY <2>1 DEF BootInv, AcceptManifest, Unrooted, Active, Ready, Installing
  <2>4. ReleaseInv' BY <2>1 DEF ReleaseInv, TypeOK, Unrooted, Active, Ready
  <2>5. QED BY <2>1, <2>2, <2>3, <2>4 DEF ConfInv, AsideInv
<1>5. QED BY <1>1, <1>2, <1>3, <1>4

\* The copies come from the release that this boot made the root.
LEMMA CopyInv ==
    ASSUME InstallInv,
           EmptyConf \/ StartCopy \/ EndCopy
    PROVE  InstallInv' /\ root' = root
<1> USE DEF InstallInv, EmptyConf, StartCopy, EndCopy, Goto, bucket, files
<1>1. pc \in Active /\ boot.manifest \in Payload
  BY DEF BootInv, Active, Installing
<1>2. root.id = boot.id /\ release[boot.id] = Whole(boot.manifest)
  BY <1>1 DEF ReleaseInv
<1>3. StartCopy => conf' = [tree |-> Partly(boot.manifest), hidden |-> conf.hidden \cup {boot.manifest}]
  BY <1>2 DEF Whole
<1>4. EndCopy => conf'.tree = Whole(boot.manifest)
  BY DEF TypeOK, Conf, ConfInv, Partly, Whole
<1>5. TypeOK'
  <2>1. conf \in Conf /\ conf.tree \in Tree /\ conf.hidden \subseteq Payload BY DEF TypeOK, Conf
  <2>2. [conf EXCEPT !.tree = NoTree] \in Conf
        /\ [conf EXCEPT !.tree = [conf.tree EXCEPT !.kind = "whole"]] \in Conf
    BY <2>1, Values DEF Conf
  <2>3. conf' \in Conf BY <1>1, <1>3, <2>1, <2>2, Values DEF Conf
  <2>4. QED BY <2>3 DEF TypeOK, PC
<1>6. BootInv' BY DEF BootInv, AcceptManifest, Unrooted, Active, Ready, Installing
<1>7. ReleaseInv' BY DEF ReleaseInv, Unrooted, Active, Ready
<1>8. ConfInv' /\ AsideInv' BY <1>3, <1>4 DEF ConfInv, AsideInv
<1>9. QED BY <1>5, <1>6, <1>7, <1>8

\* An operation that fails leaves a whole root, or none where the image's directory was.
LEMMA FailsInv ==
    ASSUME InstallInv,
           ValidateFails \/ ActivationFails \/ SwapFails \/ UnlinkFails \/ RemovalFails
    PROVE  InstallInv'
<1> USE DEF InstallInv, ValidateFails, ActivationFails, SwapFails, UnlinkFails, RemovalFails,
            Goto, bucket, files
<1>1. spent' \in [DOMAIN Budget -> Nat] BY SpendType, Bounds
<1>2. root' \in Root /\ (root' = root \/ root'.kind = "directory") /\ legacy' \in BOOLEAN
  <2>1. CASE SwapFails
    <3>1. root' \in {root, ImageRoot("directory")} /\ legacy' \in {legacy, FALSE} BY <2>1
    <3>2. legacy \in BOOLEAN BY DEF TypeOK
    <3>3. legacy' \in BOOLEAN BY <3>1, <3>2, Zenon
    <3>4. root' \in Root /\ (root' = root \/ root'.kind = "directory")
      BY <3>1, Values DEF TypeOK, ImageRoot
    <3>5. QED BY <3>3, <3>4
  <2>2. CASE ValidateFails \/ ActivationFails \/ UnlinkFails \/ RemovalFails BY <2>2 DEF TypeOK
  <2>3. QED BY <2>1, <2>2
<1>3. UNCHANGED <<bucket, release, links, stages, conf, boot>> OBVIOUS
<1>4. TypeOK' BY <1>1, <1>2, <1>3 DEF TypeOK, PC
<1>5. BootInv' BY DEF BootInv, AcceptManifest, Unrooted, Active, Ready, Installing
<1>6. ReleaseInv'
  <2>1. CASE SwapFails BY <1>2, <1>3, <2>1 DEF ReleaseInv, Unrooted, Active, Ready
  <2>2. CASE ValidateFails \/ ActivationFails \/ UnlinkFails \/ RemovalFails
    BY <2>2 DEF ReleaseInv, Unrooted, Active, Ready
  <2>3. QED BY <2>1, <2>2
<1>7. ConfInv' /\ AsideInv' BY DEF ConfInv, AsideInv
<1>8. QED BY <1>4, <1>5, <1>6, <1>7

\* Stuttering keeps it.
LEMMA StutterInv == InstallInv /\ UNCHANGED vars => InstallInv'
BY DEF InstallInv, vars, bucket, files, TypeOK, BootInv, AcceptManifest, ReleaseInv, ConfInv, AsideInv

\* So does the system.
LEMMA NextInv == InstallInv /\ [Next]_vars => InstallInv'
<1> SUFFICES ASSUME InstallInv, [Next]_vars PROVE InstallInv' OBVIOUS
<1>1. CASE Step BY <1>1, EndsInv, ReadsInv, ActivateInv, CleanupInv, CopyInv DEF Step
<1>2. CASE Fails BY <1>2, EndsInv, FailsInv DEF Fails
<1>3. CASE Restart \/ Crash BY <1>3, EndsInv
<1>4. CASE (\E payload \in Payload : PublishArchive(payload)) \/ PublishManifest \/ SetExpected
  BY <1>4, BucketInv
<1>5. CASE UNCHANGED vars BY <1>5, StutterInv
<1>6. QED BY <1>1, <1>2, <1>3, <1>4, <1>5 DEF Next

-----------------------------------------------------------------------------
(* The theorems. *)

\* The inductive invariant holds in every reachable state of the installation.
THEOREM InstallInvariance == Spec => []InstallInv
<1>1. QED BY InitInv, NextInv, PTL DEF Spec

\* Every variable keeps its type, whatever crashes and fails.
THEOREM InstallTypeCorrect == Spec => []TypeOK
<1>1. InstallInv => TypeOK BY DEF InstallInv
<1>2. QED BY <1>1, InstallInvariance, PTL

\* The root never leads to a release that is gone or that a removal has begun to empty.
THEOREM RootStaysWhole == Spec => []RootIsWhole
<1>1. InstallInv => RootIsWhole BY DEF InstallInv, ReleaseInv, RootIsWhole
<1>2. QED BY <1>1, InstallInvariance, PTL

\* What RuntimeStays says of a step.
KeepsRuntime ==
    pc' # "down" =>
        /\ root.kind \in {"release", "foreign"} => root'.kind \in {root.kind, "release"}
        /\ root.kind = "directory" \/ legacy =>
               root'.kind \in {"directory", "release"} \/ legacy'

\* Only the end of the container takes the active runtime away.
THEOREM RuntimeIsKept == Spec => RuntimeStays
<1>1. ASSUME InstallInv, [Next]_vars PROVE [KeepsRuntime]_vars
  <2> USE <1>1 DEF KeepsRuntime, InstallInv, files
  <2>1. CASE Step
    <3>1. CASE \/ NoManifest \/ RejectManifest \/ RejectArchive \/ Rejected
      BY <3>1, EndsInv
    <3>2. CASE \/ Boot \/ DownloadManifest \/ load_manifest \/ DownloadArchive \/ VerifyArchive
               \/ Validate \/ NothingToSetAside \/ NoPrevious
      BY <3>2, ReadsInv
    <3>3. CASE Extract \/ Move \/ Link \/ SetAside \/ Swap
      BY <3>3 DEF Extract, Move, Link, SetAside, Swap
    <3>4. CASE DropLegacy
      BY <3>4 DEF DropLegacy, Goto, ReleaseInv, Active
    <3>5. CASE RemovePrevious \/ PreviousRemoved \/ Unlink \/ Discard \/ Unstage
      BY <3>5 DEF RemovePrevious, PreviousRemoved, Unlink, Discard, Unstage
    <3>6. CASE EmptyConf \/ StartCopy \/ EndCopy
      BY <3>6 DEF EmptyConf, StartCopy, EndCopy
    <3>7. QED BY <2>1, <3>1, <3>2, <3>3, <3>4, <3>5, <3>6 DEF Step
  <2>2. CASE Fails
    <3>1. CASE DownloadFails \/ CopyFails BY <3>1, EndsInv
    <3>2. CASE ValidateFails \/ ActivationFails \/ UnlinkFails \/ RemovalFails
      BY <3>2 DEF ValidateFails, ActivationFails, UnlinkFails, RemovalFails
    <3>3. CASE SwapFails BY <3>3 DEF SwapFails, Goto, AsideInv, ImageRoot
    <3>4. QED BY <2>2, <3>1, <3>2, <3>3 DEF Fails
  <2>3. CASE Restart \/ Crash BY <2>3, EndsInv
  <2>4. CASE (\E payload \in Payload : PublishArchive(payload)) \/ PublishManifest \/ SetExpected
    BY <2>4, BucketInv
  <2>5. CASE UNCHANGED vars BY <2>5
  <2>6. QED BY <2>1, <2>2, <2>3, <2>4, <2>5 DEF Next
<1>2. [][KeepsRuntime]_vars => RuntimeStays BY DEF KeepsRuntime, RuntimeStays
<1>3. QED BY <1>1, <1>2, InstallInvariance, PTL DEF Spec

-----------------------------------------------------------------------------
(* ServesSelected *)

\* A set that grows by one element at most.
LEMMA OneMore ==
    ASSUME NEW S, IsFiniteSet(S), NEW x, NEW T, T \subseteq S \cup {x}
    PROVE  IsFiniteSet(T) /\ Cardinality(T) \in Nat /\ Cardinality(T) <= Cardinality(S) + 1
<1>1. Cardinality(S) \in Nat BY FS_CardinalityType
<1>2. IsFiniteSet(S \cup {x}) /\ Cardinality(S \cup {x}) <= Cardinality(S) + 1
  BY <1>1, FS_AddElement
<1>3. IsFiniteSet(T) /\ Cardinality(T) <= Cardinality(S \cup {x}) BY <1>2, FS_Subset
<1>4. Cardinality(T) \in Nat /\ Cardinality(S \cup {x}) \in Nat BY <1>2, <1>3, FS_CardinalityType
<1>5. QED BY <1>1, <1>2, <1>3, <1>4

\* A set that does not grow.
LEMMA NoMore ==
    ASSUME NEW S, IsFiniteSet(S), NEW T, T \subseteq S
    PROVE  IsFiniteSet(T) /\ Cardinality(T) \in Nat /\ Cardinality(T) <= Cardinality(S)
BY FS_Subset, FS_CardinalityType

\* The counters.
LEMMA Counters ==
    ASSUME TypeOK
    PROVE  spent.restarts \in Nat /\ spent.crashes \in Nat /\ spent.failures \in Nat
BY Bounds DEF TypeOK

\* A restart, a crash or a failure is counted as one more.
LEMMA Counted ==
    ASSUME TypeOK, NEW what \in DOMAIN Budget, Spend(what)
    PROVE  /\ spent'.restarts = spent.restarts + (IF what = "restarts" THEN 1 ELSE 0)
           /\ spent'.crashes = spent.crashes + (IF what = "crashes" THEN 1 ELSE 0)
           /\ spent'.failures = spent.failures + (IF what = "failures" THEN 1 ELSE 0)
BY Bounds DEF TypeOK, Spend

\* The hidden files of earlier boots: from a copy on, those that it does not overwrite.
Copying == {"copying", "serving"}
Foreign == IF pc \in Copying THEN conf.hidden \ {boot.manifest} ELSE conf.hidden
Comebacks == spent.restarts + spent.crashes + spent.failures

\* Each archive among them has a boot that copied it, and an end of its own.
HiddenInv == IsFiniteSet(Foreign) /\ Cardinality(Foreign) <= Comebacks

\* No archive is added to them.
LEMMA HiddenSame ==
    ASSUME TypeOK, HiddenInv, Foreign' \subseteq Foreign,
           spent'.restarts \in {spent.restarts, spent.restarts + 1},
           spent'.crashes \in {spent.crashes, spent.crashes + 1},
           spent'.failures \in {spent.failures, spent.failures + 1}
    PROVE  HiddenInv'
<1>1. IsFiniteSet(Foreign') /\ Cardinality(Foreign') \in Nat
      /\ Cardinality(Foreign') <= Cardinality(Foreign)
  BY NoMore DEF HiddenInv
<1>2. Cardinality(Foreign) \in Nat BY FS_CardinalityType DEF HiddenInv
<1>3. Comebacks \in Nat /\ Comebacks' \in Nat /\ Comebacks <= Comebacks' BY Counters DEF Comebacks
<1>4. QED BY <1>1, <1>2, <1>3 DEF HiddenInv

\* A container that ends leaves the hidden files that its boot copied.
LEMMA HiddenEnds ==
    ASSUME InstallInv, HiddenInv,
           \/ NoManifest \/ RejectManifest \/ RejectArchive \/ Rejected
           \/ DownloadFails \/ CopyFails \/ Restart \/ Crash
    PROVE  HiddenInv'
<1> USE DEF InstallInv, files
<1>e. Ends
  BY DEF NoManifest, RejectManifest, RejectArchive, Rejected, Exits,
         DownloadFails, CopyFails, Restart, Crash
<1>1. Foreign' \subseteq conf.hidden
  <2>1. pc' = "down" /\ (conf' = conf \/ conf' = NoConf) BY <1>e DEF Ends
  <2>2. QED BY <2>1 DEF Foreign, Copying, NoConf
<1>2. CASE NoManifest \/ RejectManifest \/ RejectArchive \/ Rejected
  <2>1. UNCHANGED spent /\ pc \notin Copying
    BY <1>2 DEF NoManifest, RejectManifest, RejectArchive, Rejected, Exits, Copying
  <2>2. QED BY <1>1, <2>1, HiddenSame DEF Foreign
<1>3. CASE DownloadFails \/ CopyFails \/ Restart \/ Crash
  <2>1. PICK what \in {"restarts", "crashes", "failures"} : Spend(what)
    BY <1>3 DEF DownloadFails, CopyFails, Restart, Crash
  <2>2. Comebacks' = Comebacks + 1 /\ Comebacks \in Nat
    BY <2>1, Counted, Counters, Bounds DEF Comebacks
  <2>3. Foreign' \subseteq Foreign \cup {boot.manifest} BY <1>1 DEF Foreign
  <2>4. IsFiniteSet(Foreign') /\ Cardinality(Foreign') \in Nat
        /\ Cardinality(Foreign') <= Cardinality(Foreign) + 1
    BY <2>3, OneMore DEF HiddenInv
  <2>5. Cardinality(Foreign) \in Nat BY FS_CardinalityType DEF HiddenInv
  <2>6. QED BY <2>2, <2>4, <2>5 DEF HiddenInv
<1>4. QED BY <1>2, <1>3

\* The steps up to the copies, and the failures among them, leave the hidden files alone.
LEMMA HiddenFrame ==
    ASSUME InstallInv, HiddenInv,
           \/ Boot \/ DownloadManifest \/ load_manifest \/ DownloadArchive \/ VerifyArchive
           \/ Validate \/ NothingToSetAside \/ NoPrevious
           \/ Extract \/ Move \/ Link \/ SetAside \/ Swap
           \/ DropLegacy \/ RemovePrevious \/ PreviousRemoved \/ Unlink \/ Discard \/ Unstage
           \/ ValidateFails \/ ActivationFails \/ SwapFails \/ UnlinkFails \/ RemovalFails
    PROVE  HiddenInv'
<1> USE DEF Goto, files, bucket
<1>1. pc \notin Copying /\ pc' \notin Copying /\ UNCHANGED conf
  <2> USE DEF Copying
  <2>1. CASE \/ Boot \/ DownloadManifest \/ load_manifest \/ DownloadArchive \/ VerifyArchive
             \/ Validate \/ NothingToSetAside \/ NoPrevious
    BY <2>1 DEF Reads, Boot, DownloadManifest, load_manifest, DownloadArchive, VerifyArchive,
                Validate, NothingToSetAside, NoPrevious
  <2>2. CASE Extract \/ Move \/ Link \/ SetAside \/ Swap
    BY <2>2 DEF Extract, Move, Link, SetAside, Swap
  <2>3. CASE DropLegacy \/ RemovePrevious \/ PreviousRemoved \/ Unlink \/ Discard \/ Unstage
    BY <2>3 DEF DropLegacy, RemovePrevious, PreviousRemoved, Unlink, Discard, Unstage
  <2>4. CASE ValidateFails \/ ActivationFails \/ SwapFails \/ UnlinkFails \/ RemovalFails
    BY <2>4 DEF ValidateFails, ActivationFails, SwapFails, UnlinkFails, RemovalFails
  <2>5. QED BY <2>1, <2>2, <2>3, <2>4
<1>2. spent' = spent \/ Spend("failures")
  BY DEF Reads, Boot, DownloadManifest, load_manifest, DownloadArchive, VerifyArchive,
         Validate, NothingToSetAside, NoPrevious, Extract, Move, Link, SetAside, Swap,
         DropLegacy, RemovePrevious, PreviousRemoved, Unlink, Discard, Unstage,
         ValidateFails, ActivationFails, SwapFails, UnlinkFails, RemovalFails
<1>3. /\ spent'.restarts = spent.restarts /\ spent'.crashes = spent.crashes
      /\ spent'.failures \in {spent.failures, spent.failures + 1}
  BY <1>2, Counted, Counters, Bounds DEF InstallInv
<1>4. Foreign' = Foreign BY <1>1 DEF Foreign
<1>5. QED BY <1>3, <1>4, HiddenSame DEF InstallInv

\* A copy adds the hidden files of its own archive.
LEMMA HiddenCopies ==
    ASSUME InstallInv, HiddenInv, EmptyConf \/ StartCopy \/ EndCopy
    PROVE  HiddenInv'
<1> USE DEF InstallInv, Goto, bucket
<1>1. UNCHANGED <<spent, boot>> BY DEF EmptyConf, StartCopy, EndCopy
<1>2. conf \in Conf BY DEF TypeOK
<1>3. CASE EmptyConf
  <2>1. conf'.hidden = conf.hidden /\ pc \notin Copying /\ pc' \notin Copying
    BY <1>2, <1>3 DEF EmptyConf, Copying, Conf
  <2>2. QED BY <1>1, <2>1, HiddenSame DEF Foreign
<1>4. CASE StartCopy
  <2>1. pc = "copy" /\ pc' = "copying" BY <1>4 DEF StartCopy
  <2>2. release[root.id].of = boot.manifest BY <2>1 DEF ReleaseInv, Active, Whole
  <2>3. conf'.hidden = conf.hidden \cup {boot.manifest} BY <1>4, <2>2 DEF StartCopy
  <2>4. Foreign' \subseteq Foreign BY <1>1, <2>1, <2>3 DEF Foreign, Copying
  <2>5. QED BY <1>1, <2>4, HiddenSame
<1>5. CASE EndCopy
  <2>1. pc = "copying" /\ pc' = "serving" /\ conf'.hidden = conf.hidden
    BY <1>2, <1>5 DEF EndCopy, Conf
  <2>2. QED BY <1>1, <2>1, HiddenSame DEF Foreign, Copying
<1>6. QED BY <1>3, <1>4, <1>5

\* Every step keeps the count.
LEMMA HiddenNext == InstallInv /\ HiddenInv /\ [Next]_vars => HiddenInv'
<1> SUFFICES ASSUME InstallInv, HiddenInv, [Next]_vars PROVE HiddenInv' OBVIOUS
<1>1. CASE Step BY <1>1, HiddenEnds, HiddenFrame, HiddenCopies DEF Step
<1>2. CASE Fails BY <1>2, HiddenEnds, HiddenFrame DEF Fails
<1>3. CASE Restart \/ Crash BY <1>3, HiddenEnds
<1>4. CASE (\E payload \in Payload : PublishArchive(payload)) \/ PublishManifest \/ SetExpected
  <2>1. Foreign' = Foreign BY <1>4, BucketInv DEF files, Foreign
  <2>2. spent' = spent \/ Spend("publishes") BY <1>4 DEF PublishArchive, PublishManifest, SetExpected
  <2>3. /\ spent'.restarts = spent.restarts /\ spent'.crashes = spent.crashes
        /\ spent'.failures = spent.failures
    BY <2>2, Counted, Counters, Bounds DEF InstallInv
  <2>4. QED BY <2>1, <2>3, HiddenSame DEF InstallInv
<1>5. CASE UNCHANGED vars
  BY <1>5 DEF vars, files, HiddenInv, Foreign, Comebacks
<1>6. QED BY <1>1, <1>2, <1>3, <1>4, <1>5 DEF Next

\* What serves is the archive that the boot's manifest describes, with its own copies, at
\* the commit the Variable asked for; and beside them there are hidden files of no more
\* archives than containers came back with their files.
THEOREM SelectedServes == Spec => []ServesSelected
<1>1. InstallInv /\ HiddenInv => ServesSelected
  BY DEF InstallInv, BootInv, AcceptManifest, ReleaseInv, ConfInv, ServesSelected, Installing, Active,
         HiddenInv, Foreign, Copying, Comebacks
<1>2. Init => HiddenInv
  <2> SUFFICES ASSUME Init PROVE HiddenInv OBVIOUS
  <2>1. Foreign = {} /\ Comebacks = 0 BY Bounds DEF Init, Foreign, Copying, NoConf, Comebacks
  <2>2. QED BY <2>1, FS_EmptySet DEF HiddenInv
<1>3. QED BY <1>1, <1>2, InitInv, NextInv, HiddenNext, PTL DEF Spec

-----------------------------------------------------------------------------
(* LeftoversHaveCause *)

\* The release, the stage and the link that this boot is still to remove, unless it ends
\* before: its own after a failure and up to the swap, and then the one it replaced.
Failing == {"discard", "discard_release"}
ReleaseDue ==
    CASE pc \in Ready \cup Failing -> {boot.id}
      [] pc \in {"drop_legacy", "drop_previous", "dropping"} -> {boot.previous}
      [] OTHER -> {}
StageDue ==
    IF pc \in Unrooted \cup {"drop_legacy", "drop_previous", "dropping", "unstage", "unstage_failed"}
    THEN {boot.id} ELSE {}
LinkDue == IF pc \in {"aside", "swap", "swap_aside", "discard"} THEN {boot.id} ELSE {}

Unused == {id \in Ids : release[id].kind # "none" /\ ~(root.kind = "release" /\ root.id = id)}
Causes == spent.crashes + spent.failures

\* The failure that the link which is about to be removed has as one of its two causes.
Unlinking == IF pc = "discard" THEN 1 ELSE 0

\* What nobody is to remove has a cause each, and a link has two. The link from the root to the release
\* that the boot is to replace is the one it found before the swap.
LeftInv ==
    /\ pc \in Ready => boot.previous = OwnedRelease
    /\ IsFiniteSet(Unused \ ReleaseDue) /\ Cardinality(Unused \ ReleaseDue) <= Causes
    /\ IsFiniteSet(stages \ StageDue) /\ Cardinality(stages \ StageDue) <= Causes
    /\ IsFiniteSet(links \ LinkDue)
    /\ 2 * Cardinality(links \ LinkDue) + Unlinking <= 2 * spent.crashes + spent.failures

\* Nothing new is left behind.
LEMMA LeavesNothing ==
    ASSUME TypeOK, LeftInv, (pc \in Ready => boot.previous = OwnedRelease)',
           (Unused \ ReleaseDue)' \subseteq Unused \ ReleaseDue,
           (stages \ StageDue)' \subseteq stages \ StageDue,
           (links \ LinkDue)' \subseteq links \ LinkDue, pc' = "discard" => pc = "discard",
           spent'.crashes = spent.crashes, spent'.failures \in {spent.failures, spent.failures + 1}
    PROVE  LeftInv'
<1> DEFINE U == Unused \ ReleaseDue
           S == stages \ StageDue
           L == links \ LinkDue
<1>1. IsFiniteSet(U') /\ Cardinality(U') \in Nat /\ Cardinality(U') <= Cardinality(U)
  BY NoMore DEF LeftInv
<1>2. IsFiniteSet(S') /\ Cardinality(S') \in Nat /\ Cardinality(S') <= Cardinality(S)
  BY NoMore DEF LeftInv
<1>3. IsFiniteSet(L') /\ Cardinality(L') \in Nat /\ Cardinality(L') <= Cardinality(L)
  BY NoMore DEF LeftInv
<1>4. Cardinality(U) \in Nat /\ Cardinality(S) \in Nat /\ Cardinality(L) \in Nat
  BY FS_CardinalityType DEF LeftInv
<1>5. Causes' \in Nat /\ Causes \in Nat /\ Causes <= Causes' BY Counters DEF Causes
<1>6. QED BY <1>1, <1>2, <1>3, <1>4, <1>5, Counters DEF LeftInv, Unlinking

\* A removal that fails leaves one release and one stage behind, and a link where an
\* operation of the activation has failed before.
LEMMA LeavesOne ==
    ASSUME TypeOK, LeftInv, (pc \in Ready => boot.previous = OwnedRelease)', NEW x, NEW y, NEW z,
           (Unused \ ReleaseDue)' \subseteq (Unused \ ReleaseDue) \cup {x},
           (stages \ StageDue)' \subseteq (stages \ StageDue) \cup {y},
           \/ (links \ LinkDue)' \subseteq links \ LinkDue /\ pc # "discard"
           \/ (links \ LinkDue)' \subseteq (links \ LinkDue) \cup {z} /\ pc = "discard" /\ pc' # "discard",
           spent'.crashes = spent.crashes, spent'.failures = spent.failures + 1
    PROVE  LeftInv'
<1> DEFINE U == Unused \ ReleaseDue
           S == stages \ StageDue
           L == links \ LinkDue
<1>1. IsFiniteSet(U') /\ Cardinality(U') \in Nat /\ Cardinality(U') <= Cardinality(U) + 1
  BY OneMore DEF LeftInv
<1>2. IsFiniteSet(S') /\ Cardinality(S') \in Nat /\ Cardinality(S') <= Cardinality(S) + 1
  BY OneMore DEF LeftInv
<1>3. IsFiniteSet(L') /\ Cardinality(L') \in Nat
      /\ 2 * Cardinality(L') + Unlinking' <= 2 * Cardinality(L) + Unlinking + 1
  <2>1. CASE L' \subseteq L /\ pc # "discard"
    <3>1. IsFiniteSet(L') /\ Cardinality(L') \in Nat /\ Cardinality(L') <= Cardinality(L)
      BY <2>1, NoMore DEF LeftInv
    <3>2. Cardinality(L) \in Nat BY FS_CardinalityType DEF LeftInv
    <3>3. QED BY <2>1, <3>1, <3>2 DEF Unlinking
  <2>2. CASE L' \subseteq L \cup {z} /\ pc = "discard" /\ pc' # "discard"
    <3>1. IsFiniteSet(L') /\ Cardinality(L') \in Nat /\ Cardinality(L') <= Cardinality(L) + 1
      BY <2>2, OneMore DEF LeftInv
    <3>2. Cardinality(L) \in Nat BY FS_CardinalityType DEF LeftInv
    <3>3. QED BY <2>2, <3>1, <3>2 DEF Unlinking
  <2>3. QED BY <2>1, <2>2
<1>4. Cardinality(U) \in Nat /\ Cardinality(S) \in Nat /\ Cardinality(L) \in Nat
  BY FS_CardinalityType DEF LeftInv
<1>5. Causes' \in Nat /\ Causes \in Nat /\ Causes' = Causes + 1 BY Counters DEF Causes
<1>6. QED BY <1>1, <1>2, <1>3, <1>4, <1>5, Counters DEF LeftInv, Unlinking

\* A crash leaves behind what the boot was still to remove, one of each at most.
LEMMA CrashLeaves ==
    ASSUME TypeOK, LeftInv, (pc \in Ready => boot.previous = OwnedRelease)', NEW x, NEW y, NEW z,
           (Unused \ ReleaseDue)' \subseteq (Unused \ ReleaseDue) \cup {x},
           (stages \ StageDue)' \subseteq (stages \ StageDue) \cup {y},
           (links \ LinkDue)' \subseteq (links \ LinkDue) \cup {z},
           spent'.crashes = spent.crashes + 1, spent'.failures = spent.failures, pc' # "discard"
    PROVE  LeftInv'
<1> DEFINE U == Unused \ ReleaseDue
           S == stages \ StageDue
           L == links \ LinkDue
<1>1. IsFiniteSet(U') /\ Cardinality(U') \in Nat /\ Cardinality(U') <= Cardinality(U) + 1
  BY OneMore DEF LeftInv
<1>2. IsFiniteSet(S') /\ Cardinality(S') \in Nat /\ Cardinality(S') <= Cardinality(S) + 1
  BY OneMore DEF LeftInv
<1>3. IsFiniteSet(L') /\ Cardinality(L') \in Nat /\ Cardinality(L') <= Cardinality(L) + 1
  BY OneMore DEF LeftInv
<1>4. Cardinality(U) \in Nat /\ Cardinality(S) \in Nat /\ Cardinality(L) \in Nat
  BY FS_CardinalityType DEF LeftInv
<1>5. Causes' \in Nat /\ Causes \in Nat /\ Causes' = Causes + 1 BY Counters DEF Causes
<1>6. QED BY <1>1, <1>2, <1>3, <1>4, <1>5, Counters DEF LeftInv, Unlinking

\* A container that ends by itself has removed what it was to remove, and one that
\* crashes leaves that; in the files of the image nothing is left.
LEMMA LeftEnds ==
    ASSUME InstallInv, LeftInv,
           \/ NoManifest \/ RejectManifest \/ RejectArchive \/ Rejected
           \/ DownloadFails \/ CopyFails \/ Restart \/ Crash
    PROVE  LeftInv'
<1> USE DEF InstallInv, files
<1>e. Ends
  BY DEF NoManifest, RejectManifest, RejectArchive, Rejected, Exits,
         DownloadFails, CopyFails, Restart, Crash
<1>1. pc' = "down" /\ ReleaseDue' = {} /\ StageDue' = {} /\ LinkDue' = {} /\ pc' \notin Ready
  BY <1>e DEF Ends, ReleaseDue, StageDue, LinkDue, Ready, Failing, Unrooted
<1>2. (Unused' \subseteq Unused) /\ (stages' \subseteq stages) /\ (links' \subseteq links)
  <2>1. CASE UNCHANGED files BY <2>1 DEF Unused
  <2>2. CASE release' = [id \in Ids |-> NoTree] /\ links' = {} /\ stages' = {}
    BY <2>2 DEF Unused, NoTree
  <2>3. QED BY <1>e, <2>1, <2>2 DEF Ends
<1>3. CASE ~Crash
  <2>1. ReleaseDue = {} /\ StageDue = {} /\ LinkDue = {}
    BY <1>3 DEF NoManifest, RejectManifest, RejectArchive, Rejected, Exits, DownloadFails, CopyFails,
                Restart, ReleaseDue, StageDue, LinkDue, Ready, Failing, Unrooted
  <2>2. spent'.crashes = spent.crashes /\ spent'.failures \in {spent.failures, spent.failures + 1}
    <3>1. CASE NoManifest \/ RejectManifest \/ RejectArchive \/ Rejected
      BY <3>1 DEF NoManifest, RejectManifest, RejectArchive, Rejected, Exits
    <3>2. CASE DownloadFails \/ CopyFails
      BY <3>2, Counted, Counters, Bounds DEF DownloadFails, CopyFails
    <3>3. CASE Restart BY <3>3, Counted, Counters, Bounds DEF Restart
    <3>4. QED BY <1>3, <3>1, <3>2, <3>3
  <2>3. QED BY <1>1, <1>2, <2>1, <2>2, LeavesNothing
<1>4. CASE Crash
  <2>1. spent'.crashes = spent.crashes + 1 /\ spent'.failures = spent.failures
    BY <1>4, Counted, Counters, Bounds DEF Crash
  <2>2. PICK x : ReleaseDue \subseteq {x} BY DEF ReleaseDue
  <2>3. PICK y : StageDue \subseteq {y} BY DEF StageDue
  <2>4. PICK z : LinkDue \subseteq {z} BY DEF LinkDue
  <2>5. /\ (Unused \ ReleaseDue)' \subseteq (Unused \ ReleaseDue) \cup {x}
        /\ (stages \ StageDue)' \subseteq (stages \ StageDue) \cup {y}
        /\ (links \ LinkDue)' \subseteq (links \ LinkDue) \cup {z}
    BY <1>1, <1>2, <2>2, <2>3, <2>4
  <2>6. QED BY <1>1, <2>1, <2>5, CrashLeaves
<1>5. QED BY <1>3, <1>4

\* Where no release, link or stage changes and the boot is to remove the same as before.
LEMMA LeftReads ==
    ASSUME InstallInv, LeftInv,
           \/ Boot \/ DownloadManifest \/ load_manifest \/ DownloadArchive \/ VerifyArchive
           \/ Validate \/ NothingToSetAside \/ NoPrevious
    PROVE  LeftInv'
<1> USE DEF InstallInv, Reads, Goto, bucket, files, Boot, DownloadManifest, load_manifest,
            DownloadArchive, VerifyArchive, Validate, NothingToSetAside, NoPrevious
<1>1. UNCHANGED <<root, release, links, stages, spent>> OBVIOUS
<1>2. ~NoPrevious => ReleaseDue' = ReleaseDue
  BY DEF ReleaseDue, Ready, Failing
<1>3. StageDue' = StageDue /\ LinkDue' = LinkDue
  BY DEF StageDue, LinkDue, Ready, Unrooted
<1>4. Unused' = Unused BY <1>1 DEF Unused
<1>5. (Unused \ ReleaseDue)' \subseteq Unused \ ReleaseDue
  <2>1. CASE NoPrevious
    <3>1. ReleaseDue = {boot.previous} /\ boot.previous \notin Ids
      BY <2>1 DEF ReleaseDue, Ready, Failing
    <3>2. QED BY <1>4, <3>1 DEF Unused
  <2>2. QED BY <1>2, <1>4, <2>1
<1>6. (pc \in Ready => boot.previous = OwnedRelease)'
  BY DEF LeftInv, Ready, OwnedRelease
<1>7. QED BY <1>1, <1>3, <1>5, <1>6, LeavesNothing

\* Extraction and activation leave to be removed what they make or replace.
LEMMA LeftActivate ==
    ASSUME InstallInv, LeftInv, Extract \/ Move \/ Link \/ SetAside \/ Swap
    PROVE  LeftInv'
<1> USE DEF InstallInv, Goto, bucket
<1>1. CASE Extract
  <2> PICK id \in Ids : stages' = stages \cup {id} /\ boot' = [boot EXCEPT !.id = id]
    BY <1>1 DEF Extract
  <2>1. UNCHANGED <<root, release, links, spent>> /\ pc = "extract" /\ pc' = "validate" BY <1>1 DEF Extract
  <2>2. boot'.id = id BY DEF TypeOK, BootState
  <2>3. Unused' = Unused /\ ReleaseDue' = {} /\ LinkDue' = {} /\ StageDue' = {id}
    BY <2>1, <2>2 DEF Unused, ReleaseDue, LinkDue, StageDue, Ready, Failing, Unrooted
  <2>4. ReleaseDue = {} /\ LinkDue = {} /\ StageDue = {} /\ pc' \notin Ready
    BY <2>1 DEF ReleaseDue, LinkDue, StageDue, Ready, Failing, Unrooted
  <2>5. QED BY <2>1, <2>3, <2>4, LeavesNothing DEF Ready
<1>2. CASE Move
  <2>1. /\ pc = "move" /\ pc' = "link"
        /\ release' = [release EXCEPT ![boot.id] = Whole(boot.archive)]
        /\ boot' = [boot EXCEPT !.previous = OwnedRelease]
        /\ UNCHANGED <<root, links, stages, spent>>
    BY <1>2 DEF Move
  <2>2. boot'.id = boot.id /\ boot'.previous = OwnedRelease BY <2>1 DEF TypeOK, BootState
  <2>3. ReleaseDue = {} /\ ReleaseDue' = {boot.id} /\ LinkDue = {} /\ LinkDue' = {}
        /\ StageDue = {boot.id} /\ StageDue' = {boot.id}
    BY <2>1, <2>2 DEF ReleaseDue, LinkDue, StageDue, Ready, Failing, Unrooted
  <2>4. \A id \in Ids : id # boot.id => release'[id] = release[id] BY <2>1 DEF TypeOK
  <2>5. Unused' \ {boot.id} \subseteq Unused BY <2>1, <2>4 DEF Unused
  <2>6. OwnedRelease' = OwnedRelease BY <2>1 DEF OwnedRelease
  <2>7. QED BY <2>1, <2>2, <2>3, <2>5, <2>6, LeavesNothing
<1>3. CASE Link \/ SetAside
  <2>1. UNCHANGED <<release, stages, boot, spent>> BY <1>3 DEF Link, SetAside
  <2>2. StageDue' = StageDue /\ ReleaseDue' = ReleaseDue
    BY <1>3, <2>1 DEF Link, SetAside, StageDue, ReleaseDue, Ready, Failing, Unrooted
  <2>3. (links \ LinkDue)' \subseteq links \ LinkDue
    BY <1>3 DEF Link, SetAside, LinkDue
  <2>4. Unused' = Unused BY <1>3, <2>1 DEF Link, SetAside, Unused, ImageRoot
  <2>5. pc \in Ready /\ pc' # "discard" /\ OwnedRelease' = OwnedRelease
    BY <1>3 DEF Link, SetAside, Ready, OwnedRelease, ImageRoot
  <2>6. QED BY <2>1, <2>2, <2>3, <2>4, <2>5, LeavesNothing DEF LeftInv, Ready
<1>4. CASE Swap
  <2>1. /\ pc \in {"swap", "swap_aside"} /\ pc' \in {"drop_previous", "drop_legacy"}
        /\ root' = [kind |-> "release", id |-> boot.id] /\ links' = links \ {boot.id}
        /\ UNCHANGED <<release, stages, boot, spent>>
    BY <1>4 DEF Swap
  <2>2. ReleaseDue = {boot.id} /\ ReleaseDue' = {boot.previous} /\ LinkDue = {boot.id} /\ LinkDue' = {}
        /\ StageDue = {boot.id} /\ StageDue' = {boot.id}
    BY <2>1 DEF ReleaseDue, LinkDue, StageDue, Ready, Failing, Unrooted
  <2>3. boot.previous = OwnedRelease BY <2>1 DEF LeftInv, Ready
  <2>4. Unused' \ {boot.previous} \subseteq Unused \ {boot.id}
    BY <2>1, <2>3 DEF Unused, OwnedRelease
  <2>5. pc' \notin Ready BY <2>1 DEF Ready
  <2>6. QED BY <2>1, <2>2, <2>4, <2>5, LeavesNothing
<1>5. QED BY <1>1, <1>2, <1>3, <1>4

\* What was to be removed is gone when it no longer is.
LEMMA LeftCleanup ==
    ASSUME InstallInv, LeftInv,
           \/ DropLegacy \/ RemovePrevious \/ PreviousRemoved \/ Unlink \/ Discard \/ Unstage
           \/ EmptyConf \/ StartCopy \/ EndCopy
    PROVE  LeftInv'
<1> USE DEF InstallInv, Goto, bucket
<1> SUFFICES /\ (Unused \ ReleaseDue)' \subseteq Unused \ ReleaseDue
             /\ (stages \ StageDue)' \subseteq stages \ StageDue
             /\ (links \ LinkDue)' \subseteq links \ LinkDue
             /\ pc' \notin Ready /\ pc' # "discard" /\ UNCHANGED spent
  BY LeavesNothing
<1>1. CASE DropLegacy \/ Unlink \/ Unstage \/ EmptyConf \/ StartCopy \/ EndCopy
  <2> USE DEF DropLegacy, Unlink, Unstage, EmptyConf, StartCopy, EndCopy
  <2>1. UNCHANGED <<release, root, boot, spent>> BY <1>1
  <2>2. Unused' = Unused BY <2>1 DEF Unused
  <2>3. ReleaseDue' = ReleaseDue BY <1>1, <2>1 DEF ReleaseDue, Ready, Failing
  <2>4. (stages \ StageDue)' \subseteq stages \ StageDue BY <1>1, <2>1 DEF StageDue, Unrooted, Ready
  <2>5. (links \ LinkDue)' \subseteq links \ LinkDue BY <1>1, <2>1 DEF LinkDue
  <2>6. pc' \notin Ready /\ pc' # "discard" BY <1>1 DEF Ready
  <2>7. QED BY <2>1, <2>2, <2>3, <2>4, <2>5, <2>6
<1>2. CASE RemovePrevious \/ PreviousRemoved
  <2>1. UNCHANGED <<root, links, stages, boot, spent>> BY <1>2 DEF RemovePrevious, PreviousRemoved
  <2>2. ReleaseDue = {boot.previous} /\ boot.previous \in Ids
    BY <1>2 DEF RemovePrevious, PreviousRemoved, ReleaseDue, Ready, Failing, BootInv
  <2>3. \A id \in Ids : id # boot.previous => release'[id] = release[id]
    BY <1>2 DEF RemovePrevious, PreviousRemoved, TypeOK
  <2>4. PreviousRemoved => release'[boot.previous] = NoTree
    BY <2>2 DEF PreviousRemoved, TypeOK
  <2>5. RemovePrevious => ReleaseDue' = {boot.previous}
    BY <2>1 DEF RemovePrevious, ReleaseDue, Ready, Failing
  <2>6. (Unused \ ReleaseDue)' \subseteq Unused \ ReleaseDue
    BY <1>2, <2>1, <2>2, <2>3, <2>4, <2>5 DEF Unused, NoTree
  <2>7. StageDue' = StageDue /\ LinkDue' = LinkDue /\ pc' \notin Ready /\ pc' # "discard"
    BY <1>2, <2>1 DEF RemovePrevious, PreviousRemoved, StageDue, LinkDue, Unrooted, Ready
  <2>8. QED BY <2>1, <2>6, <2>7
<1>3. CASE Discard
  <2>1. UNCHANGED <<root, links, stages, boot, spent>> BY <1>3 DEF Discard
  <2>2. ReleaseDue = {boot.id} /\ boot.id \in Ids
    BY <1>3 DEF Discard, ReleaseDue, Ready, Failing, BootInv, Unrooted
  <2>3. /\ \A id \in Ids : id # boot.id => release'[id] = release[id]
        /\ release'[boot.id] = NoTree
    BY <1>3, <2>2 DEF Discard, TypeOK
  <2>4. (Unused \ ReleaseDue)' \subseteq Unused \ ReleaseDue
    BY <2>1, <2>2, <2>3 DEF Unused, NoTree
  <2>5. StageDue' = StageDue /\ LinkDue' = LinkDue /\ pc' \notin Ready /\ pc' # "discard"
    BY <1>3, <2>1 DEF Discard, StageDue, LinkDue, Unrooted, Ready
  <2>6. QED BY <2>1, <2>4, <2>5
<1>4. QED BY <1>1, <1>2, <1>3

\* An operation that fails leaves the boot with what it has to remove, or, where it was a
\* removal, leaves that behind.
LEMMA LeftFails ==
    ASSUME InstallInv, LeftInv,
           ValidateFails \/ ActivationFails \/ SwapFails \/ UnlinkFails \/ RemovalFails
    PROVE  LeftInv'
<1> USE DEF InstallInv, ValidateFails, ActivationFails, SwapFails, UnlinkFails, RemovalFails, Goto, bucket, files
<1>1. UNCHANGED <<release, links, stages, boot>> OBVIOUS
<1>2. spent'.crashes = spent.crashes /\ spent'.failures = spent.failures + 1
  BY Counted, Counters, Bounds
<1>3. Unused' = Unused
  <2>1. CASE SwapFails
    <3>1. pc = "swap_aside" => root.kind = "absent" BY DEF AsideInv
    <3>2. root' = root \/ (root'.kind # "release" /\ root.kind # "release")
      BY <2>1, <3>1 DEF ImageRoot
    <3>3. QED BY <1>1, <3>2 DEF Unused
  <2>2. CASE ~SwapFails BY <1>1, <2>2 DEF Unused
  <2>3. QED BY <2>1, <2>2
<1>4. PICK x : ReleaseDue \subseteq ReleaseDue' \cup {x} BY DEF ReleaseDue
<1>5. PICK y : StageDue \subseteq StageDue' \cup {y} BY DEF StageDue
<1>6. (Unused \ ReleaseDue)' \subseteq (Unused \ ReleaseDue) \cup {x} BY <1>3, <1>4
<1>7. (stages \ StageDue)' \subseteq (stages \ StageDue) \cup {y} BY <1>1, <1>5
<1>8. CASE UnlinkFails
  <2>1. pc = "discard" /\ pc' = "unstage_failed" BY <1>8
  <2>2. (links \ LinkDue)' \subseteq (links \ LinkDue) \cup {boot.id} BY <1>1 DEF LinkDue
  <2>3. QED BY <1>2, <1>6, <1>7, <2>1, <2>2, LeavesOne DEF Ready
<1>9. CASE ValidateFails \/ ActivationFails \/ SwapFails \/ RemovalFails
  <2>1. pc # "discard" /\ pc' \notin Ready BY <1>9 DEF Ready
  <2>2. (links \ LinkDue)' \subseteq links \ LinkDue BY <1>1, <1>9 DEF LinkDue
  <2>3. QED BY <1>2, <1>6, <1>7, <2>1, <2>2, LeavesOne
<1>10. QED BY <1>8, <1>9

\* Every step keeps it.
LEMMA LeftNext == InstallInv /\ LeftInv /\ [Next]_vars => LeftInv'
<1> SUFFICES ASSUME InstallInv, LeftInv, [Next]_vars PROVE LeftInv' OBVIOUS
<1>1. CASE Step BY <1>1, LeftEnds, LeftReads, LeftActivate, LeftCleanup DEF Step
<1>2. CASE Fails BY <1>2, LeftEnds, LeftFails DEF Fails
<1>3. CASE Restart \/ Crash BY <1>3, LeftEnds
<1>4. CASE (\E payload \in Payload : PublishArchive(payload)) \/ PublishManifest \/ SetExpected
  <2>1. UNCHANGED <<files, pc, boot>> BY <1>4, BucketInv
  <2>2. Unused' = Unused /\ ReleaseDue' = ReleaseDue /\ StageDue' = StageDue /\ LinkDue' = LinkDue
        /\ UNCHANGED <<stages, links, root>>
    BY <2>1 DEF files, Unused, ReleaseDue, StageDue, LinkDue
  <2>3. (pc \in Ready => boot.previous = OwnedRelease)' BY <2>1, <2>2 DEF LeftInv, OwnedRelease
  <2>4. spent'.crashes = spent.crashes /\ spent'.failures = spent.failures
    <3>1. TypeOK BY DEF InstallInv
    <3>2. ASSUME NEW payload \in Payload, PublishArchive(payload)
          PROVE  spent'.crashes = spent.crashes /\ spent'.failures = spent.failures
      BY <3>1, <3>2, Counted, Counters, Bounds DEF PublishArchive
    <3>3. QED BY <1>4, <3>2 DEF PublishManifest, SetExpected
  <2>5. QED BY <2>1, <2>2, <2>3, <2>4, LeavesNothing DEF InstallInv
<1>5. CASE UNCHANGED vars
  BY <1>5 DEF vars, files, LeftInv, Unused, Causes, ReleaseDue, StageDue, LinkDue, Unlinking, OwnedRelease
<1>6. QED BY <1>1, <1>2, <1>3, <1>4, <1>5 DEF Next

\* Before the first boot there is nothing.
LEMMA LeftInit == Init => LeftInv
<1> SUFFICES ASSUME Init PROVE LeftInv OBVIOUS
<1>1. Unused = {} /\ stages = {} /\ links = {} /\ Causes = 0 /\ spent.crashes = 0 /\ spent.failures = 0
      /\ pc \notin Ready /\ Unlinking = 0
  BY Bounds DEF Init, Unused, NoTree, Causes, Ready, Unlinking
<1>2. QED BY <1>1, FS_EmptySet DEF LeftInv

\* Whatever is left behind, in any number of boots, has a crash or a failed operation of
\* its own as its cause, and a link a crash or two failed operations.
THEOREM LeftoversAreCaused == Spec => []LeftoversHaveCause
<1>1. InstallInv /\ LeftInv => LeftoversHaveCause
  <2> SUFFICES ASSUME LeftInv, pc \in {"down", "serving"} PROVE LeftoversHaveCause
    BY DEF LeftoversHaveCause
  <2>1. ReleaseDue = {} /\ StageDue = {} /\ LinkDue = {} /\ Unlinking = 0
    BY DEF ReleaseDue, StageDue, LinkDue, Unlinking, Ready, Failing, Unrooted
  <2>2. Cardinality(Unused) <= Causes /\ Cardinality(stages) <= Causes BY <2>1 DEF LeftInv
  <2>3. links \ LinkDue = links BY <2>1
  <2>4. IsFiniteSet(links) /\ 2 * Cardinality(links) + 0 <= 2 * spent.crashes + spent.failures
    BY <2>1, <2>3 DEF LeftInv
  <2>5. Cardinality(links) \in Nat BY <2>4, FS_CardinalityType
  <2>6. 2 * Cardinality(links) <= 2 * spent.crashes + spent.failures BY <2>4, <2>5
  <2>7. QED BY <2>2, <2>6 DEF LeftoversHaveCause, Unused, Causes
<1>2. Init => InstallInv /\ LeftInv BY InitInv, LeftInit
<1>3. InstallInv /\ LeftInv /\ [Next]_vars => (InstallInv /\ LeftInv)' BY NextInv, LeftNext
<1>4. QED BY <1>1, <1>2, <1>3, PTL DEF Spec
=============================================================================
