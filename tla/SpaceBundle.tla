------------------------------ MODULE SpaceBundle ------------------------------
(***************************************************************************)
(* scripts/export_hfs_space_bundle.py: the export of an allowlisted bundle *)
(* from one commit, and its verification, which the deployment repeats     *)
(* right before it uploads. Between an export and a verification the       *)
(* directory is open to everything else that runs on the machine, and an   *)
(* export that stops leaves what it wrote.                                 *)
(*                                                                         *)
(* The bytes of a file are what the checks tell apart: a text, whether it  *)
(* holds a token-like literal, and whether it passes the check that its    *)
(* own name calls for (the manifest of the profile, the COPY sources of    *)
(* the Dockerfile, UTF-8).                                                 *)
(***************************************************************************)
EXTENDS Integers

CONSTANTS BundleFiles,  \* the allowlisted paths
          Selected,     \* the one that becomes hfs-dev.toml
          Bytes,        \* the contents a file can have
          Repository,   \* the allowlisted files that each commit tracks
          MaxEdits,     \* bounds what happens to the directory in between
          MaxExports    \* bounds the exports

Commits == DOMAIN Repository
Blob == [bytes : Bytes, mode : {"0644", "0755"}]

ASSUME BundleAssumption ==
    /\ Commits # {}
    /\ \A bytes \in Bytes : bytes.token \in BOOLEAN /\ bytes.valid \in BOOLEAN
    /\ Selected \in BundleFiles
    /\ \A commit \in Commits :
           \E tracked \in SUBSET BundleFiles : Repository[commit] \in [tracked -> Blob]
    /\ {MaxEdits, MaxExports} \subseteq Nat

VARIABLES
    checkout,   \* HEAD of the checkout, and whether it has changes
    bundle,     \* the files of the output directory
    evidence,   \* its BUILD_SOURCE.json
    sums,       \* its SHA256SUMS
    exporting,  \* the export that is under way
    accepted,   \* the commits the directory, as it is, was verified for
    bundleSpent

directory == <<bundle, evidence, sums>>
bundleVars == <<checkout, directory, exporting, accepted, bundleSpent>>

\* "link": a symlink or anything else that is no regular file.
Entry == [kind : {"file", "link"}, blob : Blob]
Paths == BundleFiles \cup {"extra"}
File(blob) == [kind |-> "file", blob |-> blob]

\* A generated file that does not exist, or that is not what its parser expects.
Evidence == [commit : Commits, entries : UNION {[D -> Blob] : D \in SUBSET BundleFiles}]
NoEvidence == [commit |-> "none", entries |-> <<>>]
NoSums == <<>>
NoExport == [commit |-> "none", left |-> {}]

BundleInit ==
    /\ checkout = [head |-> CHOOSE c \in Commits : TRUE, dirty |-> FALSE]
    /\ bundle = <<>>
    /\ evidence = NoEvidence
    /\ sums = NoSums
    /\ exporting = NoExport
    /\ accepted = {}
    /\ bundleSpent = [edits |-> 0, exports |-> 0]

Idle == exporting = NoExport
Empty == bundle = <<>> /\ evidence = NoEvidence /\ sums = NoSums

\* validate_manifest, validate_dockerfile_sources and the decoding, by the file's name.
Passes(bytes) == bytes.valid

\* write_checksums and the digests that verify_bundle computes.
Digests == [path \in DOMAIN bundle |-> bundle[path].blob.bytes]

------------------------------------------------------------------------------
(* verify_bundle *)

PathsMatch ==
    /\ DOMAIN bundle = BundleFiles
    /\ evidence # NoEvidence
    /\ \A path \in DOMAIN bundle : bundle[path].kind = "file"

SumsMatch == sums = [files |-> Digests, evidence |-> evidence]

EvidenceMatches(commit) ==
    /\ evidence.commit = commit
    /\ evidence.entries = Repository[commit]

\* Defect: the inventory of the evidence stands for the files themselves.
InventoryTrusted(commit) == DOMAIN bundle = DOMAIN Repository[commit]

SourcesMatch(commit) == [path \in DOMAIN bundle |-> bundle[path].blob] = Repository[commit]

ContentsPass ==
    \A path \in DOMAIN bundle :
        Passes(bundle[path].blob.bytes) /\ ~bundle[path].blob.bytes.token

Verifies(commit) ==
    /\ PathsMatch
    /\ SumsMatch
    /\ EvidenceMatches(commit)
    /\ SourcesMatch(commit)
    /\ ContentsPass

------------------------------------------------------------------------------
(* The commands *)

\* require_source_commit and the checks of --output.
BeginExport(commit) ==
    /\ Idle
    /\ bundleSpent.exports < MaxExports
    /\ checkout = [head |-> commit, dirty |-> FALSE]
    /\ Empty
    /\ exporting' = [commit |-> commit, left |-> BundleFiles]
    /\ bundleSpent' = [bundleSpent EXCEPT !.exports = @ + 1]
    /\ UNCHANGED <<checkout, directory, accepted>>

\* From the commit, never from the working tree.
CopyFile(path) ==
    LET tracked == Repository[exporting.commit] IN
    /\ path \in exporting.left
    /\ path \in DOMAIN tracked
    /\ path = Selected => Passes(tracked[path].bytes)
    /\ bundle' = [p \in DOMAIN bundle \cup {path} |->
                     IF p = path THEN File(tracked[path]) ELSE bundle[p]]
    /\ exporting' = [exporting EXCEPT !.left = @ \ {path}]
    /\ UNCHANGED <<checkout, evidence, sums, accepted, bundleSpent>>

\* BUILD_SOURCE.json, SHA256SUMS and the verification that ends an export.
EndExport ==
    /\ ~Idle /\ exporting.left = {}
    /\ evidence' = [commit |-> exporting.commit, entries |-> Repository[exporting.commit]]
    /\ sums' = [files |-> Digests, evidence |-> evidence']
    /\ accepted' = IF ContentsPass THEN {exporting.commit} ELSE {}
    /\ exporting' = NoExport
    /\ UNCHANGED <<checkout, bundle, bundleSpent>>

\* An input that is not tracked, a manifest of another profile, an OSError.
ExportStops ==
    /\ ~Idle
    /\ exporting' = NoExport
    /\ UNCHANGED <<checkout, directory, accepted, bundleSpent>>

Verify(commit) ==
    /\ Idle
    /\ Verifies(commit)
    /\ accepted' = accepted \cup {commit}
    /\ UNCHANGED <<checkout, directory, exporting, bundleSpent>>

------------------------------------------------------------------------------
(* What else happens on the machine *)

Edit ==
    /\ Idle
    /\ bundleSpent.edits < MaxEdits
    /\ bundleSpent' = [bundleSpent EXCEPT !.edits = @ + 1]
    /\ accepted' = {}
    /\ UNCHANGED exporting

ChangeFile(path, entry) ==
    /\ Edit
    /\ bundle' = [p \in DOMAIN bundle \cup {path} |-> IF p = path THEN entry ELSE bundle[p]]
    /\ UNCHANGED <<checkout, evidence, sums>>

RemoveFile(path) ==
    /\ Edit
    /\ bundle' = [p \in DOMAIN bundle \ {path} |-> bundle[p]]
    /\ UNCHANGED <<checkout, evidence, sums>>

\* Evidence of another commit, or of the files that are there.
ForgeEvidence(commit) ==
    /\ Edit
    /\ \E entries \in {Repository[commit], [p \in DOMAIN bundle |-> bundle[p].blob]} :
           evidence' = [commit |-> commit, entries |-> entries]
    /\ UNCHANGED <<checkout, bundle, sums>>

RefreshSums ==
    /\ Edit
    /\ sums' = [files |-> Digests, evidence |-> evidence]
    /\ UNCHANGED <<checkout, bundle, evidence>>

Clean ==
    /\ Idle
    /\ bundle' = <<>> /\ evidence' = NoEvidence /\ sums' = NoSums
    /\ accepted' = {}
    /\ UNCHANGED <<checkout, exporting, bundleSpent>>

\* Another commit is checked out, or a file of the checkout changes.
Checkout ==
    /\ Idle
    /\ checkout' \in [head : Commits, dirty : BOOLEAN]
    /\ UNCHANGED <<directory, exporting, accepted, bundleSpent>>

BundleNext ==
    \/ \E commit \in Commits : BeginExport(commit) \/ Verify(commit) \/ ForgeEvidence(commit)
    \/ \E path \in BundleFiles : CopyFile(path) \/ RemoveFile(path)
    \/ \E path \in Paths, entry \in Entry : ChangeFile(path, entry)
    \/ EndExport \/ ExportStops \/ RefreshSums \/ Clean \/ Checkout

BundleSpec == BundleInit /\ [][BundleNext]_bundleVars

------------------------------------------------------------------------------
(* Properties *)

\* The variables keep their types.
BundleTypeOK ==
    /\ checkout \in [head : Commits, dirty : BOOLEAN]
    /\ DOMAIN bundle \subseteq Paths
    /\ \A path \in DOMAIN bundle : bundle[path] \in Entry
    /\ exporting.left \subseteq BundleFiles
    /\ accepted \subseteq Commits

\* A directory that a verification accepted is the commit: each allowlisted file with
\* its bytes and its mode, and nothing else, in whatever order files, evidence and
\* sums were changed after the export and whatever an export that stopped left.
AcceptedIsCommitted ==
    \A commit \in accepted :
        /\ DOMAIN bundle = DOMAIN Repository[commit]
        /\ \A path \in DOMAIN bundle : bundle[path] = File(Repository[commit][path])
        /\ evidence = [commit |-> commit, entries |-> Repository[commit]]
=============================================================================
