----------------------------- MODULE PersistLayout -----------------------------
(***************************************************************************)
(* Where a boot finds the data: prepare_dirs, link_dir and                 *)
(* write_generated_env of docker/entrypoint.sh. With a bucket at /persist  *)
(* each directory of /data becomes a symlink into it, and what /data held  *)
(* before moves there; without one, /data itself is used. The script can   *)
(* end after every step, and the container be replaced by one that has     *)
(* another volume at /data or no bucket.                                   *)
(*                                                                         *)
(* One model directory stands for all that hold files ("storage"). The     *)
(* secrets come from no setting, the database runs in the directory it is  *)
(* given (PostgresBoot has the fallback), PERSIST_ROOT stays the same, and *)
(* the directories of scratch data, which are kept nowhere, are left out.  *)
(***************************************************************************)
EXTENDS Naturals, Sequences

CONSTANTS MaxContainers, MaxCrashes  \* bounds

ASSUME LayoutAssumption == MaxContainers \in Nat \ {0} /\ MaxCrashes \in Nat

VARIABLES
    box,      \* the container: its volume at /data, its bucket, PERSIST_MODE
    dataDir,  \* /data of the volume (TRUE) and of the container's own layer
    persist,  \* /persist of the bucket (TRUE) and of the image
    made,     \* where the directories of the bucket layout exist
    boot,     \* the boot: pc, the directory that it links, the SECRET_KEY
    found,    \* what the container was given, or has begun since
    cut,      \* the directories in which it saw a copy or a write cut off
    spent     \* keys made, containers and crashes so far

layoutVars == <<box, dataDir, persist, made, boot, found, cut, spent>>

\* In the order in which configure_bucket_layout links them.
Order == <<"postgres", "config", "storage">>
Dirs == {"postgres", "config", "storage"}

\* Whose data a directory holds, by the SECRET_KEY of the installation (0: nothing), and
\* whether it is all there.
MaxKeys == MaxContainers + MaxCrashes
Content == [by : 0..MaxKeys, whole : BOOLEAN]
Nothing == [by |-> 0, whole |-> TRUE]
DataEntry == [kind : {"none", "dir", "link"}, holds : Content]
NoEntry == [kind |-> "none", holds |-> Nothing]
EmptyDir == [kind |-> "dir", holds |-> Nothing]
Link == [kind |-> "link", holds |-> Nothing]

Boxes == [volume : BOOLEAN, bucket : BOOLEAN, setting : {"auto", "bucket", "legacy"}]

\* detect_persist_mode: "auto" wants a mount point; "bucket" is content with any /persist
\* that can be written, the one of the image among them. A bucket that cannot be written
\* is no bucket.
InBucketMode(b) == b.setting = "bucket" \/ (b.setting = "auto" /\ b.bucket)

LayoutInit ==
    /\ box \in Boxes
    /\ dataDir = [v \in BOOLEAN |-> [d \in Dirs |-> NoEntry]]
    /\ persist = [m \in BOOLEAN |-> [d \in Dirs |-> Nothing]]
    /\ made = {}
    /\ boot = [pc |-> "down", at |-> 1, key |-> 0]
    /\ found = [d \in Dirs |-> Nothing]
    /\ cut = {}
    /\ spent = [keys |-> 0, containers |-> 1, crashes |-> 0]

Source(d) == dataDir[box.volume][d]
Target(d) == persist[box.bucket][d]

\* What is read under /data/<d>.
Served(d) == IF Source(d).kind = "link" THEN Target(d) ELSE Source(d).holds

SetSource(d, entry) == dataDir' = [dataDir EXCEPT ![box.volume][d] = entry]
SetTarget(d, holds) == persist' = [persist EXCEPT ![box.bucket][d] = holds]

\* A file or directory is written through the link, or in /data itself.
WriteUnder(d, holds) ==
    IF Source(d).kind = "link"
    THEN SetTarget(d, holds) /\ UNCHANGED dataDir
    ELSE SetSource(d, [kind |-> "dir", holds |-> holds]) /\ UNCHANGED persist

GoTo(pc) == boot' = [boot EXCEPT !.pc = pc]

History == <<found, cut, spent>>
World == <<box, dataDir, persist, made>>

Start ==
    /\ boot.pc = "down"
    /\ IF InBucketMode(box)
       THEN made' = made \cup {box.bucket} /\ boot' = [boot EXCEPT !.pc = "link", !.at = 1]
       ELSE GoTo("dirs") /\ UNCHANGED made
    /\ UNCHANGED <<box, dataDir, persist>> /\ UNCHANGED History

Here == Order[boot.at]
AfterLink ==
    boot' = IF boot.at = Len(Order) THEN [boot EXCEPT !.pc = "dirs"]
            ELSE [boot EXCEPT !.pc = "link", !.at = @ + 1]

\* Defect: /data is copied over what the bucket has.
MustCopyAnyway(d) == Source(d).holds.by # 0

MustCopy(d) == Source(d).holds.by # 0 /\ Target(d).by = 0

\* link_dir looks at both sides: a link stays; files are copied into an empty target, and
\* where both sides have some, those of /data are given up.
LinkBegins ==
    /\ boot.pc = "link"
    /\ \/ Source(Here).kind = "link" /\ AfterLink /\ UNCHANGED persist
       \/ Source(Here).kind = "none" /\ GoTo("point") /\ UNCHANGED persist
       \/ /\ Source(Here).kind = "dir" /\ MustCopy(Here)
          /\ SetTarget(Here, [by |-> Source(Here).holds.by, whole |-> FALSE])
          /\ GoTo("copying")
       \/ /\ Source(Here).kind = "dir" /\ ~MustCopy(Here)
          /\ GoTo("remove")
          /\ UNCHANGED persist
    /\ UNCHANGED <<box, dataDir, made>> /\ UNCHANGED History

CopyEnds ==
    /\ boot.pc = "copying"
    /\ SetTarget(Here, Source(Here).holds)
    /\ GoTo("remove")
    /\ UNCHANGED <<box, dataDir, made>> /\ UNCHANGED History

\* rm -rf, which can be cut off too.
Remove ==
    /\ boot.pc \in {"remove", "removing"}
    /\ IF boot.pc = "remove" /\ Source(Here).holds.by # 0
       THEN SetSource(Here, [Source(Here) EXCEPT !.holds.whole = FALSE]) /\ GoTo("removing")
       ELSE SetSource(Here, NoEntry) /\ GoTo("point")
    /\ UNCHANGED <<box, persist, made>> /\ UNCHANGED History

Point ==
    /\ boot.pc = "point"
    /\ SetSource(Here, Link)
    /\ AfterLink
    /\ UNCHANGED <<box, persist, made>> /\ UNCHANGED History

\* mkdir -p makes what is missing, and fails on a link that leads nowhere.
MakeDirs ==
    /\ boot.pc = "dirs"
    /\ IF \E d \in Dirs : Source(d).kind = "link" /\ box.bucket \notin made
       THEN GoTo("down") /\ UNCHANGED dataDir
       ELSE /\ GoTo("secrets")
            /\ dataDir' = [dataDir EXCEPT ![box.volume] =
                   [d \in Dirs |-> IF Source(d).kind = "none" THEN EmptyDir ELSE Source(d)]]
    /\ UNCHANGED <<box, persist, made>> /\ UNCHANGED History

\* The SECRET_KEY of generated.env, or a new one. Of a file that was cut off, the first
\* line may be there, or nothing, or a line without its end, on which the boot stops.
ReadsKey(key) ==
    LET env == Served("config") IN
    \/ env.by # 0 /\ key = env.by
    \/ (env.by = 0 \/ ~env.whole) /\ key = spent.keys + 1

\* The file is truncated and written again at every boot.
WriteSecrets ==
    /\ boot.pc = "secrets"
    /\ \/ \E key \in 1..MaxKeys :
              /\ ReadsKey(key)
              /\ boot' = [boot EXCEPT !.pc = "writing", !.key = key]
              /\ WriteUnder("config", [by |-> key, whole |-> FALSE])
              /\ spent' = IF key > spent.keys THEN [spent EXCEPT !.keys = key] ELSE spent
       \/ /\ ~Served("config").whole
          /\ GoTo("down")
          /\ UNCHANGED <<dataDir, persist, spent>>
    /\ UNCHANGED <<box, made, found, cut>>

SecretsWritten ==
    /\ boot.pc = "writing"
    /\ WriteUnder("config", [by |-> boot.key, whole |-> TRUE])
    /\ GoTo("init")
    /\ UNCHANGED <<box, made>> /\ UNCHANGED History

\* A database and files are begun, by this key, where there are none.
Begun(d) ==
    IF Served(d).by = 0 THEN [by |-> boot.key, whole |-> TRUE] ELSE Served(d)

Serve ==
    /\ boot.pc = "init"
    /\ LET begun == [d \in Dirs |-> Begun(d)]
       IN /\ dataDir' = [dataDir EXCEPT ![box.volume] = [d \in Dirs |->
                 IF Source(d).kind = "link" THEN Source(d)
                 ELSE [Source(d) EXCEPT !.holds = begun[d]]]]
          /\ persist' = [persist EXCEPT ![box.bucket] = [d \in Dirs |->
                 IF Source(d).kind = "link" THEN begun[d] ELSE Target(d)]]
          /\ found' = [d \in Dirs |-> IF found[d].by = 0 THEN begun[d] ELSE found[d]]
    /\ GoTo("serving")
    /\ UNCHANGED <<box, made, cut, spent>>

\* The script ends, by a command that fails or from outside, or the services end; what is
\* copied or written at that moment stays in part.
Crash ==
    /\ boot.pc # "down"
    /\ spent.crashes < MaxCrashes
    /\ spent' = [spent EXCEPT !.crashes = @ + 1]
    /\ GoTo("down")
    /\ cut' = CASE boot.pc = "copying" -> cut \cup {Here}
                [] boot.pc = "writing" -> cut \cup {"config"}
                [] OTHER -> cut
    /\ UNCHANGED World /\ UNCHANGED found

\* What a new container is given: as link_dir chooses, in its mode.
Given(b, olddata, oldpersist, d) ==
    LET entry == olddata[b.volume][d]
        kept == oldpersist[b.bucket][d]
    IN IF entry.kind = "link" \/ (InBucketMode(b) /\ kept.by # 0) THEN kept
       ELSE entry.holds

\* Between two containers the volume and the bucket can come and go, and the setting change.
NewContainer ==
    /\ boot.pc = "down"
    /\ spent.containers < MaxContainers
    /\ spent' = [spent EXCEPT !.containers = @ + 1]
    /\ \E b \in Boxes :
           LET olddata == [dataDir EXCEPT ![FALSE] = [d \in Dirs |-> NoEntry]]
               oldpersist == [persist EXCEPT ![FALSE] = [d \in Dirs |-> Nothing]]
           IN /\ box' = b
              /\ dataDir' = olddata
              /\ persist' = oldpersist
              /\ found' = [d \in Dirs |-> Given(b, olddata, oldpersist, d)]
    /\ made' = made \ {FALSE}
    /\ cut' = {}
    /\ UNCHANGED boot

LayoutNext ==
    \/ Start \/ LinkBegins \/ CopyEnds \/ Remove \/ Point
    \/ MakeDirs \/ WriteSecrets \/ SecretsWritten \/ Serve
    \/ Crash \/ NewContainer

LayoutSpec == LayoutInit /\ [][LayoutNext]_layoutVars

------------------------------------------------------------------------------
(* Properties *)

\* The variables keep their types.
LayoutTypeOK ==
    /\ box \in Boxes
    /\ dataDir \in [BOOLEAN -> [Dirs -> DataEntry]]
    /\ persist \in [BOOLEAN -> [Dirs -> Content]]
    /\ made \subseteq BOOLEAN
    /\ boot \in [pc : {"down", "link", "copying", "remove", "removing", "point", "dirs",
                      "secrets", "writing", "init", "serving"},
                at : 1..Len(Order), key : 0..MaxKeys]
    /\ found \in [Dirs -> Content]
    /\ cut \subseteq Dirs
    /\ spent \in [keys : 0..MaxKeys, containers : 1..MaxContainers, crashes : 0..MaxCrashes]

\* However often its boots are cut off on the way, a container serves all that it was
\* given whole, wherever that was, and no part of it: only a directory in which a copy or
\* a write was itself cut off can lose some.
ServesWhatItWasGiven ==
    boot.pc = "serving" =>
        \A d \in Dirs \ cut :
            found[d].whole => Served(d) = found[d]
=============================================================================
