--------------------------- MODULE ControlPlaneProofs ---------------------------
(***************************************************************************)
(* The persistent layout: a boot loses nothing of what its container was   *)
(* given, for any number of containers, volumes, buckets and crashes. Then *)
(* the components of MCControlPlane together: what is proved of each alone *)
(* holds of the specification that TLC checks.                             *)
(***************************************************************************)
EXTENDS MCControlPlane, DeployProofs, AdminProofs, OpsProofs, TLAPS

-----------------------------------------------------------------------------
(* The persistent layout. *)

USE LayoutAssumption

\* What this container would serve of a directory if its boot went on from here: in both
\* modes what NewContainer gave it of these directories.
Held(d) ==
    IF Source(d).kind = "link" \/ (InBucketMode(box) /\ Target(d).by # 0)
    THEN Target(d) ELSE Source(d).holds

\* The container was given data in this directory, all of it, and did not cut it off.
Due(d) == d \notin cut /\ found[d].whole /\ found[d].by # 0

Linking == {"link", "copying", "remove", "removing", "point"}
Linked == {"dirs", "secrets", "writing", "init", "serving"}

\* Only a directory of /data itself holds anything.
DirsInv ==
    \A v \in BOOLEAN : \A d \in Dirs :
        dataDir[v][d].kind # "dir" => dataDir[v][d].holds = Nothing

\* Links are made in bucket mode, one after the other.
LinkInv ==
    /\ boot.pc \in Linking => InBucketMode(box)
    /\ boot.pc \in Linking => \A i \in 1..(boot.at - 1) : Source(Order[i]).kind = "link"
    /\ boot.pc \in Linked /\ InBucketMode(box) => \A d \in Dirs : Source(d).kind = "link"

\* What is removed is empty or has a counterpart in the bucket, and what is not yet
\* linked is gone; mkdir has made all that there is to be.
HereInv ==
    /\ boot.pc \in {"copying", "remove", "removing"} => Source(Here).kind = "dir"
    /\ boot.pc \in {"remove", "removing"} => Source(Here).holds.by = 0 \/ Target(Here).by # 0
    /\ boot.pc = "point" => Source(Here).kind = "none"
    /\ boot.pc \in {"secrets", "writing", "init"} => \A d \in Dirs : Source(d).kind # "none"

\* What is due is held, but for the copy and the file that are under way, of which the
\* source is whole and the key known.
Copying(d) == boot.pc = "copying" /\ d = Here
Writing(d) == boot.pc = "writing" /\ d = "config"

HeldInv ==
    \A d \in Dirs : Due(d) =>
        /\ Copying(d) => Source(d).holds = found[d]
        /\ Writing(d) => boot.key = found[d].by
        /\ ~Copying(d) /\ ~Writing(d) => Held(d) = found[d]

LayoutInv == LayoutTypeOK /\ DirsInv /\ LinkInv /\ HereInv /\ HeldInv /\ ServesWhatItWasGiven

-----------------------------------------------------------------------------
(* What a step writes. *)

\* The current volume and bucket hold an entry and a content for each directory.
LEMMA View ==
    ASSUME LayoutTypeOK, NEW d \in Dirs
    PROVE  /\ box.volume \in BOOLEAN /\ box.bucket \in BOOLEAN
           /\ Source(d) \in DataEntry /\ Target(d) \in Content
<1>1. box.volume \in BOOLEAN /\ box.bucket \in BOOLEAN BY DEF LayoutTypeOK, Boxes
<1>2. dataDir[box.volume] \in [Dirs -> DataEntry] BY <1>1 DEF LayoutTypeOK
<1>3. persist[box.bucket] \in [Dirs -> Content] BY <1>1 DEF LayoutTypeOK
<1>4. QED BY <1>1, <1>2, <1>3 DEF Source, Target

\* The directories of the current volume are exchanged for others.
LEMMA SourcesSet ==
    ASSUME LayoutTypeOK, DirsInv, NEW f \in [Dirs -> DataEntry],
           \A d \in Dirs : f[d].kind # "dir" => f[d].holds = Nothing,
           dataDir' = [dataDir EXCEPT ![box.volume] = f], UNCHANGED box
    PROVE  /\ dataDir' \in [BOOLEAN -> [Dirs -> DataEntry]]
           /\ \A d \in Dirs : Source(d)' = f[d]
           /\ DirsInv'
<1>1. box.volume \in BOOLEAN BY DEF LayoutTypeOK, Boxes
<1>2. dataDir \in [BOOLEAN -> [Dirs -> DataEntry]] BY DEF LayoutTypeOK
<1>3. dataDir' \in [BOOLEAN -> [Dirs -> DataEntry]] BY <1>1, <1>2
<1>4. dataDir'[box.volume] = f BY <1>1, <1>2
<1>5. \A v \in BOOLEAN : v # box.volume => dataDir'[v] = dataDir[v] BY <1>1, <1>2
<1>6. DirsInv'
  <2> SUFFICES ASSUME NEW v \in BOOLEAN, NEW d \in Dirs, dataDir'[v][d].kind # "dir"
               PROVE  dataDir'[v][d].holds = Nothing
    BY DEF DirsInv
  <2>1. CASE v = box.volume BY <1>4, <2>1
  <2>2. CASE v # box.volume
    <3>1. dataDir'[v] = dataDir[v] BY <1>5, <2>2
    <3>2. QED BY <3>1 DEF DirsInv
  <2>3. QED BY <2>1, <2>2
<1>7. QED BY <1>3, <1>4, <1>6 DEF Source

\* One of them is.
LEMMA SourceSet ==
    ASSUME LayoutTypeOK, DirsInv, NEW d \in Dirs, NEW e \in DataEntry,
           e.kind # "dir" => e.holds = Nothing,
           SetSource(d, e), UNCHANGED box
    PROVE  /\ dataDir' \in [BOOLEAN -> [Dirs -> DataEntry]]
           /\ \A c \in Dirs : Source(c)' = IF c = d THEN e ELSE Source(c)
           /\ DirsInv'
<1> DEFINE f == [dataDir[box.volume] EXCEPT ![d] = e]
<1>1. box.volume \in BOOLEAN BY DEF LayoutTypeOK, Boxes
<1>2. dataDir[box.volume] \in [Dirs -> DataEntry] BY <1>1 DEF LayoutTypeOK
<1>3. f \in [Dirs -> DataEntry] BY <1>2
<1>4. dataDir' = [dataDir EXCEPT ![box.volume] = f] BY DEF SetSource
<1>5. \A c \in Dirs : f[c] = IF c = d THEN e ELSE Source(c) BY <1>2 DEF Source
<1>6. \A c \in Dirs : f[c].kind # "dir" => f[c].holds = Nothing
  BY <1>1, <1>5 DEF DirsInv, Source
<1>7. /\ dataDir' \in [BOOLEAN -> [Dirs -> DataEntry]]
      /\ \A c \in Dirs : Source(c)' = f[c]
      /\ DirsInv'
  <2> HIDE DEF f
  <2>1. QED BY <1>3, <1>4, <1>6, SourcesSet
<1>8. QED BY <1>5, <1>7

\* A directory of the current bucket is written.
LEMMA TargetSet ==
    ASSUME LayoutTypeOK, NEW d \in Dirs, NEW h \in Content, SetTarget(d, h), UNCHANGED box
    PROVE  /\ persist' \in [BOOLEAN -> [Dirs -> Content]]
           /\ \A c \in Dirs : Target(c)' = IF c = d THEN h ELSE Target(c)
<1>1. box.bucket \in BOOLEAN BY DEF LayoutTypeOK, Boxes
<1>2. persist[box.bucket] \in [Dirs -> Content] BY <1>1 DEF LayoutTypeOK
<1>3. [persist[box.bucket] EXCEPT ![d] = h] \in [Dirs -> Content] BY <1>2
<1>4. persist' = [persist EXCEPT ![box.bucket] = [persist[box.bucket] EXCEPT ![d] = h]]
  BY DEF SetTarget
<1>5. persist \in [BOOLEAN -> [Dirs -> Content]] BY DEF LayoutTypeOK
<1>6. persist' \in [BOOLEAN -> [Dirs -> Content]] BY <1>1, <1>3, <1>4, <1>5
<1>7. persist'[box.bucket] = [persist[box.bucket] EXCEPT ![d] = h] BY <1>1, <1>4, <1>5
<1>8. QED BY <1>2, <1>6, <1>7 DEF Target

\* Where volume and bucket stay, each directory is what it was.
LEMMA SameSource ==
    ASSUME UNCHANGED <<box, dataDir>>
    PROVE  (\A d \in Dirs : Source(d)' = Source(d)) /\ (DirsInv => DirsInv')
BY DEF Source, DirsInv

LEMMA SameTarget == ASSUME UNCHANGED <<box, persist>> PROVE \A d \in Dirs : Target(d)' = Target(d)
BY DEF Target

\* The directory at hand is one of the three, and another one than those before it.
LEMMA OrderFacts ==
    ASSUME LayoutTypeOK
    PROVE  /\ Here \in Dirs /\ Len(Order) = 3
           /\ \A i \in 1..3 : Order[i] \in Dirs
           /\ \A i \in 1..(boot.at - 1) : Order[i] \in Dirs /\ Order[i] # Here
           /\ boot.at = 3 => \A d \in Dirs : d = Here \/ \E i \in 1..(boot.at - 1) : d = Order[i]
BY DEF LayoutTypeOK, Here, Order, Dirs

\* Goto and AfterLink change the boot's step only.
LEMMA GoToFacts ==
    ASSUME LayoutTypeOK, NEW pc, GoTo(pc)
    PROVE  boot'.pc = pc /\ boot'.at = boot.at /\ boot'.key = boot.key /\ Here' = Here
BY DEF LayoutTypeOK, GoTo, Here

\* A key that is drawn is a key.
LEMMA KeysCounted == MaxKeys \in Nat /\ \A k \in 1..MaxKeys : k \in 0..MaxKeys
BY DEF MaxKeys

-----------------------------------------------------------------------------
(* Every step keeps it. *)

\* The steps that only go on.
LEMMA StartStep == ASSUME LayoutInv, Start PROVE LayoutInv'
<1> USE DEF LayoutInv, Start, History
<1>1. UNCHANGED <<box, dataDir, persist, found, cut, spent>> OBVIOUS
<1>2. made' \subseteq BOOLEAN BY View DEF LayoutTypeOK, Dirs
<1>3. /\ boot' \in [pc : {"link", "dirs"}, at : 1..Len(Order), key : 0..MaxKeys]
      /\ boot'.pc = "link" => boot'.at = 1 /\ InBucketMode(box)
      /\ boot'.pc = "dirs" => ~InBucketMode(box)
  <2>1. 1 \in 1..Len(Order) BY OrderFacts
  <2>2. CASE InBucketMode(box) BY <2>1, <2>2 DEF LayoutTypeOK
  <2>3. CASE ~InBucketMode(box) BY <2>3 DEF LayoutTypeOK, GoTo
  <2>4. QED BY <2>2, <2>3
<1>4. LayoutTypeOK' BY <1>1, <1>2, <1>3 DEF LayoutTypeOK
<1>5. DirsInv' BY <1>1, SameSource
<1>6. LinkInv' BY <1>1, <1>3 DEF LinkInv, Linking, Linked
<1>7. HereInv' BY <1>3 DEF HereInv
<1>8. HeldInv'
  <2>1. \A d \in Dirs : Held(d)' = Held(d) BY <1>1 DEF Held, Source, Target
  <2>2. \A d \in Dirs : Due(d)' = Due(d) BY <1>1 DEF Due
  <2>3. QED BY <1>1, <1>3, <2>1, <2>2 DEF HeldInv, Copying, Writing
<1>9. ServesWhatItWasGiven' BY <1>3 DEF ServesWhatItWasGiven
<1>10. QED BY <1>4, <1>5, <1>6, <1>7, <1>8, <1>9

\* After a directory is linked, the next one is at hand, or all of them are linked.
LEMMA AfterLinkFacts ==
    ASSUME LayoutTypeOK, AfterLink, boot.pc \in Linking,
           \A i \in 1..boot.at : Source(Order[i])'.kind = "link",
           InBucketMode(box), UNCHANGED box
    PROVE  /\ LinkInv' /\ HereInv' /\ ServesWhatItWasGiven'
           /\ boot' \in [pc : {"link", "dirs"}, at : 1..Len(Order), key : 0..MaxKeys]
<1>1. boot' \in [pc : {"link", "dirs"}, at : 1..Len(Order), key : 0..MaxKeys]
  <2>1. Len(Order) = 3 /\ boot.at \in 1..3 BY OrderFacts DEF LayoutTypeOK
  <2>2. CASE boot.at = 3 BY <2>1, <2>2 DEF LayoutTypeOK, AfterLink
  <2>3. CASE boot.at # 3
    <3>1. boot.at + 1 \in 1..Len(Order) BY <2>1, <2>3
    <3>2. QED BY <2>1, <2>3, <3>1 DEF LayoutTypeOK, AfterLink
  <2>4. QED BY <2>2, <2>3
<1>2. /\ boot'.pc = "link" => boot'.at = boot.at + 1
      /\ boot'.pc = "dirs" => boot.at = 3
  BY OrderFacts DEF LayoutTypeOK, AfterLink
<1>3. boot.at \in Nat BY DEF LayoutTypeOK
<1>4. LinkInv'
  <2>1. CASE boot'.pc = "link" BY <1>2, <1>3, <2>1 DEF LinkInv, Linking, Linked
  <2>2. CASE boot'.pc = "dirs"
    <3>1. \A d \in Dirs : \E i \in 1..boot.at : d = Order[i] BY <1>2, <2>2 DEF Dirs, Order
    <3>2. \A d \in Dirs : Source(d)'.kind = "link" BY <3>1
    <3>3. QED BY <2>2, <3>2 DEF LinkInv, Linking, Linked
  <2>3. QED BY <1>1, <2>1, <2>2
<1>5. HereInv' /\ ServesWhatItWasGiven' BY <1>1 DEF HereInv, ServesWhatItWasGiven
<1>6. QED BY <1>1, <1>4, <1>5

\* A copy begins only where the bucket has nothing: what the container was given is in
\* /data then.
LEMMA LinkStep == ASSUME LayoutInv, LinkBegins PROVE LayoutInv'
<1> USE DEF LayoutInv, LinkBegins, History
<1>1. UNCHANGED <<box, dataDir, made, found, cut, spent>> /\ boot.pc = "link" OBVIOUS
<1>2. DirsInv' /\ \A d \in Dirs : Source(d)' = Source(d) BY <1>1, SameSource
<1>3. Here \in Dirs BY OrderFacts
<1>b. InBucketMode(box) /\ \A i \in 1..(boot.at - 1) : Source(Order[i]).kind = "link"
  BY <1>1 DEF LinkInv, Linking
<1>d. \A d \in Dirs : Due(d)' = Due(d) BY <1>1 DEF Due
<1>h. \A d \in Dirs : Due(d) => Held(d) = found[d] BY <1>1 DEF HeldInv, Copying, Writing
<1>4. CASE Source(Here).kind = "link" /\ AfterLink /\ UNCHANGED persist
  <2>1. \A i \in 1..boot.at : Source(Order[i])'.kind = "link"
    <3>1. \A i \in 1..boot.at : i \in 1..(boot.at - 1) \/ Order[i] = Here BY DEF Here, LayoutTypeOK
    <3>2. QED BY <1>2, <1>3, <1>4, <1>b, <3>1, OrderFacts
  <2>2. /\ LinkInv' /\ HereInv' /\ ServesWhatItWasGiven'
        /\ boot' \in [pc : {"link", "dirs"}, at : 1..Len(Order), key : 0..MaxKeys]
    BY <1>1, <1>4, <1>b, <2>1, AfterLinkFacts DEF Linking
  <2>3. LayoutTypeOK' BY <1>1, <1>4, <2>2 DEF LayoutTypeOK
  <2>4. \A d \in Dirs : Held(d)' = Held(d) BY <1>1, <1>4 DEF Held, Source, Target
  <2>5. HeldInv' BY <1>1, <1>d, <1>h, <2>2, <2>4 DEF HeldInv, Copying, Writing
  <2>6. QED BY <1>2, <2>2, <2>3, <2>5
<1>5. CASE \/ Source(Here).kind = "none" /\ GoTo("point") /\ UNCHANGED persist
           \/ Source(Here).kind = "dir" /\ ~MustCopy(Here) /\ GoTo("remove") /\ UNCHANGED persist
  <2>1. PICK pc \in {"point", "remove"} :
            /\ GoTo(pc)
            /\ pc = "point" => Source(Here).kind = "none"
            /\ pc = "remove" => Source(Here).kind = "dir" /\ ~MustCopy(Here)
    BY <1>5, <1>1
  <2>2. boot'.pc = pc /\ boot'.at = boot.at /\ boot'.key = boot.key /\ Here' = Here
    BY <2>1, GoToFacts
  <2>3. LayoutTypeOK' BY <1>1, <1>5, <2>1, <2>2 DEF LayoutTypeOK, GoTo
  <2>4. LinkInv' BY <1>1, <1>2, <1>b, <2>1, <2>2, OrderFacts DEF LinkInv, Linking, Linked
  <2>5. \A d \in Dirs : Target(d)' = Target(d) BY <1>1, <1>5, SameTarget
  <2>6. HereInv' BY <1>2, <1>3, <2>1, <2>2, <2>5 DEF HereInv, MustCopy
  <2>7. \A d \in Dirs : Held(d)' = Held(d) BY <1>1, <1>5 DEF Held, Source, Target
  <2>8. HeldInv' BY <1>1, <1>d, <1>h, <2>1, <2>2, <2>7 DEF HeldInv, Copying, Writing
  <2>9. ServesWhatItWasGiven' BY <2>1, <2>2 DEF ServesWhatItWasGiven
  <2>10. QED BY <1>2, <2>3, <2>4, <2>6, <2>8, <2>9
<1>6. CASE /\ Source(Here).kind = "dir" /\ MustCopy(Here)
           /\ SetTarget(Here, [by |-> Source(Here).holds.by, whole |-> FALSE])
           /\ GoTo("copying")
  <2> DEFINE h == [by |-> Source(Here).holds.by, whole |-> FALSE]
  <2>1. h \in Content BY <1>3, View DEF DataEntry, Content
  <2>2. persist' \in [BOOLEAN -> [Dirs -> Content]]
        /\ \A c \in Dirs : Target(c)' = IF c = Here THEN h ELSE Target(c)
    BY <1>1, <1>3, <1>6, <2>1, TargetSet
  <2>3. boot'.pc = "copying" /\ boot'.at = boot.at /\ boot'.key = boot.key /\ Here' = Here
    BY <1>6, GoToFacts
  <2>4. LayoutTypeOK' BY <1>1, <1>6, <2>2, <2>3 DEF LayoutTypeOK, GoTo
  <2>5. LinkInv' BY <1>1, <1>2, <1>b, <2>3, OrderFacts DEF LinkInv, Linking, Linked
  <2>6. HereInv' BY <1>2, <1>3, <1>6, <2>3 DEF HereInv
  <2>7. \A d \in Dirs : d # Here => Held(d)' = Held(d) BY <1>1, <1>2, <2>2 DEF Held
  <2>8. Due(Here) => Source(Here)'.holds = found[Here]
    BY <1>2, <1>3, <1>6, <1>h, <2>3 DEF Held, MustCopy
  <2>9. HeldInv' BY <1>1, <1>d, <1>h, <2>3, <2>7, <2>8 DEF HeldInv, Copying, Writing
  <2>10. ServesWhatItWasGiven' BY <2>3 DEF ServesWhatItWasGiven
  <2>11. QED BY <1>2, <2>4, <2>5, <2>6, <2>9, <2>10
<1>7. QED BY <1>4, <1>5, <1>6

\* The copy is what /data has: from here on the bucket's side counts.
LEMMA CopyEndsStep == ASSUME LayoutInv, CopyEnds PROVE LayoutInv'
<1> USE DEF LayoutInv, CopyEnds, History
<1>1. UNCHANGED <<box, dataDir, made, found, cut, spent>> /\ boot.pc = "copying" OBVIOUS
<1>2. DirsInv' /\ \A d \in Dirs : Source(d)' = Source(d) BY <1>1, SameSource
<1>3. Here \in Dirs BY OrderFacts
<1>4. Source(Here).holds \in Content BY <1>3, View DEF DataEntry
<1>5. persist' \in [BOOLEAN -> [Dirs -> Content]]
      /\ \A c \in Dirs : Target(c)' = IF c = Here THEN Source(Here).holds ELSE Target(c)
  BY <1>1, <1>3, <1>4, TargetSet
<1>6. boot'.pc = "remove" /\ boot'.at = boot.at /\ boot'.key = boot.key /\ Here' = Here
  BY GoToFacts
<1>7. InBucketMode(box) /\ Source(Here).kind = "dir" BY <1>1 DEF LinkInv, Linking, HereInv
<1>8. LayoutTypeOK' BY <1>1, <1>5, <1>6 DEF LayoutTypeOK, GoTo
<1>9. LinkInv' BY <1>1, <1>2, <1>6, <1>7, OrderFacts DEF LinkInv, Linking, Linked
<1>10. HereInv' BY <1>2, <1>3, <1>5, <1>6, <1>7 DEF HereInv
<1>11. HeldInv'
  <2>1. SUFFICES ASSUME NEW d \in Dirs, Due(d) PROVE Held(d)' = found[d]
    BY <1>1, <1>6 DEF HeldInv, Due, Copying, Writing
  <2>2. CASE d = Here
    <3>1. Source(d).holds = found[d] BY <1>1, <2>1, <2>2 DEF HeldInv, Copying
    <3>2. QED BY <1>1, <1>2, <1>5, <1>7, <2>1, <2>2, <3>1 DEF Held, Due
  <2>3. CASE d # Here
    <3>1. Held(d) = found[d] BY <1>1, <2>1, <2>3 DEF HeldInv, Copying, Writing
    <3>2. QED BY <1>1, <1>2, <1>5, <2>3, <3>1 DEF Held
  <2>4. QED BY <2>2, <2>3
<1>12. ServesWhatItWasGiven' BY <1>6 DEF ServesWhatItWasGiven
<1>13. QED BY <1>2, <1>8, <1>9, <1>10, <1>11, <1>12

\* What is removed is empty, or the bucket has its own.
LEMMA RemoveStep == ASSUME LayoutInv, Remove PROVE LayoutInv'
<1> USE DEF LayoutInv, Remove, History
<1>1. UNCHANGED <<box, persist, made, found, cut, spent>> /\ boot.pc \in {"remove", "removing"}
  OBVIOUS
<1>2. Here \in Dirs BY OrderFacts
<1>3. Source(Here) \in DataEntry /\ Source(Here).kind = "dir" BY <1>1, <1>2, View DEF HereInv
<1>4. InBucketMode(box) /\ (Source(Here).holds.by = 0 \/ Target(Here).by # 0)
  BY <1>1 DEF LinkInv, Linking, HereInv
<1>5. PICK e \in DataEntry, pc \in {"removing", "point"} :
        /\ SetSource(Here, e) /\ GoTo(pc)
        /\ e.kind # "dir" => e.holds = Nothing
        /\ e.kind # "link"
        /\ pc = "point" => e.kind = "none" /\ (boot.pc = "remove" => Source(Here).holds.by = 0)
        /\ pc = "removing" => e.kind = "dir" /\ Target(Here).by # 0
  <2>1. CASE boot.pc = "remove" /\ Source(Here).holds.by # 0
    <3> DEFINE e == [Source(Here) EXCEPT !.holds.whole = FALSE]
    <3>1. e \in DataEntry /\ e.kind = "dir" BY <1>3 DEF DataEntry, Content
    <3>2. QED BY <1>4, <2>1, <3>1
  <2>2. CASE ~(boot.pc = "remove" /\ Source(Here).holds.by # 0)
    <3>1. NoEntry \in DataEntry /\ NoEntry.kind = "none" /\ NoEntry.holds = Nothing
      BY DEF NoEntry, DataEntry, Content, Nothing, MaxKeys
    <3>2. QED BY <1>4, <2>2, <3>1
  <2>3. QED BY <2>1, <2>2
<1>6. /\ dataDir' \in [BOOLEAN -> [Dirs -> DataEntry]]
      /\ \A c \in Dirs : Source(c)' = IF c = Here THEN e ELSE Source(c)
      /\ DirsInv'
  BY <1>1, <1>2, <1>5, SourceSet
<1>7. boot'.pc = pc /\ boot'.at = boot.at /\ boot'.key = boot.key /\ Here' = Here
  BY <1>5, GoToFacts
<1>8. \A d \in Dirs : Target(d)' = Target(d) BY <1>1, SameTarget
<1>9. LayoutTypeOK' BY <1>1, <1>5, <1>6, <1>7 DEF LayoutTypeOK, GoTo
<1>10. LinkInv'
  <2>1. \A i \in 1..(boot.at - 1) : Source(Order[i]).kind = "link"
    BY <1>1 DEF LinkInv, Linking
  <2>2. \A i \in 1..(boot.at - 1) : Source(Order[i])'.kind = "link" BY <1>6, <2>1, OrderFacts
  <2>3. QED BY <1>1, <1>4, <1>7, <2>2 DEF LinkInv, Linking, Linked
<1>11. HereInv' BY <1>2, <1>5, <1>6, <1>7, <1>8 DEF HereInv
<1>12. HeldInv'
  <2>1. SUFFICES ASSUME NEW d \in Dirs, Due(d) PROVE Held(d)' = found[d]
    BY <1>1, <1>7 DEF HeldInv, Due, Copying, Writing
  <2>2. Held(d) = found[d] BY <1>1, <2>1 DEF HeldInv, Copying, Writing
  <2>3. CASE d = Here
    <3>1. Target(d).by # 0
      BY <1>3, <1>4, <2>1, <2>2, <2>3 DEF Held, Due
    <3>2. QED BY <1>1, <1>4, <1>8, <2>2, <3>1 DEF Held
  <2>4. CASE d # Here BY <1>1, <1>6, <1>8, <2>2, <2>4 DEF Held
  <2>5. QED BY <2>3, <2>4
<1>13. ServesWhatItWasGiven' BY <1>7 DEF ServesWhatItWasGiven
<1>14. QED BY <1>6, <1>9, <1>10, <1>11, <1>12, <1>13

\* The link goes where the data is.
LEMMA PointStep == ASSUME LayoutInv, Point PROVE LayoutInv'
<1> USE DEF LayoutInv, Point, History
<1>1. UNCHANGED <<box, persist, made, found, cut, spent>> /\ boot.pc = "point" OBVIOUS
<1>2. Here \in Dirs BY OrderFacts
<1>3. Source(Here).kind = "none" /\ Source(Here).holds = Nothing
  <2>1. Source(Here).kind = "none" BY <1>1 DEF HereInv
  <2>2. QED BY <1>2, <2>1, View DEF DirsInv, Source
<1>4. InBucketMode(box) /\ \A i \in 1..(boot.at - 1) : Source(Order[i]).kind = "link"
  BY <1>1 DEF LinkInv, Linking
<1>5. Link \in DataEntry /\ Link.kind = "link" /\ Link.holds = Nothing
  BY DEF Link, DataEntry, Content, Nothing, MaxKeys
<1>6. /\ dataDir' \in [BOOLEAN -> [Dirs -> DataEntry]]
      /\ \A c \in Dirs : Source(c)' = IF c = Here THEN Link ELSE Source(c)
      /\ DirsInv'
  BY <1>1, <1>2, <1>5, SourceSet
<1>7. \A d \in Dirs : Target(d)' = Target(d) BY <1>1, SameTarget
<1>8. \A i \in 1..boot.at : Source(Order[i])'.kind = "link"
  <2>1. \A i \in 1..boot.at : i \in 1..(boot.at - 1) \/ Order[i] = Here BY DEF Here, LayoutTypeOK
  <2>2. QED BY <1>2, <1>4, <1>5, <1>6, <2>1, OrderFacts
<1>9. /\ LinkInv' /\ HereInv' /\ ServesWhatItWasGiven'
      /\ boot' \in [pc : {"link", "dirs"}, at : 1..Len(Order), key : 0..MaxKeys]
  BY <1>1, <1>4, <1>8, AfterLinkFacts DEF Linking
<1>10. LayoutTypeOK' BY <1>1, <1>6, <1>9 DEF LayoutTypeOK
<1>11. HeldInv'
  <2>1. SUFFICES ASSUME NEW d \in Dirs, Due(d) PROVE Held(d)' = found[d]
    BY <1>1, <1>9 DEF HeldInv, Due, Copying, Writing
  <2>2. Held(d) = found[d] BY <1>1, <2>1 DEF HeldInv, Copying, Writing
  <2>3. CASE d = Here
    <3>1. Target(d).by # 0 BY <1>3, <2>1, <2>2, <2>3 DEF Held, Due, Nothing
    <3>2. QED BY <1>1, <1>4, <1>7, <2>2, <3>1 DEF Held
  <2>4. CASE d # Here BY <1>1, <1>6, <1>7, <2>2, <2>4 DEF Held
  <2>5. QED BY <2>3, <2>4
<1>12. QED BY <1>6, <1>9, <1>10, <1>11

\* Once all is linked, or nothing is to be, the directories serve what is held.
LEMMA LinkedServes ==
    ASSUME LinkInv, boot.pc \in Linked, NEW d \in Dirs
    PROVE  Held(d) = Served(d)
BY DEF LinkInv, Held, Served

\* What is missing is made, empty.
LEMMA MakeDirsStep == ASSUME LayoutInv, MakeDirs PROVE LayoutInv'
<1> USE DEF LayoutInv, MakeDirs, History
<1>1. UNCHANGED <<box, persist, made, found, cut, spent>> /\ boot.pc = "dirs" OBVIOUS
<1>2. PICK pc \in {"down", "secrets"} : GoTo(pc) OBVIOUS
<1>3. boot'.pc = pc /\ boot'.at = boot.at /\ boot'.key = boot.key /\ Here' = Here
  BY <1>2, GoToFacts
<1>4. \A d \in Dirs : Target(d)' = Target(d) BY <1>1, SameTarget
<1>5. /\ dataDir' \in [BOOLEAN -> [Dirs -> DataEntry]]
      /\ \A c \in Dirs : Source(c)' = IF pc = "secrets" /\ Source(c).kind = "none"
                                      THEN EmptyDir ELSE Source(c)
      /\ DirsInv'
  <2>1. CASE pc = "down"
    <3>1. UNCHANGED dataDir BY <1>2, <1>3, <2>1 DEF GoTo, LayoutTypeOK
    <3>2. QED BY <1>1, <2>1, <3>1, SameSource DEF LayoutTypeOK
  <2>2. CASE pc = "secrets"
    <3> DEFINE f == [d \in Dirs |-> IF Source(d).kind = "none" THEN EmptyDir ELSE Source(d)]
    <3>1. dataDir' = [dataDir EXCEPT ![box.volume] = f]
      BY <1>2, <1>3, <2>2 DEF GoTo, LayoutTypeOK
    <3>2. EmptyDir \in DataEntry BY DEF EmptyDir, DataEntry, Content, Nothing, MaxKeys
    <3>3. f \in [Dirs -> DataEntry] BY <3>2, View
    <3>4. \A d \in Dirs : f[d].kind # "dir" => f[d].holds = Nothing
      BY View DEF DirsInv, Source, EmptyDir
    <3>5. \A d \in Dirs : f[d] = IF Source(d).kind = "none" THEN EmptyDir ELSE Source(d)
      OBVIOUS
    <3> HIDE DEF f
    <3>6. QED BY <1>1, <2>2, <3>1, <3>3, <3>4, <3>5, SourcesSet
  <2>3. QED BY <2>1, <2>2
<1>6. LayoutTypeOK' BY <1>1, <1>2, <1>3, <1>5 DEF LayoutTypeOK, GoTo
<1>7. LinkInv'
  <2>1. InBucketMode(box) => \A d \in Dirs : Source(d).kind = "link"
    BY <1>1 DEF LinkInv, Linked
  <2>2. InBucketMode(box) => \A d \in Dirs : Source(d)'.kind = "link" BY <1>5, <2>1
  <2>3. QED BY <1>1, <1>2, <1>3, <2>2 DEF LinkInv, Linking, Linked
<1>8. HereInv' BY <1>3, <1>5 DEF HereInv, EmptyDir
<1>9. HeldInv'
  <2>1. SUFFICES ASSUME NEW d \in Dirs, Due(d) PROVE Held(d)' = found[d]
    BY <1>1, <1>3 DEF HeldInv, Due, Copying, Writing
  <2>2. Held(d) = found[d] BY <1>1, <2>1 DEF HeldInv, Copying, Writing
  <2>3. Source(d).kind = "none" => Source(d).holds = Nothing BY View DEF DirsInv, Source
  <2>4. Source(d)'.holds = Source(d).holds /\ (Source(d)'.kind = "link" <=> Source(d).kind = "link")
    BY <1>5, <2>3 DEF EmptyDir
  <2>5. QED BY <1>1, <1>4, <2>2, <2>4 DEF Held
<1>10. ServesWhatItWasGiven' BY <1>3 DEF ServesWhatItWasGiven
<1>11. QED BY <1>5, <1>6, <1>7, <1>8, <1>9, <1>10

\* What is written through the link, or in /data, is what is served next.
LEMMA WriteFacts ==
    ASSUME LayoutTypeOK, DirsInv, LinkInv, boot.pc \in Linked, NEW d \in Dirs,
           NEW h \in Content, WriteUnder(d, h), UNCHANGED box
    PROVE  /\ dataDir' \in [BOOLEAN -> [Dirs -> DataEntry]]
           /\ persist' \in [BOOLEAN -> [Dirs -> Content]]
           /\ DirsInv'
           /\ \A c \in Dirs : Source(c)'.kind = Source(c).kind \/ Source(c)'.kind = "dir"
           /\ InBucketMode(box) => \A c \in Dirs : Source(c)'.kind = "link"
           /\ \A c \in Dirs : Held(c)' = IF c = d THEN h ELSE Held(c)
<1>1. InBucketMode(box) => \A c \in Dirs : Source(c).kind = "link" BY DEF LinkInv
<1>2. CASE Source(d).kind = "link"
  <2>1. SetTarget(d, h) /\ UNCHANGED dataDir BY <1>2 DEF WriteUnder
  <2>2. /\ persist' \in [BOOLEAN -> [Dirs -> Content]]
        /\ \A c \in Dirs : Target(c)' = IF c = d THEN h ELSE Target(c)
    BY <2>1, TargetSet
  <2>3. DirsInv' /\ \A c \in Dirs : Source(c)' = Source(c) BY <2>1, SameSource
  <2>4. \A c \in Dirs : Held(c)' = IF c = d THEN h ELSE Held(c)
    BY <1>1, <1>2, <2>2, <2>3 DEF Held
  <2>5. QED BY <1>1, <2>1, <2>2, <2>3, <2>4 DEF LayoutTypeOK
<1>3. CASE Source(d).kind # "link"
  <2> DEFINE e == [kind |-> "dir", holds |-> h]
  <2>1. SetSource(d, e) /\ UNCHANGED persist BY <1>3 DEF WriteUnder
  <2>2. e \in DataEntry BY DEF DataEntry
  <2>3. /\ dataDir' \in [BOOLEAN -> [Dirs -> DataEntry]]
        /\ \A c \in Dirs : Source(c)' = IF c = d THEN e ELSE Source(c)
        /\ DirsInv'
    BY <2>1, <2>2, SourceSet
  <2>4. \A c \in Dirs : Target(c)' = Target(c) BY <2>1, SameTarget
  <2>5. ~InBucketMode(box) BY <1>1, <1>3
  <2>6. \A c \in Dirs : Held(c)' = IF c = d THEN h ELSE Held(c)
    BY <1>3, <2>3, <2>4, <2>5 DEF Held
  <2>7. QED BY <2>1, <2>3, <2>5, <2>6 DEF LayoutTypeOK
<1>4. QED BY <1>2, <1>3

\* The key that is written is the one that was read, where one was given whole.
LEMMA WriteSecretsStep == ASSUME LayoutInv, WriteSecrets PROVE LayoutInv'
<1> USE DEF LayoutInv, WriteSecrets
<1>1. UNCHANGED <<box, made, found, cut>> /\ boot.pc = "secrets" OBVIOUS
<1>2. \A d \in Dirs : Held(d) = Served(d) BY <1>1, LinkedServes DEF Linked
<1>3. \A d \in Dirs : Due(d) => Held(d) = found[d] BY <1>1 DEF HeldInv, Copying, Writing
<1>4. \A d \in Dirs : Due(d)' = Due(d) BY <1>1 DEF Due
<1>c. "config" \in Dirs BY DEF Dirs
<1>5. CASE \E key \in 1..MaxKeys :
              /\ ReadsKey(key)
              /\ boot' = [boot EXCEPT !.pc = "writing", !.key = key]
              /\ WriteUnder("config", [by |-> key, whole |-> FALSE])
              /\ spent' = IF key > spent.keys THEN [spent EXCEPT !.keys = key] ELSE spent
  <2>1. PICK key \in 1..MaxKeys :
              /\ ReadsKey(key)
              /\ boot' = [boot EXCEPT !.pc = "writing", !.key = key]
              /\ WriteUnder("config", [by |-> key, whole |-> FALSE])
              /\ spent' = IF key > spent.keys THEN [spent EXCEPT !.keys = key] ELSE spent
    BY <1>5
  <2> DEFINE h == [by |-> key, whole |-> FALSE]
  <2>3. h \in Content /\ key \in 0..MaxKeys BY KeysCounted DEF Content
  <2>4. /\ dataDir' \in [BOOLEAN -> [Dirs -> DataEntry]]
        /\ persist' \in [BOOLEAN -> [Dirs -> Content]]
        /\ DirsInv'
        /\ \A c \in Dirs : Source(c)'.kind = Source(c).kind \/ Source(c)'.kind = "dir"
        /\ InBucketMode(box) => \A c \in Dirs : Source(c)'.kind = "link"
        /\ \A c \in Dirs : Held(c)' = IF c = "config" THEN h ELSE Held(c)
    BY <1>1, <1>c, <2>1, <2>3, WriteFacts DEF Linked
  <2>5. boot' = [pc |-> "writing", at |-> boot.at, key |-> key] BY <2>1 DEF LayoutTypeOK
  <2>6. spent' \in [keys : 0..MaxKeys, containers : 1..MaxContainers, crashes : 0..MaxCrashes]
    BY <2>1, <2>3 DEF LayoutTypeOK
  <2>7. LayoutTypeOK' BY <1>1, <2>3, <2>4, <2>5, <2>6 DEF LayoutTypeOK
  <2>8. LinkInv' BY <1>1, <2>4, <2>5 DEF LinkInv, Linking, Linked
  <2>9. HereInv' /\ ServesWhatItWasGiven' BY <1>1, <2>4, <2>5 DEF HereInv, ServesWhatItWasGiven
  <2>10. Due("config") => key = found["config"].by
    BY <1>2, <1>3, <1>c, <2>1 DEF ReadsKey, Due
  <2>11. HeldInv' BY <1>1, <1>3, <1>4, <2>4, <2>5, <2>10 DEF HeldInv, Copying, Writing
  <2>12. QED BY <2>4, <2>7, <2>8, <2>9, <2>11
<1>6. CASE GoTo("down") /\ UNCHANGED <<dataDir, persist, spent>>
  <2>1. boot'.pc = "down" /\ boot'.at = boot.at /\ boot'.key = boot.key BY <1>6, GoToFacts
  <2>2. LayoutTypeOK' BY <1>1, <1>6, <2>1 DEF LayoutTypeOK, GoTo
  <2>3. DirsInv' BY <1>1, <1>6, SameSource
  <2>4. LinkInv' /\ HereInv' /\ ServesWhatItWasGiven'
    BY <2>1 DEF LinkInv, Linking, Linked, HereInv, ServesWhatItWasGiven
  <2>5. \A d \in Dirs : Held(d)' = Held(d) BY <1>1, <1>6 DEF Held, Source, Target
  <2>6. HeldInv' BY <1>1, <1>3, <1>4, <2>1, <2>5 DEF HeldInv, Copying, Writing
  <2>7. QED BY <2>2, <2>3, <2>4, <2>6
<1>7. QED BY <1>5, <1>6

\* The file is whole again.
LEMMA SecretsWrittenStep == ASSUME LayoutInv, SecretsWritten PROVE LayoutInv'
<1> USE DEF LayoutInv, SecretsWritten, History
<1>1. UNCHANGED <<box, made, found, cut, spent>> /\ boot.pc = "writing" OBVIOUS
<1>2. \A d \in Dirs : Due(d)' = Due(d) BY <1>1 DEF Due
<1>c. "config" \in Dirs BY DEF Dirs
<1> DEFINE h == [by |-> boot.key, whole |-> TRUE]
<1>3. h \in Content BY DEF Content, LayoutTypeOK
<1>4. /\ dataDir' \in [BOOLEAN -> [Dirs -> DataEntry]]
      /\ persist' \in [BOOLEAN -> [Dirs -> Content]]
      /\ DirsInv'
      /\ \A c \in Dirs : Source(c)'.kind = Source(c).kind \/ Source(c)'.kind = "dir"
      /\ InBucketMode(box) => \A c \in Dirs : Source(c)'.kind = "link"
      /\ \A c \in Dirs : Held(c)' = IF c = "config" THEN h ELSE Held(c)
  BY <1>1, <1>c, <1>3, WriteFacts DEF Linked
<1>5. boot'.pc = "init" /\ boot'.at = boot.at /\ boot'.key = boot.key BY GoToFacts
<1>6. LayoutTypeOK' BY <1>1, <1>4, <1>5 DEF LayoutTypeOK, GoTo
<1>7. LinkInv' BY <1>1, <1>4, <1>5 DEF LinkInv, Linking, Linked
<1>8. HereInv' /\ ServesWhatItWasGiven' BY <1>1, <1>4, <1>5 DEF HereInv, ServesWhatItWasGiven
<1>9. HeldInv'
  <2>1. SUFFICES ASSUME NEW d \in Dirs, Due(d) PROVE Held(d)' = found[d]
    BY <1>1, <1>5 DEF HeldInv, Due, Copying, Writing
  <2>2. CASE d = "config"
    <3>1. boot.key = found[d].by BY <1>1, <2>1, <2>2 DEF HeldInv, Writing
    <3>2. found[d] \in Content BY <2>1 DEF LayoutTypeOK
    <3>3. found[d] = h BY <2>1, <3>1, <3>2 DEF Content, Due
    <3>4. QED BY <1>4, <2>2, <3>3
  <2>3. CASE d # "config"
    <3>1. Held(d) = found[d] BY <1>1, <2>1, <2>3 DEF HeldInv, Copying, Writing
    <3>2. QED BY <1>4, <2>3, <3>1
  <2>4. QED BY <2>2, <2>3
<1>10. QED BY <1>4, <1>6, <1>7, <1>8, <1>9

\* The services begin what there is not, and what they begin is theirs from then on.
LEMMA ServingStep == ASSUME LayoutInv, Serve PROVE LayoutInv'
<1> USE DEF LayoutInv, Serve
<1> DEFINE begun == [d \in Dirs |-> Begun(d)]
<1> DEFINE f == [d \in Dirs |-> IF Source(d).kind = "link" THEN Source(d)
                               ELSE [Source(d) EXCEPT !.holds = begun[d]]]
<1> DEFINE g == [d \in Dirs |-> IF Source(d).kind = "link" THEN begun[d] ELSE Target(d)]
<1>1. UNCHANGED <<box, made, cut, spent>> /\ boot.pc = "init" OBVIOUS
<1>2. /\ dataDir' = [dataDir EXCEPT ![box.volume] = f]
      /\ persist' = [persist EXCEPT ![box.bucket] = g]
      /\ found' = [d \in Dirs |-> IF found[d].by = 0 THEN begun[d] ELSE found[d]]
  OBVIOUS
<1>3. \A d \in Dirs : Served(d) \in Content BY View DEF Served, DataEntry
<1>4. \A d \in Dirs : begun[d] \in Content BY <1>3 DEF Begun, Content, LayoutTypeOK
<1>5. InBucketMode(box) => \A d \in Dirs : Source(d).kind = "link"
  BY <1>1 DEF LinkInv, Linked
<1>6. \A d \in Dirs : Source(d).kind \in {"dir", "link"}
  BY <1>1, View DEF HereInv, DataEntry
<1> HIDE DEF begun
<1>7. /\ f \in [Dirs -> DataEntry]
      /\ \A d \in Dirs : f[d].kind # "dir" => f[d].holds = Nothing
      /\ \A d \in Dirs : f[d].kind = Source(d).kind
      /\ \A d \in Dirs : f[d].holds = IF Source(d).kind = "link" THEN Source(d).holds ELSE begun[d]
  <2>1. SUFFICES ASSUME NEW d \in Dirs
                 PROVE  /\ f[d] \in DataEntry
                        /\ f[d].kind # "dir" => f[d].holds = Nothing
                        /\ f[d].kind = Source(d).kind
                        /\ f[d].holds = IF Source(d).kind = "link" THEN Source(d).holds
                                        ELSE begun[d]
    OBVIOUS
  <2>2. Source(d) \in DataEntry /\ begun[d] \in Content BY <1>4, View
  <2>3. Source(d).kind # "dir" => Source(d).holds = Nothing BY View DEF DirsInv, Source
  <2>4. CASE Source(d).kind = "link" BY <2>2, <2>3, <2>4
  <2>5. CASE Source(d).kind = "dir" BY <2>2, <2>5 DEF DataEntry
  <2>6. QED BY <1>6, <2>4, <2>5
<1>8. g \in [Dirs -> Content] BY <1>4, View
<1>9. \A d \in Dirs : g[d] = IF Source(d).kind = "link" THEN begun[d] ELSE Target(d) OBVIOUS
<1> HIDE DEF f, g
<1>10. /\ dataDir' \in [BOOLEAN -> [Dirs -> DataEntry]]
       /\ \A d \in Dirs : Source(d)' = f[d]
       /\ DirsInv'
  BY <1>1, <1>2, <1>7, SourcesSet
<1>11. persist' \in [BOOLEAN -> [Dirs -> Content]] /\ \A d \in Dirs : Target(d)' = g[d]
  <2>1. box.bucket \in BOOLEAN /\ persist \in [BOOLEAN -> [Dirs -> Content]]
    BY DEF LayoutTypeOK, Boxes
  <2>2. persist' \in [BOOLEAN -> [Dirs -> Content]] /\ persist'[box.bucket] = g
    BY <1>2, <1>8, <2>1
  <2>3. QED BY <1>1, <2>2 DEF Target
<1>12. \A d \in Dirs : Served(d)' = begun[d] BY <1>6, <1>7, <1>9, <1>10, <1>11 DEF Served
<1>13. boot'.pc = "serving" /\ boot'.at = boot.at /\ boot'.key = boot.key BY GoToFacts
<1>14. \A d \in Dirs : found'[d] = IF found[d].by = 0 THEN begun[d] ELSE found[d] BY <1>2
<1>15. found' \in [Dirs -> Content] BY <1>2, <1>4 DEF LayoutTypeOK
<1>16. LayoutTypeOK' BY <1>1, <1>10, <1>11, <1>13, <1>15 DEF LayoutTypeOK, GoTo
<1>17. LinkInv' BY <1>1, <1>5, <1>7, <1>10, <1>13 DEF LinkInv, Linking, Linked
<1>18. HereInv' BY <1>13 DEF HereInv
<1>19. ServesWhatItWasGiven'
  <2>1. SUFFICES ASSUME NEW d \in Dirs \ cut, found'[d].whole PROVE Served(d)' = found'[d]
    BY <1>1 DEF ServesWhatItWasGiven
  <2>2. CASE found[d].by = 0 BY <1>12, <1>14, <2>2
  <2>3. CASE found[d].by # 0
    <3>1. Due(d) /\ found'[d] = found[d] BY <1>14, <2>1, <2>3 DEF Due
    <3>2. Held(d) = found[d] BY <1>1, <3>1 DEF HeldInv, Copying, Writing
    <3>3. Served(d) = found[d] BY <1>1, <3>2, LinkedServes DEF Linked
    <3>4. begun[d] = Served(d) BY <2>3, <3>3 DEF begun, Begun
    <3>5. QED BY <1>12, <3>1, <3>3, <3>4
  <2>4. QED BY <2>2, <2>3
<1>20. HeldInv'
  <2>1. SUFFICES ASSUME NEW d \in Dirs, Due(d)' PROVE Held(d)' = found'[d]
    BY <1>13 DEF HeldInv, Copying, Writing
  <2>2. Served(d)' = found'[d] BY <1>1, <1>13, <1>19, <2>1 DEF Due, ServesWhatItWasGiven
  <2>3. boot'.pc \in Linked BY <1>13 DEF Linked
  <2>4. Held(d)' = Served(d)' BY <1>17, <2>3 DEF LinkInv, Held, Served
  <2>5. QED BY <2>2, <2>4
<1>21. QED BY <1>10, <1>16, <1>17, <1>18, <1>19, <1>20

\* A boot that is cut off loses at most what it was copying or writing.
LEMMA CrashStep == ASSUME LayoutInv, Crash PROVE LayoutInv'
<1> USE DEF LayoutInv, Crash, World
<1>1. UNCHANGED <<box, dataDir, persist, made, found>> OBVIOUS
<1>2. boot'.pc = "down" /\ boot'.at = boot.at /\ boot'.key = boot.key BY GoToFacts
<1>3. cut' \subseteq Dirs /\ cut \subseteq cut'
  BY OrderFacts DEF LayoutTypeOK, Dirs
<1>4. spent' \in [keys : 0..MaxKeys, containers : 1..MaxContainers, crashes : 0..MaxCrashes]
  BY DEF LayoutTypeOK
<1>5. LayoutTypeOK' BY <1>1, <1>2, <1>3, <1>4 DEF LayoutTypeOK, GoTo
<1>6. DirsInv' BY <1>1, SameSource
<1>7. LinkInv' /\ HereInv' /\ ServesWhatItWasGiven'
  BY <1>2 DEF LinkInv, Linking, Linked, HereInv, ServesWhatItWasGiven
<1>8. HeldInv'
  <2>1. SUFFICES ASSUME NEW d \in Dirs, Due(d)' PROVE Held(d)' = found[d]
    BY <1>1, <1>2 DEF HeldInv, Copying, Writing
  <2>2. Due(d) BY <1>1, <1>3, <2>1 DEF Due
  <2>3. ~Copying(d) /\ ~Writing(d) BY <2>1 DEF Due, Copying, Writing
  <2>4. Held(d) = found[d] BY <2>2, <2>3 DEF HeldInv
  <2>5. QED BY <1>1, <2>4 DEF Held, Source, Target
<1>9. QED BY <1>5, <1>6, <1>7, <1>8

\* A new container holds what it is given.
LEMMA NewContainerStep == ASSUME LayoutInv, NewContainer PROVE LayoutInv'
<1> USE DEF LayoutInv, NewContainer
<1> DEFINE olddata == [dataDir EXCEPT ![FALSE] = [d \in Dirs |-> NoEntry]]
<1> DEFINE oldpersist == [persist EXCEPT ![FALSE] = [d \in Dirs |-> Nothing]]
<1>1. PICK b \in Boxes :
        /\ box' = b /\ dataDir' = olddata /\ persist' = oldpersist
        /\ found' = [d \in Dirs |-> Given(b, olddata, oldpersist, d)]
  OBVIOUS
<1>2. UNCHANGED boot /\ boot.pc = "down" /\ cut' = {} OBVIOUS
<1>3. b.volume \in BOOLEAN /\ b.bucket \in BOOLEAN BY DEF Boxes
<1>4. NoEntry \in DataEntry /\ Nothing \in Content /\ NoEntry.holds = Nothing
  BY KeysCounted DEF NoEntry, DataEntry, Content, Nothing
<1>5. olddata \in [BOOLEAN -> [Dirs -> DataEntry]]
  <2>1. [d \in Dirs |-> NoEntry] \in [Dirs -> DataEntry] BY <1>4
  <2>2. QED BY <2>1 DEF LayoutTypeOK
<1>6. oldpersist \in [BOOLEAN -> [Dirs -> Content]]
  <2>1. [d \in Dirs |-> Nothing] \in [Dirs -> Content] BY <1>4
  <2>2. QED BY <2>1 DEF LayoutTypeOK
<1>7. DirsInv'
  <2>1. SUFFICES ASSUME NEW v \in BOOLEAN, NEW d \in Dirs, olddata[v][d].kind # "dir"
                 PROVE  olddata[v][d].holds = Nothing
    BY <1>1 DEF DirsInv
  <2>2. CASE v = TRUE BY <2>1, <2>2 DEF DirsInv, LayoutTypeOK
  <2>3. CASE v = FALSE BY <1>4, <2>3 DEF LayoutTypeOK
  <2>4. QED BY <2>2, <2>3
<1> HIDE DEF olddata, oldpersist
<1>8. \A d \in Dirs : found'[d] = Given(b, olddata, oldpersist, d) BY <1>1
<1>9. \A d \in Dirs : Given(b, olddata, oldpersist, d) \in Content
  BY <1>3, <1>5, <1>6 DEF Given, DataEntry
<1>10. found' \in [Dirs -> Content] BY <1>1, <1>9
<1>11. spent' \in [keys : 0..MaxKeys, containers : 1..MaxContainers, crashes : 0..MaxCrashes]
  BY DEF LayoutTypeOK
<1>12. made' \subseteq BOOLEAN /\ cut' \subseteq Dirs BY <1>2 DEF LayoutTypeOK
<1>13. LayoutTypeOK' BY <1>1, <1>2, <1>5, <1>6, <1>10, <1>11, <1>12 DEF LayoutTypeOK
<1>14. LinkInv' /\ HereInv' /\ ServesWhatItWasGiven'
  BY <1>2 DEF LinkInv, Linking, Linked, HereInv, ServesWhatItWasGiven
<1>15. HeldInv'
  <2>1. \A d \in Dirs : Held(d)' = Given(b, olddata, oldpersist, d)
    BY <1>1 DEF Held, Given, Source, Target
  <2>2. QED BY <1>2, <1>8, <2>1 DEF HeldInv, Copying, Writing
<1>16. QED BY <1>7, <1>13, <1>14, <1>15

-----------------------------------------------------------------------------
(* The invariant, and what follows. *)

\* The empty volume and bucket hold nothing.
LEMMA LayoutStarts == LayoutInit => LayoutInv
<1>1. SUFFICES ASSUME LayoutInit PROVE LayoutInv OBVIOUS
<1>2. NoEntry \in DataEntry /\ Nothing \in Content /\ NoEntry.holds = Nothing /\ Nothing.by = 0
  BY KeysCounted DEF NoEntry, DataEntry, Content, Nothing
<1>3. /\ dataDir \in [BOOLEAN -> [Dirs -> DataEntry]]
      /\ persist \in [BOOLEAN -> [Dirs -> Content]]
      /\ found \in [Dirs -> Content]
  BY <1>1, <1>2 DEF LayoutInit
<1>4. boot \in [pc : {"down"}, at : 1..Len(Order), key : 0..MaxKeys] /\ boot.pc = "down"
  BY <1>1, KeysCounted DEF LayoutInit, Order
<1>5. spent \in [keys : 0..MaxKeys, containers : 1..MaxContainers, crashes : 0..MaxCrashes]
  BY <1>1, KeysCounted DEF LayoutInit
<1>6. LayoutTypeOK BY <1>1, <1>3, <1>4, <1>5 DEF LayoutInit, LayoutTypeOK
<1>7. DirsInv BY <1>1, <1>2 DEF LayoutInit, DirsInv
<1>8. LinkInv /\ HereInv /\ ServesWhatItWasGiven
  BY <1>4 DEF LinkInv, Linking, Linked, HereInv, ServesWhatItWasGiven
<1>9. HeldInv BY <1>1, <1>2 DEF LayoutInit, HeldInv, Due
<1>10. QED BY <1>6, <1>7, <1>8, <1>9 DEF LayoutInv

\* Every step keeps the invariant.
LEMMA LayoutKeeps == LayoutInv /\ [LayoutNext]_layoutVars => LayoutInv'
<1>1. CASE UNCHANGED layoutVars
  BY <1>1 DEF layoutVars, LayoutInv, LayoutTypeOK, DirsInv, LinkInv, HereInv, HeldInv,
     ServesWhatItWasGiven, Source, Target, Served, Held, Due, Copying, Writing, Here
<1>2. QED
  BY <1>1, StartStep, LinkStep, CopyEndsStep, RemoveStep, PointStep, MakeDirsStep,
     WriteSecretsStep, SecretsWrittenStep, ServingStep, CrashStep, NewContainerStep
     DEF LayoutNext

\* The invariant holds of every behaviour of prepare_dirs, link_dir and write_generated_env.
THEOREM LayoutInvariant == LayoutSpec => []LayoutInv
BY LayoutStarts, LayoutKeeps, PTL DEF LayoutSpec

\* Whatever volumes, buckets and settings follow each other, the variables keep their types.
THEOREM LayoutTypeCorrect == LayoutSpec => []LayoutTypeOK
<1>1. LayoutInv => LayoutTypeOK BY DEF LayoutInv
<1>2. QED BY <1>1, LayoutInvariant, PTL

\* For every number of containers and crashes: the boot's links, copies, removals and the
\* rewriting of generated.env lose nothing of what a container was given whole, unless a
\* copy or a write of that very directory was cut off.
THEOREM LayoutServes == LayoutSpec => []ServesWhatItWasGiven
<1>1. LayoutInv => ServesWhatItWasGiven BY DEF LayoutInv
<1>2. QED BY <1>1, LayoutInvariant, PTL

-----------------------------------------------------------------------------
(* The components together. *)

\* A step of MCControlPlane is, for each component, a step of its own or none: no component
\* writes what is another's.
LEMMA StepOfEach ==
  [Next]_vars =>
    /\ [DeployNext]_deployVars
    /\ [BundleNext]_bundleVars
    /\ [LoginNext]_loginVars
    /\ [FilesNext]_filesVars
    /\ [ActionsNext]_actionsVars
    /\ [CacheNext]_cacheVars
    /\ [ReadinessNext]_seen
    /\ [LayoutNext]_layoutVars
  BY DEF Next, vars, ButDeploy, ButBundle, ButLogin, ButFiles, ButActions, ButCache,
         ButReadiness, ButLayout

\* Every component begins as it does alone; a quiet layout is one of its beginnings.
LEMMA InitOfEach ==
  Init => /\ DeployInit /\ BundleInit /\ LoginInit /\ FilesInit
          /\ ActionsInit /\ CacheInit /\ ReadinessInit /\ LayoutInit
  BY DEF Init, QuietLayout

\* MCControlPlane implements each of the eight specifications.
THEOREM ImplementsEach ==
  Spec => /\ DeploySpec /\ BundleSpec /\ LoginSpec /\ FilesSpec
          /\ ActionsSpec /\ CacheSpec /\ ReadinessSpec /\ LayoutSpec
<1> QED
  BY InitOfEach, StepOfEach, PTL DEF Spec, DeploySpec, BundleSpec, LoginSpec, FilesSpec,
     ActionsSpec, CacheSpec, ReadinessSpec, LayoutSpec

\* The state of all eight components keeps its type.
THEOREM ControlPlaneTypes == Spec => []TypeOK
<1>1. DeployTypeOK /\ BundleTypeOK /\ LoginTypeOK /\ FilesTypeOK /\ ActionsTypeOK
        /\ CacheTypeOK /\ ReadinessTypeOK /\ LayoutTypeOK => TypeOK
  BY DEF TypeOK
<1> QED
  BY <1>1, ImplementsEach, DeployTypes, BundleTypes, LoginTypes, FilesTypes, ActionsTypes,
     CacheTypes, ReadinessTypes, LayoutTypeCorrect, PTL

\* What the run ControlPlane asks of its components' states, and of the steps of the cache,
\* is true for every value of their constants.
THEOREM ControlPlaneSafe ==
  Spec => /\ [](/\ CommitsAreExact /\ DeploysForward /\ StepsAreVerified
                /\ AcceptedIsCommitted
                /\ GuessesBounded /\ DueIsKept /\ UnloadedIsReported /\ TokensOnce
                /\ SectionsAreFresh /\ PersistenceAgrees /\ DispatchSound
                /\ ServesWhatItWasGiven)
          /\ VerdictNotCached
<1> QED
  BY ImplementsEach, DeployCommitsAreExact, DeployDeploysForward, DeployStepsAreVerified,
     BundleAcceptedIsCommitted, LoginGuessesBounded, FilesDueIsKept,
     ActionsUnloadedIsReported, ActionsTokensOnce, CacheSectionsAreFresh, ReadinessAgrees,
     ReadinessDispatchSound, LayoutServes, CacheVerdictNotCached, PTL
=============================================================================
