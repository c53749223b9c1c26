------------------------------ MODULE AdminProofs ------------------------------
(***************************************************************************)
(* What the admin service guarantees, for any number of requests and       *)
(* threads: that the limit on failed logins bounds the guesses, whatever   *)
(* requests interleave; that the file manager keeps the files that nobody  *)
(* asked to change; and that the repairs report what they broke and insert *)
(* no more tokens than their races explain, whatever fails or comes late.  *)
(***************************************************************************)
EXTENDS AdminLogin, AdminFiles, AdminActions, FiniteSetTheorems, SequenceTheorems, TLAPS

-----------------------------------------------------------------------------
(* The limit on failed logins. *)

USE LoginAssumption

\* What a thread can be about to do.
LoginRequest == [pc : {"idle", "check", "compare", "record", "clear"},
                 client : Clients \cup {"none"}, clock : Seconds]

\* The seconds of the stretch that GuessesBounded looks at, and the failures in it.
Stretch(from) == from..(from + Shorter - Stall - 1)
Hits(values, from) == {i \in DOMAIN values : values[i] \in Stretch(from)}

\* The requests that have passed the check and can still fail in that stretch.
Coming(from) ==
    {t \in LoginThreads :
        \/ login[t].pc = "compare" /\ second <= from + Shorter - Stall - 1
        \/ login[t].pc = "record" /\ login[t].clock \in Stretch(from)}
ComingFrom(c, from) == {t \in Coming(from) : login[t].client = c}

\* A list of failures is in the order of the clock, but for the time that its requests can
\* have waited for the lock.
Dated(all, now) ==
    \A i \in 1..Len(all) : all[i] <= now /\ \A j \in 1..i : all[j] <= all[i] + Stall

\* The list that the limit looks at is the end of it: what was dropped is older than the
\* window.
KeptOf(kept, all, now) ==
    \E d \in 0..Len(all) :
        /\ Len(kept) = Len(all) - d
        /\ \A i \in 1..Len(kept) : kept[i] = all[d + i]
        /\ \A j \in 1..d : all[j] + Window <= now

\* The clock of a request that waits for the lock is not older than that.
ClockInv ==
    \A t \in LoginThreads :
        /\ login[t].pc # "idle" => login[t].client \in Clients
        /\ login[t].pc \in {"check", "record"} =>
               login[t].clock <= second /\ second <= login[t].clock + Stall

ListsInv ==
    /\ \A c \in Clients :
           Dated(missesByIp[c], second) /\ KeptOf(byIp[c], missesByIp[c], second)
    /\ Dated(misses, second) /\ KeptOf(global, misses, second)

\* The failures of a stretch and those that can still come are few.
Few(values, coming, limit, from) ==
    Cardinality(Hits(values, from)) + Cardinality(coming) <= limit + Cardinality(LoginThreads) - 1

FewInv ==
    \A from \in Seconds :
        /\ \A c \in Clients : Few(missesByIp[c], ComingFrom(c, from), MaxPerIp, from)
        /\ Few(misses, Coming(from), MaxGlobal, from)

LoginInv == LoginTypeOK /\ ClockInv /\ ListsInv /\ FewInv

-----------------------------------------------------------------------------
(* The lists. *)

\* The bounds, one by one.
LEMMA LoginBounds ==
    /\ Window \in Nat \ {0} /\ Block \in Nat \ {0} /\ MaxPerIp \in Nat \ {0} /\ MaxGlobal \in Nat \ {0}
    /\ LastSecond \in Nat /\ Stall \in Nat /\ MaxLogins \in Nat
    /\ Seconds \subseteq Int
    /\ Longer \in Nat /\ Longer >= Window
    /\ Shorter \in Nat /\ Shorter <= Window /\ Shorter <= Block
BY DEF Seconds, Longer, Shorter

\* Pruning drops the beginning of a list, as far as all of it is old.
LEMMA PruneFacts ==
    ASSUME NEW values \in Seq(Seconds), NEW now \in Int, NEW seconds \in Nat
    PROVE  /\ PruneFailures(values, now, seconds) \in Seq(Seconds)
           /\ \E k \in 0..Len(values) :
                  /\ Len(PruneFailures(values, now, seconds)) = Len(values) - k
                  /\ \A i \in 1..(Len(values) - k) :
                         PruneFailures(values, now, seconds)[i] = values[k + i]
                  /\ \A j \in 1..k : values[j] <= now - seconds
<1> DEFINE n == Len(values)
           Old == {i \in DOMAIN values : \A j \in 1..i : values[j] <= now - seconds}
           k == Cardinality(Old)
<1>1. n \in Nat /\ DOMAIN values = 1..n BY LenProperties
<1>2. IsFiniteSet(1..n) /\ Cardinality(1..n) = n
  <2>1. 1 \in Int /\ n \in Int BY <1>1
  <2> HIDE DEF n
  <2>2. IsFiniteSet(1..n) /\ Cardinality(1..n) = IF 1 > n THEN 0 ELSE n - 1 + 1
    BY <2>1, FS_Interval
  <2>3. QED BY <1>1, <2>2
<1>3. Old \in SUBSET (1..n) BY <1>1
<1>4. IsFiniteSet(Old) /\ k <= n BY <1>2, <1>3, FS_Subset
<1>5. k \in Nat BY <1>4, FS_CardinalityType
<1>6. Old \subseteq 1..k
  <2>1. SUFFICES ASSUME NEW i \in Old PROVE i \in 1..k OBVIOUS
  <2>2. i \in 1..n BY <1>3
  <2>3. \A j \in 1..i : j \in DOMAIN values /\ \A l \in 1..j : values[l] <= now - seconds
    BY <1>1, <2>2
  <2>4. 1..i \subseteq Old BY <2>3
  <2>5. Cardinality(1..i) = i BY <2>2, FS_Interval
  <2> HIDE DEF Old, k
  <2>6. Cardinality(1..i) <= Cardinality(Old) BY <1>4, <2>4, FS_Subset
  <2>7. QED BY <1>5, <2>2, <2>5, <2>6 DEF k
<1>7. 1..k = Old
  <2>1. 1 \in Int /\ k \in Int /\ Old \in SUBSET (1..k) BY <1>5, <1>6
  <2>2. Cardinality(Old) = k OBVIOUS
  <2> HIDE DEF Old, k
  <2>3. IsFiniteSet(1..k) /\ Cardinality(1..k) = IF 1 > k THEN 0 ELSE k - 1 + 1
    BY <2>1, FS_Interval
  <2>4. Cardinality(1..k) = k BY <1>5, <2>3
  <2>5. QED BY <2>1, <2>2, <2>3, <2>4, FS_Subset
<1>8. \A j \in 1..k : values[j] <= now - seconds
  <2>1. SUFFICES ASSUME NEW j \in 1..k PROVE values[j] <= now - seconds OBVIOUS
  <2>2. j \in Old BY <1>7
  <2>3. j \in 1..j BY <1>5
  <2>4. QED BY <2>2, <2>3
<1> DEFINE rest == SubSeq(values, k + 1, n)
<1>9. rest = PruneFailures(values, now, seconds) BY DEF PruneFailures
<1> HIDE DEF Old, k
<1>10. \A i \in (k + 1)..n : values[i] \in Seconds
  <2>1. \A i \in (k + 1)..n : i \in 1..n BY <1>1, <1>5
  <2>2. QED BY <1>1, <2>1, ElementOfSeq
<1>11. /\ rest \in Seq(Seconds)
       /\ Len(rest) = n - k
       /\ \A i \in 1..(n - k) : rest[i] = values[k + i]
  <2>1. k + 1 \in Int /\ n \in Int BY <1>1, <1>5
  <2>2. /\ rest \in Seq(Seconds)
        /\ Len(rest) = IF k + 1 <= n THEN n - (k + 1) + 1 ELSE 0
        /\ \A i \in 1..(n - (k + 1) + 1) : rest[i] = values[k + 1 + i - 1]
    BY <1>10, <2>1, SubSeqProperties
  <2> HIDE DEF rest, n
  <2>3. n - (k + 1) + 1 = n - k /\ \A i \in Int : k + 1 + i - 1 = k + i BY <1>1, <1>5
  <2>4. Len(rest) = n - k BY <1>1, <1>4, <1>5, <2>2
  <2>5. ASSUME NEW i \in 1..(n - k) PROVE rest[i] = values[k + i]
    <3>1. i \in 1..(n - (k + 1) + 1) /\ k + 1 + i - 1 = k + i BY <2>3
    <3>2. rest[i] = values[k + 1 + i - 1] BY <2>2, <3>1
    <3>3. QED BY <3>1, <3>2
  <2>6. QED BY <2>2, <2>4, <2>5
<1>12. k \in 0..Len(values) BY <1>1, <1>4, <1>5
<1>13. QED BY <1>8, <1>9, <1>11, <1>12

\* What is pruned by the window, or by more, is the end of the list still.
LEMMA KeptPruned ==
    ASSUME NEW kept \in Seq(Seconds), NEW all \in Seq(Seconds), NEW sec \in Seconds,
           KeptOf(kept, all, sec), NEW now \in Seconds, now <= sec,
           NEW seconds \in Nat, seconds >= Window
    PROVE  KeptOf(PruneFailures(kept, now, seconds), all, sec)
<1> DEFINE rest == PruneFailures(kept, now, seconds)
<1>1. PICK d \in 0..Len(all) :
        /\ Len(kept) = Len(all) - d
        /\ \A i \in 1..Len(kept) : kept[i] = all[d + i]
        /\ \A j \in 1..d : all[j] + Window <= sec
  BY DEF KeptOf
<1>2. now \in Int /\ sec \in Int BY LoginBounds
<1>3. PICK k \in 0..Len(kept) :
        /\ Len(rest) = Len(kept) - k
        /\ \A i \in 1..(Len(kept) - k) : rest[i] = kept[k + i]
        /\ \A j \in 1..k : kept[j] <= now - seconds
  BY <1>2, PruneFacts
<1>4. Len(all) \in Nat /\ Len(kept) \in Nat BY LenProperties
<1> HIDE DEF rest
<1>5. d + k \in 0..Len(all) /\ Len(rest) = Len(all) - (d + k) BY <1>1, <1>3, <1>4
<1>6. ASSUME NEW i \in 1..Len(rest) PROVE rest[i] = all[d + k + i]
  <2>1. i \in 1..(Len(kept) - k) /\ k + i \in 1..Len(kept) BY <1>3, <1>4
  <2>2. rest[i] = kept[k + i] /\ kept[k + i] = all[d + (k + i)] BY <1>1, <1>3, <2>1
  <2>3. d + (k + i) = d + k + i BY <1>4
  <2>4. QED BY <2>2, <2>3
<1>7. ASSUME NEW j \in 1..(d + k) PROVE all[j] + Window <= sec
  <2>1. CASE j <= d
    <3>1. j \in 1..d BY <1>4, <2>1
    <3>2. QED BY <1>1, <3>1
  <2>2. CASE j > d
    <3>1. j - d \in 1..k /\ d + (j - d) = j BY <1>4, <2>2
    <3>2. j - d \in 1..Len(kept) BY <1>4, <3>1
    <3>3. kept[j - d] = all[j] /\ kept[j - d] <= now - seconds BY <1>1, <1>3, <3>1, <3>2
    <3>4. all[j] \in Int
      <4>1. j \in 1..Len(all) BY <1>4, <1>5
      <4>2. all[j] \in Seconds BY <4>1, ElementOfSeq
      <4>3. QED BY <4>2, LoginBounds
    <3>5. QED BY <1>2, <3>3, <3>4, LoginBounds
  <2>3. QED BY <1>4, <2>1, <2>2
<1>8. QED BY <1>5, <1>6, <1>7 DEF KeptOf, rest

\* A place in the kept part of a list is a place in the list, and the one after each is new.
LEMMA Shifted ==
    \A m, n, d \in Nat : n = m + d =>
        \A i \in 1..(m + 1) : d + i \in 1..(n + 1) /\ (i = m + 1 <=> d + i = n + 1)
OBVIOUS

\* A failure is appended to both.
LEMMA KeptAppended ==
    ASSUME NEW kept \in Seq(Seconds), NEW all \in Seq(Seconds), NEW sec \in Seconds,
           KeptOf(kept, all, sec), NEW v \in Seconds
    PROVE  KeptOf(Append(kept, v), Append(all, v), sec)
<1>1. PICK d \in 0..Len(all) :
        /\ Len(kept) = Len(all) - d
        /\ \A i \in 1..Len(kept) : kept[i] = all[d + i]
        /\ \A j \in 1..d : all[j] + Window <= sec
  BY DEF KeptOf
<1>2. Len(all) \in Nat /\ Len(kept) \in Nat BY LenProperties
<1>d. d \in Nat /\ Len(all) = Len(kept) + d BY <1>1, <1>2
<1>3. /\ Len(Append(kept, v)) = Len(kept) + 1 /\ Len(Append(all, v)) = Len(all) + 1
      /\ \A i \in 1..(Len(kept) + 1) :
             Append(kept, v)[i] = IF i = Len(kept) + 1 THEN v ELSE kept[i]
      /\ \A i \in 1..(Len(all) + 1) :
             Append(all, v)[i] = IF i = Len(all) + 1 THEN v ELSE all[i]
  OBVIOUS
<1>4. d \in 0..Len(Append(all, v)) /\ Len(Append(kept, v)) = Len(Append(all, v)) - d
  BY <1>1, <1>2, <1>3
<1>5. \A i \in 1..(Len(kept) + 1) : Append(kept, v)[i] = Append(all, v)[d + i]
  <2>1. SUFFICES ASSUME NEW i \in 1..(Len(kept) + 1)
                 PROVE  Append(kept, v)[i] = Append(all, v)[d + i]
    OBVIOUS
  <2>2. d + i \in 1..(Len(all) + 1) /\ (i = Len(kept) + 1 <=> d + i = Len(all) + 1)
    BY <1>2, <1>d, <2>1, Shifted
  <2>3. i # Len(kept) + 1 => i \in 1..Len(kept) BY <1>2
  <2>4. QED BY <1>1, <1>3, <2>2, <2>3
<1>6. \A j \in 1..d : Append(all, v)[j] = all[j] BY <1>1, <1>2, <1>3
<1>7. QED BY <1>1, <1>3, <1>4, <1>5, <1>6 DEF KeptOf

\* It is not much older than those before.
LEMMA DatedAppended ==
    ASSUME NEW all \in Seq(Seconds), NEW sec \in Seconds, Dated(all, sec),
           NEW v \in Seconds, v <= sec, sec <= v + Stall
    PROVE  Dated(Append(all, v), sec)
<1>1. Len(all) \in Nat /\ sec \in Int /\ v \in Int BY LenProperties, LoginBounds
<1>2. /\ Len(Append(all, v)) = Len(all) + 1
      /\ \A i \in 1..(Len(all) + 1) :
             Append(all, v)[i] = IF i = Len(all) + 1 THEN v ELSE all[i]
  OBVIOUS
<1>3. \A i \in 1..Len(all) : all[i] \in Int BY ElementOfSeq, LoginBounds
<1>4. SUFFICES ASSUME NEW i \in 1..(Len(all) + 1)
               PROVE  /\ Append(all, v)[i] <= sec
                      /\ \A j \in 1..i : Append(all, v)[j] <= Append(all, v)[i] + Stall
  BY <1>2 DEF Dated
<1>5. CASE i = Len(all) + 1
  <2>1. ASSUME NEW j \in 1..i PROVE Append(all, v)[j] <= v + Stall
    <3>1. CASE j = i BY <1>1, <1>2, <1>5, <3>1, LoginBounds
    <3>2. CASE j # i
      <4>1. j \in 1..Len(all) /\ j \in 1..(Len(all) + 1) /\ j # Len(all) + 1
        BY <1>1, <1>5, <3>2
      <4>2. all[j] <= sec /\ all[j] \in Int BY <1>3, <4>1 DEF Dated
      <4>3. QED BY <1>1, <1>2, <4>1, <4>2, LoginBounds
    <3>3. QED BY <3>1, <3>2
  <2>2. QED BY <1>2, <1>5, <2>1
<1>6. CASE i # Len(all) + 1
  <2>1. i \in 1..Len(all) BY <1>1, <1>6
  <2>2. \A j \in 1..i : j \in 1..Len(all) /\ j \in 1..(Len(all) + 1) /\ j # Len(all) + 1
    BY <1>1, <2>1
  <2>3. QED BY <1>2, <1>6, <2>1, <2>2 DEF Dated
<1>7. QED BY <1>5, <1>6

\* The failures of a stretch are finitely many, and at most as many as there are.
LEMMA HitsFinite ==
    ASSUME NEW values \in Seq(Seconds), NEW from \in Seconds
    PROVE  /\ IsFiniteSet(Hits(values, from)) /\ Cardinality(Hits(values, from)) \in Nat
           /\ Hits(values, from) \subseteq 1..Len(values)
<1>1. Len(values) \in Nat /\ DOMAIN values = 1..Len(values) BY LenProperties
<1>2. IsFiniteSet(1..Len(values)) BY <1>1, FS_Interval
<1>3. Hits(values, from) \in SUBSET (1..Len(values)) BY <1>1 DEF Hits
<1>4. IsFiniteSet(Hits(values, from)) BY <1>2, <1>3, FS_Subset
<1>5. Cardinality(Hits(values, from)) \in Nat BY <1>4, FS_CardinalityType
<1>6. QED BY <1>3, <1>4, <1>5

\* A failure adds one, where it is in the stretch.
LEMMA HitsAppended ==
    ASSUME NEW values \in Seq(Seconds), NEW from \in Seconds, NEW v \in Seconds
    PROVE  Cardinality(Hits(Append(values, v), from)) =
               Cardinality(Hits(values, from)) + (IF v \in Stretch(from) THEN 1 ELSE 0)
<1> DEFINE n == Len(values)
<1>1. n \in Nat /\ DOMAIN values = 1..n BY LenProperties
<1>2. /\ DOMAIN Append(values, v) = 1..(n + 1)
      /\ \A i \in 1..(n + 1) : Append(values, v)[i] = IF i = n + 1 THEN v ELSE values[i]
  <2>1. Append(values, v) \in Seq(Seconds) /\ Len(Append(values, v)) = n + 1 OBVIOUS
  <2>2. DOMAIN Append(values, v) = 1..(n + 1) BY <2>1, LenProperties
  <2>3. QED BY <2>2
<1>3. IsFiniteSet(Hits(values, from)) /\ Cardinality(Hits(values, from)) \in Nat
      /\ n + 1 \notin Hits(values, from)
  <2>1. n + 1 \notin 1..n BY <1>1
  <2>2. QED BY <2>1, HitsFinite
<1>4. \A i \in 1..(n + 1) : i = n + 1 \/ i \in 1..n BY <1>1
<1>5. \A i \in 1..n : i \in 1..(n + 1) /\ i # n + 1 BY <1>1
<1>6. n + 1 \in 1..(n + 1) BY <1>1
<1> HIDE DEF n
<1>7. CASE v \in Stretch(from)
  <2>1. Hits(Append(values, v), from) = Hits(values, from) \cup {n + 1}
    BY <1>1, <1>2, <1>4, <1>5, <1>6, <1>7 DEF Hits
  <2>2. QED BY <1>3, <1>7, <2>1, FS_AddElement
<1>8. CASE v \notin Stretch(from)
  <2>1. Hits(Append(values, v), from) = Hits(values, from)
    BY <1>1, <1>2, <1>4, <1>5, <1>6, <1>8 DEF Hits
  <2>2. QED BY <1>3, <1>8, <2>1
<1>9. QED BY <1>7, <1>8

\* Where a stretch that is not over has as many failures as the limit, the check refuses.
LEMMA ChecksLimit ==
    ASSUME NEW kept \in Seq(Seconds), NEW all \in Seq(Seconds), NEW sec \in Seconds,
           KeptOf(kept, all, sec), Dated(all, sec),
           NEW limit \in Nat \ {0}, NEW from \in Seconds,
           Cardinality(Hits(all, from)) >= limit,
           sec <= from + Shorter - Stall - 1,
           NEW now \in Seconds, now <= sec
    PROVE  Limited(kept, limit, now)
<1> DEFINE n == Len(all)
<1>1. n \in Nat /\ Len(kept) \in Nat /\ sec \in Int /\ now \in Int /\ from \in Int
  BY LenProperties, LoginBounds
<1>2. PICK d \in 0..n :
        /\ Len(kept) = n - d
        /\ \A i \in 1..Len(kept) : kept[i] = all[d + i]
        /\ \A j \in 1..d : all[j] + Window <= sec
  BY DEF KeptOf
<1>3. \A i \in 1..n : all[i] \in Int BY ElementOfSeq, LoginBounds
<1>4. Hits(all, from) \subseteq 1..n /\ Cardinality(Hits(all, from)) \in Nat
  BY HitsFinite
<1>5. \A i \in Hits(all, from) : all[i] >= from BY <1>1, <1>3, <1>4, LoginBounds DEF Hits, Stretch
<1>6. Hits(all, from) \in SUBSET ((d + 1)..n)
  <2>1. SUFFICES ASSUME NEW i \in Hits(all, from), i \notin (d + 1)..n PROVE FALSE OBVIOUS
  <2>2. i \in 1..n /\ i \in 1..d BY <1>1, <1>4, <2>1
  <2>3. all[i] + Window <= sec /\ all[i] >= from /\ all[i] \in Int BY <1>2, <1>3, <1>5, <2>2
  <2>4. QED BY <1>1, <2>3, LoginBounds
<1>7. IsFiniteSet((d + 1)..n) /\ Cardinality((d + 1)..n) = n - d
  <2>1. IsFiniteSet((d + 1)..n) /\ Cardinality((d + 1)..n) = IF d + 1 > n THEN 0 ELSE n - (d + 1) + 1
    <3>1. d + 1 \in Int /\ n \in Int BY <1>1
    <3> HIDE DEF n
    <3>2. QED BY <3>1, FS_Interval
  <2>2. QED BY <1>1, <2>1
<1>8. Cardinality(Hits(all, from)) <= n - d BY <1>6, <1>7, FS_Subset
<1>9. Len(kept) >= limit /\ Len(kept) >= 1 /\ n >= 1 BY <1>1, <1>2, <1>4, <1>8
<1>10. Hits(all, from) # {}
  <2>1. Cardinality(Hits(all, from)) # 0 BY <1>4
  <2>2. QED BY <2>1, FS_EmptySet
<1>11. PICK i \in Hits(all, from) : TRUE BY <1>10
<1>12. i \in 1..n /\ n \in 1..n BY <1>1, <1>4, <1>9
<1>13. all[i] <= all[n] + Stall /\ all[i] >= from /\ all[i] \in Int /\ all[n] \in Int
  <2>1. i \in 1..n BY <1>12
  <2>2. \A j \in 1..n : all[j] <= all[n] + Stall BY <1>12 DEF Dated
  <2>3. QED BY <1>3, <1>5, <1>12, <2>2
<1>14. Last(kept) = all[n]
  <2>1. Len(kept) \in 1..Len(kept) /\ d + Len(kept) = n BY <1>1, <1>2, <1>9
  <2>2. QED BY <1>2, <2>1 DEF Last
<1>15. now - all[n] < Block BY <1>1, <1>13, LoginBounds
<1>16. QED BY <1>9, <1>14, <1>15 DEF Limited

-----------------------------------------------------------------------------
(* The steps. *)

\* The list of every address is of the type.
LEMMA ListTypes ==
    ASSUME LoginTypeOK
    PROVE  /\ second \in Seconds /\ second \in Int
           /\ global \in Seq(Seconds) /\ misses \in Seq(Seconds)
           /\ \A c \in Clients : byIp[c] \in Seq(Seconds) /\ missesByIp[c] \in Seq(Seconds)
           /\ \A t \in LoginThreads : login[t].clock \in Seconds
BY LoginBounds DEF LoginTypeOK, LoginRequest

\* The requests that can still fail are finitely many, at most one of each thread.
LEMMA ComingFinite ==
    ASSUME NEW S \in SUBSET LoginThreads
    PROVE  IsFiniteSet(S) /\ Cardinality(S) \in Nat /\ Cardinality(S) <= Cardinality(LoginThreads)
<1>1. IsFiniteSet(LoginThreads) OBVIOUS
<1>2. IsFiniteSet(S) /\ Cardinality(S) <= Cardinality(LoginThreads) BY <1>1, FS_Subset
<1>3. Cardinality(S) \in Nat BY <1>2, FS_CardinalityType
<1>4. QED BY <1>2, <1>3

\* There is at least one thread.
LEMMA SomeThread == Cardinality(LoginThreads) \in Nat \ {0}
<1>1. IsFiniteSet(LoginThreads) /\ LoginThreads # {} OBVIOUS
<1>2. Cardinality(LoginThreads) \in Nat BY <1>1, FS_CardinalityType
<1>3. Cardinality(LoginThreads) # 0 BY <1>1, FS_EmptySet
<1>4. QED BY <1>2, <1>3

\* Fewer coming on the same failures stay few.
LEMMA FewerAreFew ==
    ASSUME NEW values \in Seq(Seconds), NEW S \in SUBSET LoginThreads, NEW R \in SUBSET S,
           NEW limit \in Nat, NEW from \in Seconds, Few(values, S, limit, from)
    PROVE  Few(values, R, limit, from)
<1>1. Cardinality(R) \in Nat /\ Cardinality(S) \in Nat BY ComingFinite
<1>2. Cardinality(R) <= Cardinality(S)
  <2>1. IsFiniteSet(S) BY ComingFinite
  <2>2. QED BY <2>1, FS_Subset
<1>3. Cardinality(Hits(values, from)) \in Nat BY HitsFinite
<1>4. QED BY <1>1, <1>2, <1>3, SomeThread DEF Few

\* A failure of one of those that were coming leaves the sum as it was; one that is outside
\* of the stretch does not count.
LEMMA FewAppended ==
    ASSUME NEW values \in Seq(Seconds), NEW S \in SUBSET LoginThreads, NEW R \in SUBSET S,
           NEW limit \in Nat, NEW from \in Seconds, Few(values, S, limit, from),
           NEW v \in Seconds, NEW t \in LoginThreads, t \notin R,
           v \in Stretch(from) => t \in S
    PROVE  Few(Append(values, v), R, limit, from)
<1>1. CASE v \in Stretch(from)
  <2>1. IsFiniteSet(S) /\ Cardinality(S) \in Nat /\ Cardinality(R) \in Nat BY ComingFinite
  <2>2. Cardinality(S \ {t}) = Cardinality(S) - 1 /\ IsFiniteSet(S \ {t})
    BY <1>1, <2>1, FS_RemoveElement
  <2>3. R \in SUBSET (S \ {t}) OBVIOUS
  <2>4. Cardinality(R) <= Cardinality(S \ {t}) BY <2>2, <2>3, FS_Subset
  <2>5. Cardinality(Hits(Append(values, v), from)) = Cardinality(Hits(values, from)) + 1
    BY <1>1, HitsAppended
  <2>6. Cardinality(Hits(values, from)) \in Nat BY HitsFinite
  <2>7. QED BY <2>1, <2>2, <2>4, <2>5, <2>6, SomeThread DEF Few
<1>2. CASE v \notin Stretch(from)
  <2>1. Cardinality(Hits(Append(values, v), from)) = Cardinality(Hits(values, from))
    <3>1. Cardinality(Hits(values, from)) \in Nat BY HitsFinite
    <3>2. QED BY <1>2, <3>1, HitsAppended
  <2>2. Few(values, R, limit, from) BY FewerAreFew
  <2>3. QED BY <2>1, <2>2 DEF Few
<1>3. QED BY <1>1, <1>2

\* No stretch is full before the limit: then every thread can be coming.
LEMMA FewBelowLimit ==
    ASSUME NEW values \in Seq(Seconds), NEW R \in SUBSET LoginThreads,
           NEW limit \in Nat, NEW from \in Seconds, Cardinality(Hits(values, from)) < limit
    PROVE  Few(values, R, limit, from)
<1>1. Cardinality(R) \in Nat /\ Cardinality(R) <= Cardinality(LoginThreads) BY ComingFinite
<1>2. Cardinality(Hits(values, from)) \in Nat BY HitsFinite
<1>3. QED BY <1>1, <1>2, SomeThread DEF Few

\* Steps that neither record nor pass the check leave as many coming, or fewer.
LEMMA NoneComes ==
    ASSUME FewInv, LoginTypeOK, UNCHANGED <<missesByIp, misses>>,
           \A from \in Seconds :
               /\ Coming(from)' \subseteq Coming(from)
               /\ \A c \in Clients : ComingFrom(c, from)' \subseteq ComingFrom(c, from)
    PROVE  FewInv'
<1>1. SUFFICES ASSUME NEW from \in Seconds
               PROVE  /\ \A c \in Clients :
                             Few(missesByIp[c], ComingFrom(c, from)', MaxPerIp, from)
                      /\ Few(misses, Coming(from)', MaxGlobal, from)
  BY DEF FewInv, Few
<1>2. Coming(from) \subseteq LoginThreads BY DEF Coming
<1>3. \A c \in Clients : ComingFrom(c, from) \subseteq LoginThreads BY <1>2 DEF ComingFrom
<1>4. MaxPerIp \in Nat /\ MaxGlobal \in Nat BY LoginBounds
<1>5. Few(misses, Coming(from)', MaxGlobal, from)
  BY <1>2, <1>4, ListTypes, FewerAreFew DEF FewInv
<1>6. ASSUME NEW c \in Clients PROVE Few(missesByIp[c], ComingFrom(c, from)', MaxPerIp, from)
  BY <1>3, <1>4, ListTypes, FewerAreFew DEF FewInv
<1>7. QED BY <1>5, <1>6

\* A thread takes one step, and the clock stands: what of the request is needed.
LEMMA OneThread ==
    ASSUME LoginTypeOK, ClockInv, NEW t \in LoginThreads, NEW e,
           login' = [login EXCEPT ![t] = e], second' = second,
           e \in LoginRequest,
           e.pc # "idle" => e.client \in Clients,
           e.pc \in {"check", "record"} => e.clock <= second /\ second <= e.clock + Stall
    PROVE  /\ login' \in [LoginThreads -> LoginRequest]
           /\ ClockInv'
           /\ login'[t] = e /\ \A s \in LoginThreads \ {t} : login'[s] = login[s]
<1>1. login'[t] = e /\ \A s \in LoginThreads \ {t} : login'[s] = login[s]
  BY DEF LoginTypeOK, LoginRequest
<1>2. ClockInv'
  <2>1. SUFFICES ASSUME NEW s \in LoginThreads
                 PROVE  /\ login'[s].pc # "idle" => login'[s].client \in Clients
                        /\ login'[s].pc \in {"check", "record"} =>
                               login'[s].clock <= second /\ second <= login'[s].clock + Stall
    BY DEF ClockInv
  <2>2. CASE s = t BY <1>1, <2>2
  <2>3. CASE s # t
    <3>1. login'[s] = login[s] BY <1>1, <2>3
    <3>2. QED BY <3>1 DEF ClockInv
  <2>4. QED BY <2>2, <2>3
<1>3. login' \in [LoginThreads -> LoginRequest]
  BY DEF LoginTypeOK, LoginRequest
<1>4. QED BY <1>1, <1>2, <1>3

\* The request of an idle thread is one, too.
LEMMA NoLoginIsRequest == NoLogin \in LoginRequest
BY LoginBounds DEF NoLogin, Seconds, LoginRequest

\* Where the clock and the lists stay, so does what is said of them.
LEMMA ListsStay ==
    ASSUME ListsInv, UNCHANGED <<second, byIp, global, missesByIp, misses>>
    PROVE  ListsInv'
BY DEF ListsInv

\* A request arrives.
LEMMA ArriveStep ==
    ASSUME LoginInv, NEW t \in LoginThreads, NEW client \in Clients, Arrive(t, client)
    PROVE  LoginInv'
<1> USE DEF LoginInv
<1> DEFINE e == [pc |-> "check", client |-> client, clock |-> second]
<1>1. /\ UNCHANGED <<second, byIp, global, missesByIp, misses>>
      /\ login' = [login EXCEPT ![t] = e] /\ login[t].pc = "idle"
      /\ logins < MaxLogins /\ logins' = logins + 1
  BY DEF Arrive
<1>2. /\ e \in LoginRequest
      /\ e.client \in Clients /\ e.clock <= second /\ second <= e.clock + Stall /\ e.pc = "check"
  BY LoginBounds DEF LoginTypeOK, LoginRequest
<1> HIDE DEF e
<1>3. /\ login' \in [LoginThreads -> LoginRequest]
      /\ ClockInv'
      /\ login'[t] = e /\ \A s \in LoginThreads \ {t} : login'[s] = login[s]
  BY <1>1, <1>2, OneThread
<1>4. LoginTypeOK'
  <2>1. logins' \in 0..MaxLogins BY <1>1, LoginBounds DEF LoginTypeOK, LoginRequest
  <2>2. QED BY <1>1, <1>3, <2>1 DEF LoginTypeOK, LoginRequest
<1>5. ListsInv' BY <1>1, ListsStay
<1>6. FewInv'
  <2>1. \A from \in Seconds : Coming(from)' \subseteq Coming(from)
    BY <1>1, <1>2, <1>3 DEF Coming
  <2>2. \A from \in Seconds : \A c \in Clients : ComingFrom(c, from)' \subseteq ComingFrom(c, from)
    BY <1>1, <1>2, <1>3, <2>1 DEF ComingFrom, Coming
  <2>3. QED BY <1>1, <2>1, <2>2, NoneComes
<1>7. QED BY <1>3, <1>4, <1>5, <1>6

\* The token is compared: the clock of the failure is the one of now.
LEMMA CompareStep ==
    ASSUME LoginInv, NEW t \in LoginThreads, Compare(t)
    PROVE  LoginInv'
<1> USE DEF LoginInv
<1>1. /\ UNCHANGED <<second, byIp, global, missesByIp, misses, logins>>
      /\ login[t].pc = "compare"
  BY DEF Compare
<1>2. login[t] \in LoginRequest
      /\ login[t].client \in Clients
  BY <1>1 DEF LoginTypeOK, LoginRequest, ClockInv
<1>3. PICK e : /\ login' = [login EXCEPT ![t] = e]
               /\ e \in LoginRequest
               /\ e.pc \in {"idle", "record", "clear"}
               /\ e.pc # "idle" => e.client = login[t].client
               /\ e.pc = "record" => e.clock = second
  <2>1. CASE login' = [login EXCEPT ![t] = [@ EXCEPT !.pc = "record", !.clock = second]]
    <3> DEFINE e == [login[t] EXCEPT !.pc = "record", !.clock = second]
    <3>1. login' = [login EXCEPT ![t] = e] BY <2>1
    <3>2. e \in LoginRequest
          /\ e.pc = "record" /\ e.client = login[t].client /\ e.clock = second
      BY <1>2 DEF LoginTypeOK, LoginRequest
    <3> HIDE DEF e
    <3>3. QED BY <3>1, <3>2
  <2>2. CASE login' = [login EXCEPT ![t].pc = "clear"]
    <3> DEFINE e == [login[t] EXCEPT !.pc = "clear"]
    <3>1. login' = [login EXCEPT ![t] = e] BY <2>2
    <3>2. e \in LoginRequest
          /\ e.pc = "clear" /\ e.client = login[t].client
      BY <1>2 DEF LoginRequest
    <3> HIDE DEF e
    <3>3. QED BY <3>1, <3>2
  <2>3. CASE login' = [login EXCEPT ![t] = NoLogin]
    <3>1. NoLogin.pc = "idle" BY DEF NoLogin
    <3>2. QED BY <2>3, <3>1, NoLoginIsRequest
  <2>4. QED BY <2>1, <2>2, <2>3 DEF Compare
<1>4. second <= second + Stall /\ second <= second BY ListTypes, LoginBounds
<1>5. /\ login' \in [LoginThreads -> LoginRequest]
      /\ ClockInv'
      /\ login'[t] = e /\ \A s \in LoginThreads \ {t} : login'[s] = login[s]
  BY <1>1, <1>2, <1>3, <1>4, OneThread
<1>6. LoginTypeOK' BY <1>1, <1>5 DEF LoginTypeOK, LoginRequest
<1>7. ListsInv' BY <1>1, ListsStay
<1>8. FewInv'
  <2>1. ASSUME NEW from \in Seconds PROVE Coming(from)' \subseteq Coming(from)
    <3>1. second \in Stretch(from) => second <= from + Shorter - Stall - 1
      BY ListTypes, LoginBounds DEF Stretch
    <3>2. QED BY <1>1, <1>3, <1>5, <3>1 DEF Coming
  <2>2. ASSUME NEW from \in Seconds, NEW c \in Clients
        PROVE  ComingFrom(c, from)' \subseteq ComingFrom(c, from)
    <3>1. \A s \in LoginThreads : s \in Coming(from)' => login'[s].client = login[s].client
      <4>1. \A s \in Coming(from)' : login'[s].pc # "idle" BY DEF Coming
      <4>2. QED BY <1>3, <1>5, <4>1
    <3>2. \A s \in Coming(from)' : s \in LoginThreads BY DEF Coming
    <3>3. QED BY <2>1, <3>1, <3>2 DEF ComingFrom
  <2>3. QED BY <1>1, <2>1, <2>2, NoneComes
<1>9. QED BY <1>5, <1>6, <1>7, <1>8

\* What is pruned to check or to record stays the end of its list.
LEMMA PrunedLists ==
    ASSUME LoginTypeOK, ListsInv, NEW now \in Seconds, now <= second,
           NEW seconds \in Nat, seconds >= Window
    PROVE  /\ PruneFailures(global, now, seconds) \in Seq(Seconds)
           /\ KeptOf(PruneFailures(global, now, seconds), misses, second)
           /\ \A c \in Clients :
                  /\ PruneFailures(byIp[c], now, seconds) \in Seq(Seconds)
                  /\ KeptOf(PruneFailures(byIp[c], now, seconds), missesByIp[c], second)
<1>1. now \in Int BY LoginBounds
<1>2. PruneFailures(global, now, seconds) \in Seq(Seconds) BY <1>1, ListTypes, PruneFacts
<1>3. \A c \in Clients : PruneFailures(byIp[c], now, seconds) \in Seq(Seconds)
  BY <1>1, ListTypes, PruneFacts
<1>4. KeptOf(PruneFailures(global, now, seconds), misses, second)
  <2>1. KeptOf(global, misses, second) BY DEF ListsInv
  <2>2. QED BY <2>1, ListTypes, KeptPruned
<1>5. ASSUME NEW c \in Clients
      PROVE  KeptOf(PruneFailures(byIp[c], now, seconds), missesByIp[c], second)
  <2>1. KeptOf(byIp[c], missesByIp[c], second) BY DEF ListsInv
  <2>2. QED BY <2>1, ListTypes, KeptPruned
<1>6. QED BY <1>2, <1>3, <1>4, <1>5

\* The check: who passes finds fewer failures than the limit in every stretch that is not
\* over.
LEMMA CheckStep ==
    ASSUME LoginInv, NEW t \in LoginThreads, Check(t)
    PROVE  LoginInv'
<1> USE DEF LoginInv
<1> DEFINE now == login[t].clock
           client == login[t].client
           limited == \/ Limited(byIp'[client], MaxPerIp, now)
                      \/ Limited(global', MaxGlobal, now)
           e == IF limited THEN NoLogin ELSE [login[t] EXCEPT !.pc = "compare"]
<1>1. /\ UNCHANGED <<second, missesByIp, misses, logins>> /\ login[t].pc = "check"
      /\ byIp' = [c \in Clients |-> PruneFailures(byIp[c], now, Longer)]
      /\ global' = PruneFailures(global, now, Longer)
      /\ login' = [login EXCEPT ![t] = e]
  BY DEF Check, PruneEntries
<1>2. login[t] \in LoginRequest /\ client \in Clients /\ now \in Seconds /\ now <= second
  BY <1>1 DEF LoginTypeOK, LoginRequest, ClockInv
<1>3. /\ e \in LoginRequest /\ e.pc \in {"idle", "compare"}
      /\ e.pc = "compare" => e.client = client /\ ~limited
  <2>1. CASE limited
    <3>1. e = NoLogin BY <2>1
    <3>2. QED BY <3>1, NoLoginIsRequest DEF NoLogin
  <2>2. CASE ~limited
    <3>1. e = [login[t] EXCEPT !.pc = "compare"] BY <2>2
    <3> HIDE DEF limited
    <3>2. e \in LoginRequest /\ e.pc = "compare" /\ e.client = login[t].client
      BY <1>2, <3>1 DEF LoginRequest
    <3>3. QED BY <2>2, <3>2
  <2>3. QED BY <2>1, <2>2
<1>4. /\ global' \in Seq(Seconds) /\ KeptOf(global', misses, second)
      /\ byIp' \in [Clients -> Seq(Seconds)]
      /\ \A c \in Clients : KeptOf(byIp'[c], missesByIp[c], second)
  <2>1. Longer \in Nat /\ Longer >= Window BY LoginBounds
  <2>2. /\ PruneFailures(global, now, Longer) \in Seq(Seconds)
        /\ KeptOf(PruneFailures(global, now, Longer), misses, second)
        /\ \A c \in Clients :
               /\ PruneFailures(byIp[c], now, Longer) \in Seq(Seconds)
               /\ KeptOf(PruneFailures(byIp[c], now, Longer), missesByIp[c], second)
    BY <1>2, <2>1, PrunedLists
  <2> HIDE DEF now
  <2>3. QED BY <1>1, <2>2
<1> HIDE DEF e, limited
<1>5. /\ login' \in [LoginThreads -> LoginRequest]
      /\ ClockInv'
      /\ login'[t] = e /\ \A s \in LoginThreads \ {t} : login'[s] = login[s]
  BY <1>1, <1>2, <1>3, OneThread
<1>6. LoginTypeOK' BY <1>1, <1>4, <1>5 DEF LoginTypeOK, LoginRequest
<1>7. ListsInv' BY <1>1, <1>4 DEF ListsInv
<1>8. \A from \in Seconds : \A s \in Coming(from)' :
          s \in Coming(from) \/ (s = t /\ ~limited /\ second <= from + Shorter - Stall - 1)
  BY <1>1, <1>3, <1>5 DEF Coming
<1>9. \A from \in Seconds : \A s \in Coming(from)' : login'[s].client = login[s].client
  <2>1. ASSUME NEW from \in Seconds, NEW s \in Coming(from)'
        PROVE  login'[s].client = login[s].client
    <3>1. s \in LoginThreads /\ login'[s].pc # "idle" BY DEF Coming
    <3>2. CASE s = t BY <1>3, <1>5, <3>1, <3>2
    <3>3. CASE s # t BY <1>5, <3>1, <3>3
    <3>4. QED BY <3>2, <3>3
  <2>2. QED BY <2>1
<1>10. ASSUME NEW from \in Seconds PROVE Few(misses, Coming(from)', MaxGlobal, from)
  <2>1. Coming(from) \in SUBSET LoginThreads /\ Coming(from)' \in SUBSET LoginThreads
    BY DEF Coming
  <2>2. CASE Coming(from)' \subseteq Coming(from)
    <3>1. Few(misses, Coming(from), MaxGlobal, from) BY DEF FewInv
    <3>2. QED BY <2>1, <2>2, <3>1, ListTypes, LoginBounds, FewerAreFew
  <2>3. CASE ~limited /\ second <= from + Shorter - Stall - 1
    <3>1. ~Limited(global', MaxGlobal, now) BY <2>3 DEF limited
    <3>2. Dated(misses, second) BY DEF ListsInv
    <3>3. ~(Cardinality(Hits(misses, from)) >= MaxGlobal)
      BY <1>2, <1>4, <2>3, <3>1, <3>2, ListTypes, LoginBounds, ChecksLimit
    <3>4. Cardinality(Hits(misses, from)) < MaxGlobal
      BY <3>3, ListTypes, HitsFinite, LoginBounds
    <3>5. QED BY <2>1, <3>4, ListTypes, LoginBounds, FewBelowLimit
  <2>4. QED BY <1>8, <2>2, <2>3
<1>11. ASSUME NEW from \in Seconds, NEW c \in Clients
       PROVE  Few(missesByIp[c], ComingFrom(c, from)', MaxPerIp, from)
  <2>1. ComingFrom(c, from) \in SUBSET LoginThreads /\ ComingFrom(c, from)' \in SUBSET LoginThreads
    BY DEF Coming, ComingFrom
  <2>2. CASE ComingFrom(c, from)' \subseteq ComingFrom(c, from)
    <3>1. Few(missesByIp[c], ComingFrom(c, from), MaxPerIp, from) BY DEF FewInv
    <3>2. QED BY <2>1, <2>2, <3>1, ListTypes, LoginBounds, FewerAreFew
  <2>3. CASE ~limited /\ second <= from + Shorter - Stall - 1 /\ client = c
    <3>1. ~Limited(byIp'[c], MaxPerIp, now) BY <2>3 DEF limited
    <3>2. Dated(missesByIp[c], second) BY DEF ListsInv
    <3>3. byIp'[c] \in Seq(Seconds) BY <1>4
    <3>4. ~(Cardinality(Hits(missesByIp[c], from)) >= MaxPerIp)
      BY <1>2, <1>4, <2>3, <3>1, <3>2, <3>3, ListTypes, LoginBounds, ChecksLimit
    <3>5. Cardinality(Hits(missesByIp[c], from)) < MaxPerIp
      BY <3>4, ListTypes, HitsFinite, LoginBounds
    <3>6. QED BY <2>1, <3>5, ListTypes, LoginBounds, FewBelowLimit
  <2>4. \A s \in ComingFrom(c, from)' :
            s \in ComingFrom(c, from)
            \/ (~limited /\ second <= from + Shorter - Stall - 1 /\ client = c)
    BY <1>8, <1>9 DEF ComingFrom
  <2>5. QED BY <2>2, <2>3, <2>4
<1>12. FewInv' BY <1>1, <1>10, <1>11 DEF FewInv, Few
<1>13. QED BY <1>5, <1>6, <1>7, <1>12

\* A failure is recorded: it was coming.
LEMMA RecordStep ==
    ASSUME LoginInv, NEW t \in LoginThreads, Record(t)
    PROVE  LoginInv'
<1> USE DEF LoginInv
<1> DEFINE now == login[t].clock
           client == login[t].client
           pruned == [c \in Clients |-> PruneFailures(byIp[c], now, Longer)]
<1>1. /\ UNCHANGED <<second, logins>> /\ login[t].pc = "record"
      /\ byIp' = [pruned EXCEPT ![client] = Append(PruneFailures(pruned[client], now, Window), now)]
      /\ global' = Append(PruneFailures(global, now, Window), now)
      /\ missesByIp' = [missesByIp EXCEPT ![client] = Append(missesByIp[client], now)]
      /\ misses' = Append(misses, now)
      /\ login' = [login EXCEPT ![t] = NoLogin]
  BY DEF Record, PruneEntries
<1>2. client \in Clients /\ now \in Seconds /\ now <= second /\ second <= now + Stall
  BY <1>1 DEF LoginTypeOK, ClockInv
<1>p. now \in Int BY <1>2, LoginBounds
<1>3. Longer \in Nat /\ Longer >= Window /\ Window \in Nat /\ Window >= Window BY LoginBounds
<1>4. /\ PruneFailures(global, now, Window) \in Seq(Seconds)
      /\ KeptOf(PruneFailures(global, now, Window), misses, second)
  BY <1>2, <1>3, PrunedLists
<1>5. \A c \in Clients : pruned[c] \in Seq(Seconds) /\ KeptOf(pruned[c], missesByIp[c], second)
  BY <1>2, <1>3, PrunedLists
<1>d. DOMAIN pruned = Clients /\ pruned = [c \in Clients |-> pruned[c]] OBVIOUS
<1> HIDE DEF pruned
<1> DEFINE mine == PruneFailures(pruned[client], now, Window)
<1>6. mine \in Seq(Seconds) /\ KeptOf(mine, missesByIp[client], second)
  <2>1. pruned[client] \in Seq(Seconds) /\ KeptOf(pruned[client], missesByIp[client], second)
    BY <1>2, <1>5
  <2>2. mine \in Seq(Seconds) BY <1>3, <1>p, <2>1, PruneFacts
  <2>3. KeptOf(mine, missesByIp[client], second) BY <1>2, <1>3, <2>1, ListTypes, KeptPruned
  <2>4. QED BY <2>2, <2>3
<1> HIDE DEF mine
<1>7. /\ byIp' = [pruned EXCEPT ![client] = Append(mine, now)]
      /\ byIp'[client] = Append(mine, now)
      /\ \A c \in Clients \ {client} : byIp'[c] = pruned[c]
  BY <1>1, <1>2, <1>d DEF mine
<1>8. /\ missesByIp'[client] = Append(missesByIp[client], now)
      /\ \A c \in Clients \ {client} : missesByIp'[c] = missesByIp[c]
  BY <1>1, <1>2 DEF LoginTypeOK
<1>9. /\ login' \in [LoginThreads -> LoginRequest]
      /\ ClockInv'
      /\ login'[t] = NoLogin /\ \A s \in LoginThreads \ {t} : login'[s] = login[s]
  <2>1. NoLogin.pc = "idle" BY DEF NoLogin
  <2>2. QED BY <1>1, <2>1, NoLoginIsRequest, OneThread
<1>10. LoginTypeOK'
  <2>1. byIp' \in [Clients -> Seq(Seconds)]
    <3>1. Append(mine, now) \in Seq(Seconds) BY <1>2, <1>6
    <3>2. QED BY <1>5, <1>7, <1>d, <3>1
  <2>2. missesByIp' \in [Clients -> Seq(Seconds)]
    <3>1. Append(missesByIp[client], now) \in Seq(Seconds) BY <1>2, ListTypes
    <3>2. QED BY <1>1, <3>1 DEF LoginTypeOK
  <2>3. global' \in Seq(Seconds) /\ misses' \in Seq(Seconds) BY <1>1, <1>2, <1>4, ListTypes
  <2>4. QED BY <1>1, <1>9, <2>1, <2>2, <2>3 DEF LoginTypeOK, LoginRequest
<1>11. ListsInv'
  <2>1. Dated(misses', second) /\ KeptOf(global', misses', second)
    <3>1. Dated(misses, second) BY DEF ListsInv
    <3>2. Dated(misses', second) BY <1>1, <1>2, <3>1, ListTypes, DatedAppended
    <3>3. KeptOf(global', misses', second) BY <1>1, <1>2, <1>4, ListTypes, KeptAppended
    <3>4. QED BY <3>2, <3>3
  <2>2. ASSUME NEW c \in Clients
        PROVE  Dated(missesByIp'[c], second) /\ KeptOf(byIp'[c], missesByIp'[c], second)
    <3>1. Dated(missesByIp[c], second) BY DEF ListsInv
    <3>2. CASE c = client
      <4>1. Dated(missesByIp'[c], second) BY <1>2, <1>8, <3>1, <3>2, ListTypes, DatedAppended
      <4>2. KeptOf(Append(mine, now), Append(missesByIp[client], now), second)
        <5>1. missesByIp[client] \in Seq(Seconds) /\ second \in Seconds BY <1>2, ListTypes
        <5> HIDE DEF now, client
        <5>2. QED BY <1>2, <1>6, <5>1, KeptAppended
      <4>3. QED BY <1>7, <1>8, <3>2, <4>1, <4>2
    <3>3. CASE c # client BY <1>5, <1>7, <1>8, <3>1, <3>3
    <3>4. QED BY <3>2, <3>3
  <2>3. QED BY <1>1, <2>1, <2>2 DEF ListsInv
<1>12. \A from \in Seconds :
           /\ Coming(from)' \subseteq Coming(from) /\ t \notin Coming(from)'
           /\ now \in Stretch(from) => t \in Coming(from)
  BY <1>1, <1>9 DEF Coming, NoLogin
<1>13. \A from \in Seconds : \A s \in Coming(from)' : s # t /\ s \in LoginThreads /\ login'[s] = login[s]
  BY <1>9, <1>12 DEF Coming
<1>14. ASSUME NEW from \in Seconds PROVE Few(misses', Coming(from)', MaxGlobal, from)
  <2>1. Coming(from) \in SUBSET LoginThreads BY DEF Coming
  <2>2. Few(misses, Coming(from), MaxGlobal, from) BY DEF FewInv
  <2>3. QED BY <1>1, <1>2, <1>12, <2>1, <2>2, ListTypes, LoginBounds, FewAppended
<1>15. ASSUME NEW from \in Seconds, NEW c \in Clients
       PROVE  Few(missesByIp'[c], ComingFrom(c, from)', MaxPerIp, from)
  <2>1. ComingFrom(c, from) \in SUBSET LoginThreads BY DEF Coming, ComingFrom
  <2>2. Few(missesByIp[c], ComingFrom(c, from), MaxPerIp, from) BY DEF FewInv
  <2>3. ComingFrom(c, from)' \in SUBSET ComingFrom(c, from) /\ t \notin ComingFrom(c, from)'
    BY <1>12, <1>13 DEF ComingFrom
  <2>4. CASE c = client
    <3>1. now \in Stretch(from) => t \in ComingFrom(c, from) BY <1>12, <2>4 DEF ComingFrom
    <3>2. missesByIp[c] \in Seq(Seconds) /\ MaxPerIp \in Nat BY ListTypes, LoginBounds
    <3>3. Few(Append(missesByIp[c], now), ComingFrom(c, from)', MaxPerIp, from)
      <4> HIDE DEF now, client
      <4>1. QED BY <1>2, <2>1, <2>2, <2>3, <3>1, <3>2, FewAppended
    <3>4. QED BY <1>8, <2>4, <3>3
  <2>5. CASE c # client
    <3>1. missesByIp'[c] = missesByIp[c] BY <1>8, <2>5
    <3>2. QED BY <2>1, <2>2, <2>3, <3>1, ListTypes, LoginBounds, FewerAreFew
  <2>6. QED BY <2>4, <2>5
<1>16. FewInv' BY <1>14, <1>15 DEF FewInv, Few
<1>17. QED BY <1>9, <1>10, <1>11, <1>16

\* A success forgets the failures of its address.
LEMMA ClearStep ==
    ASSUME LoginInv, NEW t \in LoginThreads, Clear(t)
    PROVE  LoginInv'
<1> USE DEF LoginInv
<1> DEFINE client == login[t].client
<1>1. /\ UNCHANGED <<second, global, misses, logins>> /\ login[t].pc = "clear"
      /\ byIp' = [byIp EXCEPT ![client] = <<>>]
      /\ missesByIp' = [missesByIp EXCEPT ![client] = <<>>]
      /\ login' = [login EXCEPT ![t] = NoLogin]
  BY DEF Clear
<1>2. client \in Clients BY <1>1 DEF ClockInv
<1>3. \A c \in Clients : /\ byIp'[c] = IF c = client THEN <<>> ELSE byIp[c]
                         /\ missesByIp'[c] = IF c = client THEN <<>> ELSE missesByIp[c]
  BY <1>1, <1>2 DEF LoginTypeOK
<1>4. <<>> \in Seq(Seconds) /\ Len(<<>>) = 0 OBVIOUS
<1>5. /\ login' \in [LoginThreads -> LoginRequest]
      /\ ClockInv'
      /\ login'[t] = NoLogin /\ \A s \in LoginThreads \ {t} : login'[s] = login[s]
  <2>1. NoLogin.pc = "idle" BY DEF NoLogin
  <2>2. QED BY <1>1, <2>1, NoLoginIsRequest, OneThread
<1>6. LoginTypeOK' BY <1>1, <1>4, <1>5 DEF LoginTypeOK, LoginRequest
<1>7. Dated(<<>>, second) /\ KeptOf(<<>>, <<>>, second)
  <2>1. Dated(<<>>, second) BY <1>4 DEF Dated
  <2>2. KeptOf(<<>>, <<>>, second)
    <3>1. 0 \in 0..Len(<<>>) /\ Len(<<>>) = Len(<<>>) - 0 BY <1>4
    <3>2. QED BY <1>4, <3>1 DEF KeptOf
  <2>3. QED BY <2>1, <2>2
<1>8. ListsInv' BY <1>1, <1>3, <1>7 DEF ListsInv
<1>9. \A from \in Seconds : Coming(from)' \subseteq Coming(from) /\ t \notin Coming(from)'
  BY <1>1, <1>5 DEF Coming, NoLogin
<1>10. \A from \in Seconds : \A s \in Coming(from)' : s # t /\ s \in LoginThreads /\ login'[s] = login[s]
  BY <1>5, <1>9 DEF Coming
<1>11. ASSUME NEW from \in Seconds PROVE Few(misses, Coming(from)', MaxGlobal, from)
  <2>1. Coming(from) \in SUBSET LoginThreads BY DEF Coming
  <2>2. Few(misses, Coming(from), MaxGlobal, from) BY DEF FewInv
  <2>3. QED BY <1>9, <2>1, <2>2, ListTypes, LoginBounds, FewerAreFew
<1>12. ASSUME NEW from \in Seconds, NEW c \in Clients
       PROVE  Few(missesByIp'[c], ComingFrom(c, from)', MaxPerIp, from)
  <2>1. ComingFrom(c, from) \in SUBSET LoginThreads BY DEF Coming, ComingFrom
  <2>2. Few(missesByIp[c], ComingFrom(c, from), MaxPerIp, from) BY DEF FewInv
  <2>3. ComingFrom(c, from)' \in SUBSET ComingFrom(c, from) BY <1>9, <1>10 DEF ComingFrom
  <2>4. CASE c # client
    <3>1. missesByIp'[c] = missesByIp[c] BY <1>3, <2>4
    <3>2. QED BY <2>1, <2>2, <2>3, <3>1, ListTypes, LoginBounds, FewerAreFew
  <2>5. CASE c = client
    <3>1. Hits(<<>>, from) = {}
      <4>1. Hits(<<>>, from) \subseteq 1..Len(<<>>) BY <1>4, HitsFinite
      <4>2. QED BY <1>4, <4>1
    <3>2. Cardinality(Hits(<<>>, from)) < MaxPerIp
      <4>1. Cardinality(Hits(<<>>, from)) = 0 BY <3>1, FS_EmptySet
      <4>2. QED BY <4>1, LoginBounds
    <3>3. ComingFrom(c, from)' \in SUBSET LoginThreads BY <2>1, <2>3
    <3>4. QED BY <1>3, <1>4, <2>5, <3>2, <3>3, LoginBounds, FewBelowLimit
  <2>6. QED BY <2>4, <2>5
<1>13. FewInv' BY <1>1, <1>11, <1>12 DEF FewInv, Few
<1>14. QED BY <1>5, <1>6, <1>8, <1>13

\* The clock goes on, where nobody waits for the lock for too long.
LEMMA PassStep == ASSUME LoginInv, SecondPasses PROVE LoginInv'
<1> USE DEF LoginInv
<1>1. /\ UNCHANGED <<byIp, global, login, missesByIp, misses, logins>>
      /\ second < LastSecond /\ second' = second + 1
      /\ \A t \in LoginThreads :
             login[t].pc \in {"check", "record"} => second - login[t].clock < Stall
  BY DEF SecondPasses
<1>2. second' \in Seconds /\ second \in Int BY <1>1, ListTypes, LoginBounds DEF Seconds
<1>3. LoginTypeOK' BY <1>1, <1>2 DEF LoginTypeOK
<1>4. ClockInv'
  <2>1. ASSUME NEW t \in LoginThreads, login[t].pc \in {"check", "record"}
        PROVE  login[t].clock <= second' /\ second' <= login[t].clock + Stall
    <3>1. login[t].clock \in Int BY ListTypes, LoginBounds
    <3>2. login[t].clock <= second BY <2>1 DEF ClockInv
    <3>3. QED BY <1>1, <1>2, <2>1, <3>1, <3>2, LoginBounds
  <2>2. QED BY <1>1, <2>1 DEF ClockInv
<1>5. \A all \in Seq(Seconds) : Dated(all, second) => Dated(all, second')
  <2>1. SUFFICES ASSUME NEW all \in Seq(Seconds), Dated(all, second), NEW i \in 1..Len(all)
                 PROVE  all[i] <= second'
    BY DEF Dated
  <2>2. all[i] <= second BY <2>1 DEF Dated
  <2>3. all[i] \in Int BY ElementOfSeq, LoginBounds
  <2>4. QED BY <1>1, <1>2, <2>2, <2>3
<1>6. \A kept, all \in Seq(Seconds) : KeptOf(kept, all, second) => KeptOf(kept, all, second')
  <2>1. SUFFICES ASSUME NEW kept \in Seq(Seconds), NEW all \in Seq(Seconds),
                        KeptOf(kept, all, second)
                 PROVE  KeptOf(kept, all, second')
    OBVIOUS
  <2>2. PICK d \in 0..Len(all) :
          /\ Len(kept) = Len(all) - d
          /\ \A i \in 1..Len(kept) : kept[i] = all[d + i]
          /\ \A j \in 1..d : all[j] + Window <= second
    BY <2>1 DEF KeptOf
  <2>3. ASSUME NEW j \in 1..d PROVE all[j] + Window <= second'
    <3>1. j \in 1..Len(all) BY LenProperties
    <3>2. all[j] \in Int BY <3>1, ElementOfSeq, LoginBounds
    <3>3. QED BY <1>1, <1>2, <2>2, <3>2, LoginBounds
  <2>4. QED BY <2>2, <2>3 DEF KeptOf
<1>7. ListsInv'
  <2>1. ASSUME NEW c \in Clients
        PROVE  Dated(missesByIp[c], second') /\ KeptOf(byIp[c], missesByIp[c], second')
    BY <1>5, <1>6, ListTypes DEF ListsInv
  <2>2. Dated(misses, second') /\ KeptOf(global, misses, second')
    BY <1>5, <1>6, ListTypes DEF ListsInv
  <2>3. QED BY <1>1, <2>1, <2>2 DEF ListsInv
<1>8. FewInv'
  <2>1. ASSUME NEW from \in Seconds PROVE Coming(from)' \subseteq Coming(from)
    <3>1. \A top \in Int : second' <= top => second <= top BY <1>1, <1>2
    <3>2. from + Shorter - Stall - 1 \in Int BY LoginBounds
    <3>3. QED BY <1>1, <3>1, <3>2 DEF Coming
  <2>2. \A from \in Seconds : \A c \in Clients : ComingFrom(c, from)' \subseteq ComingFrom(c, from)
    BY <1>1, <2>1 DEF ComingFrom
  <2>3. QED BY <1>1, <2>1, <2>2, NoneComes
<1>9. QED BY <1>3, <1>4, <1>7, <1>8

-----------------------------------------------------------------------------
(* The limit. *)

\* Nobody has failed yet.
LEMMA LoginStarts == LoginInit => LoginInv
<1>1. SUFFICES ASSUME LoginInit PROVE LoginInv OBVIOUS
<1>2. <<>> \in Seq(Seconds) /\ Len(<<>>) = 0 /\ 0 \in Seconds /\ 0 \in 0..MaxLogins
  BY LoginBounds DEF Seconds
<1>3. LoginTypeOK BY <1>1, <1>2, NoLoginIsRequest DEF LoginInit, LoginTypeOK, LoginRequest
<1>4. \A t \in LoginThreads : login[t].pc = "idle" BY <1>1 DEF LoginInit, NoLogin
<1>5. ClockInv BY <1>4 DEF ClockInv
<1>6. Dated(<<>>, second) /\ KeptOf(<<>>, <<>>, second)
  <2>1. Dated(<<>>, second) BY <1>2 DEF Dated
  <2>2. KeptOf(<<>>, <<>>, second)
    <3>1. 0 \in 0..Len(<<>>) /\ Len(<<>>) = Len(<<>>) - 0 BY <1>2
    <3>2. QED BY <1>2, <3>1 DEF KeptOf
  <2>3. QED BY <2>1, <2>2
<1>7. ListsInv BY <1>1, <1>6 DEF LoginInit, ListsInv
<1>8. FewInv
  <2>1. ASSUME NEW from \in Seconds
        PROVE  Cardinality(Hits(<<>>, from)) < MaxPerIp /\ Cardinality(Hits(<<>>, from)) < MaxGlobal
    <3>1. Hits(<<>>, from) = {}
      <4>1. Hits(<<>>, from) \subseteq 1..Len(<<>>) BY <1>2, HitsFinite
      <4>2. QED BY <1>2, <4>1
    <3>2. Cardinality(Hits(<<>>, from)) = 0 BY <3>1, FS_EmptySet
    <3>3. QED BY <3>2, LoginBounds
  <2>2. MaxPerIp \in Nat /\ MaxGlobal \in Nat BY LoginBounds
  <2>3. ASSUME NEW from \in Seconds, NEW c \in Clients
        PROVE  Few(<<>>, ComingFrom(c, from), MaxPerIp, from)
    <3>1. ComingFrom(c, from) \in SUBSET LoginThreads BY DEF Coming, ComingFrom
    <3>2. QED BY <1>2, <2>1, <2>2, <3>1, FewBelowLimit
  <2>4. ASSUME NEW from \in Seconds PROVE Few(<<>>, Coming(from), MaxGlobal, from)
    <3>1. Coming(from) \in SUBSET LoginThreads BY DEF Coming
    <3>2. QED BY <1>2, <2>1, <2>2, <3>1, FewBelowLimit
  <2>5. QED BY <1>1, <2>3, <2>4 DEF LoginInit, FewInv
<1>9. QED BY <1>3, <1>5, <1>7, <1>8 DEF LoginInv

\* Every step keeps the invariant.
LEMMA LoginKeeps == LoginInv /\ [LoginNext]_loginVars => LoginInv'
<1>1. CASE UNCHANGED loginVars
  <2>1. SUFFICES ASSUME LoginInv PROVE LoginInv' OBVIOUS
  <2>2. LoginTypeOK' /\ ClockInv' BY <1>1, <2>1 DEF loginVars, LoginInv, LoginTypeOK, ClockInv
  <2>3. ListsInv' BY <1>1, <2>1, ListsStay DEF loginVars, LoginInv
  <2>4. \A from \in Seconds : Coming(from)' \subseteq Coming(from)
    BY <1>1 DEF loginVars, Coming
  <2>5. \A from \in Seconds : \A c \in Clients : ComingFrom(c, from)' \subseteq ComingFrom(c, from)
    BY <1>1, <2>4 DEF loginVars, ComingFrom
  <2>6. FewInv' BY <1>1, <2>1, <2>4, <2>5, NoneComes DEF loginVars, LoginInv
  <2>7. QED BY <2>2, <2>3, <2>6 DEF LoginInv
<1>2. QED
  BY <1>1, ArriveStep, CheckStep, CompareStep, RecordStep, ClearStep, PassStep DEF LoginNext

\* The invariant holds of every behaviour of the login's requests.
THEOREM LoginInvariant == LoginSpec => []LoginInv
BY LoginStarts, LoginKeeps, PTL DEF LoginSpec

\* For any limits, any number of threads, addresses and requests, the variables keep their
\* types.
THEOREM LoginTypes == LoginSpec => []LoginTypeOK
<1>1. LoginInv => LoginTypeOK BY DEF LoginInv
<1>2. QED BY <1>1, LoginInvariant, PTL

\* For any limits, windows and blocks, any number of threads and addresses, and any delay
\* between the clock and the lock: no stretch that is by this delay shorter than window and
\* block sees more wrong guesses than the limit and one for every other thread.
THEOREM LoginGuessesBounded == LoginSpec => []GuessesBounded
<1>1. LoginInv => GuessesBounded
  <2>1. SUFFICES ASSUME LoginInv, NEW from \in Seconds
                 PROVE  /\ \A c \in Clients : Cardinality(Hits(missesByIp[c], from))
                               <= MaxPerIp + Cardinality(LoginThreads) - 1
                        /\ Cardinality(Hits(misses, from))
                               <= MaxGlobal + Cardinality(LoginThreads) - 1
    BY DEF GuessesBounded, Within, Hits, Stretch
  <2>2. LoginTypeOK /\ FewInv BY <2>1 DEF LoginInv
  <2>3. Cardinality(Hits(misses, from)) <= MaxGlobal + Cardinality(LoginThreads) - 1
    <3>1. Coming(from) \in SUBSET LoginThreads BY DEF Coming
    <3>2. Cardinality(Coming(from)) \in Nat BY <3>1, ComingFinite
    <3>3. Cardinality(Hits(misses, from)) \in Nat BY <2>2, ListTypes, HitsFinite
    <3>4. QED BY <2>2, <3>2, <3>3, SomeThread, LoginBounds DEF FewInv, Few
  <2>4. ASSUME NEW c \in Clients
        PROVE  Cardinality(Hits(missesByIp[c], from)) <= MaxPerIp + Cardinality(LoginThreads) - 1
    <3>1. ComingFrom(c, from) \in SUBSET LoginThreads BY DEF Coming, ComingFrom
    <3>2. Cardinality(ComingFrom(c, from)) \in Nat BY <3>1, ComingFinite
    <3>3. Cardinality(Hits(missesByIp[c], from)) \in Nat BY <2>2, ListTypes, HitsFinite
    <3>4. Few(missesByIp[c], ComingFrom(c, from), MaxPerIp, from) BY <2>2 DEF FewInv
    <3>5. QED BY <3>2, <3>3, <3>4, SomeThread, LoginBounds DEF Few
  <2>5. QED BY <2>3, <2>4
<1>2. QED BY <1>1, LoginInvariant, PTL

HIDE LoginAssumption

-----------------------------------------------------------------------------
(* The file manager. *)

USE FilesAssumption

\* A file has one path, and a request that has not opened its file has not created one.
InodeInv ==
    /\ \A p, q \in FilePaths : dir[p] \in Inodes /\ dir[p] = dir[q] => p = q
    /\ \A r \in FileRequests : req[r].pc \in {"new", "open"} =>
           /\ \A p \in FilePaths : dir[p] # r
           /\ \A o \in FileRequests : req[o].fd # r
    /\ \A r \in FileRequests :
           IF req[r].pc = "write" THEN req[r].fd \in Inodes ELSE req[r].fd = NoInode

\* What a request that is under way names.
Named(r) == {req[r].path, req[r].target}

\* A request that is alone still is, and its file is as it opened it.
AloneInv ==
    \A r \in FileRequests : Serving(r) /\ req[r].alone =>
        /\ \A o \in FileRequests \ {r} : ~Touches(o, Named(r))
        /\ req[r].pc = "write" => dir[req[r].path] = req[r].fd /\ data[req[r].fd] = <<>>

\* What is due is there, and no request that is under way has to do with it.
DueInv ==
    \A p \in FilePaths : due[p] # <<>> =>
        /\ dir[p] \in Inodes /\ data[dir[p]] = due[p]
        /\ \A o \in FileRequests : ~Touches(o, {p})

FilesInv == FilesTypeOK /\ InodeInv /\ AloneInv /\ DueInv

\* No request, and no file, has one of the two other names.
LEMMA Names ==
    /\ NoInode \notin Inodes /\ Directory \notin Inodes /\ NoInode # Directory
    /\ FileRequests \subseteq Inodes /\ Original \in Inodes /\ Original \notin FileRequests
BY DEF Inodes

\* What an answer does to the requests.
LEMMA AnswerFacts ==
    ASSUME FilesTypeOK, NEW r \in FileRequests, NEW pc \in {"ok", "error"}, Answer(r, pc)
    PROVE  /\ req' \in [FileRequests -> FileRequest]
           /\ req'[r].pc = pc /\ req'[r].fd = NoInode /\ ~Serving(r)'
           /\ \A o \in FileRequests \ {r} : req'[o] = req[o]
<1>1. 1 \in 1..MaxBlocks OBVIOUS
<1>2. NewRequest \in FileRequest BY <1>1 DEF NewRequest, FileRequest, Ops
<1>3. [NewRequest EXCEPT !.pc = pc] \in FileRequest BY <1>2 DEF FileRequest
<1>4. [NewRequest EXCEPT !.pc = pc].pc = pc /\ [NewRequest EXCEPT !.pc = pc].fd = NoInode
  BY DEF NewRequest
<1>5. req' = [req EXCEPT ![r] = [NewRequest EXCEPT !.pc = pc]] BY DEF Answer
<1>6. req'[r].pc = pc /\ req'[r].fd = NoInode /\ \A o \in FileRequests \ {r} : req'[o] = req[o]
  BY <1>4, <1>5 DEF FilesTypeOK
<1>7. QED BY <1>3, <1>5, <1>6 DEF FilesTypeOK, Serving

\* A request that is under way has nothing to do with what is due, and nothing with the
\* paths and the file of one that is alone.
LEMMA Apart ==
    ASSUME FilesInv, NEW r \in FileRequests, Serving(r)
    PROVE  /\ \A p \in FilePaths : due[p] # <<>> => p \notin Named(r) /\ dir[p] # req[r].fd
           /\ \A o \in FileRequests \ {r} : Serving(o) /\ req[o].alone =>
                  \A x \in Named(o) : x \notin Named(r) /\ (Exists(x) => dir[x] # req[r].fd)
<1>1. ASSUME NEW p \in FilePaths, due[p] # <<>> PROVE p \notin Named(r) /\ dir[p] # req[r].fd
  <2>1. dir[p] \in Inodes /\ ~Touches(r, {p}) BY <1>1 DEF FilesInv, DueInv
  <2>2. Exists(p) BY <2>1, Names DEF Exists
  <2>3. QED BY <2>1, <2>2 DEF Touches, Named
<1>2. ASSUME NEW o \in FileRequests \ {r}, Serving(o), req[o].alone, NEW x \in Named(o)
      PROVE  x \notin Named(r) /\ (Exists(x) => dir[x] # req[r].fd)
  <2>1. ~Touches(r, Named(o)) BY <1>2 DEF FilesInv, AloneInv
  <2>2. QED BY <1>2, <2>1 DEF Touches, Named
<1>3. QED BY <1>1, <1>2

\* An answer ends a request: the others are left alone by it, if their paths are, and so is
\* what is due.
LEMMA AnswerKeeps ==
    ASSUME FilesInv, NEW r \in FileRequests, NEW pc \in {"ok", "error"}, Answer(r, pc),
           dir' \in [FilePaths -> Inodes \cup {NoInode, Directory}],
           data' \in [Inodes -> Seq(Inodes)], due' \in [FilePaths -> Seq(Inodes)],
           \A p, q \in FilePaths : dir'[p] \in Inodes /\ dir'[p] = dir'[q] => p = q,
           \A p \in FilePaths : dir'[p] \in Inodes => \E q \in FilePaths : dir'[p] = dir[q],
           \A i \in Inodes : data'[i] # data[i] => Serving(r) /\ i = req[r].fd,
           \A p \in FilePaths : \/ dir'[p] = dir[p]
                                \/ dir[p] = NoInode /\ dir'[p] = Directory
                                \/ Serving(r) /\ p \in Named(r)
    PROVE  /\ FilesTypeOK' /\ InodeInv' /\ AloneInv'
           /\ \A p \in FilePaths : due[p] # <<>> =>
                  /\ dir'[p] \in Inodes /\ data'[dir'[p]] = due[p]
                  /\ \A o \in FileRequests : ~Touches(o, {p})'
<1>1. /\ req' \in [FileRequests -> FileRequest]
      /\ req'[r].pc = pc /\ req'[r].fd = NoInode /\ ~Serving(r)'
      /\ \A o \in FileRequests \ {r} : req'[o] = req[o]
  BY AnswerFacts DEF FilesInv
<1>2. FilesTypeOK' BY <1>1 DEF FilesTypeOK
<1>3. InodeInv'
  <2>1. \A s \in FileRequests : req'[s].pc \in {"new", "open"} =>
            /\ \A p \in FilePaths : dir'[p] # s
            /\ \A o \in FileRequests : req'[o].fd # s
    <3>1. SUFFICES ASSUME NEW s \in FileRequests, req'[s].pc \in {"new", "open"}
                   PROVE  /\ \A p \in FilePaths : dir'[p] # s
                          /\ \A o \in FileRequests : req'[o].fd # s
      OBVIOUS
    <3>2. s # r /\ req'[s] = req[s] BY <1>1, <3>1
    <3>3. \A p \in FilePaths : dir[p] # s BY <3>1, <3>2 DEF FilesInv, InodeInv
    <3>4. \A o \in FileRequests : req[o].fd # s BY <3>1, <3>2 DEF FilesInv, InodeInv
    <3>5. \A p \in FilePaths : dir'[p] # s BY <3>3, Names
    <3>6. \A o \in FileRequests : req'[o].fd # s BY <1>1, <3>4, Names
    <3>7. QED BY <3>5, <3>6
  <2>2. \A s \in FileRequests :
            IF req'[s].pc = "write" THEN req'[s].fd \in Inodes ELSE req'[s].fd = NoInode
    BY <1>1 DEF FilesInv, InodeInv
  <2>3. QED BY <2>1, <2>2 DEF InodeInv
<1>4. \A o \in FileRequests \ {r} : req[o].fd \in Inodes \cup {NoInode}
  BY DEF FilesInv, FilesTypeOK, FileRequest
<1>5. AloneInv'
  <2>1. SUFFICES ASSUME NEW o \in FileRequests, Serving(o)', req'[o].alone
                 PROVE  /\ \A s \in FileRequests \ {o} : ~Touches(s, Named(o))'
                        /\ req'[o].pc = "write" =>
                              dir'[req'[o].path] = req'[o].fd /\ data'[req'[o].fd] = <<>>
    BY DEF AloneInv, Named
  <2>2. o # r /\ req'[o] = req[o] /\ Serving(o) BY <1>1, <2>1 DEF Serving
  <2>3. Named(o)' = Named(o) /\ Named(o) \subseteq FilePaths
    BY <2>2 DEF Named, FilesInv, FilesTypeOK, FileRequest
  <2>4. \A s \in FileRequests \ {o} : ~Touches(s, Named(o)) BY <2>1, <2>2 DEF FilesInv, AloneInv
  <2>5. \A x \in Named(o) : dir'[x] = dir[x] \/ (dir[x] = NoInode /\ dir'[x] = Directory)
    BY <2>1, <2>2, <2>3, Apart
  <2>6. \A s \in FileRequests \ {o} : ~Touches(s, Named(o))'
    <3>1. SUFFICES ASSUME NEW s \in FileRequests \ {o}, Serving(s)'
                   PROVE  /\ {req'[s].path, req'[s].target} \cap Named(o) = {}
                          /\ \A x \in Named(o) : dir'[x] = NoInode \/ dir'[x] # req'[s].fd
      BY <2>3 DEF Touches, Exists
    <3>2. s # r /\ req'[s] = req[s] /\ Serving(s) BY <1>1, <3>1 DEF Serving
    <3>3. /\ {req[s].path, req[s].target} \cap Named(o) = {}
          /\ \A x \in Named(o) : dir[x] = NoInode \/ dir[x] # req[s].fd
      BY <2>4, <3>2 DEF Touches, Exists
    <3>4. req[s].fd # Directory BY <1>4, <3>2, Names
    <3>5. QED BY <2>5, <3>2, <3>3, <3>4
  <2>7. ASSUME req'[o].pc = "write"
        PROVE  dir'[req'[o].path] = req'[o].fd /\ data'[req'[o].fd] = <<>>
    <3>1. dir[req[o].path] = req[o].fd /\ data[req[o].fd] = <<>> /\ req[o].fd \in Inodes
      BY <2>1, <2>2, <2>7 DEF FilesInv, AloneInv, InodeInv
    <3>2. req[o].path \in Named(o) BY DEF Named
    <3>3. dir'[req[o].path] = req[o].fd BY <2>5, <3>1, <3>2, Names
    <3>4. Serving(r) => req[o].fd # req[r].fd
      BY <2>1, <2>2, <3>1, <3>2, Apart, Names DEF Exists
    <3>5. QED BY <2>2, <3>1, <3>3, <3>4
  <2>8. QED BY <2>6, <2>7
<1>6. ASSUME NEW p \in FilePaths, due[p] # <<>>
      PROVE  /\ dir'[p] \in Inodes /\ data'[dir'[p]] = due[p]
             /\ \A o \in FileRequests : ~Touches(o, {p})'
  <2>1. dir[p] \in Inodes /\ data[dir[p]] = due[p] /\ \A o \in FileRequests : ~Touches(o, {p})
    BY <1>6 DEF FilesInv, DueInv
  <2>2. Serving(r) => p \notin Named(r) /\ dir[p] # req[r].fd BY <1>6, Apart
  <2>3. dir'[p] = dir[p] BY <2>1, <2>2, Names
  <2>4. data'[dir[p]] = data[dir[p]] BY <2>1, <2>2
  <2>5. ASSUME NEW o \in FileRequests, Touches(o, {p})' PROVE FALSE
    <3>1. Serving(o)' BY <2>5 DEF Touches
    <3>2. o # r /\ req'[o] = req[o] BY <1>1, <3>1
    <3>3. Touches(o, {p}) BY <2>3, <2>5, <3>2 DEF Touches, Serving, Exists
    <3>4. QED BY <2>1, <3>3
  <2>6. QED BY <2>1, <2>3, <2>4, <2>5
<1>7. QED BY <1>2, <1>3, <1>5, <1>6

\* A directory takes a free path.
LEMMA MkdirStep == ASSUME FilesInv, NEW r \in FileRequests, NEW p \in FilePaths, Mkdir(r, p) PROVE FilesInv'
<1>1. PICK pc \in {"ok", "error"} : Answer(r, pc) BY DEF Mkdir
<1>2. data' = data /\ due' = due BY DEF Mkdir
<1>3. dir' = dir \/ (dir[p] = NoInode /\ dir' = [dir EXCEPT ![p] = Directory]) BY DEF Mkdir, Exists
<1>4. dir' \in [FilePaths -> Inodes \cup {NoInode, Directory}]
  BY <1>3 DEF FilesInv, FilesTypeOK
<1>5. \A q \in FilePaths : dir'[q] = dir[q] \/ (dir[q] = NoInode /\ dir'[q] = Directory)
  BY <1>3 DEF FilesInv, FilesTypeOK
<1>6. \A q \in FilePaths : dir'[q] \in Inodes => dir'[q] = dir[q] BY <1>5, Names
<1>7. \A q, s \in FilePaths : dir'[q] \in Inodes /\ dir'[q] = dir'[s] => q = s
  BY <1>6 DEF FilesInv, InodeInv
<1>8. /\ FilesTypeOK' /\ InodeInv' /\ AloneInv'
      /\ \A q \in FilePaths : due[q] # <<>> =>
             /\ dir'[q] \in Inodes /\ data'[dir'[q]] = due[q]
             /\ \A o \in FileRequests : ~Touches(o, {q})'
  <2>1. data' \in [Inodes -> Seq(Inodes)] /\ due' \in [FilePaths -> Seq(Inodes)]
    BY <1>2 DEF FilesInv, FilesTypeOK
  <2>2. QED BY <1>1, <1>2, <1>4, <1>5, <1>6, <1>7, <2>1, AnswerKeeps
<1>9. QED BY <1>2, <1>8 DEF FilesInv, DueInv

\* A rename moves a file, or fails.
LEMMA RenameStep == ASSUME FilesInv, NEW r \in FileRequests, Rename(r) PROVE FilesInv'
<1> DEFINE p == req[r].path
           q == req[r].target
<1>1. PICK pc \in {"ok", "error"} : Answer(r, pc) BY DEF Rename
<1>2. data' = data /\ due' = due /\ Serving(r) BY DEF Rename, Serving
<1>3. p \in FilePaths /\ q \in FilePaths /\ p \in Named(r) /\ q \in Named(r)
  BY DEF FilesInv, FilesTypeOK, FileRequest, Named
<1>4. dir' = dir \/ dir' = [dir EXCEPT ![q] = dir[p], ![p] = NoInode] BY DEF Rename
<1>5. dir' \in [FilePaths -> Inodes \cup {NoInode, Directory}]
  BY <1>3, <1>4 DEF FilesInv, FilesTypeOK
<1>6. \A s \in FilePaths : dir'[s] = dir[s] \/ s \in Named(r)
  BY <1>3, <1>4 DEF FilesInv, FilesTypeOK
<1>7. \A s \in FilePaths : dir'[s] \in Inodes => \E t \in FilePaths : dir'[s] = dir[t]
  BY <1>3, <1>4, Names DEF FilesInv, FilesTypeOK
<1>8. \A s, t \in FilePaths : dir'[s] \in Inodes /\ dir'[s] = dir'[t] => s = t
  <2>1. \A s, t \in FilePaths : dir[s] \in Inodes /\ dir[s] = dir[t] => s = t
    BY DEF FilesInv, InodeInv
  <2>2. CASE dir' = [dir EXCEPT ![q] = dir[p], ![p] = NoInode]
    <3>1. \A s \in FilePaths :
              dir'[s] = IF s = p THEN NoInode ELSE IF s = q THEN dir[p] ELSE dir[s]
      BY <1>3, <2>2 DEF FilesInv, FilesTypeOK
    <3>2. QED BY <1>3, <2>1, <3>1, Names
  <2>3. QED BY <1>4, <2>1, <2>2
<1>9. /\ FilesTypeOK' /\ InodeInv' /\ AloneInv'
      /\ \A s \in FilePaths : due[s] # <<>> =>
             /\ dir'[s] \in Inodes /\ data'[dir'[s]] = due[s]
             /\ \A o \in FileRequests : ~Touches(o, {s})'
  <2>1. data' \in [Inodes -> Seq(Inodes)] /\ due' \in [FilePaths -> Seq(Inodes)]
    BY <1>2 DEF FilesInv, FilesTypeOK
  <2>2. QED BY <1>1, <1>2, <1>5, <1>6, <1>7, <1>8, <2>1, AnswerKeeps
<1>10. QED BY <1>2, <1>9 DEF FilesInv, DueInv

\* A path is free after unlink.
LEMMA DeleteStep == ASSUME FilesInv, NEW r \in FileRequests, Delete(r) PROVE FilesInv'
<1> DEFINE p == req[r].path
<1>1. PICK pc \in {"ok", "error"} : Answer(r, pc) BY DEF Delete
<1>2. data' = data /\ due' = due /\ Serving(r) BY DEF Delete, Serving
<1>3. p \in FilePaths /\ p \in Named(r) BY DEF FilesInv, FilesTypeOK, FileRequest, Named
<1>4. dir' = dir \/ dir' = [dir EXCEPT ![p] = NoInode] BY DEF Delete
<1>5. dir' \in [FilePaths -> Inodes \cup {NoInode, Directory}]
  BY <1>3, <1>4 DEF FilesInv, FilesTypeOK
<1>6. \A s \in FilePaths : dir'[s] = dir[s] \/ (s \in Named(r) /\ dir'[s] = NoInode)
  BY <1>3, <1>4 DEF FilesInv, FilesTypeOK
<1>7. \A s \in FilePaths : dir'[s] \in Inodes => dir'[s] = dir[s] BY <1>6, Names
<1>8. \A s, t \in FilePaths : dir'[s] \in Inodes /\ dir'[s] = dir'[t] => s = t
  BY <1>7 DEF FilesInv, InodeInv
<1>9. /\ FilesTypeOK' /\ InodeInv' /\ AloneInv'
      /\ \A s \in FilePaths : due[s] # <<>> =>
             /\ dir'[s] \in Inodes /\ data'[dir'[s]] = due[s]
             /\ \A o \in FileRequests : ~Touches(o, {s})'
  <2>1. data' \in [Inodes -> Seq(Inodes)] /\ due' \in [FilePaths -> Seq(Inodes)]
    BY <1>2 DEF FilesInv, FilesTypeOK
  <2>2. QED BY <1>1, <1>2, <1>5, <1>6, <1>7, <1>8, <2>1, AnswerKeeps
<1>10. QED BY <1>2, <1>9 DEF FilesInv, DueInv

\* What Over writes: the file begins with the blocks of the body, and of an empty file these
\* are all.
LEMMA OverFacts ==
    ASSUME FilesTypeOK, NEW r \in FileRequests, req[r].fd \in Inodes, NEW blocks \in 0..MaxBlocks
    PROVE  /\ Over(r, blocks) \in Seq(Inodes)
           /\ data[req[r].fd] = <<>> => Over(r, blocks) = [i \in 1..blocks |-> r]
<1> DEFINE old == data[req[r].fd]
<1> DEFINE n == IF blocks > Len(old) THEN blocks ELSE Len(old)
<1>1. old \in Seq(Inodes) /\ Len(old) \in Nat /\ blocks \in Nat /\ r \in Inodes
  BY Names DEF FilesTypeOK
<1>2. n \in Nat BY <1>1
<1>3. \A i \in 1..n : ~(i <= blocks) => i \in 1..Len(old) BY <1>1
<1>4. \A i \in 1..n : (IF i <= blocks THEN r ELSE old[i]) \in Inodes BY <1>1, <1>3
<1>5. Over(r, blocks) = [i \in 1..n |-> IF i <= blocks THEN r ELSE old[i]] BY DEF Over
<1>6. Over(r, blocks) \in Seq(Inodes) BY <1>2, <1>4, <1>5
<1>7. ASSUME old = <<>> PROVE Over(r, blocks) = [i \in 1..blocks |-> r]
  <2>1. n = blocks BY <1>1, <1>7
  <2>2. QED BY <1>1, <1>5, <2>1
<1>8. QED BY <1>6, <1>7

\* What a request that is alone has written is due; what one that is not writes is in no
\* file that is due.
LEMMA WriteStep == ASSUME FilesInv, NEW r \in FileRequests, Write(r) PROVE FilesInv'
<1> DEFINE p == req[r].path
           fd == req[r].fd
           b == req[r].blocks
<1>1. PICK pc \in {"ok", "error"} : Answer(r, pc) BY DEF Write
<1>2. dir' = dir /\ Serving(r) /\ req[r].pc = "write" BY DEF Write, Serving
<1>3. p \in FilePaths /\ p \in Named(r) /\ b \in 1..MaxBlocks /\ fd \in Inodes
  BY <1>2 DEF FilesInv, FilesTypeOK, FileRequest, Named, InodeInv
<1>4. PICK k \in 0..MaxBlocks :
        /\ data' = [data EXCEPT ![fd] = Over(r, k)]
        /\ \/ /\ k = b
              /\ due' = IF dir[p] = fd /\ req[r].alone
                        THEN [due EXCEPT ![p] = [i \in 1..b |-> r]] ELSE due
           \/ due' = due
  <2>1. CASE /\ data' = [data EXCEPT ![fd] = Over(r, b)]
             /\ due' = IF dir[p] = fd /\ req[r].alone
                       THEN [due EXCEPT ![p] = [i \in 1..b |-> r]] ELSE due
    <3>1. b \in 0..MaxBlocks BY <1>3
    <3> HIDE DEF b
    <3>2. QED BY <2>1, <3>1
  <2>2. CASE (\E some \in 0..(b - 1) : data' = [data EXCEPT ![fd] = Over(r, some)]) /\ due' = due
    <3>1. \A some \in 0..(b - 1) : some \in 0..MaxBlocks BY <1>3
    <3>2. QED BY <2>2, <3>1
  <2>3. QED BY <2>1, <2>2 DEF Write
<1>5. /\ Over(r, k) \in Seq(Inodes)
      /\ data[fd] = <<>> => Over(r, k) = [i \in 1..k |-> r]
  BY <1>3, OverFacts DEF FilesInv
<1>6. data' \in [Inodes -> Seq(Inodes)] /\ \A i \in Inodes : data'[i] # data[i] => i = fd
  BY <1>3, <1>4, <1>5 DEF FilesInv, FilesTypeOK
<1>7. [i \in 1..b |-> r] \in Seq(Inodes)
  <2>1. r \in Inodes /\ b \in Nat BY <1>3, Names
  <2>2. QED BY <2>1
<1>8. due' \in [FilePaths -> Seq(Inodes)] BY <1>3, <1>4, <1>7 DEF FilesInv, FilesTypeOK
<1>9. /\ FilesTypeOK' /\ InodeInv' /\ AloneInv'
      /\ \A s \in FilePaths : due[s] # <<>> =>
             /\ dir'[s] \in Inodes /\ data'[dir'[s]] = due[s]
             /\ \A o \in FileRequests : ~Touches(o, {s})'
  <2>1. /\ dir' \in [FilePaths -> Inodes \cup {NoInode, Directory}]
        /\ \A s, t \in FilePaths : dir'[s] \in Inodes /\ dir'[s] = dir'[t] => s = t
        /\ \A s \in FilePaths : dir'[s] = dir[s]
    BY <1>2 DEF FilesInv, FilesTypeOK, InodeInv
  <2>2. QED BY <1>1, <1>2, <1>6, <1>8, <2>1, AnswerKeeps
<1>10. CASE due' = due BY <1>9, <1>10 DEF FilesInv, DueInv
<1>11. CASE /\ k = b /\ dir[p] = fd /\ req[r].alone
            /\ due' = [due EXCEPT ![p] = [i \in 1..b |-> r]]
  <2>1. data[fd] = <<>> /\ \A o \in FileRequests \ {r} : ~Touches(o, Named(r))
    BY <1>2, <1>11 DEF FilesInv, AloneInv
  <2>2. data'[fd] = [i \in 1..b |-> r] BY <1>3, <1>4, <1>5, <1>11, <2>1 DEF FilesInv, FilesTypeOK
  <2>3. /\ req'[r].pc = pc /\ ~Serving(r)'
        /\ \A o \in FileRequests \ {r} : req'[o] = req[o]
    BY <1>1, AnswerFacts DEF FilesInv
  <2>4. ASSUME NEW o \in FileRequests, NEW s \in FilePaths, s = p, Touches(o, {s})' PROVE FALSE
    <3>1. o # r /\ req'[o] = req[o] BY <2>3, <2>4 DEF Touches
    <3>2. Touches(o, {s}) BY <1>2, <2>4, <3>1 DEF Touches, Serving, Exists
    <3>3. Touches(o, Named(r)) BY <1>3, <2>4, <3>2 DEF Touches
    <3>4. QED BY <2>1, <3>1, <3>3
  <2>5. \A s \in FilePaths : due'[s] = IF s = p THEN [i \in 1..b |-> r] ELSE due[s]
    BY <1>3, <1>11 DEF FilesInv, FilesTypeOK
  <2>6. dir'[p] \in Inodes /\ data'[dir'[p]] = [i \in 1..b |-> r] BY <1>2, <1>3, <1>11, <2>2
  <2>7. DueInv'
    <3>1. SUFFICES ASSUME NEW s \in FilePaths, due'[s] # <<>>
                   PROVE  /\ dir'[s] \in Inodes /\ data'[dir'[s]] = due'[s]
                          /\ \A o \in FileRequests : ~Touches(o, {s})'
      BY DEF DueInv
    <3>2. CASE s = p
      <4>1. dir'[s] \in Inodes /\ data'[dir'[s]] = due'[s] BY <2>5, <2>6, <3>2
      <4>2. \A o \in FileRequests : ~Touches(o, {s})' BY <2>4, <3>2
      <4>3. QED BY <4>1, <4>2
    <3>3. CASE s # p BY <1>9, <2>5, <3>1, <3>3
    <3>4. QED BY <3>2, <3>3
  <2>8. QED BY <1>9, <2>7 DEF FilesInv
<1>12. QED BY <1>4, <1>10, <1>11

\* Opening a file empties it: one that is not due, or a new one.
LEMMA OpenStep == ASSUME FilesInv, NEW r \in FileRequests, Open(r) PROVE FilesInv'
<1> DEFINE p == req[r].path
           inode == IF Exists(p) THEN dir[p] ELSE r
<1>1. due' = due /\ Serving(r) /\ req[r].pc = "open" BY DEF Open, Serving
<1>2. p \in FilePaths /\ p \in Named(r) BY DEF FilesInv, FilesTypeOK, FileRequest, Named
<1>3. CASE dir[p] = Directory
  <2>1. Answer(r, "error") /\ dir' = dir /\ data' = data BY <1>3 DEF Open
  <2>2. /\ FilesTypeOK' /\ InodeInv' /\ AloneInv'
        /\ \A s \in FilePaths : due[s] # <<>> =>
               /\ dir'[s] \in Inodes /\ data'[dir'[s]] = due[s]
               /\ \A o \in FileRequests : ~Touches(o, {s})'
    <3>1. /\ dir' \in [FilePaths -> Inodes \cup {NoInode, Directory}]
          /\ data' \in [Inodes -> Seq(Inodes)] /\ due' \in [FilePaths -> Seq(Inodes)]
          /\ \A s, t \in FilePaths : dir'[s] \in Inodes /\ dir'[s] = dir'[t] => s = t
          /\ \A s \in FilePaths : dir'[s] = dir[s]
      BY <1>1, <2>1 DEF FilesInv, FilesTypeOK, InodeInv
    <3>2. QED BY <2>1, <3>1, AnswerKeeps
  <2>3. QED BY <1>1, <2>2 DEF FilesInv, DueInv
<1>4. CASE dir[p] # Directory
  <2>1. /\ dir' = [dir EXCEPT ![p] = inode]
        /\ data' = [data EXCEPT ![inode] = <<>>]
        /\ req' = [req EXCEPT ![r].pc = "write", ![r].fd = inode]
    BY <1>4 DEF Open
  <2>2. inode \in Inodes
    BY <1>2, <1>4, Names DEF FilesInv, FilesTypeOK, Exists
  <2>3. /\ \A q \in FilePaths : q # p => dir[q] # inode
        /\ Exists(p) => dir[p] = inode
        /\ \A o \in FileRequests : ~Exists(p) => req[o].fd # inode
    BY <1>1, <1>2, <2>2 DEF FilesInv, InodeInv, Exists
  <2> HIDE DEF inode
  <2>4. \A q \in FilePaths : dir'[q] = IF q = p THEN inode ELSE dir[q]
    BY <1>2, <2>1 DEF FilesInv, FilesTypeOK
  <2>5. \A i \in Inodes : data'[i] = IF i = inode THEN <<>> ELSE data[i]
    BY <2>1, <2>2 DEF FilesInv, FilesTypeOK
  <2>6. /\ req' \in [FileRequests -> FileRequest]
        /\ \A o \in FileRequests \ {r} : req'[o] = req[o]
        /\ req'[r].pc = "write" /\ req'[r].fd = inode /\ req'[r].alone = req[r].alone
        /\ req'[r].path = p /\ req'[r].target = req[r].target
    <3>1. req \in [FileRequests -> FileRequest] BY DEF FilesInv, FilesTypeOK
    <3>2. req[r] \in FileRequest BY <3>1
    <3>3. [req[r] EXCEPT !.pc = "write", !.fd = inode] \in FileRequest
      BY <2>2, <3>2 DEF FileRequest
    <3>4. req' = [req EXCEPT ![r] = [req[r] EXCEPT !.pc = "write", !.fd = inode]]
      BY <2>1, <3>1, <3>2 DEF FileRequest
    <3>5. req'[r] = [req[r] EXCEPT !.pc = "write", !.fd = inode] BY <3>1, <3>4
    <3>6. req' \in [FileRequests -> FileRequest]
          /\ \A o \in FileRequests \ {r} : req'[o] = req[o]
      BY <3>1, <3>3, <3>4
    <3>7. QED BY <3>2, <3>5, <3>6 DEF FileRequest
  <2>7. FilesTypeOK'
    <3>1. dir' \in [FilePaths -> Inodes \cup {NoInode, Directory}]
      BY <1>2, <2>1, <2>2 DEF FilesInv, FilesTypeOK
    <3>2. data' \in [Inodes -> Seq(Inodes)] BY <2>1, <2>2 DEF FilesInv, FilesTypeOK
    <3>3. QED BY <1>1, <2>6, <3>1, <3>2 DEF FilesInv, FilesTypeOK
  <2>8. InodeInv'
    <3>1. \A s, t \in FilePaths : dir'[s] \in Inodes /\ dir'[s] = dir'[t] => s = t
      BY <2>3, <2>4 DEF FilesInv, InodeInv
    <3>2. \A s \in FileRequests : req'[s].pc \in {"new", "open"} =>
              /\ \A q \in FilePaths : dir'[q] # s
              /\ \A o \in FileRequests : req'[o].fd # s
      <4>1. SUFFICES ASSUME NEW s \in FileRequests, req'[s].pc \in {"new", "open"}
                     PROVE  /\ \A q \in FilePaths : dir'[q] # s
                            /\ \A o \in FileRequests : req'[o].fd # s
        OBVIOUS
      <4>2. s # r /\ req'[s] = req[s] BY <2>6, <4>1
      <4>3. (\A q \in FilePaths : dir[q] # s) /\ (\A o \in FileRequests : req[o].fd # s)
        BY <4>1, <4>2 DEF FilesInv, InodeInv
      <4>4. inode # s BY <1>2, <4>2, <4>3 DEF inode
      <4>5. QED BY <2>4, <2>6, <4>3, <4>4
    <3>3. \A s \in FileRequests :
              IF req'[s].pc = "write" THEN req'[s].fd \in Inodes ELSE req'[s].fd = NoInode
      BY <2>2, <2>6 DEF FilesInv, InodeInv
    <3>4. QED BY <3>1, <3>2, <3>3 DEF InodeInv
  <2>9. AloneInv'
    <3>1. SUFFICES ASSUME NEW o \in FileRequests, Serving(o)', req'[o].alone
                   PROVE  /\ \A s \in FileRequests \ {o} : ~Touches(s, Named(o))'
                          /\ req'[o].pc = "write" =>
                                dir'[req'[o].path] = req'[o].fd /\ data'[req'[o].fd] = <<>>
      BY DEF AloneInv, Named
    <3>2. Serving(o) /\ req[o].alone /\ Named(o)' = Named(o) /\ Named(o) \subseteq FilePaths
      <4>1. CASE o = r BY <1>1, <2>6, <3>1, <4>1 DEF Named, FilesInv, FilesTypeOK, FileRequest
      <4>2. CASE o # r
        BY <2>6, <3>1, <4>2 DEF Serving, Named, FilesInv, FilesTypeOK, FileRequest
      <4>3. QED BY <4>1, <4>2
    <3>3. \A s \in FileRequests \ {o} : ~Touches(s, Named(o)) BY <3>2 DEF FilesInv, AloneInv
    <3>4. \A s \in FileRequests \ {o} : ~Touches(s, Named(o))'
      <4>1. SUFFICES ASSUME NEW s \in FileRequests \ {o}, Serving(s)'
                     PROVE  /\ {req'[s].path, req'[s].target} \cap Named(o) = {}
                            /\ \A x \in Named(o) : dir'[x] = NoInode \/ dir'[x] # req'[s].fd
        BY <3>2 DEF Touches, Exists
      <4>2. Serving(s) /\ req'[s].path = req[s].path /\ req'[s].target = req[s].target
        BY <1>1, <2>6, <4>1 DEF Serving
      <4>3. /\ {req[s].path, req[s].target} \cap Named(o) = {}
            /\ \A x \in Named(o) : dir[x] = NoInode \/ dir[x] # req[s].fd
        BY <3>3, <4>2 DEF Touches, Exists
      <4>4. CASE s = r
        <5>1. \A x \in Named(o) : x # p BY <4>2, <4>3, <4>4
        <5>2. \A x \in Named(o) : dir'[x] # inode BY <2>3, <2>4, <3>2, <5>1
        <5>3. QED BY <2>6, <4>2, <4>3, <4>4, <5>2
      <4>5. CASE s # r
        <5>1. req'[s] = req[s] BY <2>6, <4>5
        <5>2. ASSUME p \in Named(o) PROVE req[s].fd # inode
          <6>1. Exists(p) => dir[p] # req[s].fd BY <4>3, <5>2 DEF Exists
          <6>2. QED BY <2>3, <6>1
        <5>3. QED BY <2>4, <3>2, <4>2, <4>3, <5>1, <5>2
      <4>6. QED BY <4>4, <4>5
    <3>5. ASSUME req'[o].pc = "write"
          PROVE  dir'[req'[o].path] = req'[o].fd /\ data'[req'[o].fd] = <<>>
      <4>1. CASE o = r BY <1>2, <2>2, <2>4, <2>5, <2>6, <4>1
      <4>2. CASE o # r
        <5>1. req'[o] = req[o] BY <2>6, <4>2
        <5>2. dir[req[o].path] = req[o].fd /\ data[req[o].fd] = <<>> /\ req[o].fd \in Inodes
          BY <3>2, <3>5, <5>1 DEF FilesInv, AloneInv, InodeInv
        <5>3. req[o].path \in Named(o) BY DEF Named
        <5>4. req[o].path # p BY <1>1, <1>2, <3>2, <4>2, <5>3, Apart
        <5>5. QED BY <2>4, <2>5, <3>2, <5>1, <5>2, <5>3, <5>4
      <4>3. QED BY <4>1, <4>2
    <3>6. QED BY <3>4, <3>5
  <2>10. DueInv'
    <3>1. SUFFICES ASSUME NEW s \in FilePaths, due[s] # <<>>
                   PROVE  /\ dir'[s] \in Inodes /\ data'[dir'[s]] = due[s]
                          /\ \A o \in FileRequests : ~Touches(o, {s})'
      BY <1>1 DEF DueInv
    <3>2. dir[s] \in Inodes /\ data[dir[s]] = due[s] /\ \A o \in FileRequests : ~Touches(o, {s})
      BY <3>1 DEF FilesInv, DueInv
    <3>3. s # p BY <1>1, <1>2, <3>1, Apart
    <3>4. dir'[s] = dir[s] /\ dir[s] # inode BY <2>3, <2>4, <3>3
    <3>5. ASSUME NEW o \in FileRequests, Touches(o, {s})' PROVE FALSE
      <4>1. CASE o # r
        <5>1. req'[o] = req[o] BY <2>6, <4>1
        <5>2. Touches(o, {s}) BY <3>4, <3>5, <5>1 DEF Touches, Serving, Exists
        <5>3. QED BY <3>2, <5>2
      <4>2. CASE o = r
        <5>1. {req[r].path, req[r].target} \cap {s} # {} BY <2>6, <3>4, <3>5, <4>2 DEF Touches
        <5>2. QED BY <1>1, <3>1, <5>1, Apart DEF Named
      <4>3. QED BY <4>1, <4>2
    <3>6. QED BY <2>5, <3>2, <3>4, <3>5
  <2>11. QED BY <2>7, <2>8, <2>9, <2>10 DEF FilesInv
<1>5. QED BY <1>3, <1>4

\* A request begins where nothing is due, or what was is due no longer.
LEMMA BeginStep ==
    ASSUME FilesInv, NEW r \in FileRequests, NEW op \in Ops, NEW p \in FilePaths,
           NEW q \in FilePaths, NEW blocks \in 1..MaxBlocks, Begin(r, op, p, q, blocks)
    PROVE  FilesInv'
<1> DEFINE pc == FirstStep(op, p, q)
<1> DEFINE alone == \A o \in FileRequests : ~Touches(o, {p, q})
<1> DEFINE still(o) == req[o].alone /\ ~Touches(o, {p, q})
<1>1. dir' = dir /\ data' = data /\ req[r].pc = "new" /\ ~Serving(r) BY DEF Begin, Serving
<1>2. /\ pc \in {"open", "rename", "delete", "error"}
      /\ pc = "error" \/ (op = "upload" /\ ~Exists(p)) \/ op \in {"text", "rename", "delete"}
      /\ pc # "error" /\ p # q => ~Exists(q)
  <2>1. (op = "rename") = (p # q) BY DEF Begin
  <2>2. CASE op = "rename" BY <2>2 DEF FirstStep, Renamable
  <2>3. CASE op # "rename" BY <2>1, <2>3 DEF FirstStep, Uploadable
  <2>4. QED BY <2>2, <2>3
<1>3. /\ req'[r] = [pc |-> pc, op |-> op, path |-> p, target |-> q, blocks |-> blocks,
                    fd |-> NoInode, alone |-> alone]
      /\ \A o \in FileRequests \ {r} : req'[o] = [req[o] EXCEPT !.alone = still(o)]
  BY DEF Begin
<1>4. due' = IF op \in {"text", "rename", "delete"} /\ pc # "error"
             THEN [due EXCEPT ![p] = <<>>] ELSE due
  BY DEF Begin
<1>5. alone \in BOOLEAN /\ \A o \in FileRequests : still(o) \in BOOLEAN
  <2>1. alone \in BOOLEAN OBVIOUS
  <2>2. ASSUME NEW o \in FileRequests PROVE still(o) \in BOOLEAN OBVIOUS
  <2>3. QED BY <2>1, <2>2
<1> HIDE DEF pc, alone, still
<1>6. /\ req'[r].pc = pc /\ req'[r].path = p /\ req'[r].target = q
      /\ req'[r].fd = NoInode /\ req'[r].alone = alone
      /\ \A o \in FileRequests \ {r} :
             /\ req'[o].pc = req[o].pc /\ req'[o].path = req[o].path
             /\ req'[o].target = req[o].target /\ req'[o].fd = req[o].fd
             /\ req'[o].alone = still(o)
  <2>1. ASSUME NEW o \in FileRequests \ {r}
        PROVE  /\ req'[o].pc = req[o].pc /\ req'[o].path = req[o].path
               /\ req'[o].target = req[o].target /\ req'[o].fd = req[o].fd
               /\ req'[o].alone = still(o)
    <3>1. req'[o] = [req[o] EXCEPT !.alone = still(o)] /\ req[o] \in FileRequest
      BY <1>3 DEF FilesInv, FilesTypeOK
    <3>2. QED BY <3>1 DEF FileRequest
  <2>2. QED BY <1>3, <2>1
<1>7. FilesTypeOK'
  <2>1. req'[r] \in FileRequest BY <1>2, <1>3, <1>5 DEF FileRequest
  <2>2. ASSUME NEW o \in FileRequests \ {r} PROVE req'[o] \in FileRequest
    <3>1. /\ req'[o] = [req[o] EXCEPT !.alone = still(o)] /\ req[o] \in FileRequest
          /\ still(o) \in BOOLEAN
      BY <1>3, <1>5 DEF FilesInv, FilesTypeOK
    <3>2. QED BY <3>1 DEF FileRequest
  <2>3. DOMAIN req' = FileRequests /\ req' = [o \in DOMAIN req' |-> req'[o]] BY DEF Begin
  <2>4. req' \in [FileRequests -> FileRequest] BY <2>1, <2>2, <2>3
  <2>5. due' \in [FilePaths -> Seq(Inodes)] BY <1>4 DEF FilesInv, FilesTypeOK
  <2>6. QED BY <1>1, <2>4, <2>5 DEF FilesInv, FilesTypeOK
<1>8. InodeInv'
  <2>1. \A s, t \in FilePaths : dir'[s] \in Inodes /\ dir'[s] = dir'[t] => s = t
    BY <1>1 DEF FilesInv, InodeInv
  <2>2. \A s \in FileRequests : req'[s].pc \in {"new", "open"} => req[s].pc \in {"new", "open"}
    BY <1>1, <1>6
  <2>3. \A o \in FileRequests : req'[o].fd = req[o].fd
    BY <1>1, <1>6 DEF FilesInv, InodeInv
  <2>4. \A s \in FileRequests : req'[s].pc = "write" <=> req[s].pc = "write"
    BY <1>1, <1>2, <1>6
  <2>5. QED BY <1>1, <2>1, <2>2, <2>3, <2>4 DEF FilesInv, InodeInv
<1>9. \A o \in FileRequests \ {r} : Serving(o)' = Serving(o) /\ Named(o)' = Named(o)
  BY <1>6 DEF Serving, Named
<1>10. \A o \in FileRequests : Named(o) \subseteq FilePaths
  BY DEF Named, FilesInv, FilesTypeOK, FileRequest
<1>11. Named(r)' = {p, q} BY <1>6 DEF Named
<1>12. AloneInv'
  <2>1. SUFFICES ASSUME NEW o \in FileRequests, Serving(o)', req'[o].alone
                 PROVE  /\ \A s \in FileRequests \ {o} : ~Touches(s, Named(o))'
                        /\ req'[o].pc = "write" =>
                              dir'[req'[o].path] = req'[o].fd /\ data'[req'[o].fd] = <<>>
    BY DEF AloneInv, Named
  <2>2. CASE o = r
    <3>1. pc # "write" BY <1>2
    <3>2. \A s \in FileRequests : ~Touches(s, {p, q}) BY <1>6, <2>1, <2>2 DEF alone
    <3>3. ASSUME NEW s \in FileRequests \ {o}, Touches(s, Named(o))' PROVE FALSE
      <4>1. /\ Serving(s)
            /\ \/ {req[s].path, req[s].target} \cap {p, q} # {}
               \/ \E x \in {p, q} : dir[x] # NoInode /\ dir[x] = req[s].fd
        BY <1>1, <1>6, <1>9, <1>11, <2>2, <3>3 DEF Touches, Exists
      <4>2. Touches(s, {p, q}) BY <4>1 DEF Touches, Exists
      <4>3. QED BY <3>2, <4>2
    <3>4. QED BY <1>6, <2>2, <3>1, <3>3
  <2>3. CASE o # r
    <3>1. /\ Serving(o) /\ req[o].alone /\ Named(o)' = Named(o)
          /\ ~Touches(o, {p, q})
      BY <1>6, <1>9, <2>1, <2>3 DEF still
    <3>2. /\ \A s \in FileRequests \ {o} : ~Touches(s, Named(o))
          /\ req[o].pc = "write" => dir[req[o].path] = req[o].fd /\ data[req[o].fd] = <<>>
      BY <3>1 DEF FilesInv, AloneInv
    <3>3. ASSUME NEW s \in FileRequests \ {o}, Touches(s, Named(o))' PROVE FALSE
      <4>1. CASE s = r
        <5>1. \A x \in Named(o) : dir'[x] # NoInode => dir'[x] # req'[s].fd BY <1>6, <4>1
        <5>2. {p, q} \cap Named(o) # {} BY <1>6, <3>1, <3>3, <4>1, <5>1 DEF Touches, Exists
        <5>3. QED BY <3>1, <5>2 DEF Touches, Named
      <4>2. CASE s # r
        <5>1. /\ Serving(s)
              /\ \/ {req[s].path, req[s].target} \cap Named(o) # {}
                 \/ \E x \in Named(o) : dir[x] # NoInode /\ dir[x] = req[s].fd
          BY <1>1, <1>6, <1>9, <3>1, <3>3, <4>2 DEF Touches, Exists
        <5>2. QED BY <3>2, <5>1 DEF Touches, Exists
      <4>3. QED BY <4>1, <4>2
    <3>4. QED BY <1>1, <1>6, <2>3, <3>2, <3>3
  <2>4. QED BY <2>2, <2>3
<1>13. DueInv'
  <2>1. SUFFICES ASSUME NEW s \in FilePaths, due'[s] # <<>>
                 PROVE  /\ dir[s] \in Inodes /\ data[dir[s]] = due'[s]
                        /\ \A o \in FileRequests : ~Touches(o, {s})'
    BY <1>1 DEF DueInv
  <2>2. due'[s] = due[s] /\ ~(op \in {"text", "rename", "delete"} /\ pc # "error" /\ s = p)
    BY <1>4, <2>1 DEF FilesInv, FilesTypeOK
  <2>3. dir[s] \in Inodes /\ data[dir[s]] = due[s] /\ \A o \in FileRequests : ~Touches(o, {s})
    BY <2>1, <2>2 DEF FilesInv, DueInv
  <2>4. Exists(s) BY <2>3, Names DEF Exists
  <2>5. pc = "error" \/ s \notin {p, q} BY <1>2, <2>2, <2>4
  <2>6. ASSUME NEW o \in FileRequests, Touches(o, {s})' PROVE FALSE
    <3>1. CASE o = r
      <4>1. pc # "error" /\ {p, q} \cap {s} # {}
        BY <1>6, <2>6, <3>1 DEF Touches, Serving, Exists
      <4>2. QED BY <2>5, <4>1
    <3>2. CASE o # r
      <4>1. Touches(o, {s}) BY <1>1, <1>6, <1>9, <2>6, <3>2 DEF Touches, Exists
      <4>2. QED BY <2>3, <4>1
    <3>3. QED BY <3>1, <3>2
  <2>7. QED BY <2>2, <2>3, <2>6
<1>14. QED BY <1>7, <1>8, <1>12, <1>13 DEF FilesInv

\* The one file of the start is due, and no request is under way.
LEMMA FilesStart == FilesInit => FilesInv
<1>1. SUFFICES ASSUME FilesInit PROVE FilesInv OBVIOUS
<1>2. NewRequest \in FileRequest
  <2>1. 1 \in 1..MaxBlocks OBVIOUS
  <2>2. QED BY <2>1 DEF NewRequest, FileRequest, Ops
<1>3. <<>> \in Seq(Inodes) /\ <<Original>> \in Seq(Inodes) BY Names
<1>4. FilesTypeOK BY <1>1, <1>2, <1>3, Names DEF FilesInit, FilesTypeOK
<1>5. \A r \in FileRequests : req[r].pc = "new" /\ req[r].fd = NoInode
  BY <1>1 DEF FilesInit, NewRequest
<1>6. \A p \in FilePaths : dir[p] = IF p = OldPath THEN Original ELSE NoInode
  BY <1>1 DEF FilesInit
<1>7. InodeInv BY <1>5, <1>6, Names DEF InodeInv
<1>8. \A r \in FileRequests : ~Serving(r) BY <1>5 DEF Serving
<1>9. AloneInv BY <1>8 DEF AloneInv
<1>10. DueInv
  <2>1. \A p \in FilePaths : due[p] # <<>> => p = OldPath /\ due[p] = <<Original>>
    BY <1>1 DEF FilesInit
  <2>2. data[Original] = <<Original>> BY <1>1, Names DEF FilesInit
  <2>3. QED BY <1>6, <1>8, <2>1, <2>2, Names DEF DueInv, Touches
<1>11. QED BY <1>4, <1>7, <1>9, <1>10 DEF FilesInv

\* Every step keeps the invariant.
LEMMA FilesKeep == FilesInv /\ [FilesNext]_filesVars => FilesInv'
<1>1. CASE UNCHANGED filesVars
  BY <1>1 DEF filesVars, FilesInv, FilesTypeOK, InodeInv, AloneInv, DueInv, Named, Touches,
     Serving, Exists
<1>2. QED
  BY <1>1, BeginStep, MkdirStep, OpenStep, WriteStep, RenameStep, DeleteStep DEF FilesNext

\* The invariant holds of every behaviour of the file manager's requests.
THEOREM FilesInvariant == FilesSpec => []FilesInv
BY FilesStart, FilesKeep, PTL DEF FilesSpec

\* For any number of requests and paths, the variables keep their types.
THEOREM FilesTypes == FilesSpec => []FilesTypeOK
<1>1. FilesInv => FilesTypeOK BY DEF FilesInv
<1>2. QED BY <1>1, FilesInvariant, PTL

\* For any number of requests, paths and blocks, and without a lock: no upload, no rename
\* onto a path and no request that fails takes away a file that was there or that was
\* written with no other request under way.
THEOREM FilesDueIsKept == FilesSpec => []DueIsKept
<1>1. FilesInv => DueIsKept BY DEF FilesInv, DueInv, DueIsKept
<1>2. QED BY <1>1, FilesInvariant, PTL

HIDE FilesAssumption

-----------------------------------------------------------------------------
(* The repairs. *)

USE ActionsAssumption

-----------------------------------------------------------------------------
(* The types. *)

\* A request that moves on or ends keeps its type.
LEMMA MoveType ==
    ASSUME repair \in [Repairs -> Repair], NEW r \in Repairs, NEW new \in Repair
    PROVE  [repair EXCEPT ![r] = new] \in [Repairs -> Repair]
OBVIOUS

\* A repair that ends keeps the type.
LEMMA FinishType ==
    ASSUME repair \in [Repairs -> Repair], NEW r \in Repairs, Finish(r)
    PROVE  /\ repair' \in [Repairs -> Repair]
           /\ repair'[r] = [NewRepair EXCEPT !.pc = "done"] /\ repair'[r].pc = "done"
           /\ \A other \in Repairs \ {r} : repair'[other] = repair[other]
<1>1. [NewRepair EXCEPT !.pc = "done"] \in Repair BY DEF NewRepair, Repair
<1>2. QED BY <1>1, MoveType DEF Finish, NewRepair

\* The steps of the plugin repair keep the types.
LEMMA PluginTypes ==
    ASSUME ActionsTypeOK, NEW r \in Repairs,
           \/ \E wanted \in {{p} : p \in Plugins} \cup {Plugins}, restart \in BOOLEAN :
                  AskPlugins(r, wanted, restart)
           \/ \E p \in Plugins : Look(r, p)
           \/ OpenTarget(r) \/ Copied(r) \/ CopyFails(r) \/ AllLooked(r) \/ RestartDaemon(r)
    PROVE  ActionsTypeOK'
<1>t. /\ repair \in [Repairs -> Repair] /\ repair[r] \in Repair /\ loaded \subseteq Plugins
      /\ reported \subseteq Plugins /\ repair[r].wanted \subseteq Plugins
      /\ installed \in [Plugins -> {"none", "partial", "whole"}]
      /\ rows \in [ApiTokens -> Nat] /\ raced \in [ApiTokens -> Nat]
  BY DEF ActionsTypeOK, Repair
<1>1. ASSUME NEW wanted \in SUBSET Plugins, NEW restart \in BOOLEAN, AskPlugins(r, wanted, restart)
      PROVE  ActionsTypeOK'
  <2>1. [NewRepair EXCEPT !.pc = "look", !.wanted = wanted, !.left = wanted, !.restart = restart]
            \in Repair
    BY DEF NewRepair, Repair
  <2>2. repair' \in [Repairs -> Repair] BY <1>1, <1>t, <2>1, MoveType, FinishType DEF AskPlugins
  <2>3. QED BY <1>1, <1>t, <2>2 DEF AskPlugins, ActionsTypeOK
<1>2. ASSUME NEW p \in Plugins, Look(r, p) PROVE ActionsTypeOK'
  <2>1. CASE installed[p] = "none" /\ p \in Cached
    <3>1. [repair[r] EXCEPT !.left = @ \ {p}, !.pc = "open", !.copying = {p}] \in Repair
      BY <1>t DEF Repair
    <3>2. repair' = [repair EXCEPT ![r] =
                        [repair[r] EXCEPT !.left = @ \ {p}, !.pc = "open", !.copying = {p}]]
      BY <1>2, <2>1, <1>t DEF Look
    <3>3. repair' \in [Repairs -> Repair] BY <3>1, <3>2, <1>t, MoveType
    <3>4. QED BY <1>2, <2>1, <3>3, <1>t DEF Look, ActionsTypeOK
  <2>2. CASE ~(installed[p] = "none" /\ p \in Cached)
    <3>1. repair[r].missing \in BOOLEAN BY <1>t, Zenon DEF Repair
    <3>2. (repair[r].missing \/ installed[p] = "none") \in BOOLEAN BY Zenon
    <3> DEFINE missing == repair[r].missing \/ installed[p] = "none"
    <3>3. repair' = [repair EXCEPT ![r] = [repair[r] EXCEPT !.left = @ \ {p}, !.missing = missing]]
      BY <1>2, <2>2, <1>t DEF Look
    <3> HIDE DEF missing
    <3>4. [repair[r] EXCEPT !.left = @ \ {p}, !.missing = missing] \in Repair
      BY <3>2, <1>t DEF Repair, missing
    <3>5. repair' \in [Repairs -> Repair] BY <3>3, <3>4, <1>t, MoveType
    <3>6. QED BY <1>2, <2>2, <3>5, <1>t DEF Look, ActionsTypeOK
  <2>3. QED BY <2>1, <2>2
<1>o. CASE OpenTarget(r)
  <2>1. \A q \in Repairs : [repair[q] EXCEPT !.pc = "copy"] \in Repair
                           /\ [repair[q] EXCEPT !.cut = TRUE] \in Repair
    BY <1>t DEF Repair
  <2>2. repair' \in [Repairs -> Repair] BY <1>o, <2>1, <1>t DEF OpenTarget
  <2>3. installed' \in [Plugins -> {"none", "partial", "whole"}] BY <1>o, <1>t DEF OpenTarget
  <2>4. QED BY <1>o, <2>2, <2>3, <1>t DEF OpenTarget, ActionsTypeOK
<1>p. Filled(r) \in [Plugins -> {"none", "partial", "whole"}] BY <1>t DEF Filled
<1>3. CASE Copied(r)
  <2> DEFINE new == [repair[r] EXCEPT !.pc = "look", !.copying = {}, !.cut = FALSE, !.copied = TRUE]
  <2>1. new \in Repair BY <1>t DEF Repair
  <2>2. repair' = [repair EXCEPT ![r] = new] BY <1>3, <1>t DEF Copied
  <2> HIDE DEF new
  <2>3. repair' \in [Repairs -> Repair] BY <2>1, <2>2, <1>t, MoveType
  <2>4. installed' \in [Plugins -> {"none", "partial", "whole"}] BY <1>3, <1>t, <1>p DEF Copied
  <2>5. QED BY <1>3, <2>3, <2>4, <1>t DEF Copied, ActionsTypeOK
<1>4. CASE CopyFails(r)
  <2>1. repair' \in [Repairs -> Repair] BY <1>4, <1>t, FinishType DEF CopyFails
  <2>2. installed' \in [Plugins -> {"none", "partial", "whole"}] BY <1>4, <1>t, <1>p DEF CopyFails
  <2>3. reported' \subseteq Plugins BY <1>4, <1>t DEF CopyFails, Report
  <2>4. QED BY <1>4, <2>1, <2>2, <2>3, <1>t DEF CopyFails, ActionsTypeOK
<1>a. ASSUME NEW restarted \in BOOLEAN, AnswerPlugins(r, restarted)
      PROVE  repair' \in [Repairs -> Repair] /\ reported' \subseteq Plugins
  <2>1. Finish(r) BY <1>a DEF AnswerPlugins
  <2>2. reported' \subseteq reported \cup repair[r].wanted BY <1>a DEF AnswerPlugins, Report
  <2>3. QED BY <2>1, <2>2, <1>t, FinishType
<1>5. CASE AllLooked(r)
  <2>1. CASE repair[r].copied /\ repair[r].restart
    <3>1. repair' = [repair EXCEPT ![r] = [repair[r] EXCEPT !.pc = "restart"]] /\ UNCHANGED reported
      BY <1>5, <2>1, <1>t DEF AllLooked
    <3>2. [repair[r] EXCEPT !.pc = "restart"] \in Repair BY <1>t DEF Repair
    <3>3. repair' \in [Repairs -> Repair] BY <3>1, <3>2, <1>t, MoveType
    <3>4. QED BY <1>5, <3>1, <3>3, <1>t DEF AllLooked, ActionsTypeOK
  <2>2. CASE ~(repair[r].copied /\ repair[r].restart)
    <3>1. AnswerPlugins(r, TRUE) BY <1>5, <2>2 DEF AllLooked
    <3>2. QED BY <1>5, <3>1, <1>a, <1>t DEF AllLooked, ActionsTypeOK
  <2>3. QED BY <2>1, <2>2
<1>6. CASE RestartDaemon(r)
  <2>1. AnswerPlugins(r, TRUE) \/ AnswerPlugins(r, FALSE) BY <1>6 DEF RestartDaemon
  <2>2. loaded' \subseteq Plugins BY <1>6, <1>t DEF RestartDaemon, Loadable
  <2>3. QED BY <1>6, <2>1, <2>2, <1>a, <1>t DEF RestartDaemon, ActionsTypeOK
<1>7. QED BY <1>1, <1>2, <1>o, <1>3, <1>4, <1>5, <1>6

\* The steps of the token repair keep the types.
LEMMA TokenTypes ==
    ASSUME ActionsTypeOK, NEW r \in Repairs,
           (\E t \in ApiTokens : ReadToken(r, t)) \/ Insert(r) \/ LateInsert(r)
    PROVE  ActionsTypeOK'
<1>t. repair \in [Repairs -> Repair] /\ repair[r] \in Repair /\ rows \in [ApiTokens -> Nat]
  BY DEF ActionsTypeOK
<1>r. ASSUME Inserted(r) PROVE rows' \in [ApiTokens -> Nat] BY <1>r, <1>t DEF Inserted
<1>1. ASSUME NEW t \in ApiTokens, ReadToken(r, t) PROVE ActionsTypeOK'
  <2>1. CASE TokenExists(t)
    <3>1. repair' \in [Repairs -> Repair] BY <1>1, <2>1, <1>t, FinishType DEF ReadToken
    <3>2. QED BY <1>1, <2>1, <3>1 DEF ReadToken, ActionsTypeOK
  <2>2. CASE ~TokenExists(t)
    <3>1. repair' = [repair EXCEPT ![r] = [repair[r] EXCEPT !.pc = "insert", !.token = {t}]]
      BY <1>1, <2>2, <1>t DEF ReadToken
    <3>2. [repair[r] EXCEPT !.pc = "insert", !.token = {t}] \in Repair BY <1>t DEF Repair
    <3>3. repair' \in [Repairs -> Repair] BY <3>1, <3>2, <1>t, MoveType
    <3>4. raced' \in [ApiTokens -> Nat] BY <1>1, <2>2 DEF ReadToken, ActionsTypeOK
    <3>5. QED BY <1>1, <3>3, <3>4 DEF ReadToken, ActionsTypeOK
  <2>3. QED BY <2>1, <2>2
<1>2. CASE Insert(r)
  <2>1. CASE repair' = [repair EXCEPT ![r].pc = "late"] /\ UNCHANGED rows
    <3>1. repair' = [repair EXCEPT ![r] = [repair[r] EXCEPT !.pc = "late"]] BY <2>1, <1>t
    <3>2. [repair[r] EXCEPT !.pc = "late"] \in Repair BY <1>t DEF Repair
    <3>3. repair' \in [Repairs -> Repair] BY <3>1, <3>2, <1>t, MoveType
    <3>4. QED BY <1>2, <2>1, <3>3 DEF Insert, ActionsTypeOK
  <2>2. CASE /\ Finish(r)
             /\ Inserted(r) \/ UNCHANGED rows
    <3>1. repair' \in [Repairs -> Repair] BY <2>2, <1>t, FinishType
    <3>2. rows' \in [ApiTokens -> Nat] BY <2>2, <1>r, <1>t
    <3>3. QED BY <1>2, <3>1, <3>2 DEF Insert, ActionsTypeOK
  <2>3. QED BY <1>2, <2>1, <2>2 DEF Insert
<1>3. CASE LateInsert(r)
  <2>1. repair' \in [Repairs -> Repair] BY <1>3, <1>t, FinishType DEF LateInsert
  <2>2. QED BY <1>3, <2>1, <1>r DEF LateInsert, ActionsTypeOK
<1>4. QED BY <1>1, <1>2, <1>3

\* The variables keep their types.
THEOREM ActionsTypes == ActionsSpec => []ActionsTypeOK
<1>1. ActionsInit => ActionsTypeOK
  BY DEF ActionsInit, ActionsTypeOK, NewRepair, Repair
<1>2. ActionsTypeOK /\ [ActionsNext]_actionsVars => ActionsTypeOK'
  <2> SUFFICES ASSUME ActionsTypeOK, [ActionsNext]_actionsVars PROVE ActionsTypeOK' OBVIOUS
  <2>1. CASE \E r \in Repairs :
                 \/ \E wanted \in {{p} : p \in Plugins} \cup {Plugins}, restart \in BOOLEAN :
                        AskPlugins(r, wanted, restart)
                 \/ \E p \in Plugins : Look(r, p)
                 \/ OpenTarget(r) \/ Copied(r) \/ CopyFails(r) \/ AllLooked(r) \/ RestartDaemon(r)
    BY <2>1, PluginTypes
  <2>2. CASE \E r \in Repairs :
                 (\E t \in ApiTokens : ReadToken(r, t)) \/ Insert(r) \/ LateInsert(r)
    BY <2>2, TokenTypes
  <2>3. CASE DaemonRestarts BY <2>3 DEF DaemonRestarts, Report, ActionsTypeOK, Loadable
  <2>4. CASE UNCHANGED actionsVars BY <2>4 DEF actionsVars, ActionsTypeOK
  <2>5. QED BY <2>1, <2>2, <2>3, <2>4 DEF ActionsNext
<1>3. QED BY <1>1, <1>2, PTL DEF ActionsSpec

-----------------------------------------------------------------------------
(* UnloadedIsReported *)

Repairing(r) == repair[r].pc \in {"look", "open", "copy", "restart"}

\* Who answers for a package that the daemon does not run: the request that opened its copy
\* last, then one that copied it, until a restart loads it or the request is answered.
Copies(p) == \E r \in Repairs : repair[r].pc = "copy" /\ ~repair[r].cut /\ p \in repair[r].copying
Owes(p) == \E r \in Repairs : Repairing(r) /\ repair[r].copied /\ p \in repair[r].wanted

\* What a request has still to do is of what it wants, and only a copy that began is cut.
InOrder(one) ==
    /\ one.left \subseteq one.wanted
    /\ one.pc \in {"open", "copy"} => one.copying \subseteq one.wanted
    /\ one.cut => one.pc = "copy"

\* Of these nothing needs to be reported.
Rests(p) == installed[p] = "none" \/ (installed[p] = "whole" /\ p \in loaded)

UnloadedInv ==
    /\ \A p \in Plugins : installed[p] = "partial" => p \in reported \/ Copies(p)
    /\ \A p \in Plugins : installed[p] = "whole" /\ p \notin loaded => p \in reported \/ Owes(p)
    /\ \A r \in Repairs : InOrder(repair[r])

\* A request that is not a repair under way may end or begin.
LEMMA UnloadedFrame ==
    ASSUME UnloadedInv, NEW r \in Repairs, ~Repairing(r),
           \A other \in Repairs \ {r} : repair'[other] = repair[other],
           InOrder(repair'[r]),
           UNCHANGED <<installed, loaded, reported>>
    PROVE  UnloadedInv'
<1>1. \A p \in Plugins : Copies(p) => Copies(p)' BY DEF Copies, Repairing
<1>2. \A p \in Plugins : Owes(p) => Owes(p)' BY DEF Owes, Repairing
<1>3. \A q \in Repairs : InOrder(repair[q])' BY DEF UnloadedInv
<1>4. QED BY <1>1, <1>2, <1>3 DEF UnloadedInv

\* An answer reports what the request does not promise.
LEMMA AnswerReports ==
    ASSUME ActionsTypeOK, UnloadedInv, NEW r \in Repairs, NEW restarted \in BOOLEAN,
           AnswerPlugins(r, restarted),
           UNCHANGED installed,
           loaded' = loaded \/ loaded' = Loadable,
           restarted /\ repair[r].copied /\ repair[r].restart => loaded' = Loadable,
           repair[r].pc # "copy"
    PROVE  UnloadedInv'
<1>t. repair \in [Repairs -> Repair] BY DEF ActionsTypeOK
<1>1. Finish(r) BY DEF AnswerPlugins
<1>2. /\ repair'[r] = [NewRepair EXCEPT !.pc = "done"]
      /\ \A other \in Repairs \ {r} : repair'[other] = repair[other]
  BY <1>1, <1>t, FinishType
<1>3. \A p \in reported : p \in reported' \/ Rests(p)'
  BY DEF AnswerPlugins, Report, Rests
<1>4. ASSUME NEW p \in Plugins, installed'[p] = "partial" PROVE p \in reported' \/ Copies(p)'
  <2>1. Copies(p) => Copies(p)' BY <1>2 DEF Copies
  <2>2. QED BY <1>3, <1>4, <2>1 DEF UnloadedInv, Rests
<1>5. ASSUME NEW p \in Plugins, installed'[p] = "whole", p \notin loaded'
      PROVE  p \in reported' \/ Owes(p)'
  <2>1. p \in Loadable BY <1>5 DEF Loadable
  <2>2. loaded' = loaded BY <2>1, <1>5
  <2>3. CASE p \in reported BY <2>3, <1>3, <1>5 DEF Rests
  <2>4. CASE \E other \in Repairs \ {r} :
                Repairing(other) /\ repair[other].copied /\ p \in repair[other].wanted
    BY <2>4, <1>2 DEF Owes, Repairing
  <2>5. CASE repair[r].copied /\ p \in repair[r].wanted
    <3>1. ~(AllDone(r, restarted) /\ (repair[r].copied => repair[r].restart))
      BY <2>1, <2>5, <1>5 DEF AllDone
    <3>2. Report(repair[r].wanted) BY <3>1 DEF AnswerPlugins
    <3>3. QED BY <3>2, <2>5, <1>5 DEF Report
  <2>6. QED BY <1>5, <2>2, <2>3, <2>4, <2>5 DEF UnloadedInv, Owes
<1>6. \A q \in Repairs : InOrder(repair[q])' BY <1>2 DEF UnloadedInv, InOrder, NewRepair
<1>7. QED BY <1>4, <1>5, <1>6 DEF UnloadedInv

\* The check leaves the packages as they are.
LEMMA UnloadedLook ==
    ASSUME ActionsTypeOK, UnloadedInv, NEW r \in Repairs, NEW p \in Plugins, Look(r, p)
    PROVE  UnloadedInv'
<1>t. repair \in [Repairs -> Repair] /\ repair[r] \in Repair BY DEF ActionsTypeOK
<1>1. /\ repair[r].pc = "look" /\ p \in repair[r].left /\ InOrder(repair[r])
      /\ UNCHANGED <<installed, loaded, reported>>
  BY DEF Look, UnloadedInv
<1>2. /\ \A other \in Repairs \ {r} : repair'[other] = repair[other]
      /\ repair'[r].pc \in {"look", "open"} /\ repair'[r].left = repair[r].left \ {p}
      /\ repair'[r].pc = "open" => repair'[r].copying = {p}
      /\ repair'[r].wanted = repair[r].wanted /\ repair'[r].copied = repair[r].copied
      /\ repair'[r].cut = repair[r].cut
  <2>1. CASE installed[p] = "none" /\ p \in Cached BY <2>1, <1>1, <1>t DEF Look, Repair
  <2>2. CASE ~(installed[p] = "none" /\ p \in Cached)
    <3> DEFINE missing == repair[r].missing \/ installed[p] = "none"
    <3>1. repair' = [repair EXCEPT ![r] = [repair[r] EXCEPT !.left = @ \ {p}, !.missing = missing]]
      BY <2>2, <1>t DEF Look
    <3> HIDE DEF missing
    <3>2. QED BY <3>1, <1>1, <1>t DEF Repair
  <2>3. QED BY <2>1, <2>2
<1>3. \A q \in Plugins : (Copies(q) => Copies(q)') /\ (Owes(q) => Owes(q)')
  BY <1>1, <1>2 DEF Copies, Owes, Repairing
<1>4. InOrder(repair'[r]) BY <1>1, <1>2 DEF InOrder
<1>5. \A q \in Repairs : InOrder(repair[q])' BY <1>2, <1>4 DEF UnloadedInv
<1>6. QED BY <1>1, <1>3, <1>5 DEF UnloadedInv

\* Who opens a package last answers for it.
LEMMA UnloadedOpen ==
    ASSUME ActionsTypeOK, UnloadedInv, NEW r \in Repairs, OpenTarget(r)
    PROVE  UnloadedInv'
<1>t. /\ repair \in [Repairs -> Repair] /\ \A q \in Repairs : repair[q] \in Repair
      /\ installed \in [Plugins -> {"none", "partial", "whole"}]
  BY DEF ActionsTypeOK
<1>1. /\ repair[r].pc = "open" /\ InOrder(repair[r]) /\ UNCHANGED <<loaded, reported>>
      /\ \A p \in Plugins :
             installed'[p] = IF p \in repair[r].copying THEN "partial" ELSE installed[p]
  BY DEF OpenTarget, UnloadedInv
<1>2. /\ repair'[r].pc = "copy" /\ ~repair'[r].cut
      /\ \A q \in Repairs \ {r} :
             /\ repair'[q].pc = repair[q].pc
             /\ \/ repair'[q].cut = repair[q].cut
                \/ repair[q].pc = "copy" /\ repair[q].copying = repair[r].copying
  BY <1>1, <1>t DEF OpenTarget, Repair, InOrder
<1>3. \A q \in Repairs : /\ repair'[q].copying = repair[q].copying
                         /\ repair'[q].left = repair[q].left
                         /\ repair'[q].wanted = repair[q].wanted
                         /\ repair'[q].copied = repair[q].copied
  BY <1>t DEF OpenTarget, Repair
<1>4. \A p \in repair[r].copying : Copies(p)' BY <1>2, <1>3 DEF Copies
<1>5. \A p \in Plugins \ repair[r].copying : Copies(p) => Copies(p)'
  BY <1>1, <1>2, <1>3 DEF Copies
<1>6. \A p \in Plugins : Owes(p) => Owes(p)' BY <1>1, <1>2, <1>3 DEF Owes, Repairing
<1>7. \A q \in Repairs : InOrder(repair[q])'
  <2> SUFFICES ASSUME NEW q \in Repairs PROVE InOrder(repair'[q]) OBVIOUS
  <2>1. InOrder(repair[q]) BY DEF UnloadedInv
  <2>2. QED BY <2>1, <1>1, <1>2, <1>3 DEF InOrder
<1>8. QED BY <1>1, <1>4, <1>5, <1>6, <1>7 DEF UnloadedInv

\* A copy that ends, cut by another request or not.
LEMMA UnloadedCopied ==
    ASSUME ActionsTypeOK, UnloadedInv, NEW r \in Repairs, Copied(r)
    PROVE  UnloadedInv'
<1>t. repair \in [Repairs -> Repair] /\ repair[r] \in Repair BY DEF ActionsTypeOK
<1>1. /\ repair'[r].left = repair[r].left /\ repair'[r].wanted = repair[r].wanted
      /\ repair'[r].copied /\ repair'[r].pc = "look" /\ ~repair'[r].cut /\ repair[r].pc = "copy"
      /\ \A other \in Repairs \ {r} : repair'[other] = repair[other]
      /\ UNCHANGED <<loaded, reported>> /\ InOrder(repair[r])
  BY <1>t DEF Copied, Repair, UnloadedInv
<1>2. \A p \in Plugins : Owes(p) => Owes(p)' BY <1>1 DEF Owes, Repairing
<1>3. \A q \in Repairs : InOrder(repair[q])' BY <1>1 DEF UnloadedInv, InOrder
<1>4. CASE installed' = Filled(r)
  <2>1. \A p \in Plugins : installed'[p] = IF p \in repair[r].copying THEN "whole" ELSE installed[p]
    BY <1>4 DEF Filled
  <2>2. \A p \in repair[r].copying : Owes(p)' BY <1>1 DEF Owes, Repairing, InOrder
  <2>3. \A p \in Plugins \ repair[r].copying : Copies(p) => Copies(p)' BY <1>1 DEF Copies
  <2>4. QED BY <1>1, <1>2, <1>3, <2>1, <2>2, <2>3 DEF UnloadedInv
<1>5. CASE repair[r].cut /\ UNCHANGED installed
  <2>1. \A p \in Plugins : Copies(p) => Copies(p)' BY <1>1, <1>5 DEF Copies
  <2>2. QED BY <1>1, <1>2, <1>3, <1>5, <2>1 DEF UnloadedInv
<1>6. QED BY <1>4, <1>5 DEF Copied

\* A copy that fails reports all that its request wants.
LEMMA UnloadedFails ==
    ASSUME ActionsTypeOK, UnloadedInv, NEW r \in Repairs, CopyFails(r)
    PROVE  UnloadedInv'
<1>t. repair \in [Repairs -> Repair] BY DEF ActionsTypeOK
<1>1. /\ repair'[r] = [NewRepair EXCEPT !.pc = "done"]
      /\ \A other \in Repairs \ {r} : repair'[other] = repair[other]
  BY <1>t, FinishType DEF CopyFails
<1>2. repair[r].copying \subseteq repair[r].wanted /\ loaded' = loaded
  BY DEF CopyFails, UnloadedInv, InOrder
<1>3. \A p \in Plugins \ repair[r].wanted : installed'[p] = installed[p]
  BY <1>2 DEF CopyFails, Filled
<1>4. \A p \in reported \cup repair[r].wanted : p \in reported' \/ Rests(p)'
  BY DEF CopyFails, Report, Rests
<1>5. \A p \in Plugins \ repair[r].wanted : (Copies(p) => Copies(p)') /\ (Owes(p) => Owes(p)')
  BY <1>1, <1>2 DEF Copies, Owes, Repairing
<1>6. \A q \in Repairs : InOrder(repair[q])' BY <1>1 DEF UnloadedInv, InOrder, NewRepair
<1>7. ASSUME NEW p \in Plugins, installed'[p] = "partial" PROVE p \in reported' \/ Copies(p)'
  BY <1>3, <1>4, <1>5, <1>7 DEF UnloadedInv, Rests
<1>8. ASSUME NEW p \in Plugins, installed'[p] = "whole", p \notin loaded'
      PROVE  p \in reported' \/ Owes(p)'
  BY <1>2, <1>3, <1>4, <1>5, <1>8 DEF UnloadedInv, Rests
<1>9. QED BY <1>6, <1>7, <1>8 DEF UnloadedInv

\* The steps of a plugin repair.
LEMMA UnloadedRepair ==
    ASSUME ActionsTypeOK, UnloadedInv, NEW r \in Repairs,
           \/ \E p \in Plugins : Look(r, p)
           \/ OpenTarget(r) \/ Copied(r) \/ CopyFails(r) \/ AllLooked(r) \/ RestartDaemon(r)
    PROVE  UnloadedInv'
<1>t. repair \in [Repairs -> Repair] /\ repair[r] \in Repair BY DEF ActionsTypeOK
<1>1. CASE AllLooked(r)
  <2>1. CASE repair[r].copied /\ repair[r].restart
    <3>1. /\ repair'[r] = [repair[r] EXCEPT !.pc = "restart"]
          /\ \A other \in Repairs \ {r} : repair'[other] = repair[other]
          /\ repair[r].pc = "look" /\ InOrder(repair[r])
          /\ UNCHANGED <<installed, loaded, reported>>
      BY <1>1, <2>1, <1>t DEF AllLooked, UnloadedInv
    <3>2. \A q \in Plugins : (Copies(q) => Copies(q)') /\ (Owes(q) => Owes(q)')
      BY <3>1, <1>t DEF Copies, Owes, Repairing, Repair
    <3>3. InOrder(repair'[r]) BY <3>1, <1>t DEF InOrder, Repair
    <3>4. \A q \in Repairs : InOrder(repair[q])' BY <3>1, <3>3 DEF UnloadedInv
    <3>5. QED BY <3>1, <3>2, <3>4 DEF UnloadedInv
  <2>2. CASE ~(repair[r].copied /\ repair[r].restart)
    BY <1>1, <2>2, AnswerReports DEF AllLooked
  <2>3. QED BY <2>1, <2>2
<1>2. CASE RestartDaemon(r)
  <2>1. CASE loaded' = Loadable /\ AnswerPlugins(r, TRUE)
    BY <1>2, <2>1, AnswerReports DEF RestartDaemon
  <2>2. CASE loaded' \in {loaded, Loadable} /\ AnswerPlugins(r, FALSE)
    BY <1>2, <2>2, AnswerReports DEF RestartDaemon
  <2>3. QED BY <1>2, <2>1, <2>2 DEF RestartDaemon
<1>3. QED BY <1>1, <1>2, UnloadedLook, UnloadedOpen, UnloadedCopied, UnloadedFails

\* The other steps.
LEMMA UnloadedOthers ==
    ASSUME ActionsTypeOK, UnloadedInv,
           \/ \E r \in Repairs :
                  \/ \E wanted \in {{p} : p \in Plugins} \cup {Plugins}, restart \in BOOLEAN :
                         AskPlugins(r, wanted, restart)
                  \/ \E t \in ApiTokens : ReadToken(r, t)
                  \/ Insert(r) \/ LateInsert(r)
           \/ DaemonRestarts
    PROVE  UnloadedInv'
<1>t. repair \in [Repairs -> Repair] BY DEF ActionsTypeOK
<1>f. ASSUME NEW r \in Repairs, Finish(r)
      PROVE  /\ \A other \in Repairs \ {r} : repair'[other] = repair[other]
             /\ InOrder(repair'[r])
  BY <1>f, <1>t, FinishType DEF NewRepair, InOrder
<1>1. ASSUME NEW r \in Repairs,
             NEW wanted \in {{p} : p \in Plugins} \cup {Plugins}, NEW restart \in BOOLEAN,
             AskPlugins(r, wanted, restart)
      PROVE  UnloadedInv'
  <2>1. ~Repairing(r) /\ UNCHANGED <<installed, loaded, reported>>
    BY <1>1 DEF AskPlugins, Repairing
  <2>2. CASE Finish(r) BY <2>1, <2>2, <1>f, UnloadedFrame
  <2>3. CASE repair' = [repair EXCEPT ![r] = [NewRepair EXCEPT !.pc = "look", !.wanted = wanted,
                                                 !.left = wanted, !.restart = restart]]
    <3>1. InOrder(repair'[r]) /\ \A other \in Repairs \ {r} : repair'[other] = repair[other]
      BY <2>3, <1>t DEF NewRepair, InOrder
    <3>2. QED BY <2>1, <3>1, UnloadedFrame
  <2>4. QED BY <1>1, <2>2, <2>3 DEF AskPlugins
<1>2. ASSUME NEW r \in Repairs, NEW t \in ApiTokens, ReadToken(r, t) PROVE UnloadedInv'
  <2>1. ~Repairing(r) /\ UNCHANGED <<installed, loaded, reported>>
    BY <1>2 DEF ReadToken, Repairing
  <2>2. CASE Finish(r) BY <2>1, <2>2, <1>f, UnloadedFrame
  <2>3. CASE repair' = [repair EXCEPT ![r].pc = "insert", ![r].token = {t}]
    <3>1. /\ repair'[r].left = repair[r].left /\ repair'[r].wanted = repair[r].wanted
          /\ repair'[r].pc \notin {"open", "copy"} /\ repair'[r].cut = repair[r].cut
          /\ \A other \in Repairs \ {r} : repair'[other] = repair[other]
      BY <2>3, <1>t DEF Repair
    <3>2. InOrder(repair'[r]) BY <2>1, <3>1 DEF UnloadedInv, InOrder, Repairing
    <3>3. QED BY <2>1, <3>1, <3>2, UnloadedFrame
  <2>4. QED BY <1>2, <2>2, <2>3 DEF ReadToken
<1>3. ASSUME NEW r \in Repairs, Insert(r) PROVE UnloadedInv'
  <2>1. ~Repairing(r) /\ UNCHANGED <<installed, loaded, reported>>
    BY <1>3 DEF Insert, Repairing
  <2>2. CASE Finish(r) BY <2>1, <2>2, <1>f, UnloadedFrame
  <2>3. CASE repair' = [repair EXCEPT ![r].pc = "late"]
    <3>1. /\ repair'[r].left = repair[r].left /\ repair'[r].wanted = repair[r].wanted
          /\ repair'[r].pc \notin {"open", "copy"} /\ repair'[r].cut = repair[r].cut
          /\ \A other \in Repairs \ {r} : repair'[other] = repair[other]
      BY <2>3, <1>t DEF Repair
    <3>2. InOrder(repair'[r]) BY <2>1, <3>1 DEF UnloadedInv, InOrder, Repairing
    <3>3. QED BY <2>1, <3>1, <3>2, UnloadedFrame
  <2>4. QED BY <1>3, <2>2, <2>3 DEF Insert
<1>4. ASSUME NEW r \in Repairs, LateInsert(r) PROVE UnloadedInv'
  <2>1. ~Repairing(r) /\ UNCHANGED <<installed, loaded, reported>> /\ Finish(r)
    BY <1>4 DEF LateInsert, Repairing
  <2>2. QED BY <2>1, <1>f, UnloadedFrame
<1>5. CASE DaemonRestarts
  <2>1. /\ loaded' = Loadable /\ UNCHANGED <<installed, repair>>
        /\ \A p \in reported : p \in reported' \/ Rests(p)'
    BY <1>5 DEF DaemonRestarts, Report, Rests
  <2>2. \A q \in Plugins : (Copies(q) <=> Copies(q)') /\ (Owes(q) <=> Owes(q)')
    BY <2>1 DEF Copies, Owes, Repairing
  <2>3. QED BY <2>1, <2>2 DEF UnloadedInv, Loadable, Rests
<1>6. QED BY <1>1, <1>2, <1>3, <1>4, <1>5

\* A package that the daemon does not run is one that a request did not promise.
THEOREM ActionsUnloadedIsReported == ActionsSpec => []UnloadedIsReported
<1>1. ActionsInit => UnloadedInv
  BY DEF ActionsInit, UnloadedInv, InOrder, NewRepair
<1>2. ActionsTypeOK /\ UnloadedInv /\ [ActionsNext]_actionsVars => UnloadedInv'
  <2> SUFFICES ASSUME ActionsTypeOK, UnloadedInv, [ActionsNext]_actionsVars PROVE UnloadedInv'
    OBVIOUS
  <2>1. CASE ActionsNext
    BY <2>1, UnloadedRepair, UnloadedOthers DEF ActionsNext
  <2>2. CASE UNCHANGED actionsVars
    BY <2>2 DEF actionsVars, UnloadedInv, Copies, Owes, Repairing
  <2>3. QED BY <2>1, <2>2
<1>3. ActionsTypeOK /\ UnloadedInv => UnloadedIsReported
  <2> SUFFICES ASSUME ActionsTypeOK, UnloadedInv, AtRest,
                      NEW p \in Plugins, installed[p] # "none", p \notin loaded
               PROVE  p \in reported
    BY DEF UnloadedIsReported
  <2>1. installed[p] \in {"partial", "whole"} BY DEF ActionsTypeOK
  <2>2. ~Copies(p) /\ ~Owes(p) BY DEF AtRest, Copies, Owes, Repairing
  <2>3. QED BY <2>1, <2>2 DEF UnloadedInv
<1>4. QED BY <1>1, <1>2, <1>3, ActionsTypes, PTL DEF ActionsSpec

-----------------------------------------------------------------------------
(* TokensOnce *)

Inserters(t) == {r \in Repairs : Inserting(r, t)}

\* The insertions that may still come count like those that were made.
TokenInv == \A t \in ApiTokens : rows[t] + Cardinality(Inserters(t)) <= 1 + raced[t]

\* Where a request inserts, or no longer means to, the sum does not grow.
LEMMA TokenEnds ==
    ASSUME ActionsTypeOK, TokenInv, NEW r \in Repairs, repair[r].pc \in {"insert", "late"},
           Finish(r), Inserted(r) \/ UNCHANGED rows, UNCHANGED raced
    PROVE  TokenInv'
<1> SUFFICES ASSUME NEW t \in ApiTokens
             PROVE  (rows[t] + Cardinality(Inserters(t)))' <= 1 + raced[t]
  BY DEF TokenInv
<1>t. repair \in [Repairs -> Repair] /\ rows[t] \in Nat /\ raced[t] \in Nat BY DEF ActionsTypeOK
<1>1. /\ repair'[r].pc = "done"
      /\ \A other \in Repairs \ {r} : repair'[other] = repair[other]
  BY <1>t, FinishType
<1>2. Inserters(t)' = Inserters(t) \ {r} BY <1>1 DEF Inserters, Inserting
<1>3. IsFiniteSet(Inserters(t)) /\ Cardinality(Inserters(t)) \in Nat
  BY FS_Subset, FS_CardinalityType DEF Inserters
<1>4. rows[t] + Cardinality(Inserters(t)) <= 1 + raced[t] BY DEF TokenInv
<1>5. CASE t \in repair[r].token
  <2>1. r \in Inserters(t) BY <1>5 DEF Inserters, Inserting
  <2>2. Cardinality(Inserters(t)') = Cardinality(Inserters(t)) - 1
    BY <1>2, <1>3, <2>1, FS_RemoveElement
  <2>3. rows'[t] = rows[t] \/ rows'[t] = rows[t] + 1 BY DEF Inserted
  <2>4. QED BY <1>3, <1>4, <1>t, <2>2, <2>3
<1>6. CASE t \notin repair[r].token
  <2>1. Inserters(t)' = Inserters(t) BY <1>2, <1>6 DEF Inserters, Inserting
  <2>2. rows'[t] = rows[t] BY <1>6 DEF Inserted
  <2>3. QED BY <1>4, <2>1, <2>2
<1>7. QED BY <1>5, <1>6

\* A request that reads adds an insertion to come, and counts it if it is not the only one.
LEMMA TokenReads ==
    ASSUME ActionsTypeOK, TokenInv, NEW r \in Repairs, NEW asked \in ApiTokens,
           ReadToken(r, asked), ~TokenExists(asked)
    PROVE  TokenInv'
<1> SUFFICES ASSUME NEW t \in ApiTokens
             PROVE  rows'[t] + Cardinality(Inserters(t)') <= 1 + raced'[t]
  BY DEF TokenInv
<1>t. /\ repair \in [Repairs -> Repair] /\ repair[r] \in Repair /\ rows \in [ApiTokens -> Nat]
      /\ raced \in [ApiTokens -> Nat] /\ rows[t] \in Nat /\ raced[t] \in Nat
  BY DEF ActionsTypeOK
<1>1. /\ repair'[r].token = {asked} /\ repair'[r].pc = "insert" /\ rows' = rows
      /\ repair[r].pc = "new" /\ rows[asked] = 0
      /\ \A other \in Repairs \ {r} : repair'[other] = repair[other]
  BY <1>t DEF ReadToken, TokenExists, Repair
<1>2. IsFiniteSet(Inserters(t)) /\ Cardinality(Inserters(t)) \in Nat
  BY FS_Subset, FS_CardinalityType DEF Inserters
<1>3. rows[t] + Cardinality(Inserters(t)) <= 1 + raced[t] BY DEF TokenInv
<1>4. CASE t = asked
  <2>1. r \notin Inserters(t) /\ Inserters(t)' = Inserters(t) \cup {r}
    BY <1>1, <1>4 DEF Inserters, Inserting
  <2>2. Cardinality(Inserters(t)') = Cardinality(Inserters(t)) + 1
    BY <1>2, <2>1, FS_AddElement
  <2>3. CASE \E other \in Repairs : Inserting(other, asked)
    <3>1. raced'[t] = raced[t] + 1 BY <1>4, <2>3, <1>t DEF ReadToken
    <3>2. QED BY <1>1, <1>2, <1>3, <1>t, <2>2, <3>1
  <2>4. CASE ~\E other \in Repairs : Inserting(other, asked)
    <3>1. Inserters(t) = {} BY <1>4, <2>4 DEF Inserters
    <3>2. Cardinality(Inserters(t)) = 0 BY <3>1, FS_EmptySet
    <3>3. raced'[t] = raced[t] BY <2>4 DEF ReadToken
    <3>4. QED BY <1>1, <1>4, <1>t, <2>2, <3>2, <3>3
  <2>5. QED BY <2>3, <2>4
<1>5. CASE t # asked
  <2>1. Inserters(t)' = Inserters(t) BY <1>1, <1>5 DEF Inserters, Inserting
  <2>2. raced'[t] = raced[t] BY <1>5, <1>t DEF ReadToken
  <2>3. QED BY <1>1, <1>3, <2>1, <2>2
<1>6. QED BY <1>4, <1>5

\* Where who inserts what stays the same.
LEMMA TokenSame ==
    ASSUME TokenInv, UNCHANGED <<rows, raced>>,
           \A q \in Repairs, t \in ApiTokens : Inserting(q, t)' <=> Inserting(q, t)
    PROVE  TokenInv'
<1>1. \A t \in ApiTokens : Inserters(t)' = Inserters(t) BY DEF Inserters
<1>2. QED BY <1>1 DEF TokenInv

\* The steps of a token repair.
LEMMA TokenStep ==
    ASSUME ActionsTypeOK, TokenInv, NEW r \in Repairs,
           (\E t \in ApiTokens : ReadToken(r, t)) \/ Insert(r) \/ LateInsert(r)
    PROVE  TokenInv'
<1>t. repair \in [Repairs -> Repair] BY DEF ActionsTypeOK
<1>1. ASSUME NEW t \in ApiTokens, ReadToken(r, t) PROVE TokenInv'
  <2>1. CASE TokenExists(t)
    <3>1. Finish(r) /\ UNCHANGED <<rows, raced>> /\ repair[r].pc = "new"
      BY <1>1, <2>1 DEF ReadToken
    <3>2. \A q \in Repairs, u \in ApiTokens : Inserting(q, u)' <=> Inserting(q, u)
      BY <3>1, <1>t, FinishType DEF Inserting
    <3>3. QED BY <3>1, <3>2, TokenSame
  <2>2. QED BY <1>1, <2>1, TokenReads
<1>2. CASE Insert(r)
  <2>1. repair[r].pc = "insert" /\ UNCHANGED raced BY <1>2 DEF Insert
  <2>2. CASE repair' = [repair EXCEPT ![r].pc = "late"] /\ UNCHANGED rows
    <3>1. \A q \in Repairs, u \in ApiTokens : Inserting(q, u)' <=> Inserting(q, u)
      BY <2>1, <2>2, <1>t DEF Inserting, Repair
    <3>2. QED BY <2>1, <2>2, <3>1, TokenSame
  <2>3. QED BY <1>2, <2>1, <2>2, TokenEnds DEF Insert
<1>3. CASE LateInsert(r)
  BY <1>3, TokenEnds DEF LateInsert
<1>4. QED BY <1>1, <1>2, <1>3

\* The steps of a plugin repair insert nothing.
LEMMA TokenFrame ==
    ASSUME ActionsTypeOK, TokenInv, NEW r \in Repairs,
           \/ \E wanted \in {{p} : p \in Plugins} \cup {Plugins}, restart \in BOOLEAN :
                  AskPlugins(r, wanted, restart)
           \/ \E p \in Plugins : Look(r, p)
           \/ OpenTarget(r) \/ Copied(r) \/ CopyFails(r) \/ AllLooked(r) \/ RestartDaemon(r)
    PROVE  TokenInv'
<1>t. repair \in [Repairs -> Repair] BY DEF ActionsTypeOK
<1>1. UNCHANGED <<rows, raced>> /\ repair[r].pc \notin {"insert", "late"}
  BY DEF AskPlugins, Look, OpenTarget, Copied, CopyFails, AllLooked, RestartDaemon
<1>f. ASSUME Finish(r)
      PROVE  /\ repair'[r].pc \notin {"insert", "late"}
             /\ \A other \in Repairs \ {r} : repair'[other] = repair[other]
  BY <1>f, <1>t, FinishType
<1>a. ASSUME NEW restarted, AnswerPlugins(r, restarted) PROVE Finish(r)
  BY <1>a DEF AnswerPlugins
<1>2. repair'[r].pc \notin {"insert", "late"}
      /\ \A other \in Repairs \ {r} : repair'[other].pc = repair[other].pc
                                      /\ repair'[other].token = repair[other].token
  <2>1. ASSUME NEW wanted \in {{p} : p \in Plugins} \cup {Plugins}, NEW restart \in BOOLEAN,
               AskPlugins(r, wanted, restart)
        PROVE  repair'[r].pc \notin {"insert", "late"}
               /\ \A other \in Repairs \ {r} : repair'[other] = repair[other]
    BY <2>1, <1>f, <1>t DEF AskPlugins, NewRepair
  <2>2. ASSUME NEW p \in Plugins, Look(r, p) PROVE repair'[r].pc \notin {"insert", "late"}
               /\ \A other \in Repairs \ {r} : repair'[other] = repair[other]
    BY <2>2, <1>t DEF Look, Repair
  <2>3. CASE OpenTarget(r) BY <2>3, <1>t DEF OpenTarget, Repair
  <2>4. CASE Copied(r) BY <2>4, <1>t DEF Copied, Repair
  <2>5. CASE CopyFails(r) BY <2>5, <1>f DEF CopyFails
  <2>6. CASE AllLooked(r) BY <2>6, <1>f, <1>a, <1>t DEF AllLooked, Repair
  <2>7. CASE RestartDaemon(r) BY <2>7, <1>f, <1>a DEF RestartDaemon
  <2>8. QED BY <2>1, <2>2, <2>3, <2>4, <2>5, <2>6, <2>7
<1>3. \A other \in Repairs, t \in ApiTokens : Inserting(other, t)' <=> Inserting(other, t)
  BY <1>1, <1>2 DEF Inserting
<1>4. QED BY <1>1, <1>3, TokenSame

\* A token has no more rows than the requests that raced for it explain.
THEOREM ActionsTokensOnce == ActionsSpec => []TokensOnce
<1>1. ActionsInit => TokenInv
  <2> SUFFICES ASSUME ActionsInit, NEW t \in ApiTokens
               PROVE  rows[t] + Cardinality(Inserters(t)) <= 1 + raced[t]
    BY DEF TokenInv
  <2>1. Inserters(t) = {} BY DEF ActionsInit, Inserters, Inserting, NewRepair
  <2>2. Cardinality(Inserters(t)) = 0 BY <2>1, FS_EmptySet
  <2>3. QED BY <2>2 DEF ActionsInit
<1>2. ActionsTypeOK /\ TokenInv /\ [ActionsNext]_actionsVars => TokenInv'
  <2> SUFFICES ASSUME ActionsTypeOK, TokenInv, [ActionsNext]_actionsVars PROVE TokenInv'
    OBVIOUS
  <2>1. CASE \E r \in Repairs :
                 (\E t \in ApiTokens : ReadToken(r, t)) \/ Insert(r) \/ LateInsert(r)
    BY <2>1, TokenStep
  <2>2. CASE DaemonRestarts \/ UNCHANGED actionsVars
    BY <2>2, TokenSame DEF DaemonRestarts, actionsVars, Inserting
  <2>3. QED BY <2>1, <2>2, TokenFrame DEF ActionsNext
<1>3. ActionsTypeOK /\ TokenInv => TokensOnce
  <2> SUFFICES ASSUME ActionsTypeOK, TokenInv, NEW t \in ApiTokens PROVE rows[t] <= 1 + raced[t]
    BY DEF TokensOnce
  <2>1. Cardinality(Inserters(t)) \in Nat
    BY FS_Subset, FS_CardinalityType DEF Inserters
  <2>2. rows[t] \in Nat /\ raced[t] \in Nat BY DEF ActionsTypeOK
  <2>3. QED BY <2>1, <2>2 DEF TokenInv
<1>4. QED BY <1>1, <1>2, <1>3, ActionsTypes, PTL DEF ActionsSpec
=============================================================================
