---------------------------- MODULE RetentionProofs ----------------------------
(***************************************************************************)
(* What pruning can never take, proved for every retain count, every       *)
(* spacing of the dumps and every history, with a clock that may be set    *)
(* back: the two newest dumps ever taken are always on disk, and until the *)
(* retain count bites tiered retention keeps a dump of every span it       *)
(* promises one for.                                                       *)
(***************************************************************************)
EXTENDS RetentionHistory, FiniteSetTheorems, WellFoundedInduction, TLAPS

\* The dumps are those of a history: nothing is on disk that was not taken, and nothing
\* was taken later than the clock has ever been.
BaseInv ==
    /\ policy \in Policies
    /\ now \in Int
    /\ peak \in Int
    /\ now <= peak
    /\ capped \in BOOLEAN
    /\ taken \subseteq Int
    /\ IsFiniteSet(taken)
    /\ \A x \in taken : x <= peak
    /\ backups \subseteq taken

NewestInv == Newest(taken, 2) \subseteq backups

\* K holds a dump of x's span that is x or newer. TiersCovered does not ask for the newer
\* one, but only a newer one is still young enough for the tier at the next prune.
Held(K, x, width) == \E b \in K : b >= x /\ b \div width = x \div width

\* Of the dumps S, those that K must stand for when the clock has been at p.
Tiers(S, K, p) ==
    \A x \in S :
        /\ p - x <= 900 => x \in K
        /\ p - x <= 7200 => Held(K, x, 300)
        /\ p - x <= 86400 => Held(K, x, 3600)
        /\ p - x <= 604800 => Held(K, x, 86400)

TierInv == policy = "tiered" /\ ~capped => Tiers(taken, backups, peak)

HistoryInv == BaseInv /\ NewestInv /\ TierInv

-----------------------------------------------------------------------------
(* The retain count and the newest members of a set *)

\* POSTGRES_BACKUP_RETAIN_COUNT leaves room for the two newest whatever its text is.
LEMMA RetainRange == Retain \in 2..200
  BY RetentionAssumption DEF Retain, ParseUint, NotANumber

\* The members of a finite set that are newer than e are finitely many.
LEMMA NewerFinite ==
  ASSUME NEW S, IsFiniteSet(S), NEW e
  PROVE  /\ IsFiniteSet({f \in S : f > e})
         /\ Cardinality({f \in S : f > e}) \in Nat
<1>1. {f \in S : f > e} \in SUBSET S
  OBVIOUS
<1>2. IsFiniteSet({f \in S : f > e})
  BY <1>1, FS_Subset
<1> QED
  BY <1>2, FS_CardinalityType

\* What is among the n newest of a set is so of every smaller set it belongs to.
LEMMA NewestOfPart ==
  ASSUME NEW S, IsFiniteSet(S), NEW T, T \subseteq S, NEW n \in Nat,
         NEW e \in T, e \in Newest(S, n)
  PROVE  e \in Newest(T, n)
<1> DEFINE inS == {f \in S : f > e}
           inT == {f \in T : f > e}
<1>1. IsFiniteSet(inS) /\ Cardinality(inS) \in Nat
  BY NewerFinite
<1>2. inT \in SUBSET inS
  OBVIOUS
<1>3. Cardinality(inT) <= Cardinality(inS)
  BY <1>1, <1>2, FS_Subset
<1>4. IsFiniteSet(inT)
  BY <1>1, <1>2, FS_Subset
<1>5. Cardinality(inT) \in Nat
  BY <1>4, FS_CardinalityType
<1>6. Cardinality(inS) < n
  BY DEF Newest
<1> HIDE DEF inS, inT
<1>7. Cardinality(inT) < n
  BY <1>1, <1>3, <1>5, <1>6
<1> QED
  BY <1>7 DEF Newest, inT

\* The n newest are among the m newest when n <= m.
LEMMA NewestGrows ==
  ASSUME NEW S, IsFiniteSet(S), NEW n \in Nat, NEW m \in Nat, n <= m
  PROVE  Newest(S, n) \subseteq Newest(S, m)
<1> SUFFICES ASSUME NEW e \in Newest(S, n) PROVE e \in Newest(S, m)
  OBVIOUS
<1> DEFINE c == Cardinality({f \in S : f > e})
<1>1. c \in Nat
  BY NewerFinite
<1>2. e \in S /\ c < n
  BY DEF Newest
<1> HIDE DEF c
<1>3. c < m
  BY <1>1, <1>2
<1> QED
  BY <1>2, <1>3 DEF Newest, c

\* A set of at most n members is its own n newest.
LEMMA NewestIsAll ==
  ASSUME NEW S, S \subseteq Int, IsFiniteSet(S), NEW n \in Nat, Cardinality(S) <= n
  PROVE  Newest(S, n) = S
<1> SUFFICES ASSUME NEW e \in S PROVE Cardinality({f \in S : f > e}) < n
  BY DEF Newest
<1> DEFINE newer == {f \in S : f > e}
<1>1. IsFiniteSet(S \ {e}) /\ Cardinality(S \ {e}) = Cardinality(S) - 1
  BY FS_RemoveElement
<1>2. newer \in SUBSET (S \ {e})
  OBVIOUS
<1>3. Cardinality(newer) <= Cardinality(S \ {e})
  BY <1>1, <1>2, FS_Subset
<1>4. Cardinality(newer) \in Nat
  BY NewerFinite
<1>5. Cardinality(S) \in Nat
  BY FS_CardinalityType
<1> HIDE DEF newer
<1>6. Cardinality(newer) < n
  BY <1>1, <1>3, <1>4, <1>5
<1> QED
  BY <1>6 DEF newer

\* The walk marks nothing but the dumps it is given, the two newest always.
LEMMA MarkedBounds ==
  ASSUME NEW S, NEW t
  PROVE  Newest(S, 2) \subseteq Marked(S, t) /\ Marked(S, t) \subseteq S
  BY DEF Marked, Newest

\* Under either policy a prune removes nothing of the two newest and adds nothing.
LEMMA KeptBounds ==
  ASSUME NEW S, IsFiniteSet(S), NEW t, NEW p
  PROVE  Newest(S, 2) \subseteq Kept(p, S, t) /\ Kept(p, S, t) \subseteq S
<1>1. 2 \in Nat /\ Retain \in Nat /\ 2 <= Retain
  BY RetainRange
<1>2. Newest(S, 2) \subseteq Newest(S, Retain)
  BY <1>1, NewestGrows
<1> DEFINE M == Marked(S, t)
<1>3. Newest(S, 2) \subseteq M /\ M \subseteq S
  BY MarkedBounds
<1> HIDE DEF M
<1>4. IsFiniteSet(M)
  BY <1>3, FS_Subset
<1>5. Newest(S, 2) \subseteq Newest(M, 2)
  BY <1>1, <1>3, NewestOfPart
<1>6. Newest(M, 2) \subseteq Newest(M, Retain)
  BY <1>1, <1>4, NewestGrows
<1>7. Newest(S, Retain) \subseteq S /\ Newest(M, Retain) \subseteq M
  BY DEF Newest
<1> QED
  BY <1>2, <1>3, <1>5, <1>6, <1>7 DEF Kept, M

-----------------------------------------------------------------------------
(* What the walk leaves of a span *)

\* A set of naturals that is not empty has a least member.
LEMMA LeastNatural ==
  ASSUME NEW T \in SUBSET Nat, T # {}
  PROVE  \E x \in T : \A y \in T : x <= y
<1>1. PICK R : /\ IsWellFoundedOn(R, Nat)
               /\ \A a, b \in Nat : <<a, b>> \in R <=> a < b
  <2> DEFINE L == OpToRel(<, Nat)
  <2>1. IsWellFoundedOn(L, Nat)
    BY NatLessThanWellFounded
  <2>2. \A a, b \in Nat : <<a, b>> \in L <=> a < b
    BY DEF OpToRel
  <2> QED
    BY <2>1, <2>2, Zenon
<1>2. PICK x \in T : \A y \in T : ~ (<<y, x>> \in R)
  <2>1. T \subseteq Nat /\ IsWellFoundedOn(R, Nat)
    BY <1>1
  <2> QED
    BY <2>1, WFMin, Zenon
<1>3. \A y \in T : y \in Nat /\ x \in Nat /\ ~ (y < x)
  BY <1>1, <1>2
<1> QED
  BY <1>2, <1>3

\* A set of dumps of which none is later than p has a newest one.
LEMMA NewestOne ==
  ASSUME NEW C, C \subseteq Int, C # {}, NEW p \in Int, \A f \in C : f <= p
  PROVE  \E m \in C : \A f \in C : f <= m
<1> DEFINE T == {p - f : f \in C}
<1>1. \A f \in C : p - f \in Nat
  OBVIOUS
<1>2. T \in SUBSET Nat
  BY <1>1
<1>3. T # {}
  OBVIOUS
<1> HIDE DEF T
<1>4. PICK x \in T : \A y \in T : x <= y
  BY <1>2, <1>3, LeastNatural
<1>5. PICK m \in C : x = p - m
  BY DEF T
<1>6. \A f \in C : p - m <= p - f
  BY <1>4, <1>5 DEF T
<1>7. \A f \in C : f <= m
  BY <1>6
<1> QED
  BY <1>7

\* Every dump that competes in a bucket is kept, or a newer one of its bucket is.
LEMMA BucketSurvives ==
  ASSUME NEW S, S \subseteq Int, NEW p \in Int, \A f \in S : f <= p, NEW t \in Int,
         NEW e \in S, RetentionBucket(e, t) # NoBucket
  PROVE  \E f \in Marked(S, t) :
            f >= e /\ (f = e \/ RetentionBucket(f, t) = RetentionBucket(e, t))
<1>1. CASE e \in Newest(S, 2)
  <2>1. e \in Marked(S, t) /\ e \in Int
    BY <1>1, MarkedBounds
  <2> QED
    BY <2>1
<1>2. CASE e \notin Newest(S, 2)
  <2> DEFINE rest == S \ Newest(S, 2)
             C == {f \in rest : RetentionBucket(f, t) = RetentionBucket(e, t)}
  <2>1. C \subseteq Int /\ e \in C /\ \A f \in C : f <= p
    BY <1>2
  <2> HIDE DEF C
  <2>2. PICK m \in C : \A f \in C : f <= m
    BY <2>1, NewestOne
  <2>3. m \in rest /\ RetentionBucket(m, t) = RetentionBucket(e, t) /\ m >= e
    BY <2>1, <2>2 DEF C
  <2>4. \A f \in rest : f > m => RetentionBucket(f, t) # RetentionBucket(m, t)
    <3> SUFFICES ASSUME NEW f \in rest, f > m, RetentionBucket(f, t) = RetentionBucket(m, t)
                 PROVE  FALSE
      OBVIOUS
    <3>1. f \in C
      BY <2>3 DEF C
    <3> QED
      BY <2>1, <2>2, <3>1
  <2>5. m \in Marked(S, t)
    BY <2>3, <2>4 DEF Marked
  <2> QED
    BY <2>3, <2>5
<1> QED
  BY <1>1, <1>2

\* Two dumps of one bucket lie in one span of their tier, and so of every wider tier: the
\* widths divide each other. In the first 15 minutes a bucket holds one dump.
LEMMA BucketSpans ==
  ASSUME NEW e \in Int, NEW f \in Int, NEW t \in Int, f >= e,
         RetentionBucket(f, t) = RetentionBucket(e, t)
  PROVE  /\ t - e <= 900 => f = e
         /\ t - e <= 7200 => f \div 300 = e \div 300
         /\ t - e <= 86400 => f \div 3600 = e \div 3600
         /\ t - e <= 604800 => f \div 86400 = e \div 86400
<1> DEFINE age(x) == IF t - x < 0 THEN 0 ELSE t - x
<1>1. \A x \in Int :
        /\ age(x) \in Nat
        /\ age(x) <= 900 => RetentionBucket(x, t) = <<"recent", x>>
        /\ age(x) > 900 /\ age(x) <= 7200 => RetentionBucket(x, t) = <<"five-minute", x \div 300>>
        /\ age(x) > 7200 /\ age(x) <= 86400 => RetentionBucket(x, t) = <<"hourly", x \div 3600>>
        /\ age(x) > 86400 /\ age(x) <= 604800 => RetentionBucket(x, t) = <<"daily", x \div 86400>>
        /\ age(x) > 604800 => RetentionBucket(x, t) = <<"none", 0>>
  BY DEF RetentionBucket, NoBucket
<1>2. CASE t - e <= 900
  BY <1>1, <1>2
<1>3. CASE t - e > 900 /\ t - e <= 7200
  <2>1. f \div 300 = e \div 300
    BY <1>1, <1>3
  <2> QED
    BY <1>3, <2>1
<1>4. CASE t - e > 7200 /\ t - e <= 86400
  <2>1. f \div 3600 = e \div 3600
    BY <1>1, <1>4
  <2> QED
    BY <1>4, <2>1
<1>5. CASE t - e > 86400
  BY <1>1, <1>5
<1> QED
  BY <1>2, <1>3, <1>4, <1>5

\* What the walk marks covers the spans of every dump it is given, up to the age at which
\* the tier of that width ends.
LEMMA SpanSurvives ==
  ASSUME NEW S, S \subseteq Int, NEW p \in Int, \A f \in S : f <= p, NEW t \in Int
  PROVE  Tiers(S, Marked(S, t), t)
<1> SUFFICES ASSUME NEW e \in S
             PROVE  /\ t - e <= 900 => e \in Marked(S, t)
                    /\ t - e <= 7200 => Held(Marked(S, t), e, 300)
                    /\ t - e <= 86400 => Held(Marked(S, t), e, 3600)
                    /\ t - e <= 604800 => Held(Marked(S, t), e, 86400)
  BY DEF Tiers
<1>1. CASE t - e <= 604800
  <2>1. RetentionBucket(e, t) # NoBucket
    BY <1>1 DEF RetentionBucket, NoBucket
  <2>2. PICK f \in Marked(S, t) :
            f >= e /\ (f = e \/ RetentionBucket(f, t) = RetentionBucket(e, t))
    BY <2>1, BucketSurvives
  <2>3. f \in Int
    BY MarkedBounds
  <2>4. /\ t - e <= 900 => f = e
        /\ t - e <= 7200 => f \div 300 = e \div 300
        /\ t - e <= 86400 => f \div 3600 = e \div 3600
        /\ t - e <= 604800 => f \div 86400 = e \div 86400
    BY <2>2, <2>3, BucketSpans
  <2> QED
    BY <2>2, <2>4 DEF Held
<1>2. CASE ~ (t - e <= 604800)
  BY <1>2
<1> QED
  BY <1>1, <1>2

\* What stood for a span before the prune is given to it, and it leaves that dump or a
\* newer one of the span: to the prune a dump is no older than it is by the furthest
\* reading of the clock.
LEMMA TiersCarried ==
  ASSUME NEW S, S \subseteq Int, NEW K, K \subseteq S, NEW p \in Int, \A f \in S : f <= p,
         Tiers(S, K, p), NEW t \in Int, NEW q \in Int, p <= q, t <= q
  PROVE  Tiers(S \cup {t}, Marked(K \cup {t}, t), q)
<1> DEFINE all == K \cup {t}
           M == Marked(all, t)
<1>1. /\ all \subseteq Int
      /\ \A f \in all : f <= q
  OBVIOUS
<1>2. t \in all
  OBVIOUS
<1>3. Tiers(all, M, t)
  <2> HIDE DEF all
  <2> QED
    BY <1>1, SpanSurvives
<1>4. M \subseteq all
  <2> HIDE DEF all
  <2> QED
    BY MarkedBounds
<1>5. K \subseteq all
  OBVIOUS
<1> SUFFICES ASSUME NEW x \in S \cup {t}
             PROVE  /\ q - x <= 900 => x \in M
                    /\ q - x <= 7200 => Held(M, x, 300)
                    /\ q - x <= 86400 => Held(M, x, 3600)
                    /\ q - x <= 604800 => Held(M, x, 86400)
  BY DEF Tiers
<1> HIDE DEF M, all
<1>6. x \in Int
  OBVIOUS
\* Before the prune: x itself, or what stood for its span.
<1>7. /\ q - x <= 900 => x \in all
      /\ q - x <= 7200 => Held(all, x, 300)
      /\ q - x <= 86400 => Held(all, x, 3600)
      /\ q - x <= 604800 => Held(all, x, 86400)
  <2>1. CASE x = t
    BY <1>2, <1>6, <2>1 DEF Held
  <2>2. CASE x \in S
    <3>1. /\ p - x <= 900 => x \in K
          /\ p - x <= 7200 => Held(K, x, 300)
          /\ p - x <= 86400 => Held(K, x, 3600)
          /\ p - x <= 604800 => Held(K, x, 86400)
      BY <2>2 DEF Tiers
    <3>2. \A width : Held(K, x, width) => Held(all, x, width)
      BY <1>5 DEF Held
    <3>3. \A n \in Int : q - x <= n => p - x <= n
      BY <1>6
    <3> QED
      BY <1>5, <3>1, <3>2, <3>3
  <2> QED
    BY <2>1, <2>2
<1>8. \A b \in all : b >= x => b \in Int /\ t - b <= q - x
  BY <1>1, <1>6
<1>9. q - x <= 900 => x \in M
  BY <1>3, <1>6, <1>7, <1>8 DEF Tiers
<1>10. q - x <= 7200 => Held(M, x, 300)
  <2> SUFFICES ASSUME q - x <= 7200 PROVE Held(M, x, 300)
    OBVIOUS
  <2>1. PICK b \in all : b >= x /\ b \div 300 = x \div 300
    BY <1>7 DEF Held
  <2>2. t - b <= 7200 /\ b \in Int
    BY <1>6, <1>8, <2>1
  <2>3. PICK f \in M : f >= b /\ f \div 300 = b \div 300
    BY <1>3, <2>2 DEF Tiers, Held
  <2>4. f \in Int
    BY <1>1, <1>4
  <2> QED
    BY <1>6, <2>1, <2>2, <2>3, <2>4 DEF Held
<1>11. q - x <= 86400 => Held(M, x, 3600)
  <2> SUFFICES ASSUME q - x <= 86400 PROVE Held(M, x, 3600)
    OBVIOUS
  <2>1. PICK b \in all : b >= x /\ b \div 3600 = x \div 3600
    BY <1>7 DEF Held
  <2>2. t - b <= 86400 /\ b \in Int
    BY <1>6, <1>8, <2>1
  <2>3. PICK f \in M : f >= b /\ f \div 3600 = b \div 3600
    BY <1>3, <2>2 DEF Tiers, Held
  <2>4. f \in Int
    BY <1>1, <1>4
  <2> QED
    BY <1>6, <2>1, <2>2, <2>3, <2>4 DEF Held
<1>12. q - x <= 604800 => Held(M, x, 86400)
  <2> SUFFICES ASSUME q - x <= 604800 PROVE Held(M, x, 86400)
    OBVIOUS
  <2>1. PICK b \in all : b >= x /\ b \div 86400 = x \div 86400
    BY <1>7 DEF Held
  <2>2. t - b <= 604800 /\ b \in Int
    BY <1>6, <1>8, <2>1
  <2>3. PICK f \in M : f >= b /\ f \div 86400 = b \div 86400
    BY <1>3, <2>2 DEF Tiers, Held
  <2>4. f \in Int
    BY <1>1, <1>4
  <2> QED
    BY <1>6, <2>1, <2>2, <2>3, <2>4 DEF Held
<1> QED
  BY <1>9, <1>10, <1>11, <1>12

-----------------------------------------------------------------------------
(* The history *)

\* No dump taken, none on disk.
LEMMA HistoryInit == Init => HistoryInv
<1> SUFFICES ASSUME Init PROVE HistoryInv
  OBVIOUS
<1>1. BaseInv
  <2>1. taken = {} /\ backups = {}
    BY DEF Init
  <2>2. IsFiniteSet(taken)
    BY <2>1, FS_EmptySet
  <2>3. Start \in Int /\ Start <= Start
    BY DEF Start
  <2>4. policy \in Policies /\ now = Start /\ peak = Start
    BY DEF Init
  <2>5. capped \in BOOLEAN
    BY DEF Init
  <2>6. taken \subseteq Int /\ backups \subseteq taken /\ \A x \in taken : x <= peak
    BY <2>1
  <2> QED
    BY <2>2, <2>3, <2>4, <2>5, <2>6 DEF BaseInv
<1>2. NewestInv
  BY DEF Init, NewestInv, Newest
<1>3. TierInv
  BY DEF Init, TierInv, Tiers
<1> QED
  BY <1>1, <1>2, <1>3 DEF HistoryInv

\* A prune keeps the bookkeeping of the history: only dumps that were taken are on disk.
LEMMA BackupBase ==
  ASSUME BaseInv, NEW gap \in Gaps, Backup(gap)
  PROVE  BaseInv'
<1>1. now + gap \in Int
  BY HistoryAssumption DEF BaseInv
<1>2. IsFiniteSet(taken')
  BY FS_AddElement DEF BaseInv, Backup
<1> DEFINE all == backups \cup {now + gap}
<1>3. all \subseteq taken' /\ taken' = taken \cup {now + gap}
  BY DEF BaseInv, Backup
<1>4. backups' \subseteq all
  <2>1. IsFiniteSet(all)
    BY <1>2, <1>3, FS_Subset
  <2>2. Kept(policy, all, now + gap) \subseteq all
    <3> HIDE DEF all
    <3> QED
      BY <2>1, KeptBounds
  <2> QED
    BY <2>2 DEF Backup
<1>5. /\ now' = now + gap
      /\ peak' = IF now + gap > peak THEN now + gap ELSE peak
  BY DEF BaseInv, Backup
<1> HIDE DEF all
<1>6. peak' \in Int /\ peak' >= peak /\ now' \in Int /\ now' <= peak'
  BY <1>1, <1>5 DEF BaseInv
<1>7. taken' \subseteq Int
  BY <1>1, <1>3 DEF BaseInv
<1>8. \A x \in taken' : x <= peak'
  <2>1. PICK p \in Int : p = peak' /\ p >= peak /\ now + gap <= p
    BY <1>5, <1>6
  <2>2. \A x \in taken : x \in Int /\ x <= peak /\ peak \in Int
    BY DEF BaseInv
  <2>3. \A x \in taken \cup {now + gap} : x <= p
    BY <2>1, <2>2
  <2> QED
    BY <1>3, <2>1, <2>3
<1>9. policy' \in Policies
  BY DEF BaseInv, Backup
<1>10. capped' \in BOOLEAN
  BY Zenon DEF BaseInv, Backup
<1>11. backups' \subseteq taken'
  BY <1>3, <1>4
<1> QED
  BY <1>2, <1>6, <1>7, <1>8, <1>9, <1>10, <1>11, Zenon DEF BaseInv

\* The two newest ever taken were on disk or are the dump just taken, so they are the two
\* newest of what the prune is given.
LEMMA BackupNewest ==
  ASSUME BaseInv, NewestInv, NEW gap \in Gaps, Backup(gap)
  PROVE  Newest(taken', 2) \subseteq backups'
<1> DEFINE t == now + gap
           all == backups \cup {t}
           ever == taken \cup {t}
<1>1. ever = taken' /\ backups' = Kept(policy, all, t)
  BY DEF Backup
<1>2. /\ IsFiniteSet(ever)
      /\ all \subseteq ever
      /\ 2 \in Nat
  BY FS_AddElement DEF BaseInv
<1>3. Newest(ever, 2) \subseteq all
  <2> SUFFICES ASSUME NEW e \in Newest(ever, 2), e # t PROVE e \in backups
    OBVIOUS
  <2>1. e \in taken /\ taken \subseteq ever
    BY DEF Newest
  <2>2. e \in Newest(taken, 2)
    <3> HIDE DEF ever
    <3> QED
      BY <1>2, <2>1, NewestOfPart
  <2> QED
    BY <2>2 DEF NewestInv
<1> HIDE DEF all, ever, t
<1>4. Newest(ever, 2) \subseteq Newest(all, 2)
  BY <1>2, <1>3, NewestOfPart
<1>5. Newest(all, 2) \subseteq Kept(policy, all, t)
  <2>1. IsFiniteSet(all)
    BY <1>2, FS_Subset
  <2> QED
    BY <2>1, KeptBounds
<1> QED
  BY <1>1, <1>4, <1>5

\* While the walk marks no more than the retain count, the prune leaves all it marks, and
\* that stands for every span the tiers promise.
LEMMA BackupTier ==
  ASSUME BaseInv, TierInv, NEW gap \in Gaps, Backup(gap)
  PROVE  TierInv'
<1> SUFFICES ASSUME policy' = "tiered", ~ capped' PROVE Tiers(taken', backups', peak')
  BY DEF TierInv
<1> DEFINE t == now + gap
           all == backups \cup {t}
           marked == Marked(all, t)
           q == IF t > peak THEN t ELSE peak
<1>1. t \in Int /\ all \subseteq Int
  BY HistoryAssumption DEF BaseInv
<1>2. IsFiniteSet(all)
  <2>1. IsFiniteSet(backups)
    BY FS_Subset DEF BaseInv
  <2> QED
    BY <2>1, FS_AddElement
<1>3. q \in Int /\ peak <= q /\ t <= q
  BY <1>1 DEF BaseInv
<1>4. /\ policy = "tiered"
      /\ ~ capped
      /\ ~ (Cardinality(marked) > Retain)
      /\ backups' = Kept(policy, all, t)
      /\ taken' = taken \cup {t}
      /\ peak' = q
  BY DEF Backup
<1> HIDE DEF q
<1>5. backups' = marked
  <2> HIDE DEF all, t
  <2>1. IsFiniteSet(marked) /\ marked \subseteq Int
    BY <1>1, <1>2, MarkedBounds, FS_Subset
  <2>2. Cardinality(marked) \in Nat
    BY <2>1, FS_CardinalityType
  <2>3. Retain \in Nat /\ Cardinality(marked) <= Retain
    BY <1>4, <2>2, RetainRange
  <2> HIDE DEF marked
  <2>4. Newest(marked, Retain) = marked
    BY <2>1, <2>3, NewestIsAll
  <2> QED
    BY <1>4, <2>4 DEF Kept, marked
<1>6. Tiers(taken \cup {t}, marked, q)
  <2>1. Tiers(taken, backups, peak)
    BY <1>4 DEF TierInv
  <2>2. /\ taken \subseteq Int
        /\ backups \subseteq taken
        /\ peak \in Int
        /\ \A x \in taken : x <= peak
    BY DEF BaseInv
  <2> HIDE DEF t
  <2> QED
    BY <1>1, <1>3, <2>1, <2>2, TiersCarried
<1> QED
  BY <1>4, <1>5, <1>6

\* The invariant is inductive.
LEMMA HistoryStep == HistoryInv /\ [Next]_vars => HistoryInv'
<1> SUFFICES ASSUME HistoryInv, [Next]_vars PROVE HistoryInv'
  OBVIOUS
<1>1. BaseInv /\ NewestInv /\ TierInv
  BY DEF HistoryInv
<1>2. ASSUME NEW gap \in Gaps, Backup(gap) PROVE HistoryInv'
  <2>1. BaseInv'
    BY <1>1, <1>2, BackupBase
  <2>2. NewestInv'
    BY <1>1, <1>2, BackupNewest DEF NewestInv
  <2>3. TierInv'
    BY <1>1, <1>2, BackupTier
  <2> QED
    BY <2>1, <2>2, <2>3 DEF HistoryInv
<1>3. CASE UNCHANGED vars
  BY <1>1, <1>3 DEF vars, HistoryInv, BaseInv, NewestInv, TierInv
<1> QED
  BY <1>2, <1>3 DEF Next

\* Every history of prunes keeps the invariant.
THEOREM HistoryInvariant == Spec => []HistoryInv
<1> QED
  BY HistoryInit, HistoryStep, PTL DEF Spec

\* Until the retain count bites, tiered retention keeps a dump of each 5 minutes of the
\* last 2 hours, each hour of the last day and each day of the last week.
THEOREM TiersStayCovered == Spec => []TiersCovered
<1>1. HistoryInv => TiersCovered
  BY DEF HistoryInv, TierInv, Tiers, Held, TiersCovered, Age, Covered
<1> QED
  BY <1>1, HistoryInvariant, PTL

\* No prune of any history removes one of the two newest dumps ever taken.
THEOREM TwoNewestStay == Spec => NewestTwoSurvive
<1>1. HistoryInv /\ [Next]_vars => [Newest(taken', 2) \subseteq backups']_vars
  BY BackupNewest DEF HistoryInv, Next
<1> QED
  BY <1>1, HistoryInvariant, PTL DEF Spec, NewestTwoSurvive
=============================================================================
