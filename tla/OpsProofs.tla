------------------------------- MODULE OpsProofs -------------------------------
(***************************************************************************)
(* What the ops service shows: how old a section of OpsCache can be, for   *)
(* any number of threads and requests, any time to live and any duration   *)
(* of the probes, and that what is served changes only with a build; and   *)
(* the verdicts of OpsReadiness for any number of plugins, versions,       *)
(* bindings and scans, and for logs of any length.                         *)
(***************************************************************************)
EXTENDS OpsCache, OpsReadiness, SequenceTheorems, FiniteSetTheorems, TLAPS

-----------------------------------------------------------------------------
(* The cache of the sections. *)

USE CacheAssumption

-----------------------------------------------------------------------------
(* Frames *)

\* The bounds, one by one.
LEMMA Bounds == /\ Ttl \in Nat /\ Ttl > 0 /\ Build \in Nat /\ LastTick \in Nat /\ MaxAsks \in Nat
OBVIOUS

Call == [key : Keys \cup {"request"}, todo : Seq(Keys), since : 0..LastTick, oldest : 0..LastTick]

\* The dates of a call are numbers.
LEMMA CallDates == ASSUME NEW f \in Call PROVE f.oldest \in Nat /\ f.since \in Nat
<1>1. f.oldest \in 0..LastTick /\ f.since \in 0..LastTick BY DEF Call
<1>2. QED BY <1>1, Bounds

\* The topmost call changes.
LEMMA ChangeTop ==
    ASSUME NEW s \in Seq(Call), Len(s) > 0, NEW f \in Call
    PROVE  LET new == [s EXCEPT ![Len(s)] = f] IN
           /\ new \in Seq(Call) /\ Len(new) = Len(s) /\ new[Len(s)] = f
           /\ \A i \in 1..(Len(s) - 1) : new[i] = s[i]
OBVIOUS

\* A call is added.
LEMMA PushCall ==
    ASSUME NEW s \in Seq(Call), NEW f \in Call
    PROVE  LET new == Append(s, f) IN
           /\ new \in Seq(Call) /\ Len(new) = Len(s) + 1 /\ new[Len(s) + 1] = f
           /\ \A i \in 1..Len(s) : new[i] = s[i]
OBVIOUS

\* A call returns to its caller, which changes.
LEMMA PopCall ==
    ASSUME NEW s \in Seq(Call), Len(s) > 1, NEW f \in Call
    PROVE  LET new == [SubSeq(s, 1, Len(s) - 1) EXCEPT ![Len(s) - 1] = f] IN
           /\ new \in Seq(Call) /\ Len(new) = Len(s) - 1 /\ new[Len(s) - 1] = f
           /\ SubSeq(s, 1, Len(s) - 1)[Len(s) - 1] = s[Len(s) - 1]
           /\ \A i \in 1..(Len(s) - 2) : new[i] = s[i]
<1> DEFINE callers == SubSeq(s, 1, Len(s) - 1)
<1>1. /\ callers \in Seq(Call) /\ Len(callers) = Len(s) - 1
      /\ \A i \in 1..(Len(s) - 1) : callers[i] = s[i]
  OBVIOUS
<1> HIDE DEF callers
<1>2. LET new == [callers EXCEPT ![Len(callers)] = f] IN
      /\ new \in Seq(Call) /\ Len(new) = Len(callers) /\ new[Len(callers)] = f
      /\ \A i \in 1..(Len(callers) - 1) : new[i] = callers[i]
  BY <1>1, ChangeTop
<1>3. QED BY <1>1, <1>2 DEF callers

\* No call at all, and a single one.
LEMMA FewCalls ==
    /\ \E new \in Seq(Call) : new = <<>> /\ Len(new) <= 1
    /\ \A f \in Call : \E new \in Seq(Call) : new = <<f>> /\ Len(new) <= 1
<1>1. <<>> \in Seq(Call) /\ Len(<<>>) <= 1 OBVIOUS
<1>2. \A f \in Call : <<f>> \in Seq(Call) /\ Len(<<f>>) <= 1 OBVIOUS
<1>3. QED BY <1>1, <1>2, Zenon

\* The sections that "status" is built from, one after the other.
Both == <<"supervisor", "health">>
Second == <<"health">>

\* "supervisor" comes first, then "health", then nothing.
LEMMA PartsInOrder ==
    /\ Both # <<>> /\ Head(Both) = "supervisor" /\ Tail(Both) = Second
    /\ Second # <<>> /\ Head(Second) = "health" /\ Tail(Second) = <<>>
    /\ Both \in Seq(Keys) /\ Second \in Seq(Keys) /\ <<>> \in Seq(Keys) /\ Both # Second
BY DEF Both, Second, Keys, Leaves

\* A call that takes a payload keeps its type, and the older of the two dates.
LEMMA TakeType ==
    ASSUME NEW f \in Call, f.todo # <<>>, NEW oldest \in 0..LastTick
    PROVE  /\ Take(f, oldest) \in Call
           /\ Take(f, oldest).key = f.key /\ Take(f, oldest).todo = Tail(f.todo)
           /\ Take(f, oldest).since = f.since
           /\ Take(f, oldest).oldest = IF f.oldest < oldest THEN f.oldest ELSE oldest
<1>1. Tail(f.todo) \in Seq(Keys) BY DEF Call
<1>2. QED BY <1>1 DEF Take, Earlier, Call

-----------------------------------------------------------------------------
(* The invariant *)

CacheInv ==
    /\ tick \in 0..LastTick
    /\ cache \in [Keys -> CacheEntry]
    /\ frames \in [OpsThreads -> Seq(Call)]

\* A kept section is no older than its build could be long.
KeptInv ==
    \A key \in Keys :
        cache[key].expires - cache[key].oldest
            <= IF key = "status" THEN 2 * Ttl - 1 + 2 * Build ELSE Ttl + Build

\* A probe under way.
ProbeOf(f, key) ==
    /\ f.key = key /\ f.todo = <<>> /\ f.oldest = f.since
    /\ tick - f.since <= Build

\* What a thread builds: one probe, or "status" and for it one probe after another.
Building(f, g, depth) ==
    \/ depth = 2 /\ \E key \in Leaves : ProbeOf(f, key)
    \/ /\ depth = 2 /\ f.key = "status"
       /\ \/ f.todo = Both /\ tick <= f.oldest
          \/ f.todo = Second /\ tick - f.oldest <= Ttl - 1 + Build
          \/ f.todo = <<>> /\ tick - f.oldest <= Ttl - 1 + 2 * Build
    \/ /\ depth = 3 /\ f.key = "status"
       /\ \/ f.todo = Both /\ ProbeOf(g, "supervisor") /\ g.since <= f.oldest
          \/ f.todo = Second /\ ProbeOf(g, "health") /\ g.since - f.oldest <= Ttl - 1 + Build

BuildInv ==
    \A t \in OpsThreads :
        Builds(t) => frames[t][1].todo # <<>> /\ Building(frames[t][2], frames[t][3], Depth(t))

\* One thread builds at a time, and only sections that have expired.
LockInv ==
    /\ \A t, u \in OpsThreads : Builds(t) /\ Builds(u) => t = u
    /\ \A t \in OpsThreads : \A i \in 2..Depth(t) :
           /\ frames[t][i].key \in Keys
           /\ cache[frames[t][i].key].expires <= tick

OpsInv == CacheInv /\ KeptInv /\ BuildInv /\ LockInv

\* A section that is served is as young as its kind allows.
LEMMA HitAge ==
    ASSUME OpsInv, NEW key \in Keys, Hit(key)
    PROVE  tick - cache[key].oldest <= AgeLimit(key)
<1>1. /\ cache[key].expires \in Nat /\ cache[key].oldest \in Nat /\ tick \in Nat
  BY DEF OpsInv, CacheInv, CacheEntry
<1>2. CASE key = "status" BY <1>1, <1>2 DEF OpsInv, KeptInv, Hit, AgeLimit
<1>3. CASE key # "status" BY <1>1, <1>3 DEF OpsInv, KeptInv, Hit, AgeLimit
<1>4. QED BY <1>2, <1>3

\* Before the first request nothing is kept.
LEMMA OpsStart == CacheInit => OpsInv
<1> SUFFICES ASSUME CacheInit PROVE OpsInv OBVIOUS
<1>1. tick = 0 /\ cache = [k \in Keys |-> NotCached] /\ frames = [t \in OpsThreads |-> <<>>]
  BY DEF CacheInit
<1>2. NotCached \in CacheEntry BY DEF NotCached, CacheEntry
<1>3. CacheInv BY <1>1, <1>2 DEF CacheInv
<1>4. KeptInv BY <1>1 DEF KeptInv, NotCached
<1>5. \A t \in OpsThreads : Depth(t) = 0 BY <1>1 DEF Depth
<1>6. QED BY <1>3, <1>4, <1>5 DEF OpsInv, BuildInv, Building, LockInv, Builds

-----------------------------------------------------------------------------
(* The steps *)

\* Threads that do not move, and a cache that stays, keep what holds of them.
LEMMA OthersStay ==
    ASSUME OpsInv, NEW t \in OpsThreads, NEW new \in Seq(Call),
           frames' = [frames EXCEPT ![t] = new], UNCHANGED tick
    PROVE  /\ frames' \in [OpsThreads -> Seq(Call)]
           /\ frames'[t] = new /\ Depth(t)' = Len(new)
           /\ \A u \in OpsThreads \ {t} : frames'[u] = frames[u] /\ Depth(u)' = Depth(u)
BY DEF OpsInv, CacheInv, Depth

\* A request begins or is answered.
LEMMA IdleStep ==
    ASSUME OpsInv, NEW t \in OpsThreads, NEW new \in Seq(Call), Len(new) <= 1,
           frames' = [frames EXCEPT ![t] = new], UNCHANGED <<tick, cache>>
    PROVE  OpsInv'
<1>1. /\ frames' \in [OpsThreads -> Seq(Call)] /\ Depth(t)' = Len(new)
      /\ \A u \in OpsThreads \ {t} : frames'[u] = frames[u] /\ Depth(u)' = Depth(u)
  BY OthersStay
<1>2. ~Builds(t)' BY <1>1 DEF Builds
<1>3. \A u \in OpsThreads : Builds(u)' => u # t /\ Builds(u) BY <1>1, <1>2 DEF Builds
<1>4. BuildInv' BY <1>1, <1>3 DEF OpsInv, BuildInv, Building, ProbeOf
<1>5. LockInv'
  <2>1. \A u, v \in OpsThreads : Builds(u)' /\ Builds(v)' => u = v BY <1>3 DEF OpsInv, LockInv
  <2>2. ASSUME NEW u \in OpsThreads, NEW i \in 2..Depth(u)'
        PROVE  frames'[u][i].key \in Keys /\ cache'[frames'[u][i].key].expires <= tick'
    <3>1. Len(new) \in Nat OBVIOUS
    <3>2. u # t BY <1>1, <3>1
    <3>3. QED BY <1>1, <3>2 DEF OpsInv, LockInv
  <2>3. QED BY <2>1, <2>2 DEF LockInv
<1>6. QED BY <1>1, <1>4, <1>5 DEF OpsInv, CacheInv, KeptInv

\* A hit: the caller goes on with the kept section.
LEMMA HitStep ==
    ASSUME OpsInv, NEW t \in OpsThreads, Depth(t) > 0, Top(t).todo # <<>>,
           NEW key, key = Head(Top(t).todo), Hit(key),
           frames' = [frames EXCEPT ![t][Depth(t)] = Take(@, cache[key].oldest)],
           UNCHANGED <<tick, cache>>
    PROVE  OpsInv'
<1> DEFINE s == frames[t]
           f == Take(Top(t), cache[key].oldest)
           new == [s EXCEPT ![Len(s)] = f]
<1>1. /\ s \in Seq(Call) /\ Len(s) = Depth(t) /\ Depth(t) \in Nat /\ Top(t) \in Call
      /\ tick \in Nat
  BY DEF OpsInv, CacheInv, Depth, Top
<1>2. key \in Keys BY <1>1 DEF Call
<1>3. cache[key].oldest \in 0..LastTick BY <1>2 DEF OpsInv, CacheInv, CacheEntry
<1>4. /\ f \in Call /\ f.key = Top(t).key /\ f.todo = Tail(Top(t).todo)
      /\ f.oldest = IF Top(t).oldest < cache[key].oldest THEN Top(t).oldest ELSE cache[key].oldest
  BY <1>1, <1>3, TakeType
<1>5. frames' = [frames EXCEPT ![t] = new] BY <1>1 DEF Top, OpsInv, CacheInv
<1> HIDE DEF f
<1>6. /\ new \in Seq(Call) /\ Len(new) = Depth(t) /\ new[Depth(t)] = f
      /\ \A i \in 1..(Depth(t) - 1) : new[i] = s[i]
  BY <1>1, <1>4, ChangeTop
<1> HIDE DEF new
<1>7. CASE Depth(t) = 1
  <2>1. new \in Seq(Call) /\ Len(new) <= 1 BY <1>6, <1>7
  <2>2. frames' = [frames EXCEPT ![t] = new] /\ UNCHANGED <<tick, cache>> BY <1>5
  <2>3. QED BY <2>1, <2>2, IdleStep
<1>8. CASE Depth(t) > 1
  <2>1. /\ frames' \in [OpsThreads -> Seq(Call)] /\ frames'[t] = new /\ Depth(t)' = Depth(t)
        /\ \A u \in OpsThreads \ {t} : frames'[u] = frames[u] /\ Depth(u)' = Depth(u)
    BY <1>5, <1>6, OthersStay
  <2>2. Depth(t) = 2 /\ s[2].key = "status" /\ s[2] = Top(t)
    BY <1>1, <1>8 DEF OpsInv, BuildInv, Building, Builds, ProbeOf, Top, Depth
  <2>3. tick - cache[key].oldest <= AgeLimit(key) BY <1>2, HitAge
  <2>4. /\ frames'[t][2] = f /\ f.key = "status"
        /\ \/ f.todo = Second /\ tick - f.oldest <= Ttl - 1 + Build
           \/ f.todo = <<>> /\ tick - f.oldest <= Ttl - 1 + 2 * Build
    <3>1. frames'[t][2] = f /\ f.key = "status" BY <1>4, <1>6, <2>1, <2>2
    <3>2. /\ s[2].oldest \in Nat /\ cache[key].oldest \in Nat /\ Build \in Nat /\ Ttl \in Nat \ {0}
      BY <1>1, <1>3, <2>2 DEF Call
    <3>3. CASE s[2].todo = Both /\ tick <= s[2].oldest
      <4>1. key = "supervisor" /\ f.todo = Second BY <3>3, <2>2, <1>4, PartsInOrder
      <4>2. tick - cache[key].oldest <= Ttl - 1 + Build BY <4>1, <2>3 DEF AgeLimit
      <4>3. QED BY <3>1, <3>2, <3>3, <4>1, <4>2, <1>1, <1>4, <2>2
    <3>4. CASE s[2].todo = Second /\ tick - s[2].oldest <= Ttl - 1 + Build
      <4>1. key = "health" /\ f.todo = <<>> BY <3>4, <2>2, <1>4, PartsInOrder
      <4>2. tick - cache[key].oldest <= Ttl - 1 + Build BY <4>1, <2>3 DEF AgeLimit
      <4>3. tick - f.oldest <= Ttl - 1 + Build BY <3>4, <4>2, <1>4, <2>2
      <4>4. f.oldest \in Nat BY <1>4 DEF Call
      <4>5. tick - f.oldest <= Ttl - 1 + 2 * Build BY <4>3, <4>4, <3>2, <1>1
      <4>6. QED BY <3>1, <4>1, <4>5
    <3>5. QED BY <3>3, <3>4, <2>2, <1>8 DEF OpsInv, BuildInv, Building, Builds, ProbeOf
  <2>5. BuildInv'
    <3>1. \A u \in OpsThreads \ {t} : Builds(u)' = Builds(u) BY <2>1 DEF Builds
    <3>2. QED BY <2>1, <2>2, <2>4, <3>1 DEF OpsInv, BuildInv, Building, Builds, ProbeOf
  <2>6. LockInv'
    <3>1. \A u \in OpsThreads : Builds(u)' = Builds(u) BY <2>1 DEF Builds
    <3>2. \A i \in 2..Depth(t) : frames'[t][i].key = frames[t][i].key BY <2>1, <2>2, <2>4
    <3>3. QED BY <2>1, <3>1, <3>2 DEF OpsInv, LockInv
  <2>7. QED BY <2>1, <2>5, <2>6 DEF OpsInv, CacheInv, KeptInv
<1>9. QED BY <1>1, <1>7, <1>8

\* A miss: the thread has the lock, and builds.
LEMMA MissStep ==
    ASSUME OpsInv, NEW t \in OpsThreads, Depth(t) > 0, Top(t).todo # <<>>, LockIsFree(t),
           NEW key, key = Head(Top(t).todo), ~Hit(key),
           frames' = [frames EXCEPT ![t] = Append(@, Frame(key))],
           UNCHANGED <<tick, cache>>
    PROVE  OpsInv'
<1> DEFINE s == frames[t]
<1>1. /\ s \in Seq(Call) /\ Len(s) = Depth(t) /\ Depth(t) \in Nat /\ Top(t) \in Call
      /\ tick \in Nat /\ tick \in 0..LastTick
  BY DEF OpsInv, CacheInv, Depth, Top
<1>2. key \in Keys BY <1>1 DEF Call
<1>3. cache[key].expires <= tick
  <2>1. cache[key].expires \in Nat BY <1>2 DEF OpsInv, CacheInv, CacheEntry
  <2>2. QED BY <2>1, <1>1 DEF Hit
<1>4. PICK f \in Call : f = Frame(key)
  <2>1. Parts(key) \in Seq(Keys) BY PartsInOrder DEF Parts, Both
  <2>2. QED BY <2>1, <1>1, <1>2 DEF Frame, Call
<1>5. /\ f.key = key /\ f.since = tick /\ f.oldest = tick
      /\ f.todo = IF key = "status" THEN Both ELSE <<>>
  BY <1>4 DEF Frame, Parts, Both
<1> DEFINE new == Append(s, f)
<1>6. /\ new \in Seq(Call) /\ Len(new) = Depth(t) + 1 /\ new[Depth(t) + 1] = f
      /\ \A i \in 1..Depth(t) : new[i] = s[i]
  BY <1>1, <1>4, PushCall
<1>7. frames' = [frames EXCEPT ![t] = new] BY <1>4 DEF OpsInv, CacheInv
<1> HIDE DEF new
<1>8. /\ frames' \in [OpsThreads -> Seq(Call)] /\ frames'[t] = new /\ Depth(t)' = Depth(t) + 1
      /\ \A u \in OpsThreads \ {t} : frames'[u] = frames[u] /\ Depth(u)' = Depth(u)
  BY <1>6, <1>7, OthersStay
<1>9. \A u \in OpsThreads \ {t} : ~Builds(u) /\ ~Builds(u)' BY <1>8 DEF LockIsFree, Builds
<1>10. ~Builds(t)
       \/ /\ Depth(t) = 2 /\ s[2].key = "status" /\ s[2] = Top(t)
          /\ \/ s[2].todo = Both /\ tick <= s[2].oldest /\ key = "supervisor"
             \/ s[2].todo = Second /\ tick - s[2].oldest <= Ttl - 1 + Build /\ key = "health"
  <2>1. SUFFICES ASSUME Builds(t)
                 PROVE  /\ Depth(t) = 2 /\ s[2].key = "status" /\ s[2] = Top(t)
                        /\ \/ s[2].todo = Both /\ tick <= s[2].oldest
                           \/ s[2].todo = Second /\ tick - s[2].oldest <= Ttl - 1 + Build
    BY PartsInOrder
  <2>2. QED BY <2>1, <1>1 DEF OpsInv, BuildInv, Building, ProbeOf, Top, Depth
<1>11. BuildInv'
  <2>1. CASE Depth(t) = 1
    <3>1. Depth(t)' = 2 /\ frames'[t][2] = f /\ frames'[t][1].todo # <<>>
      <4>1. s[1] = Top(t) BY <2>1 DEF Top
      <4>2. QED BY <4>1, <2>1, <1>1, <1>6, <1>8
    <3>2. CASE key = "status"
      <4>1. f.key = "status" /\ f.todo = Both /\ tick' <= f.oldest
        BY <3>2, <1>1, <1>5
      <4>2. QED BY <3>1, <4>1, <1>9 DEF BuildInv, Building
    <3>3. CASE key # "status"
      <4>1. key \in Leaves BY <3>3, <1>2 DEF Keys
      <4>2. ProbeOf(f, key)' BY <3>3, <1>1, <1>5 DEF ProbeOf
      <4>3. QED BY <3>1, <4>1, <4>2, <1>9 DEF BuildInv, Building
    <3>4. QED BY <3>2, <3>3
  <2>2. CASE Depth(t) > 1
    <3>1. Builds(t) BY <2>2 DEF Builds
    <3>2. Depth(t)' = 3 /\ frames'[t][2] = s[2] /\ frames'[t][3] = f /\ frames'[t][1].todo # <<>>
      <4>1. Depth(t) = 2 BY <3>1, <1>10
      <4>2. {1, 2} \subseteq 1..Depth(t) /\ Depth(t) + 1 = 3 BY <4>1
      <4>3. s[1].todo # <<>> BY <3>1 DEF OpsInv, BuildInv
      <4>4. QED BY <4>2, <4>3, <1>6, <1>8
    <3>3. f.todo = <<>> /\ f.key = key /\ f.since = tick /\ f.oldest = tick
          /\ key \in {"supervisor", "health"}
      BY <3>1, <1>5, <1>10
    <3>4. QED BY <3>1, <3>2, <3>3, <1>1, <1>9, <1>10 DEF BuildInv, Building, ProbeOf
  <2>3. QED BY <2>1, <2>2, <1>1
<1>12. LockInv'
  <2>1. \A u, v \in OpsThreads : Builds(u)' /\ Builds(v)' => u = v BY <1>9
  <2>2. \A i \in 2..Depth(t)' : /\ frames'[t][i].key \in Keys
                                /\ cache'[frames'[t][i].key].expires <= tick'
    <3>1. ASSUME NEW i \in 2..Depth(t) PROVE frames'[t][i] = frames[t][i]
      <4>1. i \in 1..Depth(t) BY <1>1
      <4>2. QED BY <4>1, <1>6, <1>8
    <3>2. frames'[t][Depth(t) + 1].key = key BY <1>5, <1>6, <1>8
    <3>3. QED BY <3>1, <3>2, <1>1, <1>2, <1>3, <1>8 DEF OpsInv, LockInv
  <2>3. QED BY <2>1, <2>2, <1>8 DEF OpsInv, LockInv
<1>13. QED BY <1>8, <1>11, <1>12 DEF OpsInv, CacheInv, KeptInv

\* Whatever changes the verdict of a section changes when it expires.
VerdictKept ==
    \A key \in Keys : cache'[key].expires = cache[key].expires
                          => cache'[key].sound = cache[key].sound

\* A build ends, and its caller goes on with what was built.
LEMMA StoreStep ==
    ASSUME OpsInv, NEW t \in OpsThreads, Store(t)
    PROVE  OpsInv' /\ VerdictKept
<1> DEFINE s == frames[t]
           built == Top(t)
           caller == s[Depth(t) - 1]
           f == Take(caller, built.oldest)
           callers == SubSeq(s, 1, Depth(t) - 1)
<1>1. /\ s \in Seq(Call) /\ Len(s) = Depth(t) /\ Depth(t) \in Nat /\ Depth(t) > 1
      /\ built \in Call /\ built = s[Depth(t)] /\ caller \in Call /\ built.todo = <<>>
      /\ tick \in Nat /\ tick \in 0..LastTick /\ tick' = tick
  BY DEF OpsInv, CacheInv, Depth, Top, Store, Builds
<1>2. /\ Builds(t) /\ \A u \in OpsThreads \ {t} : ~Builds(u)
  BY DEF Store, OpsInv, LockInv
<1>3. built.key \in Keys /\ cache[built.key].expires <= tick
  <2>1. Depth(t) \in 2..Depth(t) BY <1>1
  <2>2. QED BY <1>1, <2>1 DEF OpsInv, LockInv
<1>4. PICK sound \in BOOLEAN :
          cache' = [cache EXCEPT ![built.key] =
                       [expires |-> tick + Ttl, oldest |-> built.oldest, sound |-> sound]]
  BY DEF Store
<1>5. /\ cache' \in [Keys -> CacheEntry]
      /\ cache'[built.key] = [expires |-> tick + Ttl, oldest |-> built.oldest, sound |-> sound]
      /\ \A key \in Keys \ {built.key} : cache'[key] = cache[key]
  <2>1. [expires |-> tick + Ttl, oldest |-> built.oldest, sound |-> sound] \in CacheEntry
    <3>1. built.oldest \in 0..LastTick BY <1>1 DEF Call
    <3>2. tick + Ttl \in 0..(LastTick + Ttl) BY <1>1
    <3>3. QED BY <3>1, <3>2 DEF CacheEntry
  <2>2. QED BY <1>3, <1>4, <2>1 DEF OpsInv, CacheInv
<1>6. VerdictKept
  <2>1. cache[built.key].expires \in Nat BY <1>3 DEF OpsInv, CacheInv, CacheEntry
  <2>2. cache'[built.key].expires = tick + Ttl BY <1>5
  <2>3. tick + Ttl > cache[built.key].expires BY <1>1, <1>3, <2>1
  <2>4. QED BY <1>1, <1>5, <2>1, <2>2, <2>3 DEF VerdictKept
\* What is built, and for whom.
<1>7. \/ /\ Depth(t) = 2 /\ \E key \in Leaves : ProbeOf(built, key)
      \/ /\ Depth(t) = 2 /\ built.key = "status" /\ tick - built.oldest <= Ttl - 1 + 2 * Build
      \/ /\ Depth(t) = 3 /\ caller.key = "status" /\ caller = s[2]
         /\ \/ /\ caller.todo = Both /\ ProbeOf(built, "supervisor") /\ built.since <= caller.oldest
            \/ /\ caller.todo = Second /\ ProbeOf(built, "health")
               /\ built.since - caller.oldest <= Ttl - 1 + Build
  <2>1. Building(s[2], s[3], Depth(t)) BY <1>2 DEF OpsInv, BuildInv
  <2>2. CASE Depth(t) = 2
    <3>1. built = s[2] BY <1>1, <2>2
    <3>2. Both # <<>> /\ Second # <<>> BY PartsInOrder
    <3>3. QED BY <1>1, <2>1, <2>2, <3>1, <3>2 DEF Building
  <2>3. CASE Depth(t) = 3
    <3>1. built = s[3] /\ caller = s[2] BY <1>1, <2>3
    <3>2. QED BY <2>1, <2>3, <3>1 DEF Building
  <2>4. QED BY <2>1, <2>2, <2>3 DEF Building
<1>8. caller.todo # <<>>
  <2>1. CASE Depth(t) = 3 BY <1>7, <2>1, PartsInOrder
  <2>2. CASE Depth(t) = 2 BY <2>2, <1>2 DEF OpsInv, BuildInv
  <2>3. QED BY <1>7, <2>1, <2>2
<1>9. /\ f \in Call /\ f.key = caller.key /\ f.todo = Tail(caller.todo)
       /\ f.oldest = IF caller.oldest < built.oldest THEN caller.oldest ELSE built.oldest
  <2>1. built.oldest \in 0..LastTick BY <1>1 DEF Call
  <2>2. QED BY <1>1, <1>8, <2>1, TakeType
<1>10. PICK g \in Call : g = f BY <1>9
<1>11. PICK new \in Seq(Call) :
         /\ frames' = [frames EXCEPT ![t] = new]
         /\ Len(new) = Depth(t) - 1 /\ new[Depth(t) - 1] = g
         /\ \A i \in 1..(Depth(t) - 2) : new[i] = s[i]
  <2>1. /\ [callers EXCEPT ![Depth(t) - 1] = g] \in Seq(Call)
        /\ Len([callers EXCEPT ![Depth(t) - 1] = g]) = Depth(t) - 1
        /\ [callers EXCEPT ![Depth(t) - 1] = g][Depth(t) - 1] = g
        /\ \A i \in 1..(Depth(t) - 2) : [callers EXCEPT ![Depth(t) - 1] = g][i] = s[i]
        /\ callers[Depth(t) - 1] = caller
    <3>1. Len(s) = Depth(t) /\ Len(s) > 1 BY <1>1
    <3>2. LET old == [SubSeq(s, 1, Len(s) - 1) EXCEPT ![Len(s) - 1] = g] IN
          /\ old \in Seq(Call) /\ Len(old) = Len(s) - 1 /\ old[Len(s) - 1] = g
          /\ SubSeq(s, 1, Len(s) - 1)[Len(s) - 1] = s[Len(s) - 1]
          /\ \A i \in 1..(Len(s) - 2) : old[i] = s[i]
      <4>1. s \in Seq(Call) BY <1>1
      <4>2. QED BY <3>1, <4>1, PopCall
    <3>3. QED BY <3>1, <3>2
  <2>2. frames' = [frames EXCEPT ![t] =
                      [callers EXCEPT ![Depth(t) - 1] = Take(callers[Depth(t) - 1], built.oldest)]]
    BY DEF Store
  <2>3. frames' = [frames EXCEPT ![t] = [callers EXCEPT ![Depth(t) - 1] = g]]
    BY <2>1, <2>2, <1>10
  <2>4. QED BY <2>1, <2>3
<1> HIDE DEF f
<1>12. /\ frames' \in [OpsThreads -> Seq(Call)] /\ frames'[t] = new /\ Depth(t)' = Depth(t) - 1
       /\ \A u \in OpsThreads \ {t} : frames'[u] = frames[u] /\ Depth(u)' = Depth(u)
  <2>1. UNCHANGED tick BY <1>1
  <2>2. QED BY <1>11, <2>1, OthersStay
<1>13. \A u \in OpsThreads \ {t} : ~Builds(u)' BY <1>2, <1>12 DEF Builds
<1>14. CacheInv' BY <1>1, <1>5, <1>12 DEF OpsInv, CacheInv
<1>15. KeptInv'
  <2>1. \A key \in Keys \ {built.key} : cache'[key] = cache[key] BY <1>5
  <2>2. tick + Ttl - built.oldest
            <= IF built.key = "status" THEN 2 * Ttl - 1 + 2 * Build ELSE Ttl + Build
    <3>1. built.oldest \in Nat /\ Ttl \in Nat /\ Build \in Nat BY <1>1, Bounds, CallDates
    <3>2. CASE \E key \in Leaves : ProbeOf(built, key)
      <4>1. built.key # "status" /\ tick - built.oldest <= Build
        BY <3>2 DEF ProbeOf, Leaves
      <4>2. QED BY <3>1, <4>1, <1>1
    <3>3. CASE built.key = "status" /\ tick - built.oldest <= Ttl - 1 + 2 * Build
      BY <3>1, <3>3, <1>1
    <3>4. QED BY <1>7, <3>2, <3>3 DEF Leaves
  <2>3. /\ cache'[built.key].expires = tick + Ttl /\ cache'[built.key].oldest = built.oldest
    BY <1>5
  <2>4. ASSUME NEW key \in Keys
        PROVE  cache'[key].expires - cache'[key].oldest
                   <= IF key = "status" THEN 2 * Ttl - 1 + 2 * Build ELSE Ttl + Build
    <3>1. CASE key = built.key
      <4>1. cache'[key].expires = tick + Ttl /\ cache'[key].oldest = built.oldest BY <3>1, <2>3
      <4>2. tick \in Nat /\ Ttl \in Nat /\ built.oldest \in Nat BY <1>1, Bounds, CallDates
      <4>3. PICK dated \in Nat : dated = built.oldest BY <4>2
      <4>4. PICK expires \in Nat : expires = tick + Ttl BY <4>2
      <4>5. cache'[key].expires = expires /\ cache'[key].oldest = dated BY <4>1, <4>3, <4>4
      <4>6. cache'[key].expires - cache'[key].oldest = expires - dated BY <4>5
      <4>7. cache'[key].expires - cache'[key].oldest = tick + Ttl - built.oldest
        BY <4>2, <4>3, <4>4, <4>6
      <4>8. CASE key = "status"
        <5>1. tick + Ttl - built.oldest <= 2 * Ttl - 1 + 2 * Build BY <2>2, <3>1, <4>8
        <5>2. QED BY <5>1, <4>7, <4>8
      <4>9. CASE key # "status"
        <5>1. tick + Ttl - built.oldest <= Ttl + Build BY <2>2, <3>1, <4>9
        <5>2. QED BY <5>1, <4>7, <4>9
      <4>10. QED BY <4>8, <4>9
    <3>2. CASE key # built.key
      <4>1. cache'[key] = cache[key] BY <2>1, <3>2
      <4>2. QED BY <4>1 DEF OpsInv, KeptInv
    <3>3. QED BY <3>1, <3>2
  <2>5. QED BY <2>4 DEF KeptInv
<1>16. CASE Depth(t) = 2
  <2>1. ~Builds(t)' /\ Depth(t)' = 1 BY <1>12, <1>16 DEF Builds
  <2>2. \A u \in OpsThreads : ~Builds(u)' BY <2>1, <1>13
  <2>3. BuildInv' BY <2>2 DEF BuildInv
  <2>4. LockInv'
    <3>1. \A u \in OpsThreads : Depth(u)' \in Nat /\ Depth(u)' <= 1
      <4>1. \A u \in OpsThreads : Depth(u)' \in Nat BY <1>12 DEF Depth
      <4>2. QED BY <2>2, <4>1 DEF Builds
    <3>2. QED BY <2>2, <3>1 DEF LockInv
  <2>5. QED BY <1>6, <1>14, <1>15, <2>3, <2>4 DEF OpsInv
<1>17. CASE Depth(t) = 3
  <2>1. /\ Depth(t)' = 2 /\ frames'[t][2] = g /\ frames'[t][1] = s[1]
    BY <1>11, <1>10, <1>12, <1>17
  <2>2. s[1].todo # <<>> BY <1>2 DEF OpsInv, BuildInv
  <2>3. /\ g.key = "status"
        /\ \/ g.todo = Second /\ tick - g.oldest <= Ttl - 1 + Build
           \/ g.todo = <<>> /\ tick - g.oldest <= Ttl - 1 + 2 * Build
    <3>1. /\ caller.oldest \in Nat /\ built.oldest \in Nat /\ g.oldest \in Nat
          /\ Ttl \in Nat /\ Ttl > 0 /\ Build \in Nat
          /\ g.key = "status" /\ g.todo = Tail(caller.todo)
          /\ g.oldest = IF caller.oldest < built.oldest THEN caller.oldest ELSE built.oldest
      <4>1. caller.oldest \in Nat /\ built.oldest \in Nat /\ g.oldest \in Nat
        BY <1>1, CallDates
      <4>2. caller.key = "status" BY <1>7, <1>17
      <4>3. QED BY <4>1, <4>2, <1>9, <1>10, Bounds
    <3>2. CASE /\ caller.todo = Both /\ ProbeOf(built, "supervisor") /\ built.since <= caller.oldest
      <4>1. built.oldest = built.since /\ tick - built.oldest <= Build BY <3>2 DEF ProbeOf
      <4>2. built.oldest <= caller.oldest BY <3>2, <4>1
      <4>3. tick - g.oldest <= Build BY <3>1, <4>1, <4>2, <1>1
      <4>4. tick - g.oldest <= Ttl - 1 + Build BY <3>1, <4>3, <1>1
      <4>5. QED BY <3>1, <3>2, <4>4, PartsInOrder
    <3>3. CASE /\ caller.todo = Second /\ ProbeOf(built, "health")
               /\ built.since - caller.oldest <= Ttl - 1 + Build
      <4>1. built.oldest = built.since /\ tick - built.oldest <= Build BY <3>3 DEF ProbeOf
      <4>2. built.oldest - caller.oldest <= Ttl - 1 + Build BY <3>3, <4>1
      <4>3. tick - g.oldest <= Ttl - 1 + 2 * Build BY <3>1, <4>1, <4>2, <1>1
      <4>4. QED BY <3>1, <3>3, <4>3, PartsInOrder
    <3>4. QED BY <1>7, <1>17, <3>2, <3>3
  <2>4. BuildInv' BY <2>1, <2>2, <2>3, <1>1, <1>13 DEF BuildInv, Building
  <2>5. LockInv'
    <3>1. cache[s[2].key].expires <= tick /\ s[2].key \in Keys
      <4>1. 2 \in 2..Depth(t) BY <1>17
      <4>2. QED BY <4>1 DEF OpsInv, LockInv
    <3>2. s[2].key = "status" /\ built.key # "status" BY <1>7, <1>17 DEF ProbeOf
    <3>3. cache'[g.key] = cache[s[2].key] /\ g.key \in Keys BY <2>3, <3>1, <3>2, <1>5
    <3>4. \A u, v \in OpsThreads : Builds(u)' /\ Builds(v)' => u = v BY <1>13
    <3>5. \A u \in OpsThreads \ {t} : Depth(u)' <= 1
      <4>1. \A u \in OpsThreads : Depth(u)' \in Nat BY <1>12 DEF Depth
      <4>2. QED BY <1>13, <4>1 DEF Builds
    <3>6. ASSUME NEW u \in OpsThreads, NEW i \in 2..Depth(u)'
          PROVE  frames'[u][i].key \in Keys /\ cache'[frames'[u][i].key].expires <= tick'
      <4>1. Depth(u)' \in Nat BY <1>12 DEF Depth
      <4>2. u = t BY <3>5, <4>1
      <4>3. i = 2 BY <4>2, <2>1
      <4>4. QED BY <4>2, <4>3, <2>1, <3>1, <3>3, <1>1
    <3>7. QED BY <3>4, <3>6 DEF LockInv
  <2>6. QED BY <1>6, <1>14, <1>15, <2>4, <2>5 DEF OpsInv
<1>18. QED BY <1>7, <1>16, <1>17

\* A second passes, while every build waits for a probe that has time left.
LEMMA TickStep == ASSUME OpsInv, TickPasses PROVE OpsInv'
<1>1. /\ tick' = tick + 1 /\ UNCHANGED <<cache, frames>> /\ tick \in Nat /\ tick' \in 0..LastTick
  BY DEF TickPasses, OpsInv, CacheInv
<1>2. CacheInv' /\ KeptInv' BY <1>1 DEF OpsInv, CacheInv, KeptInv
<1>3. BuildInv'
  <2>1. ASSUME NEW t \in OpsThreads, Builds(t)
        PROVE  Building(frames[t][2], frames[t][3], Depth(t))'
    <3>1. /\ Top(t) \in Call /\ Depth(t) \in Nat /\ Depth(t) > 1
          /\ Top(t).key \in Leaves /\ tick - Top(t).since < Build
          /\ Building(frames[t][2], frames[t][3], Depth(t))
      BY <2>1 DEF TickPasses, Probing, OpsInv, BuildInv, CacheInv, Builds, Top, Depth
    <3>2. Top(t).since \in Nat /\ Build \in Nat BY <3>1 DEF Call
    <3>3. \A key \in Leaves : ProbeOf(Top(t), key) => ProbeOf(Top(t), key)'
      BY <1>1, <3>1, <3>2 DEF ProbeOf, Top, Depth
    <3>4. CASE Depth(t) = 2
      <4>1. Top(t) = frames[t][2] BY <3>4 DEF Top
      <4>2. PICK key \in Leaves : ProbeOf(Top(t), key)
        BY <3>1, <3>4, <4>1 DEF Building, Leaves
      <4>3. ProbeOf(Top(t), key)' BY <3>3, <4>2
      <4>4. Top(t)' = frames[t][2]' /\ Depth(t)' = 2 BY <1>1, <3>4, <4>1 DEF Top, Depth
      <4>5. ProbeOf(frames[t][2], key)' BY <4>3, <4>4 DEF ProbeOf
      <4>6. QED BY <4>4, <4>5 DEF Building
    <3>5. CASE Depth(t) = 3
      <4>1. Top(t) = frames[t][3] BY <3>5 DEF Top
      <4>2. QED BY <1>1, <3>1, <3>2, <3>5, <4>1 DEF Building, ProbeOf, Depth, Leaves
    <3>6. QED BY <3>1, <3>4, <3>5 DEF Building
  <2>2. \A t \in OpsThreads : Builds(t)' = Builds(t) BY <1>1 DEF Builds, Depth
  <2>3. QED BY <1>1, <2>1, <2>2 DEF OpsInv, BuildInv
<1>4. LockInv'
  <2>1. \A t \in OpsThreads : Builds(t)' = Builds(t) /\ Depth(t)' = Depth(t)
    BY <1>1 DEF Builds, Depth
  <2>2. \A key \in Keys : cache[key].expires \in Nat BY DEF OpsInv, CacheInv, CacheEntry
  <2>3. QED BY <1>1, <2>1, <2>2 DEF OpsInv, LockInv
<1>5. QED BY <1>2, <1>3, <1>4 DEF OpsInv

\* Every step keeps the invariant, and the verdict of every section that is not built.
LEMMA OpsStep == ASSUME OpsInv, [CacheNext]_cacheVars PROVE OpsInv' /\ VerdictKept
<1>1. CASE UNCHANGED cacheVars
  <2>1. UNCHANGED <<tick, cache, frames>> BY <1>1 DEF cacheVars
  <2>2. QED
    BY <2>1 DEF OpsInv, CacheInv, KeptInv, BuildInv, Building, ProbeOf, LockInv, Builds, Depth,
                VerdictKept
<1>2. ASSUME NEW t \in OpsThreads, NEW keys \in OpsRequests, Ask(t, keys)
      PROVE  OpsInv' /\ VerdictKept
  <2>1. Asked(keys) \in Call
    <3>1. <<"health">> \in Seq(Keys) /\ <<"status">> \in Seq(Keys) BY DEF Keys, Leaves
    <3>2. <<"health", "supervisor">> \in Seq(Keys) BY DEF Keys, Leaves
    <3>3. <<"health", "system">> \in Seq(Keys) BY DEF Keys, Leaves
    <3>4. keys \in Seq(Keys) BY <3>1, <3>2, <3>3 DEF OpsRequests
    <3>5. 0 \in 0..LastTick BY Bounds
    <3>6. QED BY <3>4, <3>5 DEF Asked, Call
  <2>2. PICK new \in Seq(Call) : new = <<Asked(keys)>> /\ Len(new) <= 1
    BY <2>1, FewCalls
  <2>3. frames' = [frames EXCEPT ![t] = new] /\ UNCHANGED <<tick, cache>>
    BY <1>2, <2>2 DEF Ask
  <2>4. OpsInv' BY <2>2, <2>3, IdleStep
  <2>5. QED BY <2>3, <2>4 DEF VerdictKept
<1>3. ASSUME NEW t \in OpsThreads, Fetch(t) PROVE OpsInv' /\ VerdictKept
  <2> DEFINE key == Head(Top(t).todo)
  <2>1. Depth(t) > 0 /\ Top(t).todo # <<>> /\ LockIsFree(t) /\ UNCHANGED <<tick, cache>>
    BY <1>3 DEF Fetch, Enriched
  <2>2. CASE Hit(key)
    <3>1. frames' = [frames EXCEPT ![t][Depth(t)] = Take(@, cache[key].oldest)]
      BY <1>3, <2>2 DEF Fetch
    <3>2. QED BY <2>1, <2>2, <3>1, HitStep DEF VerdictKept
  <2>3. CASE ~Hit(key)
    <3>1. frames' = [frames EXCEPT ![t] = Append(@, Frame(key))] BY <1>3, <2>3 DEF Fetch
    <3>2. QED BY <2>1, <2>3, <3>1, MissStep DEF VerdictKept
  <2>4. QED BY <2>2, <2>3
<1>4. ASSUME NEW t \in OpsThreads, Reply(t) PROVE OpsInv' /\ VerdictKept
  <2>1. PICK new \in Seq(Call) : new = <<>> /\ Len(new) <= 1 BY FewCalls
  <2>2. frames' = [frames EXCEPT ![t] = new] /\ UNCHANGED <<tick, cache>>
    BY <1>4, <2>1 DEF Reply
  <2>3. OpsInv' BY <2>1, <2>2, IdleStep
  <2>4. QED BY <2>2, <2>3 DEF VerdictKept
<1>5. CASE TickPasses BY <1>5, TickStep DEF TickPasses, VerdictKept
<1>6. QED BY <1>1, <1>2, <1>3, <1>4, <1>5, StoreStep DEF CacheNext, ServeStep

\* Each step keeps what the cache and its builds owe each other.
THEOREM CacheInvariant == CacheSpec => []OpsInv
<1>1. OpsInv /\ [CacheNext]_cacheVars => OpsInv' BY OpsStep
<1>2. QED BY <1>1, OpsStart, PTL DEF CacheSpec

\* The clock, the sections, the calls and the requests keep their types.
THEOREM CacheTypes == CacheSpec => []CacheTypeOK
<1>1. CacheInit => asks \in 0..MaxAsks BY Bounds DEF CacheInit
<1>2. asks \in 0..MaxAsks /\ [CacheNext]_cacheVars => (asks \in 0..MaxAsks)'
  <2> SUFFICES ASSUME asks \in 0..MaxAsks, [CacheNext]_cacheVars PROVE asks' \in 0..MaxAsks
    OBVIOUS
  <2>1. ASSUME NEW t \in OpsThreads, NEW keys \in OpsRequests, Ask(t, keys)
        PROVE  asks' \in 0..MaxAsks
    BY <2>1, Bounds DEF Ask
  <2>2. ASSUME NEW t \in OpsThreads, ServeStep(t) PROVE asks' \in 0..MaxAsks
    BY <2>2 DEF ServeStep, Fetch, Store, Reply
  <2>3. CASE TickPasses \/ UNCHANGED cacheVars BY <2>3 DEF TickPasses, cacheVars
  <2>4. QED BY <2>1, <2>2, <2>3 DEF CacheNext
<1>3. OpsInv /\ asks \in 0..MaxAsks => CacheTypeOK
  <2> SUFFICES ASSUME OpsInv, asks \in 0..MaxAsks PROVE CacheTypeOK OBVIOUS
  <2>1. ASSUME NEW t \in OpsThreads, NEW i \in 1..Depth(t)
        PROVE  /\ frames[t][i].key \in Keys \cup {"request"}
               /\ frames[t][i].todo \in Seq(Keys)
               /\ {frames[t][i].since, frames[t][i].oldest} \subseteq 0..LastTick
    <3>1. frames[t] \in Seq(Call) /\ i \in 1..Len(frames[t])
      BY DEF OpsInv, CacheInv, Depth
    <3>2. frames[t][i] \in Call BY <3>1
    <3>3. QED BY <3>2 DEF Call
  <2>2. QED BY <2>1 DEF OpsInv, CacheInv, CacheTypeOK
<1>4. QED BY <1>1, <1>2, <1>3, CacheInvariant, PTL DEF CacheSpec

\* No section is ever served with data that is older than its kind allows.
THEOREM CacheSectionsAreFresh == CacheSpec => []SectionsAreFresh
<1>1. OpsInv => SectionsAreFresh BY HitAge DEF SectionsAreFresh
<1>2. QED BY <1>1, CacheInvariant, PTL

\* What is served from a section changes only when it is built again.
THEOREM CacheVerdictNotCached == CacheSpec => VerdictNotCached
<1>1. OpsInv /\ [CacheNext]_cacheVars => OpsInv' BY OpsStep
<1>2. OpsInv /\ [CacheNext]_cacheVars => [VerdictKept]_cacheVars BY OpsStep
<1>3. [VerdictKept]_cacheVars
          <=> [\A key \in Keys : cache'[key].expires = cache[key].expires
                                     => cache'[key].sound = cache[key].sound]_cacheVars
  BY DEF VerdictKept
<1>4. QED BY <1>1, <1>2, <1>3, OpsStart, PTL DEF CacheSpec, VerdictNotCached

HIDE CacheAssumption

-----------------------------------------------------------------------------
(* The readiness endpoints: each computes its verdict from one snapshot. *)

USE ReadinessAssumption

-----------------------------------------------------------------------------
(* The types. *)

\* What a snapshot starts from is a snapshot.
LEMMA BlankType == Blank \in Snapshot
<1>1. Unlisted \in Version BY DEF Unlisted, Version
<1>2. [i \in Identifiers |-> Unlisted] \in [Identifiers -> Version] BY <1>1
<1>3. {} \in Scans BY DEF Scans
<1>4. <<{}, {}>> \in Seq(Scans) BY <1>3
<1>5. QED BY <1>2, <1>4 DEF Blank, Snapshot

\* The snapshots that /persistence and /provider-models look at have the type.
THEOREM ReadinessTypes == ReadinessSpec => []ReadinessTypeOK
<1>1. ReadinessInit => ReadinessTypeOK BY BlankType DEF ReadinessInit, ReadinessTypeOK
<1>2. ReadinessTypeOK /\ [ReadinessNext]_seen => ReadinessTypeOK'
  <2> SUFFICES ASSUME ReadinessTypeOK, ReadinessNext PROVE ReadinessTypeOK'
    BY DEF ReadinessTypeOK
  <2>f. OneFailed \subseteq SUBSET {"plugins", "references", "models"} BY DEF OneFailed
  <2>1. CASE \E failed \in OneFailed, versions \in [Identifiers -> ListedVersions({Needed})],
                a, b \in Scans, bucket \in BOOLEAN, paths \in {"direct", "symlink", "missing"} :
                LookAtPersistence(versions, <<a, b>>, failed, bucket, paths)
    <3>1. PICK failed \in OneFailed, versions \in [Identifiers -> ListedVersions({Needed})],
               a \in Scans, b \in Scans, bucket \in BOOLEAN,
               paths \in {"direct", "symlink", "missing"} :
               LookAtPersistence(versions, <<a, b>>, failed, bucket, paths)
      BY <2>1
    <3>2. versions \in [Identifiers -> Version] BY DEF ListedVersions
    <3>3. <<a, b>> \in Seq(Scans) OBVIOUS
    <3>4. QED BY <3>1, <3>2, <3>3, <2>f, BlankType DEF LookAtPersistence, ReadinessTypeOK, Snapshot
  <2>2. CASE \E failed \in OneFailed,
                versions \in [Identifiers -> {v \in ListedVersions(PluginIds) :
                                                 v.package \/ v = Unlisted}],
                scan \in Scans,
                bindings \in {bs \in SUBSET Bindings : Cardinality(bs) \in 1..MaxBindings} :
                LookAtApplication(versions, scan, failed, bindings)
    <3>1. PICK failed \in OneFailed,
               versions \in [Identifiers -> {v \in ListedVersions(PluginIds) :
                                                v.package \/ v = Unlisted}],
               scan \in Scans,
               bindings \in {bs \in SUBSET Bindings : Cardinality(bs) \in 1..MaxBindings} :
               LookAtApplication(versions, scan, failed, bindings)
      BY <2>2
    <3>2. versions \in [Identifiers -> Version] BY DEF ListedVersions
    <3>3. <<scan>> \in Seq(Scans) OBVIOUS
    <3>4. QED BY <3>1, <3>2, <3>3, <2>f, BlankType DEF LookAtApplication, ReadinessTypeOK, Snapshot
  <2>3. QED BY <2>1, <2>2 DEF ReadinessNext
<1>3. QED BY <1>1, <1>2, PTL DEF ReadinessSpec

-----------------------------------------------------------------------------
(* The log. *)

LogSeq == Seq({"ready", "error"})

\* The errors of a log can be counted.
LEMMA LogErrorsType ==
    ASSUME NEW log \in LogSeq
    PROVE  /\ LogErrors(log) \in Nat
           /\ LogErrors(log) = 0 =>
                  {n \in DOMAIN log : log[n] = "error" /\ LogReady(SubSeq(log, 1, n))} = {}
<1> DEFINE errors == {n \in DOMAIN log : log[n] = "error" /\ LogReady(SubSeq(log, 1, n))}
<1>1. DOMAIN log = 1..Len(log) /\ Len(log) \in Nat BY DEF LogSeq
<1>2. IsFiniteSet(1..Len(log)) BY <1>1, FS_Interval
<1>3. errors \in SUBSET (1..Len(log)) BY <1>1
<1>4. IsFiniteSet(errors) BY <1>2, <1>3, FS_Subset
<1>5. Cardinality(errors) \in Nat /\ (Cardinality(errors) = 0 => errors = {})
  BY <1>4, FS_CardinalityType, FS_EmptySet
<1>6. QED BY <1>5 DEF LogErrors

\* A log that says ready and counts no error since ends well.
LEMMA CountedLogRuns ==
    ASSUME NEW log \in LogSeq, LogReady(log), LogErrors(log) = 0
    PROVE  LastWordReady(log)
<1>1. PICK n \in DOMAIN log : log[n] = "ready" BY DEF LogReady
<1>2. DOMAIN log = 1..Len(log) /\ Len(log) \in Nat BY DEF LogSeq
<1>3. ASSUME NEW m \in DOMAIN log, m > n, log[m] = "error" PROVE FALSE
  <2>1. n \in 1..m /\ m <= Len(log) /\ m \in Nat BY <1>2, <1>3
  <2>2. n \in DOMAIN SubSeq(log, 1, m) /\ SubSeq(log, 1, m)[n] = log[n] BY <2>1, <1>2 DEF LogSeq
  <2>3. LogReady(SubSeq(log, 1, m)) BY <2>2, <1>1 DEF LogReady
  <2>4. QED BY <2>3, <1>3, LogErrorsType
<1>4. QED BY <1>1, <1>3 DEF LastWordReady

\* Each version of a snapshot has such a log.
LEMMA LogType == ASSUME ReadinessTypeOK, NEW i \in Rows PROVE seen.versions[i].log \in LogSeq
<1>1. seen.versions[i] \in Version BY DEF ReadinessTypeOK, Snapshot, Rows
<1>2. QED BY <1>1 DEF Version, LogSeq

-----------------------------------------------------------------------------
(* The verdicts. *)

\* /persistence asks of all plugins what /provider-models asks of each.
LEMMA Agree == ReadinessTypeOK => PersistenceAgrees
<1> SUFFICES ASSUME ReadinessTypeOK PROVE PersistenceAgrees OBVIOUS
<1>1. CASE ~(DatabasesOk /\ RedisOk)
  BY <1>1 DEF PersistenceAgrees, PersistenceOk, PluginSectionOk
<1>2. CASE DatabasesOk /\ RedisOk
  <2>1. SectionRows = Rows BY <1>2 DEF SectionRows
  <2>2. ASSUME NEW i \in Rows
        PROVE  (i \notin MissingPackages /\ i \notin MissingInstalled /\ i \notin MissingStates)
                   <=> (RuntimeReady(i) /\ PluginIssues(i) = {})
    <3>1. LogErrors(seen.versions[i].log) \in Nat BY LogType, LogErrorsType
    <3>2. PluginIssues(i) = {}
              <=> /\ seen.versions[i].package /\ seen.versions[i].installed
                  /\ RuntimeReady(i)
      BY <1>2 DEF PluginIssues, RuntimeReady
    <3>3. i \notin MissingStates
              <=> \/ HasState(i)
                  \/ LogReady(seen.versions[i].log) /\ LogErrors(seen.versions[i].log) = 0
      BY <3>1 DEF MissingStates
    <3>4. QED BY <3>2, <3>3 DEF MissingPackages, MissingInstalled, RuntimeReady
  <2>3. MissingPackages \subseteq Rows /\ MissingInstalled \subseteq Rows /\ MissingStates \subseteq Rows
    BY DEF MissingPackages, MissingInstalled, MissingStates
  <2>4. (MissingPackages = {} /\ MissingInstalled = {} /\ MissingStates = {})
            <=> \A i \in SectionRows : RuntimeReady(i) /\ PluginIssues(i) = {}
    BY <2>1, <2>2, <2>3
  <2>5. QED BY <1>2, <2>4 DEF PersistenceAgrees, PersistenceOk, PluginSectionOk
<1>3. QED BY <1>1, <1>2

\* The two endpoints agree on every snapshot.
THEOREM ReadinessAgrees == ReadinessSpec => []PersistenceAgrees
BY ReadinessTypes, Agree, PTL

\* A plugin that counts as ready runs.
LEMMA ReadyRuns ==
    ASSUME ReadinessTypeOK, NEW i \in Rows, RuntimeReady(i)
    PROVE  Runs(seen.versions[i].plugin)
<1>1. HasState(i) \/ LastWordReady(seen.versions[i].log)
  BY LogType, CountedLogRuns DEF RuntimeReady
<1>2. seen.versions[i].installed BY DEF RuntimeReady
<1>3. QED BY <1>1, <1>2 DEF Runs

\* Every code that an unsound binding raises blocks.
LEMMA Sound == ReadinessTypeOK => DispatchSound
<1> SUFFICES ASSUME ReadinessTypeOK, ReadyForDispatch, NEW b \in seen.bindings
             PROVE  /\ b.model \in {"valid", "unnamed"}
                    /\ b.plugin # NoPlugin =>
                           DatabasesOk /\ RedisOk /\ (Rows # {} => Runs(b.plugin))
  BY DEF DispatchSound
<1>1. b \in Bindings BY DEF ReadinessTypeOK, Snapshot
<1>2. ModelIssues(b) \cap BlockingCodes = {} /\ RuntimeIssues(b) \cap BlockingCodes = {}
  BY DEF ReadyForDispatch, AppIssues
<1>3. b.model \in {"valid", "unnamed"}
  BY <1>1, <1>2 DEF Bindings, ModelIssues, BlockingCodes
<1>4. ASSUME b.plugin # NoPlugin
      PROVE  DatabasesOk /\ RedisOk /\ (Rows # {} => Runs(b.plugin))
  <2>1. PluginSectionOk
    BY <1>2, <1>4 DEF RuntimeIssues, BlockingCodes
  <2>2. SectionRows = Rows BY <2>1 DEF SectionRows, PluginSectionOk
  <2>3. ASSUME Rows # {} PROVE Runs(b.plugin)
    <3> DEFINE versions == {i \in SectionRows : seen.versions[i].plugin = b.plugin}
    <3>1. CASE \E i \in versions : RuntimeReady(i)
      BY <3>1, <2>2, ReadyRuns
    <3>2. CASE ~\E i \in versions : RuntimeReady(i)
      <4>1. RuntimeIssues(b) \in {{"metadata_missing"}, {"installed_missing"}, {"runtime_missing"}}
        BY <3>2, <2>1, <2>2, <2>3, <1>4 DEF RuntimeIssues
      <4>2. QED BY <4>1, <1>2 DEF BlockingCodes
    <3>3. QED BY <3>1, <3>2
  <2>4. QED BY <2>1, <2>3 DEF PluginSectionOk
<1>5. QED BY <1>3, <1>4

\* An application that is called ready has valid models and providers that run.
THEOREM ReadinessDispatchSound == ReadinessSpec => []DispatchSound
BY ReadinessTypes, Sound, PTL
=============================================================================
