-------------------------------- MODULE OpsCache --------------------------------
(***************************************************************************)
(* The cached sections of docker/ops_service.py. A threaded server answers *)
(* every request from sections that probe the other processes. A section   *)
(* is kept for a while, and while one thread builds a section it holds the *)
(* only lock: a re-entrant one, for the section "status" is built from two *)
(* other sections. What the agent backend answers is added to a copy of    *)
(* the health section, outside the cache.                                  *)
(*                                                                         *)
(* With OPS_CACHE_TTL_SECONDS=0 nothing is cached and nothing locked; that *)
(* case is left out.                                                       *)
(***************************************************************************)
EXTENDS Integers, Sequences

CONSTANTS OpsThreads,  \* requests that are served at the same time
          Ttl,         \* OPS_CACHE_TTL_SECONDS
          Build,       \* bounds the seconds a probe takes, by its timeouts
          LastTick,    \* bounds the clock
          MaxAsks      \* bounds the requests

ASSUME CacheAssumption ==
    /\ Ttl \in Nat \ {0}
    /\ {Build, LastTick, MaxAsks} \subseteq Nat

VARIABLES
    tick,    \* time.time()
    cache,   \* OPS_CACHE
    frames,  \* the calls of each thread that are under way, the request first
    asks     \* how many requests have arrived

cacheVars == <<tick, cache, frames, asks>>

Leaves == {"supervisor", "health", "system"}
Keys == Leaves \cup {"status"}

\* What a section is built from, and the sections of each kind of request.
Parts(key) == IF key = "status" THEN <<"supervisor", "health">> ELSE <<>>
OpsRequests == {<<"health">>, <<"health", "supervisor">>, <<"health", "system">>, <<"status">>}

\* oldest: when the oldest of its probes began; sound: what the health checks found.
CacheEntry == [expires : 0..(LastTick + Ttl), oldest : 0..LastTick, sound : BOOLEAN]
NotCached == [expires |-> 0, oldest |-> 0, sound |-> TRUE]

Earlier(a, b) == IF a < b THEN a ELSE b
Asked(keys) == [key |-> "request", todo |-> keys, since |-> 0, oldest |-> 0]
Frame(key) == [key |-> key, todo |-> Parts(key), since |-> tick, oldest |-> tick]

CacheInit ==
    /\ tick = 0
    /\ cache = [k \in Keys |-> NotCached]
    /\ frames = [t \in OpsThreads |-> <<>>]
    /\ asks = 0

Depth(t) == Len(frames[t])
Top(t) == frames[t][Depth(t)]

\* A thread holds the lock while it builds a section; a fetch takes it and, on a hit,
\* gives it back.
Builds(t) == Depth(t) > 1

\* Defect: a plain lock, which a thread that holds it cannot take again.
PlainLock(t) == \A u \in OpsThreads : ~Builds(u)

LockIsFree(t) == \A u \in OpsThreads \ {t} : ~Builds(u)

\* Defect: an entry is still good in the second in which it expires.
HitAtEnd(key) == cache[key].expires >= tick /\ cache[key].expires > 0

Hit(key) == cache[key].expires > tick

\* The frame goes on with a payload for the first section that it waits for.
Take(frame, oldest) ==
    [frame EXCEPT !.todo = Tail(@), !.oldest = Earlier(@, oldest)]

Ask(t, keys) ==
    /\ Depth(t) = 0
    /\ asks < MaxAsks
    /\ asks' = asks + 1
    /\ frames' = [frames EXCEPT ![t] = <<Asked(keys)>>]
    /\ UNCHANGED <<tick, cache>>

\* Defect: the verdict of the agent backend is added to the payload in the cache.
EnrichedInPlace(key) ==
    \E up \in BOOLEAN : cache' = [cache EXCEPT ![key].sound = @ /\ (key = "health" => up)]

\* health_payload adds that verdict to a copy.
Enriched(key) == cache' = cache

Fetch(t) ==
    /\ Depth(t) > 0
    /\ Top(t).todo # <<>>
    /\ LockIsFree(t)
    /\ LET key == Head(Top(t).todo) IN
       IF Hit(key)
       THEN /\ frames' = [frames EXCEPT ![t][Depth(t)] = Take(@, cache[key].oldest)]
            /\ Enriched(key)
       ELSE /\ frames' = [frames EXCEPT ![t] = Append(@, Frame(key))]
            /\ UNCHANGED cache
    /\ UNCHANGED <<tick, asks>>

\* A build ends: the entry expires Ttl after its end, not after its beginning.
Store(t) ==
    /\ Builds(t)
    /\ Top(t).todo = <<>>
    /\ LET built == Top(t)
           callers == SubSeq(frames[t], 1, Depth(t) - 1)
       IN /\ \E sound \in BOOLEAN :
                 /\ built.key # "health" => sound
                 /\ cache' = [cache EXCEPT ![built.key] =
                        [expires |-> tick + Ttl, oldest |-> built.oldest, sound |-> sound]]
          /\ frames' = [frames EXCEPT
                 ![t] = [callers EXCEPT ![Depth(t) - 1] = Take(@, built.oldest)]]
    /\ UNCHANGED <<tick, asks>>

Reply(t) ==
    /\ Depth(t) = 1
    /\ Top(t).todo = <<>>
    /\ frames' = [frames EXCEPT ![t] = <<>>]
    /\ UNCHANGED <<tick, cache, asks>>

\* Only probes take time.
Probing(t) == Builds(t) /\ Top(t).todo = <<>> /\ Top(t).key \in Leaves

TickPasses ==
    /\ tick < LastTick
    /\ \A t \in OpsThreads : Builds(t) => Probing(t) /\ tick - Top(t).since < Build
    /\ tick' = tick + 1
    /\ UNCHANGED <<cache, frames, asks>>

ServeStep(t) == Fetch(t) \/ Store(t) \/ Reply(t)

CacheNext ==
    \/ \E t \in OpsThreads : (\E keys \in OpsRequests : Ask(t, keys)) \/ ServeStep(t)
    \/ TickPasses

\* Every thread runs, and every probe has a timeout.
CacheFairness == \A t \in OpsThreads : WF_cacheVars(ServeStep(t))

CacheSpec == CacheInit /\ [][CacheNext]_cacheVars /\ CacheFairness

------------------------------------------------------------------------------
(* Properties *)

\* The variables keep their types.
CacheTypeOK ==
    /\ tick \in 0..LastTick
    /\ cache \in [Keys -> CacheEntry]
    /\ \A t \in OpsThreads : \A i \in 1..Depth(t) :
           /\ frames[t][i].key \in Keys \cup {"request"}
           /\ frames[t][i].todo \in Seq(Keys)
           /\ {frames[t][i].since, frames[t][i].oldest} \subseteq 0..LastTick
    /\ asks \in 0..MaxAsks

\* How long a build takes is added to the time a section is kept, and "status" keeps
\* sections that were themselves kept.
AgeLimit(key) == IF key = "status" THEN 2 * (Ttl - 1 + Build) ELSE Ttl - 1 + Build

\* No section is ever served with data that is older.
SectionsAreFresh ==
    \A key \in Keys : Hit(key) => tick - cache[key].oldest <= AgeLimit(key)

\* Who finds the agent backend unreachable does not tell the others: what is served
\* from the health section changes only when it is built again.
VerdictNotCached ==
    [][\A key \in Keys : cache'[key].expires = cache[key].expires
                               => cache'[key].sound = cache[key].sound]_cacheVars

\* Every request is answered, whatever others wait for at the same time.
RepliesEnd == \A t \in OpsThreads : Depth(t) > 0 ~> Depth(t) = 0
=============================================================================
