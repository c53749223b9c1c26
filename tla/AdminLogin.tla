------------------------------- MODULE AdminLogin -------------------------------
(***************************************************************************)
(* The limit on failed logins of docker/admin_service.py, a threaded       *)
(* server. A request reads the clock and takes the lock to check the       *)
(* limit, then reads its body and compares the token, then reads the clock *)
(* again and takes the lock to record the failure or to forget those of    *)
(* its address. Anything may happen between these steps.                   *)
(***************************************************************************)
EXTENDS Integers, Sequences, FiniteSets

CONSTANTS Clients,       \* remote addresses
          LoginThreads,  \* requests that are served at the same time
          Window, Block, \* seconds of the window and of the block
          MaxPerIp, MaxGlobal,
          Stall,         \* bounds the seconds from reading the clock to getting the lock
          LastSecond,    \* bounds the clock
          MaxLogins      \* bounds the requests

ASSUME LoginAssumption ==
    /\ IsFiniteSet(LoginThreads) /\ LoginThreads # {}
    /\ {Window, Block, MaxPerIp, MaxGlobal} \subseteq Nat \ {0}
    /\ {LastSecond, Stall, MaxLogins} \subseteq Nat

VARIABLES
    second,       \* time.time()
    byIp,         \* LOGIN_FAILURES_BY_IP
    global,       \* LOGIN_FAILURES_GLOBAL
    login,        \* the request of each thread
    missesByIp,   \* every failure of an address since its last success
    misses,       \* every failure since the service started
    logins        \* how many requests have arrived

loginVars == <<second, byIp, global, login, missesByIp, misses, logins>>

Seconds == 0..LastSecond
NoLogin == [pc |-> "idle", client |-> "none", clock |-> 0]

LoginInit ==
    /\ second = 0
    /\ byIp = [c \in Clients |-> <<>>]
    /\ global = <<>>
    /\ login = [t \in LoginThreads |-> NoLogin]
    /\ missesByIp = [c \in Clients |-> <<>>]
    /\ misses = <<>>
    /\ logins = 0

Longer == IF Window > Block THEN Window ELSE Block

\* Entries are dropped from the left until one is young enough: the clocks of two
\* threads need not be in the order in which they got the lock.
PruneFailures(values, now, seconds) ==
    LET old(i) == \A j \in 1..i : values[j] <= now - seconds
        dropped == Cardinality({i \in DOMAIN values : old(i)})
    IN SubSeq(values, dropped + 1, Len(values))

PruneEntries(now) == [c \in Clients |-> PruneFailures(byIp[c], now, Longer)]

Last(values) == values[Len(values)]

Limited(values, limit, now) ==
    /\ Len(values) >= limit
    /\ now - Last(values) < Block

Arrive(t, client) ==
    /\ login[t].pc = "idle"
    /\ logins < MaxLogins
    /\ logins' = logins + 1
    /\ login' = [login EXCEPT ![t] = [pc |-> "check", client |-> client, clock |-> second]]
    /\ UNCHANGED <<second, byIp, global, missesByIp, misses>>

\* login_retry_after: what it prunes stays pruned.
Check(t) ==
    /\ login[t].pc = "check"
    /\ byIp' = PruneEntries(login[t].clock)
    /\ global' = PruneFailures(global, login[t].clock, Longer)
    /\ LET limited == \/ Limited(byIp'[login[t].client], MaxPerIp, login[t].clock)
                      \/ Limited(global', MaxGlobal, login[t].clock)
       IN login' = [login EXCEPT ![t] = IF limited THEN NoLogin ELSE [@ EXCEPT !.pc = "compare"]]
    /\ UNCHANGED <<second, missesByIp, misses, logins>>

\* A request whose body is not JSON is answered with 400.
Compare(t) ==
    /\ login[t].pc = "compare"
    /\ \/ login' = [login EXCEPT ![t] = [@ EXCEPT !.pc = "record", !.clock = second]]
       \/ login' = [login EXCEPT ![t].pc = "clear"]
       \/ login' = [login EXCEPT ![t] = NoLogin]
    /\ UNCHANGED <<second, byIp, global, missesByIp, misses, logins>>

\* Defect: a failure replaces those of its address.
RecordOnlyLast(t) ==
    LET now == login[t].clock
        client == login[t].client
    IN /\ login[t].pc = "record"
       /\ byIp' = [PruneEntries(now) EXCEPT ![client] = <<now>>]
       /\ global' = Append(PruneFailures(global, now, Window), now)
       /\ missesByIp' = [missesByIp EXCEPT ![client] = Append(@, now)]
       /\ misses' = Append(misses, now)
       /\ login' = [login EXCEPT ![t] = NoLogin]
       /\ UNCHANGED <<second, logins>>

\* record_login_failure prunes by the window what a check keeps for the block.
Record(t) ==
    LET now == login[t].clock
        client == login[t].client
    IN /\ login[t].pc = "record"
       /\ byIp' = [PruneEntries(now) EXCEPT ![client] = Append(PruneFailures(@, now, Window), now)]
       /\ global' = Append(PruneFailures(global, now, Window), now)
       /\ missesByIp' = [missesByIp EXCEPT ![client] = Append(@, now)]
       /\ misses' = Append(misses, now)
       /\ login' = [login EXCEPT ![t] = NoLogin]
       /\ UNCHANGED <<second, logins>>

\* A success forgets the failures of its address, not their share of the global ones.
Clear(t) ==
    /\ login[t].pc = "clear"
    /\ byIp' = [byIp EXCEPT ![login[t].client] = <<>>]
    /\ missesByIp' = [missesByIp EXCEPT ![login[t].client] = <<>>]
    /\ login' = [login EXCEPT ![t] = NoLogin]
    /\ UNCHANGED <<second, global, misses, logins>>

SecondPasses ==
    /\ second < LastSecond
    /\ \A t \in LoginThreads :
           login[t].pc \in {"check", "record"} => second - login[t].clock < Stall
    /\ second' = second + 1
    /\ UNCHANGED <<byIp, global, login, missesByIp, misses, logins>>

LoginNext ==
    \/ \E t \in LoginThreads :
           \/ \E client \in Clients : Arrive(t, client)
           \/ Check(t) \/ Compare(t) \/ Record(t) \/ Clear(t)
    \/ SecondPasses

LoginSpec == LoginInit /\ [][LoginNext]_loginVars

------------------------------------------------------------------------------
(* Properties *)

\* The variables keep their types.
LoginTypeOK ==
    /\ second \in Seconds
    /\ byIp \in [Clients -> Seq(Seconds)]
    /\ global \in Seq(Seconds)
    /\ login \in [LoginThreads -> [pc : {"idle", "check", "compare", "record", "clear"},
                                   client : Clients \cup {"none"}, clock : Seconds]]
    /\ missesByIp \in [Clients -> Seq(Seconds)]
    /\ misses \in Seq(Seconds)
    /\ logins \in 0..MaxLogins

Shorter == IF Window < Block THEN Window ELSE Block

\* The failures of any stretch shorter than window and block, by as much as the last
\* failure to be recorded can be older than one before it.
Within(values, limit) ==
    \A from \in Seconds :
        Cardinality({i \in DOMAIN values : values[i] \in from..(from + Shorter - Stall - 1)})
            <= limit + Cardinality(LoginThreads) - 1

\* However checks, comparisons and records of several requests interleave, an
\* address gets no more wrong guesses into a window than its limit and one for every
\* other request in flight, and neither do all addresses together.
GuessesBounded ==
    /\ \A c \in Clients : Within(missesByIp[c], MaxPerIp)
    /\ Within(misses, MaxGlobal)
=============================================================================
