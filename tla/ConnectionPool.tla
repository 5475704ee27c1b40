--------------------------- MODULE ConnectionPool ---------------------------
(***************************************************************************)
(* The reference-counted pool of internal/controller/connection_pool.go,   *)
(* for the connections of one configuration hash, and the passes that      *)
(* borrow from it through WithJSMClient and WithJetStreamClient.            *)
(*                                                                         *)
(* Get and release run under the pool's mutex, so each is one action; the  *)
(* deferred close of release runs in a goroutine of its own that finds its *)
(* connection again by the hash.                                            *)
(***************************************************************************)
EXTENDS Integers, FiniteSets

CONSTANTS
    Users,           \* passes that run concurrently
    JSMUsers,        \* those that use WithJSMClient
    Conns,           \* identities of pooledConnection objects
    NoConn,          \* no connection
    MaxRefs,         \* bound: reference count of a connection
    MaxTimers,       \* bound: deferred closes under way
    MaxDrops,        \* bound: connections that lose the server for a while
    MaxDeaths,       \* bound: connections the client library gives up
    MaxHashFailures  \* bound: configurations whose files cannot be read

ASSUME ConnsAssumption == IsFiniteSet(Users) /\ JSMUsers \subseteq Users /\ NoConn \notin Conns
ASSUME PoolBoundsAssumption ==
    /\ MaxRefs \in Nat /\ MaxTimers \in Nat
    /\ MaxDrops \in Nat /\ MaxDeaths \in Nat /\ MaxHashFailures \in Nat

VARIABLES
    status,    \* nc's state, "fresh" before the object exists
    refCount,  \* refCount of each pooledConnection
    entry,     \* the pool's map at the hash, NoConn when there is no entry
    unpooled,  \* connections made without the pool
    phase,     \* where each pass is
    holds,     \* the connection each pass was given
    timers,    \* deferred closes under way
    left       \* faults the environment may still inject

vars == <<status, refCount, entry, unpooled, phase, holds, timers, left>>

Statuses == {"fresh", "connected", "reconnecting", "closed"}
Phases == {"idle", "got", "using"}

Open(c) == status[c] \in {"connected", "reconnecting"}
Reusable == entry # NoConn /\ Open(entry)
Holders(c) == {u \in Users : holds[u] = c}

Init ==
    /\ status = [c \in Conns |-> "fresh"]
    /\ refCount = [c \in Conns |-> 0]
    /\ entry = NoConn /\ unpooled = {} /\ timers = 0
    /\ phase = [u \in Users |-> "idle"]
    /\ holds = [u \in Users |-> NoConn]
    /\ left = [drop |-> MaxDrops, death |-> MaxDeaths, hash |-> MaxHashFailures]
-----------------------------------------------------------------------------
Gets(u, c) ==
    /\ phase' = [phase EXCEPT ![u] = "got"]
    /\ holds' = [holds EXCEPT ![u] = c]

\* The entry is shared unless the library has closed its connection; one that
\* is reconnecting is shared too.
GetShared(u) ==
    /\ phase[u] = "idle"
    /\ timers < MaxTimers
    /\ Reusable /\ refCount[entry] < MaxRefs
    /\ refCount' = [refCount EXCEPT ![entry] = @ + 1]
    /\ Gets(u, entry)
    /\ UNCHANGED <<status, entry, unpooled, timers, left>>

\* A new connection takes the place of an entry that was closed.
GetNew(u) ==
    /\ phase[u] = "idle"
    /\ timers < MaxTimers
    /\ ~Reusable
    /\ \E c \in Conns :
           /\ status[c] = "fresh"
           /\ status' = [status EXCEPT ![c] = "connected"]
           /\ refCount' = [refCount EXCEPT ![c] = 1]
           /\ entry' = c
           /\ Gets(u, c)
    /\ UNCHANGED <<unpooled, timers, left>>

\* A configuration that cannot be hashed is served outside the pool.
GetUnpooled(u) ==
    /\ phase[u] = "idle" /\ left.hash > 0
    /\ \E c \in Conns :
           /\ status[c] = "fresh"
           /\ status' = [status EXCEPT ![c] = "connected"]
           /\ unpooled' = unpooled \cup {c}
           /\ Gets(u, c)
    /\ left' = [left EXCEPT !.hash = @ - 1]
    /\ UNCHANGED <<refCount, entry, timers>>

CreateClient(u) ==
    /\ phase[u] = "got"
    /\ u \in JSMUsers => status[holds[u]] = "connected"
    /\ phase' = [phase EXCEPT ![u] = "using"]
    /\ UNCHANGED <<status, refCount, entry, unpooled, holds, timers, left>>

\* CreateJSMClient asks for a connection that is up; its error returns before
\* the Close of the connection has been deferred.
CreateClientFails(u) ==
    /\ phase[u] = "got"
    /\ u \in JSMUsers /\ status[holds[u]] # "connected"
    /\ phase' = [phase EXCEPT ![u] = "idle"]
    /\ holds' = [holds EXCEPT ![u] = NoConn]
    /\ UNCHANGED <<status, refCount, entry, unpooled, timers, left>>

Leaves(u) ==
    /\ phase[u] = "using"
    /\ phase' = [phase EXCEPT ![u] = "idle"]
    /\ holds' = [holds EXCEPT ![u] = NoConn]

\* release counts down whatever connection the map now holds, and starts a
\* deferred close when the count is below one.
Release(u) ==
    /\ Leaves(u)
    /\ holds[u] \notin unpooled
    /\ IF entry = NoConn THEN UNCHANGED <<refCount, timers>>
       ELSE /\ refCount' = [refCount EXCEPT ![entry] = @ - 1]
            /\ timers' = IF refCount[entry] - 1 < 1 THEN timers + 1 ELSE timers
    /\ UNCHANGED <<status, entry, unpooled, left>>

CloseUnpooled(u) ==
    /\ Leaves(u)
    /\ holds[u] \in unpooled
    /\ status' = [status EXCEPT ![holds[u]] = "closed"]
    /\ UNCHANGED <<refCount, entry, unpooled, timers, left>>

\* Mutant: the grace period over, the entry is closed without a second look.
ExpireUnchecked ==
    /\ timers > 0 /\ timers' = timers - 1
    /\ IF entry # NoConn
       THEN entry' = NoConn /\ status' = [status EXCEPT ![entry] = "closed"]
       ELSE UNCHANGED <<status, entry>>
    /\ UNCHANGED <<refCount, unpooled, phase, holds, left>>

\* Mutant: the second look asks for a count of exactly zero.
ExpireAtZero ==
    /\ timers > 0 /\ timers' = timers - 1
    /\ IF entry # NoConn /\ refCount[entry] = 0
       THEN entry' = NoConn /\ status' = [status EXCEPT ![entry] = "closed"]
       ELSE UNCHANGED <<status, entry>>
    /\ UNCHANGED <<refCount, unpooled, phase, holds, left>>

\* The end of a grace period.
Expire ==
    /\ timers > 0 /\ timers' = timers - 1
    /\ IF entry # NoConn /\ refCount[entry] < 1
       THEN entry' = NoConn /\ status' = [status EXCEPT ![entry] = "closed"]
       ELSE UNCHANGED <<status, entry>>
    /\ UNCHANGED <<refCount, unpooled, phase, holds, left>>
-----------------------------------------------------------------------------
(* The client library reconnects for ever, except that it gives a connection *)
(* up when the server refuses its credentials twice in a row.                *)

Drop(c) ==
    /\ status[c] = "connected" /\ left.drop > 0
    /\ status' = [status EXCEPT ![c] = "reconnecting"]
    /\ left' = [left EXCEPT !.drop = @ - 1]
    /\ UNCHANGED <<refCount, entry, unpooled, phase, holds, timers>>

Reconnect(c) ==
    /\ status[c] = "reconnecting"
    /\ status' = [status EXCEPT ![c] = "connected"]
    /\ UNCHANGED <<refCount, entry, unpooled, phase, holds, timers, left>>

Die(c) ==
    /\ Open(c) /\ left.death > 0
    /\ status' = [status EXCEPT ![c] = "closed"]
    /\ left' = [left EXCEPT !.death = @ - 1]
    /\ UNCHANGED <<refCount, entry, unpooled, phase, holds, timers>>
-----------------------------------------------------------------------------
Pass(u) ==
    \/ GetShared(u) \/ GetNew(u) \/ GetUnpooled(u)
    \/ CreateClient(u) \/ CreateClientFails(u) \/ Release(u) \/ CloseUnpooled(u)

Next ==
    \/ \E u \in Users : Pass(u)
    \/ Expire
    \/ \E c \in Conns : Drop(c) \/ Reconnect(c) \/ Die(c)

Spec == Init /\ [][Next]_vars

\* A pass that has a connection finishes (its calls time out) and a deferred
\* close fires; nobody has to start another pass.
Fairness ==
    /\ WF_vars(Expire)
    /\ \A u \in Users :
           WF_vars(CreateClient(u) \/ CreateClientFails(u) \/ Release(u) \/ CloseUnpooled(u))

FairSpec == Spec /\ Fairness
-----------------------------------------------------------------------------
TypeOK ==
    /\ status \in [Conns -> Statuses]
    /\ refCount \in [Conns -> Int]
    /\ entry \in Conns \cup {NoConn}
    /\ unpooled \subseteq Conns
    /\ phase \in [Users -> Phases]
    /\ holds \in [Users -> Conns \cup {NoConn}]
    /\ timers \in Nat
    /\ left \in [drop: Nat, death: Nat, hash: Nat]

\* The pool closes no entry that a pass works with, for as long as the client
\* library has given no connection up.
NoUseAfterCloseYet ==
    [][(entry # NoConn /\ entry' = NoConn /\ left.death = MaxDeaths)
            => Holders(entry) = {}]_vars

\* A connection nobody holds, idle before any connection has dropped, is closed
\* or used again.
NoLeakYet ==
    \A c \in Conns :
        (Open(c) /\ Holders(c) = {} /\ left.drop = MaxDrops)
            ~> (~Open(c) \/ Holders(c) # {})
=============================================================================
