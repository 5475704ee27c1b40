--------------------------- MODULE LegacyConnPool ---------------------------
(***************************************************************************)
(* The pool of controllers/jetstream/conn_pool.go, for the connections of  *)
(* one key, and the queue workers and cleanup loops that use it.            *)
(*                                                                         *)
(* Unlike the pool of the newer controllers it connects outside its lock:  *)
(* a singleflight group makes concurrent Gets share one lookup, and each   *)
(* Get takes its reference in a later critical section, between which the  *)
(* last user may have returned the connection.                             *)
(*                                                                         *)
(* Who uses a connection need not return it.  runWithJsmc defers the Close *)
(* only under --crd-connect; without it, the default, every reference that *)
(* was taken stays counted.                                                *)
(***************************************************************************)
EXTENDS Integers, FiniteSets

CONSTANTS
    Users,      \* goroutines that call RealJSMC
    Conns,      \* identities of pooledNatsConn objects
    NoConn,     \* no connection
    MaxTries,   \* getPooledConnMaxTries
    MaxDrops,   \* bound: connections that lose the server
    MaxFaults,  \* bound: failed connects and jsm managers not made
    MaxCount    \* bound: references a connection counts when a Get begins

ASSUME LegacyConnsAssumption == IsFiniteSet(Users) /\ NoConn \notin Conns
ASSUME LegacyBoundsAssumption ==
    /\ MaxTries \in Nat \ {0} /\ MaxDrops \in Nat
    /\ MaxFaults \in Nat /\ MaxCount \in Nat

VARIABLES
    crdConnect, \* the option c.opts.CRDConnect, which never changes
    status,   \* nc's state, "fresh" before the object exists
    count,    \* count of each pooledNatsConn
    closed,   \* the connections whose closed flag is set
    cache,    \* the cache at the key, NoConn when there is no entry
    flight,   \* what the singleflight call does next, "none" without a call
    dialed,   \* the connection that call has made
    phase,    \* where each user is
    got,      \* the connection each user was given
    tries,    \* failed rounds of the Get of each user
    left      \* faults the environment may still inject

vars == <<crdConnect, status, count, closed, cache, flight, dialed, phase, got, tries, left>>

Holders(c) == {u \in Users : phase[u] = "holding" /\ got[u] = c}

Init ==
    /\ crdConnect \in BOOLEAN
    /\ status = [c \in Conns |-> "fresh"]
    /\ count = [c \in Conns |-> 0]
    /\ closed = {} /\ cache = NoConn /\ flight = "none" /\ dialed = NoConn
    /\ phase = [u \in Users |-> "idle"]
    /\ got = [u \in Users |-> NoConn]
    /\ tries = [u \in Users |-> 0]
    /\ left = [drop |-> MaxDrops, fault |-> MaxFaults]
-----------------------------------------------------------------------------
\* A user joins the call in flight, or starts one.
Join(u) ==
    /\ phase' = [phase EXCEPT ![u] = "waiting"]
    /\ flight' = IF flight = "none" THEN "lookup" ELSE flight

Waiters == {u \in Users : phase[u] = "waiting"}

\* The call returns c, or NoConn for an error, to everyone who waits for it.
Land(c) ==
    /\ flight' = "none" /\ dialed' = NoConn
    /\ phase' = [u \in Users |->
                    IF u \notin Waiters THEN phase[u]
                    ELSE IF c = NoConn THEN "idle" ELSE "acquiring"]
    /\ got' = [u \in Users |-> IF u \in Waiters THEN c ELSE got[u]]

Get(u) ==
    /\ phase[u] = "idle" /\ \A c \in Conns : count[c] < MaxCount
    /\ Join(u)
    /\ tries' = [tries EXCEPT ![u] = 0]
    /\ UNCHANGED <<crdConnect, status, count, closed, cache, dialed, got, left>>

Lookup ==
    /\ flight = "lookup"
    /\ \/ /\ cache # NoConn /\ status[cache] = "connected"
          /\ Land(cache)
       \/ /\ cache # NoConn => status[cache] # "connected"
          /\ flight' = "dial" /\ UNCHANGED <<dialed, phase, got>>
    /\ UNCHANGED <<crdConnect, status, count, closed, cache, tries, left>>

Dial ==
    /\ flight = "dial"
    /\ \E c \in Conns :
           /\ status[c] = "fresh"
           /\ status' = [status EXCEPT ![c] = "connected"]
           /\ dialed' = c
    /\ flight' = "store"
    /\ UNCHANGED <<crdConnect, count, closed, cache, phase, got, tries, left>>

DialFails ==
    /\ flight = "dial" /\ left.fault > 0
    /\ left' = [left EXCEPT !.fault = @ - 1]
    /\ Land(NoConn)
    /\ UNCHANGED <<crdConnect, status, count, closed, cache, tries>>

Store ==
    /\ flight = "store"
    /\ cache' = dialed
    /\ Land(dialed)
    /\ UNCHANGED <<crdConnect, status, count, closed, tries, left>>

\* Mutant: the reference is taken without a second look.
AcquireUnchecked(u) ==
    /\ phase[u] = "acquiring"
    /\ count' = [count EXCEPT ![got[u]] = @ + 1]
    /\ phase' = [phase EXCEPT ![u] = "holding"]
    /\ UNCHANGED <<crdConnect, status, closed, cache, flight, dialed, got, tries, left>>

Acquire(u) ==
    /\ phase[u] = "acquiring" /\ got[u] \notin closed
    /\ count' = [count EXCEPT ![got[u]] = @ + 1]
    /\ phase' = [phase EXCEPT ![u] = "holding"]
    /\ UNCHANGED <<crdConnect, status, closed, cache, flight, dialed, got, tries, left>>

\* The connection was returned and closed in between: try again, or give up.
AcquireClosed(u) ==
    /\ phase[u] = "acquiring" /\ got[u] \in closed
    /\ tries' = [tries EXCEPT ![u] = @ + 1]
    /\ got' = [got EXCEPT ![u] = NoConn]
    /\ \/ tries[u] + 1 < MaxTries /\ Join(u)
       \/ /\ tries[u] + 1 >= MaxTries
          /\ phase' = [phase EXCEPT ![u] = "idle"] /\ UNCHANGED flight
    /\ UNCHANGED <<crdConnect, status, count, closed, cache, dialed, left>>

\* Mutant: only a connection that is still in the cache is closed.
ReturnToPoolCached(u) ==
    /\ phase[u] = "holding" /\ crdConnect
    /\ count' = [count EXCEPT ![got[u]] = @ - 1]
    /\ IF count[got[u]] = 1 /\ cache = got[u]
       THEN /\ cache' = NoConn
            /\ closed' = closed \cup {got[u]}
            /\ phase' = [phase EXCEPT ![u] = "closing"] /\ UNCHANGED got
       ELSE /\ phase' = [phase EXCEPT ![u] = "idle"]
            /\ got' = [got EXCEPT ![u] = NoConn]
            /\ UNCHANGED <<cache, closed>>
    /\ UNCHANGED <<crdConnect, status, flight, dialed, tries, left>>

\* Mutant: the closed connection stays in the cache.
ReturnToPoolKeeping(u) ==
    /\ phase[u] = "holding" /\ crdConnect
    /\ count' = [count EXCEPT ![got[u]] = @ - 1]
    /\ IF count[got[u]] = 1
       THEN /\ closed' = closed \cup {got[u]}
            /\ phase' = [phase EXCEPT ![u] = "closing"] /\ UNCHANGED got
       ELSE /\ phase' = [phase EXCEPT ![u] = "idle"]
            /\ got' = [got EXCEPT ![u] = NoConn]
            /\ UNCHANGED closed
    /\ UNCHANGED <<crdConnect, status, cache, flight, dialed, tries, left>>

\* The deferred Close.  The last user takes the connection out of the cache,
\* unless it has been replaced there, and closes it once it has left the lock.
ReturnToPool(u) ==
    /\ phase[u] = "holding" /\ crdConnect
    /\ count' = [count EXCEPT ![got[u]] = @ - 1]
    /\ IF count[got[u]] = 1
       THEN /\ cache' = IF cache = got[u] THEN NoConn ELSE cache
            /\ closed' = closed \cup {got[u]}
            /\ phase' = [phase EXCEPT ![u] = "closing"] /\ UNCHANGED got
       ELSE /\ phase' = [phase EXCEPT ![u] = "idle"]
            /\ got' = [got EXCEPT ![u] = NoConn]
            /\ UNCHANGED <<cache, closed>>
    /\ UNCHANGED <<crdConnect, status, flight, dialed, tries, left>>

\* The user is done, its reference stays counted.
Forget(u) ==
    /\ phase[u] = "holding"
    /\ phase' = [phase EXCEPT ![u] = "idle"]
    /\ got' = [got EXCEPT ![u] = NoConn]
    /\ UNCHANGED <<crdConnect, status, count, closed, cache, flight, dialed, tries>>

\* runWithJsmc without CRDConnect: the client is used and never closed.
UseWithoutClose(u) == ~crdConnect /\ Forget(u) /\ UNCHANGED left

\* RealJSMC: jsm.New fails for the connection Get has just returned.
NewFails(u) ==
    /\ left.fault > 0
    /\ left' = [left EXCEPT !.fault = @ - 1]
    /\ Forget(u)

Close(u) ==
    /\ phase[u] = "closing"
    /\ status' = [status EXCEPT ![got[u]] = "closed"]
    /\ phase' = [phase EXCEPT ![u] = "idle"]
    /\ got' = [got EXCEPT ![u] = NoConn]
    /\ UNCHANGED <<crdConnect, count, closed, cache, flight, dialed, tries, left>>
-----------------------------------------------------------------------------
(* The client library. *)

Drop(c) ==
    /\ status[c] = "connected" /\ left.drop > 0
    /\ status' = [status EXCEPT ![c] = "disconnected"]
    /\ left' = [left EXCEPT !.drop = @ - 1]
    /\ UNCHANGED <<crdConnect, count, closed, cache, flight, dialed, phase, got, tries>>

Reconnect(c) ==
    /\ status[c] = "disconnected"
    /\ status' = [status EXCEPT ![c] = "connected"]
    /\ UNCHANGED <<crdConnect, count, closed, cache, flight, dialed, phase, got, tries, left>>
-----------------------------------------------------------------------------
Flight == Lookup \/ Dial \/ DialFails \/ Store
Proceed(u) ==
    \/ Acquire(u) \/ AcquireClosed(u)
    \/ ReturnToPool(u) \/ UseWithoutClose(u) \/ Close(u)

Next ==
    \/ \E u \in Users : Get(u) \/ Proceed(u) \/ NewFails(u)
    \/ Flight
    \/ \E c \in Conns : Drop(c) \/ Reconnect(c)

Spec == Init /\ [][Next]_vars

\* Calls in flight go on, and so do users that have been given a connection:
\* an operation ends, its requests time out, and under CRDConnect the deferred
\* Close follows.  Nobody has to start another Get, and nothing has to fail.
Fairness == WF_vars(Flight) /\ \A u \in Users : WF_vars(Proceed(u))

FairSpec == Spec /\ Fairness
-----------------------------------------------------------------------------
\* No user holds a connection that another one has closed, although it was
\* looked up in one critical section and counted in another.
LegacyNoUseAfterClose ==
    \A u \in Users : phase[u] = "holding" => got[u] \notin closed

\* A Get never leads back to a connection that was returned: the cache lets go
\* of it in the step that closes it, and of nothing else.
CacheIsLive == cache # NoConn => cache \notin closed

\* More references are counted than there are users to return them.
Unreturned(c) == count[c] > Cardinality(Holders(c))

\* A connection that another one has pushed out of the cache is closed in the
\* end, by the last of those who use it or were just looking it up.  Only a
\* reference that is never returned keeps it open for ever: that of a manager
\* that could not be made and, without CRDConnect, every one.
LegacyNoLeak ==
    \A c \in Conns :
        (status[c] \in {"connected", "disconnected"} /\ c \notin {cache, dialed})
            ~> (status[c] = "closed" \/ Unreturned(c))
=============================================================================
