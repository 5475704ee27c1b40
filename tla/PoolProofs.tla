----------------------------- MODULE PoolProofs -----------------------------
(***************************************************************************)
(* Both connection pools, for any number of users and connections and any   *)
(* bounds.  The legacy pool never closes a connection in use and never      *)
(* offers a closed one; the reference-counted pool closes none in use until *)
(* the client library gives one up for the first time.                      *)
(***************************************************************************)
EXTENDS LegacyConnPool, FiniteSetTheorems, TLAPS

(* The legacy pool. *)

TypeOK ==
    /\ crdConnect \in BOOLEAN
    /\ status \in [Conns -> {"fresh", "connected", "disconnected", "closed"}]
    /\ count \in [Conns -> Int]
    /\ closed \subseteq Conns
    /\ {cache, dialed} \subseteq Conns \cup {NoConn}
    /\ flight \in {"none", "lookup", "dial", "store"}
    /\ phase \in [Users -> {"idle", "waiting", "acquiring", "holding", "closing"}]
    /\ got \in [Users -> Conns \cup {NoConn}]
    /\ tries \in [Users -> Nat]
    /\ left \in [drop: Nat, fault: Nat]

\* The initial states are well-typed.
LEMMA InitType == Init => TypeOK
  BY LegacyBoundsAssumption DEF Init, TypeOK

\* A count that is taken or returned stays a number, whoever's it is.
LEMMA CountType ==
    ASSUME NEW f \in [Conns -> Int], NEW c
    PROVE  /\ [f EXCEPT ![c] = @ + 1] \in [Conns -> Int]
           /\ [f EXCEPT ![c] = @ - 1] \in [Conns -> Int]
  <1>1. CASE c \in Conns
    BY <1>1
  <1>2. CASE c \notin Conns
    <2>1. [f EXCEPT ![c] = @ + 1] = f /\ [f EXCEPT ![c] = @ - 1] = f
      BY <1>2
    <2> QED
      BY <2>1
  <1> QED
    BY <1>1, <1>2

\* Every step keeps the state well-typed, one case per action.
LEMMA NextType == TypeOK /\ [Next]_vars => TypeOK'
  <1> SUFFICES ASSUME TypeOK, [Next]_vars PROVE TypeOK'
    OBVIOUS
  <1> USE DEF TypeOK
  <1>1. ASSUME NEW u \in Users, Get(u) \/ Proceed(u) PROVE TypeOK'
    <2>1. CASE Get(u)
      BY <2>1 DEF Get, Join
    <2>2. CASE Acquire(u)
      <3>1. count' \in [Conns -> Int]
        BY <2>2, CountType DEF Acquire
      <3> QED
        BY <2>2, <3>1 DEF Acquire
    <2>3. CASE AcquireClosed(u)
      BY <2>3 DEF AcquireClosed, Join
    <2>4. CASE ReturnToPool(u)
      <3>1. count' \in [Conns -> Int]
        BY <2>4, CountType DEF ReturnToPool
      <3> QED
        BY <2>4, <3>1 DEF ReturnToPool
    <2>5. CASE Close(u) \/ UseWithoutClose(u)
      BY <2>5 DEF Close, UseWithoutClose, Forget
    <2> QED
      BY <1>1, <2>1, <2>2, <2>3, <2>4, <2>5 DEF Proceed
  <1>2. CASE Lookup
    BY <1>2 DEF Lookup, Land, Waiters
  <1>3. CASE Dial
    BY <1>3 DEF Dial
  <1>4. CASE DialFails
    BY <1>4 DEF DialFails, Land, Waiters
  <1>5. CASE Store
    BY <1>5 DEF Store, Land, Waiters
  <1>6. ASSUME NEW c \in Conns, Drop(c) \/ Reconnect(c) PROVE TypeOK'
    BY <1>6 DEF Drop, Reconnect
  <1>7. ASSUME NEW u \in Users, NewFails(u) PROVE TypeOK'
    BY <1>7 DEF NewFails, Forget
  <1>8. CASE UNCHANGED vars
    BY <1>8 DEF vars
  <1> QED
    BY <1>1, <1>2, <1>3, <1>4, <1>5, <1>6, <1>7, <1>8 DEF Next, Flight

\* Every reachable state of the legacy pool is well-typed.
THEOREM TypeCorrect == Spec => []TypeOK
  <1> QED
    BY InitType, NextType, PTL DEF Spec
-----------------------------------------------------------------------------
(* Who holds what. *)

\* Whoever is to use a connection was given one.
Given ==
    \A u \in Users :
        phase[u] \in {"acquiring", "holding", "closing"} => got[u] # NoConn

\* A connection that does not exist yet is known to nobody.
FreshUnknown ==
    \A c \in Conns :
        status[c] = "fresh" =>
            /\ c \notin closed /\ cache # c /\ dialed # c
            /\ \A u \in Users : got[u] # c

\* One that was dialed is known to the singleflight call alone.
DialedPrivate ==
    /\ flight = "store" => dialed # NoConn
    /\ dialed # NoConn =>
           /\ dialed \notin closed
           /\ \A u \in Users : got[u] # dialed

\* The count covers the holders; those who forgot to return stay counted.
CountCovers == \A c \in Conns : Cardinality(Holders(c)) <= count[c]

PoolInv ==
    /\ Given /\ FreshUnknown /\ DialedPrivate /\ CountCovers
    /\ LegacyNoUseAfterClose /\ CacheIsLive

\* The holders of a connection can be counted.
LEMMA HoldersFinite ==
    ASSUME NEW c
    PROVE  IsFiniteSet(Holders(c)) /\ Cardinality(Holders(c)) \in Nat
  <1>1. IsFiniteSet(Holders(c))
    BY LegacyConnsAssumption, FS_Subset DEF Holders
  <1> QED
    BY <1>1, FS_CardinalityType

\* Nobody holds anything at the start.
LEMMA InitPool == Init => PoolInv
  <1> SUFFICES ASSUME Init PROVE PoolInv
    OBVIOUS
  <1>1. \A c \in Conns : Holders(c) = {}
    BY DEF Init, Holders
  <1>2. CountCovers
    BY <1>1, FS_EmptySet DEF Init, CountCovers
  <1> QED
    BY <1>2, LegacyConnsAssumption
       DEF Init, PoolInv, Given, FreshUnknown, DialedPrivate,
           LegacyNoUseAfterClose, CacheIsLive

\* A step that gives nobody a connection to hold, takes none away and counts
\* none differently keeps the counts right.
LEMMA CountsKept ==
    ASSUME TypeOK, PoolInv, UNCHANGED count,
           \A c \in Conns : Holders(c)' = Holders(c)
    PROVE  CountCovers'
  BY DEF PoolInv, CountCovers

\* Whose count is one has one holder.
LEMMA LastHolder ==
    ASSUME TypeOK, PoolInv, NEW u \in Users,
           phase[u] = "holding", count[got[u]] = 1
    PROVE  Holders(got[u]) = {u}
  <1>1. u \in Holders(got[u]) /\ got[u] \in Conns
    BY DEF Holders, TypeOK, PoolInv, Given
  <1>2. Cardinality(Holders(got[u])) <= 1
    BY <1>1 DEF PoolInv, CountCovers
  <1>3. /\ IsFiniteSet(Holders(got[u]) \ {u})
        /\ Cardinality(Holders(got[u]) \ {u}) = Cardinality(Holders(got[u])) - 1
    BY <1>1, HoldersFinite, FS_RemoveElement
  <1>4. Cardinality(Holders(got[u]) \ {u}) = 0
    BY <1>2, <1>3, HoldersFinite, FS_CardinalityType
  <1>5. Holders(got[u]) \ {u} = {}
    BY <1>3, <1>4, FS_EmptySet
  <1> QED
    BY <1>1, <1>5

\* A singleflight call that lands gives those who wait a connection to acquire.
LEMMA LandKeeps ==
    ASSUME TypeOK, PoolInv, NEW c \in Conns \cup {NoConn}, Land(c),
           UNCHANGED <<status, count, closed>>,
           c # NoConn => status[c] # "fresh" /\ c \notin closed,
           cache' = cache \/ (cache' = c /\ c # NoConn)
    PROVE  PoolInv'
  <1>1. \A d \in Conns : Holders(d)' = Holders(d)
    BY DEF Land, Waiters, Holders, TypeOK
  <1>2. CountCovers'
    BY <1>1, CountsKept
  <1>3. Given' /\ FreshUnknown' /\ DialedPrivate'
    BY LegacyConnsAssumption
       DEF Land, Waiters, TypeOK, PoolInv, Given,
           FreshUnknown, DialedPrivate
  <1>4. LegacyNoUseAfterClose' /\ CacheIsLive'
    BY
       DEF Land, Waiters, TypeOK, PoolInv, LegacyNoUseAfterClose,
           CacheIsLive
  <1> QED
    BY <1>2, <1>3, <1>4 DEF PoolInv

\* Every step keeps PoolInv: one case per action of Next.
LEMMA NextPool == TypeOK /\ PoolInv /\ [Next]_vars => PoolInv'
  <1> SUFFICES ASSUME TypeOK, PoolInv, [Next]_vars PROVE PoolInv'
    OBVIOUS
  <1> USE LegacyConnsAssumption
  <1>1. ASSUME NEW u \in Users, Get(u) \/ AcquireClosed(u) \/ Close(u) PROVE PoolInv'
    <2>1. \A c \in Conns : Holders(c)' = Holders(c)
      BY <1>1 DEF Get, AcquireClosed, Close, Join, Holders, TypeOK
    <2>2. CountCovers'
      BY <1>1, <2>1, CountsKept DEF Get, AcquireClosed, Close
    <2>3. Given' /\ FreshUnknown' /\ DialedPrivate'
      BY <1>1
         DEF Get, AcquireClosed, Close, Join, TypeOK, PoolInv, Given,
                  FreshUnknown, DialedPrivate
    <2>4. LegacyNoUseAfterClose' /\ CacheIsLive'
      BY <1>1 DEF Get, AcquireClosed, Close, Join, TypeOK, PoolInv,
                  LegacyNoUseAfterClose, CacheIsLive
    <2> QED
      BY <2>2, <2>3, <2>4 DEF PoolInv
  <1>2. ASSUME NEW u \in Users, Acquire(u) PROVE PoolInv'
    <2>1. got[u] \in Conns
      BY <1>2 DEF Acquire, TypeOK, PoolInv, Given
    <2>2. CountCovers'
      <3> SUFFICES ASSUME NEW c \in Conns
                   PROVE  Cardinality(Holders(c)') <= count'[c]
        BY DEF CountCovers
      <3>1. CASE c = got[u]
        <4>1. Holders(c)' = Holders(c) \cup {u} /\ u \notin Holders(c)
          BY <1>2, <3>1 DEF Acquire, Holders, TypeOK
        <4>2. Cardinality(Holders(c)') = Cardinality(Holders(c)) + 1
          BY <4>1, HoldersFinite, FS_AddElement
        <4>3. count'[c] = count[c] + 1 /\ count[c] \in Int
          BY <1>2, <3>1 DEF Acquire, TypeOK
        <4> QED
          BY <4>2, <4>3, HoldersFinite DEF PoolInv, CountCovers
      <3>2. CASE c # got[u]
        <4>1. Holders(c)' = Holders(c) /\ count'[c] = count[c]
          BY <1>2, <3>2 DEF Acquire, Holders, TypeOK
        <4> QED
          BY <4>1 DEF PoolInv, CountCovers
      <3> QED
        BY <3>1, <3>2
    <2>3. Given' /\ FreshUnknown' /\ DialedPrivate'
      BY <1>2 DEF Acquire, TypeOK, PoolInv, Given, FreshUnknown, DialedPrivate
    <2>4. LegacyNoUseAfterClose' /\ CacheIsLive'
      BY <1>2
         DEF Acquire, TypeOK, PoolInv, LegacyNoUseAfterClose, CacheIsLive
    <2> QED
      BY <2>2, <2>3, <2>4 DEF PoolInv
  <1>3. ASSUME NEW u \in Users, ReturnToPool(u) PROVE PoolInv'
    <2>1. got[u] \in Conns /\ phase[u] = "holding"
      BY <1>3 DEF ReturnToPool, TypeOK, PoolInv, Given
    <2>2. CountCovers'
      <3> SUFFICES ASSUME NEW c \in Conns
                   PROVE  Cardinality(Holders(c)') <= count'[c]
        BY DEF CountCovers
      <3>1. CASE c = got[u]
        <4>1. Holders(c)' = Holders(c) \ {u} /\ u \in Holders(c)
          BY <1>3, <2>1, <3>1 DEF ReturnToPool, Holders, TypeOK
        <4>2. Cardinality(Holders(c)') = Cardinality(Holders(c)) - 1
          BY <4>1, HoldersFinite, FS_RemoveElement
        <4>3. count'[c] = count[c] - 1 /\ count[c] \in Int
          BY <1>3, <3>1 DEF ReturnToPool, TypeOK
        <4> QED
          BY <4>2, <4>3, HoldersFinite DEF PoolInv, CountCovers
      <3>2. CASE c # got[u]
        <4>1. Holders(c)' = Holders(c) /\ count'[c] = count[c]
          BY <1>3, <2>1, <3>2 DEF ReturnToPool, Holders, TypeOK
        <4> QED
          BY <4>1 DEF PoolInv, CountCovers
      <3> QED
        BY <3>1, <3>2
    <2>3. CASE count[got[u]] = 1
      <3>1. \A v \in Users : v # u /\ phase[v] = "holding" => got[v] # got[u]
        BY <2>1, <2>3, LastHolder DEF Holders
      <3>2. Given' /\ FreshUnknown' /\ DialedPrivate'
        BY <1>3, <2>1, <2>3 DEF ReturnToPool, TypeOK, PoolInv, Given, FreshUnknown,
                                DialedPrivate
      <3>3. LegacyNoUseAfterClose' /\ CacheIsLive'
        BY <1>3, <2>3, <3>1 DEF ReturnToPool, TypeOK, PoolInv,
                                LegacyNoUseAfterClose, CacheIsLive
      <3> QED
        BY <2>2, <3>2, <3>3 DEF PoolInv
    <2>4. CASE count[got[u]] # 1
      <3>1. Given' /\ FreshUnknown' /\ DialedPrivate'
        BY <1>3, <2>1, <2>4 DEF ReturnToPool, TypeOK, PoolInv, Given, FreshUnknown,
                                DialedPrivate
      <3>2. LegacyNoUseAfterClose' /\ CacheIsLive'
        BY <1>3, <2>4 DEF ReturnToPool, TypeOK, PoolInv, LegacyNoUseAfterClose,
                          CacheIsLive
      <3> QED
        BY <2>2, <3>1, <3>2 DEF PoolInv
    <2> QED
      BY <2>3, <2>4
  <1>4. CASE Lookup
    <2>1. CASE Land(cache) /\ cache # NoConn
      BY <1>4, <2>1, LandKeeps
         DEF Lookup, TypeOK, PoolInv, FreshUnknown, CacheIsLive
    <2>2. CASE flight' = "dial" /\ UNCHANGED <<dialed, phase, got>>
      <3>1. \A c \in Conns : Holders(c)' = Holders(c)
        BY <2>2 DEF Holders
      <3>2. CountCovers'
        BY <1>4, <3>1, CountsKept DEF Lookup
      <3> QED
        BY <1>4, <2>2, <3>2 DEF Lookup, PoolInv, Given, FreshUnknown, DialedPrivate,
                                LegacyNoUseAfterClose, CacheIsLive
    <2> QED
      BY <1>4, <2>1, <2>2 DEF Lookup
  <1>5. CASE Dial
    <2>1. \A c \in Conns : Holders(c)' = Holders(c)
      BY <1>5 DEF Dial, Holders
    <2>2. CountCovers'
      BY <1>5, <2>1, CountsKept DEF Dial
    <2>3. Given' /\ FreshUnknown' /\ DialedPrivate'
      BY <1>5 DEF Dial, TypeOK, PoolInv, Given, FreshUnknown, DialedPrivate
    <2>4. LegacyNoUseAfterClose' /\ CacheIsLive'
      BY <1>5 DEF Dial, PoolInv, LegacyNoUseAfterClose, CacheIsLive
    <2> QED
      BY <2>2, <2>3, <2>4 DEF PoolInv
  <1>6. CASE DialFails
    BY <1>6, LandKeeps DEF DialFails
  <1>7. CASE Store
    <2>1. dialed \in Conns /\ status[dialed] # "fresh" /\ dialed \notin closed
      BY <1>7 DEF Store, TypeOK, PoolInv, FreshUnknown, DialedPrivate
    <2> QED
      BY <1>7, <2>1, LandKeeps DEF Store
  <1>8. ASSUME NEW c \in Conns, Drop(c) \/ Reconnect(c) PROVE PoolInv'
    <2>1. \A d \in Conns : Holders(d)' = Holders(d)
      BY <1>8 DEF Drop, Reconnect, Holders
    <2>2. CountCovers'
      BY <1>8, <2>1, CountsKept DEF Drop, Reconnect
    <2>3. \A d \in Conns : status'[d] = "fresh" => status[d] = "fresh"
      BY <1>8 DEF Drop, Reconnect, TypeOK
    <2> QED
      BY <1>8, <2>2, <2>3 DEF Drop, Reconnect, PoolInv, Given, FreshUnknown,
                DialedPrivate, LegacyNoUseAfterClose, CacheIsLive
  <1>9. ASSUME NEW u \in Users, Forget(u) PROVE PoolInv'
    <2>1. CountCovers'
      <3> SUFFICES ASSUME NEW c \in Conns
                   PROVE  Cardinality(Holders(c)') <= count'[c]
        BY DEF CountCovers
      <3>1. Holders(c)' = Holders(c) \ {u} /\ count'[c] = count[c]
        BY <1>9, LegacyConnsAssumption DEF Forget, Holders, TypeOK
      <3>2. CASE u \in Holders(c)
        <4>1. Cardinality(Holders(c)') = Cardinality(Holders(c)) - 1
          BY <3>1, <3>2, HoldersFinite, FS_RemoveElement
        <4>2. count[c] \in Int /\ Cardinality(Holders(c)) <= count[c]
          BY DEF TypeOK, PoolInv, CountCovers
        <4> QED
          BY <3>1, <4>1, <4>2, HoldersFinite
      <3>3. CASE u \notin Holders(c)
        <4>1. Holders(c)' = Holders(c)
          BY <3>1, <3>3
        <4> QED
          BY <3>1, <4>1 DEF PoolInv, CountCovers
      <3> QED
        BY <3>2, <3>3
    <2>2. Given' /\ FreshUnknown' /\ DialedPrivate'
      BY <1>9 DEF Forget, TypeOK, PoolInv, Given, FreshUnknown, DialedPrivate
    <2>3. LegacyNoUseAfterClose' /\ CacheIsLive'
      BY <1>9 DEF Forget, TypeOK, PoolInv, LegacyNoUseAfterClose, CacheIsLive
    <2> QED
      BY <2>1, <2>2, <2>3 DEF PoolInv
  <1>10. CASE UNCHANGED vars
    <2>1. \A c \in Conns : Holders(c)' = Holders(c)
      BY <1>10 DEF vars, Holders
    <2>2. CountCovers'
      BY <1>10, <2>1, CountsKept DEF vars
    <2> QED
      BY <1>10, <2>2 DEF vars, PoolInv, Given, FreshUnknown, DialedPrivate,
                        LegacyNoUseAfterClose, CacheIsLive
  <1> QED
    BY <1>1, <1>2, <1>3, <1>4, <1>5, <1>6, <1>7, <1>8, <1>9, <1>10
       DEF Next, Flight, Proceed, UseWithoutClose, NewFails

\* Counted in one critical section and looked up in another, a connection is
\* still never closed while somebody holds it.
THEOREM LegacyPoolSafe == Spec => []LegacyNoUseAfterClose
  <1>1. PoolInv => LegacyNoUseAfterClose
    BY DEF PoolInv
  <1> QED
    BY <1>1, InitPool, NextPool, TypeCorrect, PTL DEF Spec

\* The cache never offers a connection that was returned and closed, also when
\* it was replaced there while in use.
THEOREM CacheStaysLive == Spec => []CacheIsLive
  <1>1. PoolInv => CacheIsLive
    BY DEF PoolInv
  <1> QED
    BY <1>1, InitPool, NextPool, TypeCorrect, PTL DEF Spec
-----------------------------------------------------------------------------
(***************************************************************************)
(* The reference-counted pool, with constants and variables of its own.     *)
(***************************************************************************)

CONSTANTS JSMUsers, MaxRefs, MaxTimers, MaxDeaths, MaxHashFailures

VARIABLES poolStatus, refCount, entry, unpooled, poolPhase, holds, timers, poolLeft

Pool == INSTANCE ConnectionPool WITH
    status <- poolStatus, phase <- poolPhase, left <- poolLeft

\* What ConnectionPool assumes of its constants.
PoolConstants ==
    /\ IsFiniteSet(Users) /\ JSMUsers \subseteq Users /\ NoConn \notin Conns
    /\ MaxRefs \in Nat /\ MaxTimers \in Nat
    /\ MaxDrops \in Nat /\ MaxDeaths \in Nat /\ MaxHashFailures \in Nat

\* The initial states are well-typed.
LEMMA PoolInitType == PoolConstants /\ Pool!Init => Pool!TypeOK
  BY DEF PoolConstants, Pool!Init, Pool!TypeOK, Pool!Statuses, Pool!Phases

\* Every step keeps the state well-typed, one case per action.
LEMMA PoolNextType == Pool!TypeOK /\ [Pool!Next]_(Pool!vars) => Pool!TypeOK'
  <1> SUFFICES ASSUME Pool!TypeOK, [Pool!Next]_(Pool!vars) PROVE Pool!TypeOK'
    OBVIOUS
  <1> USE DEF Pool!TypeOK, Pool!Statuses, Pool!Phases
  <1>1. ASSUME NEW u \in Users, Pool!Pass(u) PROVE Pool!TypeOK'
    <2>1. CASE Pool!GetShared(u)
      BY <2>1 DEF Pool!GetShared, Pool!Gets, Pool!Reusable
    <2>2. CASE Pool!GetNew(u)
      BY <2>2 DEF Pool!GetNew, Pool!Gets
    <2>3. CASE Pool!GetUnpooled(u)
      BY <2>3 DEF Pool!GetUnpooled, Pool!Gets
    <2>4. CASE Pool!CreateClient(u)
      BY <2>4 DEF Pool!CreateClient
    <2>5. CASE Pool!CreateClientFails(u)
      BY <2>5 DEF Pool!CreateClientFails
    <2>6. CASE Pool!Release(u)
      BY <2>6 DEF Pool!Release, Pool!Leaves
    <2>7. CASE Pool!CloseUnpooled(u)
      BY <2>7 DEF Pool!CloseUnpooled, Pool!Leaves
    <2> QED
      BY <1>1, <2>1, <2>2, <2>3, <2>4, <2>5, <2>6, <2>7 DEF Pool!Pass
  <1>2. CASE Pool!Expire
    BY <1>2 DEF Pool!Expire
  <1>3. ASSUME NEW c \in Conns, Pool!Drop(c) \/ Pool!Reconnect(c) \/ Pool!Die(c)
        PROVE  Pool!TypeOK'
    BY <1>3 DEF Pool!Drop, Pool!Reconnect, Pool!Die, Pool!Open
  <1>4. CASE UNCHANGED Pool!vars
    BY <1>4 DEF Pool!vars
  <1> QED
    BY <1>1, <1>2, <1>3, <1>4 DEF Pool!Next

\* Every reachable state of the pool is well-typed.
THEOREM PoolTypeCorrect ==
    ASSUME PoolConstants
    PROVE  Pool!Spec => []Pool!TypeOK
  <1>1. Pool!Init => Pool!TypeOK
    BY PoolInitType
  <1> QED
    BY <1>1, PoolNextType, PTL DEF Pool!Spec
-----------------------------------------------------------------------------
(* Who holds what. *)

\* An idle pass holds nothing, and a pass holds only connections that exist.
HoldsExist ==
    \A u \in Users :
        /\ poolPhase[u] = "idle" <=> holds[u] = NoConn
        /\ holds[u] # NoConn => poolStatus[holds[u]] # "fresh"

\* Nothing replaces an entry while it is open, so whoever works with a pooled
\* connection works with the entry that its release will count down.
HoldsEntry ==
    \A u \in Users : holds[u] \in unpooled \cup {entry, NoConn}

EntryOpen == entry # NoConn => Pool!Open(entry) /\ entry \notin unpooled

UnpooledExist == \A c \in unpooled : poolStatus[c] # "fresh"

\* The count covers the passes; it exceeds them by the references that failed
\* clients have kept.
EntryCounted == entry # NoConn => Cardinality(Pool!Holders(entry)) <= refCount[entry]

SharedInv ==
    /\ poolLeft.death = MaxDeaths
    /\ HoldsExist /\ HoldsEntry /\ EntryOpen /\ UnpooledExist /\ EntryCounted

\* The passes that hold a connection can be counted.
LEMMA PassesFinite ==
    ASSUME PoolConstants, NEW c
    PROVE  IsFiniteSet(Pool!Holders(c)) /\ Cardinality(Pool!Holders(c)) \in Nat
  <1>1. IsFiniteSet(Pool!Holders(c))
    BY FS_Subset DEF PoolConstants, Pool!Holders
  <1> QED
    BY <1>1, FS_CardinalityType

\* Nobody holds anything at the start.
LEMMA InitShared == PoolConstants /\ Pool!Init => SharedInv
  BY DEF PoolConstants, Pool!Init, SharedInv, HoldsExist, HoldsEntry, EntryOpen, UnpooledExist, EntryCounted

\* The holders of c after a step that leaves the entry alone.
HoldersNext(c) == {v \in Users : holds'[v] = c}

\* One holder more, or at most one less.
LEMMA HoldersAdd ==
    ASSUME PoolConstants, NEW u \in Users, NEW c \in Conns, Pool!TypeOK, holds[u] # c,
           holds' = [holds EXCEPT ![u] = c]
    PROVE  Cardinality(HoldersNext(c)) = Cardinality(Pool!Holders(c)) + 1
  <1>1. HoldersNext(c) = Pool!Holders(c) \cup {u} /\ u \notin Pool!Holders(c)
    BY DEF Pool!Holders, HoldersNext, Pool!TypeOK
  <1> QED
    BY <1>1, PassesFinite, FS_AddElement

\* A pass that lets go is one holder less of what it held.
LEMMA HoldersDrop ==
    ASSUME PoolConstants, NEW u \in Users, NEW c \in Conns, Pool!TypeOK,
           holds' = [holds EXCEPT ![u] = NoConn]
    PROVE  Cardinality(HoldersNext(c)) =
               IF holds[u] = c THEN Cardinality(Pool!Holders(c)) - 1
                               ELSE Cardinality(Pool!Holders(c))
  <1>1. HoldersNext(c) = Pool!Holders(c) \ {u} /\ (u \in Pool!Holders(c) <=> holds[u] = c)
    BY DEF PoolConstants, Pool!Holders, HoldersNext, Pool!TypeOK
  <1> QED
    BY <1>1, PassesFinite, FS_RemoveElement

\* EntryCounted after a step that keeps the entry and has a count that covers its holders.
LEMMA CountKept ==
    ASSUME Pool!TypeOK, SharedInv, UNCHANGED entry,
           entry # NoConn => Cardinality(HoldersNext(entry)) <= refCount'[entry]
    PROVE  EntryCounted'
  <1>1. entry # NoConn => Pool!Holders(entry)' = HoldersNext(entry)
    BY DEF Pool!Holders, HoldersNext
  <1> QED
    BY <1>1 DEF EntryCounted

\* An entry whose count is below one has no holder left.
LEMMA ExpiredUnheld ==
    ASSUME PoolConstants, Pool!TypeOK, SharedInv, entry # NoConn, refCount[entry] < 1
    PROVE  Pool!Holders(entry) = {}
  <1>1. refCount[entry] \in Int
    BY DEF Pool!TypeOK
  <1>2. Cardinality(Pool!Holders(entry)) = 0
    BY <1>1, PassesFinite DEF SharedInv, EntryCounted
  <1> QED
    BY <1>2, PassesFinite, FS_EmptySet

\* Every step but a death keeps SharedInv: one case per action of Next.
LEMMA NextShared ==
    PoolConstants /\ Pool!TypeOK /\ SharedInv /\ [Pool!Next]_(Pool!vars)
        => SharedInv' \/ poolLeft'.death < MaxDeaths
  <1> SUFFICES ASSUME PoolConstants, Pool!TypeOK, SharedInv, [Pool!Next]_(Pool!vars)
               PROVE  SharedInv' \/ poolLeft'.death < MaxDeaths
    OBVIOUS
  <1>0. NoConn \notin Conns
    BY DEF PoolConstants
  <1> USE <1>0 DEF Pool!Statuses, Pool!Phases, Pool!Open
  <1>1. ASSUME NEW u \in Users, Pool!GetShared(u) PROVE SharedInv'
    <2>1. EntryCounted'
      <3>0. entry \in Conns /\ holds[u] # entry
        BY <1>1 DEF Pool!GetShared, Pool!Reusable, Pool!TypeOK, SharedInv, HoldsExist
      <3>1. Cardinality(HoldersNext(entry)) = Cardinality(Pool!Holders(entry)) + 1
        BY <1>1, <3>0, HoldersAdd DEF Pool!GetShared, Pool!Gets
      <3>2. refCount'[entry] = refCount[entry] + 1 /\ refCount[entry] \in Int
        BY <1>1 DEF Pool!GetShared, Pool!Reusable, Pool!TypeOK
      <3>3. Cardinality(Pool!Holders(entry)) <= refCount[entry] /\ entry' = entry
        BY <1>1 DEF Pool!GetShared, Pool!Reusable, SharedInv, EntryCounted
      <3> QED
        BY <3>1, <3>2, <3>3, PassesFinite, CountKept
    <2>2. /\ HoldsExist' /\ HoldsEntry' /\ EntryOpen' /\ UnpooledExist'
          /\ poolLeft'.death = MaxDeaths
      BY <1>1
         DEF Pool!GetShared, Pool!Gets, Pool!Reusable, Pool!TypeOK, SharedInv, HoldsExist,
             HoldsEntry,
                  EntryOpen, UnpooledExist
    <2> QED
      BY <2>1, <2>2 DEF SharedInv
  <1>2. ASSUME NEW u \in Users, Pool!GetNew(u) PROVE SharedInv'
    <2>1. PICK c \in Conns :
              /\ poolStatus[c] = "fresh"
              /\ poolStatus' = [poolStatus EXCEPT ![c] = "connected"]
              /\ refCount' = [refCount EXCEPT ![c] = 1]
              /\ entry' = c
              /\ Pool!Gets(u, c)
      BY <1>2 DEF Pool!GetNew
    <2>2. entry = NoConn
      BY <1>2 DEF Pool!GetNew, Pool!Reusable, SharedInv, EntryOpen
    <2>3. EntryCounted'
      <3>1. Pool!Holders(c)' = {u}
        BY <2>1 DEF Pool!Gets, Pool!Holders, Pool!TypeOK, SharedInv, HoldsExist
      <3>2. refCount'[c] = 1
        BY <2>1 DEF Pool!TypeOK
      <3>3. Cardinality({u}) = 1
        BY FS_Singleton
      <3>4. Pool!Holders(entry)' = {u}
        BY <2>1, <3>1 DEF Pool!Holders
      <3> QED
        BY <2>1, <3>2, <3>3, <3>4 DEF EntryCounted
    <2>4. /\ HoldsExist' /\ HoldsEntry' /\ EntryOpen' /\ UnpooledExist'
          /\ poolLeft'.death = MaxDeaths
      BY <1>2, <2>1, <2>2
         DEF Pool!GetNew, Pool!Gets, Pool!TypeOK, SharedInv, HoldsExist, HoldsEntry,
                  EntryOpen, UnpooledExist
    <2> QED
      BY <2>3, <2>4 DEF SharedInv
  <1>3. ASSUME NEW u \in Users, Pool!GetUnpooled(u) PROVE SharedInv'
    <2>1. PICK c \in Conns :
              /\ poolStatus[c] = "fresh"
              /\ poolStatus' = [poolStatus EXCEPT ![c] = "connected"]
              /\ unpooled' = unpooled \cup {c}
              /\ Pool!Gets(u, c)
      BY <1>3 DEF Pool!GetUnpooled
    <2>2. c # entry
      BY <2>1 DEF SharedInv, EntryOpen
    <2>3. EntryCounted'
      <3>1. entry # NoConn => Pool!Holders(entry)' = Pool!Holders(entry)
        BY <1>3, <2>1, <2>2
           DEF Pool!GetUnpooled, Pool!Gets, Pool!Holders, Pool!TypeOK, SharedInv, HoldsExist
      <3> QED
        BY <1>3, <3>1 DEF Pool!GetUnpooled, SharedInv, EntryCounted
    <2>4. /\ HoldsExist' /\ HoldsEntry' /\ EntryOpen' /\ UnpooledExist'
          /\ poolLeft'.death = MaxDeaths
      BY <1>3, <2>1, <2>2 DEF Pool!GetUnpooled, Pool!Gets, Pool!TypeOK, SharedInv, HoldsExist,
                  HoldsEntry, EntryOpen, UnpooledExist
    <2> QED
      BY <2>3, <2>4 DEF SharedInv
  <1>4. ASSUME NEW u \in Users, Pool!CreateClient(u) PROVE SharedInv'
    BY <1>4 DEF Pool!CreateClient, Pool!TypeOK, SharedInv, HoldsExist, HoldsEntry, EntryOpen,
                UnpooledExist, EntryCounted, Pool!Holders
  <1>5. ASSUME NEW u \in Users, Pool!CreateClientFails(u) PROVE SharedInv'
    <2>1. EntryCounted'
      <3>1. ASSUME entry # NoConn PROVE Cardinality(HoldersNext(entry)) <= refCount[entry]
        <4>1. entry \in Conns /\ refCount[entry] \in Int
          BY <3>1 DEF Pool!TypeOK
        <4>2. Cardinality(Pool!Holders(entry)) \in Nat
          BY PassesFinite
        <4>3. Cardinality(HoldersNext(entry)) =
                  IF holds[u] = entry THEN Cardinality(Pool!Holders(entry)) - 1
                                      ELSE Cardinality(Pool!Holders(entry))
          BY <1>5, <4>1, HoldersDrop DEF Pool!CreateClientFails
        <4>4. Cardinality(Pool!Holders(entry)) <= refCount[entry]
          BY <3>1 DEF SharedInv, EntryCounted
        <4> QED
          BY <4>1, <4>2, <4>3, <4>4
      <3> QED
        BY <1>5, <3>1, CountKept DEF Pool!CreateClientFails
    <2>2. /\ HoldsExist' /\ HoldsEntry' /\ EntryOpen' /\ UnpooledExist'
          /\ poolLeft'.death = MaxDeaths
      BY <1>5
         DEF Pool!CreateClientFails, Pool!TypeOK, SharedInv, HoldsExist, HoldsEntry, EntryOpen,
                  UnpooledExist
    <2> QED
      BY <2>1, <2>2 DEF SharedInv
  <1>6. ASSUME NEW u \in Users, Pool!Release(u) PROVE SharedInv'
    <2>1. CASE entry = NoConn
      BY <1>6, <2>1
         DEF Pool!Release, Pool!Leaves, Pool!TypeOK, SharedInv, HoldsExist, HoldsEntry,
                  EntryOpen, UnpooledExist, EntryCounted
    <2>2. CASE entry # NoConn
      <3>1. holds[u] = entry
        BY <1>6, <2>2 DEF Pool!Release, Pool!Leaves, SharedInv, HoldsExist, HoldsEntry
      <3>2. Cardinality(HoldersNext(entry)) = Cardinality(Pool!Holders(entry)) - 1
        BY <1>6, <2>2, <3>1, HoldersDrop DEF Pool!Release, Pool!Leaves, Pool!TypeOK
      <3>3. refCount'[entry] = refCount[entry] - 1 /\ refCount[entry] \in Int /\ entry' = entry
        BY <1>6, <2>2 DEF Pool!Release, Pool!TypeOK
      <3>4. EntryCounted'
        BY <2>2, <3>2, <3>3, PassesFinite, CountKept DEF SharedInv, EntryCounted
      <3>5. /\ HoldsExist' /\ HoldsEntry' /\ EntryOpen' /\ UnpooledExist'
            /\ poolLeft'.death = MaxDeaths
        BY <1>6
           DEF Pool!Release, Pool!Leaves, Pool!TypeOK, SharedInv, HoldsExist, HoldsEntry,
               EntryOpen,
                    UnpooledExist
      <3> QED
        BY <3>4, <3>5 DEF SharedInv
    <2> QED
      BY <2>1, <2>2
  <1>7. ASSUME NEW u \in Users, Pool!CloseUnpooled(u) PROVE SharedInv'
    <2>1. entry # NoConn => holds[u] # entry
      BY <1>7 DEF Pool!CloseUnpooled, SharedInv, EntryOpen
    <2>2. EntryCounted'
      <3>1. ASSUME entry # NoConn PROVE Cardinality(HoldersNext(entry)) <= refCount[entry]
        <4>1. entry \in Conns
          BY <3>1 DEF Pool!TypeOK
        <4> QED
          BY <1>7, <2>1, <3>1, <4>1, HoldersDrop
             DEF Pool!CloseUnpooled, Pool!Leaves, SharedInv, EntryCounted
      <3> QED
        BY <1>7, <3>1, CountKept DEF Pool!CloseUnpooled
    <2>3. /\ HoldsExist' /\ HoldsEntry' /\ EntryOpen' /\ UnpooledExist'
          /\ poolLeft'.death = MaxDeaths
      BY <1>7, <2>1
         DEF Pool!CloseUnpooled, Pool!Leaves, Pool!TypeOK, SharedInv, HoldsExist, HoldsEntry,
                  EntryOpen, UnpooledExist
    <2> QED
      BY <2>2, <2>3 DEF SharedInv
  <1>8. CASE Pool!Expire
    <2>1. CASE entry # NoConn /\ refCount[entry] < 1
      <3>1. Pool!Holders(entry) = {}
        BY <2>1, ExpiredUnheld
      <3> QED
        BY <1>8, <2>1, <3>1
           DEF Pool!Expire, Pool!Holders, Pool!TypeOK, SharedInv, HoldsExist, HoldsEntry,
                    EntryOpen, UnpooledExist, EntryCounted
    <2>2. CASE ~(entry # NoConn /\ refCount[entry] < 1)
      BY <1>8, <2>2 DEF Pool!Expire, SharedInv, HoldsExist, HoldsEntry, EntryOpen,
                  UnpooledExist, EntryCounted, Pool!Holders
    <2> QED
      BY <2>1, <2>2
  <1>9. ASSUME NEW c \in Conns, Pool!Drop(c) \/ Pool!Reconnect(c) PROVE SharedInv'
    <2>0. poolLeft'.death = MaxDeaths
      BY <1>9 DEF Pool!Drop, Pool!Reconnect, Pool!TypeOK, SharedInv
    <2>1. EntryCounted'
      BY <1>9 DEF Pool!Drop, Pool!Reconnect, SharedInv, EntryCounted, Pool!Holders
    <2>2. \A d \in Conns : /\ poolStatus[d] # "fresh" => poolStatus'[d] # "fresh"
                           /\ Pool!Open(d) => Pool!Open(d)'
      BY <1>9 DEF Pool!Drop, Pool!Reconnect, Pool!TypeOK
    <2>3. HoldsExist' /\ HoldsEntry' /\ EntryOpen' /\ UnpooledExist'
      BY <1>9, <2>2
         DEF Pool!Drop, Pool!Reconnect, Pool!TypeOK, SharedInv, HoldsExist, HoldsEntry,
                  EntryOpen, UnpooledExist
    <2> QED
      BY <2>0, <2>1, <2>3 DEF SharedInv
  <1>10. ASSUME NEW c \in Conns, Pool!Die(c) PROVE poolLeft'.death < MaxDeaths
    BY <1>10 DEF Pool!Die, Pool!TypeOK, SharedInv
  <1>11. CASE UNCHANGED Pool!vars
    BY <1>11 DEF Pool!vars, SharedInv, HoldsExist, HoldsEntry, EntryOpen, UnpooledExist,
                 EntryCounted, Pool!Holders
  <1> QED
    BY <1>1, <1>2, <1>3, <1>4, <1>5, <1>6, <1>7, <1>8, <1>9, <1>10, <1>11
       DEF Pool!Next, Pool!Pass

\* Only the end of a grace period removes the entry.
LEMMA OnlyExpireRemoves ==
    ASSUME PoolConstants, [Pool!Next]_(Pool!vars), entry # NoConn, entry' = NoConn
    PROVE  Pool!Expire /\ refCount[entry] < 1
  BY DEF PoolConstants, Pool!Next, Pool!vars, Pool!Pass, Pool!GetShared, Pool!GetNew, Pool!GetUnpooled,
         Pool!CreateClient, Pool!CreateClientFails, Pool!Release, Pool!CloseUnpooled,
         Pool!Expire, Pool!Drop, Pool!Reconnect, Pool!Die

\* Deaths are only ever counted down.
LEMMA DeathsCounted ==
    Pool!TypeOK /\ [Pool!Next]_(Pool!vars) => poolLeft'.death <= poolLeft.death
  BY DEF Pool!TypeOK, Pool!Next, Pool!vars, Pool!Pass, Pool!GetShared, Pool!GetNew, Pool!GetUnpooled,
         Pool!CreateClient, Pool!CreateClientFails, Pool!Release, Pool!CloseUnpooled,
         Pool!Expire, Pool!Drop, Pool!Reconnect, Pool!Die

NoDeathYet == poolLeft.death <= MaxDeaths /\ (poolLeft.death = MaxDeaths => SharedInv)

\* Until a connection dies, the pool closes none that a pass works with, also
\* when connections drop and failed clients keep their references.
THEOREM PoolSafe ==
    ASSUME PoolConstants
    PROVE  Pool!Spec => Pool!NoUseAfterCloseYet
  <1>1. Pool!Init => NoDeathYet
    BY InitShared DEF PoolConstants, NoDeathYet, Pool!Init
  <1>2. Pool!TypeOK /\ NoDeathYet /\ [Pool!Next]_(Pool!vars) => NoDeathYet'
    <2> SUFFICES ASSUME Pool!TypeOK, NoDeathYet, [Pool!Next]_(Pool!vars) PROVE NoDeathYet'
      OBVIOUS
    <2>0. Pool!TypeOK'
      BY PoolNextType
    <2>1. poolLeft.death \in Nat /\ poolLeft'.death \in Nat /\ MaxDeaths \in Nat
      BY <2>0 DEF PoolConstants, Pool!TypeOK
    <2>2. poolLeft'.death <= poolLeft.death
      BY DeathsCounted
    <2>3. CASE poolLeft.death = MaxDeaths
      BY <2>1, <2>2, <2>3, NextShared DEF NoDeathYet
    <2>4. CASE poolLeft.death < MaxDeaths
      BY <2>1, <2>2, <2>4 DEF NoDeathYet
    <2> QED
      BY <2>1, <2>3, <2>4 DEF NoDeathYet
  <1>3. Pool!TypeOK /\ NoDeathYet /\ [Pool!Next]_(Pool!vars)
            => ((entry # NoConn /\ entry' = NoConn /\ poolLeft.death = MaxDeaths)
                    => Pool!Holders(entry) = {})
    BY OnlyExpireRemoves, ExpiredUnheld DEF NoDeathYet
  <1>4. Pool!Spec => []Pool!TypeOK
    BY PoolTypeCorrect
  <1> QED
    BY <1>1, <1>2, <1>3, <1>4, PTL DEF Pool!Spec, Pool!NoUseAfterCloseYet
=============================================================================
