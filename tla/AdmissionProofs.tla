-------------------------- MODULE AdmissionProofs --------------------------
(***************************************************************************)
(* What holds of the admission webhook for every set of CRs and shapes,    *)
(* for both kinds, and for any number of overlapping requests.  All of it  *)
(* rests on what is true of a request between webhook and storage.         *)
(***************************************************************************)
EXTENDS Admission, TLAPS

\* A request stores a CR that is there.
StoresPresent == \A r \in inflight : r.new.present

\* A request that no change of the CRs has overtaken, and that was not waived by
\* a drill, collides with none of the CRs there are.
JudgedAgainstStore ==
    \A r \in inflight : (~r.raced /\ ~r.during) =>
        \A m \in Names \ {r.name} : store[m].present => ~Collides(r.new.shape, store[m].shape)

\* A user's request that was judged in a drill takes the CR out of its scope.
GateAsked == \A r \in inflight : (r.by = "other" /\ ~r.early) => ~r.new.shape.scope

AdmissionInv == StoresPresent /\ JudgedAgainstStore /\ GateAsked

\* No CR and no request at first.
LEMMA InitAdmission == Init => TypeOK /\ AdmissionInv
  <1> SUFFICES ASSUME Init PROVE TypeOK /\ AdmissionInv
    OBVIOUS
  <1>1. Absent \in CRs /\ ~Absent.deleting
    BY DEF Absent, CRs
  <1>2. store \in [Names -> CRs] /\ storeCache \in [Names -> CRs]
        /\ \A n \in Names : ~store[n].deleting
    BY <1>1 DEF Init
  <1>3. inflight = {} /\ kind \in Kinds /\ requests \in Nat /\ drills \in Nat
        /\ {drill, drillCache} \subseteq BOOLEAN
    BY DEF Init
  <1> QED
    BY <1>2, <1>3 DEF TypeOK, AdmissionInv, StoresPresent, JudgedAgainstStore, GateAsked

\* What the webhook admits it has judged by its cache.
LEMMA RequestKeeps ==
    ASSUME TypeOK, AdmissionInv, NEW by \in Requesters, NEW n \in Names,
           NEW old \in CRs, NEW new \in CRs, new.present,
           Request(by, n, old, new), requests' \in Nat
    PROVE  (TypeOK /\ AdmissionInv)'
  <1>1. PICK during \in {drillCache, drill} :
          /\ Admitted(by, n, new.shape, during)
          /\ inflight' = inflight \cup
               {[by |-> by, name |-> n, old |-> old, new |-> new, during |-> during,
                 early |-> ~drillCache, raced |-> storeCache # store]}
    BY DEF Request
  <1>2. UNCHANGED <<kind, store, storeCache, drill, drillCache, drills>>
    BY DEF Request
  <1> DEFINE q == [by |-> by, name |-> n, old |-> old, new |-> new, during |-> during,
                   early |-> ~drillCache, raced |-> storeCache # store]
  <1>3. during \in BOOLEAN /\ (~drillCache) \in BOOLEAN /\ (storeCache # store) \in BOOLEAN
    BY DEF TypeOK
  <1>4. q \in [by: Requesters, name: Names, old: CRs, new: CRs,
               during: BOOLEAN, early: BOOLEAN, raced: BOOLEAN]
    BY <1>3
  <1>5. inflight' = inflight \cup {q}
    BY <1>1
  <1>6. TypeOK'
    BY <1>2, <1>4, <1>5 DEF TypeOK
  <1>7. q.new = new /\ q.name = n /\ q.by = by /\ q.during = during
        /\ q.early = ~drillCache /\ q.raced = (storeCache # store)
    OBVIOUS
  <1> HIDE DEF q
  <1>8. StoresPresent'
    BY <1>5, <1>7 DEF AdmissionInv, StoresPresent
  <1>9. GateAsked'
    <2>1. by = "other" /\ drillCache => ~new.shape.scope
      BY <1>1 DEF Admitted, Gate
    <2> QED
      BY <1>5, <1>7, <2>1 DEF AdmissionInv, GateAsked
  <1>10. JudgedAgainstStore'
    <2>1. ~q.raced /\ ~q.during =>
            \A m \in Names \ {n} : store[m].present => ~Collides(new.shape, store[m].shape)
      BY <1>1, <1>7 DEF Admitted, Sibling
    <2>2. \A a, b : Collides(a, b)' <=> Collides(a, b)
      BY <1>2 DEF Collides, DifferentAccounts, ResolveAccount, StreamConflict, KeyValueConflict
    <2>3. SUFFICES ASSUME NEW r \in inflight', ~r.raced, ~r.during,
                          NEW m \in Names \ {r.name}, store[m].present
                   PROVE  ~Collides(r.new.shape, store[m].shape)
      BY <1>2, <2>2 DEF JudgedAgainstStore
    <2>4. CASE r \in inflight
      BY <2>3, <2>4 DEF AdmissionInv, JudgedAgainstStore
    <2>5. CASE r = q
      BY <1>7, <2>1, <2>3, <2>5
    <2> QED
      BY <1>5, <2>4, <2>5
  <1> QED
    BY <1>6, <1>8, <1>9, <1>10 DEF AdmissionInv

\* A change of the CRs overtakes the requests that are under way.
LEMMA OvertakenKeep ==
    ASSUME TypeOK, AdmissionInv, NEW R \in SUBSET inflight,
           inflight' = {[r EXCEPT !.raced = TRUE] : r \in R},
           store' \in [Names -> CRs],
           \A n \in Names : store'[n].deleting => store'[n].present /\ store'[n].finalizer,
           UNCHANGED <<kind, storeCache, drill, drillCache, drills>>, requests' \in Nat
    PROVE  (TypeOK /\ AdmissionInv)'
  <1> DEFINE Requests == [by: Requesters, name: Names, old: CRs, new: CRs,
                          during: BOOLEAN, early: BOOLEAN, raced: BOOLEAN]
  <1>1. \A r \in Requests : LET o == [r EXCEPT !.raced = TRUE] IN
            o \in Requests /\ o.raced /\ o.new = r.new /\ o.by = r.by /\ o.early = r.early
    OBVIOUS
  <1>2. inflight \subseteq Requests
    BY DEF TypeOK
  <1> HIDE DEF Requests
  <1>3. \A o \in inflight' : \E r \in inflight :
            o \in Requests /\ o.raced /\ o.new = r.new /\ o.by = r.by /\ o.early = r.early
    <2> SUFFICES ASSUME NEW o \in inflight'
                 PROVE  \E r \in inflight : /\ o \in Requests /\ o.raced /\ o.new = r.new
                                            /\ o.by = r.by /\ o.early = r.early
      OBVIOUS
    <2>1. PICK r \in R : o = [r EXCEPT !.raced = TRUE]
      OBVIOUS
    <2>2. r \in inflight /\ r \in Requests
      BY <1>2
    <2> QED
      BY <1>1, <2>1, <2>2
  <1>4. inflight' \subseteq Requests
    BY <1>3
  <1>5. TypeOK'
    BY <1>4 DEF TypeOK, Requests
  <1>6. StoresPresent' /\ JudgedAgainstStore' /\ GateAsked'
    BY <1>3 DEF AdmissionInv, StoresPresent, JudgedAgainstStore, GateAsked
  <1> QED
    BY <1>5, <1>6 DEF AdmissionInv

\* What users write and what the controller adds are CRs.
LEMMA NewObjects ==
    ASSUME NEW c \in CRs, NEW s \in Shapes
    PROVE  /\ Absent \in CRs
           /\ [Absent EXCEPT !.present = TRUE, !.shape = s] \in CRs
           /\ [Absent EXCEPT !.present = TRUE, !.shape = s].present
           /\ [c EXCEPT !.shape = s] \in CRs
           /\ [c EXCEPT !.shape = s].present = c.present
  BY DEF CRs, Absent

\* And so are the CRs whose finalizer the controller sets and removes, or that are
\* marked for deletion.
LEMMA MarkedObjects ==
    ASSUME NEW c \in CRs, NEW f \in BOOLEAN
    PROVE  /\ [c EXCEPT !.finalizer = f] \in CRs
           /\ [c EXCEPT !.finalizer = f].present = c.present
           /\ [c EXCEPT !.deleting = TRUE] \in CRs
           /\ [c EXCEPT !.deleting = TRUE].present = c.present
           /\ [c EXCEPT !.deleting = TRUE].finalizer = c.finalizer
           /\ [c EXCEPT !.deleting = TRUE].shape = c.shape
  BY DEF CRs

\* What is true of the requests under way stays so.
LEMMA NextAdmission == TypeOK /\ AdmissionInv /\ [Next]_vars => (TypeOK /\ AdmissionInv)'
  <1> SUFFICES ASSUME TypeOK, AdmissionInv, [Next]_vars PROVE (TypeOK /\ AdmissionInv)'
    OBVIOUS
  <1>1. requests \in Nat /\ requests + 1 \in Nat /\ \A n \in Names : store[n] \in CRs
    BY DEF TypeOK
  <1>2. Absent \in CRs /\ ~Absent.deleting
    BY DEF CRs, Absent
  <1>3. ASSUME NEW by \in {"operator", "other"}, NEW n \in Names, UserCreate(by, n)
        PROVE  (TypeOK /\ AdmissionInv)'
    <2>1. PICK s \in Shapes :
            Request(by, n, Absent, [Absent EXCEPT !.present = TRUE, !.shape = s])
      BY <1>3 DEF UserCreate
    <2>2. requests' \in Nat /\ by \in Requesters
      BY <1>1, <1>3 DEF UserCreate, Asked, Requesters
    <2> QED
      BY <1>2, <2>1, <2>2, NewObjects, RequestKeeps
  <1>4. ASSUME NEW by \in {"operator", "other"}, NEW n \in Names, UserUpdate(by, n)
        PROVE  (TypeOK /\ AdmissionInv)'
    <2>1. PICK s \in Shapes : Request(by, n, store[n], [store[n] EXCEPT !.shape = s])
      BY <1>4 DEF UserUpdate
    <2>2. requests' \in Nat /\ by \in Requesters /\ store[n].present
      BY <1>1, <1>4 DEF UserUpdate, Asked, Requesters
    <2>3. store[n] \in CRs
      BY <1>1
    <2> QED
      BY <2>1, <2>2, <2>3, NewObjects, RequestKeeps
  <1>5. ASSUME NEW n \in Names, AddFinalizer(n) \/ RemoveFinalizer(n)
        PROVE  (TypeOK /\ AdmissionInv)'
    <2>1. PICK f \in BOOLEAN : Request("controller", n, store[n], [store[n] EXCEPT !.finalizer = f])
      BY <1>5 DEF AddFinalizer, RemoveFinalizer
    <2>2. requests' \in Nat /\ "controller" \in Requesters /\ store[n].present
      BY <1>1, <1>5 DEF AddFinalizer, RemoveFinalizer, Requesters
    <2>3. store[n] \in CRs
      BY <1>1
    <2> QED
      BY <2>1, <2>2, <2>3, MarkedObjects, RequestKeeps
  <1>6. ASSUME NEW n \in Names, UserDelete(n)
        PROVE  (TypeOK /\ AdmissionInv)'
    <2> DEFINE c == IF store[n].finalizer THEN [store[n] EXCEPT !.deleting = TRUE] ELSE Absent
    <2>1. c \in CRs /\ (c.deleting => c.present /\ c.finalizer)
      BY <1>1, <1>2, <1>6, MarkedObjects DEF UserDelete
    <2>2. store' = [store EXCEPT ![n] = c]
      BY <1>6 DEF UserDelete
    <2> HIDE DEF c
    <2>3. store' \in [Names -> CRs]
          /\ \A m \in Names : store'[m].deleting => store'[m].present /\ store'[m].finalizer
      BY <2>1, <2>2 DEF TypeOK
    <2>4. UNCHANGED <<kind, storeCache, drill, drillCache, drills>> /\ requests' \in Nat
          /\ inflight' = {[r EXCEPT !.raced = TRUE] : r \in inflight}
      BY <1>1, <1>6 DEF UserDelete, Asked
    <2> QED
      BY <2>3, <2>4, OvertakenKeep
  <1>7. ASSUME NEW r \in inflight, Store(r)
        PROVE  (TypeOK /\ AdmissionInv)'
    <2> DEFINE c == IF r.new.deleting /\ ~r.new.finalizer THEN Absent ELSE r.new
    <2>1. c \in CRs /\ (c.deleting => c.present /\ c.finalizer)
      BY <1>2 DEF TypeOK, AdmissionInv, StoresPresent
    <2>2. store' = store \/ store' = [store EXCEPT ![r.name] = c]
      BY <1>7 DEF Store
    <2> HIDE DEF c
    <2>3. store' \in [Names -> CRs]
          /\ \A m \in Names : store'[m].deleting => store'[m].present /\ store'[m].finalizer
      BY <2>1, <2>2 DEF TypeOK
    <2>4. UNCHANGED <<kind, storeCache, drill, drillCache, drills>> /\ requests' \in Nat
          /\ inflight' = {[q EXCEPT !.raced = TRUE] : q \in inflight \ {r}}
      BY <1>1, <1>7 DEF Store
    <2> QED
      BY <2>3, <2>4, OvertakenKeep
  <1>8. CASE SyncStore \/ SyncDrill \/ ToggleDrill \/ UNCHANGED vars
    <2>1. UNCHANGED <<kind, store, inflight, requests>>
      BY <1>8 DEF SyncStore, SyncDrill, ToggleDrill, vars
    <2>2. drills' \in Nat /\ {drill', drillCache'} \subseteq BOOLEAN
          /\ storeCache' \in [Names -> CRs]
      <3>1. drills \in Nat /\ drills + 1 \in Nat /\ {drill, drillCache, ~drill} \subseteq BOOLEAN
            /\ store \in [Names -> CRs] /\ storeCache \in [Names -> CRs]
        BY DEF TypeOK
      <3>2. CASE SyncStore \/ UNCHANGED vars
        BY <3>1, <3>2 DEF SyncStore, vars
      <3>3. CASE SyncDrill
        BY <3>1, <3>3 DEF SyncDrill
      <3>4. CASE ToggleDrill
        BY <3>1, <3>4 DEF ToggleDrill
      <3> QED
        BY <1>8, <3>2, <3>3, <3>4
    <2>3. TypeOK'
      BY <2>1, <2>2 DEF TypeOK
    <2>4. AdmissionInv'
      BY <2>1 DEF AdmissionInv, StoresPresent, JudgedAgainstStore, GateAsked, Collides,
         DifferentAccounts, ResolveAccount, StreamConflict, KeyValueConflict
    <2> QED
      BY <2>3, <2>4
  <1> QED
    BY <1>3, <1>4, <1>5, <1>6, <1>7, <1>8 DEF Next, Controller, Stores

\* AdmissionInv is an invariant.
LEMMA AdmissionInvariant == Spec => [](TypeOK /\ AdmissionInv)
  BY InitAdmission, NextAdmission, PTL DEF Spec

\* Every reachable state is well-typed; in particular a CR marked for deletion is
\* there, and goes with its finalizer.
THEOREM TypeCorrect == Spec => []TypeOK
  BY AdmissionInvariant, PTL
-----------------------------------------------------------------------------
(* What a step may do to the CRs. *)

\* Only the storage of a request and a deletion change the CRs.
LEMMA StoreSource ==
    ASSUME [Next]_vars, store' # store
    PROVE  (\E r \in inflight : Store(r)) \/ (\E n \in Names : UserDelete(n))
  BY DEF Next, Controller, Stores, UserCreate, UserUpdate, AddFinalizer, RemoveFinalizer,
     Request, SyncStore, SyncDrill, ToggleDrill, vars

\* A deletion leaves the other CRs, and the spec of its own.
LEMMA DeletionKeepsShapes ==
    ASSUME TypeOK, NEW n \in Names, UserDelete(n), NEW m \in Names, store'[m].present
    PROVE  store[m].present /\ store'[m].shape = store[m].shape
  <1>1. store \in [Names -> CRs] /\ store[n].present /\ store[m] \in CRs
    BY DEF TypeOK, UserDelete
  <1>2. ~Absent.present
    BY DEF Absent
  <1>3. CASE store[n].finalizer
    <2>1. store' = [store EXCEPT ![n] = [store[n] EXCEPT !.deleting = TRUE]]
      BY <1>1, <1>3 DEF UserDelete
    <2> QED
      BY <1>1, <2>1, MarkedObjects
  <1>4. CASE ~store[n].finalizer
    <2>1. store' = [store EXCEPT ![n] = Absent]
      BY <1>1, <1>4 DEF UserDelete
    <2> QED
      BY <1>1, <1>2, <2>1
  <1> QED
    BY <1>3, <1>4

\* A request that is stored changes its own CR, into what was judged or nothing.
LEMMA StoredAsJudged ==
    ASSUME TypeOK, NEW r \in inflight, Store(r), NEW m \in Names
    PROVE  /\ m # r.name => store'[m] = store[m]
           /\ store'[m] # store[m] /\ store'[m].present => store'[m] = r.new
  <1>1. store \in [Names -> CRs] /\ r.name \in Names
    BY DEF TypeOK
  <1>2. ~Absent.present
    BY DEF Absent
  <1> QED
    BY <1>1, <1>2 DEF Store

\* Whether two CRs stand for one stream is what the webhook asks of their specs,
\* whichever of the two it is asked about.
LEMMA SameCollides ==
    ASSUME NEW a, NEW b, SameStream(a, b)
    PROVE  Collides(a.shape, b.shape) /\ Collides(b.shape, a.shape)
  BY DEF SameStream, Collides, DifferentAccounts, StreamConflict, KeyValueConflict

\* And it is the same asked either way round.
LEMMA SameSymmetric ==
    ASSUME NEW a, NEW b, SameStream(a, b)
    PROVE  SameStream(b, a)
  BY DEF SameStream

\* Two CRs come to stand for one stream only in a drill, or by requests that
\* overlap, or by one judged from a stale cache - for any number of CRs and requests.
THEOREM ConflictsCaused == Spec => ConflictsHaveCause
  <1> DEFINE Caused == Conflicts(store') \subseteq Conflicts(store)
                       \/ \E r \in inflight : store'[r.name] # store[r.name] /\ (r.during \/ r.raced)
  <1>1. TypeOK /\ AdmissionInv /\ [Next]_vars => [Caused]_vars
    <2> SUFFICES ASSUME TypeOK, AdmissionInv, [Next]_vars,
                        NEW p \in Conflicts(store'), p \notin Conflicts(store)
                 PROVE  \E r \in inflight : store'[r.name] # store[r.name] /\ (r.during \/ r.raced)
      OBVIOUS
    <2>1. PICK m \in Names, n \in Names :
            p = {m, n} /\ m # n /\ SameStream(store'[m], store'[n])
      BY DEF Conflicts
    <2>2. ~SameStream(store[m], store[n])
      BY <2>1 DEF Conflicts
    <2>3. store'[m].present /\ store'[n].present
      BY <2>1 DEF SameStream
    <2>4. PICK r \in inflight : Store(r)
      <3>1. store' # store
        BY <2>1, <2>2
      <3>2. ASSUME NEW k \in Names, UserDelete(k) PROVE FALSE
        <4>1. /\ store[m].present /\ store'[m].shape = store[m].shape
              /\ store[n].present /\ store'[n].shape = store[n].shape
          BY <2>3, <3>2, DeletionKeepsShapes
        <4> QED
          BY <2>1, <2>2, <4>1 DEF SameStream
      <3> QED
        BY <3>1, <3>2, StoreSource
    <2>5. CASE r.during \/ r.raced
      <3>1. store'[r.name] # store[r.name]
        BY <2>1, <2>2, <2>4, StoredAsJudged
      <3> QED
        BY <2>5, <3>1
    <2>6. CASE ~r.during /\ ~r.raced
      <3>1. PICK o \in {m, n} :
              o # r.name /\ SameStream(store'[r.name], store[o]) /\ store'[r.name] = r.new
        <4>1. CASE m = r.name
          <5>1. store'[n] = store[n] /\ store'[m] # store[m]
            BY <2>1, <2>2, <2>4, <4>1, StoredAsJudged
          <5>2. store'[m] = r.new
            BY <2>3, <2>4, <4>1, <5>1, StoredAsJudged
          <5> QED
            BY <2>1, <4>1, <5>1, <5>2
        <4>2. CASE m # r.name
          <5>1. store'[m] = store[m] /\ store'[n] # store[n]
            BY <2>1, <2>2, <2>4, <4>2, StoredAsJudged
          <5>2. n = r.name
            BY <2>4, <5>1, StoredAsJudged
          <5>3. store'[n] = r.new
            BY <2>3, <2>4, <5>1, StoredAsJudged
          <5>4. SameStream(store'[n], store[m])
            BY <2>1, <5>1, SameSymmetric
          <5> QED
            BY <4>2, <5>2, <5>3, <5>4
        <4> QED
          BY <4>1, <4>2
      <3>2. store[o].present /\ Collides(r.new.shape, store[o].shape) /\ o \in Names \ {r.name}
        BY <2>1, <3>1, SameCollides DEF SameStream
      <3>3. FALSE
        BY <2>6, <3>2 DEF AdmissionInv, JudgedAgainstStore
      <3> QED
        BY <3>3
    <2> QED
      BY <2>5, <2>6
  <1> QED
    BY <1>1, AdmissionInvariant, PTL DEF Spec, ConflictsHaveCause

\* Once the webhook knows of a drill, a scope-labeled CR is changed by the operator
\* and the controller alone, but for the requests that were under way and those that
\* take the label off.
THEOREM DrillHolds == Spec => DrillShields
  <1> DEFINE Shielded ==
        \A n \in Names :
          (drillCache /\ store[n].present /\ store[n].shape.scope
             /\ store'[n].present /\ store'[n].shape # store[n].shape)
          => \E r \in inflight : /\ r.name = n /\ r.new = store'[n]
                                 /\ r.by # "other" \/ r.early \/ ~r.new.shape.scope
  <1>1. TypeOK /\ AdmissionInv /\ [Next]_vars => [Shielded]_vars
    <2> SUFFICES ASSUME TypeOK, AdmissionInv, [Next]_vars, NEW n \in Names,
                        store'[n].present, store'[n].shape # store[n].shape
                 PROVE  \E r \in inflight : /\ r.name = n /\ r.new = store'[n]
                                            /\ r.by # "other" \/ r.early \/ ~r.new.shape.scope
      OBVIOUS
    <2>1. store' # store
      OBVIOUS
    <2>2. \A k \in Names : ~UserDelete(k)
      BY DeletionKeepsShapes
    <2>3. PICK r \in inflight : Store(r)
      BY <2>1, <2>2, StoreSource
    <2>4. r.name = n /\ r.new = store'[n]
      BY <2>3, StoredAsJudged
    <2>5. r.by # "other" \/ r.early \/ ~r.new.shape.scope
      BY DEF AdmissionInv, GateAsked
    <2> QED
      BY <2>4, <2>5
  <1> QED
    BY <1>1, AdmissionInvariant, PTL DEF Spec, DrillShields
=============================================================================
