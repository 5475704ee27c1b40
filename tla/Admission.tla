----------------------------- MODULE Admission -----------------------------
(***************************************************************************)
(* The validating webhook of internal/webhook in front of the CRs of one  *)
(* kind and namespace, with the requests of users, of the drp-operator and*)
(* of the controller itself, which adds and removes its finalizer.         *)
(*                                                                         *)
(* The webhook judges a request by what its informer cache shows; the API  *)
(* server stores the object later, so requests overlap.  DELETE is not     *)
(* sent to the webhook (deploy/webhook.yml: operations CREATE, UPDATE).    *)
(***************************************************************************)
EXTENDS Naturals, FiniteSets

CONSTANTS
    Names,           \* metadata.name of the CRs
    Kinds,           \* "Stream" and/or "KeyValue"
    Shapes,          \* what users write: name, mirror, account, scope label
    DefaultAccount,  \* --default-account
    MaxInflight,     \* bound: requests between webhook and storage
    MaxRequests,     \* bound: creations, updates and deletions
    MaxDrills        \* bound: changes of the drill-active annotation

Requesters == {"operator", "controller", "other"}
Unset == "unset"    \* an absent label, mirror or name

ASSUME AdmissionAssumption ==
    /\ Kinds \subseteq {"Stream", "KeyValue"} /\ IsFiniteSet(Names)
    /\ \A s \in Shapes : DOMAIN s = {"name", "mirror", "account", "scope"}
    /\ DefaultAccount # Unset
    /\ {MaxInflight, MaxRequests, MaxDrills} \subseteq Nat

VARIABLES
    kind,
    store, storeCache,   \* the CRs, and as the webhook's cache shows them
    drill, drillCache,   \* the drill-active annotation of the namespace
    inflight,            \* admitted requests not stored yet
    requests, drills     \* counters for the bounds

vars == <<kind, store, storeCache, drill, drillCache, inflight, requests, drills>>

\* shape: the spec and labels; present is FALSE once the CR is gone.
NoShape == [name |-> Unset, mirror |-> Unset, account |-> Unset, scope |-> FALSE]
Absent == [present |-> FALSE, shape |-> NoShape, finalizer |-> FALSE, deleting |-> FALSE]
CRs == [present: BOOLEAN, shape: Shapes \cup {NoShape}, finalizer: BOOLEAN,
        deleting: BOOLEAN]

Init ==
    /\ kind \in Kinds
    /\ store = [n \in Names |-> Absent] /\ storeCache = store
    /\ drill \in BOOLEAN /\ drillCache = drill
    /\ inflight = {} /\ requests = 0 /\ drills = 0
-----------------------------------------------------------------------------
(* The decisions. *)

ResolveAccount(s) == IF s.account = Unset THEN DefaultAccount ELSE s.account
DifferentAccounts(a, b) == ResolveAccount(a) # ResolveAccount(b)

\* Mutant: mirrors are looked at from one side only.
StreamConflictOneWay(self, other) ==
    \/ other.name = self.name
    \/ other.mirror = self.name

\* The same name on the wire, or one a mirror of the other.
StreamConflict(self, other) ==
    \/ self.name # Unset /\ other.name = self.name
    \/ self.name # Unset /\ other.mirror = self.name
    \/ self.mirror # Unset /\ other.name = self.mirror

KeyValueConflict(self, other) == self.name # Unset /\ other.name = self.name

Collides(self, other) ==
    /\ ~DifferentAccounts(self, other)
    /\ IF kind = "Stream" THEN StreamConflict(self, other)
       ELSE KeyValueConflict(self, other)

Sibling(n, shape) ==
    \E m \in Names \ {n} : storeCache[m].present /\ Collides(shape, storeCache[m].shape)

\* Mutant: nobody but the operator is exempt.
GateOperatorOnly(by, shape) ==
    drillCache => (~shape.scope \/ by = "operator")

\* drillActiveOperatorGate looks at the new object's labels.
Gate(by, shape) ==
    drillCache => (~shape.scope \/ by \in {"operator", "controller"})

\* Mutant: the operator gate is asked only about conflicting CRs.
AdmittedGateLast(by, n, shape, during) ==
    ~Sibling(n, shape) \/ (during /\ Gate(by, shape))

\* validate: the namespace is read again for a conflicting CR, and the cache
\* may have learned of a drill, or of its end, since the gate.
Admitted(by, n, shape, during) ==
    Gate(by, shape) /\ (~Sibling(n, shape) \/ during)
-----------------------------------------------------------------------------
(* Requests. *)

\* early and raced are history: the webhook did not know of a drill; what it
\* knew was stale, or another request was stored in between.
Request(by, n, old, new) ==
    /\ Cardinality(inflight) < MaxInflight
    /\ \E during \in {drillCache, drill} :
          /\ Admitted(by, n, new.shape, during)
          /\ inflight' = inflight \cup
               {[by |-> by, name |-> n, old |-> old, new |-> new, during |-> during,
                 early |-> ~drillCache, raced |-> storeCache # store]}
    /\ UNCHANGED <<kind, store, storeCache, drill, drillCache, drills>>

Asked == requests < MaxRequests /\ requests' = requests + 1

UserCreate(by, n) ==
    /\ ~store[n].present /\ Asked
    /\ \E s \in Shapes : Request(by, n, Absent, [Absent EXCEPT !.present = TRUE, !.shape = s])

UserUpdate(by, n) ==
    /\ store[n].present /\ ~store[n].deleting /\ Asked
    /\ \E s \in Shapes \ {store[n].shape} :
          Request(by, n, store[n], [store[n] EXCEPT !.shape = s])

\* Not seen by the webhook.
UserDelete(n) ==
    /\ store[n].present /\ ~store[n].deleting /\ Asked
    /\ store' = [store EXCEPT ![n] =
                   IF @.finalizer THEN [@ EXCEPT !.deleting = TRUE] ELSE Absent]
    /\ inflight' = {[r EXCEPT !.raced = TRUE] : r \in inflight}
    /\ UNCHANGED <<kind, storeCache, drill, drillCache, drills>>

ControllerIdle(n) == \A r \in inflight : r.by = "controller" => r.name # n

AddFinalizer(n) ==
    /\ ControllerIdle(n) /\ store[n].present /\ ~store[n].finalizer
    /\ Request("controller", n, store[n], [store[n] EXCEPT !.finalizer = TRUE])
    /\ UNCHANGED requests

RemoveFinalizer(n) ==
    /\ ControllerIdle(n) /\ store[n].present /\ store[n].deleting /\ store[n].finalizer
    /\ Request("controller", n, store[n], [store[n] EXCEPT !.finalizer = FALSE])
    /\ UNCHANGED requests

\* Mutant: a CR marked for deletion stays when its last finalizer goes.
StoreKeeping(r) ==
    /\ inflight' = {[q EXCEPT !.raced = TRUE] : q \in inflight \ {r}}
    /\ store' = IF store[r.name] # r.old THEN store
                ELSE [store EXCEPT ![r.name] = r.new]
    /\ UNCHANGED <<kind, storeCache, drill, drillCache, requests, drills>>

\* A request whose object changed meanwhile is refused.  A CR marked for
\* deletion goes with its last finalizer.
Store(r) ==
    /\ inflight' = {[q EXCEPT !.raced = TRUE] : q \in inflight \ {r}}
    /\ store' = IF store[r.name] # r.old THEN store
                ELSE [store EXCEPT ![r.name] =
                        IF r.new.deleting /\ ~r.new.finalizer THEN Absent ELSE r.new]
    /\ UNCHANGED <<kind, storeCache, drill, drillCache, requests, drills>>
-----------------------------------------------------------------------------
(* The environment. *)

SyncStore ==
    /\ storeCache # store /\ storeCache' = store
    /\ UNCHANGED <<kind, store, drill, drillCache, inflight, requests, drills>>

SyncDrill ==
    /\ drillCache # drill /\ drillCache' = drill
    /\ UNCHANGED <<kind, store, storeCache, drill, inflight, requests, drills>>

ToggleDrill ==
    /\ drills < MaxDrills /\ drills' = drills + 1
    /\ drill' = ~drill
    /\ UNCHANGED <<kind, store, storeCache, drillCache, inflight, requests>>

Controller == \E n \in Names : AddFinalizer(n) \/ RemoveFinalizer(n)
Stores == \E r \in inflight : Store(r)

Next ==
    \/ \E n \in Names, by \in {"operator", "other"} : UserCreate(by, n) \/ UserUpdate(by, n)
    \/ \E n \in Names : UserDelete(n)
    \/ Controller \/ Stores \/ SyncStore \/ SyncDrill \/ ToggleDrill

\* The controller tries again, the API server stores, caches catch up.
Fairness ==
    /\ \A n \in Names : WF_vars(AddFinalizer(n)) /\ WF_vars(RemoveFinalizer(n))
    /\ WF_vars(Stores) /\ WF_vars(SyncStore) /\ WF_vars(SyncDrill)

Spec == Init /\ [][Next]_vars /\ Fairness
-----------------------------------------------------------------------------
(* Properties. *)

TypeOK ==
    /\ kind \in Kinds
    /\ {store, storeCache} \subseteq [Names -> CRs]
    /\ \A n \in Names : store[n].deleting => store[n].present /\ store[n].finalizer
    /\ {drill, drillCache} \subseteq BOOLEAN
    /\ inflight \subseteq [by: Requesters, name: Names, old: CRs, new: CRs,
                           during: BOOLEAN, early: BOOLEAN, raced: BOOLEAN]
    /\ {requests, drills} \subseteq Nat

\* Two CRs that stand for one stream, told from the specs alone.
SameStream(a, b) ==
    /\ a.present /\ b.present
    /\ ResolveAccount(a.shape) = ResolveAccount(b.shape)
    /\ \/ a.shape.name # Unset /\ a.shape.name = b.shape.name
       \/ kind = "Stream" /\ a.shape.name # Unset /\ b.shape.mirror = a.shape.name
       \/ kind = "Stream" /\ b.shape.name # Unset /\ a.shape.mirror = b.shape.name
Conflicts(s) == {p \in SUBSET Names : \E m, n \in p : p = {m, n} /\ m # n /\ SameStream(s[m], s[n])}

\* Two CRs come to stand for one stream only in a drill, or by requests that
\* overlap, or by one judged from a stale cache.
ConflictsHaveCause ==
    [][Conflicts(store') \subseteq Conflicts(store)
        \/ \E r \in inflight : store'[r.name] # store[r.name] /\ (r.during \/ r.raced)]_vars

\* Once the webhook knows of a drill, a scope-labeled CR is changed by the
\* operator and the controller alone, whatever was admitted since; a request
\* that was under way, or takes the label off, is the exception.
DrillShields ==
    [][\A n \in Names :
        (drillCache /\ store[n].present /\ store[n].shape.scope
           /\ store'[n].present /\ store'[n].shape # store[n].shape)
        => \E r \in inflight : /\ r.name = n /\ r.new = store'[n]
                               /\ r.by # "other" \/ r.early \/ ~r.new.shape.scope]_vars

\* A deletion comes to its end.  The sibling check, which also judges the
\* update that removes the finalizer, may keep it from that: two CRs in
\* conflict outside a drill.
Blocked(n) == ~drill /\ \E p \in Conflicts(store) : n \in p
DeletionsFinish ==
    \A n \in Names : <>[](~store[n].deleting \/ Blocked(n))

\* "nack must be able to manage its own CRs at all times, including REMOVING
\* the finalizer" (drill_active_gate.go:65): false of the code outside a drill.
FinalizersComeOff == \A n \in Names : <>[]~store[n].deleting
=============================================================================
