----------------------- MODULE LegacyControllerProofs -----------------------
(***************************************************************************)
(* What workers and clean-up loops of the legacy controller never destroy, *)
(* for all specs and flags, any number of retries, users' operations,      *)
(* faults and restarts.                                                     *)
(***************************************************************************)
EXTENDS LegacyController, TLAPS

CRs == [uid: Int, there: BOOLEAN, gen: Nat, spec: Specs, observed: Nat,
        ready: {"none", "Ready", "Errored"}, deleting: BOOLEAN]
Configs == [there: {TRUE}, mirror: BOOLEAN, headersOnly: BOOLEAN]
PCs == {"idle", "exists", "create", "update", "recreateDelete", "delete", "setOK",
        "setErrored", "lookup"}
Bounds == [event: [Kinds -> Nat], fault: Nat, restart: Nat]

ProcsTypeOK ==
    /\ queued \in [Kinds -> BOOLEAN] /\ tries \in [Kinds -> Nat]
    /\ pc \in [Procs -> PCs] /\ obj \in [Procs -> CRs] /\ prev \in [Kinds -> CRs]

TypeOK ==
    /\ cr \in [Kinds -> CRs] /\ cache \in [Kinds -> CRs]
    /\ ProcsTypeOK
    /\ server \in [Kinds -> Configs \cup {None}] /\ sourceOwns \in BOOLEAN
    /\ seen \in [Kinds -> Int] /\ hit \in [Kinds -> BOOLEAN] /\ silent \in [Kinds -> BOOLEAN]
    /\ readOnly \in BOOLEAN /\ left \in Bounds

\* What users write, and what stands for a CR that is not there.
LEMMA CRTypes ==
    ASSUME NEW k \in Kinds, NEW u \in Int, NEW s \in SpecsOf(k)
    PROVE  s \in Specs /\ NewCR(u, s) \in CRs /\ NoCR(k, u) \in CRs
           /\ NewCR(u, s).uid = u /\ NoCR(k, u).uid = u
           /\ NewCR(u, s).there /\ ~NoCR(k, u).there /\ ~NoCR(k, u).deleting
  <1>1. SpecsOf(k) \subseteq Specs /\ SpecsOf(k) # {}
    BY LegacyAssumption DEF SpecsOf
  <1>2. AnySpec(k) \in Specs
    BY <1>1 DEF AnySpec
  <1> QED
    BY <1>1, <1>2 DEF NewCR, NoCR, CRs

\* The same without a spec at hand.
LEMMA NoCRType ==
    ASSUME NEW k \in Kinds, NEW u \in Int
    PROVE  NoCR(k, u) \in CRs /\ NoCR(k, u).uid = u /\ ~NoCR(k, u).there
  <1>1. \E s : s \in SpecsOf(k)
    BY LegacyAssumption DEF SpecsOf
  <1> QED
    BY <1>1, CRTypes

\* What NATS is made to hold.
LEMMA ConfigTypes ==
    ASSUME NEW k \in Kinds, NEW s \in Specs
    PROVE  /\ Created(k, s) \in Configs /\ Updated(k, s) \in Configs
           /\ Created(k, s) # None /\ Updated(k, s) # None
  BY DEF Created, Updated, StreamCreated, StreamUpdated, ConsumerConfig, Specs, Configs, None

\* The initial states are well-typed.
LEMMA InitType == Init => TypeOK
  <1> SUFFICES ASSUME Init PROVE TypeOK
    OBVIOUS
  <1>1. PICK s \in Scenarios : Starts(s)
    BY DEF Init
  <1>2. s \in [readOnly: BOOLEAN, crs: SUBSET Kinds, events: [Kinds -> Nat],
               faults: Nat, restarts: Nat]
    BY LegacyAssumption
  <1>3. readOnly \in BOOLEAN /\ left \in Bounds
    BY <1>1, <1>2 DEF Starts, Bounds
  <1>4. cr \in [Kinds -> CRs]
    <2>1. \A k \in Kinds : cr[k] \in CRs
      <3> SUFFICES ASSUME NEW k \in Kinds PROVE cr[k] \in CRs
        OBVIOUS
      <3>1. cr[k] \in InitialCRs(k, s.crs)
        BY <1>1 DEF Starts
      <3> QED
        BY <3>1, CRTypes, NoCRType DEF InitialCRs
    <2>2. cr = [k \in Kinds |-> cr[k]]
      BY <1>1 DEF Starts
    <2> QED
      BY <2>1, <2>2
  <1>5. /\ cache = cr /\ queued = [k \in Kinds |-> cr[k].there]
        /\ tries = [k \in Kinds |-> 0] /\ sourceOwns \in BOOLEAN
        /\ pc = [p \in Procs |-> "idle"] /\ obj = [p \in Procs |-> NoCR(p[2], 0)]
        /\ prev = [k \in Kinds |-> NoCR(k, 0)] /\ seen = [k \in Kinds |-> 0]
        /\ hit = [k \in Kinds |-> FALSE] /\ silent = hit
    BY DEF Init
  <1>6. server \in [Kinds -> Configs \cup {None}]
    <2>1. PICK c \in {None} \cup (IF readOnly THEN {StreamUpdated(t) : t \in StreamSpecs} ELSE {}) :
             server = [k \in Kinds |-> IF k = "stream" THEN c ELSE None]
      BY DEF Init
    <2>2. "stream" \in Kinds /\ StreamSpecs \subseteq Specs
      BY LegacyAssumption
    <2>3. \A t \in StreamSpecs : StreamUpdated(t) \in Configs
      BY <2>2, ConfigTypes DEF Updated
    <2>4. c \in Configs \cup {None}
      BY <2>1, <2>3
    <2> QED
      BY <2>1, <2>4
  <1>7. ProcsTypeOK
    <2>1. \A p \in Procs : NoCR(p[2], 0) \in CRs
      BY NoCRType DEF Procs
    <2>2. \A k \in Kinds : NoCR(k, 0) \in CRs /\ cr[k].there \in BOOLEAN
      BY <1>4, NoCRType DEF CRs
    <2> QED
      BY <1>5, <2>1, <2>2 DEF ProcsTypeOK, PCs
  <1> QED
    BY <1>3, <1>4, <1>5, <1>6, <1>7 DEF TypeOK

\* The end of a pass keeps queue, counter and copies well-typed ...
LEMMA FinishType ==
    ASSUME ProcsTypeOK, NEW p \in Procs, NEW b \in BOOLEAN, Finish(p, b)
    PROVE  ProcsTypeOK'
  <1>1. p[2] \in Kinds /\ NoCR(p[2], 0) \in CRs
    BY NoCRType DEF Procs
  <1>2. pc' \in [Procs -> PCs] /\ obj' \in [Procs -> CRs]
    BY <1>1 DEF Finish, ProcsTypeOK, PCs
  <1>3. CASE p[1] = "worker"
    <2>1. tries' \in [Kinds -> Nat]
      BY <1>1, <1>3 DEF Finish, ProcsTypeOK
    <2>2. queued' \in [Kinds -> BOOLEAN]
      BY <1>1, <1>3 DEF Finish, ProcsTypeOK, Retry
    <2> QED
      BY <1>2, <1>3, <2>1, <2>2 DEF Finish, ProcsTypeOK
  <1>4. CASE p[1] # "worker"
    BY <1>1, <1>2, <1>4 DEF Finish, ProcsTypeOK, queueVars
  <1> QED
    BY <1>3, <1>4

\* ... and so does a step of it.
LEMMA GotoType ==
    ASSUME ProcsTypeOK, NEW p \in Procs, NEW label \in PCs, Goto(p, label)
    PROVE  ProcsTypeOK'
  BY DEF Goto, ProcsTypeOK, queueVars

\* A failed call costs one fault.
LEMMA CallFailsType ==
    ASSUME left \in Bounds, CallFails
    PROVE  left' \in Bounds
  BY DEF CallFails, Bounds

\* What NATS holds after a request is a configuration or nothing.
LEMMA RequestType ==
    ASSUME TypeOK, NEW p \in Procs, NEW k \in Kinds, NEW c \in Configs \cup {None},
           NEW next \in PCs, Request(p, k, c, next)
    PROVE  ProcsTypeOK' /\ server' \in [Kinds -> Configs \cup {None}] /\ left' \in Bounds
  <1>1. Goto(p, next) \/ Goto(p, "setErrored")
    BY DEF Request
  <1>2. ProcsTypeOK'
    BY <1>1, GotoType DEF TypeOK, PCs
  <1>3. left' \in Bounds
    BY CallFailsType DEF Request, TypeOK
  <1>4. server' \in [Kinds -> Configs \cup {None}]
    BY DEF Request, Becomes, TypeOK
  <1> QED
    BY <1>2, <1>3, <1>4

\* The environment keeps the state well-typed ...
LEMMA OutsideType ==
    ASSUME TypeOK,
           \/ \E k \in Kinds : User(k) \/ Sync(k) \/ Resync(k)
           \/ Demote \/ Restart \/ UNCHANGED vars
    PROVE  TypeOK'
  <1> USE DEF k8sVars, queueVars, natsVars, procVars, histVars
  <1>1. ASSUME NEW k \in Kinds, NEW new \in CRs, UserDoes(k, new) PROVE TypeOK'
    <2>1. cr' \in [Kinds -> CRs]
      BY <1>1 DEF UserDoes, TypeOK
    <2>2. left' \in Bounds
      <3>1. left.event[k] > 0 /\ left.event[k] - 1 \in Nat
        BY <1>1 DEF UserDoes, TypeOK, Bounds
      <3> QED
        BY <1>1, <3>1 DEF UserDoes, TypeOK, Bounds
    <2> QED
      BY <1>1, <2>1, <2>2 DEF UserDoes, TypeOK, ProcsTypeOK
  <1>2. ASSUME NEW k \in Kinds, User(k) PROVE TypeOK'
    <2>1. cr[k] \in CRs /\ cr[k].uid \in Int /\ cr[k].uid + 1 \in Int
      BY DEF TypeOK, CRs
    <2>2. CASE CreateCR(k)
      BY <1>1, <2>1, <2>2, CRTypes DEF CreateCR
    <2>3. CASE EditCR(k)
      <3>1. PICK s \in SpecsOf(k) : UserDoes(k, [cr[k] EXCEPT !.spec = s, !.gen = @ + 1])
        BY <2>3 DEF EditCR
      <3>2. s \in Specs
        BY <3>1, <2>1, CRTypes
      <3>3. [cr[k] EXCEPT !.spec = s, !.gen = @ + 1] \in CRs
        <4>1. cr[k].gen \in Nat /\ cr[k].gen + 1 \in Nat
          BY <2>1 DEF CRs
        <4> QED
          BY <2>1, <3>2, <4>1 DEF CRs
      <3> QED
        BY <1>1, <3>1, <3>3
    <2>4. CASE DeleteCR(k)
      BY <1>1, <2>1, <2>4, NoCRType DEF DeleteCR
    <2>5. CASE MarkDeleted(k)
      <3>1. [cr[k] EXCEPT !.deleting = TRUE] \in CRs
        BY <2>1 DEF CRs
      <3> QED
        BY <1>1, <2>5, <3>1 DEF MarkDeleted
    <2> QED
      BY <1>2, <2>2, <2>3, <2>4, <2>5 DEF User
  <1>3. ASSUME NEW k \in Kinds, Sync(k) PROVE TypeOK'
    <2> DEFINE gone == cache[k].there /\ (~cr[k].there \/ cr[k].uid # cache[k].uid)
               new == IF gone THEN NoCR(k, IF cr[k].there THEN cr[k].uid - 1 ELSE cr[k].uid)
                      ELSE cr[k]
               event == gone \/ (cr[k].there /\ ~cache[k].there)
    <2>1. cr[k] \in CRs /\ cr[k].uid \in Int /\ cr[k].uid - 1 \in Int /\ cache[k] \in CRs
      BY DEF TypeOK, CRs
    <2>2. new \in CRs
      BY <2>1, NoCRType
    <2>3. cache' = [cache EXCEPT ![k] = new]
          /\ queued' = [queued EXCEPT ![k] =
                          @ \/ event \/ (new.there /\ ShouldEnqueue(cache[k], new))]
      BY <1>3 DEF Sync
    <2>4. queued[k] \in BOOLEAN /\ event \in BOOLEAN /\ new.there \in BOOLEAN
          /\ ShouldEnqueue(cache[k], new) \in BOOLEAN
      BY <2>1, <2>2 DEF TypeOK, ProcsTypeOK, ShouldEnqueue, CRs
    <2> HIDE DEF new, event, gone
    <2>5. cache' \in [Kinds -> CRs]
      BY <2>2, <2>3 DEF TypeOK
    <2>6. queued' \in [Kinds -> BOOLEAN]
      BY <2>3, <2>4 DEF TypeOK, ProcsTypeOK
    <2> QED
      BY <1>3, <2>5, <2>6 DEF Sync, TypeOK, ProcsTypeOK
  <1>4. ASSUME NEW k \in Kinds, Resync(k) PROVE TypeOK'
    BY <1>4 DEF Resync, TypeOK, ProcsTypeOK
  <1>5. CASE Demote
    BY <1>5 DEF Demote, TypeOK, ProcsTypeOK
  <1>6. CASE Restart
    <2>1. left' \in Bounds
      BY <1>6 DEF Restart, TypeOK, Bounds
    <2>2. ProcsTypeOK'
      <3>1. \A p \in Procs : NoCR(p[2], 0) \in CRs
        BY NoCRType DEF Procs
      <3>2. \A k \in Kinds : NoCR(k, 0) \in CRs /\ cr[k].there \in BOOLEAN
        BY NoCRType DEF CRs, TypeOK
      <3> QED
        BY <1>6, <3>1, <3>2 DEF Restart, ProcsTypeOK, PCs
    <2> QED
      BY <1>6, <2>1, <2>2 DEF Restart, TypeOK
  <1>7. CASE UNCHANGED vars
    BY <1>7 DEF vars, TypeOK, ProcsTypeOK
  <1> QED
    BY <1>2, <1>3, <1>4, <1>5, <1>6, <1>7

\* ... and so do the steps of queues, workers and clean-up loops.
LEMMA ProcessType ==
    ASSUME TypeOK,
           \/ \E k \in Kinds : Dequeue(k) \/ Tick(k) \/ Lookup(k)
           \/ \E p \in Procs : Step(p)
    PROVE  TypeOK'
  <1> USE DEF k8sVars, queueVars, natsVars, procVars, histVars
  <1>0. ASSUME NEW k \in Kinds
        PROVE  <<"worker", k>> \in Procs /\ <<"cleaner", k>> \in Procs
    BY DEF Procs
  <1>1. ASSUME NEW k \in Kinds, Dequeue(k) PROVE TypeOK'
    <2>1. silent' \in [Kinds -> BOOLEAN]
      BY <1>1 DEF Dequeue, TypeOK
    <2>2. ProcsTypeOK'
      <3>1. ProcsTypeOK /\ cache[k] \in CRs
        BY DEF TypeOK
      <3>2. queued' = [queued EXCEPT ![k] = FALSE] /\ UNCHANGED prev
        BY <1>1 DEF Dequeue
      <3>3. CASE cache[k].there
        <4>1. /\ pc' = [pc EXCEPT ![<<"worker", k>>] = "exists"]
              /\ obj' = [obj EXCEPT ![<<"worker", k>>] = cache[k]]
              /\ UNCHANGED tries
          BY <1>1, <3>3 DEF Dequeue
        <4> QED
          BY <3>1, <3>2, <4>1 DEF ProcsTypeOK, PCs
      <3>4. CASE ~cache[k].there
        <4>1. tries' = [tries EXCEPT ![k] = 0] /\ UNCHANGED <<pc, obj>>
          BY <1>1, <3>4 DEF Dequeue
        <4> QED
          BY <3>1, <3>2, <4>1 DEF ProcsTypeOK
      <3> QED
        BY <3>3, <3>4
    <2> QED
      BY <1>1, <2>1, <2>2 DEF Dequeue, TypeOK
  <1>2. ASSUME NEW k \in Kinds, Tick(k) PROVE TypeOK'
    <2>1. [prev[k] EXCEPT !.deleting = TRUE] \in CRs /\ Remembered(cache[k]) \in CRs
          /\ cr[k].uid \in Int
      <3>1. prev[k] \in CRs /\ cache[k] \in CRs /\ cr[k] \in CRs
        BY DEF TypeOK, ProcsTypeOK
      <3> QED
        BY <3>1 DEF CRs, Remembered
    <2>2. ProcsTypeOK'
      BY <1>0, <1>2, <2>1 DEF Tick, TypeOK, ProcsTypeOK, PCs
    <2>3. seen' \in [Kinds -> Int]
      BY <1>2, <2>1 DEF Tick, TypeOK
    <2> QED
      BY <1>2, <2>2, <2>3 DEF Tick, TypeOK
  <1>3. ASSUME NEW k \in Kinds, Lookup(k) PROVE TypeOK'
    <2>1. ProcsTypeOK'
      BY <1>0, <1>3, FinishType, GotoType DEF Lookup, TypeOK, PCs
    <2>2. left' \in Bounds
      BY <1>3, CallFailsType DEF Lookup, TypeOK
    <2> QED
      BY <1>3, <2>1, <2>2 DEF Lookup, TypeOK
  <1>4. ASSUME NEW p \in Procs, Step(p) PROVE TypeOK'
    <2>0. /\ p[2] \in Kinds /\ obj[p] \in CRs /\ obj[p].spec \in Specs /\ "setErrored" \in PCs
          /\ cr[p[2]] \in CRs
      BY DEF Procs, TypeOK, ProcsTypeOK, CRs, PCs
    <2>1. CASE Exists(p)
      <3>1. Branch(p[2], obj[p], server[p[2]] # None) \in PCs \cup {"skip"}
        BY DEF Branch, PCs
      <3>2. ProcsTypeOK'
        BY <2>0, <2>1, <3>1, FinishType, GotoType DEF Exists, TypeOK
      <3>3. left' \in Bounds
        BY <2>1, CallFailsType DEF Exists, TypeOK
      <3> QED
        BY <2>1, <3>2, <3>3 DEF Exists, TypeOK
    <2>2. ASSUME GivesUp(p) PROVE silent' \in [Kinds -> BOOLEAN]
      BY <2>0, <2>2 DEF GivesUp, TypeOK
    <2>3. CASE AccountFails(p)
      <3>1. ProcsTypeOK' /\ left' \in Bounds
        BY <2>3, FinishType, CallFailsType DEF AccountFails, TypeOK
      <3> QED
        BY <2>2, <2>3, <3>1 DEF AccountFails, TypeOK
    <2>4. CASE Create(p)
      <3>1. Request(p, p[2], Created(p[2], obj[p].spec), "setOK") \/ Refused(p)
        BY <2>4 DEF Create
      <3>2. /\ ProcsTypeOK' /\ left' \in Bounds
            /\ server' \in [Kinds -> Configs \cup {None}]
        <4>1. CASE Request(p, p[2], Created(p[2], obj[p].spec), "setOK")
          BY <2>0, <4>1, ConfigTypes, RequestType DEF PCs
        <4>2. CASE Refused(p)
          BY <2>0, <4>2, GotoType DEF Refused, TypeOK
        <4> QED
          BY <3>1, <4>1, <4>2
      <3>3. hit' \in [Kinds -> BOOLEAN]
        BY <2>0, <2>4 DEF Create, TypeOK
      <3> QED
        BY <2>4, <3>2, <3>3 DEF Create, TypeOK
    <2>5. CASE Update(p)
      <3>1. \/ Request(p, p[2], Updated(p[2], obj[p].spec), "setOK") \/ Refused(p)
            \/ Goto(p, "recreateDelete") /\ UNCHANGED <<server, left>>
        BY <2>5 DEF Update
      <3>2. /\ ProcsTypeOK' /\ left' \in Bounds
            /\ server' \in [Kinds -> Configs \cup {None}]
        <4>1. CASE Request(p, p[2], Updated(p[2], obj[p].spec), "setOK")
          BY <2>0, <4>1, ConfigTypes, RequestType DEF PCs
        <4>2. CASE Refused(p)
          BY <2>0, <4>2, GotoType DEF Refused, TypeOK
        <4>3. CASE Goto(p, "recreateDelete") /\ UNCHANGED <<server, left>>
          BY <4>3, GotoType DEF TypeOK, PCs
        <4> QED
          BY <3>1, <4>1, <4>2, <4>3
      <3> QED
        BY <2>5, <3>2 DEF Update, TypeOK
    <2>6. ASSUME Hits(p) PROVE hit' \in [Kinds -> BOOLEAN]
      BY <2>6 DEF Hits, TypeOK
    <2>7. CASE RecreateDelete(p)
      <3>1. \/ Request(p, "stream", None, "create")
            \/ Goto(p, "create") /\ UNCHANGED <<server, left>>
        BY <2>7 DEF RecreateDelete
      <3>2. /\ ProcsTypeOK' /\ left' \in Bounds
            /\ server' \in [Kinds -> Configs \cup {None}]
        <4>1. CASE Request(p, "stream", None, "create")
          BY <4>1, LegacyAssumption, RequestType DEF PCs
        <4>2. CASE Goto(p, "create") /\ UNCHANGED <<server, left>>
          BY <4>2, GotoType DEF TypeOK, PCs
        <4> QED
          BY <3>1, <4>1, <4>2
      <3> QED
        BY <2>6, <2>7, <3>2 DEF RecreateDelete, TypeOK
    <2>8. CASE Delete(p)
      <3>1. ProcsTypeOK' /\ left' \in Bounds
        BY <2>0, <2>8, FinishType, GotoType, CallFailsType DEF Delete, TypeOK
      <3>2. server' \in [Kinds -> Configs \cup {None}]
        BY <2>8 DEF Delete, Becomes, TypeOK
      <3> QED
        BY <2>6, <2>8, <3>1, <3>2 DEF Delete, TypeOK
    <2>9. CASE SetOK(p)
      <3>1. ProcsTypeOK' /\ left' \in Bounds
        BY <2>0, <2>9, FinishType, GotoType, CallFailsType DEF SetOK, TypeOK
      <3>2. [obj[p] EXCEPT !.observed = obj[p].gen, !.ready = "Ready"] \in CRs
        BY <2>0 DEF CRs
      <3>3. cr' \in [Kinds -> CRs]
        BY <2>0, <2>9, <3>2 DEF SetOK, WriteStatus, TypeOK
      <3> QED
        BY <2>9, <3>1, <3>3 DEF SetOK, TypeOK
    <2>10. CASE SetErrored(p)
      <3>1. ProcsTypeOK' /\ left' \in Bounds
        BY <2>0, <2>10, FinishType, CallFailsType DEF SetErrored, TypeOK
      <3>2. [obj[p] EXCEPT !.ready = "Errored"] \in CRs
        BY <2>0 DEF CRs
      <3>3. cr' \in [Kinds -> CRs]
        BY <2>0, <2>10, <3>2 DEF SetErrored, WriteStatus, TypeOK
      <3> QED
        BY <2>2, <2>10, <3>1, <3>3 DEF SetErrored, TypeOK
    <2> QED
      BY <1>4, <2>1, <2>3, <2>4, <2>5, <2>7, <2>8, <2>9, <2>10 DEF Step
  <1> QED
    BY <1>1, <1>2, <1>3, <1>4

\* Every step is one of the environment or of a process.
LEMMA Steps ==
    ASSUME [Next]_vars
    PROVE  \/ \E k \in Kinds : User(k) \/ Sync(k) \/ Resync(k)
           \/ Demote \/ Restart \/ UNCHANGED vars
           \/ \E k \in Kinds : Dequeue(k) \/ Tick(k) \/ Lookup(k)
           \/ \E p \in Procs : Step(p)
  BY DEF Next, Worker, Cleaner, Procs

\* Every reachable state is well-typed.
THEOREM TypeCorrect == Spec => []TypeOK
  <1>1. TypeOK /\ [Next]_vars => TypeOK'
    BY Steps, OutsideType, ProcessType
  <1> QED
    BY <1>1, InitType, PTL DEF Spec

-----------------------------------------------------------------------------
(***************************************************************************)
(* What a process may be about to do.                                       *)
(***************************************************************************)

Requests == {"create", "update", "recreateDelete", "delete"}

\* A deletion has a copy that asks for it, a re-creation one that asks for a mirror,
\* and --read-only keeps a stream's process from every request.
Guarded(p, label, copy) ==
    /\ label = "delete" => copy.deleting
    /\ label = "recreateDelete" => p[2] = "stream" /\ copy.spec.mirror
    /\ readOnly /\ p[2] = "stream" => label \notin Requests

PathsGuarded == \A p \in Procs : Guarded(p, pc[p], obj[p])

\* A clean-up loop that has asked the API server again cleans up after a CR that is
\* gone, or has come back since its tick.
ConfirmedGone ==
    \A k \in Kinds :
        /\ seen[k] <= cr[k].uid
        /\ pc[<<"cleaner", k>>] \notin {"idle", "lookup"} => ~cr[k].there \/ cr[k].uid > seen[k]

\* The flag is read once.
LEMMA FlagKept ==
    ASSUME [Next]_vars
    PROVE  readOnly' = readOnly
  <1>1. CASE \E k \in Kinds : User(k) \/ Sync(k) \/ Resync(k)
    BY <1>1 DEF User, CreateCR, EditCR, DeleteCR, MarkDeleted, UserDoes, Sync, Resync
  <1>2. CASE Demote \/ Restart \/ UNCHANGED vars
    BY <1>2 DEF Demote, Restart, vars
  <1>3. CASE \E k \in Kinds : Dequeue(k) \/ Tick(k) \/ Lookup(k)
    BY <1>3 DEF Dequeue, Tick, Lookup
  <1>4. CASE \E p \in Procs : Step(p)
    BY <1>4 DEF Step, Exists, AccountFails, Create, Update, RecreateDelete, Delete, SetOK,
       SetErrored
  <1> QED
    BY <1>1, <1>2, <1>3, <1>4, Steps

\* A step of a pass ends it, or goes on to what is guarded.
LEMMA StepGuarded ==
    ASSUME PathsGuarded, NEW p \in Procs, Step(p)
    PROVE  \/ Finish(p, TRUE) \/ Finish(p, FALSE)
           \/ \E label : Goto(p, label) /\ Guarded(p, label, obj[p])
  <1> USE DEF Guarded, Requests
  <1>0. Guarded(p, pc[p], obj[p]) /\ Guarded(p, "setOK", obj[p]) /\ Guarded(p, "setErrored", obj[p])
    BY DEF PathsGuarded
  <1>1. CASE Exists(p)
    <2> DEFINE next == Branch(p[2], obj[p], server[p[2]] # None)
    <2>1. next # "skip" => Guarded(p, next, obj[p])
      BY DEF Branch, SkipChanges
    <2> QED
      BY <1>0, <1>1, <2>1 DEF Exists
  <1>2. CASE AccountFails(p)
    BY <1>2 DEF AccountFails
  <1>3. CASE Create(p)
    BY <1>0, <1>3 DEF Create, Request, Refused
  <1>4. CASE Update(p)
    <2>1. CASE Goto(p, "recreateDelete")
      <3>1. \/ p[2] = "stream" /\ obj[p].spec.mirror
            \/ Goto(p, "setOK") \/ Goto(p, "setErrored")
        BY <1>4 DEF Update, Request, Refused, MirrorIncompatible, Recreatable
      <3>2. ~(readOnly /\ p[2] = "stream")
        BY <1>0, <1>4 DEF Update
      <3> QED
        BY <1>0, <2>1, <3>1, <3>2
    <2>2. CASE ~Goto(p, "recreateDelete")
      BY <1>0, <1>4, <2>2 DEF Update, Request, Refused
    <2> QED
      BY <2>1, <2>2
  <1>5. CASE RecreateDelete(p)
    <2>1. Guarded(p, "create", obj[p])
      BY <1>0, <1>5 DEF RecreateDelete
    <2> QED
      BY <1>0, <1>5, <2>1 DEF RecreateDelete, Request
  <1>6. CASE Delete(p)
    BY <1>0, <1>6 DEF Delete
  <1>7. CASE SetOK(p)
    BY <1>0, <1>7 DEF SetOK
  <1>8. CASE SetErrored(p)
    BY <1>8 DEF SetErrored
  <1> QED
    BY <1>1, <1>2, <1>3, <1>4, <1>5, <1>6, <1>7, <1>8 DEF Step

\* Paths stay guarded.
LEMMA NextPaths == TypeOK /\ PathsGuarded /\ [Next]_vars => PathsGuarded'
  <1> SUFFICES ASSUME TypeOK, PathsGuarded, [Next]_vars PROVE PathsGuarded'
    OBVIOUS
  <1>1. pc \in [Procs -> PCs] /\ obj \in [Procs -> CRs] /\ readOnly' = readOnly
    BY FlagKept DEF TypeOK, ProcsTypeOK
  <1>2. ASSUME NEW q \in Procs, NEW label, NEW copy, Guarded(q, label, copy),
               pc' = [pc EXCEPT ![q] = label],
               obj'[q] = copy, \A p \in Procs \ {q} : obj'[p] = obj[p]
        PROVE  PathsGuarded'
    <2>1. ASSUME NEW p \in Procs PROVE Guarded(p, pc[p], obj[p])'
      <3>1. CASE p = q
        BY <1>1, <1>2, <3>1 DEF Guarded, Requests
      <3>2. CASE p # q
        <4>1. pc'[p] = pc[p] /\ obj'[p] = obj[p] /\ Guarded(p, pc[p], obj[p])
          BY <1>1, <1>2, <3>2 DEF PathsGuarded
        <4> QED
          BY <1>1, <4>1 DEF Guarded, Requests
      <3> QED
        BY <3>1, <3>2
    <2> QED
      BY <2>1 DEF PathsGuarded
  <1>3. CASE UNCHANGED <<pc, obj>>
    BY <1>1, <1>3 DEF PathsGuarded, Guarded
  <1>4. ASSUME NEW q \in Procs, NEW b, Finish(q, b) PROVE PathsGuarded'
    <2>1. Guarded(q, "idle", NoCR(q[2], 0))
      BY DEF Guarded, Requests
    <2>2. /\ pc' = [pc EXCEPT ![q] = "idle"]
          /\ obj' = [obj EXCEPT ![q] = NoCR(q[2], 0)]
      BY <1>4 DEF Finish
    <2>3. obj'[q] = NoCR(q[2], 0) /\ \A p \in Procs \ {q} : obj'[p] = obj[p]
      BY <1>1, <2>2
    <2> QED
      BY <1>2, <2>1, <2>2, <2>3
  <1>5. ASSUME NEW q \in Procs, NEW label, Goto(q, label), Guarded(q, label, obj[q])
        PROVE  PathsGuarded'
    BY <1>2, <1>5 DEF Goto
  <1>6. ASSUME NEW k \in Kinds, Dequeue(k) \/ Tick(k) \/ Lookup(k) PROVE PathsGuarded'
    <2>0. <<"worker", k>> \in Procs /\ <<"cleaner", k>> \in Procs
      BY DEF Procs
    <2>1. CASE Dequeue(k)
      <3>1. CASE cache[k].there
        <4>1. /\ pc' = [pc EXCEPT ![<<"worker", k>>] = "exists"]
              /\ obj' = [obj EXCEPT ![<<"worker", k>>] = cache[k]]
          BY <2>1, <3>1 DEF Dequeue
        <4>2. Guarded(<<"worker", k>>, "exists", cache[k])
          BY DEF Guarded, Requests
        <4>3. /\ obj'[<<"worker", k>>] = cache[k]
              /\ \A p \in Procs \ {<<"worker", k>>} : obj'[p] = obj[p]
          BY <1>1, <2>0, <4>1
        <4> QED
          BY <1>2, <2>0, <4>1, <4>2, <4>3
      <3>2. CASE ~cache[k].there
        BY <1>3, <2>1, <3>2 DEF Dequeue
      <3> QED
        BY <3>1, <3>2
    <2>2. CASE Tick(k)
      <3>1. CASE Missing(k)
        <4> DEFINE copy == [prev[k] EXCEPT !.deleting = TRUE]
        <4>1. /\ pc' = [pc EXCEPT ![<<"cleaner", k>>] = "lookup"]
              /\ obj' = [obj EXCEPT ![<<"cleaner", k>>] = copy]
          BY <2>2, <3>1 DEF Tick
        <4>2. Guarded(<<"cleaner", k>>, "lookup", copy)
          BY DEF Guarded, Requests
        <4> HIDE DEF copy
        <4>3. /\ obj'[<<"cleaner", k>>] = copy
              /\ \A p \in Procs \ {<<"cleaner", k>>} : obj'[p] = obj[p]
          BY <1>1, <2>0, <4>1
        <4> QED
          BY <1>2, <2>0, <4>1, <4>2, <4>3
      <3>2. CASE ~Missing(k)
        BY <1>3, <2>2, <3>2 DEF Tick
      <3> QED
        BY <3>1, <3>2
    <2>3. CASE Lookup(k)
      <3>1. Guarded(<<"cleaner", k>>, "exists", obj[<<"cleaner", k>>])
        BY DEF Guarded, Requests
      <3> QED
        BY <1>4, <1>5, <2>0, <2>3, <3>1 DEF Lookup
    <2> QED
      BY <1>6, <2>1, <2>2, <2>3
  <1>7. CASE Restart
    BY <1>7 DEF Restart, PathsGuarded, Guarded, Requests
  <1>8. CASE (\E k \in Kinds : User(k) \/ Sync(k) \/ Resync(k)) \/ Demote \/ UNCHANGED vars
    <2>1. UNCHANGED <<pc, obj>>
      BY <1>8
         DEF User, CreateCR, EditCR, DeleteCR, MarkDeleted, UserDoes, Sync, Resync, Demote,
         vars, procVars
    <2> QED
      BY <1>3, <2>1
  <1> QED
    BY <1>4, <1>5, <1>6, <1>7, <1>8, Steps, StepGuarded


\* A step of a pass moves that process alone, from a call of the pass.
LEMMA StepMoves ==
    ASSUME TypeOK, NEW p \in Procs, Step(p)
    PROVE  /\ pc[p] \notin {"idle", "lookup"}
           /\ seen' = seen
           /\ \A q \in Procs \ {p} : pc'[q] = pc[q]
  <1> USE DEF TypeOK, ProcsTypeOK
  <1>1. pc \in [Procs -> PCs]
    OBVIOUS
  <1>2. /\ pc[p] \notin {"idle", "lookup"}
        /\ seen' = seen
        /\ \E label : pc' = [pc EXCEPT ![p] = label]
    BY
       DEF Step, Exists, AccountFails, Create, Update, RecreateDelete, Delete, SetOK,
           SetErrored,
       Request, Refused, Goto, Finish, histVars
  <1> QED
    BY <1>1, <1>2

\* A CR that is there stays the same incarnation or gives way to a later one, and one
\* that is gone comes back only as a later one.
LEMMA CRMoves ==
    ASSUME TypeOK, [Next]_vars, NEW k \in Kinds
    PROVE  \/ cr'[k].uid = cr[k].uid /\ (cr'[k].there => cr[k].there)
           \/ cr'[k].uid = cr[k].uid + 1
  <1>0. cr \in [Kinds -> CRs] /\ obj \in [Procs -> CRs]
    BY DEF TypeOK, ProcsTypeOK
  <1>1. ASSUME NEW j \in Kinds, NEW new, cr' = [cr EXCEPT ![j] = new],
               \/ new.uid = cr[j].uid /\ (new.there => cr[j].there)
               \/ new.uid = cr[j].uid + 1
        PROVE  \/ cr'[k].uid = cr[k].uid /\ (cr'[k].there => cr[k].there)
               \/ cr'[k].uid = cr[k].uid + 1
    <2>1. CASE j = k
      <3>1. cr'[k] = new
        BY <1>0, <1>1, <2>1
      <3> QED
        BY <1>1, <2>1, <3>1
    <2>2. CASE j # k
      <3>1. cr'[k] = cr[k]
        BY <1>0, <1>1, <2>2
      <3> QED
        BY <3>1
    <2> QED
      BY <2>1, <2>2
  <1>2. CASE UNCHANGED cr
    BY <1>2
  <1>3. ASSUME NEW j \in Kinds, User(j) PROVE UNCHANGED cr \/
            \E new : /\ cr' = [cr EXCEPT ![j] = new]
                     /\ \/ new.uid = cr[j].uid /\ (new.there => cr[j].there)
                        \/ new.uid = cr[j].uid + 1
    <2>1. CASE CreateCR(j)
      <3>1. PICK s \in SpecsOf(j) : UserDoes(j, NewCR(cr[j].uid + 1, s))
        BY <2>1 DEF CreateCR
      <3>2. NewCR(cr[j].uid + 1, s).uid = cr[j].uid + 1
        BY DEF NewCR
      <3> QED
        BY <3>1, <3>2 DEF UserDoes
    <2>2. CASE EditCR(j)
      <3>1. PICK s \in SpecsOf(j) :
                cr' = [cr EXCEPT ![j] = [cr[j] EXCEPT !.spec = s, !.gen = @ + 1]]
        BY <2>2 DEF EditCR, UserDoes
      <3> DEFINE new == [cr[j] EXCEPT !.spec = s, !.gen = @ + 1]
      <3>2. cr[j] \in CRs
        BY <1>0
      <3>3. new.uid = cr[j].uid /\ new.there = cr[j].there
        BY <3>2 DEF CRs
      <3> QED
        BY <3>1, <3>3
    <2>3. CASE DeleteCR(j)
      <3>1. NoCR(j, cr[j].uid).uid = cr[j].uid /\ NoCR(j, cr[j].uid).there = FALSE
        BY DEF NoCR, NewCR
      <3> QED
        BY <2>3, <3>1 DEF DeleteCR, UserDoes
    <2>4. CASE MarkDeleted(j)
      <3> DEFINE new == [cr[j] EXCEPT !.deleting = TRUE]
      <3>1. cr' = [cr EXCEPT ![j] = new]
        BY <2>4 DEF MarkDeleted, UserDoes
      <3>2. cr[j] \in CRs
        BY <1>0
      <3>3. new.uid = cr[j].uid /\ new.there = cr[j].there
        BY <3>2 DEF CRs
      <3> QED
        BY <3>1, <3>3
    <2> QED
      BY <1>3, <2>1, <2>2, <2>3, <2>4 DEF User
  <1>4. ASSUME NEW p \in Procs, Step(p) PROVE UNCHANGED cr \/
            \E new : /\ cr' = [cr EXCEPT ![p[2]] = new]
                     /\ new.uid = cr[p[2]].uid /\ new.there = cr[p[2]].there
    <2>1. obj[p] \in CRs
      BY <1>0
    <2>2. ASSUME NEW new, WriteStatus(p, new), new.uid = obj[p].uid, new.there = obj[p].there
          PROVE  /\ cr' = [cr EXCEPT ![p[2]] = new]
                 /\ new.uid = cr[p[2]].uid /\ new.there = cr[p[2]].there
      BY <2>2 DEF WriteStatus
    <2>3. CASE SetOK(p)
      <3> DEFINE new == [obj[p] EXCEPT !.observed = obj[p].gen, !.ready = "Ready"]
      <3>1. UNCHANGED cr \/ WriteStatus(p, new)
        BY <2>3 DEF SetOK
      <3>2. new.uid = obj[p].uid /\ new.there = obj[p].there
        BY <2>1 DEF CRs
      <3> HIDE DEF new
      <3> QED
        BY <2>2, <3>1, <3>2
    <2>4. CASE SetErrored(p)
      <3> DEFINE new == [obj[p] EXCEPT !.ready = "Errored"]
      <3>1. UNCHANGED cr \/ WriteStatus(p, new)
        BY <2>4 DEF SetErrored
      <3>2. new.uid = obj[p].uid /\ new.there = obj[p].there
        BY <2>1 DEF CRs
      <3> HIDE DEF new
      <3> QED
        BY <2>2, <3>1, <3>2
    <2>5. CASE ~SetOK(p) /\ ~SetErrored(p)
      BY <1>4, <2>5 DEF Step, Exists, AccountFails, Create, Update, RecreateDelete, Delete,
         k8sVars
    <2> QED
      BY <2>3, <2>4, <2>5
  <1>5. \A p \in Procs : p[2] \in Kinds
    BY DEF Procs
  <1>6. CASE \/ \E j \in Kinds : Sync(j) \/ Resync(j) \/ Dequeue(j) \/ Tick(j) \/ Lookup(j)
             \/ Demote \/ Restart \/ UNCHANGED vars
    <2>1. UNCHANGED cr
      BY <1>6 DEF Sync, Resync, Dequeue, Tick, Lookup, Demote, Restart, k8sVars, vars
    <2> QED
      BY <1>2, <2>1
  <1>7. ASSUME NEW j \in Kinds, User(j)
        PROVE  \/ cr'[k].uid = cr[k].uid /\ (cr'[k].there => cr[k].there)
               \/ cr'[k].uid = cr[k].uid + 1
    BY <1>1, <1>2, <1>3, <1>7
  <1>8. ASSUME NEW p \in Procs, Step(p)
        PROVE  \/ cr'[k].uid = cr[k].uid /\ (cr'[k].there => cr[k].there)
               \/ cr'[k].uid = cr[k].uid + 1
    BY <1>1, <1>2, <1>4, <1>5, <1>8
  <1> QED
    BY <1>6, <1>7, <1>8, Steps

\* A tick remembers the incarnation it starts after; otherwise the clean-up loop goes
\* beyond its look-up only when the API server finds no CR.
CleanerMoved(k) ==
    LET c == <<"cleaner", k>> IN
    \/ seen'[k] = cr[k].uid /\ cr' = cr /\ pc'[c] = "lookup"
    \/ /\ seen'[k] = seen[k]
       /\ \/ pc'[c] \in {"idle", "lookup"}
          \/ pc[c] \notin {"idle", "lookup"}
          \/ ~cr'[k].there

\* Every step moves a clean-up loop like that.
LEMMA CleanerMoves ==
    ASSUME TypeOK, [Next]_vars, NEW k \in Kinds
    PROVE  CleanerMoved(k)
  <1> DEFINE c == <<"cleaner", k>>
  <1>0. c \in Procs /\ pc \in [Procs -> PCs] /\ seen \in [Kinds -> Int]
    BY DEF Procs, TypeOK, ProcsTypeOK
  <1>1. CASE UNCHANGED <<pc, seen>>
    BY <1>1 DEF CleanerMoved
  <1>2. ASSUME NEW p \in Procs, Step(p) PROVE CleanerMoved(k)
    <2>1. seen' = seen /\ (p = c \/ pc'[c] = pc[c]) /\ pc[p] \notin {"idle", "lookup"}
      BY <1>0, <1>2, StepMoves
    <2> QED
      BY <2>1 DEF CleanerMoved
  <1>3. ASSUME NEW j \in Kinds, Dequeue(j) PROVE CleanerMoved(k)
    <2>1. pc'[c] = pc[c] /\ seen' = seen
      BY <1>0, <1>3 DEF Dequeue
    <2> QED
      BY <2>1 DEF CleanerMoved
  <1>4. ASSUME NEW j \in Kinds, Tick(j) PROVE CleanerMoved(k)
    <2>1. CASE j = k /\ Missing(j)
      BY <1>0, <1>4, <2>1 DEF Tick, k8sVars, CleanerMoved
    <2>2. CASE j # k \/ ~Missing(j)
      <3>1. pc'[c] = pc[c] /\ seen'[k] = seen[k]
        BY <1>0, <1>4, <2>2 DEF Tick
      <3> QED
        BY <3>1 DEF CleanerMoved
    <2> QED
      BY <2>1, <2>2
  <1>5. ASSUME NEW j \in Kinds, Lookup(j) PROVE CleanerMoved(k)
    <2>1. seen' = seen /\ cr' = cr
      BY <1>5 DEF Lookup, k8sVars, histVars
    <2>2. CASE j = k
      <3>1. pc'[c] = "idle" \/ ~cr[k].there
        BY <1>0, <1>5, <2>2 DEF Lookup, Confirmed, Finish
      <3> QED
        BY <2>1, <3>1 DEF CleanerMoved
    <2>3. CASE j # k
      <3>1. pc'[c] = pc[c]
        BY <1>0, <1>5, <2>3 DEF Lookup, Finish, Goto
      <3> QED
        BY <2>1, <3>1 DEF CleanerMoved
    <2> QED
      BY <2>2, <2>3
  <1>6. CASE Restart
    BY <1>0, <1>6 DEF Restart, histVars, CleanerMoved
  <1>7. CASE (\E j \in Kinds : User(j) \/ Sync(j) \/ Resync(j)) \/ Demote \/ UNCHANGED vars
    <2>1. UNCHANGED <<pc, seen>>
      BY <1>7
         DEF User, CreateCR, EditCR, DeleteCR, MarkDeleted, UserDoes, Sync, Resync, Demote,
         vars, procVars, histVars
    <2> QED
      BY <1>1, <2>1
  <1>8. CASE \E j \in Kinds : Dequeue(j) \/ Tick(j) \/ Lookup(j)
    BY <1>3, <1>4, <1>5, <1>8
  <1>9. CASE \E p \in Procs : Step(p)
    BY <1>2, <1>9
  <1> QED
    BY <1>6, <1>7, <1>8, <1>9, Steps

\* What is cleaned up after stays gone, or is a later incarnation.
LEMMA NextConfirmed == TypeOK /\ ConfirmedGone /\ [Next]_vars => ConfirmedGone'
  <1> SUFFICES ASSUME TypeOK, ConfirmedGone, [Next]_vars, NEW k \in Kinds
               PROVE  /\ seen'[k] <= cr'[k].uid
                      /\ pc'[<<"cleaner", k>>] \notin {"idle", "lookup"}
                         => ~cr'[k].there \/ cr'[k].uid > seen'[k]
    BY DEF ConfirmedGone
  <1>1. cr[k].uid \in Int /\ seen[k] \in Int
    <2>1. cr[k] \in CRs /\ seen[k] \in Int
      BY DEF TypeOK
    <2> QED
      BY <2>1 DEF CRs
  <1>2. /\ seen[k] <= cr[k].uid
        /\ pc[<<"cleaner", k>>] \notin {"idle", "lookup"} => ~cr[k].there \/ cr[k].uid > seen[k]
    BY DEF ConfirmedGone
  <1>3. \/ cr'[k].uid = cr[k].uid /\ (cr'[k].there => cr[k].there)
        \/ cr'[k].uid = cr[k].uid + 1
    BY CRMoves
  <1>4. \/ seen'[k] = cr[k].uid /\ cr' = cr /\ pc'[<<"cleaner", k>>] = "lookup"
        \/ /\ seen'[k] = seen[k]
           /\ \/ pc'[<<"cleaner", k>>] \in {"idle", "lookup"}
              \/ pc[<<"cleaner", k>>] \notin {"idle", "lookup"}
              \/ ~cr'[k].there
    BY CleanerMoves DEF CleanerMoved
  <1> QED
    BY <1>1, <1>2, <1>3, <1>4

\* The inductive invariant of the three theorems below.
LegacyInv == TypeOK /\ PathsGuarded /\ ConfirmedGone

\* It holds at the start ...
LEMMA InitLegacyInv == Init => LegacyInv
  <1> SUFFICES ASSUME Init PROVE PathsGuarded /\ ConfirmedGone
    BY InitType DEF LegacyInv
  <1>1. \A p \in Procs : pc[p] = "idle"
    BY DEF Init
  <1>2. \A k \in Kinds : <<"cleaner", k>> \in Procs
    BY DEF Procs
  <1>3. ASSUME NEW k \in Kinds PROVE 0 <= cr[k].uid
    <2>1. PICK s \in Scenarios : Starts(s)
      BY DEF Init
    <2>2. cr[k] \in InitialCRs(k, s.crs)
      BY <2>1 DEF Starts
    <2> QED
      BY <2>2, CRTypes, NoCRType DEF InitialCRs
  <1>4. \A k \in Kinds : seen[k] = 0
    BY DEF Init
  <1> QED
    BY <1>1, <1>2, <1>3, <1>4 DEF PathsGuarded, Guarded, Requests, ConfirmedGone

\* ... and every step keeps it.
LEMMA NextLegacyInv == LegacyInv /\ [Next]_vars => LegacyInv'
  <1>1. TypeOK /\ [Next]_vars => TypeOK'
    BY Steps, OutsideType, ProcessType
  <1> QED
    BY <1>1, NextPaths, NextConfirmed DEF LegacyInv
-----------------------------------------------------------------------------
(* Which steps change a NATS object. *)

\* Only a request of a process changes one.
LEMMA ServerChange ==
    ASSUME [Next]_vars, server' # server
    PROVE  \E p \in Procs : Create(p) \/ Update(p) \/ RecreateDelete(p) \/ Delete(p)
  <1>1. CASE \/ \E k \in Kinds :
                  User(k) \/ Sync(k) \/ Resync(k) \/ Dequeue(k) \/ Tick(k) \/ Lookup(k)
             \/ Demote \/ Restart \/ UNCHANGED vars
    BY <1>1 DEF User, CreateCR, EditCR, DeleteCR, MarkDeleted, UserDoes, Sync, Resync, Dequeue,
       Tick, Lookup, Demote, Restart, vars, natsVars
  <1>2. ASSUME NEW p \in Procs, Step(p)
        PROVE  Create(p) \/ Update(p) \/ RecreateDelete(p) \/ Delete(p)
    BY <1>2 DEF Step, Exists, AccountFails, SetOK, SetErrored, natsVars
  <1> QED
    BY <1>1, <1>2, Steps

\* Only a deletion or a re-creation takes one away.
LEMMA DestroySource ==
    ASSUME TypeOK, [Next]_vars, NEW k \in Kinds, Destroyed(k)
    PROVE  \E p \in Procs : RecreateDelete(p) \/ Delete(p)
  <1>1. server' # server
    BY DEF Destroyed
  <1>2. ASSUME NEW p \in Procs, Create(p) \/ Update(p) PROVE FALSE
    <2>1. p[2] \in Kinds /\ obj[p] \in CRs
      BY DEF Procs, TypeOK, ProcsTypeOK
    <2>2. obj[p].spec \in Specs
      BY <2>1 DEF CRs
    <2>3. Created(p[2], obj[p].spec) # None /\ Updated(p[2], obj[p].spec) # None
      BY <2>1, <2>2, ConfigTypes
    <2>4. \/ Becomes(p[2], Created(p[2], obj[p].spec))
          \/ Becomes(p[2], Updated(p[2], obj[p].spec))
      BY <1>1, <1>2 DEF Create, Update, Request, Refused
    <2>5. server'[k] = server[k] \/ server'[k] # None
      BY <2>3, <2>4 DEF Becomes
    <2> QED
      BY <2>5 DEF Destroyed
  <1> QED
    BY <1>1, <1>2, ServerChange

\* It moves on then.
LEMMA DestroyMoves ==
    ASSUME TypeOK, NEW p \in Procs, RecreateDelete(p) \/ Delete(p)
    PROVE  /\ pc[p] \in {"recreateDelete", "delete"} /\ pc'[p] # pc[p]
           /\ \A q \in Procs \ {p} : pc'[q] = pc[q]
  <1>1. pc \in [Procs -> PCs]
    BY DEF TypeOK, ProcsTypeOK
  <1>2. /\ pc[p] \in {"recreateDelete", "delete"}
        /\ \E label \in {"create", "setErrored", "idle"} : pc' = [pc EXCEPT ![p] = label]
    BY DEF RecreateDelete, Delete, Request, Goto, Finish
  <1> QED
    BY <1>1, <1>2
-----------------------------------------------------------------------------
(***************************************************************************)
(* The theorems.                                                            *)
(***************************************************************************)

\* --read-only: no step of any process changes a stream.
THEOREM ReadOnlyHolds == Spec => ReadOnlyKeepsStreams
  <1>1. LegacyInv /\ [Next]_vars => (readOnly => server'["stream"] = server["stream"])
    <2> SUFFICES ASSUME LegacyInv, [Next]_vars, readOnly, server' # server
                 PROVE  server'["stream"] = server["stream"]
      OBVIOUS
    <2> USE DEF LegacyInv
    <2>1. PICK p \in Procs : Create(p) \/ Update(p) \/ RecreateDelete(p) \/ Delete(p)
      BY ServerChange
    <2>2. pc[p] \in Requests
      BY <2>1 DEF Create, Update, RecreateDelete, Delete, Requests
    <2>3. p[2] # "stream" /\ ~RecreateDelete(p)
      BY <2>2 DEF PathsGuarded, Guarded, RecreateDelete
    <2>4. server' = server \/ \E config : Becomes(p[2], config)
      BY <2>1, <2>3 DEF Create, Update, Delete, Request, Refused
    <2>5. "stream" \in Kinds
      BY LegacyAssumption
    <2> QED
      BY <2>3, <2>4, <2>5 DEF Becomes
  <1> QED
    BY <1>1, InitLegacyInv, NextLegacyInv, PTL DEF Spec, ReadOnlyKeepsStreams

\* A promote, and any other edit of a CR, leaves the stream in place.
THEOREM PromoteSpares == Spec => PromoteKeepsStream
  <1>1. LegacyInv /\ [Next]_vars =>
          (Destroyed("stream") =>
             \E r \in {"worker", "cleaner"} :
                 LET p == <<r, "stream">> IN
                 /\ pc[p] \in {"delete", "recreateDelete"} /\ pc'[p] # pc[p]
                 /\ obj[p].deleting \/ obj[p].spec.mirror)
    <2> SUFFICES ASSUME LegacyInv, [Next]_vars, Destroyed("stream")
                 PROVE  \E r \in {"worker", "cleaner"} :
                          LET p == <<r, "stream">> IN
                          /\ pc[p] \in {"delete", "recreateDelete"} /\ pc'[p] # pc[p]
                          /\ obj[p].deleting \/ obj[p].spec.mirror
      OBVIOUS
    <2> USE DEF LegacyInv
    <2>1. "stream" \in Kinds
      BY LegacyAssumption
    <2>2. PICK p \in Procs : RecreateDelete(p) \/ Delete(p)
      BY <2>1, DestroySource
    <2>3. pc[p] \in {"recreateDelete", "delete"} /\ pc'[p] # pc[p]
      BY <2>2, DestroyMoves
    <2>4. Guarded(p, pc[p], obj[p])
      BY DEF PathsGuarded
    <2>5. p[2] = "stream"
      <3>1. CASE RecreateDelete(p)
        BY <2>4, <3>1 DEF Guarded, RecreateDelete
      <3>2. CASE Delete(p)
        BY <2>1, <3>2 DEF Delete, Becomes, Destroyed
      <3> QED
        BY <2>2, <3>1, <3>2
    <2>6. PICK r \in {"worker", "cleaner"} : p = <<r, "stream">>
      BY <2>5 DEF Procs
    <2> QED
      BY <2>3, <2>4, <2>6 DEF Guarded
  <1> QED
    BY <1>1, InitLegacyInv, NextLegacyInv, PTL DEF Spec, PromoteKeepsStream

\* The clean-up loop takes no NATS object away from a CR that was there at its tick.
THEOREM CleanupSpares == Spec => CleanupSparesKnown
  <1>1. LegacyInv /\ [Next]_vars =>
          \A k \in Kinds :
             pc[<<"cleaner", k>>] # "idle" /\ pc'[<<"cleaner", k>>] # pc[<<"cleaner", k>>]
             /\ Destroyed(k)
             => ~cr[k].there \/ cr[k].uid > seen[k]
    <2> SUFFICES ASSUME LegacyInv, [Next]_vars, NEW k \in Kinds, Destroyed(k),
                        pc'[<<"cleaner", k>>] # pc[<<"cleaner", k>>]
                 PROVE  ~cr[k].there \/ cr[k].uid > seen[k]
      OBVIOUS
    <2> USE DEF LegacyInv
    <2>1. PICK p \in Procs : RecreateDelete(p) \/ Delete(p)
      BY DestroySource
    <2>2. <<"cleaner", k>> \in Procs
      BY DEF Procs
    <2>3. pc[<<"cleaner", k>>] \in {"recreateDelete", "delete"}
      BY <2>1, <2>2, DestroyMoves
    <2> QED
      BY <2>3 DEF ConfirmedGone
  <1> QED
    BY <1>1, InitLegacyInv, NextLegacyInv, PTL DEF Spec, CleanupSparesKnown
=============================================================================
