-------------------------- MODULE LegacyController --------------------------
(***************************************************************************)
(* The legacy controller of controllers/jetstream, the default without    *)
(* --control-loop: one Stream CR and one Consumer CR on that stream, each *)
(* kind with an informer, a rate-limited work queue, one queue worker and *)
(* one clean-up loop.  There are no finalizers in this mode: the clean-up *)
(* loop finds the CRs that vanished between two of its ticks and deletes  *)
(* their NATS objects by running the worker's own code on the last copy   *)
(* it remembers, marked as deleted.  Worker and clean-up loop of a kind   *)
(* share nothing but the API server and NATS.                              *)
(***************************************************************************)
EXTENDS Integers, FiniteSets

CONSTANTS
    Kinds,            \* the kinds of CR: "stream", and "consumer" on that stream
    StreamSpecs, ConsumerSpecs, \* the specs users write
    MirrorRecreate,   \* --mirror-recreate-on-conflict
    PromoteRefused,   \* whether the server may refuse to drop a mirror in place
    MaxRetries,       \* maxQueueRetries
    MaxGen,           \* bound: metadata.generation
    Scenarios         \* bounds, of which a behaviour takes one: --read-only,
                      \* the kinds that have a CR at the start, how often
                      \* users create, edit and delete CRs of each kind,
                      \* calls fail and the process restarts

Specs == [mirror: BOOLEAN, headersOnly: BOOLEAN, ok: BOOLEAN,
          preventUpdate: BOOLEAN, preventDelete: BOOLEAN]
SpecsOf(k) == IF k = "stream" THEN StreamSpecs ELSE ConsumerSpecs

ASSUME LegacyAssumption ==
    /\ "stream" \in Kinds /\ Kinds \subseteq {"stream", "consumer"}
    /\ StreamSpecs \cup ConsumerSpecs \subseteq Specs
    /\ StreamSpecs # {} /\ ConsumerSpecs # {}
    /\ MirrorRecreate \in BOOLEAN /\ PromoteRefused \subseteq BOOLEAN
    /\ {MaxRetries, MaxGen} \subseteq Nat
    /\ \A s \in Scenarios :
          s \in [readOnly: BOOLEAN, crs: SUBSET Kinds, events: [Kinds -> Nat],
                 faults: Nat, restarts: Nat]

Procs == {"worker", "cleaner"} \X Kinds

VARIABLES
    cr,         \* the CRs in the API server
    cache,      \* the informers' copies, what the listers return
    queued,     \* the CR's key waits in the kind's work queue
    tries,      \* NumRequeues of the key
    server,     \* the NATS objects: the spec last applied, or None
    sourceOwns, \* another stream still claims the subjects of the Stream CR
    pc, obj,    \* each process's next call and the copy it works on
    prev,       \* prevStreams, prevConsumers
    seen,       \* history: incarnations of the CR at the clean-up's last tick
    hit,        \* history: the NATS object went while its CR stays
    silent,     \* history: given up by a call that failed, with no status
    readOnly,   \* opts.ReadOnly
    left        \* what the environment may still inject

k8sVars == <<cr, cache>>
queueVars == <<queued, tries>>
natsVars == <<server, sourceOwns>>
procVars == <<pc, obj, prev>>
histVars == <<seen, hit, silent>>
vars == <<k8sVars, queueVars, natsVars, procVars, histVars, readOnly, left>>

None == [there |-> FALSE]

\* createStream passes on a republish without its headersOnly.
StreamCreated(s) == [there |-> TRUE, mirror |-> s.mirror, headersOnly |-> FALSE]
\* updateStream sends every field of the spec.
StreamUpdated(s) == [StreamCreated(s) EXCEPT !.headersOnly = s.headersOnly]
\* consumerSpecToOpts serves creation and update alike.
ConsumerConfig(s) == [there |-> TRUE, mirror |-> FALSE, headersOnly |-> s.headersOnly]

Created(k, s) == IF k = "stream" THEN StreamCreated(s) ELSE ConsumerConfig(s)
Updated(k, s) == IF k = "stream" THEN StreamUpdated(s) ELSE ConsumerConfig(s)

\* Durations, times and enumerations of the spec that do not parse make every
\* request fail before it is sent.
Parses(s) == s.ok

AnySpec(k) == CHOOSE s \in SpecsOf(k) : TRUE

NewCR(uid, spec) ==
    [uid |-> uid, there |-> TRUE, gen |-> 1, spec |-> spec, observed |-> 0,
     ready |-> "none", deleting |-> FALSE]

NoCR(k, uid) == [NewCR(uid, AnySpec(k)) EXCEPT !.there = FALSE]

InitialCRs(k, crs) ==
    IF k \in crs THEN {NewCR(1, s) : s \in SpecsOf(k)} ELSE {NoCR(k, 0)}

Starts(scenario) ==
    /\ readOnly = scenario.readOnly
    /\ left = [event |-> scenario.events, fault |-> scenario.faults,
               restart |-> scenario.restarts]
    /\ cr \in [Kinds -> UNION {InitialCRs(k, scenario.crs) : k \in Kinds}]
    /\ \A k \in Kinds : cr[k] \in InitialCRs(k, scenario.crs)

Init ==
    /\ \E s \in Scenarios : Starts(s)
    /\ cache = cr
    /\ queued = [k \in Kinds |-> cr[k].there]
    /\ tries = [k \in Kinds |-> 0]
    /\ \E s \in {None} \cup (IF readOnly THEN {StreamUpdated(t) : t \in StreamSpecs} ELSE {}) :
          server = [k \in Kinds |-> IF k = "stream" THEN s ELSE None]
    /\ sourceOwns \in BOOLEAN
    /\ pc = [p \in Procs |-> "idle"]
    /\ obj = [p \in Procs |-> NoCR(p[2], 0)]
    /\ prev = [k \in Kinds |-> NoCR(k, 0)]
    /\ seen = [k \in Kinds |-> 0]
    /\ hit = [k \in Kinds |-> FALSE] /\ silent = hit
-----------------------------------------------------------------------------
(* Users, the other region and the informers. *)

UserDoes(k, new) ==
    /\ left.event[k] > 0
    /\ left' = [left EXCEPT !.event[k] = @ - 1]
    /\ cr' = [cr EXCEPT ![k] = new]
    /\ UNCHANGED <<cache, queueVars, natsVars, procVars, histVars, readOnly>>

CreateCR(k) ==
    /\ ~cr[k].there
    /\ \E s \in SpecsOf(k) : UserDoes(k, NewCR(cr[k].uid + 1, s))

EditCR(k) ==
    /\ cr[k].there /\ ~cr[k].deleting /\ cr[k].gen < MaxGen
    /\ \E s \in SpecsOf(k) \ {cr[k].spec} :
          UserDoes(k, [cr[k] EXCEPT !.spec = s, !.gen = @ + 1])

DeleteCR(k) == cr[k].there /\ UserDoes(k, NoCR(k, cr[k].uid))

\* Somebody else's finalizer keeps a deleted CR for a while.
MarkDeleted(k) ==
    /\ cr[k].there /\ ~cr[k].deleting
    /\ UserDoes(k, [cr[k] EXCEPT !.deleting = TRUE])

Demote ==
    /\ sourceOwns /\ sourceOwns' = FALSE
    /\ UNCHANGED <<k8sVars, queueVars, server, procVars, histVars, readOnly, left>>

\* Mutant: an edit of the spec does not enqueue.
ShouldEnqueueDeleted(old, new) == new.deleting

\* shouldEnqueue
ShouldEnqueue(old, new) == new.deleting \/ old.spec # new.spec

\* The informer delivers the next event; a re-created CR is a deletion and an
\* addition.  eventHandlers enqueues every addition and deletion.
Sync(k) ==
    /\ cache[k] # cr[k]
    /\ LET gone == cache[k].there /\ (~cr[k].there \/ cr[k].uid # cache[k].uid)
           new == IF gone THEN NoCR(k, IF cr[k].there THEN cr[k].uid - 1 ELSE cr[k].uid)
                  ELSE cr[k]
           event == gone \/ (cr[k].there /\ ~cache[k].there)
       IN  /\ cache' = [cache EXCEPT ![k] = new]
           /\ queued' = [queued EXCEPT ![k] =
                 @ \/ event \/ (new.there /\ ShouldEnqueue(cache[k], new))]
    /\ UNCHANGED <<cr, tries, natsVars, procVars, histVars, readOnly, left>>

\* Every 30 s the informer repeats each CR as an update of itself.
Resync(k) ==
    /\ cache[k].there /\ ShouldEnqueue(cache[k], cache[k]) /\ ~queued[k]
    /\ queued' = [queued EXCEPT ![k] = TRUE]
    /\ UNCHANGED <<k8sVars, tries, natsVars, procVars, histVars, readOnly, left>>
-----------------------------------------------------------------------------
(* A pass ends: processQueueNext for the worker, prevX = xm for the clean-up. *)

CallFails ==
    /\ left.fault > 0
    /\ left' = [left EXCEPT !.fault = @ - 1]

Retry(k) == tries[k] < MaxRetries

Finish(p, succeeded) ==
    LET k == p[2] IN
    /\ pc' = [pc EXCEPT ![p] = "idle"]
    /\ obj' = [obj EXCEPT ![p] = NoCR(k, 0)]
    /\ IF p[1] = "worker"
       THEN /\ tries' = [tries EXCEPT ![k] =
                  IF succeeded \/ ~Retry(k) THEN 0 ELSE @ + 1]
            /\ queued' = [queued EXCEPT ![k] = @ \/ (~succeeded /\ Retry(k))]
            /\ UNCHANGED prev
       ELSE /\ prev' = [prev EXCEPT ![k] = NoCR(k, 0)]
            /\ UNCHANGED queueVars

\* The last retry ended in a failed call.
GivesUp(p) ==
    silent' = [silent EXCEPT ![p[2]] = @ \/
                 (p[1] = "worker" /\ ~Retry(p[2]) /\ left' # left)]

Goto(p, label) ==
    /\ pc' = [pc EXCEPT ![p] = label]
    /\ UNCHANGED <<obj, prev, queueVars>>
-----------------------------------------------------------------------------
(* The queue worker: processQueueNext, processStream, processConsumer. *)

Dequeue(k) ==
    LET p == <<"worker", k>> IN
    /\ pc[p] = "idle" /\ queued[k]
    /\ queued' = [queued EXCEPT ![k] = FALSE]
    /\ silent' = [silent EXCEPT ![k] = FALSE]
    /\ IF cache[k].there
       THEN /\ pc' = [pc EXCEPT ![p] = "exists"]
            /\ obj' = [obj EXCEPT ![p] = cache[k]]
            /\ UNCHANGED tries
       ELSE tries' = [tries EXCEPT ![k] = 0] /\ UNCHANGED <<pc, obj>>
    /\ UNCHANGED <<k8sVars, natsVars, prev, seen, hit, readOnly, left>>

\* getAccountOverrides fails before the deferred status update is in place.
AccountFails(p) ==
    /\ pc[p] = "exists"
    /\ CallFails
    /\ Finish(p, FALSE) /\ GivesUp(p)
    /\ UNCHANGED <<k8sVars, natsVars, seen, hit, readOnly>>
-----------------------------------------------------------------------------
(* processStreamObject and processConsumerObject, on obj[p]. *)

\* Mutant: --read-only is not looked at for streams either.
SkipChangesNever(k) == FALSE

\* --read-only guards streams; processConsumerObject does not look at it.
SkipChanges(k) == readOnly /\ k = "stream"

\* The branch the pass takes once it knows whether the NATS object exists.
Branch(k, o, exists) ==
    LET deleteOK == o.deleting
        newGeneration == o.gen # o.observed
        updateOK == exists /\ ~deleteOK /\ newGeneration
        createOK == ~deleteOK /\ (~exists \/ (~updateOK /\ newGeneration))
    IN  CASE createOK -> IF SkipChanges(k) THEN "skip" ELSE "create"
          [] updateOK -> IF o.spec.preventUpdate \/ SkipChanges(k)
                         THEN "setOK" ELSE "update"
          [] deleteOK -> IF o.spec.preventDelete \/ SkipChanges(k)
                         THEN "setOK" ELSE "delete"
          [] OTHER -> "setOK"

Exists(p) ==
    LET next == Branch(p[2], obj[p], server[p[2]] # None) IN
    /\ pc[p] = "exists"
    /\ \/ CallFails /\ Goto(p, "setErrored")
       \/ UNCHANGED left /\ next # "skip" /\ Goto(p, next)
       \/ UNCHANGED left /\ next = "skip" /\ Finish(p, TRUE)
    /\ UNCHANGED <<k8sVars, natsVars, histVars, readOnly>>

\* What NATS holds after a request: a lost stream takes its consumers along.
Becomes(k, config) ==
    server' = [j \in Kinds |->
        IF j = k THEN config
        ELSE IF k = "stream" /\ config = None THEN None ELSE server[j]]

\* A request that NATS carries out, or that fails with its effect kept or not.
Request(p, k, config, next) ==
    \/ Becomes(k, config) /\ UNCHANGED left /\ Goto(p, next)
    \/ CallFails /\ Goto(p, "setErrored") /\ (Becomes(k, config) \/ UNCHANGED server)

Refused(p) == Goto(p, "setErrored") /\ UNCHANGED <<server, left>>

\* 10065: the subjects of a primary still belong to another stream.
Overlaps(k, s) == k = "stream" /\ sourceOwns /\ ~s.mirror

\* createStream, createConsumer; NATS accepts the creation of what exists
\* when nothing differs.
Create(p) ==
    LET k == p[2]  s == obj[p].spec
        accepted == /\ Parses(s) /\ ~Overlaps(k, s)
                    /\ server[k] \in {None, Created(k, s)}
                    /\ k = "consumer" => server["stream"] # None
    IN  /\ pc[p] = "create"
        /\ \/ accepted /\ Request(p, k, Created(k, s), "setOK")
           \/ ~accepted /\ Refused(p)
        /\ hit' = [hit EXCEPT ![k] = @ /\ server'[k] = None]
        /\ UNCHANGED <<k8sVars, sourceOwns, seen, silent, readOnly>>

\* 10055, 10031, 10034: the update would flip the stream in a way the server
\* does not support in place; whether it supports a promote is its own matter.
MirrorIncompatible(k, s, refused) ==
    k = "stream" /\ server[k].mirror # s.mirror /\ (s.mirror \/ refused)

\* Mutant: the destructive branch is taken for a promote as well.
RecreatableAnyFlip(s) == MirrorRecreate

Recreatable(s) == MirrorRecreate /\ s.mirror

\* updateStream, updateConsumer and the reactive re-creation.
Update(p) ==
    LET k == p[2]  s == obj[p].spec
        valid == server[k] # None /\ Parses(s) /\ ~Overlaps(k, s)
    IN  /\ pc[p] = "update"
        /\ \E refused \in PromoteRefused :
             LET incompatible == MirrorIncompatible(k, s, refused) IN
             \/ valid /\ ~incompatible
                /\ Request(p, k, Updated(k, s), "setOK")
             \/ /\ valid /\ incompatible /\ Recreatable(s)
                /\ Goto(p, "recreateDelete") /\ UNCHANGED <<server, left>>
             \/ (valid => incompatible /\ ~Recreatable(s)) /\ Refused(p)
        /\ UNCHANGED <<k8sVars, sourceOwns, histVars, readOnly>>

\* A NATS object disappears while its CR stays and nobody asked for it.
Hits(p) ==
    hit' = [j \in Kinds |->
        \/ hit[j]
        \/ /\ server[j] # None /\ server'[j] = None /\ cr[j].there
           /\ j # p[2] \/ obj[p].uid # cr[j].uid]

\* deleteStream inside the re-creation; PreventDelete makes it a no-op.
RecreateDelete(p) ==
    /\ pc[p] = "recreateDelete"
    /\ IF obj[p].spec.preventDelete
       THEN Goto(p, "create") /\ UNCHANGED <<server, left>>
       ELSE Request(p, "stream", None, "create")
    /\ Hits(p)
    /\ UNCHANGED <<k8sVars, sourceOwns, seen, silent, readOnly>>

\* deleteStream, deleteConsumer: an object that is gone already is fine.
Delete(p) ==
    /\ pc[p] = "delete"
    /\ \/ Becomes(p[2], None) /\ UNCHANGED left /\ Finish(p, TRUE)
       \/ /\ CallFails /\ Goto(p, "setErrored")
          /\ Becomes(p[2], None) \/ UNCHANGED server
    /\ Hits(p)
    /\ UNCHANGED <<k8sVars, sourceOwns, seen, silent, readOnly>>

\* UpdateStatus of the copy in hand: a stale copy conflicts however often
\* RetryOnConflict repeats the same request.
WriteStatus(p, new) == cr[p[2]] = obj[p] /\ cr' = [cr EXCEPT ![p[2]] = new]

SetOK(p) ==
    LET k == p[2]  o == obj[p] IN
    /\ pc[p] = "setOK"
    /\ \/ /\ WriteStatus(p, [o EXCEPT !.observed = o.gen, !.ready = "Ready"])
          /\ Finish(p, TRUE) /\ UNCHANGED left
       \/ /\ (cr[k] # o /\ UNCHANGED left) \/ CallFails
          /\ Goto(p, "setErrored") /\ UNCHANGED cr
    /\ UNCHANGED <<cache, natsVars, histVars, readOnly>>

SetErrored(p) ==
    LET k == p[2]  o == obj[p] IN
    /\ pc[p] = "setErrored"
    /\ \/ WriteStatus(p, [o EXCEPT !.ready = "Errored"]) /\ UNCHANGED left
       \/ ((cr[k] # o /\ UNCHANGED left) \/ CallFails) /\ UNCHANGED cr
    /\ Finish(p, FALSE) /\ GivesUp(p)
    /\ UNCHANGED <<cache, natsVars, seen, hit, readOnly>>
-----------------------------------------------------------------------------
(* The clean-up loops: cleanupStreams, cleanupConsumers. *)

\* A tracked copy serves for its name and spec only.
Remembered(o) == [o EXCEPT !.observed = 0, !.ready = "none"]

\* Mutant: the tracked list is replaced before it is compared.
MissingReplaced(k) == LET tracked == cache[k] IN tracked.there /\ ~cache[k].there

\* selectMissingStreamsFromList: tracked at the last tick, not listed now.
Missing(k) == prev[k].there /\ ~cache[k].there

Tick(k) ==
    LET p == <<"cleaner", k>> IN
    /\ pc[p] = "idle" /\ ~readOnly
    /\ prev[k] # Remembered(cache[k])
    /\ IF Missing(k)
       THEN /\ pc' = [pc EXCEPT ![p] = "lookup"]
            /\ obj' = [obj EXCEPT ![p] = [prev[k] EXCEPT !.deleting = TRUE]]
            /\ seen' = [seen EXCEPT ![k] = cr[k].uid]
            /\ UNCHANGED prev
       ELSE prev' = [prev EXCEPT ![k] = Remembered(cache[k])] /\ UNCHANGED <<pc, obj, seen>>
    /\ UNCHANGED <<k8sVars, queueVars, natsVars, hit, silent, readOnly, left>>

\* Mutant: the list is believed.
ConfirmedByList(k) == ~cache[k].there

\* Only a CR the API server does not find is cleaned up.
Confirmed(k) == ~cr[k].there

Lookup(k) ==
    LET p == <<"cleaner", k>> IN
    /\ pc[p] = "lookup"
    /\ \/ UNCHANGED left /\ Confirmed(k) /\ Goto(p, "exists")
       \/ (CallFails \/ (UNCHANGED left /\ ~Confirmed(k))) /\ Finish(p, TRUE)
    /\ UNCHANGED <<k8sVars, natsVars, histVars, readOnly>>
-----------------------------------------------------------------------------
\* The process restarts: queues, counters and tracked CRs are gone; the
\* informers list afresh and add every CR.
Restart ==
    /\ left.restart > 0
    /\ left' = [left EXCEPT !.restart = @ - 1]
    /\ cache' = cr
    /\ queued' = [k \in Kinds |-> cr[k].there]
    /\ tries' = [k \in Kinds |-> 0]
    /\ pc' = [p \in Procs |-> "idle"]
    /\ obj' = [p \in Procs |-> NoCR(p[2], 0)]
    /\ prev' = [k \in Kinds |-> NoCR(k, 0)]
    /\ UNCHANGED <<cr, natsVars, histVars, readOnly>>

Step(p) ==
    \/ Exists(p) \/ AccountFails(p) \/ Create(p) \/ Update(p)
    \/ RecreateDelete(p) \/ Delete(p) \/ SetOK(p) \/ SetErrored(p)
Worker(k) == Dequeue(k) \/ Step(<<"worker", k>>)
Cleaner(k) == Tick(k) \/ Lookup(k) \/ Step(<<"cleaner", k>>)

User(k) == CreateCR(k) \/ EditCR(k) \/ DeleteCR(k) \/ MarkDeleted(k)

Next ==
    \/ Demote \/ Restart
    \/ \E k \in Kinds : User(k) \/ Sync(k) \/ Resync(k) \/ Worker(k) \/ Cleaner(k)

Fairness ==
    \A k \in Kinds :
        WF_vars(Sync(k)) /\ WF_vars(Worker(k)) /\ WF_vars(Cleaner(k))

Spec == Init /\ [][Next]_vars /\ Fairness
-----------------------------------------------------------------------------
(* Properties. *)

Destroyed(k) == server[k] # None /\ server'[k] = None

\* The clean-up loop works from a list that may lag, so it asks the API server
\* again: it never deletes the NATS object of a CR that was there when its
\* tick began, however stale the list was.
CleanupSparesKnown ==
    [][\A k \in Kinds :
         pc[<<"cleaner", k>>] # "idle" /\ pc'[<<"cleaner", k>>] # pc[<<"cleaner", k>>]
         /\ Destroyed(k)
         => ~cr[k].there \/ cr[k].uid > seen[k]]_vars

\* A stream and its messages go only when some copy of the CR was deleted or
\* asks for a mirror (stream.go: never the destructive branch for a promote),
\* whichever of the two processes acts and however old its copy is.
PromoteKeepsStream ==
    [][Destroyed("stream") =>
         \E r \in {"worker", "cleaner"} :
             LET p == <<r, "stream">> IN
             /\ pc[p] \in {"delete", "recreateDelete"} /\ pc'[p] # pc[p]
             /\ obj[p].deleting \/ obj[p].spec.mirror]_vars

\* --read-only keeps the controller from changing any stream.
ReadOnlyKeepsStreams ==
    [][readOnly => server'["stream"] = server["stream"]]_vars

Applied(k) ==
    /\ cr[k].observed = cr[k].gen /\ cr[k].ready = "Ready"
    /\ server[k] \in {Created(k, cr[k].spec), Updated(k, cr[k].spec)} \/ cr[k].spec.preventUpdate

\* Events are edge-triggered and retries are bounded, yet every CR that stays
\* ends up applied and reported, or reported as errored, for good - unless
\* its NATS object was taken away behind its back, or the retries ran out on a
\* call that failed before any status could be written.
LegacySettles ==
    <>[](\A k \in Kinds :
           cr[k].there /\ ~cr[k].deleting /\ ~hit[k] /\ ~silent[k] /\ ~readOnly
           => Applied(k) \/ cr[k].ready = "Errored")

\* A NATS object whose CR is gone, that the clean-up loop tracks and no
\* worker is about to create again, is deleted, unless a call fails, the
\* process restarts or the CR comes back.
Orphaned(k) ==
    /\ ~cr[k].there /\ ~cache[k].there /\ prev[k].there
    /\ pc[<<"cleaner", k>>] = "idle" /\ pc[<<"worker", k>>] = "idle"
    /\ ~prev[k].spec.preventDelete /\ ~readOnly
    /\ left.fault = 0 /\ left.restart = 0

OrphansCleaned ==
    \A k \in Kinds : Orphaned(k) ~> (server[k] = None \/ cr[k].there)
=============================================================================
