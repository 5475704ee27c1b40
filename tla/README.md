# Verification of the NACK JetStream controllers

TLA+ specifications of the controllers in this repository, the TLC runs that
check them on small instances, and TLAPS proofs of what holds on every
instance. `PROJECT.json` maps every definition to the lines it models and lists
the runs, the mutants that show each property can fail, the hazards, the
theorems and the finding.

## 1. Inventory

The repository holds two generations of controllers, an admission webhook and
two helpers for NATS server pods.

| Component | State | Operations | Interacts with | What is hard | What makes it correct |
|---|---|---|---|---|---|
| Stream reconciler (`internal/controller/stream_controller.go`) | the Stream CR (spec, status, finalizer, state annotation), the NATS stream | one reconcile pass: initial status, finalizer, read role, read server, create / update / promote in place / delete and re-create, annotate, status; finalization | API server through a lagging cache, NATS, the peer region, the backup operator, the role annotation of the namespace | passes are sequences of remote calls, any of which may fail, be overtaken or lose its reply; role flips do not change the generation | converges; never destroys data it need not destroy; reports the truth; leaves no orphan |
| KeyValue reconciler (`keyvalue_controller.go`) | the same for a bucket | the same, with a promote in one update | the same | the same, and a translation flag that a restart may change | the same |
| Role translation (`passive_role.go`) | none | which spec a role applies, which flips are wanted or refused | Stream and KeyValue reconcilers | raw and effective role differ; asymmetric conditions | the guard holds, a translated CR is a mirror |
| Consumer, ObjectStore reconcilers | CR, NATS object | initial status, finalizer, create / update, annotate, status; finalization | API server, NATS, the Account they name; a Consumer's stream | lost replies; objects that go behind the controller's back | Ready is true; nothing known is left behind; deletions end |
| Account reconciler | the Account CR | ready status; finalization that waits for dependents | the other CRs, through caches | a list that fails or lags | an account outlives the CRs that need it |
| Way from an Account to a client (`jetstream_controller.go`, `client.go`) | credentials files on disk, one per account, shared by all controllers | read Account and secret, compare and write the file, hash, connect | Kubernetes, file system, connection pool | files written under a lock and read without it; clients that re-read on reconnect | a pass acts as the account it names |
| Connection pool (`connection_pool.go`) | map from configuration hash to counted connection | Get, release, deferred close | all reconcilers, concurrently | the deferred close finds its connection by hash; connections die and are replaced | nothing in use is closed, nothing unused stays open |
| Webhook (`internal/webhook`) | none; reads CRs and namespace annotations from a cache | sibling conflict, drill gate | API server, and the controllers' own updates | overlapping requests; judges the finalizer removal too | no two writers of one stream; nothing is blocked for good |
| Legacy controller (`controllers/jetstream`) | work queues, `prevStreams`, `prevConsumers`, CR status | process with bounded retries; periodic clean-up | informers, NATS | a CR re-created during its clean-up, retries that run out, restarts | streams of vanished CRs go, others stay |
| Legacy pool (`conn_pool.go`) | cache from key to counted connection | Get with singleflight and retry, ReturnToPool | queue workers, clean-up loops | lookup and count in different critical sections | as for the pool above |
| Config reloader (`pkg/natsreloader`) | digests, watches, files to re-add | event batches, re-add ticker, signal with retries, polling | file system, server process | batches, files replaced or removed, a server that crashes | every change leads to a reload, and to one |
| Role watch, manager and flags, CRD types | - | wiring, flags, fields | everything above | restarts with other flags | - |
| Boot configuration, generated clients, role translation for other repositories | - | - | - | nothing interleaves, or generated | - |

## 2. Modules

| Module | Models | Uses |
|---|---|---|
| `RoleTranslation` | the pure decisions on a role | |
| `StreamReconciler` | Stream CR, its reconciler, the stream, both regions | extends `RoleTranslation` |
| `KeyValueReconciler` | KeyValue CR, its reconciler, the bucket | `RoleTranslation` with the flag as a variable |
| `ReplicatedStore` | what both promise about the data: the abstract specification | implemented by the two above |
| `AccountedResources` | Account reconciler composed with a Consumer or ObjectStore and its reconciler | |
| `AccountCredentials` | from an Account to a client: files, lock, hash, connections | |
| `ConnectionPool` | the reference-counted pool | |
| `LegacyConnPool` | the legacy pool | |
| `LegacyController` | legacy queues, workers, clean-up loops | |
| `Admission` | both validators, the drill gate, the CRs' finalizers | |
| `ConfigReloader` | the reloader, the files, the server | |
| `StreamReconcilerProofs`, `KeyValueProofs`, `AccountedResourcesProofs`, `AccountCredentialsProofs`, `LegacyControllerProofs`, `AdmissionProofs`, `ConfigReloaderProofs` | theorems and proofs | extend the modules they are named after |
| `PoolProofs` | theorems and proofs about both pools | extends `LegacyConnPool`, instantiates `ConnectionPool` |
| `MC...` | the instances TLC checks | extend the modules they are named after |

Everywhere, one action is one remote call, one critical section or one step of
a loop, so that anything else may happen between any two of them. A write of a
CR succeeds when the pass's copy is the stored object (optimistic locking; the
comparison of contents stands for that of resource versions, an object that
changed and changed back is the only case it does not tell apart). A failed
call consumes a budget of faults and fails before it takes effect, or takes
effect and loses its reply. Definitions whose name appears under "mutants" are
alternatives used to show that a property can fail; they are no part of `Next`.

## 3. The Stream reconciler

`cr` is the CR in the API server: spec, generation, finalizer, deletion mark,
the state annotation (`stored`), the backup confirmation (`confirmed`) and the
status. `crCache` and `roleCache` are the informer's copies. `server`, `msgs`
are the NATS stream's configuration and messages, `peer` and `sourceOwns` the
messages and the subject claim of the peer region, `backup` and `backupGen`
what the backup operator has captured. `sent` is a history variable: all
messages ever accepted. The remaining variables are the locals of the running
pass; `pc` names its next API call.

A configuration is `[mirror, subjects, ver]`: where it replicates from, whether
it claims the authored subjects, and one number for all other fields.
Everything `createOrUpdate` branches on is a function of these, the generation,
the flags and the role.

- `ReadCR`, `InitStatus`, `AddFinalizer`, `ReadRole`/`RoleReadFails`: the head
  of `Reconcile` and of `createOrUpdate`. `ReadCR` is always possible because
  every path out of a pass requeues the CR, an error with back-off.
- `LoadGuarded`, `LoadFlipped`, `LoadConverged`, `LoadApply`, `LoadFails`: the
  read of the server's state and the decisions taken on it (guard, promote,
  recreate, converged skip, read-only, preventUpdate). `LoadFails` is also the
  spec that `streamSpecToConfig` refuses (`Malformed`): such a CR reports an
  error on every pass. `stream_gate` has one; what must eventually happen is
  claimed for specs that parse.
- `GateLocal`, `GateProbe`, `GateFails`, `RecreateDelete`, `Create`: the backup
  gate and the destructive recreate. The count the gate has read is a local, so
  messages may arrive between the gate and the delete. Either call may also
  fail, with and without effect.
- `Unmirror`, `Reload`, `UpdateAccepted`, `UpdateRejected`, `Verify`: the
  two-phase promote and the plain update. `CreateReply` and `UpdateReply` are
  the NATS server's answers; `OneShotPromote` says whether it accepts dropping
  the mirror and adding subjects at once. A failed update that drops a mirror
  may also be acknowledged with the mirror kept.
- `Persist`, `WriteStatus`: the annotation and the last status update.
- `FinalizeStatus`, `FinalizeLoad`, `FinalizeDelete`, `RemoveFinalizer`:
  `deleteStream`.
- the environment: informers, spec edits, role flips, deletion, publishing and
  replication on both sides, the peer's claim of the subjects, the backup
  operator, and `Restart`.

The second guard the code has on the reactive path (`stream_controller.go:568`)
asks for a flip which the enclosing condition excludes, so it is no disjunct of
`UpdateRejected`.

Fairness (`FairSpec`): the work queue always runs the CR again (`WF` of
`Reconcile`; every return requeues or follows an error), informers deliver, the
peer region releases its subjects and the backup operator does its part. Users,
clients, faults and restarts are under no obligation. `PeerReplicate` is not
fair either: with the probe, the handshake still ends because a confirmation
opens the gate.

## 4. The KeyValue reconciler

The same skeleton, with what differs in the code: the promote is one
`UpdateKeyValue`, which the server may acknowledge and not carry out
(`Verify`), the annotation holds a state read back from the server, a spec that
does not parse ends the pass without any status, and an update that points a
mirror elsewhere is refused. `enabled` is a variable: a restart may bring the
process back with `--enable-passive-role-translation` changed, which makes the
annotation of an earlier pass one of another flag. `Recognised` leaves open
whether the client's error shows the subject overlap (error 10055).

Fairness is as for streams. `KVConverges` names two states in which a pass
cannot converge: a mirror edited to another source, and a demotion the guard
refuses.

## 5. What both promise: `ReplicatedStore`

A local copy is absent, a mirror, or a primary, and holds data. `Promote` turns
a mirror into a primary with its data; there is no step the other way but
through `Replace`, which empties the store only when the controller works
towards a mirror; `Delete` needs a request. `want` is the form the controller
works towards.

The refinement mapping takes `form` from the server's configuration, `data`
from its messages or keys, `want` from the pass's effective spec while it is
applied, and `deleting` from the CR. `StoreSpec` is checked and proved for both
reconcilers.

## 6. Accounts, Consumers, ObjectStores

`AccountedResources` composes the Account's worker with the worker of one
resource; `kind` chooses between Consumer and ObjectStore, whose code differs
in the order of status writes, in what a failed deletion means and in whether a
spec error shows. `accDue` is the account's work queue: predicates let only
creations, deletions and deletion marks in, so an account that waits for its
dependents depends on its own requeue. `late` remembers that the account was
marked for deletion before it had its finalizer or before the cache showed the
CR, `early` that a CR came before the cache showed its account. The stream of a
Consumer (`parent`) may go and take the Consumer along.

`AccountOutlivesDependents` states when the account can go too early: a `List`
of dependents failed, which the code only logs (`account_controller.go:162`),
or the account was `late`. `ReadyMatchesSpec` looks at the step in which
Ready turns true. `LeavesNothingBehind` states when a finalizer lets a
CR go although its object is there: preventDelete, read-only, or no stored state
and a server that could not be asked: a call failed, or the account had gone
(`late`) or was not in the cache yet when the CR came (`early`). The last of
these was missing until the proof of the property failed without it: a CR left
its object behind, its account was replaced, and a second CR of the same name
came and went before the cache showed the new account. That takes more user
operations than the run allows; with six of them TLC finds it. `SpecErrorsShow`
is claimed for Consumers; an ObjectStore whose spec does not parse keeps its old
status.

Fairness: the two queues run, informers deliver, and a stream that went comes
back (its own reconciler re-creates it).

`AccountCredentials` is the way from the Account to a connection. The Account
is read before `cacheLock` is taken, the secret under it; the file is compared,
truncated and written under the lock, but hashed and read by the client after
it. `raced` and `reread` remember that an edit met a pass on its way to a
connection and that a client reconnected with a file changed since: the two
windows in which a pass may act as someone else. `SettlesOnAccount` says that
neither window leaves a lasting trace, if connections are left alone from time
to time, so that the grace period of the pool can end. A secret without the key
the Account names is no error in the code; the pass then acts as the controller
itself, and `ActsAsNamed` says that, the two windows apart, this happens only
then. `file` stands for
any of the credentials, nkey, certificate and key files, which are written the
same way.

Fairness: controllers run (`WF` of each pass); a grace period ends at a time
that has nothing to do with the passes, hence `SF` of `Lapse`.

## 7. The connection pools

`ConnectionPool` models one configuration hash. Get and release hold the mutex
throughout and are single actions; the goroutine release starts is `Expire`,
which finds its connection by the hash. `CreateClient` is separate from Get
because a connection may drop in between, and its failure returns before the
deferred Close is registered. The client library reconnects for ever
(`nats.MaxReconnects(-1)`), but gives a connection up (`Die`) after repeated
authorization errors. A configuration that cannot be hashed is served outside
the pool (`GetUnpooled`).

Both properties are conditional: `NoUseAfterCloseYet` (nothing a pass works with
is closed, until a connection dies) and, under fair passes and goroutines,
`NoLeakYet` (a connection that is idle before any connection has dropped is
closed or used again). Neither condition can be dropped. After a death, the
entry is replaced under the same hash (`connection_pool.go:57`; an entry is only
replaced once the client library has closed its connection), and the closes
meant for the old connection count against the replacement, which may be closed
in use. After a drop, a client may fail to be created
(`jetstream_controller.go:217`), and the reference lost there keeps the
connection counted, and open, for ever. An operation's calls time out, so a pass
that has a connection finishes.

`LegacyConnPool` models one key, for a finite set of goroutines. The singleflight call is `Lookup`, `Dial` and
`Store`, outside or in separate critical sections; `Acquire` is the later one
that counts; `ReturnToPool` and `Close` are apart because the connection is
closed after the lock is released. `crdConnect` is the flag `--crd-connect`, the
same for the life of the process. With it `runWithJsmc` defers `Close`, which is
`ReturnToPool`. Without it, the default, the client is used and never closed
(`UseWithoutClose`), so its reference stays counted. In both modes `RealJSMC`
loses the reference when `jsm.New` fails (`NewFails`), although the comment on it
has its callers return the connection. A connection that is still in the cache
is meant to stay open; `LegacyNoLeak` is about one that another has replaced
there: it is closed by its last user, unless a reference to it was never
returned (`Unreturned`). The exception is a real leak: without `--crd-connect` a
connection that was replaced while it was disconnected is never closed, and its
client reconnects for ever (`nats.MaxReconnects(-1)`).

Fairness: a call in flight and a user that has been given a connection go on. A
user's operation ends because its requests time out; the deferred `Close`
follows only under `crdConnect`, and failures are under no obligation. `MaxCount`
bounds the references one connection may gather where nobody returns them.

Sets of connections are finite and never reused; when they are used up no new
one can be made, which bounds the instances and is no deadlock of the program.

## 8. The legacy controller

One Stream CR and one Consumer CR on that stream. Each kind has an informer
(`Sync`, `Resync`), a queue (`queued`, `tries` for the rate limiter's count), a
worker and a clean-up loop; `obj` is the copy a process works on. The clean-up
loop (`Tick`, `Confirmed`, `Lookup`, ...) compares its list with `prev`, asks
the API server again, and runs the worker's own code on a copy marked deleted.
`hit` remembers that a NATS object was taken away while its CR stays (its stream
was re-created or the clean-up met a CR that came back), `silent` that retries
ran out on calls that failed before any status could be written:
`LegacySettles` holds without them. `ReadOnlyKeepsStreams` is about streams
only: `processConsumerObject` does not look at the flag (`consumer.go:87`).

Fairness: informers deliver, workers and clean-up loops run. Resyncs are not
needed for any property.

## 9. The webhook

Requests are judged from `storeCache` and `drillCache` and stored later
(`inflight`); DELETE is not sent to the webhook. `ConflictsHaveCause`: two CRs
come to stand for one stream only in a drill or by requests that overlap or were
judged from a stale cache. `DrillShields`: once the webhook knows of a drill, a
stored scope-labeled CR is updated by operator and controller alone (creations and
deletions are not part of the property); the exceptions are a request under way and one that takes the label off, at which the gate does not
look. `DeletionsFinish`: a deletion ends unless two CRs are in conflict outside
a drill.

`admission_finalizer` expects a violation. `drill_active_gate.go:65` says that
the controller must always be able to remove its finalizer; the sibling check
also judges that update and counts siblings that are being deleted, so two CRs
that came into conflict during a drill keep a deletion in Terminating after it.

Fairness: the controller tries again, the API server stores, caches catch up.

## 10. The config reloader

Files are overwritten in place, replaced (a new inode), removed or moved away;
a watch belongs to the inode and ends with it. The reloader is one loop:
`FindServer`, `Watch`, `Preload`, then batches (`HandleEvent`, `EndBatch`),
`Tick` for deleted files, `Signal` and `ReloadFails`; or `Poll` when inotify is
exhausted, after `Fallback` if that is found out while the watches are set:
`runPollingMode` then looks the files up again and adds them to its list. The server starts, crashes, and takes signals when it comes to it;
it refuses a configuration whose include is missing.

`WatchesFollowFiles` and `NoReloadStorm` hold as stated, but for files moved
away, whose Rename event nothing handles (`natsreloader.go:184`).
`ConfigReaches` names the four holes through which a change can stay unknown:
digests preloaded that the server has not read, a refused reload that nobody
repeats, a file moved away, and a digest that was not recorded because another
file of the batch counted as updated (`natsreloader.go:198`). The list of
files is made at the start, by `Watch` and `Fallback`, and an include added later
is not on it, so `InSync` is asked of the files on it. Overwriting a file is one
step in the model: a file that is truncated and read before it is written would
count as two edits in `NoReloadStorm`.

Fairness: the reloader goes on, the server is restarted and takes its signals.

## 11. Runs

| Run | Question | Instance |
|---|---|---|
| `stream_promote` | types, guard, refinement | translation off, pure mirror / primary / mirror baseline, 2 generations, 2 flips, 1 fault, 1 restart, 1 message |
| `stream_gate` | is a message lost, is a failed edit reported done | gate on without probe, 2 messages (symmetric), 2 generations, one spec that does not parse, a flip, a fault, a restart; clients quiesce under a passive role |
| `stream_lifecycle` | convergence, re-creation, deletion, orphans | gate and probe, cold-start passive, primary / mirror baseline, 1 message, a flip, a fault, a deletion; fair |
| `keyvalue` | refinement, guard, Ready, convergence | gate on, primary / mirror baseline / unparsable, 1 key, 2 disturbances of any kind; fair |
| `pool` | use after close, leak | two JSM users and one other, 3 connections, a drop, a death, a hash failure; fair |
| `legacy_pool` | use after close, live cache, leak | a worker and two clean-up loops, with and without `--crd-connect`, 3 connections, at most 3 references each, 2 tries, a drop, a failed dial or manager; fair |
| `resources` | account against dependents, nothing left, Ready, deletions end | both kinds, flags both off or both on, read-only or not, 3 user operations, 1 fault; fair |
| `credentials` | one writer, acting as whom, settling | 2 controllers, 2 secrets, 2 identities, 2 edits, 1 fault; fair |
| `legacy_controller` | what clean-up and workers delete, settling | six scenarios: a stream with creations, edits, deletions, faults, restarts or read-only, and with a consumer on it; 1 retry, 2 generations; fair |
| `admission` | conflicts, drill, stuck deletions | 2 names, both kinds, 3 shapes, 2 requests in flight, 3 requests, 1 change of the drill annotation; fair |
| `admission_finalizer` | expects a violation | the same |
| `reloader` | forgotten files, reload storms, changes that do not arrive | watching or polling, 2 files, 2 versions, 3 edits, 2 crashes, no retry; fair |

Each bound is the least at which the case the run is about happens: two flips
let a promote be undone half-way, two generations let a confirmation or an
observed generation be stale, one fault separates any two calls of a pass, two
messages let one be backed up or replicated and the other not; three users are
needed for one to return a legacy connection while another is between lookup and
count and a third has already replaced it; two secrets let one file be written
for an identity another pass no longer names; three edits let a file change,
change back and change again around one batch of events; two crashes are one of
the server and one of the reloader. `LegacyController` takes its bounds by
scenario because their product is out of reach. Deadlock checking is off where
everything bounded may be used up or the CR may be gone for good.

The conditions some properties carry are part of what the code does. Besides
those named above:

- Without `--mirror-recreate-on-conflict` the converged skip
  (`stream_controller.go:430`) swallows a role that turns passive: Ready over a
  primary. With it, the skip still errs for one kind of spec, a CR without the
  scope label whose authored spec is a mirror while translation is on and the
  remote domain is set: `ReadyReportIsTrue` asks for specs whose mirror is
  followed. The flip block is skipped outside the failover scope too, and a plain
  update can then promote under a passive role. The repository does not say what
  is intended there; `GuardHolds` is claimed with the flag on.
- A backup confirmation is keyed by generation (`jetstream_controller.go:676`),
  which a role flip does not move, so it also opens the gate for a later
  demotion; and the gate, opened by an empty stream, may be passed after a second
  flip has let the stream fill again. `NothingLost` holds with one flip, with
  clients that stop publishing under a passive role, without the probe, which
  compares counts, and without deletions; none of these can be left out (see
  `GateProtects` below).
- Finalization without stored state lets the CR go when the server cannot be
  reached (`stream_controller.go:166`): `NoOrphanYet` ends at the first failed
  call.
- A stream deleted for a configuration the server rejects for ever is not seen
  again (`stream_controller.go:414`); `RecreateCompletes` is checked with
  configurations that are accepted once the peer lets go.

## 12. Proofs

For every value of the constants, from the assumptions that the modules declare
on them. No module that is proved about, or that it uses, declares a RECURSIVE
operator. Each proof module begins with the type invariant (one case per
action); each inductive invariant below was checked by TLC on an instance first.

`StreamReconcilerProofs`:

- `PassInvariant`: `PassInv`. Neither `PromoteKeepsMessages` nor `GuardHolds`
  is inductive: they need that the path to the delete is open only to a target
  in mirror form, that an update acts on the configuration it was decided on
  (nobody else writes `server`), that the two-phase promote is entered under a
  role that is not passive, and that finalization runs for marked CRs only.
- `PromoteSafe`: `Spec => PromoteKeepsMessages`.
- `GuardSafe`: `Spec => GuardHolds`, assuming `MirrorRecreate`.
- `FinalizationLeavesNothing`: `Spec => []NoOrphanYet`, assuming neither
  `PreventDelete` nor `ReadOnly`. `DeletionInv` relates the finalizer to the
  stream (there before it, gone after it) and says what a lagging cache can
  still show; it holds until a call fails.
- `StoreImplemented`: `Spec => StoreSpec`. Initial states map to initial states;
  every action is mapped to a step of the store or a stutter, most of them to
  `Decide`. Besides `PassInv` this needs `MappingInv`: whoever has seen a
  deletion mark may rely on it, and the two phases of a promote serve a target
  that is a primary.
- `ReadyIsTrue`: `Spec => []ReadyReportIsTrue`, assuming `FlipsFollowed`
  (`MirrorRecreate`, and specs whose mirror is followed, see section 11).
  `ReportInv` has two halves. `StoredInv`: every copy of the CR, in the API
  server, the cache or a pass, that reports its own generation stores what its
  spec asks for under some role. `PlanInv`: what the running pass has learnt of
  the server. The converged skip is sound because two forms of one followed spec
  that are both mirrors, or both not, are equal (`FormsEqual`).
- `BackupSaves`: `Spec => []NothingLost`, assuming `GateProtects`: the gate on,
  no probe, clients that leave a passive region alone and no cold start passive,
  mirrors that come from the role only, one flip, no deletion of the CR. TLC
  finds `NothingLost` violated as soon as any single one of them is dropped.
  `LossInv` follows the one flip from the namespace to the caches and the pass,
  says that no primary is overwritten before it, and that the gate opens only
  once the role has settled and everything in the stream has a copy (`Saved`).

`KeyValueProofs`: `ReadyIsTrue` (`KVReadyIsTrue`) and `PassiveMirrorKept`
(`KVGuardHolds`), both assuming `MirrorRecreate` - without it the guard and the
flip block are skipped outside the failover scope - while translation is toggled
by restarts; and `KVStoreImplemented` (`StoreSpec`), without hypotheses. Its
`PassInv` is the one of streams with `FormVerified`: from the update's
acknowledgement on, the form the pass reports was read back.

`AccountedResourcesProofs`: `AccountStays` (`AccountOutlivesDependents`) from
`AccountInv`: an account controller about to release has seen, in caches that
follow the API server, that nobody names the account, unless it was `late` or a
call failed; `NothingLeftBehind` (`LeavesNothingBehind`) from `LetGoInv`, which
carries the reason for letting go from the step that finds it to the step that
removes the finalizer; `ReadyAsSpecified` (`ReadyMatchesSpec`) from `ReadyInv`,
which says of every copy of the CR that what it stores is what it reports.

`AccountCredentialsProofs`: `CredentialsTyped` and `WriterAlone` (the lock gives
the file one writer), and `ActsAsItsAccount` (`Spec => []ActsAsNamed`) for any
number of controllers, secrets, edits and faults. `ActsAsNamed` speaks of the
last step of a pass only; `ActsInv` follows what it read to there: as long as
nothing `raced` or was `reread`, what a pass has read is still what the Account
leads to, what the file holds and what it is hashed to (`InStep`), and a pooled
connection acts as the identity it is filed under (`PoolMatches`).

`PoolProofs`, for any number of users and connections. The legacy pool:
`LegacyPoolSafe` (`LegacyNoUseAfterClose`) and `CacheStaysLive` (`CacheIsLive`)
from `PoolInv`, in both modes: the count covers the holders, together with
references that are never returned, so that the last one to return a connection
is the only one, and a connection still being dialed is known to
nobody. The reference-counted pool, which the module instantiates with
constants and variables of its own (`Pool`; `PoolConstants` repeats what
`ConnectionPool` assumes): `PoolSafe` (`Pool!Spec => Pool!NoUseAfterCloseYet`)
from `SharedInv`: until a connection dies, the count covers the holders of the
entry and nobody holds anything but the entry or an unpooled connection. That
second part is what a death breaks.

`AdmissionProofs`: `ConflictsCaused` (`ConflictsHaveCause`) and `DrillHolds`
(`DrillShields`) for any set of names and shapes and any number of requests in
flight, from `AdmissionInv`: a request in flight that was neither judged in a
drill nor `raced` is free of conflicts with what is stored now, and a user's
request that the gate judged takes the CR out of its scope.

`ConfigReloaderProofs`: `NoStorm` (`NoReloadStorm`) from `PaidInv`: signals sent,
a signal that is due, and files whose digest is stale (`Due`) never outnumber the
edits; `FilesFollowed` (`WatchesFollowFiles`), for any number of files and any
queue of events.

`LegacyControllerProofs`: `ReadOnlyHolds` (`ReadOnlyKeepsStreams`),
`PromoteSpares` (`PromoteKeepsStream`) and `CleanupSpares`
(`CleanupSparesKnown`), from `LegacyInv`: a process about to delete holds a copy
that asks for it, one about to re-create a stream a copy that asks for a mirror,
and under read-only no stream's process is about to send any request
(`PathsGuarded`); a clean-up loop that has asked the API server again cleans up
after a CR that is gone, or that is a later incarnation (`ConfirmedGone`).

Model-checked only: the liveness properties, which the provers do not reach
(`Converges`, `RecreateCompletes`, `DeletionCompletes`, `KVConverges`,
`DeletionsEnd`, `SpecErrorsShow`, `SettlesOnAccount`, `NoLeakYet`,
`LegacyNoLeak`, `LegacySettles`, `OrphansCleaned`, `DeletionsFinish`,
`ConfigReaches`). Every safety property of a passing run is proved, some under
the hypotheses named above; the violated one of `admission_finalizer` has its
counterexample.

## 13. Not modelled

- Boot configuration: one read of a node's labels, one file write, the end.
- Generated clients, deep copies, apply configurations; the translation helpers
  exported for other repositories have no state of their own.
- Two overlapping controller processes: the manager has no leader election
  (`cmd/jetstream-controller/main.go:312`), and `PassInvariant` rests on nobody
  else writing the stream during a pass.
- The role watch's mapping from a namespace to its CRs: a pass is always due in
  the models, as it is in the code by the periodic requeue.
- An edit of the name, bucket or account of a CR, which leaves the object of the
  earlier spec behind: one object per CR is modelled.
- Sources of streams, token and user overlays, `Stop` and the parsing of include
  lines in the reloader, logging, wording of conditions, and the fields that the
  reconcilers copy without looking.

## 14. Next

Theorems under weaker hypotheses: `NothingLost` with the probe, for a peer that is
known to hold the same messages; `NoOrphanYet` beyond the first failed call, for
CRs with stored state; `NoUseAfterCloseYet` for connections that were not
replaced.
