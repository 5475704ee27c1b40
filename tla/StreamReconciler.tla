-------------------------- MODULE StreamReconciler --------------------------
(***************************************************************************)
(* The Stream reconciler of internal/controller/stream_controller.go, for *)
(* one Stream CR: the Kubernetes objects it reads through lagging informer*)
(* caches and writes under optimistic locking, the NATS stream it creates,*)
(* updates, promotes in place, or deletes and re-creates, and the peer    *)
(* region and backup operator it cooperates with.                          *)
(*                                                                         *)
(* One reconcile pass is a sequence of API calls; each call is one action *)
(* here, so spec edits, role flips, publishes, replication, faults and    *)
(* restarts interleave between any two of them.  pc names the next call.  *)
(***************************************************************************)
EXTENDS RoleTranslation, FiniteSets

CONSTANTS
    MirrorRecreate,   \* --mirror-recreate-on-conflict
    RequireBackup,    \* --require-backup-confirmation
    ProbeConfigured,  \* --cross-region-nats-url is set
    ReadOnly,         \* --read-only
    PreventUpdate,    \* spec.preventUpdate
    PreventDelete,    \* spec.preventDelete
    OneShotPromote,   \* the server drops a mirror and adds subjects at once
    QuiescePassive,   \* clients stop publishing here under a passive role
    SpecForms,        \* the specs users write
    Malformed,        \* contents of specs that streamSpecToConfig refuses
    Msgs,             \* message identities
    MaxGen,           \* bound: metadata.generation
    MaxFlips,         \* bound: changes of the namespace's role
    MaxFaults,        \* bound: failed API calls
    MaxCrashes,       \* bound: controller restarts
    MaxDeletes        \* bound: requests to delete the CR (0 or 1)

Vers == 1..3
Specs == [mirror: SpecMirrors, subjects: BOOLEAN, ver: Vers]

ASSUME FlagsAssumption ==
    {MirrorRecreate, RequireBackup, ProbeConfigured, ReadOnly, PreventUpdate,
     PreventDelete, OneShotPromote, QuiescePassive} \subseteq BOOLEAN
ASSUME SpecFormsAssumption ==
    SpecForms \subseteq Specs /\ SpecForms # {} /\ Malformed \subseteq Vers
ASSUME MsgsAssumption == IsFiniteSet(Msgs)
ASSUME BoundsAssumption ==
    /\ MaxGen \in Nat \ {0}
    /\ MaxFlips \in Nat /\ MaxFaults \in Nat
    /\ MaxCrashes \in Nat /\ MaxDeletes \in Nat

VARIABLES
    cr,         \* the Stream CR in the API server
    crCache,    \* the informer's copy of it
    role,       \* drp.cicada.io/local-role of the CR's namespace
    roleCache,  \* the informer's copy of it
    server,     \* configuration of the NATS stream, NoConfig when it is absent
    msgs,       \* messages the NATS stream holds
    peer,       \* messages the peer region's stream of the same name holds
    sourceOwns, \* the peer region still claims the stream's subjects
    backup,     \* messages the backup operator has captured
    backupGen,  \* generation it last captured them for, 0 when none
    sent,       \* every message ever accepted by either region
    left,       \* events the environment may still inject
    pc,         \* the reconciler's next API call
    obj,        \* the CR as the running pass holds it
    seenRole,   \* the role the pass read
    eff,        \* the effective spec of the pass
    srv,        \* serverState
    promote,    \* mustPromoteInPlace
    count,      \* message count the backup gate read
    updated,    \* updatedStream's configuration, NoConfig when nil
    verdict     \* what the pass reports in its last status update

k8sVars == <<cr, crCache, role, roleCache>>
natsVars == <<server, msgs, peer, sourceOwns, sent>>
backupVars == <<backup, backupGen>>
localVars == <<obj, seenRole, eff, srv, promote, count, updated, verdict>>
vars == <<k8sVars, natsVars, backupVars, left, pc, localVars>>

NoConfig == [mirror |-> "none", subjects |-> FALSE, ver |-> 0]
Configs == [mirror: Mirrors, subjects: BOOLEAN, ver: Vers] \cup {NoConfig}

ReadyStates == {"absent", "Reconciling", "Ready", "Errored",
                "WaitingForBackup", "Finalizing"}
Verdicts == {"RoleUnknown", "Errored", "Guarded", "WaitingForBackup", "Ready"}
PCs == {"idle", "initStatus", "addFinalizer", "readRole", "load", "gate",
        "probe", "delete", "create", "unmirror", "reload", "update", "verify",
        "persist", "status", "finalStatus", "finalLoad", "finalDelete",
        "removeFinalizer"}

CRs == [present: BOOLEAN, gen: Nat, spec: Specs, finalizer: BOOLEAN,
        deleting: BOOLEAN, stored: Configs, confirmed: Nat, observed: Nat,
        ready: ReadyStates, backupRequired: BOOLEAN, translated: BOOLEAN]

NewCR(spec) ==
    [present |-> TRUE, gen |-> 1, spec |-> spec, finalizer |-> FALSE,
     deleting |-> FALSE, stored |-> NoConfig, confirmed |-> 0, observed |-> 0,
     ready |-> "absent", backupRequired |-> FALSE, translated |-> FALSE]

NoCR == NewCR([mirror |-> "none", subjects |-> FALSE, ver |-> 1])

Init ==
    /\ \E s \in SpecForms : cr = NewCR(s)
    /\ crCache = cr /\ obj = NoCR /\ eff = NoCR.spec
    /\ role \in Roles /\ roleCache = role /\ seenRole = "unset"
    /\ server = NoConfig /\ srv = NoConfig /\ updated = NoConfig
    /\ msgs = {} /\ peer = {} /\ backup = {} /\ sent = {}
    /\ backupGen = 0 /\ count = 0
    /\ sourceOwns \in BOOLEAN
    /\ left = [flip |-> MaxFlips, fault |-> MaxFaults,
               crash |-> MaxCrashes, delete |-> MaxDeletes]
    /\ pc = "idle" /\ promote = FALSE /\ verdict = "Errored"
-----------------------------------------------------------------------------
(* Plumbing of a pass. *)

\* A pass that ends drops its locals.
EndPass ==
    /\ pc' = "idle"
    /\ obj' = NoCR /\ eff' = NoCR.spec /\ seenRole' = "unset"
    /\ srv' = NoConfig /\ promote' = FALSE /\ count' = 0
    /\ updated' = NoConfig /\ verdict' = "Errored"

\* A pass that stops with verdict v goes on to its last status update.
Report(v) == pc' = "status" /\ verdict' = v

\* One injected failure: a timeout, a refused connection, an API error.
CallFails ==
    /\ left.fault > 0
    /\ left' = [left EXCEPT !.fault = @ - 1]

\* A write of the CR succeeds only from the latest resourceVersion.
Write(new) == obj = cr /\ cr' = new /\ UNCHANGED <<crCache, role, roleCache>>

WriteFails ==
    /\ (obj # cr /\ UNCHANGED left) \/ CallFails
    /\ UNCHANGED k8sVars
-----------------------------------------------------------------------------
(* Reconcile: dispatch on the cached CR. *)

\* A CR marked for deletion and already finalized is ignored.
ReadCR ==
    /\ pc = "idle"
    /\ crCache.present
    /\ crCache.ready = "absent" \/ (crCache.deleting => crCache.finalizer)
    /\ obj' = crCache
    /\ pc' = IF crCache.ready = "absent" THEN "initStatus"
             ELSE IF crCache.deleting THEN "finalStatus"
             ELSE IF crCache.finalizer THEN "readRole" ELSE "addFinalizer"
    /\ UNCHANGED <<k8sVars, natsVars, backupVars, left, seenRole, eff, srv,
                   promote, count, updated, verdict>>

InitStatus ==
    /\ pc = "initStatus"
    /\ \/ Write([cr EXCEPT !.ready = "Reconciling"]) /\ UNCHANGED left
       \/ WriteFails
    /\ EndPass
    /\ UNCHANGED <<natsVars, backupVars>>

\* Adding a finalizer to an object being deleted is refused by the API server.
AddFinalizer ==
    /\ pc = "addFinalizer"
    /\ \/ Write([cr EXCEPT !.finalizer = TRUE]) /\ UNCHANGED left
       \/ WriteFails
    /\ EndPass
    /\ UNCHANGED <<natsVars, backupVars>>

\* A pass whose namespace read fails reports the error, and leaves the
\* translated condition as it was.
RoleReadFails ==
    /\ pc = "readRole"
    /\ CallFails
    /\ Report("RoleUnknown")
    /\ UNCHANGED <<k8sVars, natsVars, backupVars, obj, seenRole, eff, srv,
                   promote, count, updated>>

ReadRole ==
    /\ pc = "readRole"
    /\ seenRole' = roleCache
    /\ eff' = EffectiveSpec(roleCache, obj.spec)
    /\ pc' = "load"
    /\ UNCHANGED <<k8sVars, natsVars, backupVars, left, obj, srv, promote,
                   count, updated, verdict>>
-----------------------------------------------------------------------------
(* createOrUpdate: read the server, decide. *)

\* Whether the flip block of createOrUpdate is entered for server state s.
FlipWanted(s) ==
    /\ s # NoConfig /\ ~PreventUpdate /\ ~ReadOnly
    /\ ConvertActive(seenRole, s, eff) \/ (MirrorRecreate /\ MirrorFlipped(s, eff))

\* Mutant: the proactive B1 guard is missing.
GuardedNever(s) == FlipWanted(s) /\ FALSE

Guarded(s) == FlipWanted(s) /\ WouldDemote(seenRole, s, eff)

MustPromote(s) == FlipWanted(s) /\ ~Guarded(s) /\ MirrorToPrimaryFlip(s, eff)

\* Mutant: both directions of a flip delete and re-create.
MustRecreateAnyFlip(s) == FlipWanted(s) /\ ~Guarded(s)

MustRecreate(s) == FlipWanted(s) /\ ~Guarded(s) /\ ~MirrorToPrimaryFlip(s, eff)

\* Nothing to do: the stored state is the server's and this generation was
\* already reported Ready.
ConvergedSkip(s) ==
    /\ ~MustPromote(s)
    /\ obj.stored # NoConfig /\ s # NoConfig
    /\ obj.observed = obj.gen
    /\ obj.stored = s

\* The pass may write: not read-only, and not an update preventUpdate refuses.
MayApply(s) == ~ReadOnly /\ (s = NoConfig \/ ~PreventUpdate)

LoadCommon ==
    /\ pc = "load" /\ eff.ver \notin Malformed
    /\ srv' = server
    /\ UNCHANGED <<k8sVars, natsVars, backupVars, left, obj, seenRole, eff,
                   count, updated>>

LoadGuarded ==
    /\ LoadCommon
    /\ Guarded(server)
    /\ Report("Guarded")
    /\ UNCHANGED promote

\* Mutant: the proactive recreate does not consult the backup gate.
LoadFlippedUngated ==
    /\ LoadCommon
    /\ MustRecreate(server)
    /\ pc' = "delete"
    /\ UNCHANGED <<promote, verdict>>

LoadFlipped ==
    /\ LoadCommon
    /\ MustRecreate(server)
    /\ pc' = IF RequireBackup THEN "gate" ELSE "delete"
    /\ UNCHANGED <<promote, verdict>>

LoadConverged ==
    /\ LoadCommon
    /\ ~Guarded(server) /\ ~MustRecreate(server)
    /\ ConvergedSkip(server) \/ ~MayApply(server)
    /\ Report("Ready")
    /\ UNCHANGED promote

\* Go on to create, or to update in one or, for a promote that adds
\* subjects, in two calls.
LoadApply ==
    /\ LoadCommon
    /\ ~Guarded(server) /\ ~MustRecreate(server)
    /\ ~ConvergedSkip(server) /\ MayApply(server)
    /\ promote' = MustPromote(server)
    /\ pc' = IF server = NoConfig THEN "create"
             ELSE IF MustPromote(server) /\ eff.subjects THEN "unmirror"
             ELSE "update"
    /\ UNCHANGED verdict

\* The connection or the read of the server's state fails, or the spec, which
\* is mapped to a configuration next, does not parse.
LoadFails ==
    /\ pc = "load"
    /\ CallFails \/ (eff.ver \in Malformed /\ UNCHANGED left)
    /\ Report("Errored")
    /\ UNCHANGED <<k8sVars, natsVars, backupVars, obj, seenRole, eff, srv,
                   promote, count, updated>>
-----------------------------------------------------------------------------
(* streamBackupGate, and the destructive recreate it protects. *)

GateCommon ==
    UNCHANGED <<k8sVars, natsVars, backupVars, obj, seenRole, eff, srv,
                promote, updated>>

\* Mutant: a confirmation does not open the gate.
GateLocalUnconfirmed ==
    /\ pc = "gate"
    /\ count' = Cardinality(msgs)
    /\ IF msgs = {} THEN pc' = "delete" /\ UNCHANGED verdict
       ELSE IF ProbeConfigured THEN pc' = "probe" /\ UNCHANGED verdict
       ELSE Report("WaitingForBackup")
    /\ GateCommon /\ UNCHANGED left

\* Reads the local count; a stream with no messages, or a confirmation for
\* this generation, opens the gate.
GateLocal ==
    /\ pc = "gate"
    /\ count' = Cardinality(msgs)
    /\ \/ /\ msgs = {} \/ obj.confirmed = obj.gen
          /\ pc' = "delete"
          /\ UNCHANGED verdict
       \/ /\ msgs # {} /\ obj.confirmed # obj.gen
          /\ \/ ProbeConfigured /\ pc' = "probe" /\ UNCHANGED verdict
             \/ ~ProbeConfigured /\ Report("WaitingForBackup")
    /\ GateCommon /\ UNCHANGED left

GateFails ==
    /\ pc = "gate"
    /\ CallFails
    /\ Report("Errored")
    /\ GateCommon /\ UNCHANGED count

\* The peer's count is compared with the local one; an unreachable peer
\* keeps the gate shut.
GateProbe ==
    /\ pc = "probe"
    /\ \/ /\ Cardinality(peer) >= count
          /\ pc' = "delete" /\ UNCHANGED <<left, verdict>>
       \/ /\ Cardinality(peer) < count
          /\ Report("WaitingForBackup") /\ UNCHANGED left
       \/ CallFails /\ Report("WaitingForBackup")
    /\ GateCommon /\ UNCHANGED count

\* DeleteStream for a recreate: deleted, deleted with the reply lost, or failed.
RecreateDelete ==
    /\ pc = "delete"
    /\ \/ /\ server' = NoConfig /\ msgs' = {} /\ srv' = NoConfig
          /\ \/ pc' = "create" /\ UNCHANGED <<left, verdict>>
             \/ CallFails /\ Report("Errored")
       \/ CallFails /\ Report("Errored") /\ UNCHANGED <<server, msgs, srv>>
    /\ UNCHANGED <<k8sVars, peer, sourceOwns, sent, backupVars, obj, seenRole,
                   eff, promote, count, updated>>
-----------------------------------------------------------------------------
(* The NATS server's answers to NewStream and UpdateConfiguration. *)

CreateReply(target) ==
    IF IsMirror(target) /\ target.subjects THEN "incompatible"
    ELSE IF target.subjects /\ sourceOwns THEN "overlap"
    ELSE "ok"

UpdateReply(current, target) ==
    IF current = NoConfig THEN "notFound"
    ELSE IF IsMirror(target) /\ (target.subjects \/ target.mirror # current.mirror)
      THEN "incompatible"
    ELSE IF MirrorToPrimaryFlip(current, target) /\ target.subjects /\ ~OneShotPromote
      THEN "incompatible"
    ELSE IF target.subjects /\ ~current.subjects /\ sourceOwns THEN "overlap"
    ELSE "ok"

Unmirrored(c) == [mirror |-> "none", subjects |-> FALSE, ver |-> c.ver]
-----------------------------------------------------------------------------
(* createOrUpdate: apply. *)

CallCommon ==
    UNCHANGED <<k8sVars, msgs, peer, sourceOwns, sent, backupVars, obj,
                seenRole, eff, promote, count>>

\* NewStream: created, created with the reply lost, rejected, or failed.
Create ==
    /\ pc = "create"
    /\ \/ /\ CreateReply(eff) = "ok"
          /\ server' = eff
          /\ \/ pc' = "persist" /\ updated' = eff /\ UNCHANGED <<left, verdict>>
             \/ CallFails /\ Report("Errored") /\ UNCHANGED updated
       \/ /\ CreateReply(eff) # "ok"
          /\ Report("Errored") /\ UNCHANGED <<server, updated, left>>
       \/ CallFails /\ Report("Errored") /\ UNCHANGED <<server, updated>>
    /\ CallCommon /\ UNCHANGED srv

\* Phase 1 of a promote; an acknowledged un-mirror may leave the mirror set.
Unmirror ==
    /\ pc = "unmirror"
    /\ \/ /\ server # NoConfig
          /\ server' = Unmirrored(srv)
          /\ \/ pc' = "reload" /\ UNCHANGED <<left, verdict>>
             \/ CallFails /\ Report("Errored")
       \/ /\ UNCHANGED server
          /\ \/ CallFails /\ Report("Errored")
             \/ CallFails /\ server # NoConfig /\ pc' = "reload" /\ UNCHANGED verdict
             \/ server = NoConfig /\ Report("Errored") /\ UNCHANGED left
    /\ CallCommon /\ UNCHANGED <<srv, updated>>

\* Re-read of the server between the two phases.
Reload ==
    /\ pc = "reload"
    /\ \/ /\ server # NoConfig
          /\ srv' = server /\ pc' = "update" /\ UNCHANGED <<left, verdict>>
       \/ server = NoConfig /\ Report("Errored") /\ UNCHANGED <<srv, left>>
       \/ CallFails /\ Report("Errored") /\ UNCHANGED srv
    /\ CallCommon /\ UNCHANGED <<server, updated>>

\* UpdateConfiguration accepted; the update may be lost on its way in or its
\* reply on the way out, or it may be acknowledged with the mirror kept.
UpdateAccepted ==
    /\ pc = "update"
    /\ UpdateReply(server, eff) = "ok"
    /\ \/ server' = eff /\ pc' = "verify" /\ UNCHANGED <<left, verdict>>
       \/ server' = eff /\ CallFails /\ Report("Errored")
       \/ UNCHANGED server /\ CallFails /\ Report("Errored")
       \/ /\ MirrorToPrimaryFlip(server, eff)
          /\ CallFails
          /\ pc' = "verify" /\ UNCHANGED <<server, verdict>>
    /\ CallCommon /\ UNCHANGED <<srv, updated>>

\* A rejection recreates only when it is a mirror incompatibility, the flag
\* is on, and serverState is not a mirror about to become a primary.  The
\* second B1 guard the code has on this path asks for the flip this condition
\* has just excluded, so it never stops anything and is no disjunct here.
ReactiveRecreate ==
    /\ MirrorRecreate
    /\ UpdateReply(server, eff) = "incompatible"
    /\ ~MirrorToPrimaryFlip(srv, eff)

UpdateRejected ==
    /\ pc = "update"
    /\ UpdateReply(server, eff) # "ok"
    /\ \/ /\ ReactiveRecreate
          /\ pc' = IF RequireBackup THEN "gate" ELSE "delete"
          /\ UNCHANGED verdict
       \/ ~ReactiveRecreate /\ Report("Errored")
    /\ CallCommon /\ UNCHANGED <<server, srv, updated, left>>

\* The post-update re-read: a promote that left the mirror is an error.
Verify ==
    /\ pc = "verify"
    /\ \/ /\ server # NoConfig /\ ~(promote /\ IsMirror(server))
          /\ pc' = "persist" /\ updated' = server /\ UNCHANGED <<left, verdict>>
       \/ /\ server = NoConfig \/ (promote /\ IsMirror(server))
          /\ Report("Errored") /\ UNCHANGED <<updated, left>>
       \/ CallFails /\ Report("Errored") /\ UNCHANGED updated
    /\ CallCommon /\ UNCHANGED <<server, srv>>

\* The state annotation is written while the NATS change has already landed.
Persist ==
    /\ pc = "persist"
    /\ \/ /\ Write([cr EXCEPT !.stored = updated])
          /\ obj' = cr'
          /\ Report("Ready") /\ UNCHANGED left
       \/ /\ WriteFails
          /\ Report("Errored") /\ UNCHANGED obj
    /\ UNCHANGED <<natsVars, backupVars, seenRole, eff, srv, promote, count, updated>>

\* Mutant: the verdict is written as it is.
StatusOfVerbatim(c, v) ==
    [c EXCEPT !.ready = v, !.translated = TranslatePassive(seenRole),
              !.observed = IF v = "Ready" THEN c.gen ELSE @]

\* Mutant: a blocked pass also bumps observedGeneration.
StatusOfBumping(c, v) ==
    [c EXCEPT
        !.translated = TranslatePassive(seenRole),
        !.ready = IF v \in {"RoleUnknown", "Guarded"} THEN "Errored" ELSE v,
        !.backupRequired = (v = "WaitingForBackup"),
        !.observed = c.gen]

\* The status a pass that ends with v writes over CR c.
StatusOf(c, v) ==
    [c EXCEPT
        !.translated = IF v = "RoleUnknown" THEN @ ELSE TranslatePassive(seenRole),
        !.ready = IF v \in {"RoleUnknown", "Guarded"} THEN "Errored" ELSE v,
        !.backupRequired = IF v = "WaitingForBackup" THEN TRUE
                           ELSE IF v = "Ready" THEN FALSE ELSE @,
        !.observed = IF v = "Ready" THEN c.gen ELSE @]

WriteStatus ==
    /\ pc = "status"
    /\ \/ Write(StatusOf(cr, verdict)) /\ UNCHANGED left
       \/ WriteFails
    /\ EndPass
    /\ UNCHANGED <<natsVars, backupVars>>
-----------------------------------------------------------------------------
(* deleteStream: finalization of a CR marked for deletion. *)

FinalizeStatus ==
    /\ pc = "finalStatus"
    /\ \/ /\ Write([cr EXCEPT !.ready = "Finalizing"])
          /\ obj' = cr'
          /\ pc' = IF PreventDelete \/ ReadOnly THEN "removeFinalizer" ELSE "finalLoad"
          /\ UNCHANGED <<left, seenRole, eff, srv, promote, count, updated, verdict>>
       \/ WriteFails /\ EndPass
    /\ UNCHANGED <<natsVars, backupVars>>

\* Mutant: a CR with no stored state is finalized without looking.
FinalizeLoadTrusting ==
    /\ pc = "finalLoad"
    /\ pc' = IF obj.stored = NoConfig THEN "removeFinalizer" ELSE "finalDelete"
    /\ UNCHANGED <<k8sVars, natsVars, backupVars, left, localVars>>

\* A failed connection or read lets a CR with no stored state go; with stored
\* state a failed connection is retried and a failed read is ignored.
FinalizeLoad ==
    /\ pc = "finalLoad"
    /\ \/ /\ pc' = "finalDelete" /\ UNCHANGED <<left, localVars>>
       \/ /\ CallFails
          /\ \/ /\ obj.stored = NoConfig
                /\ pc' = "removeFinalizer" /\ UNCHANGED localVars
             \/ /\ obj.stored # NoConfig
                /\ EndPass \/ (pc' = "finalDelete" /\ UNCHANGED localVars)
    /\ UNCHANGED <<k8sVars, natsVars, backupVars>>

\* Mutant: a stream that is already absent counts as a failed deletion.
FinalizeDeleteStrict ==
    /\ pc = "finalDelete"
    /\ \/ /\ server # NoConfig
          /\ server' = NoConfig /\ msgs' = {}
          /\ pc' = "removeFinalizer" /\ UNCHANGED localVars
       \/ server = NoConfig /\ EndPass /\ UNCHANGED <<server, msgs>>
    /\ UNCHANGED <<k8sVars, left, peer, sourceOwns, sent, backupVars>>

FinalizeDelete ==
    /\ pc = "finalDelete"
    /\ \/ /\ server' = NoConfig /\ msgs' = {}
          /\ pc' = "removeFinalizer" /\ UNCHANGED <<left, localVars>>
       \/ /\ CallFails
          /\ \/ server' = NoConfig /\ msgs' = {}
             \/ UNCHANGED <<server, msgs>>
          /\ \/ /\ obj.stored = NoConfig
                /\ pc' = "removeFinalizer" /\ UNCHANGED localVars
             \/ obj.stored # NoConfig /\ EndPass
    /\ UNCHANGED <<k8sVars, peer, sourceOwns, sent, backupVars>>

\* Once its last finalizer is removed, a CR marked for deletion is gone.
RemoveFinalizer ==
    /\ pc = "removeFinalizer"
    /\ \/ /\ Write([cr EXCEPT !.present = FALSE, !.finalizer = FALSE])
          /\ UNCHANGED left
       \/ WriteFails
    /\ EndPass
    /\ UNCHANGED <<natsVars, backupVars>>
-----------------------------------------------------------------------------
(* The environment: informers, users, clients, the peer region, the backup *)
(* operator, restarts.                                                     *)

SyncCR ==
    /\ crCache # cr /\ crCache' = cr
    /\ UNCHANGED <<cr, role, roleCache, natsVars, backupVars, left, pc, localVars>>

SyncRole ==
    /\ roleCache # role /\ roleCache' = role
    /\ UNCHANGED <<cr, crCache, role, natsVars, backupVars, left, pc, localVars>>

EditSpec ==
    /\ cr.present /\ ~cr.deleting /\ cr.gen < MaxGen
    /\ \E s \in SpecForms \ {cr.spec} :
           cr' = [cr EXCEPT !.spec = s, !.gen = @ + 1]
    /\ UNCHANGED <<crCache, role, roleCache, natsVars, backupVars, left, pc, localVars>>

MarkDeleted ==
    /\ cr.present /\ ~cr.deleting /\ left.delete > 0
    /\ cr' = [cr EXCEPT !.deleting = TRUE, !.present = cr.finalizer]
    /\ left' = [left EXCEPT !.delete = @ - 1]
    /\ UNCHANGED <<crCache, role, roleCache, natsVars, backupVars, pc, localVars>>

FlipRole ==
    /\ left.flip > 0
    /\ role' \in Roles \ {role}
    /\ left' = [left EXCEPT !.flip = @ - 1]
    /\ UNCHANGED <<cr, crCache, roleCache, natsVars, backupVars, pc, localVars>>

Publish ==
    /\ server.subjects
    /\ QuiescePassive => role # "passive"
    /\ \E m \in Msgs \ sent : msgs' = msgs \cup {m} /\ sent' = sent \cup {m}
    /\ UNCHANGED <<k8sVars, server, peer, sourceOwns, backupVars, left, pc, localVars>>

PeerPublish ==
    /\ sourceOwns
    /\ \E m \in Msgs \ sent : peer' = peer \cup {m} /\ sent' = sent \cup {m}
    /\ UNCHANGED <<k8sVars, server, msgs, sourceOwns, backupVars, left, pc, localVars>>

\* Our stream mirrors the peer's.
Replicate ==
    /\ IsMirror(server)
    /\ \E m \in peer \ msgs : msgs' = msgs \cup {m}
    /\ UNCHANGED <<k8sVars, server, peer, sourceOwns, sent, backupVars, left, pc, localVars>>

\* The peer's stream mirrors ours.
PeerReplicate ==
    /\ ~sourceOwns /\ server # NoConfig /\ ~IsMirror(server)
    /\ \E m \in msgs \ peer : peer' = peer \cup {m}
    /\ UNCHANGED <<k8sVars, server, msgs, sourceOwns, sent, backupVars, left, pc, localVars>>

\* The peer region gives its subjects up when this one is no longer passive,
\* and takes them once this one is passive and has let them go.
SourceReleases ==
    /\ sourceOwns /\ role # "passive" /\ sourceOwns' = FALSE
    /\ UNCHANGED <<k8sVars, server, msgs, peer, sent, backupVars, left, pc, localVars>>

SourceClaims ==
    /\ ~sourceOwns /\ role = "passive" /\ ~server.subjects /\ sourceOwns' = TRUE
    /\ UNCHANGED <<k8sVars, server, msgs, peer, sent, backupVars, left, pc, localVars>>

\* The backup operator reacts to BackupRequired: it captures the stream ...
TakeBackup ==
    /\ cr.present /\ cr.backupRequired /\ cr.confirmed # cr.gen
    /\ backup' = backup \cup msgs /\ backupGen' = cr.gen
    /\ UNCHANGED <<k8sVars, natsVars, left, pc, localVars>>

\* ... and then annotates the CR with the generation it captured.
ConfirmBackup ==
    /\ cr.present /\ backupGen > 0 /\ cr.confirmed # backupGen
    /\ cr' = [cr EXCEPT !.confirmed = backupGen]
    /\ UNCHANGED <<crCache, role, roleCache, natsVars, backupVars, left, pc, localVars>>

\* A restart loses the pass and re-lists both informers.
Restart ==
    /\ pc # "idle" /\ left.crash > 0
    /\ left' = [left EXCEPT !.crash = @ - 1]
    /\ crCache' = cr /\ roleCache' = role /\ UNCHANGED <<cr, role>>
    /\ EndPass
    /\ UNCHANGED <<natsVars, backupVars>>
-----------------------------------------------------------------------------
Reconcile ==
    \/ ReadCR \/ InitStatus \/ AddFinalizer \/ RoleReadFails \/ ReadRole
    \/ LoadGuarded \/ LoadFlipped \/ LoadConverged \/ LoadApply \/ LoadFails
    \/ GateLocal \/ GateFails \/ GateProbe \/ RecreateDelete
    \/ Create \/ Unmirror \/ Reload \/ UpdateAccepted \/ UpdateRejected
    \/ Verify \/ Persist \/ WriteStatus
    \/ FinalizeStatus \/ FinalizeLoad \/ FinalizeDelete \/ RemoveFinalizer

Environment ==
    \/ SyncCR \/ SyncRole \/ EditSpec \/ MarkDeleted \/ FlipRole
    \/ Publish \/ PeerPublish \/ Replicate \/ PeerReplicate
    \/ SourceReleases \/ SourceClaims \/ TakeBackup \/ ConfirmBackup \/ Restart

Next == Reconcile \/ Environment

Spec == Init /\ [][Next]_vars

\* The workqueue always runs the CR again (Requeue, RequeueAfter, or back-off
\* after an error), informers deliver, the peer region and the backup operator
\* do their part.  Users, faults, clients and restarts are under no obligation.
Fairness ==
    /\ WF_vars(Reconcile) /\ WF_vars(SyncCR) /\ WF_vars(SyncRole)
    /\ WF_vars(SourceReleases) /\ WF_vars(TakeBackup) /\ WF_vars(ConfirmBackup)

FairSpec == Spec /\ Fairness
-----------------------------------------------------------------------------
(* Properties. *)

TypeOK ==
    /\ cr \in CRs /\ crCache \in CRs /\ obj \in CRs
    /\ role \in Roles /\ roleCache \in Roles /\ seenRole \in Roles
    /\ server \in Configs /\ srv \in Configs /\ updated \in Configs
    /\ eff \in Configs \ {NoConfig}
    /\ msgs \subseteq Msgs /\ peer \subseteq Msgs /\ backup \subseteq Msgs
    /\ sent \subseteq Msgs
    /\ sourceOwns \in BOOLEAN /\ promote \in BOOLEAN
    /\ backupGen \in Nat /\ count \in Nat
    /\ left \in [flip: Nat, fault: Nat, crash: Nat, delete: Nat]
    /\ pc \in PCs /\ verdict \in Verdicts

\* A message leaves the server stream only by finalization of the CR or by a
\* recreate towards a mirror: the promote of createOrUpdate, however its two
\* phases, faults and retries interleave, keeps every replicated message.
PromoteKeepsMessages ==
    [][msgs \subseteq msgs' \/ obj.deleting \/ IsMirror(eff)]_vars

\* A pass about to report Ready has the server in exactly the effective form
\* it computed from the role it read, also when the converged skip, a retried
\* promote or an earlier pass's stored state spared it the update.
\* It needs --mirror-recreate-on-conflict, and specs whose mirror is followed:
\* otherwise the converged skip of a pass whose role has flipped since the last
\* report is taken for a server that runs the form of the other role.
ReadyReportIsTrue ==
    (pc = "status" /\ verdict = "Ready" /\ ~ReadOnly /\ ~PreventUpdate)
        => server = eff

\* The B1 guard of passive_role.go, with --mirror-recreate-on-conflict on: no
\* sequence of spec edits, role flips and retries makes a pass that read a
\* passive role turn a mirror into anything but a mirror.
GuardHolds ==
    [][(IsMirror(server) /\ ~IsMirror(server') /\ seenRole = "passive")
        => IsMirror(eff) \/ obj.deleting]_vars

\* Between the read of the role and its last status update a pass works towards
\* the form of its effective spec.
Applying ==
    pc \in {"load", "gate", "probe", "delete", "create", "unmirror", "reload",
           "update", "verify", "persist", "status"}

FormOf(c) ==
    IF c = NoConfig THEN "absent" ELSE IF IsMirror(c) THEN "mirror" ELSE "primary"

\* The stream is a ReplicatedStore: the two phases of a promote keep its
\* messages, a primary never becomes a mirror in place, and nothing is
\* destroyed but towards a mirror or on deletion of the CR.
Store == INSTANCE ReplicatedStore WITH
    Data <- Msgs, data <- msgs, form <- FormOf(server), deleting <- cr.deleting,
    want <- IF Applying THEN FormOf(eff) ELSE "none"
StoreSpec == Store!Spec

\* What the backup gate is for: every message ever accepted is still in the
\* stream, in the peer region, or in a backup.  It needs clients that leave a
\* passive region alone, and a role that flips once.
NothingLost == sent \subseteq msgs \cup peer \cup backup

\* The server runs the effective spec of the CR and the role as they now are,
\* and the status says so.
Converged ==
    cr.present =>
        /\ server = EffectiveSpec(role, cr.spec)
        /\ cr.ready = "Ready" /\ cr.observed = cr.gen
        /\ cr.translated = TranslatePassive(role) /\ ~cr.backupRequired

\* Once edits, flips and faults stop, the periodic reconcile converges and
\* stays converged.
Converges == <>[]Converged

\* A stream that existed, and that createOrUpdate has deleted to re-create,
\* comes to exist again, unless the CR is deleted: the recreate's delete is
\* never the last word.
RecreateCompletes ==
    (pc = "create" /\ cr.stored # NoConfig) ~> (server # NoConfig \/ cr.deleting)

\* A CR is gone only after its stream, for as long as no call has failed.
NoOrphanYet == (~cr.present /\ left.fault = MaxFaults) => server = NoConfig

\* A CR marked for deletion is eventually let go.
DeletionCompletes == cr.deleting ~> ~cr.present
=============================================================================
