------------------------- MODULE KeyValueReconciler -------------------------
(***************************************************************************)
(* The KeyValue reconciler of internal/controller/keyvalue_controller.go, *)
(* for one KeyValue CR and the bucket (a stream KV_<bucket>) it manages.  *)
(* It takes the decisions of RoleTranslation as the Stream reconciler     *)
(* does, but promotes with one UpdateKeyValue that drops the mirror and   *)
(* claims the bucket's subjects together, and stores in its annotation a  *)
(* state it reads back from the server.  A restart may bring the process  *)
(* back with --enable-passive-role-translation changed.                    *)
(*                                                                         *)
(* Specs and configurations are RoleTranslation's records; a KeyValue spec*)
(* has no subjects, and ver 0 stands for a spec that does not parse.       *)
(***************************************************************************)
EXTENDS Naturals, FiniteSets

CONSTANTS
    RemoteDomainSet, ColdStartPassive, ScopeLabeled, \* as in RoleTranslation
    MirrorRecreate,   \* --mirror-recreate-on-conflict
    RequireBackup,    \* --require-backup-confirmation
    ReadOnly, PreventUpdate, PreventDelete,
    OneShotPromote,   \* the server drops a mirror and adds subjects at once
    Recognised,       \* whether IsNatsErr may see 10055 in the client's error
    SpecForms,        \* the specs users write
    Keys,             \* identities of key updates
    RoleValues,       \* the roles the annotation takes
    MaxDisturbances   \* bound: edits, deletions, role flips, restarts and
                      \* failed calls, taken together

VARIABLES
    enabled,    \* --enable-passive-role-translation of the running process
    cr, crCache, role, roleCache,
    server,     \* configuration of the bucket's stream, NoConfig when absent
    keys,       \* key updates the bucket holds
    peer,       \* key updates the peer region's bucket holds
    sourceOwns, \* another stream still claims the bucket's subjects
    left,       \* disturbances still to come
    pc,         \* the pass's next call
    obj, seenRole, eff, srv, promote, verdict \* locals of the pass

RT == INSTANCE RoleTranslation WITH TranslationEnabled <- enabled

k8sVars == <<cr, crCache, role, roleCache>>
natsVars == <<server, keys, peer, sourceOwns>>
localVars == <<obj, seenRole, eff, srv, promote, verdict>>
vars == <<enabled, k8sVars, natsVars, left, pc, localVars>>

NoConfig == [mirror |-> "none", subjects |-> FALSE, ver |-> 0]
Specs == [mirror: RT!SpecMirrors, subjects: {FALSE}, ver: 0..1]
NoSpec == [mirror |-> "none", subjects |-> FALSE, ver |-> 1]

ASSUME KeyValueAssumption ==
    /\ SpecForms \subseteq Specs /\ SpecForms # {}
    /\ IsFiniteSet(Keys) /\ Recognised \subseteq BOOLEAN
    /\ {RemoteDomainSet, ColdStartPassive, ScopeLabeled, MirrorRecreate,
        RequireBackup, ReadOnly, PreventUpdate, PreventDelete,
        OneShotPromote} \subseteq BOOLEAN
    /\ RoleValues \subseteq RT!Roles /\ MaxDisturbances \in Nat

NewCR(spec) ==
    [present |-> TRUE, gen |-> 1, spec |-> spec, finalizer |-> FALSE,
     deleting |-> FALSE, stored |-> NoConfig, confirmed |-> 0, observed |-> 0,
     ready |-> "absent", backupRequired |-> FALSE]

Init ==
    /\ \E s \in SpecForms : cr = NewCR(s)
    /\ crCache = cr
    /\ enabled \in BOOLEAN
    /\ role \in RoleValues /\ roleCache = role
    /\ server = NoConfig /\ keys = {}
    /\ peer \in SUBSET Keys /\ sourceOwns \in BOOLEAN
    /\ left = MaxDisturbances
    /\ pc = "idle" /\ obj = NewCR(NoSpec) /\ eff = NoSpec /\ seenRole = "unset"
    /\ srv = NoConfig /\ promote = FALSE /\ verdict = "Errored"
-----------------------------------------------------------------------------
(* Plumbing of a pass. *)

EndPass ==
    /\ pc' = "idle" /\ obj' = NewCR(NoSpec) /\ eff' = NoSpec
    /\ seenRole' = "unset" /\ srv' = NoConfig
    /\ promote' = FALSE /\ verdict' = "Errored"

Goto(label) ==
    pc' = label /\ UNCHANGED <<obj, seenRole, eff, srv, promote, verdict>>

Report(v) ==
    /\ pc' = "status" /\ verdict' = v /\ srv' = NoConfig /\ promote' = FALSE
    /\ UNCHANGED <<obj, seenRole, eff>>

Disturbed == left > 0 /\ left' = left - 1

Write(new) == obj = cr /\ cr' = new /\ UNCHANGED <<crCache, role, roleCache>>

WriteFails ==
    /\ (obj # cr /\ UNCHANGED left) \/ Disturbed
    /\ UNCHANGED k8sVars

\* A write that ends the pass, whether it succeeds or not.
LastWrite(new) ==
    /\ (Write(new) /\ UNCHANGED left) \/ WriteFails
    /\ EndPass
    /\ UNCHANGED <<enabled, natsVars>>
-----------------------------------------------------------------------------
(* Reconcile. *)

ReadCR ==
    /\ pc = "idle" /\ crCache.present
    /\ crCache.ready = "absent" \/ (crCache.deleting => crCache.finalizer)
    /\ obj' = crCache
    /\ pc' = IF crCache.ready = "absent" THEN "initStatus"
             ELSE IF crCache.deleting THEN "finalStatus"
             ELSE IF crCache.finalizer THEN "readRole" ELSE "addFinalizer"
    /\ UNCHANGED <<enabled, k8sVars, natsVars, left, seenRole, eff, srv,
                   promote, verdict>>

InitStatus == pc = "initStatus" /\ LastWrite([cr EXCEPT !.ready = "Reconciling"])

AddFinalizer == pc = "addFinalizer" /\ LastWrite([cr EXCEPT !.finalizer = TRUE])

\* keyValueSpecToConfig: a TTL, a storage or a source that does not parse.
Parses(spec) == spec.ver # 0

Effective(seen, spec) == RT!EffectiveSpec(seen, spec)

\* The role decides the effective spec; a spec that does not parse ends the
\* pass without any status.
ReadRole ==
    /\ pc = "readRole"
    /\ \/ /\ Parses(obj.spec)
          /\ seenRole' = roleCache
          /\ eff' = Effective(roleCache, obj.spec)
          /\ pc' = "load"
          /\ UNCHANGED <<left, obj, srv, promote, verdict>>
       \/ ~Parses(obj.spec) /\ EndPass /\ UNCHANGED left
       \/ Disturbed /\ Report("Errored")
    /\ UNCHANGED <<enabled, k8sVars, natsVars>>
-----------------------------------------------------------------------------
(* createOrUpdate: read the bucket's stream, decide. *)

FlipWanted(s) ==
    /\ s # NoConfig /\ ~PreventUpdate /\ ~ReadOnly
    /\ \/ RT!ConvertActive(seenRole, s, eff)
       \/ MirrorRecreate /\ RT!MirrorFlipped(s, eff)

\* Mutant: the B1 guard asks whether translation is on.
GuardedEnabled(s) ==
    FlipWanted(s) /\ enabled /\ RT!WouldDemote(seenRole, s, eff)

\* The B1 guard looks at the role only, not at the translation flag.
Guarded(s) == FlipWanted(s) /\ RT!WouldDemote(seenRole, s, eff)

MustPromote(s) == FlipWanted(s) /\ ~Guarded(s) /\ RT!MirrorToPrimaryFlip(s, eff)

\* Mutant: a promote deletes and re-creates.
MustRecreateAnyFlip(s) == FlipWanted(s) /\ ~Guarded(s)

MustRecreate(s) == FlipWanted(s) /\ ~Guarded(s) /\ ~RT!MirrorToPrimaryFlip(s, eff)

\* Mutant: a pending promote does not bypass the skip.
ConvergedSkipAlways(s) ==
    /\ obj.stored # NoConfig /\ obj.stored = s
    /\ obj.observed = obj.gen

ConvergedSkip(s) ==
    /\ ~MustPromote(s)
    /\ obj.stored # NoConfig /\ obj.stored = s
    /\ obj.observed = obj.gen

Skips(s) == ConvergedSkip(s) \/ ReadOnly \/ (s # NoConfig /\ PreventUpdate)

Load ==
    /\ pc = "load"
    /\ \/ Guarded(server) /\ Report("Guarded") /\ UNCHANGED left
       \/ /\ MustRecreate(server)
          /\ Goto(IF RequireBackup THEN "gate" ELSE "delete") /\ UNCHANGED left
       \/ /\ ~Guarded(server) /\ ~MustRecreate(server) /\ Skips(server)
          /\ Report("Ready") /\ UNCHANGED left
       \/ /\ ~Guarded(server) /\ ~MustRecreate(server) /\ ~Skips(server)
          /\ srv' = server /\ promote' = MustPromote(server)
          /\ pc' = IF server = NoConfig THEN "create" ELSE "update"
          /\ UNCHANGED <<left, obj, seenRole, eff, verdict>>
       \/ Disturbed /\ Report("Errored")
    /\ UNCHANGED <<enabled, k8sVars, natsVars>>

BackupConfirmed == obj.confirmed = obj.gen
PeerHoldsAsMuch == Cardinality(peer) >= Cardinality(keys)

\* An empty bucket opens it too; an unreachable peer keeps it shut.
GateOpens == keys = {} \/ BackupConfirmed \/ PeerHoldsAsMuch

Gate ==
    /\ pc = "gate"
    /\ \/ GateOpens /\ Goto("delete") /\ UNCHANGED left
       \/ ~GateOpens /\ Report("WaitingForBackup") /\ UNCHANGED left
       \/ Disturbed /\ (Report("WaitingForBackup") \/ Report("Errored"))
    /\ UNCHANGED <<enabled, k8sVars, natsVars>>

\* DeleteKeyValue for a re-creation; the reply may be lost.
RecreateDelete ==
    /\ pc = "delete"
    /\ server' = NoConfig /\ keys' = {}
    /\ (Goto("create") /\ UNCHANGED left) \/ (Disturbed /\ Report("Errored"))
    /\ UNCHANGED <<enabled, k8sVars, peer, sourceOwns>>
-----------------------------------------------------------------------------
(* createOrUpdate: apply. *)

Overlaps(current) ==
    sourceOwns /\ ~RT!IsMirror(eff) /\ (current = NoConfig \/ RT!IsMirror(current))

\* UpdateKeyValue sends the mirror and the bucket's subjects in one request.
UpdateIncompatible ==
    \/ RT!IsMirror(eff) /\ eff.mirror # server.mirror
    \/ RT!MirrorToPrimaryFlip(server, eff) /\ ~OneShotPromote

Create ==
    /\ pc = "create"
    /\ \/ /\ ~Overlaps(NoConfig)
          /\ server' = eff
          /\ (Goto("persist") /\ UNCHANGED left) \/ (Disturbed /\ Report("Errored"))
       \/ Overlaps(NoConfig) /\ Report("Errored") /\ UNCHANGED <<server, left>>
    /\ UNCHANGED <<enabled, k8sVars, keys, peer, sourceOwns>>

\* A rejection re-creates only when it is recognised as a mirror
\* incompatibility and is not a promote.  The second B1 guard of this path
\* asks for the flip just excluded, so it is no disjunct here.
ReactiveRecreate(seen) ==
    MirrorRecreate /\ seen /\ ~RT!MirrorToPrimaryFlip(srv, eff)

\* Carried out, carried out with the reply lost, lost on its way, or - for a
\* promote - acknowledged with the mirror kept.
UpdateSent ==
    /\ ~Overlaps(server) /\ ~UpdateIncompatible
    /\ \/ server' = eff /\ Goto("verify") /\ UNCHANGED left
       \/ Disturbed /\ Report("Errored") /\ server' \in {server, eff}
       \/ /\ Disturbed /\ RT!MirrorToPrimaryFlip(server, eff)
          /\ Goto("verify") /\ UNCHANGED server

Update ==
    /\ pc = "update"
    /\ \/ UpdateSent
       \/ /\ ~Overlaps(server) /\ UpdateIncompatible
          /\ \E seen \in Recognised :
               IF ReactiveRecreate(seen)
               THEN Goto(IF RequireBackup THEN "gate" ELSE "delete")
               ELSE Report("Errored")
          /\ UNCHANGED <<server, left>>
       \/ Overlaps(server) /\ Report("Errored") /\ UNCHANGED <<server, left>>
    /\ UNCHANGED <<enabled, k8sVars, keys, peer, sourceOwns>>

\* Mutant: what the server acknowledged is believed.
PromoteSurvivedNever == FALSE

PromoteSurvived == promote /\ RT!IsMirror(server)

\* The read-back after an update; when it fails, only a promote minds.
Verify ==
    /\ pc = "verify"
    /\ \/ ~PromoteSurvived /\ Goto("persist") /\ UNCHANGED left
       \/ PromoteSurvived /\ Report("Errored") /\ UNCHANGED left
       \/ Disturbed /\ promote /\ Report("Errored")
       \/ Disturbed /\ ~promote /\ Goto("persist")
    /\ UNCHANGED <<enabled, k8sVars, natsVars>>

\* A second read-back goes into the annotation.
Persist ==
    /\ pc = "persist"
    /\ \/ /\ Write([cr EXCEPT !.stored = server]) /\ obj' = cr'
          /\ pc' = "status" /\ verdict' = "Ready" /\ srv' = NoConfig
          /\ promote' = FALSE /\ UNCHANGED <<left, seenRole, eff>>
       \/ WriteFails /\ Report("Errored")
    /\ UNCHANGED <<enabled, natsVars>>

StatusOf(c, v) ==
    [c EXCEPT !.ready = IF v = "Guarded" THEN "Errored" ELSE v,
              !.observed = IF v = "Ready" THEN c.gen ELSE @,
              !.backupRequired = IF v = "WaitingForBackup" THEN TRUE
                                 ELSE IF v = "Ready" THEN FALSE ELSE @]

WriteStatus == pc = "status" /\ LastWrite(StatusOf(cr, verdict))
-----------------------------------------------------------------------------
(* deleteKeyValue. *)

FinalizeStatus ==
    /\ pc = "finalStatus"
    /\ \/ /\ Write([cr EXCEPT !.ready = "Finalizing"]) /\ obj' = cr'
          /\ pc' = IF PreventDelete \/ ReadOnly THEN "removeFinalizer" ELSE "finalDelete"
          /\ UNCHANGED <<left, seenRole, eff, srv, promote, verdict>>
       \/ WriteFails /\ EndPass
    /\ UNCHANGED <<enabled, natsVars>>

\* A failed call lets a CR without stored state go; with stored state the
\* finalization is tried again.
FinalizeDelete ==
    /\ pc = "finalDelete"
    /\ \/ server' = NoConfig /\ keys' = {} /\ Goto("removeFinalizer") /\ UNCHANGED left
       \/ /\ Disturbed
          /\ (server' = NoConfig /\ keys' = {}) \/ UNCHANGED <<server, keys>>
          /\ \/ obj.stored = NoConfig /\ Goto("removeFinalizer")
             \/ obj.stored # NoConfig /\ EndPass
    /\ UNCHANGED <<enabled, k8sVars, peer, sourceOwns>>

RemoveFinalizer ==
    /\ pc = "removeFinalizer"
    /\ LastWrite([cr EXCEPT !.present = FALSE, !.finalizer = FALSE])
-----------------------------------------------------------------------------
(* The environment. *)

SyncCR ==
    /\ crCache # cr /\ crCache' = cr
    /\ UNCHANGED <<enabled, cr, role, roleCache, natsVars, left, pc, localVars>>

SyncRole ==
    /\ roleCache # role /\ roleCache' = role
    /\ UNCHANGED <<enabled, cr, crCache, role, natsVars, left, pc, localVars>>

EditSpec ==
    /\ cr.present /\ ~cr.deleting /\ Disturbed
    /\ \E s \in SpecForms \ {cr.spec} : cr' = [cr EXCEPT !.spec = s, !.gen = @ + 1]
    /\ UNCHANGED <<enabled, crCache, role, roleCache, natsVars, pc, localVars>>

MarkDeleted ==
    /\ cr.present /\ ~cr.deleting /\ Disturbed
    /\ cr' = [cr EXCEPT !.deleting = TRUE, !.present = cr.finalizer]
    /\ UNCHANGED <<enabled, crCache, role, roleCache, natsVars, pc, localVars>>

FlipRole ==
    /\ Disturbed
    /\ role' \in RoleValues \ {role}
    /\ UNCHANGED <<enabled, cr, crCache, roleCache, natsVars, pc, localVars>>

\* Clients put keys into a primary; a mirror receives the peer's.
Fill ==
    /\ server # NoConfig
    /\ \E k \in (IF RT!IsMirror(server) THEN peer ELSE Keys) \ keys :
           keys' = keys \cup {k}
    /\ UNCHANGED <<enabled, k8sVars, server, peer, sourceOwns, left, pc, localVars>>

SourceReleases ==
    /\ sourceOwns /\ sourceOwns' = FALSE
    /\ UNCHANGED <<enabled, k8sVars, server, keys, peer, left, pc, localVars>>

ConfirmBackup ==
    /\ cr.present /\ cr.backupRequired /\ cr.confirmed # cr.gen
    /\ cr' = [cr EXCEPT !.confirmed = cr.gen]
    /\ UNCHANGED <<enabled, crCache, role, roleCache, natsVars, left, pc, localVars>>

\* A restart loses the pass, lists afresh and may come with another flag.
Restart ==
    /\ Disturbed
    /\ enabled' \in BOOLEAN
    /\ crCache' = cr /\ roleCache' = role
    /\ EndPass
    /\ UNCHANGED <<cr, role, natsVars>>
-----------------------------------------------------------------------------
Reconcile ==
    \/ ReadCR \/ InitStatus \/ AddFinalizer \/ ReadRole \/ Load
    \/ Gate \/ RecreateDelete \/ Create \/ Update \/ Verify \/ Persist
    \/ WriteStatus \/ FinalizeStatus \/ FinalizeDelete \/ RemoveFinalizer

Environment ==
    \/ SyncCR \/ SyncRole \/ EditSpec \/ MarkDeleted \/ FlipRole \/ Fill
    \/ SourceReleases \/ ConfirmBackup \/ Restart

Next == Reconcile \/ Environment

\* The queue runs the CR again, informers deliver, the source region demotes
\* and the backup operator confirms.
Fairness ==
    /\ WF_vars(Reconcile) /\ WF_vars(SyncCR) /\ WF_vars(SyncRole)
    /\ WF_vars(SourceReleases) /\ WF_vars(ConfirmBackup)

Spec == Init /\ [][Next]_vars /\ Fairness
-----------------------------------------------------------------------------
(* Properties. *)

Applying == pc \in {"load", "gate", "delete", "create", "update", "verify",
                    "persist", "status"}

\* The bucket is a ReplicatedStore: a promote keeps its keys, a primary is
\* never turned into a mirror in place, and nothing is destroyed but towards a
\* mirror or on deletion.
Store == INSTANCE ReplicatedStore WITH
    Data <- Keys, data <- keys, deleting <- cr.deleting,
    form <- IF server = NoConfig THEN "absent"
            ELSE IF RT!IsMirror(server) THEN "mirror" ELSE "primary",
    want <- IF ~Applying THEN "none"
            ELSE IF RT!IsMirror(eff) THEN "mirror" ELSE "primary"
StoreSpec == Store!Spec

\* The B1 guard, with --mirror-recreate-on-conflict on: whatever is toggled by
\* restarts, a pass that read a passive role leaves a mirror a mirror.
KVGuardHolds ==
    [][(RT!IsMirror(server) /\ ~RT!IsMirror(server') /\ seenRole = "passive")
        => RT!IsMirror(eff) \/ obj.deleting]_vars

\* A pass about to report Ready has the bucket in the form it computed, also
\* when a promote was acknowledged but not carried out, or the annotation of
\* an earlier pass, maybe made under another flag or role, spared it the update.
KVReadyIsTrue ==
    (pc = "status" /\ verdict = "Ready" /\ ~ReadOnly /\ ~PreventUpdate)
        => server # NoConfig /\ RT!IsMirror(server) = RT!IsMirror(eff)

Target == RT!EffectiveSpec(role, cr.spec)
Converged ==
    cr.present /\ Parses(cr.spec) =>
        /\ server = Target
        /\ cr.ready = "Ready" /\ cr.observed = cr.gen /\ ~cr.backupRequired

\* The update would point a mirror elsewhere, or the passive guard refuses it.
Stuck ==
    \/ RT!IsMirror(server) /\ RT!IsMirror(Target) /\ server.mirror # Target.mirror
    \/ RT!WouldDemote(role, server, Target)

\* Once edits, flips, faults and restarts stop, the bucket takes the form the
\* role calls for and stays there; deletion is brought to its end.
KVConverges == <>[](Converged \/ Stuck) /\ (cr.deleting ~> ~cr.present)
=============================================================================
