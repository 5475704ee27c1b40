--------------------------- MODULE KeyValueProofs ---------------------------
(***************************************************************************)
(* What holds of the KeyValue reconciler for every set of specs, roles,    *)
(* keys and flags and any number of disturbances: its promote keeps the    *)
(* keys, its guard holds across restarts that toggle translation, and the  *)
(* bucket has the reported form.                                            *)
(***************************************************************************)
EXTENDS KeyValueReconciler, FiniteSetTheorems, TLAPS

\* What a pass may want to apply: a configuration whose spec parsed.
Wanted == [mirror: RT!Mirrors, subjects: {FALSE}, ver: {1}]
Configs == Wanted \cup {NoConfig}

Verdicts == {"Errored", "Guarded", "Ready", "WaitingForBackup"}

CRs ==
    [present: BOOLEAN, gen: Nat, spec: Specs, finalizer: BOOLEAN,
     deleting: BOOLEAN, stored: Configs, confirmed: Nat, observed: Nat,
     ready: {"absent", "Reconciling", "Finalizing", "Errored", "Ready",
             "WaitingForBackup"},
     backupRequired: BOOLEAN]

TypeOK ==
    /\ enabled \in BOOLEAN
    /\ cr \in CRs /\ crCache \in CRs /\ obj \in CRs
    /\ role \in RT!Roles /\ roleCache \in RT!Roles /\ seenRole \in RT!Roles
    /\ server \in Configs /\ srv \in Configs /\ eff \in Wanted
    /\ keys \subseteq Keys /\ peer \subseteq Keys
    /\ sourceOwns \in BOOLEAN /\ promote \in BOOLEAN
    /\ left \in Nat /\ verdict \in Verdicts
    /\ pc \in {"idle", "initStatus", "addFinalizer", "readRole", "load", "gate",
               "delete", "create", "update", "verify", "persist", "status",
               "finalStatus", "finalDelete", "removeFinalizer"}

\* A configuration that is to be applied is one, and not the absence of one.
LEMMA WantedReal ==
    NoSpec \in Wanted /\ NoConfig \notin Wanted /\ NoConfig \in Configs
  BY DEF NoSpec, NoConfig, Wanted, Configs, RT!Mirrors

\* Translation yields a configuration the server can hold, whatever the flags.
LEMMA EffectiveType ==
    ASSUME NEW r \in RT!Roles, NEW s \in Specs, Parses(s)
    PROVE  Effective(r, s) \in Wanted
  <1>1. s.ver = 1
    BY DEF Specs, Parses
  <1>2. s \in Wanted
    BY <1>1 DEF Specs, Wanted, RT!SpecMirrors, RT!Mirrors
  <1>3. RT!ToMirror(s) \in Wanted
    BY <1>2 DEF Wanted, RT!Mirrors, RT!ToMirror
  <1>4. RT!ToPrimary(s) \in Wanted
    BY <1>2 DEF Wanted, RT!Mirrors, RT!ToPrimary
  <1> QED
    BY <1>2, <1>3, <1>4 DEF Effective, RT!EffectiveSpec

\* A CR as the user writes it, and the empty copy of a pass, are well-formed.
LEMMA NewCRType ==
    ASSUME NEW s \in Specs
    PROVE  NewCR(s) \in CRs
  BY DEF NewCR, CRs, Configs

\* What is left of a pass at its end is well-typed.
LEMMA EndPassType ==
    ASSUME EndPass
    PROVE  /\ obj' \in CRs /\ eff' \in Wanted /\ seenRole' \in RT!Roles
           /\ srv' \in Configs /\ promote' = FALSE /\ verdict' = "Errored"
           /\ pc' = "idle"
  <1>1. NoSpec \in Specs
    BY DEF NoSpec, Specs, RT!SpecMirrors
  <1> QED
    BY <1>1, NewCRType, WantedReal DEF EndPass, Configs, RT!Roles

\* A disturbance uses up one of those left.
LEMMA DisturbedType ==
    ASSUME left \in Nat, Disturbed
    PROVE  left' \in Nat
  BY DEF Disturbed

\* A last write keeps Kubernetes and the pass typed if what it writes is.
LEMMA LastWriteType ==
    ASSUME TypeOK, NEW new \in CRs, LastWrite(new)
    PROVE  TypeOK'
  <1>1. cr' \in CRs /\ UNCHANGED <<crCache, role, roleCache>> /\ left' \in Nat
    BY DisturbedType DEF LastWrite, Write, WriteFails, TypeOK, k8sVars
  <1>2. EndPass /\ UNCHANGED <<enabled, natsVars>>
    BY DEF LastWrite
  <1> QED
    BY <1>1, <1>2, EndPassType DEF TypeOK, natsVars, Verdicts

\* The initial states are well-typed.
LEMMA InitType == Init => TypeOK
  <1> SUFFICES ASSUME Init PROVE TypeOK
    OBVIOUS
  <1>1. NoSpec \in Specs
    BY DEF NoSpec, Specs, RT!SpecMirrors
  <1>2. cr \in CRs /\ crCache \in CRs /\ obj \in CRs
    BY <1>1, NewCRType, KeyValueAssumption DEF Init
  <1> QED
    BY <1>2, KeyValueAssumption, WantedReal
       DEF Init, TypeOK, RT!Roles, Configs, Verdicts

\* Every step keeps the state well-typed, one case per action.
LEMMA NextType == TypeOK /\ [Next]_vars => TypeOK'
  <1> SUFFICES ASSUME TypeOK, [Next]_vars PROVE TypeOK'
    OBVIOUS
  <1> USE DisturbedType, EndPassType, WantedReal
  <1> USE DEF TypeOK, k8sVars, natsVars, localVars, Verdicts, Goto, Report
  <1>1. CASE ReadCR
    BY <1>1 DEF ReadCR
  <1>2. CASE InitStatus \/ AddFinalizer \/ RemoveFinalizer
    <2>1. /\ [cr EXCEPT !.ready = "Reconciling"] \in CRs
          /\ [cr EXCEPT !.finalizer = TRUE] \in CRs
          /\ [cr EXCEPT !.present = FALSE, !.finalizer = FALSE] \in CRs
      BY DEF CRs
    <2> QED
      BY <1>2, <2>1, LastWriteType DEF InitStatus, AddFinalizer, RemoveFinalizer
  <1>3. CASE ReadRole
    <2>1. CASE Parses(obj.spec) /\ eff' = Effective(roleCache, obj.spec)
      <3>1. eff' \in Wanted
        BY <2>1, EffectiveType DEF CRs
      <3> QED
        BY <1>3, <3>1 DEF ReadRole
    <2> QED
      BY <1>3, <2>1 DEF ReadRole
  <1>4. CASE Load
    BY <1>4 DEF Load, MustPromote, FlipWanted, Guarded
  <1>5. CASE Gate
    BY <1>5 DEF Gate
  <1>6. CASE RecreateDelete
    BY <1>6 DEF RecreateDelete, Configs
  <1>7. CASE Create
    BY <1>7 DEF Create, Configs
  <1>8. CASE Update
    BY <1>8 DEF Update, UpdateSent, Configs
  <1>9. CASE Verify
    BY <1>9 DEF Verify
  <1>10. CASE Persist
    <2>1. [cr EXCEPT !.stored = server] \in CRs
      BY DEF CRs
    <2> QED
      BY <1>10, <2>1 DEF Persist, Write, WriteFails
  <1>11. CASE WriteStatus
    <2>1. StatusOf(cr, verdict) \in CRs
      BY DEF StatusOf, CRs
    <2> QED
      BY <1>11, <2>1, LastWriteType DEF WriteStatus
  <1>12. CASE FinalizeStatus
    <2>1. [cr EXCEPT !.ready = "Finalizing"] \in CRs
      BY DEF CRs
    <2> QED
      BY <1>12, <2>1 DEF FinalizeStatus, Write, WriteFails
  <1>13. CASE FinalizeDelete
    BY <1>13 DEF FinalizeDelete, Configs
  <1>14. CASE SyncCR \/ SyncRole \/ SourceReleases
    BY <1>14 DEF SyncCR, SyncRole, SourceReleases
  <1>15. CASE EditSpec \/ MarkDeleted \/ ConfirmBackup
    <2>1. ASSUME NEW f \in SpecForms
          PROVE  [cr EXCEPT !.spec = f, !.gen = @ + 1] \in CRs
      <3>1. f \in Specs
        BY <2>1, KeyValueAssumption
      <3>2. cr.gen + 1 \in Nat
        BY DEF CRs
      <3> QED
        BY <3>1, <3>2 DEF CRs
    <2>2. [cr EXCEPT !.deleting = TRUE, !.present = cr.finalizer] \in CRs
      BY DEF CRs
    <2>3. [cr EXCEPT !.confirmed = cr.gen] \in CRs
      BY DEF CRs
    <2> QED
      BY <1>15, <2>1, <2>2, <2>3 DEF EditSpec, MarkDeleted, ConfirmBackup
  <1>16. CASE FlipRole
    BY <1>16, KeyValueAssumption DEF FlipRole
  <1>17. CASE Fill
    BY <1>17 DEF Fill
  <1>18. CASE Restart
    BY <1>18 DEF Restart
  <1>19. CASE UNCHANGED vars
    BY <1>19 DEF vars
  <1> QED
    BY <1>1, <1>2, <1>3, <1>4, <1>5, <1>6, <1>7, <1>8, <1>9, <1>10, <1>11, <1>12,
       <1>13, <1>14, <1>15, <1>16, <1>17, <1>18, <1>19
       DEF Next, Reconcile, Environment

\* Every reachable state of the KeyValue reconciler is well-typed.
THEOREM TypeCorrect == Spec => []TypeOK
  <1> QED
    BY InitType, NextType, PTL DEF Spec
-----------------------------------------------------------------------------
(* What a pass knows. *)

\* The bucket is updated as it was read, and only where updates are allowed.
ViewIsCurrent ==
    pc = "update" =>
        srv = server /\ server # NoConfig /\ ~ReadOnly /\ ~PreventUpdate

\* It is created where there is none.
CreateOnNothing == pc = "create" => server = NoConfig

\* It is deleted to be made a mirror again.
RecreateTowardsMirror == pc \in {"gate", "delete"} => RT!IsMirror(eff)

\* Finalization serves a CR marked for deletion, and a mark is not withdrawn.
DeletionSeen ==
    /\ pc \in {"finalStatus", "finalDelete", "removeFinalizer"} => obj.deleting
    /\ obj.deleting => cr.deleting
    /\ crCache.deleting => cr.deleting

\* A pass that goes on to drop the mirror knows that it promotes, and has not
\* read a passive role.
PromoteKnown ==
    (pc = "update" /\ RT!MirrorToPrimaryFlip(server, eff)) =>
        promote /\ seenRole # "passive"

SameForm == server # NoConfig /\ RT!IsMirror(server) = RT!IsMirror(eff)

\* From the update to the report, the bucket has the form wanted - but for a
\* promote that was acknowledged and is not believed yet.
FormVerified ==
    /\ pc = "verify" =>
           SameForm \/ (promote /\ RT!MirrorToPrimaryFlip(server, eff))
    /\ pc = "persist" => SameForm
    /\ (pc = "status" /\ verdict = "Ready" /\ ~ReadOnly /\ ~PreventUpdate) =>
           SameForm

PlanInv ==
    /\ ViewIsCurrent /\ CreateOnNothing /\ RecreateTowardsMirror
    /\ MirrorRecreate => PromoteKnown /\ FormVerified

PassInv == PlanInv /\ DeletionSeen

\* Nothing is known before the first pass.
LEMMA InitPass == Init => PassInv
  BY DEF Init, NewCR, PassInv, PlanInv, ViewIsCurrent, CreateOnNothing,
         RecreateTowardsMirror, PromoteKnown, FormVerified, DeletionSeen

\* Nobody unmarks a CR, and only MarkDeleted marks it.
LEMMA DeletionKept ==
    ASSUME TypeOK, [Next]_vars
    PROVE  cr'.deleting = cr.deleting \/ (MarkDeleted /\ cr'.deleting = TRUE)
  <1> USE DEF k8sVars, TypeOK, CRs
  <1>1. CASE UNCHANGED cr
    BY <1>1
  <1>2. CASE InitStatus \/ AddFinalizer \/ Persist \/ FinalizeStatus \/ RemoveFinalizer
    BY <1>2 DEF InitStatus, AddFinalizer, Persist, FinalizeStatus, RemoveFinalizer,
                LastWrite, Write, WriteFails
  <1>3. CASE WriteStatus
    BY <1>3 DEF WriteStatus, StatusOf, LastWrite, Write, WriteFails
  <1>4. CASE EditSpec \/ ConfirmBackup
    BY <1>4 DEF EditSpec, ConfirmBackup
  <1>5. CASE MarkDeleted
    BY <1>5 DEF MarkDeleted
  <1>6. CASE ReadCR \/ ReadRole \/ Load \/ Gate \/ RecreateDelete \/ Create
             \/ Update \/ Verify \/ FinalizeDelete
    BY <1>6, <1>1 DEF ReadCR, ReadRole, Load, Gate, RecreateDelete, Create, Update,
                Verify, FinalizeDelete
  <1>7. CASE SyncCR \/ SyncRole \/ FlipRole \/ Fill \/ SourceReleases \/ Restart
    BY <1>7, <1>1 DEF SyncCR, SyncRole, FlipRole, Fill, SourceReleases, Restart
  <1>8. CASE UNCHANGED vars
    BY <1>8, <1>1 DEF vars
  <1> QED
    BY <1>2, <1>3, <1>4, <1>5, <1>6, <1>7, <1>8 DEF Next, Reconcile, Environment

\* Where a pass's copy of the CR comes from.
LEMMA CopySource ==
    ASSUME [Next]_vars
    PROVE  \/ UNCHANGED obj \/ obj' = crCache \/ obj' = cr' \/ obj' = NewCR(NoSpec)
  <1> USE DEF Goto, Report, EndPass, LastWrite
  <1>1. CASE ReadCR \/ InitStatus \/ AddFinalizer \/ ReadRole \/ Load \/ Gate
             \/ RecreateDelete \/ Create
    BY <1>1 DEF ReadCR, InitStatus, AddFinalizer, ReadRole, Load, Gate,
                RecreateDelete, Create
  <1>2. CASE Update \/ Verify \/ Persist \/ WriteStatus \/ FinalizeStatus
             \/ FinalizeDelete \/ RemoveFinalizer \/ Restart
    BY <1>2 DEF Update, UpdateSent, Verify, Persist, WriteStatus, FinalizeStatus,
                FinalizeDelete, RemoveFinalizer, Restart
  <1>3. CASE Environment /\ ~Restart
    BY <1>3 DEF Environment, SyncCR, SyncRole, EditSpec, MarkDeleted, FlipRole,
                Fill, SourceReleases, ConfirmBackup, localVars
  <1>4. CASE UNCHANGED vars
    BY <1>4 DEF vars, localVars
  <1> QED
    BY <1>1, <1>2, <1>3, <1>4 DEF Next, Reconcile

\* The informer shows what the API server has or had.
LEMMA CacheSource ==
    ASSUME [Next]_vars
    PROVE  UNCHANGED crCache \/ crCache' = cr
  <1> USE DEF k8sVars, Write, WriteFails, LastWrite
  <1>1. CASE Reconcile
    BY <1>1 DEF Reconcile, ReadCR, InitStatus, AddFinalizer, ReadRole, Load, Gate,
                RecreateDelete, Create, Update, Verify, Persist, WriteStatus,
                FinalizeStatus, FinalizeDelete, RemoveFinalizer
  <1>2. CASE Environment
    BY <1>2 DEF Environment, SyncCR, SyncRole, EditSpec, MarkDeleted, FlipRole,
                Fill, SourceReleases, ConfirmBackup, Restart
  <1>3. CASE UNCHANGED vars
    BY <1>3 DEF vars
  <1> QED
    BY <1>1, <1>2, <1>3 DEF Next

\* A pass finalizes only what it has seen marked, and the mark stays.
LEMMA NextDeletion ==
    ASSUME TypeOK, DeletionSeen, [Next]_vars
    PROVE  DeletionSeen'
  <1> DEFINE Finalizing == pc \in {"finalStatus", "finalDelete", "removeFinalizer"}
  <1> USE DEF DeletionSeen
  <1>1. cr.deleting => cr'.deleting
    BY DeletionKept
  <1>2. crCache'.deleting => cr'.deleting
    BY <1>1, CacheSource
  <1>3. obj'.deleting => cr'.deleting
    <2>1. ~NewCR(NoSpec).deleting
      BY DEF NewCR
    <2> QED
      BY <1>1, <2>1, CopySource
  <1>4. Finalizing' => obj'.deleting
    <2> USE DEF Goto, Report, EndPass, LastWrite
    <2>1. CASE ReadCR
      BY <2>1 DEF ReadCR
    <2>2. CASE FinalizeStatus
      BY <2>2, <1>1 DEF FinalizeStatus, Write
    <2>3. CASE FinalizeDelete
      BY <2>3 DEF FinalizeDelete
    <2>4. CASE InitStatus \/ AddFinalizer \/ ReadRole \/ Load \/ Gate
               \/ RecreateDelete \/ Create
      BY <2>4 DEF InitStatus, AddFinalizer, ReadRole, Load, Gate, RecreateDelete,
                  Create
    <2>5. CASE Update \/ Verify \/ Persist \/ WriteStatus \/ RemoveFinalizer
               \/ Restart
      BY <2>5 DEF Update, UpdateSent, Verify, Persist, WriteStatus,
                  RemoveFinalizer, Restart
    <2>6. CASE Environment /\ ~Restart
      BY <2>6 DEF Environment, SyncCR, SyncRole, EditSpec, MarkDeleted, FlipRole,
                  Fill, SourceReleases, ConfirmBackup, localVars
    <2>7. CASE UNCHANGED vars
      BY <2>7 DEF vars, localVars
    <2> QED
      BY <2>1, <2>2, <2>3, <2>4, <2>5, <2>6, <2>7 DEF Next, Reconcile
  <1> QED
    BY <1>2, <1>3, <1>4
\* Where the pass is not about to change or to report the bucket, there is
\* nothing to know.
LEMMA PlanElsewhere ==
    ASSUME pc' \notin {"gate", "delete", "create", "update", "verify", "persist"},
           pc' = "status" => verdict' # "Ready"
    PROVE  PlanInv'
  BY DEF PlanInv, ViewIsCurrent, CreateOnNothing, RecreateTowardsMirror,
         PromoteKnown, FormVerified

\* What is known does not depend on Kubernetes, the keys or the role.
LEMMA PlanQuiet ==
    ASSUME PlanInv, UNCHANGED <<server, pc, localVars>>
    PROVE  PlanInv'
  <1>1. UNCHANGED <<server, pc, seenRole, eff, srv, promote, verdict>>
    BY DEF localVars
  <1>2. SameForm' = SameForm
    BY <1>1 DEF SameForm, RT!IsMirror
  <1>3. RT!MirrorToPrimaryFlip(server, eff)' = RT!MirrorToPrimaryFlip(server, eff)
    BY <1>1 DEF RT!MirrorToPrimaryFlip, RT!IsMirror
  <1>4. ViewIsCurrent' /\ CreateOnNothing'
    BY <1>1 DEF PlanInv, ViewIsCurrent, CreateOnNothing
  <1>5. RecreateTowardsMirror'
    BY <1>1 DEF PlanInv, RecreateTowardsMirror, RT!IsMirror
  <1>6. MirrorRecreate => PromoteKnown' /\ FormVerified'
    BY <1>1, <1>2, <1>3 DEF PlanInv, PromoteKnown, FormVerified
  <1> QED
    BY <1>4, <1>5, <1>6 DEF PlanInv

\* A flip is guarded, promoted or made by re-creation, and a re-creation makes
\* a mirror.
LEMMA FlipDecided ==
    ASSUME NEW s, FlipWanted(s)
    PROVE  /\ Guarded(s) \/ MustPromote(s) \/ MustRecreate(s)
           /\ MustRecreate(s) => RT!IsMirror(eff)
  <1>1. RT!IsMirror(s) \in BOOLEAN /\ RT!IsMirror(eff) \in BOOLEAN
    BY DEF RT!IsMirror
  <1>2. MustRecreate(s) => RT!IsMirror(eff)
    BY <1>1 DEF FlipWanted, MustRecreate, RT!ConvertActive, RT!MirrorFlipped,
                RT!MirrorToPrimaryFlip
  <1> QED
    BY <1>2 DEF MustPromote, MustRecreate

\* Under --mirror-recreate-on-conflict, a pass that goes past the decision
\* without a flip has the form it wants, and a flip to a primary is a promote
\* whose role is not passive.
LEMMA FormsDecided ==
    ASSUME NEW s, s # NoConfig, ~ReadOnly, ~PreventUpdate, MirrorRecreate,
           ~Guarded(s), ~MustRecreate(s)
    PROVE  /\ RT!MirrorToPrimaryFlip(s, eff) => MustPromote(s) /\ seenRole # "passive"
           /\ ~MustPromote(s) => RT!IsMirror(s) = RT!IsMirror(eff)
  <1>1. RT!MirrorFlipped(s, eff) => FlipWanted(s)
    BY DEF FlipWanted
  <1>2. RT!MirrorToPrimaryFlip(s, eff) => RT!MirrorFlipped(s, eff)
    BY DEF RT!MirrorFlipped, RT!MirrorToPrimaryFlip
  <1>3. RT!MirrorToPrimaryFlip(s, eff) => MustPromote(s)
    BY <1>1, <1>2, FlipDecided
  <1>4. RT!MirrorToPrimaryFlip(s, eff) => seenRole # "passive"
    BY <1>1, <1>2 DEF Guarded, RT!WouldDemote
  <1>5. RT!IsMirror(s) \in BOOLEAN /\ RT!IsMirror(eff) \in BOOLEAN
    BY DEF RT!IsMirror
  <1>6. ~MustPromote(s) => ~RT!MirrorFlipped(s, eff)
    BY <1>1, FlipDecided
  <1> QED
    BY <1>3, <1>4, <1>5, <1>6 DEF RT!MirrorFlipped

\* Every step keeps what the pass knows: the decisions, the calls and the
\* read-back one by one, the others in groups.
LEMMA NextPlan ==
    ASSUME TypeOK, PlanInv, [Next]_vars
    PROVE  PlanInv'
  <1>1. CASE ReadCR \/ InitStatus \/ AddFinalizer \/ ReadRole \/ WriteStatus
             \/ FinalizeStatus \/ FinalizeDelete \/ RemoveFinalizer \/ Restart
    <2>1. pc' \notin {"gate", "delete", "create", "update", "verify", "persist"}
          /\ (pc' = "status" => verdict' # "Ready")
      BY <1>1 DEF ReadCR, InitStatus, AddFinalizer, ReadRole, WriteStatus,
                  FinalizeStatus, FinalizeDelete, RemoveFinalizer, Restart,
                  LastWrite, EndPass, Report, Goto
    <2> QED
      BY <2>1, PlanElsewhere
  <1>2. CASE Load
    <2>1. CASE Report("Guarded") \/ Report("Errored")
      BY <2>1, PlanElsewhere DEF Report
    <2>2. CASE MustRecreate(server) /\ pc' \in {"gate", "delete"} /\ UNCHANGED eff
      <3>1. RT!IsMirror(eff')
        BY <2>2, FlipDecided DEF MustRecreate
      <3> QED
        BY <2>2, <3>1 DEF PlanInv, ViewIsCurrent, CreateOnNothing,
                RecreateTowardsMirror, PromoteKnown, FormVerified
    <2>3. CASE /\ ~Guarded(server) /\ ~MustRecreate(server) /\ Skips(server)
               /\ Report("Ready") /\ UNCHANGED server
      <3>1. (~ReadOnly /\ ~PreventUpdate) => ConvergedSkip(server)
        BY <2>3 DEF Skips
      <3>2. (MirrorRecreate /\ ~ReadOnly /\ ~PreventUpdate) => SameForm
        BY <2>3, <3>1, FormsDecided DEF ConvergedSkip, SameForm
      <3>3. UNCHANGED <<server, eff>> /\ pc' = "status"
        BY <2>3 DEF Report
      <3> QED
        BY <3>2, <3>3 DEF PlanInv, ViewIsCurrent, CreateOnNothing,
                RecreateTowardsMirror, PromoteKnown, FormVerified, SameForm,
                RT!IsMirror
    <2>4. CASE /\ ~Guarded(server) /\ ~MustRecreate(server) /\ ~Skips(server)
               /\ srv' = server /\ promote' = MustPromote(server)
               /\ pc' = IF server = NoConfig THEN "create" ELSE "update"
               /\ UNCHANGED <<server, seenRole, eff>>
      <3>1. ~ReadOnly /\ (server # NoConfig => ~PreventUpdate)
        BY <2>4 DEF Skips
      <3>2. ViewIsCurrent' /\ CreateOnNothing'
        BY <2>4, <3>1 DEF ViewIsCurrent, CreateOnNothing
      <3>3. MirrorRecreate => PromoteKnown'
        BY <2>4, <3>1, FormsDecided
           DEF PromoteKnown, RT!MirrorToPrimaryFlip, RT!IsMirror
      <3> QED
        BY <2>4, <3>2, <3>3 DEF PlanInv, RecreateTowardsMirror, FormVerified
    <2> QED
      BY <1>2, <2>1, <2>2, <2>3, <2>4 DEF Load, Goto, natsVars
  <1>3. CASE Gate
    <2>1. CASE pc' = "delete" /\ UNCHANGED eff
      BY <1>3, <2>1 DEF Gate, PlanInv, ViewIsCurrent, CreateOnNothing,
                RecreateTowardsMirror, PromoteKnown, FormVerified, RT!IsMirror
    <2>2. CASE Report("WaitingForBackup") \/ Report("Errored")
      BY <2>2, PlanElsewhere DEF Report
    <2> QED
      BY <1>3, <2>1, <2>2 DEF Gate, Goto
  <1>4. CASE RecreateDelete
    <2>1. CASE pc' = "create"
      BY <1>4, <2>1 DEF RecreateDelete, PlanInv, ViewIsCurrent, CreateOnNothing,
                RecreateTowardsMirror, PromoteKnown, FormVerified
    <2>2. CASE Report("Errored")
      BY <2>2, PlanElsewhere DEF Report
    <2> QED
      BY <1>4, <2>1, <2>2 DEF RecreateDelete, Goto
  <1>5. CASE Create
    <2>1. CASE server' = eff /\ Goto("persist")
      <3>1. SameForm'
        BY <2>1, WantedReal DEF Goto, SameForm, TypeOK, RT!IsMirror
      <3> QED
        BY <2>1, <3>1 DEF Goto, PlanInv, ViewIsCurrent, CreateOnNothing,
                RecreateTowardsMirror, PromoteKnown, FormVerified
    <2>2. CASE Report("Errored")
      BY <2>2, PlanElsewhere DEF Report
    <2> QED
      BY <1>5, <2>1, <2>2 DEF Create
  <1>6. CASE Update
    <2>1. CASE Report("Errored")
      BY <2>1, PlanElsewhere DEF Report
    <2>2. CASE Goto("verify") /\ server' = eff
      <3>1. SameForm'
        BY <2>2, WantedReal DEF Goto, SameForm, TypeOK, RT!IsMirror
      <3> QED
        BY <2>2, <3>1 DEF Goto, PlanInv, ViewIsCurrent, CreateOnNothing,
                RecreateTowardsMirror, PromoteKnown, FormVerified
    <2>3. CASE /\ Goto("verify") /\ RT!MirrorToPrimaryFlip(server, eff)
               /\ UNCHANGED server
      <3>1. MirrorRecreate => promote
        BY <1>6, <2>3 DEF Update, PlanInv, PromoteKnown
      <3> QED
        BY <2>3, <3>1 DEF Goto, PlanInv, ViewIsCurrent, CreateOnNothing,
                RecreateTowardsMirror, PromoteKnown, FormVerified,
                RT!MirrorToPrimaryFlip, RT!IsMirror
    <2>4. CASE /\ UpdateIncompatible
               /\ \E seen \in Recognised : ReactiveRecreate(seen)
               /\ Goto(IF RequireBackup THEN "gate" ELSE "delete")
      <3>1. srv = server
        BY <1>6 DEF Update, PlanInv, ViewIsCurrent
      <3>2. RT!IsMirror(eff)
        BY <2>4, <3>1 DEF UpdateIncompatible, ReactiveRecreate
      <3> QED
        BY <2>4, <3>2 DEF Goto, PlanInv, ViewIsCurrent, CreateOnNothing,
                RecreateTowardsMirror, PromoteKnown, FormVerified, RT!IsMirror
    <2> QED
      BY <1>6, <2>1, <2>2, <2>3, <2>4 DEF Update, UpdateSent
  <1>7. CASE Verify
    <2>1. CASE Report("Errored")
      BY <2>1, PlanElsewhere DEF Report
    <2>2. CASE Goto("persist") /\ (~PromoteSurvived \/ ~promote)
      <3>1. MirrorRecreate => SameForm
        BY <1>7, <2>2 DEF Verify, PlanInv, FormVerified, PromoteSurvived,
                          RT!MirrorToPrimaryFlip
      <3>2. UNCHANGED <<server, eff>> /\ pc' = "persist"
        BY <1>7, <2>2 DEF Verify, Goto, natsVars
      <3> QED
        BY <3>1, <3>2 DEF PlanInv, ViewIsCurrent, CreateOnNothing,
                RecreateTowardsMirror, PromoteKnown, FormVerified, SameForm,
                RT!IsMirror
    <2> QED
      BY <1>7, <2>1, <2>2 DEF Verify
  <1>8. CASE Persist
    <2>1. CASE Report("Errored")
      BY <2>1, PlanElsewhere DEF Report
    <2>2. CASE pc' = "status" /\ UNCHANGED <<server, eff>>
      BY <1>8, <2>2 DEF Persist, PlanInv, ViewIsCurrent, CreateOnNothing,
                RecreateTowardsMirror, PromoteKnown, FormVerified, SameForm,
                RT!IsMirror
    <2> QED
      BY <1>8, <2>1, <2>2 DEF Persist, natsVars
  <1>9. CASE (Environment /\ ~Restart) \/ UNCHANGED vars
    <2>1. UNCHANGED <<server, pc, localVars>>
      BY <1>9 DEF Environment, SyncCR, SyncRole, EditSpec, MarkDeleted, FlipRole,
                  Fill, SourceReleases, ConfirmBackup, natsVars, vars
    <2> QED
      BY <2>1, PlanQuiet
  <1> QED
    BY <1>1, <1>2, <1>3, <1>4, <1>5, <1>6, <1>7, <1>8, <1>9
       DEF Next, Reconcile, Environment

\* What a pass knows of the bucket stays true while it acts on it.
LEMMA PassInvariant == Spec => []PassInv
  <1>1. TypeOK /\ PassInv /\ [Next]_vars => PassInv'
    BY NextPlan, NextDeletion DEF PassInv
  <1> QED
    BY <1>1, InitPass, TypeCorrect, PTL DEF Spec
\* A pass that reports Ready has the bucket in the form it wanted, whatever the
\* annotation of an earlier pass spared it and whatever the server claimed to
\* have done.  Without --mirror-recreate-on-conflict it need not be so: a CR
\* outside the failover scope is then never flipped.
THEOREM ReadyIsTrue ==
    ASSUME MirrorRecreate
    PROVE  Spec => []KVReadyIsTrue
  <1>1. PassInv => KVReadyIsTrue
    BY DEF PassInv, PlanInv, FormVerified, SameForm, KVReadyIsTrue
  <1> QED
    BY <1>1, PassInvariant, PTL
-----------------------------------------------------------------------------
(* What moves the bucket. *)

\* The steps that move the bucket's stream.
LEMMA ServerWrites ==
    ASSUME [Next]_vars, server' # server
    PROVE  RecreateDelete \/ Create \/ Update \/ FinalizeDelete
  <1>1. CASE Reconcile
    BY <1>1 DEF natsVars, LastWrite, Reconcile, ReadCR, InitStatus, AddFinalizer,
                ReadRole, Load, Gate, Verify, Persist, WriteStatus, FinalizeStatus,
                RemoveFinalizer
  <1>2. CASE Environment
    BY <1>2 DEF natsVars, Environment, SyncCR, SyncRole, EditSpec, MarkDeleted,
                FlipRole, Fill, SourceReleases, ConfirmBackup, Restart
  <1>3. CASE UNCHANGED vars
    BY <1>3 DEF vars, natsVars
  <1> QED
    BY <1>1, <1>2, <1>3 DEF Next

\* The steps that move its keys.
LEMMA KeyWrites ==
    ASSUME [Next]_vars, keys' # keys
    PROVE  RecreateDelete \/ FinalizeDelete \/ Fill
  <1>1. CASE Reconcile
    BY <1>1 DEF natsVars, LastWrite, Reconcile, ReadCR, InitStatus, AddFinalizer,
                ReadRole, Load, Gate, Create, Update, Verify, Persist, WriteStatus,
                FinalizeStatus, RemoveFinalizer
  <1>2. CASE Environment
    BY <1>2 DEF natsVars, Environment, SyncCR, SyncRole, EditSpec, MarkDeleted,
                FlipRole, SourceReleases, ConfirmBackup, Restart
  <1>3. CASE UNCHANGED vars
    BY <1>3 DEF vars, natsVars
  <1> QED
    BY <1>1, <1>2, <1>3 DEF Next

\* The only configuration an update can leave behind is the one it sent, and it
\* makes no mirror of a primary.
LEMMA UpdateLeaves ==
    ASSUME Update, server' # server
    PROVE  server' = eff /\ (RT!IsMirror(eff) => RT!IsMirror(server))
  <1>1. UpdateSent
    BY DEF Update
  <1>2. server' = eff /\ ~UpdateIncompatible
    BY <1>1 DEF UpdateSent
  <1> QED
    BY <1>2 DEF UpdateIncompatible, RT!IsMirror

\* The guard, step by step.
LEMMA GuardStep ==
    ASSUME MirrorRecreate, TypeOK, PassInv, [Next]_vars,
           RT!IsMirror(server), ~RT!IsMirror(server'), seenRole = "passive"
    PROVE  RT!IsMirror(eff) \/ obj.deleting
  <1>1. server' # server
    OBVIOUS
  <1>2. CASE RecreateDelete
    BY <1>2 DEF RecreateDelete, PassInv, PlanInv, RecreateTowardsMirror
  <1>3. CASE Create
    BY <1>3 DEF Create, PassInv, PlanInv, CreateOnNothing, NoConfig, RT!IsMirror
  <1>4. CASE Update
    <2>1. pc = "update"
      BY <1>4 DEF Update
    <2> QED
      BY <2>1 DEF PassInv, PlanInv, PromoteKnown, RT!MirrorToPrimaryFlip
  <1>5. CASE FinalizeDelete
    BY <1>5 DEF FinalizeDelete, PassInv, DeletionSeen
  <1> QED
    BY <1>1, <1>2, <1>3, <1>4, <1>5, ServerWrites

\* The B1 guard: under --mirror-recreate-on-conflict, no pass that read a
\* passive role drops a mirror, but to make it again or to delete it, although
\* restarts toggle translation and flips race the pass.
THEOREM PassiveMirrorKept ==
    ASSUME MirrorRecreate
    PROVE  Spec => KVGuardHolds
  <1>1. TypeOK /\ PassInv /\ [Next]_vars
        => [(RT!IsMirror(server) /\ ~RT!IsMirror(server') /\ seenRole = "passive")
             => RT!IsMirror(eff) \/ obj.deleting]_vars
    BY GuardStep
  <1> QED
    BY <1>1, TypeCorrect, PassInvariant, PTL DEF Spec, KVGuardHolds
-----------------------------------------------------------------------------
(* The bucket is a ReplicatedStore. *)

FormOf(c) ==
    IF c = NoConfig THEN "absent" ELSE IF RT!IsMirror(c) THEN "mirror" ELSE "primary"
Want == IF ~Applying THEN "none" ELSE IF RT!IsMirror(eff) THEN "mirror" ELSE "primary"

\* The form only depends on the configuration.
LEMMA FormUnchanged ==
    ASSUME UNCHANGED server
    PROVE  FormOf(server)' = FormOf(server)
  BY DEF FormOf, RT!IsMirror

\* A step that moves neither the bucket nor the request is one of the store's
\* decisions.
LEMMA DecideStep ==
    ASSUME UNCHANGED <<server, keys, cr.deleting>>
    PROVE  Store!Decide
  <1>1. Want' \in {"none", "mirror", "primary"}
    BY DEF Want
  <1> QED
    BY <1>1, FormUnchanged DEF Store!Decide, Want, FormOf

\* A create that the server accepts makes an empty store in the form wanted.
LEMMA CreateStep ==
    ASSUME TypeOK, PassInv, Create, server' # server
    PROVE  Store!Create
  <1>1. server = NoConfig /\ server' = eff /\ eff # NoConfig
    BY WantedReal DEF Create, PassInv, PlanInv, CreateOnNothing, TypeOK
  <1>2. Applying /\ Applying' /\ UNCHANGED eff
    BY DEF Create, Report, Goto, Applying
  <1>3. UNCHANGED <<keys, cr.deleting>>
    BY DEF Create, k8sVars
  <1>4. Want' = Want /\ Want = FormOf(server)'
    BY <1>1, <1>2 DEF Want, FormOf, RT!IsMirror
  <1>5. FormOf(server) = "absent" /\ Want # "none"
    BY <1>1, <1>2 DEF FormOf, Want
  <1> QED
    BY <1>3, <1>4, <1>5 DEF Store!Create, Want, FormOf

\* One update promotes, or keeps the form.
LEMMA UpdateStep ==
    ASSUME TypeOK, PassInv, Update, server' # server
    PROVE  Store!Promote \/ Store!Decide
  <1>1. server' = eff /\ eff # NoConfig /\ (RT!IsMirror(eff) => RT!IsMirror(server))
    BY UpdateLeaves, WantedReal DEF TypeOK
  <1>2. server # NoConfig
    BY DEF Update, PassInv, PlanInv, ViewIsCurrent
  <1>3. Applying /\ Applying' /\ UNCHANGED eff
    BY DEF Update, UpdateSent, Report, Goto, Applying
  <1>4. UNCHANGED <<keys, cr.deleting>>
    BY DEF Update, k8sVars
  <1>5. Want' = Want /\ Want = FormOf(server)'
    BY <1>1, <1>3 DEF Want, FormOf, RT!IsMirror
  <1>6. CASE RT!IsMirror(eff)
    <2>1. FormOf(server)' = FormOf(server) /\ Want' = "mirror"
      BY <1>1, <1>2, <1>5, <1>6 DEF FormOf, RT!IsMirror
    <2> QED
      BY <1>4, <2>1 DEF Store!Decide, Want, FormOf
  <1>7. CASE ~RT!IsMirror(eff)
    <2>1. FormOf(server)' = "primary" /\ Want = "primary" /\ Want' = "primary"
      BY <1>1, <1>3, <1>5, <1>7 DEF FormOf, RT!IsMirror, Want
    <2>2. FormOf(server) \in {"mirror", "primary"}
      BY <1>2 DEF FormOf
    <2> QED
      BY <1>4, <2>1, <2>2 DEF Store!Promote, Store!Decide, Want, FormOf
  <1> QED
    BY <1>6, <1>7

\* The delete of a re-creation empties a store that is to be a mirror.
LEMMA RecreateStep ==
    ASSUME PassInv, RecreateDelete
    PROVE  Store!Replace
  <1>1. RT!IsMirror(eff)
    BY DEF RecreateDelete, PassInv, PlanInv, RecreateTowardsMirror
  <1>2. Applying /\ Applying' /\ UNCHANGED eff
    BY DEF RecreateDelete, Report, Goto, Applying
  <1>3. server' = NoConfig /\ keys' = {} /\ UNCHANGED cr.deleting
    BY DEF RecreateDelete, k8sVars
  <1>4. Want = "mirror" /\ Want' = "mirror"
    BY <1>1, <1>2 DEF Want, RT!IsMirror
  <1>5. FormOf(server)' = "absent"
    BY <1>3 DEF FormOf
  <1> QED
    BY <1>3, <1>4, <1>5 DEF Store!Replace, Store!Destroyed, Want, FormOf

\* Finalization serves a request to delete the CR.
LEMMA FinalizeStep ==
    ASSUME PassInv, FinalizeDelete, ~UNCHANGED <<server, keys>>
    PROVE  Store!Delete
  <1>1. cr.deleting /\ UNCHANGED cr.deleting
    BY DEF FinalizeDelete, PassInv, DeletionSeen, k8sVars
  <1>2. server' = NoConfig /\ keys' = {}
    BY DEF FinalizeDelete
  <1>3. ~Applying /\ ~Applying'
    BY DEF FinalizeDelete, Applying, EndPass, Goto
  <1>4. Want = "none" /\ Want' = "none"
    BY <1>3 DEF Want
  <1>5. FormOf(server)' = "absent"
    BY <1>2 DEF FormOf
  <1> QED
    BY <1>1, <1>2, <1>4, <1>5 DEF Store!Delete, Store!Destroyed, Want, FormOf

\* Clients and replication only add keys to a bucket that exists.
LEMMA FillStep ==
    ASSUME TypeOK, Fill
    PROVE  Store!Fill
  <1>1. UNCHANGED <<server, pc, eff, cr.deleting>>
    BY DEF Fill, k8sVars, localVars
  <1>2. keys \subseteq keys' /\ keys' \subseteq Keys
    BY DEF Fill, TypeOK
  <1>3. Want' = Want
    BY <1>1 DEF Want, Applying, RT!IsMirror
  <1>4. FormOf(server) # "absent"
    BY DEF Fill, FormOf
  <1> QED
    BY <1>1, <1>2, <1>3, <1>4, FormUnchanged DEF Store!Fill, Want, FormOf

\* A CR marked for deletion is the request to delete the store.
LEMMA RequestStep ==
    ASSUME MarkDeleted, cr'.deleting = TRUE
    PROVE  Store!Request
  <1>1. UNCHANGED <<server, keys, pc, eff>>
    BY DEF MarkDeleted, natsVars, localVars
  <1>2. Want' = Want
    BY <1>1 DEF Want, Applying, RT!IsMirror
  <1> QED
    BY <1>1, <1>2, FormUnchanged DEF Store!Request, Want, FormOf

\* Every step of the reconciler and its environment is a step of the store.
LEMMA StepMaps ==
    TypeOK /\ PassInv /\ [Next]_vars => [Store!Next]_Store!vars
  <1> SUFFICES ASSUME TypeOK, PassInv, [Next]_vars
               PROVE  Store!Next
    OBVIOUS
  <1>1. CASE RecreateDelete
    BY <1>1, RecreateStep DEF Store!Next
  <1>2. CASE FinalizeDelete /\ ~UNCHANGED <<server, keys>>
    BY <1>2, FinalizeStep DEF Store!Next
  <1>3. CASE Fill
    BY <1>3, FillStep DEF Store!Next
  <1>4. CASE server' # server /\ ~RecreateDelete /\ ~FinalizeDelete
    BY <1>4, ServerWrites, CreateStep, UpdateStep DEF Store!Next
  <1>5. CASE UNCHANGED <<server, keys>> /\ cr'.deleting = cr.deleting
    BY <1>5, DecideStep DEF Store!Next
  <1>6. CASE cr'.deleting # cr.deleting
    BY <1>6, DeletionKept, RequestStep DEF Store!Next
  <1> QED
    BY <1>1, <1>2, <1>3, <1>4, <1>5, <1>6, KeyWrites

\* The KeyValue reconciler implements the store the Stream reconciler does: a
\* promote keeps the keys, primaries never turn into mirrors in place, and keys
\* are destroyed only towards a mirror or once deletion was asked for.
THEOREM KVStoreImplemented == Spec => StoreSpec
  <1>1. Init => Store!Init
    BY DEF Init, NewCR, Store!Init, Applying
  <1> QED
    BY <1>1, StepMaps, TypeCorrect, PassInvariant, PTL
       DEF Spec, StoreSpec, Store!Spec
=============================================================================
