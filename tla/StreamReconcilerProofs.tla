----------------------- MODULE StreamReconcilerProofs -----------------------
(***************************************************************************)
(* What holds of the Stream reconciler for every set of specs, messages    *)
(* and flags, and for every bound on edits, flips, faults and restarts.    *)
(***************************************************************************)
EXTENDS StreamReconciler, FiniteSetTheorems, TLAPS

\* What translation applies is always a configuration the server can hold.
LEMMA EffectiveSpecType ==
    ASSUME NEW r \in Roles, NEW s \in Specs
    PROVE  EffectiveSpec(r, s) \in Configs \ {NoConfig}
  <1>1. s \in Configs \ {NoConfig}
    BY DEF Specs, SpecMirrors, Configs, Mirrors, Vers, NoConfig
  <1>2. ToMirror(s) \in Configs \ {NoConfig}
    BY DEF ToMirror, Specs, SpecMirrors, Configs, Mirrors, Vers, NoConfig
  <1>3. ToPrimary(s) \in Configs \ {NoConfig}
    BY DEF ToPrimary, Specs, SpecMirrors, Configs, Mirrors, Vers, NoConfig
  <1> QED
    BY <1>1, <1>2, <1>3 DEF EffectiveSpec

\* The configuration of phase 1 of a promote is one the server can hold.
LEMMA UnmirroredType ==
    ASSUME NEW c \in Configs
    PROVE  Unmirrored(c) \in Configs
  <1>1. CASE c = NoConfig
    BY <1>1 DEF Unmirrored, Configs, NoConfig
  <1>2. CASE c \in [mirror: Mirrors, subjects: BOOLEAN, ver: Vers]
    BY <1>2 DEF Unmirrored, Configs, Mirrors
  <1> QED
    BY <1>1, <1>2 DEF Configs

\* The number of messages of a stream is a number.
LEMMA CountType ==
    ASSUME NEW S \in SUBSET Msgs
    PROVE  Cardinality(S) \in Nat
  <1>1. IsFiniteSet(S)
    BY MsgsAssumption, FS_Subset
  <1> QED
    BY <1>1, FS_CardinalityType

\* Every freshly created CR is well-formed, whatever spec the user wrote.
LEMMA NewCRType ==
    ASSUME NEW s \in Specs
    PROVE  NewCR(s) \in CRs
  BY DEF NewCR, CRs, Configs, NoConfig, ReadyStates

\* The value of the caches before any read is well-formed.
LEMMA NoCRType == NoCR \in CRs /\ NoCR.spec \in Configs \ {NoConfig}
  <1>1. [mirror |-> "none", subjects |-> FALSE, ver |-> 1] \in Specs
    BY DEF Specs, SpecMirrors, Vers
  <1>2. NoCR \in CRs
    BY <1>1, NewCRType DEF NoCR
  <1>3. NoCR.spec \in Configs \ {NoConfig}
    BY DEF NoCR, NewCR, Configs, NoConfig, Mirrors, Vers
  <1> QED
    BY <1>2, <1>3

\* The initial states are well-typed.
LEMMA InitType == Init => TypeOK
  <1> SUFFICES ASSUME Init PROVE TypeOK
    OBVIOUS
  <1>1. cr \in CRs /\ crCache \in CRs
    BY NewCRType, SpecFormsAssumption DEF Init
  <1>2. obj \in CRs /\ eff \in Configs \ {NoConfig}
    BY NoCRType DEF Init
  <1>3. server \in Configs /\ srv \in Configs /\ updated \in Configs
    BY DEF Init, Configs
  <1>4. left \in [flip: Nat, fault: Nat, crash: Nat, delete: Nat]
    BY BoundsAssumption DEF Init
  <1> QED
    BY <1>1, <1>2, <1>3, <1>4 DEF Init, TypeOK, Roles, PCs, Verdicts

\* A failed call, a write and the end of a pass keep their variables typed.
LEMMA CallFailsType ==
    ASSUME left \in [flip: Nat, fault: Nat, crash: Nat, delete: Nat], CallFails
    PROVE  left' \in [flip: Nat, fault: Nat, crash: Nat, delete: Nat]
  BY DEF CallFails

\* A refused write leaves Kubernetes alone and the bounds numbers.
LEMMA WriteFailsType ==
    ASSUME TypeOK, WriteFails
    PROVE  /\ left' \in [flip: Nat, fault: Nat, crash: Nat, delete: Nat]
           /\ UNCHANGED k8sVars
  BY CallFailsType DEF WriteFails, TypeOK

\* What a pass forgets at its end it forgets in a well-typed way.
LEMMA EndPassType ==
    ASSUME EndPass
    PROVE  /\ obj' \in CRs /\ eff' \in Configs \ {NoConfig} /\ seenRole' \in Roles
           /\ srv' \in Configs /\ promote' \in BOOLEAN /\ count' \in Nat
           /\ updated' \in Configs /\ pc' \in PCs /\ verdict' \in Verdicts
  BY NoCRType DEF EndPass, Roles, Configs, PCs, Verdicts

\* The status of a pass is written from a verdict, never verbatim.
LEMMA StatusOfType ==
    ASSUME NEW c \in CRs, NEW v \in Verdicts
    PROVE  StatusOf(c, v) \in CRs
  <1>1. (IF v \in {"RoleUnknown", "Guarded"} THEN "Errored" ELSE v) \in ReadyStates
    BY DEF Verdicts, ReadyStates
  <1>2. TranslatePassive(seenRole) \in BOOLEAN
    BY DEF TranslatePassive
  <1> QED
    BY <1>1, <1>2 DEF StatusOf, CRs

\* Every step keeps the state well-typed: one case per action of Next.
LEMMA NextType == TypeOK /\ [Next]_vars => TypeOK'
  <1> SUFFICES ASSUME TypeOK, [Next]_vars PROVE TypeOK'
    OBVIOUS
  <1> USE DEF TypeOK, k8sVars, natsVars, backupVars, localVars
  <1>1. CASE ReadCR
    BY <1>1 DEF ReadCR, PCs
  <1>2. CASE InitStatus
    BY <1>2, EndPassType, WriteFailsType DEF InitStatus, Write, CRs, ReadyStates
  <1>3. CASE AddFinalizer
    BY <1>3, EndPassType, WriteFailsType DEF AddFinalizer, Write, CRs
  <1>4. CASE RoleReadFails
    BY <1>4, CallFailsType DEF RoleReadFails, Report, PCs, Verdicts
  <1>5. CASE ReadRole
    BY <1>5, EffectiveSpecType DEF ReadRole, PCs, CRs
  <1>6. CASE LoadGuarded
    BY <1>6 DEF LoadGuarded, LoadCommon, Report, PCs, Verdicts
  <1>7. CASE LoadFlipped
    BY <1>7 DEF LoadFlipped, LoadCommon, PCs
  <1>8. CASE LoadConverged
    BY <1>8 DEF LoadConverged, LoadCommon, Report, PCs, Verdicts
  <1>9. CASE LoadApply
    BY <1>9 DEF LoadApply, LoadCommon, MustPromote, FlipWanted, Guarded, PCs
  <1>10. CASE LoadFails
    BY <1>10, CallFailsType DEF LoadFails, Report, PCs, Verdicts
  <1>11. CASE GateLocal
    BY <1>11, CountType DEF GateLocal, GateCommon, Report, PCs, Verdicts
  <1>12. CASE GateFails
    BY <1>12, CallFailsType DEF GateFails, GateCommon, Report, PCs, Verdicts
  <1>13. CASE GateProbe
    BY <1>13, CallFailsType DEF GateProbe, GateCommon, Report, PCs, Verdicts
  <1>14. CASE RecreateDelete
    BY <1>14, CallFailsType DEF RecreateDelete, Report, PCs, Verdicts, Configs
  <1>15. CASE Create
    BY <1>15, CallFailsType DEF Create, CallCommon, Report, PCs, Verdicts
  <1>16. CASE Unmirror
    BY <1>16, CallFailsType, UnmirroredType DEF Unmirror, CallCommon, Report, PCs, Verdicts
  <1>17. CASE Reload
    BY <1>17, CallFailsType DEF Reload, CallCommon, Report, PCs, Verdicts
  <1>18. CASE UpdateAccepted
    BY <1>18, CallFailsType DEF UpdateAccepted, CallCommon, Report, PCs, Verdicts
  <1>19. CASE UpdateRejected
    BY <1>19 DEF UpdateRejected, CallCommon, Report, PCs, Verdicts
  <1>20. CASE Verify
    BY <1>20, CallFailsType DEF Verify, CallCommon, Report, PCs, Verdicts
  <1>21. CASE Persist
    BY <1>21, WriteFailsType DEF Persist, Write, CRs, Report, PCs, Verdicts
  <1>22. CASE WriteStatus
    BY <1>22, EndPassType, WriteFailsType, StatusOfType DEF WriteStatus, Write
  <1>23. CASE FinalizeStatus
    BY <1>23, EndPassType, WriteFailsType DEF FinalizeStatus, Write, CRs, ReadyStates, PCs
  <1>24. CASE FinalizeLoad
    BY <1>24, EndPassType, CallFailsType DEF FinalizeLoad, PCs
  <1>25. CASE FinalizeDelete
    BY <1>25, EndPassType, CallFailsType DEF FinalizeDelete, PCs, Configs
  <1>26. CASE RemoveFinalizer
    BY <1>26, EndPassType, WriteFailsType DEF RemoveFinalizer, Write, CRs
  <1>27. CASE SyncCR
    BY <1>27 DEF SyncCR
  <1>28. CASE SyncRole
    BY <1>28 DEF SyncRole
  <1>29. CASE EditSpec
    <2>1. PICK s \in SpecForms : cr' = [cr EXCEPT !.spec = s, !.gen = @ + 1]
      BY <1>29 DEF EditSpec
    <2>2. s \in Specs /\ cr.gen + 1 \in Nat
      BY SpecFormsAssumption DEF CRs
    <2>3. cr' \in CRs
      BY <2>1, <2>2 DEF CRs
    <2> QED
      BY <1>29, <2>3 DEF EditSpec
  <1>30. CASE MarkDeleted
    <2>1. cr' \in CRs
      BY <1>30 DEF MarkDeleted, CRs
    <2>2. left' \in [flip: Nat, fault: Nat, crash: Nat, delete: Nat]
      BY <1>30 DEF MarkDeleted
    <2> QED
      BY <1>30, <2>1, <2>2 DEF MarkDeleted
  <1>31. CASE FlipRole
    BY <1>31 DEF FlipRole
  <1>32. CASE Publish
    BY <1>32 DEF Publish
  <1>33. CASE PeerPublish
    BY <1>33 DEF PeerPublish
  <1>34. CASE Replicate
    BY <1>34 DEF Replicate
  <1>35. CASE PeerReplicate
    BY <1>35 DEF PeerReplicate
  <1>36. CASE SourceReleases
    BY <1>36 DEF SourceReleases
  <1>37. CASE SourceClaims
    BY <1>37 DEF SourceClaims
  <1>38. CASE TakeBackup
    BY <1>38 DEF TakeBackup, CRs
  <1>39. CASE ConfirmBackup
    BY <1>39 DEF ConfirmBackup, CRs
  <1>40. CASE Restart
    BY <1>40, EndPassType DEF Restart
  <1>41. CASE UNCHANGED vars
    BY <1>41 DEF vars
  <1> QED
    BY <1>1, <1>2, <1>3, <1>4, <1>5, <1>6, <1>7, <1>8, <1>9, <1>10,
       <1>11, <1>12, <1>13, <1>14, <1>15, <1>16, <1>17, <1>18, <1>19,
       <1>20, <1>21, <1>22, <1>23, <1>24, <1>25, <1>26, <1>27, <1>28,
       <1>29, <1>30, <1>31, <1>32, <1>33, <1>34, <1>35, <1>36, <1>37,
       <1>38, <1>39, <1>40, <1>41 DEF Next, Reconcile, Environment

\* Every reachable state is well-typed: in particular the status never carries
\* a pass's internal verdict, and the server only ever holds configurations
\* that are authored, translated or half-promoted ones.
THEOREM TypeCorrect == Spec => []TypeOK
  <1> QED
    BY InitType, NextType, PTL DEF Spec
-----------------------------------------------------------------------------
(***************************************************************************)
(* The promote and the guard.  Between two calls of a pass nobody but the  *)
(* reconciler changes the server's configuration, so what the pass read of *)
(* it, and what it concluded from the role, still holds at the call that   *)
(* acts on it.                                                              *)
(***************************************************************************)

\* The way to a recreate is open to a target in mirror form only.
RecreateTowardsMirror == pc \in {"gate", "probe", "delete"} => IsMirror(eff)

\* An update is decided on the configuration it will meet.
ViewIsCurrent == pc \in {"unmirror", "update"} => srv = server

CreateOnNothing == pc = "create" => server = NoConfig

FinalizationPCs == {"finalStatus", "finalLoad", "finalDelete", "removeFinalizer"}
FinalizingDeleted == pc \in FinalizationPCs => obj.deleting

\* The two-phase promote is entered under a role that is not passive.
PromoteNotPassive == pc \in {"unmirror", "reload"} => seenRole # "passive"

\* So is, with the recreate flag on, the update that drops a mirror.
UpdateNotPassive ==
    (pc = "update" /\ MirrorToPrimaryFlip(srv, eff) /\ MirrorRecreate)
        => seenRole # "passive"

PassInv ==
    /\ RecreateTowardsMirror /\ ViewIsCurrent /\ CreateOnNothing
    /\ FinalizingDeleted /\ PromoteNotPassive /\ UpdateNotPassive

\* A pass starts from nothing, and an idle reconciler satisfies PassInv.
LEMMA InitPass == Init => PassInv
  BY DEF Init, PassInv, RecreateTowardsMirror, ViewIsCurrent, CreateOnNothing,
         FinalizingDeleted, FinalizationPCs, PromoteNotPassive, UpdateNotPassive

\* A pass that is over owes nothing.
LEMMA IdlePass ==
    ASSUME pc' = "idle"
    PROVE  PassInv'
  BY DEF PassInv, RecreateTowardsMirror, ViewIsCurrent, CreateOnNothing,
         FinalizingDeleted, FinalizationPCs, PromoteNotPassive, UpdateNotPassive

\* Neither does one that has nothing left to do but report.
LEMMA ReportingPass ==
    ASSUME pc' \in {"status", "persist", "verify"}
    PROVE  PassInv'
  BY DEF PassInv, RecreateTowardsMirror, ViewIsCurrent, CreateOnNothing,
         FinalizingDeleted, FinalizationPCs, PromoteNotPassive, UpdateNotPassive

\* Nobody but the reconciler moves what PassInv speaks of.
LEMMA OutsidePass ==
    ASSUME PassInv, UNCHANGED <<server, pc, localVars>>
    PROVE  PassInv'
  BY DEF localVars, PassInv, RecreateTowardsMirror, ViewIsCurrent,
         CreateOnNothing, FinalizingDeleted, FinalizationPCs, PromoteNotPassive,
         UpdateNotPassive, MirrorToPrimaryFlip, IsMirror

\* What createOrUpdate concludes from the state it has just read.
LEMMA FlippedIsMirror ==
    ASSUME NEW c \in Configs, MustRecreate(c)
    PROVE  IsMirror(eff)
  BY DEF MustRecreate, FlipWanted, ConvertActive, MirrorFlipped,
         MirrorToPrimaryFlip, IsMirror

\* A promote is never decided under a passive role.
LEMMA PromotedNotPassive ==
    ASSUME NEW c \in Configs, MustPromote(c)
    PROVE  seenRole # "passive"
  BY DEF MustPromote, Guarded, WouldDemote

\* With the recreate flag on, neither is an update that turns a mirror into a
\* primary.
LEMMA AppliedNotPassive ==
    ASSUME NEW c \in Configs, MayApply(c), ~Guarded(c), c # NoConfig,
           MirrorToPrimaryFlip(c, eff), MirrorRecreate
    PROVE  seenRole # "passive"
  BY DEF MayApply, Guarded, FlipWanted, WouldDemote, MirrorFlipped,
         MirrorToPrimaryFlip

\* A rejection that recreates is one of a target in mirror form.
LEMMA ReactiveIsMirror ==
    ASSUME ReactiveRecreate, srv = server
    PROVE  IsMirror(eff)
  BY DEF ReactiveRecreate, UpdateReply

\* PassInv is inductive, one case per action.
LEMMA NextPass == TypeOK /\ PassInv /\ [Next]_vars => PassInv'
  <1> SUFFICES ASSUME TypeOK, PassInv, [Next]_vars PROVE PassInv'
    OBVIOUS
  <1>1. CASE ReadCR
    BY <1>1 DEF PassInv, RecreateTowardsMirror, ViewIsCurrent,
       CreateOnNothing, FinalizingDeleted, FinalizationPCs,
       PromoteNotPassive, UpdateNotPassive, ReadCR
  <1>2. CASE InitStatus
    BY <1>2, IdlePass DEF EndPass, InitStatus
  <1>3. CASE AddFinalizer
    BY <1>3, IdlePass DEF EndPass, AddFinalizer
  <1>4. CASE RoleReadFails
    BY <1>4, ReportingPass DEF Report, RoleReadFails
  <1>5. CASE ReadRole
    BY <1>5 DEF PassInv, RecreateTowardsMirror, ViewIsCurrent,
       CreateOnNothing, FinalizingDeleted, FinalizationPCs,
       PromoteNotPassive, UpdateNotPassive, ReadRole
  <1>6. CASE LoadGuarded
    BY <1>6, ReportingPass DEF Report, LoadGuarded
  <1>7. CASE LoadFlipped
    BY <1>7, FlippedIsMirror DEF PassInv, RecreateTowardsMirror,
       ViewIsCurrent, CreateOnNothing, FinalizingDeleted, FinalizationPCs,
       PromoteNotPassive, UpdateNotPassive, LoadFlipped, LoadCommon,
       TypeOK
  <1>8. CASE LoadConverged
    BY <1>8, ReportingPass DEF Report, LoadConverged
  <1>9. CASE LoadApply
    BY <1>9, PromotedNotPassive, AppliedNotPassive DEF PassInv,
       RecreateTowardsMirror, ViewIsCurrent, CreateOnNothing,
       FinalizingDeleted, FinalizationPCs, PromoteNotPassive,
       UpdateNotPassive, LoadApply, LoadCommon, TypeOK,
       MirrorToPrimaryFlip, IsMirror, NoConfig, natsVars
  <1>10. CASE LoadFails
    BY <1>10, ReportingPass DEF Report, LoadFails
  <1>11. CASE GateLocal
    BY <1>11, ReportingPass DEF PassInv, RecreateTowardsMirror,
       ViewIsCurrent, CreateOnNothing, FinalizingDeleted, FinalizationPCs,
       PromoteNotPassive, UpdateNotPassive, GateLocal, GateCommon, Report,
       IsMirror, localVars
  <1>12. CASE GateFails
    BY <1>12, ReportingPass DEF Report, GateFails
  <1>13. CASE GateProbe
    BY <1>13, ReportingPass DEF PassInv, RecreateTowardsMirror,
       ViewIsCurrent, CreateOnNothing, FinalizingDeleted, FinalizationPCs,
       PromoteNotPassive, UpdateNotPassive, GateProbe, GateCommon, Report,
       IsMirror, localVars
  <1>14. CASE RecreateDelete
    BY <1>14, ReportingPass DEF PassInv, RecreateTowardsMirror,
       ViewIsCurrent, CreateOnNothing, FinalizingDeleted, FinalizationPCs,
       PromoteNotPassive, UpdateNotPassive, RecreateDelete, Report
  <1>15. CASE Create
    BY <1>15, ReportingPass DEF PassInv, RecreateTowardsMirror,
       ViewIsCurrent, CreateOnNothing, FinalizingDeleted, FinalizationPCs,
       PromoteNotPassive, UpdateNotPassive, Create, Report
  <1>16. CASE Unmirror
    BY <1>16, ReportingPass DEF PassInv, RecreateTowardsMirror,
       ViewIsCurrent, CreateOnNothing, FinalizingDeleted, FinalizationPCs,
       PromoteNotPassive, UpdateNotPassive, Unmirror, Report, CallCommon,
       localVars
  <1>17. CASE Reload
    BY <1>17, ReportingPass DEF PassInv, RecreateTowardsMirror,
       ViewIsCurrent, CreateOnNothing, FinalizingDeleted, FinalizationPCs,
       PromoteNotPassive, UpdateNotPassive, Reload, Report, CallCommon,
       localVars
  <1>18. CASE UpdateAccepted
    BY <1>18, ReportingPass DEF Report, UpdateAccepted
  <1>19. CASE UpdateRejected
    BY <1>19, ReportingPass, ReactiveIsMirror DEF PassInv,
       RecreateTowardsMirror, ViewIsCurrent, CreateOnNothing,
       FinalizingDeleted, FinalizationPCs, PromoteNotPassive,
       UpdateNotPassive, UpdateRejected, Report, CallCommon, IsMirror,
       localVars
  <1>20. CASE Verify
    BY <1>20, ReportingPass DEF Report, Verify
  <1>21. CASE Persist
    BY <1>21, ReportingPass DEF Report, Persist
  <1>22. CASE WriteStatus
    BY <1>22, IdlePass DEF EndPass, WriteStatus
  <1>23. CASE FinalizeStatus
    BY <1>23, IdlePass DEF PassInv, RecreateTowardsMirror, ViewIsCurrent,
       CreateOnNothing, FinalizingDeleted, FinalizationPCs,
       PromoteNotPassive, UpdateNotPassive, FinalizeStatus, EndPass,
       Write, TypeOK, CRs
  <1>24. CASE FinalizeLoad
    BY <1>24, IdlePass DEF PassInv, RecreateTowardsMirror, ViewIsCurrent,
       CreateOnNothing, FinalizingDeleted, FinalizationPCs,
       PromoteNotPassive, UpdateNotPassive, FinalizeLoad, EndPass,
       localVars
  <1>25. CASE FinalizeDelete
    BY <1>25, IdlePass DEF PassInv, RecreateTowardsMirror, ViewIsCurrent,
       CreateOnNothing, FinalizingDeleted, FinalizationPCs,
       PromoteNotPassive, UpdateNotPassive, FinalizeDelete, EndPass,
       localVars
  <1>26. CASE RemoveFinalizer
    BY <1>26, IdlePass DEF EndPass, RemoveFinalizer
  <1>27. CASE SyncCR
    BY <1>27, OutsidePass DEF SyncCR, natsVars
  <1>28. CASE SyncRole
    BY <1>28, OutsidePass DEF SyncRole, natsVars
  <1>29. CASE EditSpec
    BY <1>29, OutsidePass DEF EditSpec, natsVars
  <1>30. CASE MarkDeleted
    BY <1>30, OutsidePass DEF MarkDeleted, natsVars
  <1>31. CASE FlipRole
    BY <1>31, OutsidePass DEF FlipRole, natsVars
  <1>32. CASE Publish
    BY <1>32, OutsidePass DEF Publish
  <1>33. CASE PeerPublish
    BY <1>33, OutsidePass DEF PeerPublish
  <1>34. CASE Replicate
    BY <1>34, OutsidePass DEF Replicate
  <1>35. CASE PeerReplicate
    BY <1>35, OutsidePass DEF PeerReplicate
  <1>36. CASE SourceReleases
    BY <1>36, OutsidePass DEF SourceReleases
  <1>37. CASE SourceClaims
    BY <1>37, OutsidePass DEF SourceClaims
  <1>38. CASE TakeBackup
    BY <1>38, OutsidePass DEF TakeBackup, natsVars
  <1>39. CASE ConfirmBackup
    BY <1>39, OutsidePass DEF ConfirmBackup, natsVars
  <1>40. CASE Restart
    BY <1>40, IdlePass DEF EndPass, Restart
  <1>41. CASE UNCHANGED vars
    BY <1>41, OutsidePass DEF vars, natsVars
  <1> QED
    BY <1>1, <1>2, <1>3, <1>4, <1>5, <1>6, <1>7, <1>8, <1>9, <1>10, <1>11,
       <1>12, <1>13, <1>14, <1>15, <1>16, <1>17, <1>18, <1>19, <1>20,
       <1>21, <1>22, <1>23, <1>24, <1>25, <1>26, <1>27, <1>28, <1>29,
       <1>30, <1>31, <1>32, <1>33, <1>34, <1>35, <1>36, <1>37, <1>38,
       <1>39, <1>40, <1>41 DEF Next, Reconcile, Environment

\* What a pass has read of the server, and concluded from the role, still holds
\* at the call that acts on it: nobody else writes the stream meanwhile.
THEOREM PassInvariant == Spec => []PassInv
  <1> QED
    BY TypeCorrect, InitPass, NextPass, PTL DEF Spec

\* The two deletes are the only steps that take a message from the stream.
LEMMA OnlyDeletesDrop ==
    ASSUME [Next]_vars, ~RecreateDelete, ~FinalizeDelete
    PROVE  msgs \subseteq msgs'
  <1>1. CASE Reconcile
    BY <1>1 DEF natsVars, LoadCommon, GateCommon, CallCommon, Reconcile,
       ReadCR, InitStatus, AddFinalizer, RoleReadFails, ReadRole,
       LoadGuarded, LoadFlipped, LoadConverged, LoadApply, LoadFails,
       GateLocal, GateFails, GateProbe, Create, Unmirror, Reload,
       UpdateAccepted, UpdateRejected, Verify, Persist, WriteStatus,
       FinalizeStatus, FinalizeLoad, RemoveFinalizer
  <1>2. CASE Environment
    BY <1>2 DEF natsVars, Environment, Publish, Replicate, SyncCR,
       SyncRole, EditSpec, MarkDeleted, FlipRole, PeerPublish,
       PeerReplicate, SourceReleases, SourceClaims, TakeBackup,
       ConfirmBackup, Restart
  <1>3. CASE UNCHANGED vars
    BY <1>3 DEF vars, natsVars
  <1> QED
    BY <1>1, <1>2, <1>3 DEF Next

\* No reachable step of the promote loses a replicated message: the only
\* destructive call outside finalization serves a target in mirror form.
THEOREM PromoteSafe == Spec => PromoteKeepsMessages
  <1>1. PassInv /\ [Next]_vars => (msgs \subseteq msgs' \/ obj.deleting \/ IsMirror(eff))
    <2> SUFFICES ASSUME PassInv, [Next]_vars
                 PROVE  msgs \subseteq msgs' \/ obj.deleting \/ IsMirror(eff)
      OBVIOUS
    <2>1. CASE RecreateDelete
      BY <2>1 DEF RecreateDelete, PassInv, RecreateTowardsMirror
    <2>2. CASE FinalizeDelete
      BY <2>2 DEF FinalizeDelete, PassInv, FinalizingDeleted, FinalizationPCs
    <2> QED
      BY <2>1, <2>2, OnlyDeletesDrop
  <1> QED
    BY <1>1, PassInvariant, PTL DEF Spec, PromoteKeepsMessages

\* The steps that may write the server's configuration.
LEMMA ServerWrites ==
    ASSUME [Next]_vars, server' # server
    PROVE  RecreateDelete \/ Create \/ Unmirror \/ UpdateAccepted \/ FinalizeDelete
  <1>1. CASE Reconcile
    BY <1>1 DEF natsVars, LoadCommon, GateCommon, CallCommon, Reconcile,
       ReadCR, InitStatus, AddFinalizer, RoleReadFails, ReadRole,
       LoadGuarded, LoadFlipped, LoadConverged, LoadApply, LoadFails,
       GateLocal, GateFails, GateProbe, Reload, UpdateRejected, Verify,
       Persist, WriteStatus, FinalizeStatus, FinalizeLoad, RemoveFinalizer
  <1>2. CASE Environment
    BY <1>2 DEF natsVars, Environment, SyncCR, SyncRole, EditSpec,
       MarkDeleted, FlipRole, Publish, PeerPublish, Replicate,
       PeerReplicate, SourceReleases, SourceClaims, TakeBackup,
       ConfirmBackup, Restart
  <1>3. CASE UNCHANGED vars
    BY <1>3 DEF vars, natsVars
  <1> QED
    BY <1>1, <1>2, <1>3 DEF Next

\* With --mirror-recreate-on-conflict on, a pass that read a passive role never
\* makes a primary of a mirror, whatever the specs, the role's flips, the
\* faults and the restarts.
THEOREM GuardSafe ==
    ASSUME MirrorRecreate
    PROVE  Spec => GuardHolds
  <1> DEFINE Demotes == /\ IsMirror(server) /\ ~IsMirror(server')
                        /\ seenRole = "passive" /\ ~IsMirror(eff) /\ ~obj.deleting
  <1>1. PassInv /\ [Next]_vars => ~Demotes
    <2> SUFFICES ASSUME PassInv, [Next]_vars, Demotes
                 PROVE  FALSE
      OBVIOUS
    <2>1. RecreateDelete \/ Create \/ Unmirror \/ UpdateAccepted \/ FinalizeDelete
      BY ServerWrites
    <2>2. CASE RecreateDelete
      BY <2>2 DEF RecreateDelete, PassInv, RecreateTowardsMirror
    <2>3. CASE Create
      BY <2>3 DEF Create, PassInv, CreateOnNothing, NoConfig, IsMirror
    <2>4. CASE Unmirror
      BY <2>4 DEF Unmirror, PassInv, PromoteNotPassive
    <2>5. CASE UpdateAccepted
      BY <2>5 DEF UpdateAccepted, PassInv, ViewIsCurrent, UpdateNotPassive,
                  MirrorToPrimaryFlip
    <2>6. CASE FinalizeDelete
      BY <2>6 DEF FinalizeDelete, PassInv, FinalizingDeleted, FinalizationPCs
    <2> QED
      BY <2>1, <2>2, <2>3, <2>4, <2>5, <2>6
  <1>2. PassInv /\ [Next]_vars
            => ((IsMirror(server) /\ ~IsMirror(server') /\ seenRole = "passive")
                    => IsMirror(eff) \/ obj.deleting)
    BY <1>1
  <1> QED
    BY <1>2, PassInvariant, PTL DEF Spec, GuardHolds
-----------------------------------------------------------------------------
(***************************************************************************)
(* Finalization, for as long as no call has failed.                        *)
(***************************************************************************)

ApplyingPCs == PCs \ (FinalizationPCs \cup {"idle", "initStatus", "addFinalizer"})

\* The life of the CR's finalizer: it is there before the stream is, and gone
\* only after the stream and before the CR.
FinalizerLife ==
    /\ ~cr.deleting => cr.present
    /\ ~cr.present => ~cr.finalizer
    /\ ~cr.finalizer => server = NoConfig

\* A cache that lags still tells enough to keep a pass from creating the
\* stream once the finalizer has been removed.
CacheLags ==
    /\ crCache.deleting => cr.deleting
    /\ crCache.finalizer /\ ~crCache.deleting => cr.finalizer

PassFinalizer ==
    /\ pc = "addFinalizer" => ~obj.deleting
    /\ pc \in FinalizationPCs => crCache.deleting
    /\ pc \in ApplyingPCs => cr.finalizer
    /\ pc = "removeFinalizer" => server = NoConfig

DeletionInv ==
    /\ left.fault <= MaxFaults
    /\ left.fault = MaxFaults => FinalizerLife /\ CacheLags /\ PassFinalizer

\* The CR may be finalized for good.
FinalizationAllowed == ~PreventDelete /\ ~ReadOnly

\* At the start no CR is marked and no call has failed.
LEMMA InitDeletion == Init => DeletionInv
  BY BoundsAssumption
     DEF Init, NewCR, DeletionInv, FinalizerLife, CacheLags, PassFinalizer,
         FinalizationPCs, ApplyingPCs

\* What the environment may still inject changes by a failed call, a deletion, a
\* flip or a restart.
LEMMA LeftSource ==
    ASSUME [Next]_vars
    PROVE  UNCHANGED left \/ CallFails \/ MarkDeleted \/ FlipRole \/ Restart
  <1>1. ReadCR \/ ReadRole \/ LoadGuarded \/ LoadFlipped \/ LoadConverged
        \/ LoadApply \/ GateLocal \/ UpdateRejected => UNCHANGED left
    BY DEF ReadCR, ReadRole, LoadGuarded, LoadFlipped, LoadConverged, LoadApply,
       LoadCommon, GateLocal, UpdateRejected
  <1>2. RoleReadFails \/ LoadFails \/ GateFails => UNCHANGED left \/ CallFails
    BY DEF RoleReadFails, LoadFails, GateFails
  <1>3. GateProbe \/ RecreateDelete \/ Create \/ Unmirror => UNCHANGED left \/ CallFails
    BY DEF GateProbe, RecreateDelete, Create, Unmirror
  <1>4. Reload \/ UpdateAccepted \/ Verify => UNCHANGED left \/ CallFails
    BY DEF Reload, UpdateAccepted, Verify
  <1>5. InitStatus \/ AddFinalizer \/ Persist \/ WriteStatus \/ FinalizeStatus
        \/ RemoveFinalizer => UNCHANGED left \/ CallFails
    BY DEF InitStatus, AddFinalizer, Persist, WriteStatus, FinalizeStatus,
       RemoveFinalizer, WriteFails
  <1>6. FinalizeLoad \/ FinalizeDelete => UNCHANGED left \/ CallFails
    BY DEF FinalizeLoad, FinalizeDelete
  <1>7. SyncCR \/ SyncRole \/ EditSpec \/ Publish \/ PeerPublish \/ Replicate
         \/ PeerReplicate \/ SourceReleases \/ SourceClaims \/ TakeBackup
         \/ ConfirmBackup => UNCHANGED left
    BY DEF SyncCR, SyncRole, EditSpec, Publish, PeerPublish, Replicate,
       PeerReplicate, SourceReleases, SourceClaims, TakeBackup, ConfirmBackup
  <1>8. UNCHANGED vars => UNCHANGED left
    BY DEF vars
  <1> QED
    BY <1>1, <1>2, <1>3, <1>4, <1>5, <1>6, <1>7, <1>8
       DEF Next, Reconcile, Environment

\* The budget of failures only shrinks.
LEMMA FaultsCounted ==
    ASSUME TypeOK, [Next]_vars
    PROVE  left'.fault <= left.fault
  <1>0. left \in [flip: Nat, fault: Nat, crash: Nat, delete: Nat]
    BY DEF TypeOK
  <1>1. CASE UNCHANGED left \/ CallFails
    BY <1>0, <1>1 DEF CallFails
  <1>2. CASE MarkDeleted
    BY <1>0, <1>2 DEF MarkDeleted
  <1>3. CASE FlipRole
    BY <1>0, <1>3 DEF FlipRole
  <1>4. CASE Restart
    BY <1>0, <1>4 DEF Restart
  <1> QED
    BY <1>1, <1>2, <1>3, <1>4, LeftSource

\* A write that fails although no call does fails on a conflict.
LEMMA ConflictOnly ==
    ASSUME ~CallFails, WriteFails
    PROVE  UNCHANGED left /\ UNCHANGED k8sVars
  BY DEF WriteFails

\* DeletionInv is inductive: a CR outlives its stream until a call fails.
LEMMA NextDeletion ==
    ASSUME FinalizationAllowed
    PROVE  TypeOK /\ PassInv /\ DeletionInv /\ [Next]_vars => DeletionInv'
  <1> SUFFICES ASSUME TypeOK, PassInv, DeletionInv, [Next]_vars PROVE DeletionInv'
    OBVIOUS
  <1>t. left.fault \in Nat /\ left'.fault \in Nat /\ MaxFaults \in Nat
    BY NextType, BoundsAssumption DEF TypeOK
  <1>d. left'.fault <= left.fault /\ left.fault <= MaxFaults
    BY FaultsCounted DEF DeletionInv
  <1> SUFFICES ASSUME left'.fault = MaxFaults
               PROVE  (FinalizerLife /\ CacheLags /\ PassFinalizer)'
    BY <1>t, <1>d DEF DeletionInv
  <1>b. left.fault = MaxFaults
    BY <1>t, <1>d
  <1>0. ~CallFails
    BY <1>b, BoundsAssumption DEF CallFails, TypeOK
  <1>c. FinalizerLife /\ CacheLags /\ PassFinalizer
    BY <1>b DEF DeletionInv
  <1> USE <1>c DEF FinalizerLife, CacheLags, PassFinalizer, FinalizationPCs,
              ApplyingPCs, PCs, k8sVars, natsVars, localVars
  <1>1. CASE ReadCR
    BY <1>1 DEF ReadCR
  <1>2. CASE InitStatus
    BY <1>2, <1>0, ConflictOnly DEF InitStatus, EndPass, Write, TypeOK, CRs
  <1>3. CASE AddFinalizer
    BY <1>3, <1>0, ConflictOnly DEF AddFinalizer, EndPass, Write, TypeOK, CRs
  <1>4. CASE RoleReadFails
    BY <1>4, <1>0 DEF RoleReadFails
  <1>5. CASE LoadFails
    BY <1>5, <1>0 DEF LoadFails, Report
  <1>6. CASE GateFails
    BY <1>6, <1>0 DEF GateFails
  <1>7. CASE ReadRole
    BY <1>7 DEF ReadRole
  <1>8. CASE LoadGuarded
    BY <1>8 DEF LoadGuarded, LoadCommon, Report
  <1>9. CASE LoadFlipped
    BY <1>9 DEF LoadFlipped, LoadCommon, Report
  <1>10. CASE LoadConverged
    BY <1>10 DEF LoadConverged, LoadCommon, Report
  <1>11. CASE LoadApply
    BY <1>11 DEF LoadApply, LoadCommon, Report
  <1>12. CASE GateLocal
    BY <1>12 DEF GateLocal, GateCommon, Report
  <1>13. CASE GateProbe
    BY <1>13, <1>0 DEF GateProbe, GateCommon, Report
  <1>14. CASE RecreateDelete
    BY <1>14, <1>0 DEF RecreateDelete, Report
  <1>15. CASE Create
    BY <1>15, <1>0 DEF Create, CallCommon, Report
  <1>16. CASE Unmirror
    BY <1>16, <1>0 DEF Unmirror, CallCommon, Report
  <1>17. CASE Reload
    BY <1>17, <1>0 DEF Reload, CallCommon, Report
  <1>18. CASE UpdateAccepted
    BY <1>18, <1>0 DEF UpdateAccepted, CallCommon, Report
  <1>19. CASE Verify
    BY <1>19, <1>0 DEF Verify, CallCommon, Report
  <1>20. CASE UpdateRejected
    BY <1>20 DEF UpdateRejected, CallCommon, Report
  <1>21. CASE Persist
    BY <1>21, <1>0, ConflictOnly DEF Persist, Write, Report, TypeOK, CRs
  <1>22. CASE WriteStatus
    BY <1>22, <1>0, ConflictOnly DEF WriteStatus, EndPass, Write, StatusOf,
       TypeOK, CRs
  <1>23. CASE FinalizeStatus
    BY <1>23, <1>0, ConflictOnly DEF FinalizeStatus, EndPass, Write, FinalizationAllowed,
       TypeOK, CRs
  <1>24. CASE FinalizeLoad
    BY <1>24, <1>0 DEF FinalizeLoad
  <1>25. CASE FinalizeDelete
    BY <1>25, <1>0 DEF FinalizeDelete
  <1>26. CASE RemoveFinalizer
    BY <1>26, <1>0, ConflictOnly DEF RemoveFinalizer, EndPass, Write, PassInv,
       FinalizingDeleted, TypeOK, CRs
  <1>27. CASE SyncCR
    BY <1>27 DEF SyncCR
  <1>28. CASE SyncRole
    BY <1>28 DEF SyncRole
  <1>29. CASE EditSpec
    BY <1>29 DEF EditSpec, TypeOK, CRs
  <1>30. CASE MarkDeleted
    BY <1>30 DEF MarkDeleted, TypeOK, CRs
  <1>31. CASE FlipRole
    BY <1>31 DEF FlipRole, TypeOK
  <1>32. CASE Publish
    BY <1>32 DEF Publish
  <1>33. CASE PeerPublish
    BY <1>33 DEF PeerPublish
  <1>34. CASE Replicate
    BY <1>34 DEF Replicate
  <1>35. CASE PeerReplicate
    BY <1>35 DEF PeerReplicate
  <1>36. CASE SourceReleases
    BY <1>36 DEF SourceReleases
  <1>37. CASE SourceClaims
    BY <1>37 DEF SourceClaims
  <1>38. CASE TakeBackup
    BY <1>38 DEF TakeBackup
  <1>39. CASE ConfirmBackup
    BY <1>39 DEF ConfirmBackup, TypeOK, CRs
  <1>40. CASE Restart
    BY <1>40 DEF Restart, TypeOK, EndPass
  <1>41. CASE UNCHANGED vars
    BY <1>41 DEF vars
  <1> QED
    BY <1>1, <1>2, <1>3, <1>4, <1>5, <1>6, <1>7, <1>8, <1>9, <1>10, <1>11,
       <1>12, <1>13, <1>14, <1>15, <1>16, <1>17, <1>18, <1>19, <1>20,
       <1>21, <1>22, <1>23, <1>24, <1>25, <1>26, <1>27, <1>28, <1>29,
       <1>30, <1>31, <1>32, <1>33, <1>34, <1>35, <1>36, <1>37, <1>38,
       <1>39, <1>40, <1>41 DEF Next, Reconcile, Environment

\* As long as no call has failed, the CR goes only after its stream: whatever
\* pass the deletion overtakes, whatever cache that pass and the finalization
\* after it have read, and wherever the controller restarts.
THEOREM FinalizationLeavesNothing ==
    ASSUME FinalizationAllowed
    PROVE  Spec => []NoOrphanYet
  <1>1. Init => DeletionInv
    BY InitDeletion
  <1>2. TypeOK /\ PassInv /\ DeletionInv /\ [Next]_vars => DeletionInv'
    BY NextDeletion
  <1>3. DeletionInv => NoOrphanYet
    BY DEF DeletionInv, FinalizerLife, NoOrphanYet
  <1> QED
    BY <1>1, <1>2, <1>3, TypeCorrect, PassInvariant, PTL DEF Spec
-----------------------------------------------------------------------------
(***************************************************************************)
(* The refinement.  The Stream reconciler implements ReplicatedStore, for  *)
(* every set of specs, messages and flags and every bound: with the        *)
(* configuration of the NATS stream as its form and its messages as its    *)
(* data, each step of StreamReconciler is a step of the store.  Most steps *)
(* move neither the stream nor the request to delete it and are the        *)
(* store's Decide; the others are mapped one by one.                        *)
(***************************************************************************)

\* A request to delete the CR is not withdrawn, so who has seen one may act.
DeletionSeen ==
    /\ crCache.deleting => cr.deleting
    /\ obj.deleting => cr.deleting

\* The two phases of a promote serve a target that is a primary.
PromoteTowardsPrimary == pc = "unmirror" => ~IsMirror(eff)

MappingInv == DeletionSeen /\ PromoteTowardsPrimary

\* Nobody has seen a deletion before there is one.
LEMMA InitMapping == Init => MappingInv
  BY DEF Init, NewCR, NoCR, MappingInv, DeletionSeen, PromoteTowardsPrimary

\* Nobody unmarks a CR, and only MarkDeleted marks it.
LEMMA DeletionKept ==
    ASSUME TypeOK, [Next]_vars
    PROVE  cr'.deleting = cr.deleting \/ (MarkDeleted /\ cr'.deleting = TRUE)
  <1> USE DEF k8sVars, TypeOK, CRs
  <1>1. CASE UNCHANGED cr
    BY <1>1
  <1>2. CASE InitStatus \/ AddFinalizer \/ Persist \/ FinalizeStatus \/ RemoveFinalizer
    BY <1>2 DEF InitStatus, AddFinalizer, Persist, FinalizeStatus, RemoveFinalizer,
                Write, WriteFails
  <1>3. CASE WriteStatus
    BY <1>3 DEF WriteStatus, StatusOf, Write, WriteFails
  <1>4. CASE EditSpec \/ ConfirmBackup
    BY <1>4 DEF EditSpec, ConfirmBackup
  <1>5. CASE MarkDeleted
    BY <1>5 DEF MarkDeleted
  <1>6. CASE ReadCR \/ RoleReadFails \/ ReadRole \/ LoadGuarded \/ LoadFlipped
             \/ LoadConverged \/ LoadApply \/ LoadFails \/ GateLocal \/ GateFails
             \/ GateProbe \/ RecreateDelete
    BY <1>6, <1>1 DEF ReadCR, RoleReadFails, ReadRole, LoadGuarded, LoadFlipped,
                LoadConverged, LoadApply, LoadCommon, LoadFails, GateLocal,
                GateFails, GateProbe, GateCommon, RecreateDelete
  <1>7. CASE Create \/ Unmirror \/ Reload \/ UpdateAccepted \/ UpdateRejected
             \/ Verify \/ FinalizeLoad \/ FinalizeDelete
    BY <1>7, <1>1 DEF Create, Unmirror, Reload, UpdateAccepted, UpdateRejected,
                Verify, CallCommon, FinalizeLoad, FinalizeDelete
  <1>8. CASE SyncCR \/ SyncRole \/ FlipRole \/ Publish \/ PeerPublish \/ Replicate
             \/ PeerReplicate \/ SourceReleases \/ SourceClaims \/ TakeBackup \/ Restart
    BY <1>8, <1>1 DEF SyncCR, SyncRole, FlipRole, Publish, PeerPublish, Replicate,
                PeerReplicate, SourceReleases, SourceClaims, TakeBackup, Restart
  <1>9. CASE UNCHANGED vars
    BY <1>9, <1>1 DEF vars
  <1> QED
    BY <1>2, <1>3, <1>4, <1>5, <1>6, <1>7, <1>8, <1>9
       DEF Next, Reconcile, Environment

\* Where a pass's copy of the CR comes from.
LEMMA CopySource ==
    ASSUME [Next]_vars
    PROVE  \/ UNCHANGED obj \/ obj' = crCache \/ obj' = cr' \/ obj' = NoCR
  <1>1. CASE ReadCR \/ Persist \/ FinalizeStatus \/ FinalizeLoad \/ FinalizeDelete
    BY <1>1 DEF ReadCR, Persist, FinalizeStatus, FinalizeLoad, FinalizeDelete,
                EndPass, localVars
  <1>2. CASE InitStatus \/ AddFinalizer \/ WriteStatus \/ RemoveFinalizer \/ Restart
    BY <1>2 DEF InitStatus, AddFinalizer, WriteStatus, RemoveFinalizer, Restart, EndPass
  <1>3. CASE RoleReadFails \/ ReadRole \/ LoadGuarded \/ LoadFlipped \/ LoadConverged
             \/ LoadApply \/ LoadFails \/ GateLocal \/ GateFails \/ GateProbe
             \/ RecreateDelete
    BY <1>3 DEF RoleReadFails, ReadRole, LoadGuarded, LoadFlipped, LoadConverged,
                LoadApply, LoadCommon, LoadFails, GateLocal, GateFails, GateProbe,
                GateCommon, RecreateDelete
  <1>4. CASE Create \/ Unmirror \/ Reload \/ UpdateAccepted \/ UpdateRejected \/ Verify
    BY <1>4 DEF Create, Unmirror, Reload, UpdateAccepted, UpdateRejected, Verify,
                CallCommon
  <1>5. CASE Environment /\ ~Restart
    BY <1>5 DEF Environment, SyncCR, SyncRole, EditSpec, MarkDeleted, FlipRole,
                Publish, PeerPublish, Replicate, PeerReplicate, SourceReleases,
                SourceClaims, TakeBackup, ConfirmBackup, localVars
  <1>6. CASE UNCHANGED vars
    BY <1>6 DEF vars, localVars
  <1> QED
    BY <1>1, <1>2, <1>3, <1>4, <1>5, <1>6 DEF Next, Reconcile

\* The informer shows what the API server has or had.
LEMMA CacheSource ==
    ASSUME [Next]_vars
    PROVE  UNCHANGED crCache \/ crCache' = cr
  <1> USE DEF k8sVars, Write, WriteFails
  <1>1. CASE ReadCR \/ InitStatus \/ AddFinalizer \/ RoleReadFails \/ ReadRole
             \/ Persist \/ WriteStatus \/ FinalizeStatus \/ FinalizeLoad
             \/ FinalizeDelete \/ RemoveFinalizer
    BY <1>1 DEF ReadCR, InitStatus, AddFinalizer, RoleReadFails, ReadRole, Persist,
                WriteStatus, FinalizeStatus, FinalizeLoad, FinalizeDelete,
                RemoveFinalizer
  <1>2. CASE LoadGuarded \/ LoadFlipped \/ LoadConverged \/ LoadApply \/ LoadFails
             \/ GateLocal \/ GateFails \/ GateProbe \/ RecreateDelete
    BY <1>2 DEF LoadGuarded, LoadFlipped, LoadConverged, LoadApply, LoadCommon,
                LoadFails, GateLocal, GateFails, GateProbe, GateCommon, RecreateDelete
  <1>3. CASE Create \/ Unmirror \/ Reload \/ UpdateAccepted \/ UpdateRejected \/ Verify
    BY <1>3 DEF Create, Unmirror, Reload, UpdateAccepted, UpdateRejected, Verify,
                CallCommon
  <1>4. CASE Environment
    BY <1>4 DEF Environment, SyncCR, SyncRole, EditSpec, MarkDeleted, FlipRole,
                Publish, PeerPublish, Replicate, PeerReplicate, SourceReleases,
                SourceClaims, TakeBackup, ConfirmBackup, Restart
  <1>5. CASE UNCHANGED vars
    BY <1>5 DEF vars
  <1> QED
    BY <1>1, <1>2, <1>3, <1>4, <1>5 DEF Next, Reconcile

\* The two-phase promote is entered for a target that drops the mirror.
LEMMA PromoteTarget ==
    ASSUME TypeOK, [Next]_vars, PromoteTowardsPrimary
    PROVE  PromoteTowardsPrimary'
  <1> USE DEF PromoteTowardsPrimary
  <1>1. CASE LoadApply
    BY <1>1 DEF LoadApply, LoadCommon, MustPromote, MirrorToPrimaryFlip
  <1>2. CASE InitStatus \/ AddFinalizer \/ WriteStatus \/ RemoveFinalizer \/ Restart
             \/ FinalizeStatus \/ FinalizeLoad \/ FinalizeDelete
    BY <1>2 DEF InitStatus, AddFinalizer, WriteStatus, RemoveFinalizer, Restart,
                FinalizeStatus, FinalizeLoad, FinalizeDelete, EndPass
  <1>3. CASE ReadCR \/ RoleReadFails \/ ReadRole \/ LoadGuarded \/ LoadFlipped
             \/ LoadConverged \/ LoadFails \/ GateLocal \/ GateFails \/ GateProbe
             \/ RecreateDelete
    BY <1>3 DEF ReadCR, RoleReadFails, ReadRole, LoadGuarded, LoadFlipped,
                LoadConverged, LoadFails, GateLocal, GateFails, GateProbe,
                RecreateDelete, Report
  <1>4. CASE Create \/ Unmirror \/ Reload \/ UpdateAccepted \/ UpdateRejected
             \/ Verify \/ Persist
    BY <1>4 DEF Create, Unmirror, Reload, UpdateAccepted, UpdateRejected, Verify,
                Persist, Report
  <1>5. CASE Environment /\ ~Restart
    BY <1>5 DEF Environment, SyncCR, SyncRole, EditSpec, MarkDeleted, FlipRole,
                Publish, PeerPublish, Replicate, PeerReplicate, SourceReleases,
                SourceClaims, TakeBackup, ConfirmBackup, localVars, IsMirror
  <1>6. CASE UNCHANGED vars
    BY <1>6 DEF vars, localVars, IsMirror
  <1> QED
    BY <1>1, <1>2, <1>3, <1>4, <1>5, <1>6 DEF Next, Reconcile

\* MappingInv is inductive: deletions seen stay requested, and a promote serves
\* a primary until it is over.
LEMMA NextMapping == TypeOK /\ MappingInv /\ [Next]_vars => MappingInv'
  <1> SUFFICES ASSUME TypeOK, MappingInv, [Next]_vars PROVE MappingInv'
    OBVIOUS
  <1>1. cr.deleting => cr'.deleting
    BY DeletionKept
  <1>2. crCache'.deleting => cr'.deleting
    BY <1>1, CacheSource DEF MappingInv, DeletionSeen
  <1>3. obj'.deleting => cr'.deleting
    <2>1. ~NoCR.deleting
      BY DEF NoCR, NewCR
    <2> QED
      BY <1>1, <2>1, CopySource DEF MappingInv, DeletionSeen
  <1> QED
    BY <1>2, <1>3, PromoteTarget DEF MappingInv, DeletionSeen

\* The steps that move the stream's messages.
LEMMA MessageWrites ==
    ASSUME [Next]_vars, msgs' # msgs
    PROVE  RecreateDelete \/ FinalizeDelete \/ Publish \/ Replicate
  <1>1. CASE Reconcile
    BY <1>1 DEF natsVars, LoadCommon, GateCommon, CallCommon, Reconcile,
       ReadCR, InitStatus, AddFinalizer, RoleReadFails, ReadRole,
       LoadGuarded, LoadFlipped, LoadConverged, LoadApply, LoadFails,
       GateLocal, GateFails, GateProbe, Create, Unmirror, Reload,
       UpdateAccepted, UpdateRejected, Verify, Persist, WriteStatus,
       FinalizeStatus, FinalizeLoad, RemoveFinalizer
  <1>2. CASE Environment
    BY <1>2 DEF natsVars, Environment, Publish, Replicate, SyncCR,
       SyncRole, EditSpec, MarkDeleted, FlipRole, PeerPublish,
       PeerReplicate, SourceReleases, SourceClaims, TakeBackup,
       ConfirmBackup, Restart
  <1>3. CASE UNCHANGED vars
    BY <1>3 DEF vars, natsVars
  <1> QED
    BY <1>1, <1>2, <1>3 DEF Next
(* The mapping, step by step. *)

Want == IF Applying THEN FormOf(eff) ELSE "none"

\* The form only depends on the configuration.
LEMMA FormUnchanged ==
    ASSUME UNCHANGED server
    PROVE  FormOf(server)' = FormOf(server)
  BY DEF FormOf, IsMirror

\* A call of createOrUpdate leaves the target of the pass alone.
LEMMA WantUnchanged ==
    ASSUME Applying, Applying', UNCHANGED eff
    PROVE  Want' = Want
  BY DEF Want, FormOf, IsMirror

\* A step that moves neither the stream nor the request is one of the store's
\* decisions.
LEMMA DecideStep ==
    ASSUME TypeOK', UNCHANGED <<server, msgs, cr.deleting>>
    PROVE  Store!Decide
  <1>1. Want' \in {"none", "mirror", "primary"}
    BY DEF Want, FormOf, TypeOK
  <1> QED
    BY <1>1, FormUnchanged DEF Store!Decide, Want

\* A create that the server accepts makes an empty store in the form wanted.
LEMMA CreateStep ==
    ASSUME TypeOK, PassInv, Create, server' # server
    PROVE  Store!Create
  <1>1. server = NoConfig /\ server' = eff /\ eff # NoConfig
    BY DEF Create, PassInv, CreateOnNothing, TypeOK
  <1>2. Applying /\ Applying' /\ UNCHANGED eff
    BY DEF Create, CallCommon, Report, Applying
  <1>3. UNCHANGED <<msgs, cr.deleting>>
    BY DEF Create, CallCommon, k8sVars
  <1>4. Want' = Want /\ Want = FormOf(eff)
    BY <1>2, WantUnchanged DEF Want
  <1>5. FormOf(server) = "absent" /\ FormOf(server)' = FormOf(eff)
    BY <1>1 DEF FormOf, IsMirror
  <1>6. FormOf(eff) # "none"
    BY DEF FormOf
  <1> QED
    BY <1>3, <1>4, <1>5, <1>6 DEF Store!Create, Want

\* Phase 1 of a promote: what it updates is the mirror the pass has read, or a
\* primary already.
LEMMA UnmirrorStep ==
    ASSUME TypeOK, PassInv, MappingInv, Unmirror, server' # server
    PROVE  Store!Promote \/ Store!Decide
  <1>1. server # NoConfig /\ server' = Unmirrored(server)
    BY DEF Unmirror, PassInv, ViewIsCurrent
  <1>2. Applying /\ Applying' /\ UNCHANGED eff
    BY DEF Unmirror, CallCommon, Report, Applying
  <1>3. UNCHANGED <<msgs, cr.deleting>>
    BY DEF Unmirror, CallCommon, k8sVars
  <1>4. Want = "primary" /\ Want' = Want
    BY <1>2, WantUnchanged
       DEF Want, FormOf, MappingInv, PromoteTowardsPrimary, Unmirror, TypeOK
  <1>5. server.ver # 0
    BY <1>1 DEF TypeOK, Configs, Vers
  <1>6. FormOf(server)' = "primary"
    BY <1>1, <1>5 DEF FormOf, Unmirrored, IsMirror, NoConfig
  <1>7. FormOf(server) \in {"mirror", "primary"}
    BY <1>1 DEF FormOf
  <1> QED
    BY <1>3, <1>4, <1>6, <1>7 DEF Store!Promote, Store!Decide, Want

\* An accepted update promotes, or keeps the form.
LEMMA UpdateStep ==
    ASSUME TypeOK, PassInv, UpdateAccepted, server' # server
    PROVE  Store!Promote \/ Store!Decide
  <1>1. server # NoConfig /\ server' = eff /\ eff # NoConfig
    BY DEF UpdateAccepted, UpdateReply, TypeOK
  <1>2. IsMirror(eff) => IsMirror(server)
    BY DEF UpdateAccepted, UpdateReply, IsMirror
  <1>3. Applying /\ Applying' /\ UNCHANGED eff
    BY DEF UpdateAccepted, CallCommon, Report, Applying
  <1>4. UNCHANGED <<msgs, cr.deleting>>
    BY DEF UpdateAccepted, CallCommon, k8sVars
  <1>5. Want = FormOf(eff) /\ Want' = Want
    BY <1>3, WantUnchanged DEF Want
  <1>6. FormOf(server)' = FormOf(eff)
    BY <1>1 DEF FormOf, IsMirror
  <1>7. CASE IsMirror(eff)
    BY <1>1, <1>2, <1>4, <1>5, <1>6, <1>7 DEF Store!Decide, Want, FormOf
  <1>8. CASE ~IsMirror(eff)
    BY <1>1, <1>4, <1>5, <1>6, <1>8 DEF Store!Promote, Store!Decide, Want, FormOf
  <1> QED
    BY <1>7, <1>8

\* The delete of a recreate empties a store that is to be a mirror.
LEMMA RecreateStep ==
    ASSUME TypeOK, PassInv, RecreateDelete, ~UNCHANGED <<server, msgs>>
    PROVE  Store!Replace
  <1>1. IsMirror(eff) /\ eff # NoConfig
    BY DEF RecreateDelete, PassInv, RecreateTowardsMirror, TypeOK
  <1>2. Applying /\ Applying' /\ UNCHANGED eff
    BY DEF RecreateDelete, Report, Applying
  <1>3. server' = NoConfig /\ msgs' = {} /\ UNCHANGED cr.deleting
    BY DEF RecreateDelete, k8sVars
  <1>4. Want = "mirror" /\ Want' = Want
    BY <1>1, <1>2, WantUnchanged DEF Want, FormOf
  <1>5. FormOf(server)' = "absent"
    BY <1>3 DEF FormOf
  <1> QED
    BY <1>3, <1>4, <1>5 DEF Store!Replace, Store!Destroyed, Want

\* Finalization serves a request to delete the CR.
LEMMA FinalizeStep ==
    ASSUME TypeOK, PassInv, MappingInv, FinalizeDelete, ~UNCHANGED <<server, msgs>>
    PROVE  Store!Delete
  <1>1. cr.deleting /\ UNCHANGED cr.deleting
    BY DEF FinalizeDelete, PassInv, FinalizingDeleted, FinalizationPCs, MappingInv,
           DeletionSeen, k8sVars
  <1>2. server' = NoConfig /\ msgs' = {}
    BY DEF FinalizeDelete
  <1>3. ~Applying /\ ~Applying'
    BY DEF FinalizeDelete, Applying, EndPass
  <1>4. Want = "none" /\ Want' = "none"
    BY <1>3 DEF Want
  <1>5. FormOf(server)' = "absent"
    BY <1>2 DEF FormOf
  <1> QED
    BY <1>1, <1>2, <1>4, <1>5 DEF Store!Delete, Store!Destroyed, Want

\* Publishing and replication only add data to a store that exists.
LEMMA FillStep ==
    ASSUME TypeOK, Publish \/ Replicate
    PROVE  Store!Fill
  <1>1. UNCHANGED <<server, pc, eff, cr.deleting>>
    BY DEF Publish, Replicate, k8sVars, localVars
  <1>2. server # NoConfig
    BY DEF Publish, Replicate, NoConfig, IsMirror
  <1>3. msgs \subseteq msgs' /\ msgs' \subseteq Msgs
    BY DEF Publish, Replicate, TypeOK
  <1>4. Want' = Want
    BY <1>1 DEF Want, Applying, FormOf, IsMirror
  <1>5. FormOf(server) # "absent"
    BY <1>2 DEF FormOf
  <1> QED
    BY <1>1, <1>3, <1>4, <1>5, FormUnchanged DEF Store!Fill, Want

\* A CR marked for deletion is the request to delete the store.
LEMMA RequestStep ==
    ASSUME MarkDeleted, cr'.deleting = TRUE
    PROVE  Store!Request
  <1>1. UNCHANGED <<server, msgs, pc, eff>>
    BY DEF MarkDeleted, natsVars, localVars
  <1>2. Want' = Want
    BY <1>1 DEF Want, Applying, FormOf, IsMirror
  <1> QED
    BY <1>1, <1>2, FormUnchanged DEF Store!Request, Want

\* Every step of the reconciler and its environment is a step of the store.
LEMMA StepMaps ==
    TypeOK /\ TypeOK' /\ PassInv /\ MappingInv /\ [Next]_vars => [Store!Next]_Store!vars
  <1> SUFFICES ASSUME TypeOK, TypeOK', PassInv, MappingInv, [Next]_vars
               PROVE  Store!Next
    OBVIOUS
  <1>1. CASE RecreateDelete /\ ~UNCHANGED <<server, msgs>>
    BY <1>1, RecreateStep DEF Store!Next
  <1>2. CASE FinalizeDelete /\ ~UNCHANGED <<server, msgs>>
    BY <1>2, FinalizeStep DEF Store!Next
  <1>3. CASE Publish \/ Replicate
    BY <1>3, FillStep DEF Store!Next
  <1>4. CASE server' # server /\ ~RecreateDelete /\ ~FinalizeDelete
    BY <1>4, ServerWrites, CreateStep, UnmirrorStep, UpdateStep DEF Store!Next
  <1>5. CASE UNCHANGED <<server, msgs>> /\ cr'.deleting = cr.deleting
    BY <1>5, DecideStep DEF Store!Next
  <1>6. CASE cr'.deleting # cr.deleting
    BY <1>6, DeletionKept, RequestStep DEF Store!Next
  <1> QED
    BY <1>1, <1>2, <1>3, <1>4, <1>5, <1>6, MessageWrites

\* The Stream reconciler implements ReplicatedStore: mirrors are promoted in
\* place with their messages, primaries never turn into mirrors in place, and
\* messages are destroyed only towards a mirror or once deletion was asked for.
THEOREM StoreImplemented == Spec => StoreSpec
  <1>1. Init => Store!Init
    BY DEF Init, NewCR, Store!Init, FormOf, Applying
  <1>2. Spec => []MappingInv
    BY InitMapping, NextMapping, TypeCorrect, PTL DEF Spec
  <1> QED
    BY <1>1, <1>2, StepMaps, TypeCorrect, PassInvariant, PTL
       DEF Spec, StoreSpec, Store!Spec
-----------------------------------------------------------------------------
(***************************************************************************)
(* Ready.  What a pass may skip it may skip because an earlier one has done *)
(* it: the annotation of a CR observed at its generation says what its spec *)
(* asks for under some role, and under two roles a spec asks either for the *)
(* same or for different forms - provided that a CR which carries a mirror  *)
(* is in the failover scope, or that nothing is translated.                *)
(***************************************************************************)

\* Mirrors are written only where translation turns them into primaries and back,
\* or leaves them alone.
Followed(s) == IsMirror(s) => ScopeLabeled \/ ~TranslationEnabled \/ ~RemoteDomainSet

\* A CR reported Ready at its generation stores what its spec asks for under some
\* role.
StoresForm(c) ==
    /\ c.observed <= c.gen
    /\ Followed(c.spec)
    /\ (c.observed = c.gen /\ ~ReadOnly /\ ~PreventUpdate) =>
           \E r \in Roles : c.stored = EffectiveSpec(r, c.spec)

ReportsReady == pc = "status" /\ verdict = "Ready" /\ ~ReadOnly /\ ~PreventUpdate

\* A pass works towards the spec its role asks for.
EffIsCurrent ==
    (Applying /\ pc # "status") \/ ReportsReady => eff = EffectiveSpec(seenRole, obj.spec)

\* An update that drops a mirror is known to promote.
PromoteKnown ==
    /\ pc \in {"unmirror", "reload"} => promote
    /\ pc = "update" /\ MirrorToPrimaryFlip(server, eff) => promote

\* From the update to the report the server runs the effective spec - but for a
\* promote that was acknowledged and is not believed yet.
FormVerified ==
    /\ pc = "verify" => server = eff \/ (promote /\ MirrorToPrimaryFlip(server, eff))
    /\ pc = "persist" => server = eff /\ updated = eff
    /\ ReportsReady => server = eff /\ obj.stored = eff

StoredInv == StoresForm(cr) /\ StoresForm(crCache) /\ StoresForm(obj)
PlanInv == EffIsCurrent /\ PromoteKnown /\ FormVerified
ReportInv == StoredInv /\ PlanInv

\* The hypotheses of this part: the flag is on, and the specs users write are
\* followed.
FlipsFollowed == MirrorRecreate /\ \A s \in SpecForms : Followed(s)

\* Under two roles a spec asks for different forms or for the same.
LEMMA FormsEqual ==
    ASSUME NEW s \in Specs, Followed(s), NEW r1 \in Roles, NEW r2 \in Roles,
           IsMirror(EffectiveSpec(r1, s)) = IsMirror(EffectiveSpec(r2, s))
    PROVE  EffectiveSpec(r1, s) = EffectiveSpec(r2, s)
  <1>1. IsMirror(ToMirror(s)) = TRUE
    BY DEF ToMirror, IsMirror, Specs, SpecMirrors
  <1>2. IsMirror(ToPrimary(s)) = FALSE
    BY DEF ToPrimary, IsMirror, Specs, SpecMirrors
  <1>3. CASE IsMirror(s)
    <2>1. CASE TranslationEnabled /\ RemoteDomainSet
      <3>1. ScopeLabeled
        BY <1>3, <2>1 DEF Followed
      <3>2. \A r \in Roles : EffectiveSpec(r, s) =
               (IF EffectiveRole(r) = "passive" THEN ToMirror(s) ELSE ToPrimary(s))
        BY <1>3, <2>1, <3>1 DEF EffectiveSpec, TranslatePassive, TranslateActive
      <3> QED
        BY <1>1, <1>2, <3>2
    <2>2. CASE ~TranslationEnabled
      BY <2>2 DEF EffectiveSpec, TranslatePassive, TranslateActive
    <2>3. CASE TranslationEnabled /\ ~RemoteDomainSet
      <3>1. \A r \in Roles : EffectiveSpec(r, s) \in {s, ToPrimary(s)}
        BY <2>3 DEF EffectiveSpec, TranslatePassive
      <3> QED
        BY <1>2, <1>3, <3>1
    <2> QED
      BY <2>1, <2>2, <2>3
  <1>4. CASE ~IsMirror(s)
    <2>1. \A r \in Roles : EffectiveSpec(r, s) \in {s, ToMirror(s)}
      BY <1>4 DEF EffectiveSpec, TranslateActive
    <2> QED
      BY <1>1, <1>4, <2>1
  <1> QED
    BY <1>3, <1>4

\* What stands for no CR stores its form.
LEMMA NoCRStores == StoresForm(NoCR)
  <1>1. /\ NoCR.observed = 0 /\ NoCR.gen = 1 /\ ~IsMirror(NoCR.spec)
    BY DEF NoCR, NewCR, IsMirror
  <1> QED
    BY <1>1 DEF StoresForm, Followed

\* Two CRs that differ in neither spec, generation nor what is stored and observed
\* store their form alike.
LEMMA SameStores ==
    ASSUME NEW c, NEW d, StoresForm(c), d.spec = c.spec, d.gen = c.gen,
           d.observed = c.observed, d.stored = c.stored
    PROVE  StoresForm(d)
  BY DEF StoresForm

\* The converged skip is taken only where there is nothing to do.
LEMMA SkipIsRight ==
    ASSUME TypeOK, FlipsFollowed, StoresForm(obj), eff = EffectiveSpec(seenRole, obj.spec),
           ~ReadOnly, ~PreventUpdate, ~Guarded(server), ~MustRecreate(server),
           ConvergedSkip(server)
    PROVE  server = eff /\ obj.stored = eff
  <1>1. ~FlipWanted(server)
    BY DEF ConvergedSkip, MustPromote, MustRecreate
  <1>2. server # NoConfig /\ obj.stored = server
    BY DEF ConvergedSkip
  <1>3. IsMirror(server) = IsMirror(eff)
    <2>1. ~MirrorFlipped(server, eff)
      BY <1>1, <1>2 DEF FlipWanted, FlipsFollowed
    <2>2. IsMirror(server) \in BOOLEAN /\ IsMirror(eff) \in BOOLEAN
      BY DEF IsMirror
    <2> QED
      BY <2>1, <2>2 DEF MirrorFlipped
  <1>4. PICK r \in Roles : obj.stored = EffectiveSpec(r, obj.spec)
    BY DEF ConvergedSkip, StoresForm
  <1>5. obj.spec \in Specs /\ Followed(obj.spec) /\ seenRole \in Roles
    BY DEF TypeOK, CRs, StoresForm
  <1>6. EffectiveSpec(r, obj.spec) = EffectiveSpec(seenRole, obj.spec)
    BY <1>2, <1>3, <1>4, <1>5, FormsEqual
  <1> QED
    BY <1>2, <1>4, <1>6

\* An update that drops a mirror is decided as a promote.
LEMMA AppliedPromotes ==
    ASSUME MirrorRecreate, NEW c, c # NoConfig, MayApply(c), ~Guarded(c),
           MirrorToPrimaryFlip(c, eff)
    PROVE  MustPromote(c)
  BY DEF MayApply, MustPromote, FlipWanted, MirrorFlipped, MirrorToPrimaryFlip

\* A pass that is over or about to report an error plans nothing.
LEMMA NothingPlanned ==
    ASSUME \/ pc' \in {"idle", "initStatus", "addFinalizer", "readRole"}
           \/ pc' \in FinalizationPCs
           \/ pc' = "status" /\ verdict' # "Ready"
    PROVE  PlanInv'
  BY DEF PlanInv, EffIsCurrent, PromoteKnown, FormVerified, ReportsReady, Applying,
         FinalizationPCs

\* Neither does one that is not there to promote, verify or report.
LEMMA OnlyPlanned ==
    ASSUME pc' \in {"load", "gate", "probe", "delete", "create"},
           eff' = EffectiveSpec(seenRole', obj'.spec)
    PROVE  PlanInv'
  BY DEF PlanInv, EffIsCurrent, PromoteKnown, FormVerified, ReportsReady, Applying,
         EffectiveSpec, TranslatePassive, TranslateActive, EffectiveRole, ToMirror, ToPrimary

\* Nobody but the reconciler moves the plan.
LEMMA OutsidePlan ==
    ASSUME PlanInv, UNCHANGED <<server, pc, localVars>>
    PROVE  PlanInv'
  BY DEF localVars, PlanInv, EffIsCurrent, PromoteKnown, FormVerified, ReportsReady, Applying,
         MirrorToPrimaryFlip, IsMirror, EffectiveSpec, TranslatePassive, TranslateActive,
         EffectiveRole, ToMirror, ToPrimary

\* The plan of a pass is kept by every step of it.
LEMMA ReconcilePlan ==
    FlipsFollowed /\ TypeOK /\ PassInv /\ ReportInv /\ Reconcile => PlanInv'
  <1> SUFFICES ASSUME FlipsFollowed, TypeOK, PassInv, ReportInv, Reconcile PROVE PlanInv'
    OBVIOUS
  <1> DEFINE Plan == EffectiveSpec(seenRole, obj.spec)
  <1>0. UNCHANGED <<seenRole, obj, eff>> /\ eff = Plan => eff' = EffectiveSpec(seenRole', obj'.spec)
    BY DEF EffectiveSpec, TranslatePassive, TranslateActive, EffectiveRole, ToMirror, ToPrimary
  <1>1. CASE ReadCR \/ RoleReadFails \/ LoadGuarded \/ LoadFails \/ GateFails
    BY <1>1, NothingPlanned
    DEF ReadCR, RoleReadFails, LoadGuarded, LoadFails, GateFails, Report, FinalizationPCs
  <1>2. CASE InitStatus \/ AddFinalizer \/ WriteStatus \/ RemoveFinalizer
    BY <1>2, NothingPlanned DEF InitStatus, AddFinalizer, WriteStatus, RemoveFinalizer, EndPass
  <1>3. CASE ReadRole
    <2>1. pc' = "load" /\ eff' = EffectiveSpec(seenRole', obj'.spec)
      BY <1>3
      DEF ReadRole, EffectiveSpec, TranslatePassive, TranslateActive, EffectiveRole,
          ToMirror, ToPrimary
    <2> QED
      BY <2>1, OnlyPlanned
  <1>4. CASE LoadFlipped
    <2>1. eff = Plan /\ UNCHANGED <<seenRole, obj, eff>>
      BY <1>4
      DEF LoadFlipped, LoadCommon, ReportInv, PlanInv, EffIsCurrent, Applying
    <2>2. pc' \in {"gate", "delete"}
      BY <1>4 DEF LoadFlipped
    <2> QED
      BY <1>0, <2>1, <2>2, OnlyPlanned
  <1>5. CASE LoadConverged
    <2>1. eff = Plan /\ UNCHANGED <<seenRole, obj, eff, server>> /\ pc' = "status"
      BY <1>5
      DEF LoadConverged, LoadCommon, Report, natsVars, ReportInv, PlanInv, EffIsCurrent, Applying
    <2>2. ~ReadOnly /\ ~PreventUpdate => server = eff /\ obj.stored = eff
      BY <1>5, <2>1, SkipIsRight
      DEF LoadConverged, MayApply, ReportInv, StoredInv
    <2>3. ReportsReady' => server' = eff' /\ obj'.stored = eff'
      BY <2>1, <2>2 DEF ReportsReady
    <2>4. eff' = EffectiveSpec(seenRole', obj'.spec)
      BY <1>0, <2>1
    <2> QED
      BY <2>1, <2>3, <2>4 DEF PlanInv, EffIsCurrent, PromoteKnown, FormVerified, Applying,
         EffectiveSpec, TranslatePassive, TranslateActive, EffectiveRole, ToMirror, ToPrimary
  <1>6. CASE LoadApply
    <2>1. /\ eff = Plan /\ UNCHANGED <<seenRole, obj, eff, server>>
          /\ pc' \in {"create", "unmirror", "update"} /\ promote' = MustPromote(server)
          /\ pc' = "unmirror" => promote'
      BY <1>6
      DEF LoadApply, LoadCommon, natsVars, ReportInv, PlanInv, EffIsCurrent, Applying
    <2>2. pc' = "update" /\ MirrorToPrimaryFlip(server, eff) => promote'
      <3>1. pc' = "update" => server # NoConfig
        BY <1>6 DEF LoadApply
      <3> QED
        BY <1>6, <2>1, <3>1, AppliedPromotes DEF LoadApply, FlipsFollowed
    <2>3. eff' = EffectiveSpec(seenRole', obj'.spec)
      BY <1>0, <2>1
    <2>4. MirrorToPrimaryFlip(server, eff) = MirrorToPrimaryFlip(server, eff)'
      BY <2>1 DEF MirrorToPrimaryFlip, IsMirror
    <2> QED
      BY <2>1, <2>2, <2>3, <2>4
      DEF PlanInv, EffIsCurrent, PromoteKnown, FormVerified, ReportsReady, Applying
  <1>7. CASE GateLocal \/ GateProbe \/ RecreateDelete
    <2>1. eff = Plan /\ UNCHANGED <<seenRole, obj, eff>>
      BY <1>7
      DEF GateLocal, GateProbe, GateCommon, RecreateDelete, ReportInv, PlanInv,
          EffIsCurrent, Applying
    <2>2. \/ pc' \in {"probe", "delete", "create"}
          \/ pc' = "status" /\ verdict' \in {"WaitingForBackup", "Errored"}
      BY <1>7 DEF GateLocal, GateProbe, RecreateDelete, Report
    <2> QED
      BY <1>0, <2>1, <2>2, OnlyPlanned, NothingPlanned
  <1>8. CASE Create \/ Unmirror \/ Reload \/ UpdateAccepted \/ UpdateRejected \/ Verify
    <2>1. eff = Plan /\ UNCHANGED <<seenRole, obj, eff, promote>>
      BY <1>8
      DEF Create, Unmirror, Reload, UpdateAccepted, UpdateRejected, Verify, CallCommon,
          ReportInv, PlanInv, EffIsCurrent, Applying
    <2>2. eff' = EffectiveSpec(seenRole', obj'.spec)
      BY <1>0, <2>1
    <2>3. CASE pc' = "status"
      <3>1. verdict' = "Errored"
        BY <1>8, <2>3 DEF Create, Unmirror, Reload, UpdateAccepted, UpdateRejected, Verify, Report
      <3> QED
        BY <2>3, <3>1, NothingPlanned
    <2>4. CASE Create /\ pc' = "persist"
      <3>1. server' = eff /\ updated' = eff
        BY <2>4 DEF Create, Report
      <3> QED
        BY <2>1, <2>2, <2>4, <3>1
        DEF PlanInv, EffIsCurrent, PromoteKnown, FormVerified, ReportsReady
    <2>5. CASE Unmirror /\ pc' = "reload"
      <3>1. promote
        BY <2>5 DEF Unmirror, ReportInv, PlanInv, PromoteKnown
      <3> QED
        BY <2>1, <2>2, <2>5, <3>1
        DEF PlanInv, EffIsCurrent, PromoteKnown, FormVerified, ReportsReady
    <2>6. CASE Reload /\ pc' = "update"
      <3>1. promote
        BY <2>6 DEF Reload, ReportInv, PlanInv, PromoteKnown
      <3> QED
        BY <2>1, <2>2, <2>6, <3>1
        DEF PlanInv, EffIsCurrent, PromoteKnown, FormVerified, ReportsReady
    <2>7. CASE UpdateAccepted /\ pc' = "verify"
      <3>1. server' = eff \/ (UNCHANGED server /\ MirrorToPrimaryFlip(server, eff))
        BY <2>7 DEF UpdateAccepted, Report
      <3>2. MirrorToPrimaryFlip(server, eff) => promote
        BY <2>7 DEF UpdateAccepted, ReportInv, PlanInv, PromoteKnown
      <3>3. UNCHANGED server => MirrorToPrimaryFlip(server, eff) = MirrorToPrimaryFlip(server, eff)'
        BY <2>1 DEF MirrorToPrimaryFlip, IsMirror
      <3> QED
        BY <2>1, <2>2, <2>7, <3>1, <3>2, <3>3
        DEF PlanInv, EffIsCurrent, PromoteKnown, FormVerified, ReportsReady
    <2>8. CASE UpdateRejected /\ pc' \in {"gate", "delete"}
      BY <2>2, <2>8, OnlyPlanned
    <2>9. CASE Verify /\ pc' = "persist"
      <3>1. updated' = server /\ UNCHANGED server /\ ~(promote /\ IsMirror(server))
        BY <2>9 DEF Verify, Report
      <3>2. server = eff
        BY <2>9, <3>1
        DEF Verify, ReportInv, PlanInv, FormVerified, MirrorToPrimaryFlip
      <3> QED
        BY <2>1, <2>2, <2>9, <3>1, <3>2
        DEF PlanInv, EffIsCurrent, PromoteKnown, FormVerified, ReportsReady
    <2> QED
      BY <1>8, <2>3, <2>4, <2>5, <2>6, <2>7, <2>8, <2>9
      DEF Create, Unmirror, Reload, UpdateAccepted, UpdateRejected, Verify, Report
  <1>9. CASE Persist
    <2>1. /\ eff = Plan /\ UNCHANGED <<seenRole, eff, server>>
          /\ server = eff /\ updated = eff
      BY <1>9
      DEF Persist, natsVars, ReportInv, PlanInv, EffIsCurrent, FormVerified, Applying
    <2>2. CASE Write([cr EXCEPT !.stored = updated]) /\ obj' = cr'
      <3>1. obj = cr /\ cr' = [cr EXCEPT !.stored = updated]
        BY <2>2 DEF Write
      <3>2. obj'.stored = updated /\ obj'.spec = obj.spec
        BY <2>2, <3>1 DEF TypeOK, CRs
      <3>3. eff' = EffectiveSpec(seenRole', obj'.spec)
        BY <2>1, <3>2
        DEF EffectiveSpec, TranslatePassive, TranslateActive, EffectiveRole, ToMirror, ToPrimary
      <3>4. pc' = "status"
        BY <1>9 DEF Persist, Report
      <3> QED
        BY <2>1, <3>2, <3>3, <3>4
        DEF PlanInv, EffIsCurrent, PromoteKnown, FormVerified, ReportsReady, Applying
    <2>3. CASE pc' = "status" /\ verdict' = "Errored"
      BY <2>3, NothingPlanned
    <2> QED
      BY <1>9, <2>2, <2>3 DEF Persist, Report
  <1>10. CASE FinalizeStatus \/ FinalizeLoad \/ FinalizeDelete
    BY <1>10, NothingPlanned
    DEF FinalizeStatus, FinalizeLoad, FinalizeDelete, EndPass, FinalizationPCs
  <1> QED
    BY <1>1, <1>2, <1>3, <1>4, <1>5, <1>6, <1>7, <1>8, <1>9, <1>10 DEF Reconcile

\* A restart ends the pass, and nothing else outside the reconciler touches it.
LEMMA NextPlan ==
    FlipsFollowed /\ TypeOK /\ PassInv /\ ReportInv /\ [Next]_vars => PlanInv'
  <1> SUFFICES ASSUME FlipsFollowed, TypeOK, PassInv, ReportInv, [Next]_vars PROVE PlanInv'
    OBVIOUS
  <1>1. CASE Reconcile
    BY <1>1, ReconcilePlan
  <1>2. CASE Restart
    BY <1>2, NothingPlanned DEF Restart, EndPass
  <1>3. CASE Environment /\ ~Restart
    <2>1. UNCHANGED <<server, pc, localVars>>
      BY <1>3
      DEF natsVars, Environment, SyncCR, SyncRole, EditSpec, MarkDeleted, FlipRole, Publish,
          PeerPublish, Replicate, PeerReplicate, SourceReleases, SourceClaims, TakeBackup,
          ConfirmBackup
    <2> QED
      BY <2>1, OutsidePlan DEF ReportInv
  <1>4. CASE UNCHANGED vars
    BY <1>4, OutsidePlan DEF vars, natsVars, ReportInv
  <1> QED
    BY <1>1, <1>2, <1>3, <1>4 DEF Next

\* What the worker and its environment write into the CR keeps its form stored.
LEMMA CRStores ==
    FlipsFollowed /\ TypeOK /\ ReportInv /\ [Next]_vars => StoresForm(cr)'
  <1> SUFFICES ASSUME FlipsFollowed, TypeOK, ReportInv, [Next]_vars PROVE StoresForm(cr')
    BY DEF StoresForm, Followed, EffectiveSpec, TranslatePassive, TranslateActive,
           EffectiveRole, ToMirror, ToPrimary, IsMirror
  <1> USE DEF k8sVars
  <1>0. StoresForm(cr) /\ StoresForm(obj)
    BY DEF ReportInv, StoredInv
  <1>1. CASE /\ cr'.spec = cr.spec /\ cr'.gen = cr.gen
             /\ cr'.observed = cr.observed /\ cr'.stored = cr.stored
    BY <1>0, <1>1, SameStores
  <1>2. CASE InitStatus \/ AddFinalizer \/ FinalizeStatus \/ RemoveFinalizer
    <2>1. /\ cr'.spec = cr.spec /\ cr'.gen = cr.gen
          /\ cr'.observed = cr.observed /\ cr'.stored = cr.stored
      BY <1>2
      DEF InitStatus, AddFinalizer, FinalizeStatus, RemoveFinalizer, Write, WriteFails,
          TypeOK, CRs
    <2> QED
      BY <1>1, <2>1
  <1>3. CASE Persist
    <2>1. CASE UNCHANGED cr
      BY <1>1, <2>1
    <2>2. CASE cr' = [cr EXCEPT !.stored = updated] /\ obj = cr
      <3>1. /\ cr'.spec = cr.spec /\ cr'.gen = cr.gen
            /\ cr'.observed = cr.observed /\ cr'.stored = updated
        BY <2>2 DEF TypeOK, CRs
      <3>2. updated = EffectiveSpec(seenRole, cr.spec) /\ seenRole \in Roles
        BY <1>3, <2>2
        DEF Persist, ReportInv, PlanInv, FormVerified, EffIsCurrent, Applying, TypeOK
      <3> QED
        BY <1>0, <3>1, <3>2 DEF StoresForm
    <2> QED
      BY <1>3, <2>1, <2>2 DEF Persist, Write, WriteFails
  <1>4. CASE WriteStatus
    <2>1. CASE UNCHANGED cr
      BY <1>1, <2>1
    <2>2. CASE obj = cr /\ cr' = StatusOf(cr, verdict) /\ verdict # "Ready"
      <3>1. /\ cr'.spec = cr.spec /\ cr'.gen = cr.gen
            /\ cr'.observed = cr.observed /\ cr'.stored = cr.stored
        BY <2>2 DEF StatusOf, TypeOK, CRs
      <3> QED
        BY <1>1, <3>1
    <2>3. CASE obj = cr /\ cr' = StatusOf(cr, verdict) /\ verdict = "Ready"
      <3>1. /\ cr'.spec = cr.spec /\ cr'.gen = cr.gen
            /\ cr'.observed = cr.gen /\ cr'.stored = cr.stored /\ cr.gen \in Nat
        BY <2>3 DEF StatusOf, TypeOK, CRs
      <3>2. pc = "status"
        BY <1>4 DEF WriteStatus
      <3>3. ~ReadOnly /\ ~PreventUpdate =>
               cr.stored = EffectiveSpec(seenRole, cr.spec) /\ seenRole \in Roles
        BY <2>3, <3>2
        DEF ReportInv, PlanInv, FormVerified, EffIsCurrent, ReportsReady, TypeOK
      <3> QED
        BY <1>0, <3>1, <3>3 DEF StoresForm
    <2> QED
      BY <1>4, <2>1, <2>2, <2>3 DEF WriteStatus, Write, WriteFails
  <1>5. CASE EditSpec
    <2>1. PICK f \in SpecForms : cr' = [cr EXCEPT !.spec = f, !.gen = @ + 1]
      BY <1>5 DEF EditSpec
    <2>2. /\ cr'.spec = f /\ cr'.gen = cr.gen + 1 /\ cr'.observed = cr.observed
          /\ cr.gen \in Nat /\ cr.observed \in Nat
      BY <2>1 DEF TypeOK, CRs
    <2>3. Followed(f)
      BY DEF FlipsFollowed
    <2>4. cr'.observed <= cr'.gen /\ cr'.observed # cr'.gen
      BY <1>0, <2>2 DEF StoresForm
    <2> QED
      BY <2>2, <2>3, <2>4 DEF StoresForm
  <1>6. CASE MarkDeleted \/ ConfirmBackup
    <2>1. /\ cr'.spec = cr.spec /\ cr'.gen = cr.gen
          /\ cr'.observed = cr.observed /\ cr'.stored = cr.stored
      BY <1>6 DEF MarkDeleted, ConfirmBackup, TypeOK, CRs
    <2> QED
      BY <1>1, <2>1
  <1>7. Reconcile => \/ InitStatus \/ AddFinalizer \/ FinalizeStatus \/ RemoveFinalizer
                    \/ Persist \/ WriteStatus \/ UNCHANGED cr
    BY DEF LoadCommon, GateCommon, CallCommon, Reconcile, ReadCR, RoleReadFails, ReadRole,
       LoadGuarded, LoadFlipped, LoadConverged, LoadApply, LoadFails, GateLocal, GateFails,
       GateProbe, RecreateDelete, Create, Unmirror, Reload, UpdateAccepted, UpdateRejected,
       Verify, FinalizeLoad, FinalizeDelete
  <1>8. Environment => EditSpec \/ MarkDeleted \/ ConfirmBackup \/ UNCHANGED cr
    BY DEF Environment, SyncCR, SyncRole, FlipRole, Publish, PeerPublish, Replicate,
       PeerReplicate, SourceReleases, SourceClaims, TakeBackup, Restart
  <1>9. CASE UNCHANGED cr
    BY <1>1, <1>9
  <1> QED
    BY <1>2, <1>3, <1>4, <1>5, <1>6, <1>7, <1>8, <1>9 DEF Next, vars

\* So whatever a pass, the cache and the CR say stays right.
LEMMA NextStored ==
    FlipsFollowed /\ TypeOK /\ ReportInv /\ [Next]_vars => StoredInv'
  <1> SUFFICES ASSUME FlipsFollowed, TypeOK, ReportInv, [Next]_vars PROVE StoredInv'
    OBVIOUS
  <1>1. StoresForm(cr')
    BY CRStores
    DEF StoresForm, Followed, EffectiveSpec, TranslatePassive, TranslateActive,
        EffectiveRole, ToMirror, ToPrimary, IsMirror
  <1>2. StoresForm(cr) /\ StoresForm(crCache) /\ StoresForm(obj) /\ StoresForm(NoCR)
    BY NoCRStores DEF ReportInv, StoredInv
  <1>3. StoresForm(crCache') /\ StoresForm(obj')
    BY <1>1, <1>2, CopySource, CacheSource
  <1>4. StoresForm(cr)' /\ StoresForm(crCache)' /\ StoresForm(obj)'
    BY <1>1, <1>3
    DEF StoresForm, Followed, EffectiveSpec, TranslatePassive, TranslateActive,
        EffectiveRole, ToMirror, ToPrimary, IsMirror
  <1> QED
    BY <1>4 DEF StoredInv

\* Every CR starts unobserved, and no pass has planned anything.
LEMMA InitReport == FlipsFollowed /\ Init => ReportInv
  <1> SUFFICES ASSUME FlipsFollowed, Init PROVE ReportInv
    OBVIOUS
  <1>1. PICK f \in SpecForms : cr = NewCR(f)
    BY DEF Init
  <1>2. cr.observed = 0 /\ cr.gen = 1 /\ Followed(cr.spec)
    BY <1>1 DEF NewCR, FlipsFollowed
  <1>3. StoresForm(cr)
    BY <1>2 DEF StoresForm
  <1>4. StoredInv
    BY <1>3, NoCRStores DEF Init, StoredInv
  <1>5. PlanInv
    BY DEF Init, PlanInv, EffIsCurrent, PromoteKnown, FormVerified, ReportsReady, Applying
  <1> QED
    BY <1>4, <1>5 DEF ReportInv

\* A pass that is about to report Ready has the server in exactly the effective
\* form, although retries, lost acknowledgements and the converged skip spared it
\* calls - with --mirror-recreate-on-conflict, and if no CR that carries a mirror is
\* translated outside the failover scope.  Without either the converged skip reports
\* a CR Ready whose role has flipped under it.
THEOREM ReadyIsTrue ==
    ASSUME FlipsFollowed
    PROVE  Spec => []ReadyReportIsTrue
  <1>1. Init => ReportInv
    BY InitReport
  <1>2. TypeOK /\ PassInv /\ ReportInv /\ [Next]_vars => ReportInv'
    BY NextPlan, NextStored DEF ReportInv
  <1>3. ReportInv => ReadyReportIsTrue
    BY DEF ReportInv, PlanInv, FormVerified, ReportsReady, ReadyReportIsTrue
  <1> QED
    BY <1>1, <1>2, <1>3, TypeCorrect, PassInvariant, PTL DEF Spec
-----------------------------------------------------------------------------
(***************************************************************************)
(* Nothing lost.  The first time a role turns passive it stays passive, so *)
(* from then on only the peer adds messages, and a backup taken stays      *)
(* complete up to what the peer holds.  Until then no pass wants to turn a *)
(* primary into a mirror, and the gate is never entered.                   *)
(***************************************************************************)

Translates == TranslationEnabled /\ RemoteDomainSet

\* Only translation makes mirrors of streams.
MirrorsByRole(s) == IsMirror(s) => ScopeLabeled /\ Translates

\* The hypotheses of this part: the backup gate is on and opens on a confirmation
\* only, nobody publishes here under a role that mirrors, mirrors come and go with
\* the role, and the role fails over once.
GateProtects ==
    /\ RequireBackup /\ ~ProbeConfigured
    /\ QuiescePassive /\ ~ColdStartPassive
    /\ \A s \in SpecForms : MirrorsByRole(s)
    /\ MaxFlips <= 1 /\ MaxDeletes = 0

\* The role is passive, for good.
Settled == role = "passive" /\ left.flip = 0

\* The role flips once, and the informer lags behind that flip alone.
RolesSettle ==
    /\ left.delete = 0
    /\ left.flip <= 1
    /\ left.flip > 0 => roleCache = role

\* A copy of the CR: it is not deleted and mirrors come with its role.
SoundCopy(c) == ~c.deleting /\ c.gen > 0 /\ MirrorsByRole(c.spec)
SoundCopies ==
    /\ SoundCopy(cr) /\ SoundCopy(crCache) /\ SoundCopy(obj)
    /\ cr.confirmed > 0 \/ crCache.confirmed > 0 \/ obj.confirmed > 0 => backupGen > 0

\* The calls from the read of the role on, as long as the pass may still write.
Acting == pc \in {"load", "gate", "delete", "create", "unmirror", "reload", "update"}

\* A pass works towards a mirror exactly when it has read a passive role, and then
\* towards the one mirror that translation makes.
FormByRole ==
    /\ Acting => /\ eff.mirror = IF Translates /\ seenRole = "passive" THEN "peer" ELSE "none"
                 /\ IsMirror(eff) => ~eff.subjects
    /\ server.mirror # "authored"

\* As long as a passive role may still end, whoever knows of one has made no primary.
NoPrimaryYet ==
    (~Settled /\ Translates /\ (roleCache = "passive" \/ seenRole = "passive"))
        => /\ server = NoConfig \/ IsMirror(server)
           /\ Acting => seenRole = "passive"

\* What a recreate would destroy is elsewhere.
Saved == msgs \subseteq backup \cup peer

\* The gate is asked in a settled region only, and what it opens for is saved.
GateSettled ==
    /\ pc \in {"gate", "delete"} => Settled
    /\ pc # "probe"
    /\ verdict = "WaitingForBackup" \/ cr.backupRequired => Settled
    /\ backupGen > 0 => Settled /\ Saved
    /\ pc = "delete" => Saved

LossInv ==
    RolesSettle /\ SoundCopies /\ FormByRole /\ NoPrimaryYet /\ GateSettled /\ NothingLost

\* No pass, no message and no backup at first.
LEMMA InitLoss == GateProtects /\ Init => LossInv
  <1> SUFFICES ASSUME GateProtects, Init PROVE LossInv
    OBVIOUS
  <1>1. PICK s \in SpecForms : cr = NewCR(s)
    BY DEF Init
  <1>2. /\ cr.spec = s /\ ~cr.deleting /\ cr.gen = 1 /\ cr.confirmed = 0
        /\ ~cr.backupRequired
    BY <1>1 DEF NewCR
  <1>3. /\ NoCR.spec.mirror = "none" /\ ~NoCR.deleting /\ NoCR.gen = 1
        /\ NoCR.confirmed = 0
    BY DEF NoCR, NewCR
  <1>4. SoundCopies
    <2>1. MirrorsByRole(s) /\ MirrorsByRole(NoCR.spec)
      BY <1>3 DEF GateProtects, MirrorsByRole, IsMirror
    <2> QED
      BY <1>2, <1>3, <2>1 DEF Init, SoundCopies, SoundCopy
  <1>5. RolesSettle
    BY BoundsAssumption DEF Init, GateProtects, RolesSettle
  <1>6. FormByRole /\ NoPrimaryYet
    BY DEF Init, FormByRole, NoPrimaryYet, Acting, NoConfig
  <1>7. GateSettled /\ NothingLost
    BY <1>2 DEF Init, GateSettled, NothingLost
  <1> QED
    BY <1>4, <1>5, <1>6, <1>7 DEF LossInv

\* Only a flip of the role uses one up, and only a deletion uses one up.
LEMMA FlipsCounted ==
    ASSUME TypeOK, [Next]_vars
    PROVE  /\ left'.flip = left.flip \/ (FlipRole /\ left'.flip = left.flip - 1)
           /\ left'.delete = left.delete \/ MarkDeleted
  <1>0. left \in [flip: Nat, fault: Nat, crash: Nat, delete: Nat]
    BY DEF TypeOK
  <1>1. CASE UNCHANGED left \/ CallFails
    BY <1>0, <1>1 DEF CallFails
  <1>2. CASE MarkDeleted
    BY <1>0, <1>2 DEF MarkDeleted
  <1>3. CASE FlipRole
    BY <1>0, <1>3 DEF FlipRole
  <1>4. CASE Restart
    BY <1>0, <1>4 DEF Restart
  <1> QED
    BY <1>1, <1>2, <1>3, <1>4, LeftSource

\* Only the role's flip, the informer and a restart move the role and its copy.
LEMMA RoleSource ==
    ASSUME [Next]_vars
    PROVE  UNCHANGED <<role, roleCache>> \/ SyncRole \/ FlipRole \/ Restart
  <1> USE DEF k8sVars, Write, WriteFails
  <1>1. CASE \/ ReadCR \/ InitStatus \/ AddFinalizer \/ RoleReadFails \/ ReadRole
             \/ LoadGuarded \/ LoadFlipped \/ LoadConverged \/ LoadApply \/ LoadFails
             \/ GateLocal \/ GateFails \/ GateProbe \/ RecreateDelete
    BY <1>1 DEF ReadCR, InitStatus, AddFinalizer, RoleReadFails, ReadRole, LoadCommon,
       LoadGuarded, LoadFlipped, LoadConverged, LoadApply, LoadFails, GateCommon, GateLocal,
       GateFails, GateProbe, RecreateDelete
  <1>2. CASE \/ Create \/ Unmirror \/ Reload \/ UpdateAccepted \/ UpdateRejected
             \/ Verify \/ Persist \/ WriteStatus
             \/ FinalizeStatus \/ FinalizeLoad \/ FinalizeDelete \/ RemoveFinalizer
    BY <1>2 DEF CallCommon, Create, Unmirror, Reload, UpdateAccepted, UpdateRejected,
       Verify, Persist, WriteStatus, FinalizeStatus, FinalizeLoad, FinalizeDelete,
       RemoveFinalizer
  <1>3. CASE Environment
    BY <1>3 DEF Environment, SyncCR, EditSpec, MarkDeleted, Publish, PeerPublish,
       Replicate, PeerReplicate, SourceReleases, SourceClaims, TakeBackup, ConfirmBackup
  <1>4. CASE UNCHANGED vars
    BY <1>4 DEF vars
  <1> QED
    BY <1>1, <1>2, <1>3, <1>4 DEF Next, Reconcile

\* The role settles once, and stays.
LEMMA NextRoles ==
    ASSUME TypeOK, RolesSettle, [Next]_vars
    PROVE  RolesSettle' /\ (Settled => Settled')
  <1>0. left.flip \in Nat /\ left'.delete = 0
    <2>1. left.delete = 0 /\ ~MarkDeleted
      BY DEF RolesSettle, MarkDeleted
    <2> QED
      BY <2>1, FlipsCounted DEF TypeOK
  <1>1. CASE FlipRole
    <2>1. left.flip > 0 /\ left'.flip = left.flip - 1
      BY <1>0, <1>1 DEF FlipRole, TypeOK
    <2>2. left'.flip = 0
      BY <1>0, <2>1 DEF RolesSettle
    <2> QED
      BY <1>0, <2>1, <2>2 DEF RolesSettle, Settled
  <1>2. CASE SyncRole \/ Restart
    <2>1. left'.flip = left.flip
      BY <1>2 DEF SyncRole, Restart, TypeOK
    <2>2. roleCache' = role /\ role' = role
      BY <1>2 DEF SyncRole, Restart
    <2> QED
      BY <1>0, <2>1, <2>2 DEF RolesSettle, Settled
  <1>3. CASE UNCHANGED <<role, roleCache>> /\ ~FlipRole
    <2>1. left'.flip = left.flip
      BY <1>3, FlipsCounted
    <2> QED
      BY <1>0, <1>3, <2>1 DEF RolesSettle, Settled
  <1> QED
    BY <1>1, <1>2, <1>3, RoleSource

\* A pass reads its role once, and its target with it.
LEMMA RoleReadOnce ==
    ASSUME [Next]_vars, pc # "probe"
    PROVE  /\ seenRole' \in {seenRole, "unset"} \/ ReadRole
           /\ Acting' => ReadRole \/ (Acting /\ UNCHANGED <<eff, seenRole>>)
  <1> USE DEF Acting, Report
  <1>1. CASE ReadRole
    BY <1>1
  <1>2. CASE InitStatus \/ AddFinalizer \/ WriteStatus \/ RemoveFinalizer \/ Restart
             \/ FinalizeStatus \/ FinalizeLoad \/ FinalizeDelete
    BY <1>2 DEF InitStatus, AddFinalizer, WriteStatus, RemoveFinalizer, Restart,
       FinalizeStatus, FinalizeLoad, FinalizeDelete, EndPass, localVars
  <1>3. CASE ReadCR \/ RoleReadFails \/ LoadGuarded \/ LoadFlipped
             \/ LoadConverged \/ LoadApply \/ LoadFails \/ GateLocal \/ GateFails
             \/ RecreateDelete
    BY <1>3 DEF ReadCR, RoleReadFails, LoadCommon, LoadGuarded, LoadFlipped,
       LoadConverged, LoadApply, LoadFails, GateCommon, GateLocal, GateFails,
       RecreateDelete
  <1>4. CASE Create \/ Unmirror \/ Reload \/ UpdateAccepted \/ UpdateRejected
             \/ Verify \/ Persist
    BY <1>4 DEF CallCommon, Create, Unmirror, Reload, UpdateAccepted, UpdateRejected,
       Verify, Persist
  <1>5. CASE Environment /\ ~Restart
    BY <1>5 DEF Environment, SyncCR, SyncRole, EditSpec, MarkDeleted, FlipRole,
       Publish, PeerPublish, Replicate, PeerReplicate, SourceReleases,
       SourceClaims, TakeBackup, ConfirmBackup, localVars
  <1>6. CASE UNCHANGED vars
    BY <1>6 DEF vars, localVars
  <1>7. CASE GateProbe
    BY <1>7 DEF GateProbe, GateCommon
  <1> QED
    BY <1>1, <1>2, <1>3, <1>4, <1>5, <1>6, <1>7 DEF Next, Reconcile

\* What the role makes of a sound copy.
LEMMA TargetByRole ==
    ASSUME GateProtects, NEW s \in Specs, MirrorsByRole(s), NEW r \in Roles
    PROVE  /\ EffectiveSpec(r, s).mirror
                = IF Translates /\ r = "passive" THEN "peer" ELSE "none"
           /\ IsMirror(EffectiveSpec(r, s)) => ~EffectiveSpec(r, s).subjects
  BY DEF GateProtects, MirrorsByRole, Translates, EffectiveSpec, TranslatePassive,
     TranslateActive, EffectiveRole, ToMirror, ToPrimary, IsMirror, Specs, Roles,
     SpecMirrors

\* A call that changes the server's configuration removes it, makes it the target, or
\* un-mirrors it towards a primary.
LEMMA ServerBecomes ==
    ASSUME TypeOK, PassInv, MappingInv, [Next]_vars, server' # server
    PROVE  \/ server' = NoConfig
           \/ Acting /\ server' = eff
           \/ Acting /\ ~IsMirror(eff) /\ server'.mirror = "none"
  BY ServerWrites
  DEF RecreateDelete, FinalizeDelete, Create, Unmirror, UpdateAccepted, Unmirrored, Acting,
      MappingInv, PromoteTowardsPrimary

\* A pass and the server take the form of a role.
LEMMA NextForm ==
    ASSUME GateProtects, TypeOK, PassInv, MappingInv, LossInv, [Next]_vars
    PROVE  FormByRole'
  <1> USE DEF FormByRole
  <1>1. FormByRole /\ SoundCopy(obj) /\ pc # "probe"
    BY DEF LossInv, SoundCopies, GateSettled
  <1>2. server'.mirror # "authored"
    <2>1. CASE server' = server
      BY <1>1, <2>1
    <2>2. CASE server' # server
      BY <1>1, <2>2, ServerBecomes DEF NoConfig
    <2> QED
      BY <2>1, <2>2
  <1>3. CASE ReadRole
    <2>1. seenRole' = roleCache /\ eff' = EffectiveSpec(roleCache, obj.spec)
      BY <1>3 DEF ReadRole
    <2>2. obj.spec \in Specs /\ roleCache \in Roles /\ MirrorsByRole(obj.spec)
      BY <1>1 DEF SoundCopy, TypeOK, CRs
    <2> QED
      BY <1>2, <2>1, <2>2, TargetByRole DEF IsMirror
  <1>4. CASE Acting /\ UNCHANGED <<eff, seenRole>>
    BY <1>1, <1>2, <1>4 DEF IsMirror
  <1>5. CASE ~Acting'
    BY <1>2, <1>5
  <1> QED
    BY <1>1, <1>3, <1>4, <1>5, RoleReadOnce

\* A pass that has read a passive role, or is to read one, makes no primary.
LEMMA NextPrimary ==
    ASSUME GateProtects, TypeOK, PassInv, MappingInv, LossInv, [Next]_vars
    PROVE  NoPrimaryYet'
  <1>1. /\ RolesSettle /\ FormByRole /\ NoPrimaryYet /\ pc # "probe"
        /\ Settled => Settled'
    BY NextRoles DEF LossInv, GateSettled
  <1>2. SUFFICES ASSUME ~Settled', Translates, roleCache' = "passive" \/ seenRole' = "passive"
                 PROVE  /\ server' = NoConfig \/ IsMirror(server')
                        /\ Acting' => seenRole' = "passive"
    BY DEF NoPrimaryYet, Translates, IsMirror
  <1>3. roleCache = "passive" \/ seenRole = "passive"
    <2>1. seenRole' = "passive" => roleCache = "passive" \/ seenRole = "passive"
      BY <1>1, RoleReadOnce DEF ReadRole
    <2>2. CASE UNCHANGED roleCache
      BY <1>2, <2>1, <2>2
    <2>3. CASE (SyncRole \/ Restart) /\ roleCache' = "passive"
      <3>1. role' = "passive" /\ left'.flip = left.flip
        BY <2>3 DEF SyncRole, Restart, TypeOK
      <3>2. left.flip # 0 /\ left.flip \in Nat
        BY <1>2, <3>1 DEF Settled, TypeOK
      <3>3. roleCache = role /\ role = "passive"
        BY <1>1, <2>3, <3>1, <3>2 DEF RolesSettle, SyncRole, Restart
      <3> QED
        BY <3>3
    <2> QED
      BY <1>2, <2>1, <2>2, <2>3, RoleSource DEF FlipRole
  <1>4. /\ server = NoConfig \/ IsMirror(server)
        /\ Acting => seenRole = "passive" /\ IsMirror(eff)
    BY <1>1, <1>2, <1>3 DEF NoPrimaryYet, FormByRole, IsMirror
  <1>5. server' = NoConfig \/ IsMirror(server')
    BY <1>4, ServerBecomes DEF IsMirror
  <1>6. Acting' => seenRole' = "passive"
    <2>1. CASE ReadRole
      <3>1. roleCache = "passive" \/ seenRole' = "passive"
        BY <1>2, <2>1 DEF ReadRole, k8sVars
      <3> QED
        BY <2>1, <3>1 DEF ReadRole
    <2>2. CASE Acting /\ UNCHANGED <<eff, seenRole>>
      BY <1>4, <2>2
    <2> QED
      BY <1>1, <2>1, <2>2, RoleReadOnce
  <1> QED
    BY <1>5, <1>6

\* How the CR moves: a new spec is a new generation, a confirmation names what was
\* captured, and a backup is asked for by a pass that waits for one.
LEMMA CRMoves ==
    ASSUME TypeOK, [Next]_vars
    PROVE  /\ \/ cr'.spec = cr.spec /\ cr'.gen = cr.gen
              \/ cr'.spec \in SpecForms /\ cr'.gen = cr.gen + 1
           /\ cr'.confirmed = cr.confirmed \/ (backupGen > 0 /\ cr'.confirmed = backupGen)
           /\ cr'.backupRequired =>
                  cr.backupRequired \/ (pc = "status" /\ verdict = "WaitingForBackup")
  <1> USE DEF k8sVars, TypeOK, CRs
  <1>1. CASE UNCHANGED cr
    BY <1>1
  <1>2. CASE InitStatus \/ AddFinalizer \/ Persist \/ FinalizeStatus \/ RemoveFinalizer
    BY <1>2 DEF InitStatus, AddFinalizer, Persist, FinalizeStatus, RemoveFinalizer,
                Write, WriteFails
  <1>3. CASE WriteStatus
    <2>1. CASE UNCHANGED cr
      BY <2>1
    <2>2. CASE cr' = StatusOf(cr, verdict)
      <3>1. cr'.spec = cr.spec /\ cr'.gen = cr.gen /\ cr'.confirmed = cr.confirmed
        BY <2>2 DEF StatusOf
      <3>2. cr'.backupRequired = IF verdict = "WaitingForBackup" THEN TRUE
                                 ELSE IF verdict = "Ready" THEN FALSE ELSE cr.backupRequired
        BY <2>2 DEF StatusOf
      <3> QED
        BY <1>3, <3>1, <3>2 DEF WriteStatus
    <2> QED
      BY <1>3, <2>1, <2>2 DEF WriteStatus, Write, WriteFails
  <1>4. CASE EditSpec
    BY <1>4 DEF EditSpec
  <1>5. CASE MarkDeleted
    BY <1>5 DEF MarkDeleted
  <1>6. CASE ConfirmBackup
    BY <1>6 DEF ConfirmBackup
  <1>7. Reconcile => \/ InitStatus \/ AddFinalizer \/ FinalizeStatus \/ RemoveFinalizer
                    \/ Persist \/ WriteStatus \/ UNCHANGED cr
    BY DEF LoadCommon, GateCommon, CallCommon, Reconcile, ReadCR, RoleReadFails, ReadRole,
       LoadGuarded, LoadFlipped, LoadConverged, LoadApply, LoadFails, GateLocal, GateFails,
       GateProbe, RecreateDelete, Create, Unmirror, Reload, UpdateAccepted, UpdateRejected,
       Verify, FinalizeLoad, FinalizeDelete
  <1>8. Environment => EditSpec \/ MarkDeleted \/ ConfirmBackup \/ UNCHANGED cr
    BY DEF Environment, SyncCR, SyncRole, FlipRole, Publish, PeerPublish, Replicate,
       PeerReplicate, SourceReleases, SourceClaims, TakeBackup, Restart
  <1> QED
    BY <1>1, <1>2, <1>3, <1>4, <1>5, <1>6, <1>7, <1>8 DEF Next, vars

\* Backups and the peer's messages only grow, and what is sent is kept by a region.
LEMMA KeepersGrow ==
    ASSUME [Next]_vars
    PROVE  /\ UNCHANGED backupVars \/ TakeBackup
           /\ backup \subseteq backup' /\ peer \subseteq peer'
           /\ UNCHANGED sent \/ Publish \/ PeerPublish
  <1>1. CASE Reconcile
    <2>1. UNCHANGED <<backupVars, peer, sent>>
      BY <1>1 DEF natsVars, LoadCommon, GateCommon, CallCommon, Reconcile,
         ReadCR, InitStatus, AddFinalizer, RoleReadFails, ReadRole,
         LoadGuarded, LoadFlipped, LoadConverged, LoadApply, LoadFails,
         GateLocal, GateFails, GateProbe, RecreateDelete, Create, Unmirror, Reload,
         UpdateAccepted, UpdateRejected, Verify, Persist, WriteStatus,
         FinalizeStatus, FinalizeLoad, FinalizeDelete, RemoveFinalizer
    <2> QED
      BY <2>1 DEF backupVars
  <1>2. CASE TakeBackup
    BY <1>2 DEF TakeBackup, natsVars
  <1>3. CASE Environment /\ ~TakeBackup
    BY <1>3 DEF natsVars, backupVars, Environment, Publish, Replicate, SyncCR,
       SyncRole, EditSpec, MarkDeleted, FlipRole, PeerPublish,
       PeerReplicate, SourceReleases, SourceClaims, ConfirmBackup, Restart
  <1>4. CASE UNCHANGED vars
    BY <1>4 DEF vars, natsVars, backupVars
  <1> QED
    BY <1>1, <1>2, <1>3, <1>4 DEF Next

\* The copies of the CR stay sound, and confirm what was captured.
LEMMA NextCopies ==
    ASSUME GateProtects, TypeOK, LossInv, [Next]_vars
    PROVE  SoundCopies'
  <1> USE DEF SoundCopy
  <1>1. SoundCopies /\ left.delete = 0
    BY DEF LossInv, RolesSettle
  <1>2. SoundCopy(cr')
    <2>1. ~cr'.deleting
      BY <1>1, DeletionKept DEF MarkDeleted, SoundCopies
    <2>2. cr'.gen > 0
      BY <1>1, CRMoves DEF SoundCopies, TypeOK, CRs
    <2>3. MirrorsByRole(cr'.spec)
      BY <1>1, CRMoves DEF SoundCopies, GateProtects
    <2> QED
      BY <2>1, <2>2, <2>3
  <1>3. SoundCopy(NoCR) /\ NoCR.confirmed = 0
    BY DEF NoCR, NewCR, MirrorsByRole, IsMirror
  <1>4. SoundCopy(crCache') /\ SoundCopy(obj')
    BY <1>1, <1>2, <1>3, CopySource, CacheSource DEF SoundCopies
  <1>5. backupGen > 0 => backupGen' > 0
    BY <1>1, KeepersGrow DEF backupVars, TakeBackup, SoundCopies
  <1>6. cr'.confirmed > 0 \/ crCache'.confirmed > 0 \/ obj'.confirmed > 0 => backupGen' > 0
    BY <1>1, <1>3, <1>5, CRMoves, CopySource, CacheSource DEF SoundCopies
  <1> QED
    BY <1>2, <1>4, <1>6 DEF SoundCopies, MirrorsByRole, IsMirror, Translates

\* In a settled region what is saved stays saved: only the peer adds messages.
LEMMA SavedStays ==
    ASSUME GateProtects, Settled, Saved, [Next]_vars
    PROVE  Saved'
  <1>1. backup \subseteq backup' /\ peer \subseteq peer'
    BY KeepersGrow
  <1>2. CASE msgs' = msgs
    BY <1>1, <1>2 DEF Saved
  <1>3. CASE RecreateDelete \/ FinalizeDelete
    BY <1>1, <1>3 DEF Saved, RecreateDelete, FinalizeDelete
  <1>4. CASE Replicate
    BY <1>1, <1>4 DEF Saved, Replicate
  <1>5. ~Publish
    BY DEF Publish, Settled, GateProtects
  <1> QED
    BY <1>2, <1>3, <1>4, <1>5, MessageWrites

\* The gate is entered by a flip and by a rejection, and opened by the local check.
LEMMA GateSource ==
    ASSUME RequireBackup, ~ProbeConfigured, pc # "probe", [Next]_vars
    PROVE  /\ pc' # "probe"
           /\ pc' = "gate" => pc = "gate" \/ LoadFlipped \/ UpdateRejected
           /\ pc' = "delete" => pc = "delete" \/ GateLocal
           /\ verdict' = "WaitingForBackup" => verdict = "WaitingForBackup" \/ pc = "gate"
  <1> USE DEF Report
  <1>1. CASE \/ ReadCR \/ InitStatus \/ AddFinalizer \/ RoleReadFails \/ ReadRole
             \/ WriteStatus \/ FinalizeStatus \/ FinalizeLoad \/ FinalizeDelete
             \/ RemoveFinalizer \/ Persist
    BY <1>1 DEF ReadCR, InitStatus, AddFinalizer, RoleReadFails, ReadRole, WriteStatus,
       FinalizeStatus, FinalizeLoad, FinalizeDelete, RemoveFinalizer, Persist, EndPass,
       localVars
  <1>2. CASE \/ LoadGuarded \/ LoadFlipped \/ LoadConverged \/ LoadApply \/ LoadFails
             \/ GateLocal \/ GateFails \/ GateProbe \/ RecreateDelete
    BY <1>2 DEF LoadCommon, LoadGuarded, LoadFlipped, LoadConverged, LoadApply, LoadFails,
       GateCommon, GateLocal, GateFails, GateProbe, RecreateDelete
  <1>3. CASE Create \/ Unmirror \/ Reload \/ UpdateAccepted \/ UpdateRejected \/ Verify
    BY <1>3 DEF CallCommon, Create, Unmirror, Reload, UpdateAccepted, UpdateRejected,
       Verify
  <1>4. CASE Environment
    BY <1>4 DEF Environment, SyncCR, SyncRole, EditSpec, MarkDeleted, FlipRole,
       Publish, PeerPublish, Replicate, PeerReplicate, SourceReleases,
       SourceClaims, TakeBackup, ConfirmBackup, Restart, EndPass, localVars
  <1>5. CASE UNCHANGED vars
    BY <1>5 DEF vars, localVars
  <1> QED
    BY <1>1, <1>2, <1>3, <1>4, <1>5 DEF Next, Reconcile

\* The gate is entered for a primary that is to become a mirror: in a settled region.
LEMMA GateEntered ==
    ASSUME TypeOK, PassInv, LossInv, LoadFlipped \/ UpdateRejected, pc' = "gate"
    PROVE  Settled
  <1>1. FormByRole /\ NoPrimaryYet
    BY DEF LossInv
  <1>2. IsMirror(eff) /\ ~IsMirror(server) /\ server # NoConfig /\ Acting
    <2>1. CASE LoadFlipped
      <3>1. MustRecreate(server) /\ pc = "load"
        BY <2>1 DEF LoadFlipped, LoadCommon
      <3>2. IsMirror(eff)
        BY <3>1, FlippedIsMirror DEF TypeOK
      <3> QED
        BY <3>1, <3>2 DEF MustRecreate, FlipWanted, ConvertActive, MirrorFlipped,
           MirrorToPrimaryFlip, Acting
    <2>2. CASE UpdateRejected
      <3>1. ReactiveRecreate /\ pc = "update" /\ srv = server
        BY <2>2 DEF UpdateRejected, Report, PassInv, ViewIsCurrent
      <3>2. IsMirror(eff)
        BY <3>1, ReactiveIsMirror
      <3>3. ~eff.subjects /\ eff.mirror = "peer"
        BY <1>1, <3>1, <3>2 DEF FormByRole, Acting, IsMirror
      <3>4. server # NoConfig /\ server.mirror # "peer" /\ server.mirror # "authored"
        BY <1>1, <3>1, <3>2, <3>3
        DEF FormByRole, ReactiveRecreate, UpdateReply, MirrorToPrimaryFlip
      <3> QED
        BY <3>1, <3>2, <3>4 DEF IsMirror, Acting
    <2> QED
      BY <2>1, <2>2
  <1>3. Translates /\ seenRole = "passive"
    BY <1>1, <1>2 DEF FormByRole, IsMirror
  <1> QED
    BY <1>1, <1>2, <1>3 DEF NoPrimaryYet

\* A gate that opens has nothing to protect, or protects it by a backup.
LEMMA GateOpens ==
    ASSUME TypeOK, LossInv, GateLocal, pc' = "delete"
    PROVE  Saved
  <1>1. msgs = {} \/ obj.confirmed = obj.gen
    BY DEF GateLocal, Report
  <1>2. obj.confirmed = obj.gen => backupGen > 0
    BY DEF LossInv, SoundCopies, SoundCopy
  <1> QED
    BY <1>1, <1>2 DEF LossInv, GateSettled, Saved

\* The gate stays with settled regions.
LEMMA NextGate ==
    ASSUME GateProtects, TypeOK, PassInv, LossInv, [Next]_vars
    PROVE  GateSettled'
  <1>1. GateSettled /\ (Settled => Settled')
    BY NextRoles DEF LossInv
  <1>2. RequireBackup /\ ~ProbeConfigured /\ pc # "probe"
    BY <1>1 DEF GateProtects, GateSettled
  <1>3. pc' \in {"gate", "delete"} => Settled
    BY <1>1, <1>2, GateSource, GateEntered DEF GateSettled, GateLocal
  <1>4. verdict' = "WaitingForBackup" \/ cr'.backupRequired => Settled
    BY <1>1, <1>2, GateSource, CRMoves DEF GateSettled
  <1>5. backupGen' > 0 => Settled' /\ Saved'
    <2>1. CASE TakeBackup
      <3>1. Settled
        BY <1>1, <2>1 DEF TakeBackup, GateSettled
      <3>2. Saved'
        BY <2>1 DEF TakeBackup, Saved, natsVars
      <3> QED
        BY <1>1, <3>1, <3>2
    <2>2. CASE UNCHANGED backupVars
      BY <1>1, <2>2, SavedStays DEF GateSettled, backupVars
    <2> QED
      BY <2>1, <2>2, KeepersGrow
  <1>6. pc' = "delete" => Saved'
    <2> SUFFICES ASSUME pc' = "delete" PROVE Saved'
      OBVIOUS
    <2>1. pc = "delete" \/ GateLocal
      BY <1>2, GateSource
    <2>2. Saved
      BY <1>1, <2>1, GateOpens DEF GateSettled
    <2> QED
      BY <1>3, <2>2, SavedStays
  <1> QED
    BY <1>1, <1>2, <1>3, <1>4, <1>5, <1>6, GateSource DEF GateSettled

\* A message that leaves the stream is elsewhere.
LEMMA NextNothingLost ==
    ASSUME GateProtects, PassInv, LossInv, [Next]_vars
    PROVE  NothingLost'
  <1>1. sent \subseteq msgs \cup peer \cup backup
    BY DEF LossInv, NothingLost
  <1>2. backup \subseteq backup' /\ peer \subseteq peer'
    BY KeepersGrow
  <1>3. msgs \subseteq msgs' \cup peer' \cup backup'
    <2>1. CASE msgs' = msgs \/ Publish \/ Replicate
      BY <2>1 DEF Publish, Replicate
    <2>2. CASE RecreateDelete
      BY <1>2, <2>2 DEF RecreateDelete, LossInv, GateSettled, Saved
    <2>3. CASE FinalizeDelete
      BY <2>3 DEF FinalizeDelete, PassInv, FinalizingDeleted, FinalizationPCs, LossInv,
         SoundCopies, SoundCopy
    <2> QED
      BY <2>1, <2>2, <2>3, MessageWrites
  <1>4. sent' \subseteq sent \cup msgs' \cup peer'
    BY KeepersGrow DEF Publish, PeerPublish
  <1> QED
    BY <1>1, <1>2, <1>3, <1>4 DEF NothingLost

\* What the backup gate is for: every message ever accepted is in the stream, in the
\* peer region or in a backup - for any number of messages, edits, faults and
\* restarts, of a role that flips once.  Each hypothesis is needed.  With a second
\* flip, for one, a pass that read the passive role finds the gate open for an empty
\* stream, which fills again before the delete; or the confirmation of the first
\* demotion, which names a generation that a flip does not move, opens the gate of
\* the second.
THEOREM BackupSaves ==
    ASSUME GateProtects
    PROVE  Spec => []NothingLost
  <1>1. Spec => []MappingInv
    BY InitMapping, NextMapping, TypeCorrect, PTL DEF Spec
  <1>2. Init => LossInv
    BY InitLoss
  <1>3. TypeOK /\ PassInv /\ MappingInv /\ LossInv /\ [Next]_vars => LossInv'
    BY NextRoles, NextCopies, NextForm, NextPrimary, NextGate, NextNothingLost DEF LossInv
  <1>4. LossInv => NothingLost
    BY DEF LossInv
  <1> QED
    BY <1>1, <1>2, <1>3, <1>4, TypeCorrect, PassInvariant, PTL DEF Spec
=============================================================================
