---------------------- MODULE AccountedResourcesProofs ----------------------
(***************************************************************************)
(* An Account stays while a CR needs it, a CR that is let go leaves nothing *)
(* behind and a CR reported Ready has what it asks for, for both kinds of   *)
(* resource and any number of users' operations and faults.                *)
(***************************************************************************)
EXTENDS AccountedResources, TLAPS

CRs == [present: BOOLEAN, gen: Nat, ver: 0..2, account: BOOLEAN, keep: BOOLEAN,
        pin: BOOLEAN, finalizer: BOOLEAN, deleting: BOOLEAN, stored: 0..2,
        observed: Nat,
        ready: {"absent", "Reconciling", "Ready", "Errored", "Finalizing"}]

Accounts == [present: BOOLEAN, deleting: BOOLEAN, finalizer: BOOLEAN,
             ready: {"absent", "Reconciling", "Ready", "Finalizing"}]

AccountStages == {"idle", "init", "add", "ready", "list", "hold", "release"}

Stages == {"idle", "initStatus", "finalStatus", "load", "addFinalizer", "ready",
           "create", "update", "readBack", "persist", "errored", "reportAgain",
           "removeFinalizer", "finalDelete"}

TypeOK ==
    /\ kind \in Kinds /\ readOnly \in ReadOnlyModes
    /\ acc \in Accounts /\ accCache \in Accounts /\ aobj \in Accounts
    /\ cr \in CRs /\ crCache \in CRs /\ obj \in CRs
    /\ server \in 0..2 /\ got \in 0..2 /\ parent \in BOOLEAN
    /\ ops \in Nat /\ faults \in Nat /\ faults <= MaxFaults
    /\ accDue \in BOOLEAN /\ apc \in AccountStages /\ pc \in Stages
    /\ late \in BOOLEAN /\ early \in BOOLEAN

-----------------------------------------------------------------------------
(* Types. *)

\* A CR a user makes is a CR.
LEMMA NewCRType ==
    ASSUME NEW v \in 0..2, NEW a \in BOOLEAN, NEW k \in BOOLEAN, NEW p \in BOOLEAN
    PROVE  NewCR(v, a, k, p) \in CRs
  BY DEF NewCR, CRs

\* What stands for no CR is a CR that is not present.
LEMMA NoCRType == NoCR \in CRs /\ ~NoCR.present
  <1>1. NewCR(1, FALSE, FALSE, FALSE) \in CRs
    BY DEF NewCR, CRs
  <1>2. \A c \in CRs : [c EXCEPT !.present = FALSE] \in CRs
                      /\ ~[c EXCEPT !.present = FALSE].present
    BY DEF CRs
  <1> QED
    BY <1>1, <1>2 DEF NoCR

\* A new Account is an Account that is not deleted.
LEMMA NewAccountType == NewAccount \in Accounts /\ NewAccount.deleting = FALSE
  BY DEF NewAccount, Accounts

\* A failing call leaves the number of faults in its bounds.
LEMMA FaultType ==
    ASSUME faults \in Nat, faults <= MaxFaults, Fault
    PROVE  faults' \in Nat /\ faults' <= MaxFaults /\ Faulty'
  BY ResourcesAssumption DEF Fault, Faulty

\* The updates the workers and the users make to a CR yield a CR.
LEMMA UpdatedCRs ==
    ASSUME NEW c \in CRs
    PROVE  /\ \A r \in {"absent", "Reconciling", "Ready", "Errored", "Finalizing"} :
                 [c EXCEPT !.ready = r] \in CRs
           /\ [c EXCEPT !.finalizer = TRUE] \in CRs
           /\ [c EXCEPT !.ready = "Ready", !.observed = c.gen] \in CRs
           /\ [c EXCEPT !.present = FALSE, !.finalizer = FALSE] \in CRs
           /\ \A v \in 0..2 : [c EXCEPT !.stored = v] \in CRs
           /\ \A v \in 0..2 : [c EXCEPT !.ver = v, !.gen = @ + 1] \in CRs
           /\ [c EXCEPT !.deleting = TRUE, !.present = c.finalizer] \in CRs
  <1>1. \A r \in {"absent", "Reconciling", "Ready", "Errored", "Finalizing"} :
             [c EXCEPT !.ready = r] \in CRs
    BY DEF CRs
  <1>2. [c EXCEPT !.finalizer = TRUE] \in CRs
    BY DEF CRs
  <1>3. [c EXCEPT !.ready = "Ready", !.observed = c.gen] \in CRs
    BY DEF CRs
  <1>4. [c EXCEPT !.present = FALSE, !.finalizer = FALSE] \in CRs
    BY DEF CRs
  <1>5. \A v \in 0..2 : [c EXCEPT !.stored = v] \in CRs
    BY DEF CRs
  <1>6. \A v \in 0..2 : [c EXCEPT !.ver = v, !.gen = @ + 1] \in CRs
    <2>1. c.gen + 1 \in Nat
      BY DEF CRs
    <2> QED
      BY <2>1 DEF CRs
  <1>7. [c EXCEPT !.deleting = TRUE, !.present = c.finalizer] \in CRs
    BY DEF CRs
  <1> QED
    BY <1>1, <1>2, <1>3, <1>4, <1>5, <1>6, <1>7

\* So do the updates of an Account.
LEMMA UpdatedAccounts ==
    ASSUME NEW a \in Accounts
    PROVE  /\ \A r \in {"absent", "Reconciling", "Ready", "Finalizing"} :
                 [a EXCEPT !.ready = r] \in Accounts
           /\ [a EXCEPT !.finalizer = TRUE] \in Accounts
           /\ [a EXCEPT !.present = FALSE, !.finalizer = FALSE] \in Accounts
           /\ [a EXCEPT !.deleting = TRUE, !.present = a.finalizer] \in Accounts
  BY DEF Accounts

\* A write of the Account worker keeps the types.
LEMMA WriteAccountType ==
    ASSUME TypeOK, NEW label, NEW new \in Accounts, NEW requeue \in BOOLEAN,
           WriteAccount(label, new, requeue)
    PROVE  TypeOK'
  <1>1. faults' \in Nat /\ faults' <= MaxFaults
    BY FaultType DEF WriteAccount, TypeOK
  <1>2. acc' \in Accounts /\ aobj' \in Accounts
    BY NewAccountType DEF WriteAccount, TypeOK
  <1>3. accDue' \in BOOLEAN
    BY DEF WriteAccount, TypeOK
  <1> QED
    BY <1>1, <1>2, <1>3
    DEF WriteAccount, AccountUnchanged, TypeOK, AccountStages, modes, crVars,
        natsVars, worker, history

\* The Account worker keeps the types.
LEMMA AccountTypes == TypeOK /\ AccountReconcile => TypeOK'
  <1> SUFFICES ASSUME TypeOK, AccountReconcile PROVE TypeOK'
    OBVIOUS
  <1>1. CASE ReadAccount
    BY <1>1 DEF ReadAccount, AccountUnchanged, TypeOK, AccountStages, modes, crVars,
        natsVars, worker, history
  <1>2. CASE InitAccount
    <2>1. [acc EXCEPT !.ready = "Reconciling"] \in Accounts
      BY UpdatedAccounts DEF TypeOK
    <2> QED
      BY <1>2, <2>1, WriteAccountType DEF InitAccount
  <1>3. CASE AddAccountFinalizer
    <2>1. [acc EXCEPT !.finalizer = TRUE] \in Accounts
      BY UpdatedAccounts DEF TypeOK
    <2> QED
      BY <1>3, <2>1, WriteAccountType DEF AddAccountFinalizer
  <1>4. CASE AccountReady
    <2>1. [acc EXCEPT !.ready = "Ready"] \in Accounts
      BY UpdatedAccounts DEF TypeOK
    <2> QED
      BY <1>4, <2>1, WriteAccountType DEF AccountReady
  <1>5. CASE ListDependents
    <2>1. faults' \in Nat /\ faults' <= MaxFaults
      BY <1>5, FaultType DEF ListDependents, TypeOK
    <2>2. apc' \in AccountStages
      BY <1>5 DEF ListDependents, AccountStages
    <2> QED
      BY <1>5, <2>1, <2>2
      DEF ListDependents, AccountUnchanged, TypeOK, modes, crVars, natsVars, worker, history
  <1>6. CASE HoldAccount
    <2>1. [acc EXCEPT !.ready = "Finalizing"] \in Accounts
      BY UpdatedAccounts DEF TypeOK
    <2> QED
      BY <1>6, <2>1, WriteAccountType DEF HoldAccount
  <1>7. CASE ReleaseAccount
    <2>1. [acc EXCEPT !.present = FALSE, !.finalizer = FALSE] \in Accounts
      BY UpdatedAccounts DEF TypeOK
    <2> QED
      BY <1>7, <2>1, WriteAccountType DEF ReleaseAccount
  <1> QED
    BY <1>1, <1>2, <1>3, <1>4, <1>5, <1>6, <1>7 DEF AccountReconcile

\* The resource worker keeps the types: each action is given by what it does to
\* the CR, to its copy, to the server and to the number of faults.
LEMMA ResourceTypes == TypeOK /\ ResourceReconcile => TypeOK'
  <1> SUFFICES ASSUME TypeOK, ResourceReconcile PROVE TypeOK'
    OBVIOUS
  <1> USE DEF TypeOK
  <1> DEFINE
        Actions == \/ ReadCR \/ InitStatus \/ AddFinalizer \/ Load \/ Create \/ Update
                   \/ ReadBack \/ Persist \/ ReportReady \/ ReportError
                   \/ ReportAgain \/ FinalStatus \/ FinalDelete \/ RemoveFinalizer
  <1>0. Actions
    BY DEF ResourceReconcile
  <1>1. faults' \in Nat /\ faults' <= MaxFaults
    BY <1>0, FaultType
    DEF ReadCR, InitStatus, AddFinalizer, Load, Create, Update, Sent, Refused, ReadBack,
        Persist, ReportReady, ReportError, ReportAgain, FinalStatus, FinalDelete,
        RemoveFinalizer, LastWrite, Write, WriteFails
  <1>2. cr' \in CRs
    <2>1. CASE InitStatus \/ AddFinalizer \/ RemoveFinalizer
      BY <2>1
      DEF InitStatus, AddFinalizer, RemoveFinalizer, LastWrite, Write, WriteFails, crVars, CRs
    <2>2. CASE Persist \/ ReportReady
      BY <2>2 DEF Persist, ReportReady, Write, WriteFails, crVars, CRs
    <2>3. CASE ReportError \/ ReportAgain \/ FinalStatus
      BY <2>3 DEF ReportError, ReportAgain, FinalStatus, Write, WriteFails, crVars, CRs
    <2>4. CASE ReadCR \/ Load \/ Create \/ Update \/ ReadBack \/ FinalDelete
      BY <2>4 DEF ReadCR, Load, Create, Update, ReadBack, FinalDelete, crVars
    <2> QED
      BY <1>0, <2>1, <2>2, <2>3, <2>4
  <1>3. obj' \in CRs
    BY <1>0, <1>2, NoCRType
    DEF ReadCR, InitStatus, AddFinalizer, Load, Create, Update, Sent, Refused, ReadBack,
        Persist, ReportReady, ReportError, ReportAgain, FinalStatus, FinalDelete,
        RemoveFinalizer, LastWrite, AfterError, Unparsed, AfterFailedDelete, AfterMissing,
        EndPass, Goto
  <1>4. server' \in 0..2 /\ got' \in 0..2
    BY <1>0
    DEF ReadCR, InitStatus, AddFinalizer, Load, Create, Update, Sent, Refused, ReadBack,
        Persist, ReportReady, ReportError, ReportAgain, FinalStatus, FinalDelete,
        RemoveFinalizer, LastWrite, AfterError, Unparsed, AfterFailedDelete, AfterMissing,
        EndPass, Goto, natsVars, CRs
  <1>5. pc' \in Stages
    BY <1>0
    DEF ReadCR, InitStatus, AddFinalizer, Load, Create, Update, Sent, Refused, ReadBack,
        Persist, ReportReady, ReportError, ReportAgain, FinalStatus, FinalDelete,
        RemoveFinalizer, LastWrite, AfterError, Unparsed, AfterFailedDelete, AfterMissing,
        Decide, Applied, EndPass, Goto, Stages
  <1>6. parent' \in BOOLEAN /\ crCache' \in CRs
    BY <1>0
    DEF ReadCR, InitStatus, AddFinalizer, Load, Create, Update, ReadBack,
        Persist, ReportReady, ReportError, ReportAgain, FinalStatus, FinalDelete,
        RemoveFinalizer, LastWrite, Write, WriteFails, crVars, natsVars
  <1>7. UNCHANGED <<kind, readOnly, acc, accCache, ops, accDue, apc, aobj, late, early>>
    BY <1>0
    DEF ReadCR, InitStatus, AddFinalizer, Load, Create, Update, ReadBack,
        Persist, ReportReady, ReportError, ReportAgain, FinalStatus, FinalDelete,
        RemoveFinalizer, LastWrite, ResourceUnchanged, modes, accVars, accWorker, history
  <1> QED
    BY <1>1, <1>2, <1>3, <1>4, <1>5, <1>6, <1>7

\* Informers, users, faults and restarts keep the types.
LEMMA EnvironmentTypes == TypeOK /\ Environment => TypeOK'
  <1> SUFFICES ASSUME TypeOK, Environment PROVE TypeOK'
    OBVIOUS
  <1> USE DEF TypeOK
  <1> DEFINE
        Actions == \/ SyncAccount \/ SyncCR \/ CreateAccount \/ DeleteAccount
                   \/ CreateCR \/ EditCR \/ DeleteCR \/ LoseObject
                   \/ RestoreParent \/ Restart
  <1>0. Actions
    BY DEF Environment
  <1>1. faults' \in Nat /\ faults' <= MaxFaults
    BY <1>0, FaultType
    DEF SyncAccount, SyncCR, CreateAccount, DeleteAccount, CreateCR, EditCR, DeleteCR,
        LoseObject, RestoreParent, Restart, UserOp
  <1>2. cr' \in CRs
    <2>1. CASE CreateCR
      <3>1. PICK v \in 0..1, a \in Uses, f \in Flags : cr' = NewCR(v, a, f[1], f[2])
        BY <2>1 DEF CreateCR
      <3>2. a \in BOOLEAN /\ f[1] \in BOOLEAN /\ f[2] \in BOOLEAN
        BY ResourcesAssumption
      <3>3. v \in 0..2
        OBVIOUS
      <3> QED
        BY <3>1, <3>2, <3>3, NewCRType
    <2>2. CASE EditCR
      <3>1. PICK v \in 0..2 : cr' = [cr EXCEPT !.ver = v, !.gen = @ + 1]
        BY <2>2 DEF EditCR
      <3>2. cr.gen + 1 \in Nat
        BY DEF CRs
      <3> QED
        BY <3>1, <3>2 DEF CRs
    <2>3. CASE DeleteCR
      BY <2>3 DEF DeleteCR, CRs
    <2>4. CASE UNCHANGED cr
      BY <2>4
    <2> QED
      BY <1>0, <2>1, <2>2, <2>3, <2>4
      DEF SyncAccount, SyncCR, CreateAccount, DeleteAccount, LoseObject,
          RestoreParent, Restart, crVars
  <1>3. acc' \in Accounts
    BY <1>0, NewAccountType
    DEF SyncAccount, SyncCR, CreateAccount, DeleteAccount, CreateCR, EditCR, DeleteCR,
        LoseObject, RestoreParent, Restart, UserOp, accVars, Accounts
  <1>4. accCache' \in Accounts /\ crCache' \in CRs
    BY <1>0
    DEF SyncAccount, SyncCR, CreateAccount, DeleteAccount, CreateCR, EditCR, DeleteCR,
        LoseObject, RestoreParent, Restart, UserOp, accVars, crVars
  <1>5. /\ aobj' \in Accounts /\ apc' \in AccountStages
        /\ obj' \in CRs /\ pc' \in Stages /\ got' \in 0..2
    <2>1. CASE Restart
      BY <2>1, NewAccountType, NoCRType DEF Restart, EndPass, AccountStages, Stages
    <2>2. CASE Idle
      BY <2>2 DEF Idle, worker
    <2> QED
      BY <1>0, <2>1, <2>2
      DEF SyncAccount, SyncCR, CreateAccount, DeleteAccount, CreateCR, EditCR, DeleteCR,
          LoseObject, RestoreParent, UserOp
  <1>6. server' \in 0..2 /\ parent' \in BOOLEAN
    <2>1. CASE LoseObject
      <3>1. server' = 0 /\ parent' = (kind # "consumer")
        BY <2>1, Zenon DEF LoseObject
      <3>2. parent' \in BOOLEAN
        BY <3>1, Zenon
      <3> QED
        BY <3>1, <3>2
    <2>2. CASE ~LoseObject
      BY <1>0, <2>2
      DEF SyncAccount, SyncCR, CreateAccount, DeleteAccount, CreateCR, EditCR, DeleteCR,
          RestoreParent, Restart, UserOp, natsVars
    <2> QED
      BY <2>1, <2>2
  <1>7. ops' \in Nat
    <2>1. UserOp => ops' \in Nat
      BY DEF UserOp
    <2> QED
      BY <1>0, <2>1
      DEF SyncAccount, SyncCR, CreateAccount, DeleteAccount, CreateCR, EditCR, DeleteCR,
          LoseObject, RestoreParent, Restart
  <1>8. late' \in BOOLEAN /\ early' \in BOOLEAN
    BY <1>0
    DEF SyncAccount, SyncCR, CreateAccount, DeleteAccount, CreateCR, EditCR, DeleteCR,
        LoseObject, RestoreParent, Restart, UserOp, history, Accounts, CRs
  <1>9. UNCHANGED <<kind, readOnly>> /\ accDue' \in BOOLEAN
    BY <1>0
    DEF SyncAccount, SyncCR, CreateAccount, DeleteAccount, CreateCR, EditCR, DeleteCR,
        LoseObject, RestoreParent, Restart, UserOp, Idle, modes, Accounts
  <1> QED
    BY <1>1, <1>2, <1>3, <1>4, <1>5, <1>6, <1>7, <1>8, <1>9

\* The caches, the CRs and the workers always hold what their types say.
THEOREM TypeCorrect == Spec => []TypeOK
  <1>1. Init => TypeOK
    <2> SUFFICES ASSUME Init PROVE TypeOK
      OBVIOUS
    <2>1. acc \in Accounts
      BY DEF Init, NewAccount, Accounts
    <2>2. aobj \in Accounts /\ cr \in CRs /\ obj \in CRs
      BY NewAccountType, NoCRType DEF Init
    <2>3. ops \in Nat /\ faults \in Nat /\ faults <= MaxFaults
      BY ResourcesAssumption DEF Init
    <2>4. accCache \in Accounts /\ crCache \in CRs
      BY <2>1, <2>2, Zenon DEF Init
    <2>5. kind \in Kinds /\ readOnly \in ReadOnlyModes
      BY DEF Init
    <2>6. /\ parent \in BOOLEAN /\ accDue \in BOOLEAN
          /\ late \in BOOLEAN /\ early \in BOOLEAN
          /\ apc \in AccountStages /\ pc \in Stages
      BY Zenon DEF Init, AccountStages, Stages
    <2>7. server \in 0..2 /\ got \in 0..2
      <3>1. server = 0 /\ got = 0
        BY Zenon DEF Init
      <3> QED
        BY <3>1
    <2> QED
      BY <2>1, <2>2, <2>3, <2>4, <2>5, <2>6, <2>7 DEF TypeOK
  <1>2. TypeOK /\ [Next]_vars => TypeOK'
    <2>1. TypeOK /\ UNCHANGED vars => TypeOK'
      BY DEF TypeOK, vars, modes, accVars, crVars, natsVars, accWorker, worker, history
    <2> QED
      BY <2>1, AccountTypes, ResourceTypes, EnvironmentTypes DEF Next
  <1> QED
    BY <1>1, <1>2, PTL DEF Spec
-----------------------------------------------------------------------------
(* The account outlives the CRs that name it. *)

\* What the caches and the worker's copy say of a deletion is still so.
CacheFollows == accCache.present /\ accCache.deleting => acc.deleting
PassDeletes == apc \in {"list", "hold", "release"} => aobj.deleting
PassFollows == aobj.deleting /\ acc.finalizer => acc.deleting
SameAccount == crCache.present /\ cr.present => crCache.account = cr.account

\* An account marked for deletion in time sees the CR there is.
DependentSeen ==
    acc.deleting /\ cr.present /\ ~late /\ ~Faulty => crCache.present

\* A pass that is about to let the current account go is right.
ReleaseIsRight ==
    apc = "release" /\ aobj = acc /\ ~late /\ ~Faulty => ~(cr.present /\ cr.account)

AccountThere == cr.present /\ cr.account /\ ~acc.present => late \/ Faulty

AccountInv ==
    /\ CacheFollows /\ PassDeletes /\ PassFollows /\ SameAccount
    /\ DependentSeen /\ ReleaseIsRight /\ AccountThere

\* Faults are not forgotten.
LEMMA FaultsStay == TypeOK /\ Next => (Faulty => Faulty')
  <1> SUFFICES ASSUME TypeOK, Next, Faulty PROVE Faulty'
    OBVIOUS
  <1>1. Fault => Faulty'
    BY FaultType DEF TypeOK
  <1>2. UNCHANGED faults => Faulty'
    BY DEF Faulty
  <1>3. AccountReconcile => Fault \/ UNCHANGED faults
    BY DEF AccountReconcile, ReadAccount, InitAccount, AddAccountFinalizer, AccountReady,
        ListDependents, HoldAccount, ReleaseAccount, WriteAccount
  <1>4. ResourceReconcile => Fault \/ UNCHANGED faults
    BY DEF ResourceReconcile, ReadCR, InitStatus, AddFinalizer, Load, Create, Update, Sent,
        Refused, ReadBack, Persist, ReportReady, ReportError, ReportAgain, FinalStatus,
        FinalDelete, RemoveFinalizer, LastWrite, Write, WriteFails
  <1>5. Environment => Fault \/ UNCHANGED faults
    BY DEF Environment, SyncAccount, SyncCR, CreateAccount, DeleteAccount, CreateCR, EditCR,
        DeleteCR, LoseObject, RestoreParent, Restart, UserOp
  <1> QED
    BY <1>1, <1>2, <1>3, <1>4, <1>5 DEF Next

\* The resource worker leaves the accounts, the caches and the history alone, and
\* of its CR the account.
LEMMA ResourceLeavesAccount ==
    ASSUME TypeOK, ResourceReconcile
    PROVE  /\ UNCHANGED <<acc, accCache, crCache, apc, aobj, late, early, readOnly>>
           /\ cr'.account = cr.account
           /\ cr'.present => cr.present
  <1> DEFINE
        Actions == \/ ReadCR \/ InitStatus \/ AddFinalizer \/ Load \/ Create \/ Update
                   \/ ReadBack \/ Persist \/ ReportReady \/ ReportError
                   \/ ReportAgain \/ FinalStatus \/ FinalDelete \/ RemoveFinalizer
  <1>0. Actions
    BY DEF ResourceReconcile
  <1>1. UNCHANGED <<acc, accCache, crCache, apc, aobj, late, early, readOnly>>
    BY <1>0
    DEF ReadCR, InitStatus, AddFinalizer, Load, Create, Update, ReadBack,
        Persist, ReportReady, ReportError, ReportAgain, FinalStatus, FinalDelete,
        RemoveFinalizer, LastWrite, Write, WriteFails, crVars,
        ResourceUnchanged, modes, accVars, accWorker, history
  <1>2. cr'.account = cr.account /\ (cr'.present => cr.present)
    <2>1. CASE InitStatus \/ AddFinalizer \/ RemoveFinalizer
      BY <2>1
      DEF InitStatus, AddFinalizer, RemoveFinalizer, LastWrite, Write, WriteFails, crVars,
          TypeOK, CRs
    <2>2. CASE Persist \/ ReportReady
      BY <2>2 DEF Persist, ReportReady, Write, WriteFails, crVars, TypeOK, CRs
    <2>3. CASE ReportError \/ ReportAgain \/ FinalStatus
      BY <2>3
      DEF ReportError, ReportAgain, FinalStatus, Write, WriteFails, crVars, TypeOK, CRs
    <2>4. CASE ReadCR \/ Load \/ Create \/ Update \/ ReadBack \/ FinalDelete
      BY <2>4 DEF ReadCR, Load, Create, Update, ReadBack, FinalDelete, crVars
    <2> QED
      BY <1>0, <2>1, <2>2, <2>3, <2>4
  <1> QED
    BY <1>1, <1>2

\* The Account worker keeps the account part.
LEMMA AccountKeepsAccount == TypeOK /\ AccountInv /\ AccountReconcile => AccountInv'
  <1> SUFFICES ASSUME TypeOK, AccountInv, AccountReconcile PROVE AccountInv'
    OBVIOUS
  <1>0. Faulty => Faulty'
    BY FaultsStay DEF Next
  <1>1. CASE ReadAccount
    BY <1>0, <1>1
    DEF ReadAccount, AccountUnchanged, crVars, history, AccountInv, CacheFollows, PassDeletes,
        PassFollows, SameAccount, DependentSeen, ReleaseIsRight, AccountThere, TypeOK, Accounts
  <1>2. CASE InitAccount \/ AddAccountFinalizer \/ AccountReady \/ HoldAccount
    <2>1. /\ acc'.deleting = acc.deleting /\ acc'.present = acc.present
          /\ apc' = "idle" /\ ~aobj'.deleting
          /\ UNCHANGED <<accCache, cr, crCache, late>>
      BY <1>2, NewAccountType
      DEF InitAccount, AddAccountFinalizer, AccountReady, HoldAccount, WriteAccount,
          AccountUnchanged, crVars, history, TypeOK, Accounts
    <2> QED
      BY <1>0, <2>1
      DEF AccountInv, CacheFollows, PassDeletes, PassFollows, SameAccount, DependentSeen,
          ReleaseIsRight, AccountThere
  <1>3. CASE ListDependents
    <2>1. /\ UNCHANGED <<acc, accCache, aobj, cr, crCache, late>>
          /\ apc = "list" /\ apc' \in {"hold", "release"}
      BY <1>3 DEF ListDependents, AccountUnchanged, crVars, history
    <2>2. ReleaseIsRight'
      <3>1. CASE Fault
        BY <3>1, FaultType DEF ReleaseIsRight, TypeOK
      <3>2. CASE apc' = (IF Dependents THEN "hold" ELSE "release")
        BY <1>0, <2>1, <3>2
        DEF Dependents, AccountInv, PassDeletes, SameAccount, DependentSeen, ReleaseIsRight
      <3> QED
        BY <1>3, <3>1, <3>2 DEF ListDependents
    <2> QED
      BY <1>0, <2>1, <2>2
      DEF AccountInv, CacheFollows, PassDeletes, PassFollows, SameAccount, DependentSeen,
          AccountThere
  <1>4. CASE ReleaseAccount
    <2>1. /\ acc'.deleting = acc.deleting /\ (acc.finalizer = acc'.finalizer \/ ~acc'.finalizer)
          /\ acc'.present = acc.present \/ (apc = "release" /\ aobj = acc)
          /\ apc' = "idle" /\ ~aobj'.deleting
          /\ UNCHANGED <<accCache, cr, crCache, late>>
      BY <1>4, NewAccountType
      DEF ReleaseAccount, WriteAccount, AccountUnchanged, crVars, history, TypeOK, Accounts
    <2> QED
      BY <1>0, <2>1
      DEF AccountInv, CacheFollows, PassDeletes, PassFollows, SameAccount, DependentSeen,
          ReleaseIsRight, AccountThere
  <1> QED
    BY <1>1, <1>2, <1>3, <1>4 DEF AccountReconcile

\* The resource worker keeps the account part.
LEMMA ResourceKeepsAccount == TypeOK /\ AccountInv /\ ResourceReconcile => AccountInv'
  BY ResourceLeavesAccount, FaultsStay
  DEF Next, AccountInv, CacheFollows, PassDeletes, PassFollows, SameAccount, DependentSeen,
      ReleaseIsRight, AccountThere

\* Informers, users, faults and restarts keep the account part.
LEMMA EnvironmentKeepsAccount == TypeOK /\ AccountInv /\ Environment => AccountInv'
  <1> SUFFICES ASSUME TypeOK, AccountInv, Environment PROVE AccountInv'
    OBVIOUS
  <1> USE DEF AccountInv, CacheFollows, PassDeletes, PassFollows, SameAccount, DependentSeen,
              ReleaseIsRight, AccountThere
  <1>0. Faulty => Faulty'
    BY FaultsStay DEF Next
  <1>1. CASE SyncAccount
    BY <1>0, <1>1 DEF SyncAccount, Idle, worker, history, crVars
  <1>2. CASE SyncCR
    BY <1>0, <1>2 DEF SyncCR, Idle, worker, history, accVars
  <1>3. CASE CreateAccount
    <2>1. /\ acc'.present /\ ~acc'.deleting /\ ~acc'.finalizer /\ ~accCache.present
          /\ UNCHANGED <<accCache, apc, aobj, cr, crCache, late>>
      BY <1>3 DEF CreateAccount, NewAccount, UserOp, Idle, history, TypeOK, Accounts
    <2>2. acc'.deleting = FALSE
      BY <1>3 DEF CreateAccount, NewAccount
    <2>3. apc = "release" => aobj # acc'
      BY <2>2
    <2> QED
      BY <1>0, <2>1, <2>3
  <1>4. CASE DeleteAccount
    <2>1. /\ ~acc.deleting /\ acc'.deleting /\ acc'.present = acc.finalizer
          /\ acc'.finalizer = acc.finalizer /\ acc.present
          /\ UNCHANGED <<accCache, apc, aobj, cr, crCache>>
          /\ late' = (late \/ ~crCache.present \/ ~acc.finalizer)
      BY <1>4 DEF DeleteAccount, UserOp, Idle, TypeOK, Accounts
    <2> QED
      BY <1>0, <2>1
  <1>5. CASE CreateCR
    <2>1. PICK v \in 0..1, a \in Uses, f \in Flags : cr' = NewCR(v, a, f[1], f[2])
      BY <1>5 DEF CreateCR
    <2>2. /\ ~cr.present /\ crCache = cr
          /\ late' = (acc.deleting \/ ~acc.present)
          /\ UNCHANGED <<acc, accCache, apc, aobj, crCache>>
      BY <1>5 DEF CreateCR, UserOp, Idle
    <2>3. aobj = acc /\ apc = "release" => acc.deleting
      OBVIOUS
    <2> QED
      BY <1>0, <2>2, <2>3
  <1>6. CASE EditCR \/ DeleteCR
    <2>1. /\ cr.present /\ cr'.account = cr.account
          /\ UNCHANGED <<acc, accCache, apc, aobj, crCache, late>>
      BY <1>6 DEF EditCR, DeleteCR, UserOp, Idle, history, TypeOK, CRs
    <2> QED
      BY <1>0, <2>1
  <1>7. CASE LoseObject \/ RestoreParent
    BY <1>0, <1>7 DEF LoseObject, RestoreParent, Idle, worker, history, accVars, crVars
  <1>8. CASE Restart
    <2>1. aobj'.deleting = FALSE /\ apc' = "idle"
      BY <1>8 DEF Restart, NewAccount
    <2> QED
      BY <1>0, <1>8, <2>1 DEF Restart, history
  <1> QED
    BY <1>1, <1>2, <1>3, <1>4, <1>5, <1>6, <1>7, <1>8 DEF Environment

\* The account part holds in every state.
LEMMA AccountInvariant == Spec => []AccountInv
  <1>1. Init => AccountInv
    BY DEF Init, NewAccount, NoCR, NewCR, AccountInv, CacheFollows, PassDeletes, PassFollows,
        SameAccount, DependentSeen, ReleaseIsRight, AccountThere
  <1>2. TypeOK /\ AccountInv /\ [Next]_vars => AccountInv'
    <2>1. AccountInv /\ UNCHANGED vars => AccountInv'
      BY DEF AccountInv, CacheFollows, PassDeletes, PassFollows, SameAccount, DependentSeen,
          ReleaseIsRight, AccountThere, Faulty, vars, accVars, crVars, accWorker, history
    <2> QED
      BY <2>1, AccountKeepsAccount, ResourceKeepsAccount, EnvironmentKeepsAccount DEF Next
  <1> QED
    BY <1>1, <1>2, TypeCorrect, PTL DEF Spec

\* An Account outlives the CRs that name it, unless it was marked for deletion too
\* early to see them or a call failed.
THEOREM AccountStays == Spec => []AccountOutlivesDependents
  <1>1. AccountInv => AccountOutlivesDependents
    BY DEF AccountInv, AccountThere, AccountOutlivesDependents
  <1> QED
    BY <1>1, AccountInvariant, PTL
-----------------------------------------------------------------------------
(* A CR that is let go leaves nothing behind. *)

\* Why a CR's account may be missing from the cache.
Excused == late \/ early \/ Faulty
AccountShown == cr.present /\ cr.account /\ ~accCache.present => Excused

FinalCopy ==
    /\ pc = "finalStatus" => obj.present /\ obj.deleting
    /\ pc \in {"finalDelete", "removeFinalizer"} =>
          obj = cr /\ cr.present /\ cr.deleting

LetGoRightly ==
    pc = "removeFinalizer" =>
        \/ server = 0 \/ obj.keep \/ readOnly
        \/ obj.stored = 0 /\ (Faulty \/ (obj.account /\ (late \/ early)))

LetGoInv == AccountShown /\ FinalCopy /\ LetGoRightly

\* The Account worker leaves the resource alone.
LEMMA AccountLeavesResource ==
    ASSUME AccountReconcile
    PROVE  UNCHANGED <<accCache, cr, crCache, late, early, server, pc, obj, got, readOnly>>
  BY DEF AccountReconcile, ReadAccount, InitAccount, AddAccountFinalizer, AccountReady,
      ListDependents, HoldAccount, ReleaseAccount, WriteAccount, AccountUnchanged, crVars,
      history, natsVars, worker, modes

\* The Account worker lets no CR go.
LEMMA AccountKeepsLetGo == TypeOK /\ LetGoInv /\ AccountReconcile => LetGoInv'
  BY AccountLeavesResource, FaultsStay
  DEF Next, LetGoInv, AccountShown, Excused, FinalCopy, LetGoRightly

\* The resource worker lets a CR go rightly.
LEMMA ResourceKeepsLetGo == TypeOK /\ LetGoInv /\ ResourceReconcile => LetGoInv'
  <1> SUFFICES ASSUME TypeOK, LetGoInv, ResourceReconcile PROVE LetGoInv'
    OBVIOUS
  <1>0. Faulty => Faulty'
    BY FaultsStay DEF Next
  <1>1. AccountShown'
    BY <1>0, ResourceLeavesAccount DEF LetGoInv, AccountShown, Excused
  <1>2. CASE ReadCR
    <2>1. obj' = crCache /\ pc' \in {"initStatus", "finalStatus", "load", "addFinalizer"}
      BY <1>2 DEF ReadCR
    <2>2. pc' = "finalStatus" => obj'.present /\ obj'.deleting
      BY <1>2 DEF ReadCR
    <2> QED
      BY <1>1, <2>1, <2>2 DEF LetGoInv, FinalCopy, LetGoRightly
  <1>3. CASE FinalStatus
    <2>1. CASE pc' = "idle"
      BY <1>1, <2>1 DEF LetGoInv, FinalCopy, LetGoRightly
    <2>2. CASE Write([cr EXCEPT !.ready = "Finalizing"]) /\ pc' # "idle"
      <3>1. /\ obj = cr /\ obj' = cr' /\ pc' \in {"removeFinalizer", "finalDelete"}
            /\ cr' = [cr EXCEPT !.ready = "Finalizing"]
            /\ pc' = "removeFinalizer" => obj.keep \/ readOnly
        BY <1>3, <2>2 DEF FinalStatus, Write, EndPass
      <3>2. cr'.present = cr.present /\ cr'.deleting = cr.deleting /\ cr'.keep = cr.keep
        BY <3>1 DEF TypeOK, CRs
      <3>3. obj.present /\ obj.deleting
        BY <1>3 DEF FinalStatus, LetGoInv, FinalCopy
      <3> QED
        BY <1>1, <3>1, <3>2, <3>3, ResourceLeavesAccount
        DEF LetGoInv, FinalCopy, LetGoRightly
    <2> QED
      BY <1>3, <2>1, <2>2 DEF FinalStatus, EndPass
  <1>4. CASE FinalDelete
    <2>1. UNCHANGED <<cr, accCache, late, early, readOnly>>
      BY <1>4, ResourceLeavesAccount DEF FinalDelete, crVars
    <2>2. pc = "finalDelete" /\ obj = cr /\ cr.present /\ cr.deleting
      BY <1>4 DEF FinalDelete, LetGoInv, FinalCopy
    <2>3. CASE pc' = "idle"
      BY <1>1, <2>3 DEF LetGoInv, FinalCopy, LetGoRightly
    <2>4. CASE pc' = "removeFinalizer" /\ UNCHANGED obj
      <3>1. FinalCopy'
        BY <2>1, <2>2, <2>4 DEF FinalCopy
      <3>2. server' = 0 \/ (obj.stored = 0 /\ (Fault \/ ~Reachable))
        BY <1>4, <2>4 DEF FinalDelete, AfterMissing, AfterFailedDelete, Goto, EndPass
      <3>3. Fault => Faulty'
        BY FaultType DEF TypeOK
      <3>4. ~Reachable => obj.account /\ (late \/ early \/ Faulty)
        BY <2>2 DEF Reachable, LetGoInv, AccountShown, Excused
      <3>5. LetGoRightly'
        BY <1>0, <2>1, <2>4, <3>2, <3>3, <3>4 DEF LetGoRightly
      <3> QED
        BY <1>1, <3>1, <3>5 DEF LetGoInv
    <2> QED
      BY <1>4, <2>3, <2>4
      DEF FinalDelete, AfterMissing, AfterFailedDelete, Goto, EndPass
  <1>5. CASE pc' \notin {"finalStatus", "finalDelete", "removeFinalizer"}
    BY <1>1, <1>5 DEF LetGoInv, FinalCopy, LetGoRightly
  <1>6. ReadCR \/ FinalStatus \/ FinalDelete
          \/ pc' \notin {"finalStatus", "finalDelete", "removeFinalizer"}
    BY DEF ResourceReconcile, InitStatus, AddFinalizer, Load, Create, Update, Sent, Refused,
        ReadBack, Persist, ReportReady, ReportError, ReportAgain, RemoveFinalizer, LastWrite,
        AfterError, Unparsed, Decide, Applied, EndPass, Goto
  <1> QED
    BY <1>2, <1>3, <1>4, <1>5, <1>6

\* Nobody but the worker touches a CR that is being let go.
LEMMA EnvironmentKeepsLetGo ==
    TypeOK /\ AccountInv /\ LetGoInv /\ Environment => LetGoInv'
  <1> SUFFICES ASSUME TypeOK, AccountInv, LetGoInv, Environment PROVE LetGoInv'
    OBVIOUS
  <1> USE DEF LetGoInv, AccountShown, Excused, FinalCopy, LetGoRightly
  <1>0. Faulty => Faulty'
    BY FaultsStay DEF Next
  <1>1. CASE SyncAccount
    BY <1>0, <1>1
    DEF SyncAccount, Idle, worker, history, crVars, natsVars, modes, AccountInv, AccountThere
  <1>2. CASE SyncCR
    BY <1>0, <1>2 DEF SyncCR, Idle, worker, history, accVars, natsVars, modes
  <1>3. CASE CreateAccount
    BY <1>0, <1>3 DEF CreateAccount, UserOp, Idle, worker, history, natsVars, modes
  <1>4. CASE DeleteAccount
    BY <1>0, <1>4 DEF DeleteAccount, UserOp, Idle, worker, natsVars, modes
  <1>5. CASE CreateCR
    <2>1. /\ ~cr.present /\ early' = ~accCache.present
          /\ UNCHANGED <<accCache, pc, obj, server, readOnly>>
      BY <1>5 DEF CreateCR, UserOp, Idle, worker, natsVars, modes
    <2> QED
      BY <2>1
  <1>6. CASE EditCR \/ DeleteCR
    <2>1. /\ cr.present /\ ~cr.deleting /\ cr'.account = cr.account
          /\ UNCHANGED <<accCache, pc, obj, server, readOnly, late, early>>
      BY <1>6
      DEF EditCR, DeleteCR, UserOp, Idle, worker, history, natsVars, modes, TypeOK, CRs
    <2> QED
      BY <1>0, <2>1
  <1>7. CASE LoseObject
    BY <1>0, <1>7 DEF LoseObject, Idle, worker, history, accVars, crVars, modes
  <1>8. CASE RestoreParent
    BY <1>0, <1>8 DEF RestoreParent, Idle, worker, history, accVars, crVars, modes
  <1>9. CASE Restart
    <2>1. pc' = "idle" /\ Faulty'
      BY <1>9, FaultType DEF Restart, EndPass, TypeOK
    <2> QED
      BY <2>1
  <1> QED
    BY <1>1, <1>2, <1>3, <1>4, <1>5, <1>6, <1>7, <1>8, <1>9 DEF Environment

\* The part about CRs that are let go holds in every state.
LEMMA LetGoInvariant == Spec => []LetGoInv
  <1>1. Init => LetGoInv
    <2> SUFFICES ASSUME Init PROVE LetGoInv
      OBVIOUS
    <2>1. pc = "idle" /\ cr = NoCR
      BY Zenon DEF Init
    <2>2. ~cr.present
      BY <2>1, NoCRType
    <2> HIDE DEF Init
    <2> QED
      BY <2>1, <2>2 DEF LetGoInv, AccountShown, FinalCopy, LetGoRightly
  <1>2. TypeOK /\ AccountInv /\ LetGoInv /\ [Next]_vars => LetGoInv'
    <2>1. LetGoInv /\ UNCHANGED vars => LetGoInv'
      BY DEF LetGoInv, AccountShown, Excused, FinalCopy, LetGoRightly, Faulty, vars, accVars,
          crVars, natsVars, worker, modes, history
    <2> QED
      BY <2>1, AccountKeepsLetGo, ResourceKeepsLetGo, EnvironmentKeepsLetGo DEF Next
  <1> QED
    BY <1>1, <1>2, TypeCorrect, AccountInvariant, PTL DEF Spec

\* A CR whose finalizer goes while the server still has its object was asked to leave
\* it, or was never stored while its server could not be asked.
THEOREM NothingLeftBehind == Spec => LeavesNothingBehind
  <1> DEFINE Leaves == (cr.present /\ ~cr.present' /\ cr.finalizer /\ server # 0)
               => \/ obj.keep \/ readOnly
                  \/ obj.stored = 0 /\ (Faulty \/ (obj.account /\ (late \/ early)))
  <1>1. TypeOK /\ LetGoInv /\ [Next]_vars => [Leaves]_vars
    <2> SUFFICES ASSUME TypeOK, LetGoInv, Next, cr.present, ~cr.present', cr.finalizer
                 PROVE  pc = "removeFinalizer"
      BY DEF LetGoInv, LetGoRightly
    <2>1. ~AccountReconcile
      BY AccountLeavesResource
    <2>2. ~Environment
      <3>1. CASE EditCR \/ DeleteCR
        BY <3>1 DEF EditCR, DeleteCR, TypeOK, CRs
      <3> QED
        BY <3>1
        DEF Environment, SyncAccount, SyncCR, CreateAccount, DeleteAccount, CreateCR,
            LoseObject, RestoreParent, Restart, crVars
    <2>3. ResourceReconcile => pc = "removeFinalizer"
      <3>1. ~(InitStatus \/ AddFinalizer)
        BY DEF InitStatus, AddFinalizer, LastWrite, Write, WriteFails, crVars, TypeOK, CRs
      <3>2. ~(Persist \/ ReportReady)
        BY DEF Persist, ReportReady, Write, WriteFails, crVars, TypeOK, CRs
      <3>3. ~(ReportError \/ ReportAgain \/ FinalStatus)
        BY DEF ReportError, ReportAgain, FinalStatus, Write, WriteFails, crVars, TypeOK, CRs
      <3>4. ~(ReadCR \/ Load \/ Create \/ Update \/ ReadBack \/ FinalDelete)
        BY DEF ReadCR, Load, Create, Update, ReadBack, FinalDelete, crVars
      <3>5. RemoveFinalizer => pc = "removeFinalizer"
        BY DEF RemoveFinalizer, LastWrite
      <3> QED
        BY <3>1, <3>2, <3>3, <3>4, <3>5 DEF ResourceReconcile
    <2> QED
      BY <2>1, <2>2, <2>3 DEF Next
  <1> QED
    BY <1>1, TypeCorrect, LetGoInvariant, PTL DEF Spec, LeavesNothingBehind
-----------------------------------------------------------------------------
(* A CR that is reported Ready has what it asks for. *)

\* A CR observed at its generation stores what its spec asks for.
Stored(c) ==
    /\ c.observed <= c.gen
    /\ ~readOnly /\ ~c.pin /\ c.observed = c.gen => c.stored \in {c.ver, 0}

Asked(v) == v \in {obj.ver, 0}

ReadyInv ==
    /\ Stored(cr) /\ Stored(crCache) /\ Stored(obj)
    /\ pc = "readBack" => Asked(server)
    /\ pc = "persist" => Asked(server) /\ Asked(got)
    /\ pc = "ready" /\ ~readOnly /\ ~obj.pin => Asked(server) /\ Asked(obj.stored)

\* The Account worker reports nothing about the CR.
LEMMA AccountKeepsReady == ReadyInv /\ AccountReconcile => ReadyInv'
  BY AccountLeavesResource DEF ReadyInv, Stored, Asked

\* The resource worker reports Ready only what is there or was lost since.
LEMMA ResourceKeepsReady == TypeOK /\ ReadyInv /\ ResourceReconcile => ReadyInv'
  <1> SUFFICES ASSUME TypeOK, ReadyInv, ResourceReconcile PROVE ReadyInv'
    OBVIOUS
  <1>0. UNCHANGED <<crCache, readOnly>>
    BY ResourceLeavesAccount
  <1>1. Stored(crCache)'
    BY <1>0 DEF ReadyInv, Stored
  <1>2. ASSUME Stored(cr)', pc' = "idle", obj' = NoCR
        PROVE  ReadyInv'
    <2>1. Stored(obj)'
      <3>1. obj'.observed = 0 /\ obj'.gen = 1
        BY <1>2 DEF NoCR, NewCR
      <3> QED
        BY <3>1 DEF Stored
    <2> QED
      BY <1>1, <1>2, <2>1 DEF ReadyInv
  <1>3. ASSUME UNCHANGED cr PROVE Stored(cr)'
    BY <1>0, <1>3 DEF ReadyInv, Stored
  <1>4. ASSUME UNCHANGED obj PROVE Stored(obj)'
    BY <1>0, <1>4 DEF ReadyInv, Stored
  <1>5. ASSUME NEW r, cr' = [cr EXCEPT !.ready = r] PROVE Stored(cr)'
    BY <1>0, <1>5 DEF ReadyInv, Stored, TypeOK, CRs
  <1>6. CASE InitStatus \/ AddFinalizer \/ RemoveFinalizer
    <2>1. pc' = "idle" /\ obj' = NoCR
      BY <1>6 DEF InitStatus, AddFinalizer, RemoveFinalizer, LastWrite, EndPass
    <2>2. Stored(cr)'
      BY <1>0, <1>6
      DEF InitStatus, AddFinalizer, RemoveFinalizer, LastWrite, Write, WriteFails, crVars,
          ReadyInv, Stored, TypeOK, CRs
    <2> QED
      BY <1>2, <2>1, <2>2
  <1>7. CASE ReadCR
    <2>1. /\ obj' = crCache /\ UNCHANGED cr
          /\ pc' \in {"initStatus", "finalStatus", "load", "addFinalizer"}
      BY <1>7 DEF ReadCR, crVars
    <2>2. Stored(obj)'
      BY <1>0, <2>1 DEF ReadyInv, Stored
    <2> QED
      BY <1>1, <1>3, <2>1, <2>2 DEF ReadyInv
  <1>8. CASE Load
    <2>1. UNCHANGED <<cr, server>>
      BY <1>8 DEF Load, crVars, natsVars
    <2>2. CASE pc' = "idle" /\ obj' = NoCR
      BY <1>2, <1>3, <2>1, <2>2
    <2>3. CASE Decide /\ UNCHANGED obj
      <3>1. pc' \in {"ready", "create", "update"}
        BY <2>3 DEF Decide
      <3>2. pc' = "ready" /\ ~readOnly /\ ~obj.pin => Converged
        BY <2>3 DEF Decide
      <3>3. Converged /\ ~readOnly /\ ~obj.pin => Asked(server) /\ Asked(obj.stored)
        BY DEF Converged, ReadyInv, Stored, Asked
      <3> QED
        BY <1>0, <1>1, <1>3, <1>4, <2>1, <2>3, <3>1, <3>2, <3>3 DEF ReadyInv, Asked
    <2>4. CASE pc' \in {"errored", "reportAgain"} /\ UNCHANGED obj
      BY <1>1, <1>3, <1>4, <2>1, <2>4 DEF ReadyInv
    <2> QED
      BY <1>8, <2>2, <2>3, <2>4 DEF Load, Unparsed, AfterError, EndPass, Goto
  <1>9. CASE Create \/ Update
    <2>1. UNCHANGED <<cr, obj>>
      BY <1>9 DEF Create, Update, Sent, Refused, Goto, crVars
    <2>2. \/ pc' = "errored"
          \/ pc' \in {"persist", "readBack"} /\ server' = obj.ver /\ got' = obj.ver
      BY <1>9 DEF Create, Update, Sent, Refused, Goto, Applied
    <2> QED
      BY <1>1, <1>3, <1>4, <2>1, <2>2 DEF ReadyInv, Asked
  <1>10. CASE ReadBack
    <2>1. UNCHANGED <<cr, obj, server>> /\ pc = "readBack"
      BY <1>10 DEF ReadBack, Goto, crVars, natsVars
    <2>2. pc' = "errored" \/ (pc' = "persist" /\ got' = server)
      BY <1>10 DEF ReadBack, Goto
    <2> QED
      BY <1>1, <1>3, <1>4, <2>1, <2>2 DEF ReadyInv, Asked
  <1>11. CASE Persist
    <2>1. UNCHANGED server /\ Asked(server) /\ Asked(got)
      BY <1>11 DEF Persist, natsVars, ReadyInv
    <2>2. CASE pc' = "errored" /\ UNCHANGED <<cr, obj>>
      BY <1>1, <1>3, <1>4, <2>2 DEF ReadyInv
    <2>3. CASE obj = cr /\ cr' = [cr EXCEPT !.stored = got] /\ obj' = cr' /\ pc' = "ready"
      <3>1. /\ cr'.stored = got /\ cr'.ver = cr.ver /\ cr'.pin = cr.pin
            /\ cr'.gen = cr.gen /\ cr'.observed = cr.observed
        BY <2>3 DEF TypeOK, CRs
      <3>2. got \in {cr'.ver, 0} /\ server \in {cr'.ver, 0}
        BY <2>1, <2>3, <3>1 DEF Asked
      <3>3. Stored(cr)' /\ Stored(obj)'
        BY <1>0, <2>3, <3>1, <3>2 DEF Stored, ReadyInv
      <3> QED
        BY <1>1, <2>1, <2>3, <3>1, <3>2, <3>3 DEF ReadyInv, Asked
    <2> QED
      BY <1>11, <2>2, <2>3 DEF Persist, Write, WriteFails, Goto, crVars
  <1>12. CASE ReportReady
    <2>1. CASE Write([cr EXCEPT !.ready = "Ready", !.observed = cr.gen]) /\ EndPass
      <3>1. obj = cr /\ cr' = [cr EXCEPT !.ready = "Ready", !.observed = cr.gen]
        BY <2>1 DEF Write
      <3>2. /\ cr'.stored = cr.stored /\ cr'.ver = cr.ver /\ cr'.pin = cr.pin
            /\ cr'.gen = cr.gen /\ cr'.observed = cr.gen /\ cr.gen \in Nat
        BY <3>1 DEF TypeOK, CRs
      <3>3. ~readOnly /\ ~cr.pin => cr.stored \in {cr.ver, 0}
        BY <1>12, <3>1 DEF ReportReady, ReadyInv, Asked
      <3>4. Stored(cr)'
        BY <1>0, <3>2, <3>3 DEF Stored
      <3> QED
        BY <1>2, <2>1, <3>4 DEF EndPass
    <2>2. CASE WriteFails /\ AfterError
      <3>1. UNCHANGED cr
        BY <2>2 DEF WriteFails, crVars
      <3>2. CASE pc' = "idle" /\ obj' = NoCR
        BY <1>2, <1>3, <3>1, <3>2
      <3>3. CASE pc' = "reportAgain" /\ UNCHANGED obj
        BY <1>1, <1>3, <1>4, <3>1, <3>3 DEF ReadyInv
      <3> QED
        BY <2>2, <3>2, <3>3 DEF AfterError, EndPass, Goto
    <2> QED
      BY <1>12, <2>1, <2>2 DEF ReportReady
  <1>13. CASE ReportError \/ ReportAgain \/ FinalStatus
    <2>1. UNCHANGED cr \/ \E r : cr' = [cr EXCEPT !.ready = r]
      BY <1>13 DEF ReportError, ReportAgain, FinalStatus, Write, WriteFails, crVars
    <2>2. Stored(cr)'
      BY <1>3, <1>5, <2>1
    <2>3. CASE pc' = "idle" /\ obj' = NoCR
      BY <1>2, <2>2, <2>3
    <2>4. CASE pc' \in {"reportAgain", "removeFinalizer", "finalDelete"}
                 /\ (UNCHANGED obj \/ obj' = cr')
      <3>1. Stored(obj)'
        BY <1>4, <2>2, <2>4 DEF Stored
      <3> QED
        BY <1>1, <2>2, <2>4, <3>1 DEF ReadyInv
    <2> QED
      BY <1>13, <2>3, <2>4
      DEF ReportError, ReportAgain, FinalStatus, AfterError, EndPass, Goto
  <1>14. CASE FinalDelete
    <2>1. UNCHANGED cr
      BY <1>14 DEF FinalDelete, crVars
    <2>2. CASE pc' = "idle" /\ obj' = NoCR
      BY <1>2, <1>3, <2>1, <2>2
    <2>3. CASE pc' = "removeFinalizer" /\ UNCHANGED obj
      BY <1>1, <1>3, <1>4, <2>1, <2>3 DEF ReadyInv
    <2> QED
      BY <1>14, <2>2, <2>3 DEF FinalDelete, AfterMissing, AfterFailedDelete, EndPass, Goto
  <1> QED
    BY <1>6, <1>7, <1>8, <1>9, <1>10, <1>11, <1>12, <1>13, <1>14 DEF ResourceReconcile

\* Informers, users, faults and restarts do not make a report untrue.
LEMMA EnvironmentKeepsReady == TypeOK /\ ReadyInv /\ Environment => ReadyInv'
  <1> SUFFICES ASSUME TypeOK, ReadyInv, Environment PROVE ReadyInv'
    OBVIOUS
  <1> USE DEF ReadyInv, Stored, Asked
  <1>1. CASE SyncAccount \/ CreateAccount \/ DeleteAccount \/ RestoreParent
    BY <1>1
    DEF SyncAccount, CreateAccount, DeleteAccount, RestoreParent, UserOp, Idle, worker,
        crVars, natsVars, modes
  <1>2. CASE SyncCR
    BY <1>2 DEF SyncCR, Idle, worker, natsVars, modes
  <1>3. CASE CreateCR
    <2>1. PICK v \in 0..1, a \in Uses, f \in Flags : cr' = NewCR(v, a, f[1], f[2])
      BY <1>3 DEF CreateCR
    <2>2. cr'.observed = 0 /\ cr'.gen = 1
      BY <2>1 DEF NewCR
    <2>3. UNCHANGED <<crCache, pc, obj, got, server, readOnly>>
      BY <1>3 DEF CreateCR, UserOp, Idle, worker, natsVars, modes
    <2> QED
      BY <2>2, <2>3
  <1>4. CASE EditCR
    <2>1. PICK v \in 0..2 : cr' = [cr EXCEPT !.ver = v, !.gen = @ + 1]
      BY <1>4 DEF EditCR
    <2>2. /\ cr'.observed = cr.observed /\ cr'.gen = cr.gen + 1
          /\ cr.gen \in Nat /\ cr.observed \in Nat
      BY <2>1 DEF TypeOK, CRs
    <2>3. UNCHANGED <<crCache, pc, obj, got, server, readOnly>>
      BY <1>4 DEF EditCR, UserOp, Idle, worker, natsVars, modes
    <2>4. Stored(cr)'
      BY <2>2
    <2> QED
      BY <2>3, <2>4
  <1>5. CASE DeleteCR
    BY <1>5 DEF DeleteCR, UserOp, Idle, worker, natsVars, modes, TypeOK, CRs
  <1>6. CASE LoseObject
    BY <1>6 DEF LoseObject, Idle, worker, crVars, modes
  <1>7. CASE Restart
    <2>1. obj'.observed = 0 /\ obj'.gen = 1 /\ pc' = "idle"
      BY <1>7 DEF Restart, EndPass, NoCR, NewCR
    <2> QED
      BY <1>7, <2>1 DEF Restart, modes
  <1> QED
    BY <1>1, <1>2, <1>3, <1>4, <1>5, <1>6, <1>7 DEF Environment

\* The part about reports holds in every state.
LEMMA ReadyInvariant == Spec => []ReadyInv
  <1>1. Init => ReadyInv
    <2> SUFFICES ASSUME Init PROVE ReadyInv
      OBVIOUS
    <2>1. pc = "idle" /\ cr = NoCR /\ crCache = NoCR /\ obj = NoCR
      BY Zenon DEF Init
    <2> HIDE DEF Init
    <2>2. NoCR.observed = 0 /\ NoCR.gen = 1
      BY DEF NoCR, NewCR
    <2> QED
      BY <2>1, <2>2 DEF ReadyInv, Stored
  <1>2. TypeOK /\ ReadyInv /\ [Next]_vars => ReadyInv'
    <2>1. ReadyInv /\ UNCHANGED vars => ReadyInv'
      BY DEF ReadyInv, Stored, Asked, vars, crVars, natsVars, worker, modes
    <2> QED
      BY <2>1, AccountKeepsReady, ResourceKeepsReady, EnvironmentKeepsReady DEF Next
  <1> QED
    BY <1>1, <1>2, TypeCorrect, PTL DEF Spec

\* When a CR becomes Ready the server has what its spec asks for or lost it since,
\* unless updates are prevented.
THEOREM ReadyAsSpecified == Spec => ReadyMatchesSpec
  <1> DEFINE Matches ==
        (cr.present /\ cr'.ready = "Ready" /\ cr.ready # "Ready" /\ ~readOnly /\ ~obj.pin)
          => server \in {cr'.ver, 0}
  <1>1. TypeOK /\ ReadyInv /\ [Next]_vars => [Matches]_vars
    <2> SUFFICES ASSUME TypeOK, ReadyInv, Next, cr.present, cr'.ready = "Ready",
                        cr.ready # "Ready", ~readOnly, ~obj.pin
                 PROVE  server \in {cr'.ver, 0}
      OBVIOUS
    <2>1. ~AccountReconcile
      BY AccountLeavesResource
    <2>2. ~Environment
      <3>1. CASE EditCR \/ DeleteCR
        BY <3>1 DEF EditCR, DeleteCR, TypeOK, CRs
      <3> QED
        BY <3>1
        DEF Environment, SyncAccount, SyncCR, CreateAccount, DeleteAccount, CreateCR,
            LoseObject, RestoreParent, Restart, crVars
    <2>3. ~(InitStatus \/ AddFinalizer \/ RemoveFinalizer)
      BY DEF InitStatus, AddFinalizer, RemoveFinalizer, LastWrite, Write, WriteFails, crVars,
          TypeOK, CRs
    <2>4. ~(Persist \/ ReportError \/ ReportAgain \/ FinalStatus)
      BY DEF Persist, ReportError, ReportAgain, FinalStatus, Write, WriteFails, crVars,
          TypeOK, CRs
    <2>5. ~(ReadCR \/ Load \/ Create \/ Update \/ ReadBack \/ FinalDelete)
      BY DEF ReadCR, Load, Create, Update, ReadBack, FinalDelete, crVars
    <2>6. ReportReady
      BY <2>1, <2>2, <2>3, <2>4, <2>5 DEF Next, ResourceReconcile
    <2>7. obj = cr /\ cr' = [cr EXCEPT !.ready = "Ready", !.observed = cr.gen]
      BY <2>6 DEF ReportReady, Write, WriteFails, crVars
    <2>8. cr'.ver = obj.ver
      BY <2>7 DEF TypeOK, CRs
    <2> QED
      BY <2>6, <2>8 DEF ReportReady, ReadyInv, Asked
  <1> QED
    BY <1>1, TypeCorrect, ReadyInvariant, PTL DEF Spec, ReadyMatchesSpec

====
