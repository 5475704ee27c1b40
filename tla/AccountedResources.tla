------------------------- MODULE AccountedResources -------------------------
(***************************************************************************)
(* The Account reconciler (account_controller.go) and one resource that   *)
(* may name the account: a Consumer (consumer_controller.go) or an        *)
(* ObjectStore (objectstore_controller.go), whichever `kind' says.  Each  *)
(* has one worker; both read informer caches that lag the API server.     *)
(* The account must stay while a resource needs it to reach its server.   *)
(*                                                                         *)
(* `ver' stands for what a spec asks of the server: 0 does not parse.  A  *)
(* Consumer lives in a stream, which may go and take the Consumer along.  *)
(***************************************************************************)
EXTENDS Naturals

CONSTANTS
    Kinds,         \* the resource is one of these
    ReadOnlyModes, \* values --read-only may have
    Uses,          \* whether a CR names the account
    Flags,         \* pairs of preventDelete and preventUpdate
    MaxOps,        \* bound: users' creations, edits and deletions
    MaxFaults      \* bound: failed calls, lost replies, restarts, lost objects

VARIABLES
    kind, readOnly,         \* chosen once
    acc, accCache,          \* the Account CR
    cr, crCache,            \* the Consumer or ObjectStore CR
    server, parent,         \* ver the server holds, 0 if none; the stream
    ops, faults,            \* what is left of the bounds
    accDue, apc, aobj,      \* Account worker: queued, next call, its copy
    pc, obj, got,           \* resource worker: next call, copy, server's reply
    late,                   \* history: the account was marked for deletion before
                            \* it had its finalizer or the cache showed the CR
    early                   \* history: the cache did not show the account yet
                            \* when the CR was created

crVars == <<cr, crCache>>
accVars == <<acc, accCache>>
natsVars == <<server, parent>>
accWorker == <<accDue, apc, aobj>>
worker == <<pc, obj, got>>
modes == <<kind, readOnly>>
history == <<late, early>>
vars == <<modes, accVars, crVars, natsVars, ops, faults, accWorker, worker, history>>

ASSUME ResourcesAssumption ==
    /\ Kinds \subseteq {"consumer", "objectStore"} /\ Kinds # {}
    /\ ReadOnlyModes \subseteq BOOLEAN /\ Uses \subseteq BOOLEAN
    /\ Flags \subseteq BOOLEAN \X BOOLEAN /\ MaxOps \in Nat /\ MaxFaults \in Nat

NewAccount == [present |-> TRUE, deleting |-> FALSE, finalizer |-> FALSE,
               ready |-> "absent"]

NewCR(ver, account, keep, pin) ==
    [present |-> TRUE, gen |-> 1, ver |-> ver, account |-> account,
     keep |-> keep, pin |-> pin, finalizer |-> FALSE, deleting |-> FALSE,
     stored |-> 0, observed |-> 0, ready |-> "absent"]

NoCR == [NewCR(1, FALSE, FALSE, FALSE) EXCEPT !.present = FALSE]

Init ==
    /\ kind \in Kinds /\ readOnly \in ReadOnlyModes
    /\ acc = [NewAccount EXCEPT !.finalizer = TRUE, !.ready = "Ready"]
    /\ accCache = acc
    /\ cr = NoCR /\ crCache = cr
    /\ server = 0 /\ parent = TRUE
    /\ ops = MaxOps /\ faults = MaxFaults
    /\ accDue = FALSE /\ apc = "idle" /\ aobj = NewAccount
    /\ pc = "idle" /\ obj = NoCR /\ got = 0
    /\ late = FALSE /\ early = FALSE

Fault == faults > 0 /\ faults' = faults - 1
Faulty == faults < MaxFaults
-----------------------------------------------------------------------------
(* The Account worker.  `accDue' is its queue: GenerationChangedPredicate *)
(* lets creations, deletions and deletion marks in, a returned error and  *)
(* Requeue bring the account back, and nothing else does.                 *)

AccountUnchanged == UNCHANGED <<modes, accCache, crVars, natsVars, ops, worker, history>>

ReadAccount ==
    /\ apc = "idle" /\ accDue /\ accDue' = FALSE
    /\ IF accCache.present
       THEN /\ aobj' = accCache
            /\ apc' = IF accCache.ready = "absent" THEN "init"
                      ELSE IF ~accCache.deleting
                      THEN IF accCache.finalizer THEN "ready" ELSE "add"
                      ELSE IF accCache.finalizer THEN "list" ELSE "idle"
       ELSE UNCHANGED <<apc, aobj>>
    /\ AccountUnchanged /\ UNCHANGED <<acc, faults>>

\* A write ends the pass; it fails on a conflict or a fault, and then, or when
\* the code asks for it, the account is queued again.
WriteAccount(label, new, requeue) ==
    /\ apc = label /\ apc' = "idle" /\ aobj' = NewAccount
    /\ \/ aobj = acc /\ acc' = new /\ accDue' = (accDue \/ requeue) /\ UNCHANGED faults
       \/ /\ (aobj # acc /\ UNCHANGED faults) \/ Fault
          /\ accDue' = TRUE /\ UNCHANGED acc
    /\ AccountUnchanged

InitAccount == WriteAccount("init", [acc EXCEPT !.ready = "Reconciling"], TRUE)
AddAccountFinalizer == WriteAccount("add", [acc EXCEPT !.finalizer = TRUE], TRUE)
AccountReady == WriteAccount("ready", [acc EXCEPT !.ready = "Ready"], FALSE)

\* Mutant: ObjectStores are not listed.
DependentsNoStores == crCache.present /\ crCache.account /\ kind # "objectStore"

\* findDependentResources: what the informer caches show.
Dependents == crCache.present /\ crCache.account

\* A List that fails is logged and counts as empty.
ListDependents ==
    /\ apc = "list"
    /\ \/ apc' = (IF Dependents THEN "hold" ELSE "release") /\ UNCHANGED faults
       \/ Fault /\ apc' = "release"
    /\ AccountUnchanged /\ UNCHANGED <<acc, accDue, aobj>>

\* Mutant: a held account waits for the next event.
HoldAccountOnce == WriteAccount("hold", [acc EXCEPT !.ready = "Finalizing"], FALSE)

HoldAccount == WriteAccount("hold", [acc EXCEPT !.ready = "Finalizing"], TRUE)

ReleaseAccount ==
    WriteAccount("release", [acc EXCEPT !.present = FALSE, !.finalizer = FALSE], FALSE)
-----------------------------------------------------------------------------
(* The resource worker: plumbing. *)

ResourceUnchanged == UNCHANGED <<modes, accVars, ops, accWorker, history>>

EndPass == pc' = "idle" /\ obj' = NoCR /\ got' = 0
Goto(label) == pc' = label /\ UNCHANGED <<obj, got>>

Write(new) == obj = cr /\ cr' = new /\ UNCHANGED <<crCache, faults>>
WriteFails ==
    /\ (obj # cr /\ UNCHANGED faults) \/ Fault
    /\ UNCHANGED crVars

LastWrite(label, new) ==
    /\ pc = label
    /\ Write(new) \/ WriteFails
    /\ EndPass
    /\ ResourceUnchanged /\ UNCHANGED natsVars

\* createOrUpdate fails: the Consumer's Reconcile reads the CR again and
\* reports the error once more, the ObjectStore's only returns it.
AfterError == IF kind = "consumer" THEN Goto("reportAgain") ELSE EndPass
-----------------------------------------------------------------------------
(* Reconcile. *)

\* Mutant: an unparsable spec ends the Consumer's pass at once, too.
UnparsedSilently == EndPass

\* Specs are mapped before anything is sent, and outside what writes Errored.
Unparsed == AfterError

\* Durations, policies, storage and times given as strings are parsed.
Parses == obj.ver # 0

ReadCR ==
    /\ pc = "idle" /\ crCache.present
    /\ obj' = crCache
    /\ pc' = IF crCache.ready = "absent" THEN "initStatus"
             ELSE IF crCache.deleting THEN "finalStatus"
             ELSE IF crCache.finalizer THEN "load" ELSE "addFinalizer"
    /\ ResourceUnchanged /\ UNCHANGED <<crVars, natsVars, faults, got>>

InitStatus == LastWrite("initStatus", [cr EXCEPT !.ready = "Reconciling"])
AddFinalizer == LastWrite("addFinalizer", [cr EXCEPT !.finalizer = TRUE])

\* natsConfigFromOpts: a named account must be in the cache.
Reachable == obj.account => accCache.present

\* Mutant: the generation is not asked for.
ConvergedAnyGen == obj.stored # 0 /\ obj.stored = server

Converged == obj.stored # 0 /\ obj.stored = server /\ obj.observed = obj.gen

Decide ==
    pc' = IF Converged \/ readOnly THEN "ready"
          ELSE IF server = 0 THEN "create"
          ELSE IF obj.pin THEN "ready" ELSE "update"

\* A missing Consumer may be created, a missing stream is an error.
Found == Reachable /\ (kind = "consumer" => parent)

Load ==
    /\ pc = "load"
    /\ \/ ~Parses /\ Unparsed /\ UNCHANGED faults
       \/ Parses /\ Found /\ Decide /\ UNCHANGED <<faults, obj, got>>
       \/ Parses /\ ~Found /\ Goto("errored") /\ UNCHANGED faults
       \/ Parses /\ Fault /\ Goto("errored")
    /\ ResourceUnchanged /\ UNCHANGED <<crVars, natsVars>>
-----------------------------------------------------------------------------
(* createOrUpdate: apply. *)

\* NewConsumer and UpdateConfiguration followed by LoadConsumer return what
\* goes into the annotation; for an ObjectStore it is read back afterwards.
Applied == pc' = (IF kind = "consumer" THEN "persist" ELSE "readBack")

\* The call is carried out, or lost on its way, or its reply is lost.
Sent ==
    \/ server' = obj.ver /\ got' = obj.ver /\ Applied /\ UNCHANGED <<obj, faults>>
    \/ Fault /\ server' \in {server, obj.ver} /\ Goto("errored")

Refused == Goto("errored") /\ UNCHANGED <<server, faults>>

Create ==
    /\ pc = "create"
    /\ IF kind = "consumer" => parent THEN Sent ELSE Refused
    /\ ResourceUnchanged /\ UNCHANGED <<crVars, parent>>

\* What was there at Load may have gone since.
Update ==
    /\ pc = "update"
    /\ IF server # 0 THEN Sent ELSE Refused
    /\ ResourceUnchanged /\ UNCHANGED <<crVars, parent>>

ReadBack ==
    /\ pc = "readBack"
    /\ \/ got' = server /\ pc' = "persist" /\ UNCHANGED <<obj, faults>>
       \/ Fault /\ Goto("errored")
    /\ ResourceUnchanged /\ UNCHANGED <<crVars, natsVars>>

Persist ==
    /\ pc = "persist"
    /\ \/ /\ Write([cr EXCEPT !.stored = got])
          /\ obj' = cr' /\ pc' = "ready" /\ UNCHANGED got
       \/ WriteFails /\ Goto("errored")
    /\ ResourceUnchanged /\ UNCHANGED natsVars

\* A conflict on the final status counts as an error of createOrUpdate.
ReportReady ==
    /\ pc = "ready"
    /\ \/ Write([cr EXCEPT !.ready = "Ready", !.observed = cr.gen]) /\ EndPass
       \/ WriteFails /\ AfterError
    /\ ResourceUnchanged /\ UNCHANGED natsVars

\* An error of the client's callback is reported; a failed write is only logged.
ReportError ==
    /\ pc = "errored"
    /\ Write([cr EXCEPT !.ready = "Errored"]) \/ WriteFails
    /\ AfterError
    /\ ResourceUnchanged /\ UNCHANGED natsVars

\* The Consumer's Reconcile: a copy from the cache, written if it is current.
ReportAgain ==
    /\ pc = "reportAgain"
    /\ \/ /\ crCache.present /\ crCache = cr
          /\ cr' = [cr EXCEPT !.ready = "Errored"]
          /\ UNCHANGED <<crCache, faults>>
       \/ (~crCache.present \/ crCache # cr) /\ UNCHANGED <<crVars, faults>>
       \/ Fault /\ UNCHANGED crVars
    /\ EndPass
    /\ ResourceUnchanged /\ UNCHANGED natsVars
-----------------------------------------------------------------------------
(* deleteConsumer, deleteObjectStore. *)

FinalStatus ==
    /\ pc = "finalStatus"
    /\ \/ /\ Write([cr EXCEPT !.ready = "Finalizing"])
          /\ obj' = cr' /\ UNCHANGED got
          /\ pc' = IF obj.keep \/ readOnly THEN "removeFinalizer" ELSE "finalDelete"
       \/ WriteFails /\ EndPass
    /\ ResourceUnchanged /\ UNCHANGED natsVars

\* Mutant: an error lets any CR go.
AfterFailedDeleteGo == Goto("removeFinalizer")

\* A CR that was never stored is let go, any other is tried again.
AfterFailedDelete ==
    IF obj.stored = 0 THEN Goto("removeFinalizer") ELSE EndPass

\* An object or a stream that does not exist counts as deleted.
AfterMissing == Goto("removeFinalizer")

FinalDelete ==
    /\ pc = "finalDelete"
    /\ \/ /\ Reachable /\ server # 0
          /\ server' = 0 /\ Goto("removeFinalizer") /\ UNCHANGED faults
       \/ Reachable /\ server = 0 /\ AfterMissing /\ UNCHANGED <<server, faults>>
       \/ ~Reachable /\ AfterFailedDelete /\ UNCHANGED <<server, faults>>
       \/ Fault /\ AfterFailedDelete /\ server' \in {server, IF Reachable THEN 0 ELSE server}
    /\ ResourceUnchanged /\ UNCHANGED <<crVars, parent>>

RemoveFinalizer ==
    LastWrite("removeFinalizer", [cr EXCEPT !.present = FALSE, !.finalizer = FALSE])
-----------------------------------------------------------------------------
(* Informers, users, the server. *)

Idle == UNCHANGED <<modes, apc, aobj, worker>>

SyncAccount ==
    /\ accCache # acc /\ accCache' = acc
    /\ accDue' = (accDue \/ accCache.present # acc.present
                          \/ accCache.deleting # acc.deleting)
    /\ Idle /\ UNCHANGED <<acc, crVars, natsVars, ops, faults, history>>

SyncCR ==
    /\ crCache # cr /\ crCache' = cr
    /\ Idle /\ UNCHANGED <<accVars, cr, natsVars, ops, faults, accDue, history>>

UserOp ==
    /\ ops > 0 /\ ops' = ops - 1
    /\ Idle /\ UNCHANGED <<accCache, crCache, natsVars, faults, accDue>>

\* A name is used again only once the caches saw the last holder go.
CreateAccount ==
    /\ ~acc.present /\ accCache = acc
    /\ acc' = NewAccount
    /\ UserOp /\ UNCHANGED <<cr, history>>

DeleteAccount ==
    /\ acc.present /\ ~acc.deleting
    /\ acc' = [acc EXCEPT !.deleting = TRUE, !.present = acc.finalizer]
    /\ late' = (late \/ ~crCache.present \/ ~acc.finalizer)
    /\ UserOp /\ UNCHANGED <<cr, early>>

CreateCR ==
    /\ ~cr.present /\ crCache = cr
    /\ \E v \in 0..1, a \in Uses, f \in Flags : cr' = NewCR(v, a, f[1], f[2])
    /\ late' = (acc.deleting \/ ~acc.present) /\ early' = ~accCache.present
    /\ UserOp /\ UNCHANGED acc

EditCR ==
    /\ cr.present /\ ~cr.deleting
    /\ \E v \in 0..2 \ {cr.ver} : cr' = [cr EXCEPT !.ver = v, !.gen = @ + 1]
    /\ UserOp /\ UNCHANGED <<acc, history>>

DeleteCR ==
    /\ cr.present /\ ~cr.deleting
    /\ cr' = [cr EXCEPT !.deleting = TRUE, !.present = cr.finalizer]
    /\ UserOp /\ UNCHANGED <<acc, history>>

\* Somebody removes the bucket, or the Consumer with its stream.
LoseObject ==
    /\ Fault /\ server' = 0 /\ parent' = (kind # "consumer")
    /\ Idle /\ UNCHANGED <<accVars, crVars, ops, accDue, history>>

RestoreParent ==
    /\ ~parent /\ parent' = TRUE
    /\ Idle /\ UNCHANGED <<accVars, crVars, server, ops, faults, accDue, history>>

\* The process restarts: passes are lost, everything is listed and queued.
Restart ==
    /\ Fault
    /\ accCache' = acc /\ crCache' = cr
    /\ accDue' = TRUE /\ apc' = "idle" /\ aobj' = NewAccount
    /\ EndPass
    /\ UNCHANGED <<modes, acc, cr, natsVars, ops, history>>
-----------------------------------------------------------------------------
AccountReconcile ==
    \/ ReadAccount \/ InitAccount \/ AddAccountFinalizer \/ AccountReady
    \/ ListDependents \/ HoldAccount \/ ReleaseAccount

ResourceReconcile ==
    \/ ReadCR \/ InitStatus \/ AddFinalizer \/ Load
    \/ Create \/ Update \/ ReadBack \/ Persist \/ ReportReady \/ ReportError
    \/ ReportAgain \/ FinalStatus \/ FinalDelete \/ RemoveFinalizer

Environment ==
    \/ SyncAccount \/ SyncCR \/ CreateAccount \/ DeleteAccount \/ CreateCR
    \/ EditCR \/ DeleteCR \/ LoseObject \/ RestoreParent \/ Restart

Next == AccountReconcile \/ ResourceReconcile \/ Environment

\* The queues run, informers deliver, streams come back.
Fairness ==
    /\ WF_vars(AccountReconcile) /\ WF_vars(ResourceReconcile)
    /\ WF_vars(SyncAccount) /\ WF_vars(SyncCR) /\ WF_vars(RestoreParent)

Spec == Init /\ [][Next]_vars /\ Fairness
-----------------------------------------------------------------------------
(* Properties. *)

\* The account outlives the CRs that name it, unless it was marked for deletion
\* before it had its finalizer or before the cache showed the CR, or a List
\* failed.
AccountOutlivesDependents ==
    (cr.present /\ cr.account /\ cr.finalizer /\ ~acc.present) => late \/ Faulty

\* A CR let go while the server still has its object was asked to leave it,
\* or was never stored and the server could not be asked: a call failed, or the
\* account, deleted before the CR was seen, had gone, or was not in the cache yet
\* when the CR came.  A CR with stored state never leaves an object behind.
LeavesNothingBehind ==
    [][(cr.present /\ ~cr.present' /\ cr.finalizer /\ server # 0)
        => \/ obj.keep \/ readOnly
           \/ obj.stored = 0 /\ (Faulty \/ (obj.account /\ (late \/ early)))]_vars

\* A CR reported Ready has the object its spec asks for, unless updates are
\* prevented or the object was lost meanwhile.
ReadyMatchesSpec ==
    [][(cr.present /\ cr'.ready = "Ready" /\ cr.ready # "Ready" /\ ~readOnly /\ ~obj.pin)
        => server \in {cr'.ver, 0}]_vars

\* Deletions come to their end: a CR's unless its account is missing, an
\* account's once no CR names it.
DeletionsEnd ==
    /\ []<>(~(cr.present /\ cr.deleting) \/ (cr.account /\ ~acc.present))
    /\ []<>(~(acc.present /\ acc.deleting) \/ (cr.present /\ cr.account))

\* A spec that does not parse shows on a Consumer.  On an ObjectStore it does
\* not: its error is returned before any status is written.
SpecErrorsShow ==
    <>[](kind = "consumer" /\ cr.present /\ ~cr.deleting /\ cr.ver = 0 /\ ~readOnly)
        => <>[](cr.ready = "Errored")
=============================================================================
