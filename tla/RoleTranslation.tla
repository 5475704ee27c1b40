-------------------------- MODULE RoleTranslation --------------------------
(***************************************************************************)
(* The pure decisions of internal/controller/passive_role.go: how the     *)
(* drp.cicada.io/local-role annotation of a namespace turns the authored  *)
(* spec of a Stream CR into the spec the reconciler applies, and which    *)
(* flips between source form and mirror form it wants or refuses.         *)
(*                                                                         *)
(* A spec, and a server-side stream configuration, is a record            *)
(*   [mirror, subjects, ver]                                               *)
(* whose mirror says where it replicates from ("none": a primary;         *)
(* "authored": the mirror written in the CR; "peer": the mirror that      *)
(* translation synthesises from the cross-region domain), whose subjects  *)
(* says whether the authored subjects are claimed, and whose ver stands   *)
(* for every other field.                                                  *)
(***************************************************************************)
EXTENDS Naturals

CONSTANTS
    TranslationEnabled, \* --enable-passive-role-translation
    RemoteDomainSet,    \* --cross-region-nats-domain is not empty
    ColdStartPassive,   \* --cold-start-default-passive
    ScopeLabeled        \* the CR carries drp.cicada.io/nats-failover-scope

ASSUME RoleFlagsAssumption ==
    {TranslationEnabled, RemoteDomainSet, ColdStartPassive, ScopeLabeled}
        \subseteq BOOLEAN

Roles == {"passive", "active", "unset"}
SpecMirrors == {"none", "authored"}
Mirrors == {"none", "authored", "peer"}

IsMirror(c) == c.mirror \in {"authored", "peer"}

\* The role translation acts on; the guards below read the raw annotation.
EffectiveRole(role) ==
    IF role = "unset" /\ ColdStartPassive THEN "passive" ELSE role

TranslatePassive(role) ==
    TranslationEnabled /\ RemoteDomainSet /\ EffectiveRole(role) = "passive"

\* Mutant: the reconciler before active-role translation existed.
TranslateActiveNever(role, spec) == FALSE

\* Unlike TranslatePassive, this one does not ask for the remote domain.
TranslateActive(role, spec) ==
    /\ TranslationEnabled /\ ScopeLabeled
    /\ IsMirror(spec)
    /\ EffectiveRole(role) # "passive"

ToMirror(spec) == [spec EXCEPT !.subjects = FALSE, !.mirror = "peer"]
ToPrimary(spec) == [spec EXCEPT !.mirror = "none"]

EffectiveSpec(role, spec) ==
    IF TranslatePassive(role) THEN ToMirror(spec)
    ELSE IF TranslateActive(role, spec) THEN ToPrimary(spec)
    ELSE spec

\* The server holds a mirror and the spec to apply is a primary.
MirrorToPrimaryFlip(srv, eff) == IsMirror(srv) /\ ~IsMirror(eff)

MirrorFlipped(srv, eff) == IsMirror(srv) # IsMirror(eff)

\* Promote in place, whatever --mirror-recreate-on-conflict says.
ConvertActive(role, srv, eff) ==
    ScopeLabeled /\ role # "passive" /\ MirrorToPrimaryFlip(srv, eff)

\* The B1 guard: never turn a mirror into a primary under a passive role.
WouldDemote(role, srv, eff) ==
    role = "passive" /\ MirrorToPrimaryFlip(srv, eff)
=============================================================================
