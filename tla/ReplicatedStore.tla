-------------------------- MODULE ReplicatedStore --------------------------
(***************************************************************************)
(* What the Stream and the KeyValue reconciler promise about the data they*)
(* look after, whatever happens between two of their calls: a stream      *)
(* stands for a local copy that is a mirror of the peer region or a       *)
(* primary of its own.  A mirror becomes a primary in place, with its     *)
(* data.  A primary never becomes a mirror in place.  Data is destroyed   *)
(* only on the way to a mirror, which can be filled again from the peer,  *)
(* or when the owner asked for the store to be deleted.                    *)
(***************************************************************************)
EXTENDS FiniteSets

CONSTANT Data

VARIABLES
    form,      \* "absent", "mirror" or "primary"
    data,      \* what the store holds
    want,      \* the form the controller now works towards, or "none"
    deleting   \* the owner asked for the store to be deleted

vars == <<form, data, want, deleting>>

Init ==
    /\ form = "absent" /\ data = {}
    /\ want = "none" /\ deleting = FALSE

Decide ==
    /\ want' \in {"none", "mirror", "primary"}
    /\ UNCHANGED <<form, data, deleting>>

Request == deleting' = TRUE /\ UNCHANGED <<form, data, want>>

Create ==
    /\ form = "absent" /\ want # "none"
    /\ form' = want
    /\ UNCHANGED <<data, want, deleting>>

Fill ==
    /\ form # "absent"
    /\ data' \subseteq Data /\ data \subseteq data'
    /\ UNCHANGED <<form, want, deleting>>

Promote ==
    /\ form = "mirror" /\ want = "primary"
    /\ form' = "primary"
    /\ UNCHANGED <<data, want, deleting>>

Destroyed == form' = "absent" /\ data' = {}

Replace == want = "mirror" /\ Destroyed /\ UNCHANGED <<want, deleting>>

\* A deletion may end the controller's work on the store as well.
Delete == deleting /\ Destroyed /\ UNCHANGED deleting /\ want' \in {want, "none"}

Next == Decide \/ Request \/ Create \/ Fill \/ Promote \/ Replace \/ Delete

Spec == Init /\ [][Next]_vars
=============================================================================
