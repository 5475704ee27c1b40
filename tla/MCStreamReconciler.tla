------------------------- MODULE MCStreamReconciler -------------------------
(* Instances of StreamReconciler for TLC. *)
EXTENDS StreamReconciler, TLC

Primary(v) == [mirror |-> "none", subjects |-> TRUE, ver |-> v]
Baseline(v) == [mirror |-> "authored", subjects |-> TRUE, ver |-> v]
PureMirror(v) == [mirror |-> "authored", subjects |-> FALSE, ver |-> v]

\* What charts write for a failover-scoped stream: a primary, or the "mirror
\* baseline" that carries a mirror and the subjects to claim when promoted.
Primaries == {Primary(1), Primary(2)}
\* One of the edits is mistyped.
EditedPrimaries == Primaries \cup {Primary(3)}
ScopedForms == {Primary(1), Baseline(2)}
AnyForm == {PureMirror(1), Primary(2), Baseline(2)}

\* Messages are interchangeable; for the runs without liveness properties.
MsgSymmetry == Permutations(Msgs)
=============================================================================
