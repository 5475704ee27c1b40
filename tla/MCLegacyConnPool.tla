-------------------------- MODULE MCLegacyConnPool --------------------------
(* Instances of LegacyConnPool for TLC: a queue worker, and the two cleanup *)
(* loops.                                                                    *)
EXTENDS LegacyConnPool
=============================================================================
