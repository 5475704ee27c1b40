------------------------ MODULE MCKeyValueReconciler ------------------------
EXTENDS KeyValueReconciler

Bucket(m, v) == [mirror |-> m, subjects |-> FALSE, ver |-> v]
\* A primary, the mirror baseline, and a spec that does not parse.
MCSpecForms == {Bucket("none", 1), Bucket("authored", 1), Bucket("none", 0)}
\* Without cold-start-passive, an unset role acts as an active one.
MCRoleValues == {"passive", "active"}
=============================================================================
