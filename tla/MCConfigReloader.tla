-------------------------- MODULE MCConfigReloader --------------------------
EXTENDS ConfigReloader

MCVersions == {"a", "b"}
\* One version of the main configuration includes file 2, the other does not.
MCIncludes == [v \in MCVersions |-> IF v = "a" THEN {2} ELSE {}]
=============================================================================
