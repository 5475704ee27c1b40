------------------------- MODULE MCLegacyController -------------------------
EXTENDS LegacyController

Plain == [mirror |-> FALSE, headersOnly |-> FALSE, ok |-> TRUE,
          preventUpdate |-> FALSE, preventDelete |-> FALSE]
MCStreamSpecs ==
    {[Plain EXCEPT !.headersOnly = TRUE],
     [Plain EXCEPT !.mirror = TRUE],
     [Plain EXCEPT !.mirror = TRUE, !.preventDelete = TRUE]}
MCConsumerSpecs == {Plain}

Scenario(crs, streams, consumers) ==
    [readOnly |-> FALSE, crs |-> crs, faults |-> 0, restarts |-> 0,
     events |-> [k \in Kinds |-> IF k = "stream" THEN streams ELSE consumers]]
\* A stream alone, with everything that may go wrong and with --read-only; and
\* a stream with a consumer on it, where nothing fails.
MCScenarios ==
    {[Scenario({"stream"}, 2, 0) EXCEPT !.faults = 1],
     [Scenario({}, 2, 0) EXCEPT !.faults = 1, !.restarts = 1],
     [Scenario({"stream"}, 1, 0) EXCEPT !.faults = 1, !.restarts = 1],
     [Scenario({"stream"}, 2, 0) EXCEPT !.readOnly = TRUE],
     Scenario({"stream", "consumer"}, 1, 0),
     Scenario({"stream"}, 0, 1)}
=============================================================================
