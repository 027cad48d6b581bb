--------------------------- MODULE MCEndpointAgent ---------------------------
\* Small configurations of the endpoint agent for TLC.
EXTENDS EndpointAgent

\* Two probes; the mock collector yields one record for each.
ModelOrder == <<"exec", "file">>

Plain == [source |-> "mock", heartbeat |-> TRUE, ingest |-> TRUE,
          limit |-> -1, rotate |-> -1, keep |-> 1, bytes |-> -1, retries |-> 0, queue |-> 1]

\* The mock collector; a new file for each line, of which two
\* are kept and at most three lines retained; one retry.
Rotating == [Plain EXCEPT !.rotate = 1, !.keep = 2, !.bytes = 3, !.retries = 1, !.ingest = FALSE, !.heartbeat = FALSE]

\* The mock collector stopped by the consumer's own limit, no rotated file kept.
Limited == [Plain EXCEPT !.limit = 1, !.rotate = 1, !.keep = 0]

\* The Linux collector with room for one event a probe, and with a limit that
\* cuts a batch short.
Sensing == [Plain EXCEPT !.source = "linux", !.heartbeat = FALSE]
SensingLimited == [Plain EXCEPT !.source = "linux", !.limit = 2, !.queue = 2, !.ingest = FALSE]

ModelConfigs == {Plain, Rotating, Limited, Sensing, SensingLimited}
SensingOnly == {Sensing}
==============================================================================
