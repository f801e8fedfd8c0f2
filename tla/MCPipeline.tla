----------------------------- MODULE MCPipeline -----------------------------
(* An instance of Pipeline for TLC: two producers, a channel that one call   *)
(* of Ingest fills, batches of two.                                          *)
EXTENDS Pipeline, TLC

CONSTANTS p1, p2

MCProducer == {p1, p2}
=============================================================================
