------------------------------ MODULE MCRollup ------------------------------
(* The time line alone: rounds that nothing disturbs, three buckets a day.    *)
EXTENDS Rollup

RollupSpec == RollupInit /\ [][RollupNext]_rollupVars
=============================================================================
