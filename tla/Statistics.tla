------------------------------ MODULE Statistics ------------------------------
(***************************************************************************)
(* What the statistics pages are drawn from: the hourly summaries a pass     *)
(* writes (lib/metrics/rollup.ts) and the rows of the counters kept in       *)
(* memory (lib/metrics/counters.ts).  They share no row.                    *)
(***************************************************************************)
EXTENDS MetricsRollup, MetricCounters

statisticsVars == <<rollupVars, counterVars>>

StatisticsInit == RollupInit /\ CountersInit

StatisticsNext ==
    \/ RollupNext /\ UNCHANGED counterVars
    \/ CountersNext /\ UNCHANGED rollupVars

StatisticsSpec == StatisticsInit /\ [][StatisticsNext]_statisticsVars

\* Every hour's row holds that hour's jobs, and every sample counted is in a row or
\* in memory, once.
StatisticsAreTrue == HoursAreWhole /\ SamplesCountOnce
=============================================================================
