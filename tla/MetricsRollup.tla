----------------------------- MODULE MetricsRollup -----------------------------
(***************************************************************************)
(* The hourly statistics: one stream of lib/metrics/rollup.ts, re-rolled by *)
(* every maintenance pass.                                                 *)
(*                                                                         *)
(* A row is what the stream counts: a settled job, filed under the time its *)
(* agent reported, which may be Late hours ago (reported-time.ts), or a      *)
(* delivery, filed when it happened, which a cap on their number may sweep. *)
(* The audit stream is the jobs stream without late rows.  Hours are          *)
(* integers; what is summed beside the count is left out.                   *)
(***************************************************************************)
EXTENDS Naturals, FiniteSetsExt

CONSTANTS
    LastHour,   \* bound: the last hour of a behaviour
    MaxRows,    \* bound: rows to an hour
    Late,       \* PAST_TOLERANCE_MS, in hours
    Reroll      \* REROLL_HOURS

ASSUME RollupAssumption == {LastHour, Late, Reroll} \subseteq Nat /\ Late < Reroll

VARIABLES
    stream,     \* "jobs" or "webhooks"
    hour,       \* the hour it is
    raw,        \* rows in each hour's bucket
    rolled,     \* the summary of each hour, 0 when there is none
    watermark,  \* {rolledThrough}, or {} before the first pass
    pass,       \* the pass under way: its bucket, its hour, what it counted
    ever,       \* history: rows each hour ever had
    missing,    \* history: hours with a row their summary does not count
    cut,        \* history: hours a sweep took rows of that are yet to be rolled
    punctual    \* history: a pass has ended in every hour so far

rollupVars == <<stream, hour, raw, rolled, watermark, pass, ever, missing, cut, punctual>>

Hours  == 0 .. LastHour
NoPass == [at |-> "none"]

RollupInit ==
    /\ stream \in {"jobs", "webhooks"} /\ hour = 0 /\ watermark = {} /\ pass = NoPass
    /\ raw = [h \in Hours |-> 0] /\ rolled = raw /\ ever = raw
    /\ missing = {} /\ cut = {} /\ punctual = TRUE

Back(n) == IF hour < n THEN 0 ELSE hour - n

RowArrives(h) ==
    /\ h <= hour /\ h >= (IF stream = "jobs" THEN Back(Late) ELSE hour) /\ ever[h] < MaxRows
    /\ raw' = [raw EXCEPT ![h] = @ + 1] /\ ever' = [ever EXCEPT ![h] = @ + 1]
    /\ missing' = missing \cup {h}
    /\ UNCHANGED <<stream, hour, rolled, watermark, pass, cut, punctual>>

\* The first pass starts at the oldest row's hour, which for a job is when it was
\* submitted by this server's clock.
Starts ==
    IF watermark # {} THEN watermark
    ELSE IF stream = "jobs" THEN 0 .. hour ELSE {Min({h \in Hours : raw[h] > 0})}

\* runMetricsRollup, rollStream: an empty source parks the watermark.
StartRollup ==
    /\ pass = NoPass
    /\ IF watermark = {} /\ \A h \in Hours : raw[h] = 0
       THEN watermark' = {hour} /\ UNCHANGED pass
       ELSE /\ \E from \in Starts :
                  pass' = [at |-> "count", bucket |-> Min({from, Back(Reroll)}), top |-> hour,
                           rows |-> 0, ever |-> 0]
            /\ UNCHANGED watermark
    /\ UNCHANGED <<stream, hour, raw, rolled, ever, missing, cut, punctual>>

\* rollJobsHour, rollWebhooksHour: the queries of one bucket.
CountHour ==
    /\ pass.at = "count" /\ pass.bucket < pass.top
    /\ pass' = [pass EXCEPT !.at = "write", !.rows = raw[pass.bucket], !.ever = ever[pass.bucket]]
    /\ UNCHANGED <<stream, hour, raw, rolled, watermark, ever, missing, cut, punctual>>

\* The mutant: a bucket without rows is rolled as an hour without any.
MistakeSummary(h, rows) == rows

\* What the hour's summary becomes: deliveries that are gone had been counted.
Summary(h, rows) == IF stream = "webhooks" /\ rows = 0 THEN rolled[h] ELSE rows

WriteHour ==
    /\ pass.at = "write"
    /\ LET h == pass.bucket IN
       /\ rolled' = [rolled EXCEPT ![h] = Summary(h, pass.rows)]
       /\ missing' = IF ever[h] = pass.ever THEN missing \ {h} ELSE missing
    /\ pass' = [pass EXCEPT !.at = "count", !.bucket = @ + 1]
    /\ UNCHANGED <<stream, hour, raw, watermark, ever, cut, punctual>>

EndRollup ==
    /\ pass.at = "count" /\ pass.bucket >= pass.top
    /\ watermark' = {pass.top} /\ pass' = NoPass
    /\ UNCHANGED <<stream, hour, raw, rolled, ever, missing, cut, punctual>>

\* A query that throws, or the server going down.
AbandonRollup ==
    /\ pass # NoPass /\ pass' = NoPass
    /\ UNCHANGED <<stream, hour, raw, rolled, watermark, ever, missing, cut, punctual>>

\* The first hour a pass may still write.
Reach == Min({Back(Reroll)} \cup (IF watermark = {} THEN {0} ELSE watermark)
             \cup (IF pass = NoPass THEN {} ELSE {pass.bucket}))

\* sweepDeliveriesNow: the oldest rows go.
SweepDeliveries ==
    /\ stream = "webhooks"
    /\ \E h \in Hours :
          /\ raw[h] > 0 /\ \A g \in 0 .. h - 1 : raw[g] = 0
          /\ \E left \in 0 .. raw[h] - 1 :
                /\ raw' = [raw EXCEPT ![h] = left]
                /\ cut' = IF h \in missing \/ (left > 0 /\ h >= Reach) THEN cut \cup {h} ELSE cut
    /\ UNCHANGED <<stream, hour, rolled, watermark, pass, ever, missing, punctual>>

NextHour ==
    /\ hour < LastHour /\ hour' = hour + 1
    /\ punctual' = (punctual /\ watermark = {hour})
    /\ UNCHANGED <<stream, raw, rolled, watermark, pass, ever, missing, cut>>

RollupNext ==
    \/ \E h \in Hours : RowArrives(h)
    \/ StartRollup \/ CountHour \/ WriteHour \/ EndRollup \/ AbandonRollup
    \/ SweepDeliveries \/ NextHour

(***************************************************************************)
(* Properties                                                               *)
(***************************************************************************)

\* Every hour behind the watermark is summed up whole, whatever pass was cut
\* short and whatever was swept since ("a rollup, once written, is meant to be
\* permanent", rollup.ts:186), or has a late row that a coming pass will count, as
\* long as a pass ended in every hour.  Left out are hours a sweep took some rows
\* of before they were rolled for the last time.
HoursAreWhole ==
    \A w \in watermark : \A h \in {h \in Hours : h < w} \ cut :
        \/ rolled[h] = ever[h]
        \/ h \in missing /\ (punctual => h >= Reach)
=============================================================================
