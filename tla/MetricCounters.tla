---------------------------- MODULE MetricCounters ----------------------------
(***************************************************************************)
(* One row of lib/metrics/counters.ts: the count kept in memory, flushed    *)
(* every minute under one flag and once more, outside it, at shutdown.  The *)
(* row's count is incremented, its histogram read, merged and written back. *)
(***************************************************************************)
EXTENDS Naturals

CONSTANT MaxSamples   \* bound: samples recorded

Flushers == {"timer", "shutdown"}

VARIABLES
    counting,  \* samples in the map
    flusher,   \* of each flush, how far it is, what it took and what it read
    stored,    \* the row: its count, and the samples in its histogram
    recorded,  \* history: samples recorded
    dropped,   \* history: samples given up
    overlapped \* history: two flushes were under way at once

counterVars == <<counting, flusher, stored, recorded, dropped, overlapped>>

Resting == [at |-> "rest", took |-> 0, read |-> 0]

CountersInit ==
    /\ counting = 0 /\ flusher = [f \in Flushers |-> Resting]
    /\ stored = [count |-> 0, hist |-> 0] /\ recorded = 0 /\ dropped = 0 /\ overlapped = FALSE

InFlight == flusher["timer"].took + flusher["shutdown"].took

RecordSample ==
    /\ recorded < MaxSamples /\ recorded' = recorded + 1 /\ counting' = counting + 1
    /\ UNCHANGED <<flusher, stored, dropped, overlapped>>

\* refreshMetricsGates, with the statistics turned off.
TurnedOff ==
    /\ counting > 0 /\ counting' = 0 /\ dropped' = dropped + counting
    /\ UNCHANGED <<flusher, stored, recorded, overlapped>>

\* The mutant: the map is emptied when all of it is written.
MistakeSwapped == counting

\* The map is swapped before anything is written.
Swapped == 0

BeginFlush(f) ==
    /\ flusher[f].at = "rest" /\ counting > 0
    /\ flusher' = [flusher EXCEPT ![f] = [at |-> "read", took |-> counting, read |-> 0]]
    /\ counting' = Swapped
    /\ overlapped' = (overlapped \/ \E g \in Flushers \ {f} : flusher[g].at \in {"read", "write"})
    /\ UNCHANGED <<stored, recorded, dropped>>

ReadRow(f) ==
    /\ flusher[f].at = "read"
    /\ flusher' = [flusher EXCEPT ![f].at = "write", ![f].read = stored.hist]
    /\ UNCHANGED <<counting, stored, recorded, dropped, overlapped>>

Done(f) == IF f = "shutdown" THEN [Resting EXCEPT !.at = "over"] ELSE Resting

UpsertRow(f) ==
    /\ flusher[f].at = "write" /\ flusher' = [flusher EXCEPT ![f] = Done(f)]
    /\ stored' = [count |-> stored.count + flusher[f].took, hist |-> flusher[f].read + flusher[f].took]
    /\ UNCHANGED <<counting, recorded, dropped, overlapped>>

\* A flush that throws loses what it took.
FlushFails(f) ==
    /\ flusher[f].at \in {"read", "write"} /\ flusher' = [flusher EXCEPT ![f] = Done(f)]
    /\ dropped' = dropped + flusher[f].took
    /\ UNCHANGED <<counting, stored, recorded, overlapped>>

CountersNext ==
    \/ RecordSample \/ TurnedOff
    \/ \E f \in Flushers : BeginFlush(f) \/ ReadRow(f) \/ UpsertRow(f) \/ FlushFails(f)

(***************************************************************************)
(* Properties                                                               *)
(***************************************************************************)

\* Every sample is in one place: the map, a flush, the row, or given up; and the
\* histogram holds what the count says, unless the flush at shutdown crossed the
\* timer's, when it may hold less.
SamplesCountOnce ==
    /\ counting + InFlight + stored.count + dropped = recorded
    /\ stored.hist <= stored.count /\ (overlapped \/ stored.hist = stored.count)
=============================================================================
