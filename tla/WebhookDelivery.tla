--------------------------- MODULE WebhookDelivery ---------------------------
(***************************************************************************)
(* The queue of webhook deliveries (lib/webhooks/deliver.ts): the rows that *)
(* queueJobSettled leaves behind, and the calls of deliverDue that send     *)
(* them.  A call is a pass: it reads the rows that are due and works all of *)
(* them concurrently.  The drain of instrumentation-runtime.ts skips a call *)
(* while the previous one runs, but deliverDue itself promises, and its     *)
(* tests require, that overlapping calls are safe, so passes overlap here.  *)
(*                                                                         *)
(* Time is relative, which keeps the states finite: wait[d] is how far      *)
(* ahead nextAttemptAt lies (negative when it is past, never below -Margin),*)
(* and age[p] how long ago the pass read the clock it computes with.  A     *)
(* pass keeps the worst case its lease is computed for, unless it stalls.   *)
(***************************************************************************)
EXTENDS Integers, FiniteSets, FiniteSetsExt

CONSTANTS
    Deliveries,   \* one per (webhook, settled job), the pair the table keys on
    Passes,       \* the calls of deliverDue that may overlap
    Timeout,      \* webhooks.timeoutMs, for the lookup and again for the send
    Margin,       \* LEASE_MARGIN_MS
    MaxAttempts,  \* webhooks.maxAttempts
    Backoff,      \* webhooks.retryBackoffSeconds
    MaxWait,      \* MAX_BACKOFF_SECONDS
    Batch,        \* BATCH, the rows one pass takes
    MaxRecords,   \* webhooks.maxDeliveryRecords
    SweepEvery,   \* webhooks.deliverySweepEvery
    MaxFaults,    \* bound: database errors and crashes
    MaxStalls,    \* bound: passes that outlive the worst case
    MaxToggles    \* bound: switches turned by an operator

ASSUME DeliveriesAssumption == IsFiniteSet(Deliveries)
ASSUME BoundsAssumption ==
    /\ {Timeout, Margin, MaxAttempts, Backoff, Batch, MaxRecords, SweepEvery} \subseteq Nat \ {0}
    /\ {MaxFaults, MaxStalls, MaxToggles} \subseteq Nat
    /\ MaxWait \in Nat /\ MaxWait >= Backoff

VARIABLES
    status,    \* WebhookDelivery.status, "none" before the row and "swept" after
    attempts,  \* WebhookDelivery.attempts
    wait,      \* WebhookDelivery.nextAttemptAt, from now
    created,   \* WebhookDelivery.createdAt, as a rank
    enabled,   \* the webhook is enabled and its key is not revoked
    on,        \* webhooks.enabled
    pc,        \* where a pass is
    age,       \* the time since a pass's `now`
    task,      \* where processDelivery is with a row of the pass
    seen,      \* the attempts the pass read with the row
    stalled,   \* the passes that no longer keep the worst case
    settles,   \* fenposWebhookSettles, modulo SweepEvery
    sweeps,    \* sweeps that were started and have read nothing yet
    cutoffs,   \* the rows that running sweeps read as their cutoff
    accepted,  \* history: how often the receiver answered 2xx
    faults, toggles

rows == <<status, attempts, wait, created>>
switches == <<enabled, on, toggles>>
calls == <<pc, age, task, seen, stalled>>
sweeping == <<settles, sweeps, cutoffs>>
vars == <<rows, switches, calls, sweeping, accepted, faults>>

Settled == {"DELIVERED", "FAILED"}

\* An attempt that claimed its row: resolving and checking the target, then
\* sending, then one of the outcomes that is still to be recorded.
CheckOutcomes == {"denied", "broken", "slow"}
SendOutcomes == {"ok", "refused", "busy", "again"}
Outcomes == CheckOutcomes \cup SendOutcomes
Claimed == {"checking", "sending"} \cup Outcomes

\* A lease that forgets that the lookup may take as long as the send.
LeaseForOneWait == Timeout + Margin

\* How far an attempt's claim pushes nextAttemptAt past the pass's clock.
Lease == 2 * Timeout + Margin

\* The wait before the next attempt, doubled each time and capped.
RetryWait(n) == Min({Backoff * 2 ^ (n - 1), MaxWait})

Later(t) == Max({t, -Margin})

Mine(p, d) == seen[p][d] + 1

\* Types; and every attempt beyond MaxAttempts was the price of a fault.
TypeOK ==
    /\ status \in [Deliveries -> {"none", "PENDING", "swept"} \cup Settled]
    /\ attempts \in [Deliveries -> 0 .. MaxAttempts + faults]
    /\ wait \in [Deliveries -> -Margin .. Max({Lease, MaxWait})]
    /\ created \in [Deliveries -> 0 .. Cardinality(Deliveries)]
    /\ enabled \in [Deliveries -> BOOLEAN] /\ on \in BOOLEAN
    /\ pc \in [Passes -> {"idle", "reading", "working"}]
    /\ age \in [Passes -> Nat]
    /\ task \in [Passes -> [Deliveries -> {"none", "found"} \cup Claimed]]
    /\ seen \in [Passes -> [Deliveries -> Nat]]
    /\ stalled \subseteq Passes
    /\ settles \in 0 .. SweepEvery - 1 /\ sweeps \in Nat
    /\ cutoffs \subseteq Deliveries
    /\ accepted \in [Deliveries -> Nat]
    /\ faults \in 0 .. MaxFaults /\ toggles \in 0 .. MaxToggles

Init ==
    /\ status = [d \in Deliveries |-> "none"]
    /\ attempts = [d \in Deliveries |-> 0]
    /\ wait = [d \in Deliveries |-> 0]
    /\ created = [d \in Deliveries |-> 0]
    /\ enabled = [d \in Deliveries |-> TRUE] /\ on = TRUE
    /\ pc = [p \in Passes |-> "idle"]
    /\ age = [p \in Passes |-> 0]
    /\ task = [p \in Passes |-> [d \in Deliveries |-> "none"]]
    /\ seen = [p \in Passes |-> [d \in Deliveries |-> 0]]
    /\ stalled = {}
    /\ settles = 0 /\ sweeps = 0 /\ cutoffs = {}
    /\ accepted = [d \in Deliveries |-> 0]
    /\ faults = 0 /\ toggles = 0

-----------------------------------------------------------------------------
(* Rows and switches *)

\* A job settled while its key's webhook listens; the unique constraint on
\* (webhook, job) makes the second of two racing inserts a no-op.
Queue(d) ==
    /\ on /\ enabled[d] /\ status[d] = "none"
    /\ status' = [status EXCEPT ![d] = "PENDING"]
    /\ created' = [created EXCEPT ![d] = Cardinality({e \in Deliveries : created[e] > 0}) + 1]
    /\ UNCHANGED <<attempts, wait, switches, calls, sweeping, accepted, faults>>

\* An operator disables or enables a webhook, or revokes its key.
ToggleWebhook(d) ==
    /\ toggles < MaxToggles
    /\ enabled' = [enabled EXCEPT ![d] = ~enabled[d]]
    /\ toggles' = toggles + 1
    /\ UNCHANGED <<rows, on, calls, sweeping, accepted, faults>>

\* An operator turns webhooks.enabled.
ToggleAll ==
    /\ toggles < MaxToggles
    /\ on' = ~on
    /\ toggles' = toggles + 1
    /\ UNCHANGED <<rows, enabled, calls, sweeping, accepted, faults>>

-----------------------------------------------------------------------------
(* A pass *)

\* deliverDue is called: it takes its clock and finds webhooks enabled.
Begin(p) ==
    /\ pc[p] = "idle" /\ on
    /\ pc' = [pc EXCEPT ![p] = "reading"]
    /\ UNCHANGED <<rows, switches, age, task, seen, stalled, sweeping, accepted, faults>>

Return(p) ==
    /\ pc' = [pc EXCEPT ![p] = "idle"]
    /\ age' = [age EXCEPT ![p] = 0]
    /\ task' = [task EXCEPT ![p] = [d \in Deliveries |-> "none"]]
    /\ seen' = [seen EXCEPT ![p] = [d \in Deliveries |-> 0]]
    /\ stalled' = stalled \ {p}

\* The due query without its filter on the webhook.
DueWhoever(p) == {d \in Deliveries : status[d] = "PENDING" /\ wait[d] <= -age[p]}

\* The rows the due query matches.
Due(p) == {d \in Deliveries :
              status[d] = "PENDING" /\ enabled[d] /\ wait[d] <= -age[p]}

\* The query's answer: at most Batch of them, the longest due first.
Batches(p) ==
    {B \in SUBSET Due(p) :
        /\ Cardinality(B) = Min({Batch, Cardinality(Due(p))})
        /\ \A d \in B, e \in Due(p) \ B : wait[d] <= wait[e]}

\* processDelivery leaves a row alone that was read with a disabled webhook.
Workable(B) == {d \in B : enabled[d]}

ReadDue(p) ==
    /\ pc[p] = "reading"
    /\ \E B \in Batches(p) :
          LET W == Workable(B) IN
          IF W = {} THEN Return(p)
          ELSE /\ pc' = [pc EXCEPT ![p] = "working"]
               /\ task' = [task EXCEPT ![p] =
                             [d \in Deliveries |-> IF d \in W THEN "found" ELSE "none"]]
               /\ seen' = [seen EXCEPT ![p] =
                             [d \in Deliveries |-> IF d \in W THEN attempts[d] ELSE 0]]
               /\ UNCHANGED <<age, stalled>>
    /\ UNCHANGED <<rows, switches, sweeping, accepted, faults>>

\* A database error in the query or the settings read costs the pass.
PassFails(p) ==
    /\ pc[p] = "reading" /\ faults < MaxFaults
    /\ Return(p)
    /\ faults' = faults + 1
    /\ UNCHANGED <<rows, switches, sweeping, accepted>>

\* processDelivery returns; Promise.all waits for the rest of the batch.
Finish(p, d) ==
    IF \A e \in Deliveries \ {d} : task[p][e] = "none" THEN Return(p)
    ELSE /\ task' = [task EXCEPT ![p][d] = "none"]
         /\ seen' = [seen EXCEPT ![p][d] = 0]
         /\ UNCHANGED <<pc, age, stalled>>

Goto(p, d, step) ==
    /\ task' = [task EXCEPT ![p][d] = step]
    /\ UNCHANGED <<pc, age, seen, stalled>>

\* The row is still as the pass read it.
Unclaimed(p, d) == status[d] = "PENDING" /\ attempts[d] = seen[p][d]

\* A claim that only counts the attempt and leaves the row due.
ClaimUnleased(p, d) ==
    /\ task[p][d] = "found" /\ Unclaimed(p, d)
    /\ attempts' = [attempts EXCEPT ![d] = Mine(p, d)]
    /\ Goto(p, d, "checking")
    /\ UNCHANGED <<status, wait, created, switches, sweeping, accepted, faults>>

\* The compare-and-set that wins the row and leases it.
Claim(p, d) ==
    /\ task[p][d] = "found" /\ Unclaimed(p, d)
    /\ attempts' = [attempts EXCEPT ![d] = Mine(p, d)]
    /\ wait' = [wait EXCEPT ![d] = Later(Lease - age[p])]
    /\ Goto(p, d, "checking")
    /\ UNCHANGED <<status, created, switches, sweeping, accepted, faults>>

\* Another pass won it.
ClaimLost(p, d) ==
    /\ task[p][d] = "found" /\ ~Unclaimed(p, d)
    /\ Finish(p, d)
    /\ UNCHANGED <<rows, switches, sweeping, accepted, faults>>

\* assertDeliverable approves the target, refuses it for good (a bad scheme, a
\* blocked address, any lookup without an answer), or its resolver was too slow.
Check(p, d) ==
    /\ task[p][d] = "checking"
    /\ \E step \in {"sending", "denied", "slow"} : Goto(p, d, step)
    /\ UNCHANGED <<rows, switches, sweeping, accepted, faults>>

\* A database error while it reads its settings is caught with the refusals.
CheckBreaks(p, d) ==
    /\ task[p][d] = "checking" /\ faults < MaxFaults
    /\ Goto(p, d, "broken")
    /\ faults' = faults + 1
    /\ UNCHANGED <<rows, switches, sweeping, accepted>>

\* The receiver answers 2xx, or refuses (3xx, 4xx), or says later (5xx, 408,
\* 429), or the transport fails or times out, having reached it or not.
Answer(p, d) ==
    /\ task[p][d] = "sending"
    /\ \/ /\ Goto(p, d, "ok")
          /\ accepted' = [accepted EXCEPT ![d] = accepted[d] + 1]
       \/ /\ \E step \in {"refused", "busy", "again"} : Goto(p, d, step)
          /\ UNCHANGED accepted
    /\ UNCHANGED <<rows, switches, sweeping, faults>>

-----------------------------------------------------------------------------
(* Recording an outcome *)

\* An outcome written by id alone.
StillThere(p, d) == status[d] \in {"PENDING"} \cup Settled

\* Every outcome is written on the condition that the attempt is still the
\* row's latest.
StillMine(p, d) == status[d] \in {"PENDING"} \cup Settled /\ attempts[d] = Mine(p, d)

\* sweepDeliveriesOccasionally, called without being awaited.
CountSettle ==
    /\ settles' = (settles + 1) % SweepEvery
    /\ sweeps' = IF settles' = 0 THEN sweeps + 1 ELSE sweeps
    /\ UNCHANGED cutoffs

Settle(d, s) ==
    /\ status' = [status EXCEPT ![d] = s]
    /\ CountSettle
    /\ UNCHANGED <<attempts, wait, created>>

\* What recordFailure gives up on.
GivesUp(p, d) ==
    \/ task[p][d] \in {"denied", "broken", "refused"}
    \/ Mine(p, d) >= MaxAttempts

RecordOutcome(p, d) ==
    IF ~StillMine(p, d) THEN UNCHANGED <<rows, sweeping>>
    ELSE IF task[p][d] = "ok" THEN Settle(d, "DELIVERED")
    ELSE IF GivesUp(p, d) THEN Settle(d, "FAILED")
    ELSE /\ wait' = [wait EXCEPT ![d] = Later(RetryWait(Mine(p, d)) - age[p])]
         /\ UNCHANGED <<status, attempts, created, sweeping>>

Record(p, d) ==
    /\ task[p][d] \in Outcomes
    /\ RecordOutcome(p, d)
    /\ Finish(p, d)
    /\ UNCHANGED <<switches, accepted, faults>>

\* A database error while recording an answer lands in the catch around the
\* send, which records a transport failure instead.
RecordBreaks(p, d) ==
    /\ task[p][d] \in {"ok", "refused", "busy"} /\ faults < MaxFaults
    /\ Goto(p, d, "again")
    /\ faults' = faults + 1
    /\ UNCHANGED <<rows, switches, sweeping, accepted>>

\* A database error elsewhere ends processDelivery; a claimed row keeps its
\* lease and becomes due again when that runs out.
AttemptDies(p, d) ==
    /\ task[p][d] \in {"found", "again"} \cup CheckOutcomes /\ faults < MaxFaults
    /\ Finish(p, d)
    /\ faults' = faults + 1
    /\ UNCHANGED <<rows, switches, sweeping, accepted>>

-----------------------------------------------------------------------------
(* Retention *)

SettledRows == {d \in Deliveries : status[d] \in Settled}
Newer(d, S) == {e \in S : created[e] > created[d]}

\* A deletion that takes the cutoff row too.
OlderOrSame(d, S) == {e \in S : created[e] <= created[d]}

Older(d, S) == {e \in S : created[e] < created[d]}

\* sweepDeliveriesNow counts the settled rows and reads the oldest to keep.
SweepRead ==
    /\ sweeps > 0
    /\ sweeps' = sweeps - 1
    /\ cutoffs' = IF Cardinality(SettledRows) <= MaxRecords THEN cutoffs
                  ELSE cutoffs \cup {d \in SettledRows :
                                        Cardinality(Newer(d, SettledRows)) = MaxRecords - 1}
    /\ UNCHANGED <<rows, switches, calls, settles, accepted, faults>>

\* It then deletes whatever settled row is older, in one statement.
SweepDelete(c) ==
    /\ c \in cutoffs
    /\ cutoffs' = cutoffs \ {c}
    /\ status' = [d \in Deliveries |->
                    IF d \in Older(c, SettledRows) THEN "swept" ELSE status[d]]
    /\ UNCHANGED <<attempts, wait, created, switches, calls, settles, sweeps, accepted, faults>>

\* A sweep that meets a database error is left to the next settle.
SweepFails ==
    /\ sweeps > 0 /\ faults < MaxFaults
    /\ sweeps' = sweeps - 1
    /\ faults' = faults + 1
    /\ UNCHANGED <<rows, switches, calls, settles, cutoffs, accepted>>

-----------------------------------------------------------------------------
(* Time and failures *)

\* When, on the pass's clock, a step must be over for the lease to cover it:
\* the margin pays for the database, and each of the two waits for a timeout.
Deadline(p, d) ==
    CASE task[p][d] = "found"    -> Margin
      [] task[p][d] = "checking" -> Margin + Timeout
      [] OTHER                   -> Margin + 2 * Timeout

Prompt(p) ==
    /\ pc[p] = "reading" => age[p] + 1 < Margin
    /\ \A d \in Deliveries : task[p][d] # "none" => age[p] + 1 < Deadline(p, d)

\* No retry and no lease reaches further than this, so an older pass is as good.
MaxAge == Max({Lease, MaxWait}) + Margin

Tick ==
    /\ \A p \in Passes \ stalled : Prompt(p)
    /\ wait' = [d \in Deliveries |->
                  IF status[d] = "PENDING" THEN Later(wait[d] - 1) ELSE wait[d]]
    /\ age' = [p \in Passes |->
                 IF pc[p] = "idle" THEN 0 ELSE Min({age[p] + 1, MaxAge})]
    /\ UNCHANGED <<status, attempts, created, switches, pc, task, seen, stalled, sweeping,
                   accepted, faults>>

\* The process is suspended, or its database busy, longer than Margin allows.
Stall(p) ==
    /\ pc[p] = "working" /\ p \notin stalled /\ faults < MaxFaults
    /\ Cardinality(stalled) < MaxStalls
    /\ stalled' = stalled \cup {p}
    /\ faults' = faults + 1
    /\ UNCHANGED <<rows, switches, pc, age, task, seen, sweeping, accepted>>

\* The server stops and starts again: only the rows survive.
Crash ==
    /\ faults < MaxFaults
    /\ pc' = [p \in Passes |-> "idle"]
    /\ age' = [p \in Passes |-> 0]
    /\ task' = [p \in Passes |-> [d \in Deliveries |-> "none"]]
    /\ seen' = [p \in Passes |-> [d \in Deliveries |-> 0]]
    /\ stalled' = {}
    /\ settles' = 0 /\ sweeps' = 0 /\ cutoffs' = {}
    /\ faults' = faults + 1
    /\ UNCHANGED <<rows, switches, accepted>>

-----------------------------------------------------------------------------

Attempt(p, d) ==
    \/ Claim(p, d) \/ ClaimLost(p, d)
    \/ Check(p, d) \/ Answer(p, d) \/ Record(p, d)

Next ==
    \/ \E d \in Deliveries : Queue(d) \/ ToggleWebhook(d) \/ SweepDelete(d)
    \/ \E p \in Passes :
          \/ Begin(p) \/ ReadDue(p) \/ PassFails(p) \/ Stall(p)
          \/ \E d \in Deliveries :
                \/ Attempt(p, d)
                \/ CheckBreaks(p, d) \/ RecordBreaks(p, d) \/ AttemptDies(p, d)
    \/ ToggleAll \/ SweepRead \/ SweepFails \/ Tick \/ Crash

Spec == Init /\ [][Next]_vars

\* Time passes, however many passes begin (strong fairness: a pass stops the
\* clock while it reads); the drain's interval keeps calling deliverDue; and
\* every await of a pass ends: the database answers, both waits have a timeout.
FairSpec ==
    /\ Spec
    /\ SF_vars(Tick)
    /\ WF_vars(\E p \in Passes : Begin(p))
    /\ \A p \in Passes : WF_vars(ReadDue(p))
    /\ \A p \in Passes, d \in Deliveries : WF_vars(Attempt(p, d))

-----------------------------------------------------------------------------
(* Properties *)

Undisturbed == faults = 0

\* Overlapping passes never work on one delivery together, as long as no pass
\* outlives the worst case the lease is computed for.
OneAttemptAtATime ==
    stalled = {} =>
        \A d \in Deliveries, p, q \in Passes :
            task[p][d] \in Claimed /\ task[q][d] \in Claimed => p = q

\* Without a fault, a receiver that accepted a delivery is not sent it again,
\* and the delivery is not given up on.
AcceptedOnce ==
    Undisturbed =>
        \A d \in Deliveries :
            accepted[d] > 0 => accepted[d] = 1 /\ status[d] # "FAILED"

\* One attempt at a time, and none after the one that was accepted.
AttemptsTakeTurns == OneAttemptAtATime /\ AcceptedOnce

\* An attempt that lost its row to a later one does not overwrite that one's
\* outcome: how a delivery ended stays, until retention removes the row.
OutcomeStands ==
    [][\A d \in Deliveries :
          status[d] \in Settled => status'[d] \in {status[d], "swept"}]_vars

\* Only settled rows are swept, and never one of the MaxRecords newest.
SweepKeepsNewest ==
    [][\A d \in Deliveries :
          status'[d] = "swept" /\ status[d] # "swept" =>
              /\ status[d] \in Settled
              /\ Cardinality({e \in Deliveries :
                    status'[e] \in Settled /\ created[e] > created[d]}) >= MaxRecords]_vars

\* A queued delivery whose webhook stays enabled is delivered or given up on,
\* whatever other rows, of disabled webhooks too, are queued before it.
DeliveriesSettle ==
    \A d \in Deliveries :
        status[d] = "PENDING" /\ on /\ enabled[d]
            ~> status[d] # "PENDING" \/ ~on \/ ~enabled[d]
=============================================================================
