----------------------------- MODULE JobLedger -----------------------------
(***************************************************************************)
(* What the server promises about one table of print jobs, whatever links, *)
(* agents and restarts lie underneath: a job is rowed once, moves forward  *)
(* only, stops at one terminal status, and a webhook subscriber is told    *)
(* one answer, which is the answer the row still gives.                    *)
(*                                                                         *)
(* The lifecycle is the one agent-connection.ts (onJobUpdate), settle.ts   *)
(* and notify.ts defend: "a terminal job stays terminal" and "one settle,  *)
(* one delivery".                                                          *)
(***************************************************************************)
CONSTANT Jobs

VARIABLES
    row,     \* status of each job's row, or "none" before it exists
    hook     \* the status frozen in the job's webhook payload, or "none"

vars == <<row, hook>>

Terminal == {"COMPLETED", "FAILED", "CANCELLED"}
Open     == {"QUEUED", "PRINTING"}
Status   == {"none"} \cup Open \cup Terminal

TypeOK ==
    /\ row  \in [Jobs -> Status]
    /\ hook \in [Jobs -> {"none"} \cup Terminal]

Init ==
    /\ row  = [j \in Jobs |-> "none"]
    /\ hook = [j \in Jobs |-> "none"]

\* A submission records the job.
Record(j) ==
    /\ row[j] = "none"
    /\ row' = [row EXCEPT ![j] = "QUEUED"]
    /\ UNCHANGED hook

\* Paper starts to move.
Start(j) ==
    /\ row[j] \in Open
    /\ row' = [row EXCEPT ![j] = "PRINTING"]
    /\ UNCHANGED hook

\* Some unfinished jobs end together, all the same way (a batch of lost jobs,
\* or a set of one).
Settle(S, s) ==
    /\ S # {}
    /\ \A j \in S : row[j] \in Open
    /\ row' = [j \in Jobs |-> IF j \in S THEN s ELSE row[j]]
    /\ UNCHANGED hook

\* The subscriber is told, once.
Tell(j) ==
    /\ row[j] \in Terminal
    /\ hook[j] = "none"
    /\ hook' = [hook EXCEPT ![j] = row[j]]
    /\ UNCHANGED row

Next ==
    \/ \E j \in Jobs : Record(j) \/ Start(j) \/ Tell(j)
    \/ \E S \in SUBSET Jobs, s \in Terminal : Settle(S, s)

Spec == Init /\ [][Next]_vars
=============================================================================
