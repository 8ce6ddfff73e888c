----------------------------- MODULE PrintQueue -----------------------------
(***************************************************************************)
(* The agent's print queue for one device: the threads that submit jobs,   *)
(* the single worker that writes them, the operator's pause, resume and    *)
(* clear, and the teardown that replaces the queue when the configuration  *)
(* changes or stops it for good.                                           *)
(*                                                                         *)
(* A queue reads its volatile fields without a lock, so submit() is one    *)
(* step per field it reads, and shutdown() one step per field it touches.  *)
(* PrintService's monitor is what orders teardown against queue lookup:    *)
(* nobody looks a queue up while it is being replaced, but a caller that   *)
(* did so before keeps the old one.                                        *)
(*                                                                         *)
(* A device has one queue at a time; Queues numbers its successive ones.   *)
(* A queue is started as soon as it is built, before anyone can see it.    *)
(***************************************************************************)
EXTENDS Naturals, FiniteSets, Sequences

CONSTANTS
    Jobs,       \* the jobs callers may submit
    Capacity,   \* maxQueueDepth, the most jobs pending at once
    Callers,    \* how many threads submit at the same time
    MaxQueues,  \* bound: queues the device has, one after the other
    MaxPauses,  \* bound: times an operator pauses
    MaxClears,  \* bound: times an operator clears
    MaxFaults,  \* bound: times the port is lost or closed
    MaxOfAll,   \* bound: pauses, clears and faults together
    NoJob

ASSUME CapacityAssumption == Capacity \in Nat \ {0}
ASSUME QueuesAssumption   == MaxQueues \in Nat \ {0}
ASSUME CallersAssumption  == Callers \in Nat
ASSUME LimitsAssumption   == /\ MaxPauses \in Nat
                             /\ MaxClears \in Nat
                             /\ MaxFaults \in Nat
                             /\ MaxOfAll \in Nat
ASSUME NoJobAssumption    == NoJob \notin Jobs

Queues  == 1 .. MaxQueues
NoQueue == 0
Ports   == Queues

Terminal == {"COMPLETED", "FAILED", "CANCELLED"}
JobState == {"none", "QUEUED", "PRINTING"} \cup Terminal
CallPc   == {"idle", "looked", "running", "unpaused", "reachable",
             "accepted", "refused", "noQueue"}
WorkerPc == {"absent", "loop", "poll", "begin", "mark", "write", "writing",
             "wrote", "broke", "release", "gone"}
BossPc   == {"idle", "stop", "resume", "drain", "withdraw", "join", "read",
             "fail", "build", "exited"}
Tally    == {"pause", "clear", "fault"}

VARIABLES
    job,          \* PrintJob.state
    call,         \* where submit() stands for each job
    via,          \* the queue submit() was called on
    current,      \* PrintService's queue for the device
    state,        \* PrintQueue.state
    paused,       \* PrintQueue.paused
    pending,      \* PrintQueue.pending
    worker,       \* where each queue's worker stands
    hand,         \* the job the worker polled
    inFlight,     \* PrintQueue.inFlight
    interrupted,  \* the worker's interrupt flag
    clearing,     \* jobs clear() drained and has not cancelled yet
    boss,         \* where the thread holding the service's monitor stands
    after,        \* what it does once the old queue is down
    draining,     \* jobs shutdown() drained and has not cancelled yet
    suspect,      \* shutdown()'s local: the job found in flight
    portOf,       \* the port a queue feeds
    open,         \* the port's status is usable
    writer,       \* the queue whose worker holds the port's lock
    touched,      \* jobs some bytes of which were written (history)
    paper,        \* jobs all bytes of which were written, in order (history)
    order,        \* jobs in the order their queue accepted them (history)
    slipped,      \* jobs begun since the queue was paused (history)
    used          \* how much of each bound has been used

jobVars    == <<job, call, via, order>>
queueVars  == <<state, paused, pending, slipped>>
workerVars == <<worker, hand, inFlight, interrupted>>
bossVars   == <<current, boss, after, draining, suspect, portOf>>
portVars   == <<open, writer, touched, paper>>

vars == <<jobVars, queueVars, workerVars, bossVars, portVars, clearing, used>>

Use(what, max) == /\ used[what] < max
                  /\ used["pause"] + used["clear"] + used["fault"] < MaxOfAll
                  /\ used' = [used EXCEPT ![what] = @ + 1]

InQueue(q, j) == \E i \in DOMAIN pending[q] : pending[q][i] = j

Init ==
    /\ job = [j \in Jobs |-> "none"]
    /\ call = [j \in Jobs |-> "idle"]
    /\ via = [j \in Jobs |-> NoQueue]
    /\ order = <<>>
    /\ current = 1
    /\ state = [q \in Queues |-> IF q = 1 THEN "RUNNING" ELSE "NEW"]
    /\ paused = [q \in Queues |-> FALSE]
    /\ pending = [q \in Queues |-> <<>>]
    /\ slipped = [q \in Queues |-> 0]
    /\ worker = [q \in Queues |-> IF q = 1 THEN "loop" ELSE "absent"]
    /\ hand = [q \in Queues |-> NoJob]
    /\ inFlight = [q \in Queues |-> NoJob]
    /\ interrupted = [q \in Queues |-> FALSE]
    /\ clearing = {}
    /\ boss = "idle"
    /\ after = "none"
    /\ draining = {}
    /\ suspect = NoJob
    /\ portOf = [q \in Queues |-> 1]
    /\ open = [p \in Ports |-> p = 1]
    /\ writer = [p \in Ports |-> NoQueue]
    /\ touched = {}
    /\ paper = <<>>
    /\ used = [t \in Tally |-> 0]

-----------------------------------------------------------------------------
(* PrintJob's transitions, each under the job's monitor *)

\* Mistake: cancel() asks only whether the job exists.
WithdrawAny(j) == job' = [job EXCEPT ![j] = "CANCELLED"]

\* beginPrinting() and cancel() apply to a queued job only.
Begin(j)    == job' = [job EXCEPT ![j] = "PRINTING"]
Withdraw(j) == job' = [job EXCEPT ![j] = IF @ = "QUEUED" THEN "CANCELLED" ELSE @]

\* complete() and fail() ask nothing of the state they leave.
Complete(j) == job' = [job EXCEPT ![j] = "COMPLETED"]
Fail(j)     == job' = [job EXCEPT ![j] = "FAILED"]

-----------------------------------------------------------------------------
(* Submission: PrintService.accept and submit, PrintQueue.submit *)

Submitting == {j \in Jobs : call[j] \in {"looked", "running", "unpaused", "reachable"}}

\* The job is recorded and its queue looked up, which waits for the monitor.
\* Without a queue the lookup throws past the record, which stays QUEUED.
Look(j) ==
    /\ call[j] = "idle"
    /\ boss \in {"idle", "stop", "exited"}
    /\ Cardinality(Submitting) < Callers
    /\ job' = [job EXCEPT ![j] = "QUEUED"]
    /\ call' = [call EXCEPT ![j] = IF current = NoQueue THEN "noQueue" ELSE "looked"]
    /\ via' = [via EXCEPT ![j] = current]
    /\ UNCHANGED <<order, queueVars, workerVars, bossVars, portVars, clearing, used>>

\* accept() fails the job a queue refused, submit() cancels it.
Refuse(j) ==
    /\ call' = [call EXCEPT ![j] = "refused"]
    /\ Fail(j) \/ Withdraw(j)

Pass(j, next) ==
    /\ call' = [call EXCEPT ![j] = next]
    /\ UNCHANGED job

CheckState(j) ==
    /\ call[j] = "looked"
    /\ IF state[via[j]] = "STOPPED" THEN Refuse(j) ELSE Pass(j, "running")
    /\ UNCHANGED <<via, order, queueVars, workerVars, bossVars, portVars, clearing, used>>

CheckPaused(j) ==
    /\ call[j] = "running"
    /\ IF paused[via[j]] THEN Refuse(j) ELSE Pass(j, "unpaused")
    /\ UNCHANGED <<via, order, queueVars, workerVars, bossVars, portVars, clearing, used>>

CheckPort(j) ==
    /\ call[j] = "unpaused"
    /\ IF open[portOf[via[j]]] THEN Pass(j, "reachable") ELSE Refuse(j)
    /\ UNCHANGED <<via, order, queueVars, workerVars, bossVars, portVars, clearing, used>>

Offer(j) ==
    LET q == via[j] IN
    /\ call[j] = "reachable"
    /\ IF Len(pending[q]) < Capacity
         THEN /\ pending' = [pending EXCEPT ![q] = Append(@, j)]
              /\ order' = Append(order, j)
              /\ Pass(j, "accepted")
         ELSE /\ Refuse(j)
              /\ UNCHANGED <<pending, order>>
    /\ UNCHANGED <<via, state, paused, slipped, workerVars, bossVars, portVars, clearing, used>>

\* LinkDispatcher.onCancel: the job stays where it is in the queue.
CancelRequested(j) ==
    /\ call[j] = "accepted"
    /\ Withdraw(j)
    /\ UNCHANGED <<call, via, order, queueVars, workerVars, bossVars, portVars, clearing, used>>

-----------------------------------------------------------------------------
(* Operator control, on the queue a console or link thread looked up *)

Pause(q) ==
    /\ state[q] # "NEW"
    /\ ~paused[q]
    /\ Use("pause", MaxPauses)
    /\ paused' = [paused EXCEPT ![q] = TRUE]
    /\ slipped' = [slipped EXCEPT ![q] = 0]
    /\ UNCHANGED <<jobVars, state, pending, workerVars, bossVars, portVars, clearing>>

Resume(q) ==
    /\ paused[q]
    /\ paused' = [paused EXCEPT ![q] = FALSE]
    /\ UNCHANGED <<jobVars, state, pending, slipped, workerVars, bossVars, portVars,
                   clearing, used>>

Clear(q) ==
    /\ pending[q] # <<>>
    /\ Use("clear", MaxClears)
    /\ clearing' = clearing \cup {j \in Jobs : InQueue(q, j)}
    /\ pending' = [pending EXCEPT ![q] = <<>>]
    /\ UNCHANGED <<jobVars, state, paused, slipped, workerVars, bossVars, portVars>>

CancelCleared(j) ==
    /\ j \in clearing
    /\ clearing' = clearing \ {j}
    /\ Withdraw(j)
    /\ UNCHANGED <<call, via, order, queueVars, workerVars, bossVars, portVars, used>>

-----------------------------------------------------------------------------
(* The worker: drain, awaitResume, print *)

\* The loop's check and awaitResume's wait: a paused worker stays here.
Gate(q) ==
    /\ worker[q] = "loop"
    /\ state[q] = "STOPPED" \/ ~paused[q]
    /\ worker' = [worker EXCEPT ![q] = IF state[q] = "STOPPED" THEN "gone" ELSE "poll"]
    /\ UNCHANGED <<jobVars, queueVars, hand, inFlight, interrupted, bossVars, portVars,
                   clearing, used>>

\* poll() throws when interrupted, even with work waiting.
Poll(q) ==
    /\ worker[q] = "poll"
    /\ \/ /\ interrupted[q]
          /\ worker' = [worker EXCEPT ![q] = "gone"]
          /\ UNCHANGED <<hand, pending>>
       \/ /\ ~interrupted[q]
          /\ pending[q] = <<>>
          /\ worker' = [worker EXCEPT ![q] = "loop"]
          /\ UNCHANGED <<hand, pending>>
       \/ /\ ~interrupted[q]
          /\ pending[q] # <<>>
          /\ worker' = [worker EXCEPT ![q] = "begin"]
          /\ hand' = [hand EXCEPT ![q] = Head(pending[q])]
          /\ pending' = [pending EXCEPT ![q] = Tail(@)]
    /\ UNCHANGED <<jobVars, state, paused, slipped, inFlight, interrupted, bossVars,
                   portVars, clearing, used>>

\* Mistake: a job cancelled while it waited is printed all the same.
BeginUnchecked(q) ==
    /\ worker[q] = "begin"
    /\ Begin(hand[q])
    /\ worker' = [worker EXCEPT ![q] = "mark"]
    /\ slipped' = [slipped EXCEPT ![q] = IF paused[q] THEN @ + 1 ELSE @]
    /\ UNCHANGED <<call, via, order, state, paused, pending, hand, inFlight, interrupted,
                   bossVars, portVars, clearing, used>>

\* Mistake: beginPrinting() throws for a cancelled job, out of drain()'s loop.
BeginOrThrow(q) ==
    /\ worker[q] = "begin"
    /\ IF job[hand[q]] = "QUEUED"
         THEN /\ Begin(hand[q])
              /\ worker' = [worker EXCEPT ![q] = "mark"]
              /\ slipped' = [slipped EXCEPT ![q] = IF paused[q] THEN @ + 1 ELSE @]
              /\ UNCHANGED hand
         ELSE /\ worker' = [worker EXCEPT ![q] = "gone"]
              /\ hand' = [hand EXCEPT ![q] = NoJob]
              /\ UNCHANGED <<job, slipped>>
    /\ UNCHANGED <<call, via, order, state, paused, pending, inFlight, interrupted, bossVars,
                   portVars, clearing, used>>

\* beginPrinting(): a job cancelled since it was queued is skipped.
BeginPrinting(q) ==
    /\ worker[q] = "begin"
    /\ IF job[hand[q]] = "QUEUED"
         THEN /\ Begin(hand[q])
              /\ worker' = [worker EXCEPT ![q] = "mark"]
              /\ slipped' = [slipped EXCEPT ![q] = IF paused[q] THEN @ + 1 ELSE @]
              /\ UNCHANGED hand
         ELSE /\ worker' = [worker EXCEPT ![q] = "loop"]
              /\ hand' = [hand EXCEPT ![q] = NoJob]
              /\ UNCHANGED <<job, slipped>>
    /\ UNCHANGED <<call, via, order, state, paused, pending, inFlight, interrupted, bossVars,
                   portVars, clearing, used>>

MarkInFlight(q) ==
    /\ worker[q] = "mark"
    /\ inFlight' = [inFlight EXCEPT ![q] = hand[q]]
    /\ worker' = [worker EXCEPT ![q] = "write"]
    /\ UNCHANGED <<jobVars, queueVars, hand, interrupted, bossVars, portVars, clearing, used>>

\* payload() of a job shutdown() already failed throws, which ends the worker.
PayloadGone(q) ==
    /\ worker[q] = "write"
    /\ job[hand[q]] \in Terminal
    /\ worker' = [worker EXCEPT ![q] = "gone"]
    /\ hand' = [hand EXCEPT ![q] = NoJob]
    /\ inFlight' = [inFlight EXCEPT ![q] = NoJob]
    /\ UNCHANGED <<jobVars, queueVars, interrupted, bossVars, portVars, clearing, used>>

\* port.write takes the port's lock, and throws at once on a closed port.
StartWrite(q) ==
    LET p == portOf[q] IN
    /\ worker[q] = "write"
    /\ job[hand[q]] \notin Terminal
    /\ writer[p] = NoQueue
    /\ IF open[p]
         THEN /\ writer' = [writer EXCEPT ![p] = q]
              /\ worker' = [worker EXCEPT ![q] = "writing"]
         ELSE /\ worker' = [worker EXCEPT ![q] = "broke"]
              /\ UNCHANGED writer
    /\ UNCHANGED <<jobVars, queueVars, hand, inFlight, interrupted, bossVars, open, touched,
                   paper, clearing, used>>

\* All bytes taken, some of them before a timeout, or the device lost.
EndWrite(q) ==
    LET p == portOf[q] IN
    /\ worker[q] = "writing"
    /\ writer' = [writer EXCEPT ![p] = NoQueue]
    /\ touched' = touched \cup {hand[q]}
    /\ \/ /\ worker' = [worker EXCEPT ![q] = "wrote"]
          /\ paper' = Append(paper, hand[q])
          /\ UNCHANGED <<open, used>>
       \/ /\ worker' = [worker EXCEPT ![q] = "broke"]
          /\ Use("fault", MaxFaults)
          /\ open' \in {open, [open EXCEPT ![p] = FALSE]}
          /\ UNCHANGED paper
    /\ UNCHANGED <<jobVars, queueVars, hand, inFlight, interrupted, bossVars, clearing>>

\* Mistake: complete() stands in the finally, after fail() too.
RecordCompleted(q) ==
    /\ worker[q] \in {"wrote", "broke"}
    /\ Complete(hand[q])
    /\ worker' = [worker EXCEPT ![q] = "release"]
    /\ UNCHANGED <<call, via, order, queueVars, hand, inFlight, interrupted, bossVars,
                   portVars, clearing, used>>

\* complete() after a normal return, fail() after an exception.
Record(q) ==
    /\ worker[q] \in {"wrote", "broke"}
    /\ IF worker[q] = "wrote" THEN Complete(hand[q]) ELSE Fail(hand[q])
    /\ worker' = [worker EXCEPT ![q] = "release"]
    /\ UNCHANGED <<call, via, order, queueVars, hand, inFlight, interrupted, bossVars,
                   portVars, clearing, used>>

ReleaseJob(q) ==
    /\ worker[q] = "release"
    /\ worker' = [worker EXCEPT ![q] = "loop"]
    /\ hand' = [hand EXCEPT ![q] = NoJob]
    /\ inFlight' = [inFlight EXCEPT ![q] = NoJob]
    /\ UNCHANGED <<jobVars, queueVars, interrupted, bossVars, portVars, clearing, used>>

-----------------------------------------------------------------------------
(* The port, as SerialHandler shows it to a queue *)

Disconnect(p) ==
    /\ open[p]
    /\ writer[p] = NoQueue
    /\ Use("fault", MaxFaults)
    /\ open' = [open EXCEPT ![p] = FALSE]
    /\ UNCHANGED <<jobVars, queueVars, workerVars, bossVars, writer, touched, paper, clearing>>

Connect(p) ==
    /\ current # NoQueue
    /\ p = portOf[current]
    /\ boss = "idle"
    /\ ~open[p]
    /\ open' = [open EXCEPT ![p] = TRUE]
    /\ UNCHANGED <<jobVars, queueVars, workerVars, bossVars, writer, touched, paper,
                   clearing, used>>

-----------------------------------------------------------------------------
(* Teardown and replacement: applyConfig, applyDevices, shutdown *)

Fresh    == {q \in Queues : state[q] = "NEW"}
NextOne  == CHOOSE q \in Fresh : TRUE

\* DeviceConnectionManager.applyDevices goes first. A port it closes, it closes
\* under the port's lock, so a write under way is waited for.
ClosePort(p) ==
    /\ writer[p] = NoQueue
    /\ open' = [open EXCEPT ![p] = FALSE]

\* The depth limit changed: a new queue on the port the old one feeds.
ChangeCapacity ==
    /\ boss = "idle" /\ current # NoQueue /\ Fresh # {}
    /\ boss' = "stop"
    /\ after' = "build"
    /\ portOf' = [portOf EXCEPT ![NextOne] = portOf[current]]
    /\ UNCHANGED <<jobVars, queueVars, workerVars, current, draining, suspect, portVars,
                   clearing, used>>

\* The serial settings changed: a new queue on a port of its own.
ChangePort ==
    /\ boss = "idle" /\ current # NoQueue /\ Fresh # {}
    /\ writer[portOf[current]] = NoQueue
    /\ boss' = "stop"
    /\ after' = "build"
    /\ portOf' = [portOf EXCEPT ![NextOne] = NextOne]
    /\ \E answers \in BOOLEAN :
         open' = [open EXCEPT ![portOf[current]] = FALSE, ![NextOne] = answers]
    /\ UNCHANGED <<jobVars, queueVars, workerVars, current, draining, suspect, writer, touched,
                   paper, clearing, used>>

RemoveDevice ==
    /\ boss = "idle" /\ current # NoQueue
    /\ ClosePort(portOf[current])
    /\ boss' = "stop"
    /\ after' = "none"
    /\ UNCHANGED <<jobVars, queueVars, workerVars, current, draining, suspect, portOf, writer,
                   touched, paper, clearing, used>>

AddDevice ==
    /\ boss = "idle" /\ current = NoQueue /\ Fresh # {}
    /\ boss' = "build"
    /\ after' = "build"
    /\ portOf' = [portOf EXCEPT ![NextOne] = NextOne]
    /\ open' = [open EXCEPT ![NextOne] = TRUE]
    /\ UNCHANGED <<jobVars, queueVars, workerVars, current, draining, suspect, writer, touched,
                   paper, clearing, used>>

\* FenPOSAgent.shutdown stops the queues while their ports are still open.
ExitAgent ==
    /\ boss = "idle" /\ current # NoQueue
    /\ boss' = "stop"
    /\ after' = "exit"
    /\ UNCHANGED <<jobVars, queueVars, workerVars, current, draining, suspect, portOf, portVars,
                   clearing, used>>

Stop ==
    /\ boss = "stop"
    /\ state' = [state EXCEPT ![current] = "STOPPED"]
    /\ boss' = "resume"
    /\ UNCHANGED <<jobVars, paused, pending, slipped, workerVars, current, after, draining,
                   suspect, portOf, portVars, clearing, used>>

ResumeStopped ==
    /\ boss = "resume"
    /\ paused' = [paused EXCEPT ![current] = FALSE]
    /\ boss' = "drain"
    /\ UNCHANGED <<jobVars, state, pending, slipped, workerVars, current, after, draining,
                   suspect, portOf, portVars, clearing, used>>

Drain ==
    /\ boss = "drain"
    /\ draining' = {j \in Jobs : InQueue(current, j)}
    /\ pending' = [pending EXCEPT ![current] = <<>>]
    /\ boss' = "withdraw"
    /\ UNCHANGED <<jobVars, state, paused, slipped, workerVars, current, after, suspect, portOf,
                   portVars, clearing, used>>

\* Mistake: what was drained is dropped, not cancelled.
DropDrained(j) ==
    /\ boss = "withdraw"
    /\ j \in draining
    /\ draining' = draining \ {j}
    /\ UNCHANGED <<jobVars, queueVars, workerVars, current, boss, after, suspect, portOf,
                   portVars, clearing, used>>

\* Mistake: cancel() is retried until it succeeds.
InsistOnCancelling(j) ==
    /\ boss = "withdraw"
    /\ j \in draining
    /\ job[j] = "QUEUED"
    /\ Withdraw(j)
    /\ draining' = draining \ {j}
    /\ UNCHANGED <<call, via, order, queueVars, workerVars, current, boss, after, suspect,
                   portOf, portVars, clearing, used>>

CancelDrained(j) ==
    /\ boss = "withdraw"
    /\ j \in draining
    /\ Withdraw(j)
    /\ draining' = draining \ {j}
    /\ UNCHANGED <<call, via, order, queueVars, workerVars, current, boss, after, suspect,
                   portOf, portVars, clearing, used>>

\* join(grace): the worker ended, or the grace ran out and it is interrupted.
Join ==
    /\ boss = "withdraw"
    /\ draining = {}
    /\ boss' = "read"
    /\ \/ /\ worker[current] = "gone"
          /\ UNCHANGED interrupted
       \/ /\ worker[current] # "gone"
          /\ interrupted' = [interrupted EXCEPT ![current] = TRUE]
    /\ UNCHANGED <<jobVars, queueVars, worker, hand, inFlight, current, after, draining,
                   suspect, portOf, portVars, clearing, used>>

\* inFlight is read, its state is asked, and only then is it failed.
ReadInFlight ==
    LET j == inFlight[current] IN
    /\ boss = "read"
    /\ IF j # NoJob /\ job[j] \notin Terminal
         THEN suspect' = j /\ boss' = "fail"
         ELSE UNCHANGED suspect /\ boss' = "build"
    /\ UNCHANGED <<jobVars, queueVars, workerVars, current, after, draining, portOf, portVars,
                   clearing, used>>

FailInFlight ==
    /\ boss = "fail"
    /\ Fail(suspect)
    /\ suspect' = NoJob
    /\ boss' = "build"
    /\ UNCHANGED <<call, via, order, queueVars, workerVars, current, after, draining, portOf,
                   portVars, clearing, used>>

\* build() and applyPause, or nothing to put in the old queue's place. An agent
\* that is exiting keeps the stopped queue and applies no more configurations.
Build ==
    /\ boss = "build"
    /\ boss' = IF after = "exit" THEN "exited" ELSE "idle"
    /\ after' = "none"
    /\ IF after = "build"
         THEN /\ current' = NextOne
              /\ state' = [state EXCEPT ![NextOne] = "RUNNING"]
              /\ worker' = [worker EXCEPT ![NextOne] = "loop"]
              /\ \E p \in BOOLEAN : paused' = [paused EXCEPT ![NextOne] = p]
         ELSE /\ current' = IF after = "exit" THEN current ELSE NoQueue
              /\ UNCHANGED <<state, worker, paused>>
    /\ UNCHANGED <<jobVars, pending, slipped, hand, inFlight, interrupted, draining, suspect,
                   portOf, portVars, clearing, used>>

-----------------------------------------------------------------------------
Submit(j) == Look(j) \/ CheckState(j) \/ CheckPaused(j) \/ CheckPort(j) \/ Offer(j)

Worker(q) == \/ Gate(q) \/ Poll(q) \/ BeginPrinting(q) \/ MarkInFlight(q) \/ PayloadGone(q)
             \/ StartWrite(q) \/ EndWrite(q) \/ Record(q) \/ ReleaseJob(q)

Teardown == \/ Stop \/ ResumeStopped \/ Drain \/ (\E j \in Jobs : CancelDrained(j))
            \/ Join \/ ReadInFlight \/ FailInFlight \/ Build

Reconcile == ChangeCapacity \/ ChangePort \/ RemoveDevice \/ AddDevice \/ ExitAgent

Next == \/ \E j \in Jobs : Submit(j) \/ CancelRequested(j) \/ CancelCleared(j)
        \/ \E q \in Queues : Pause(q) \/ Resume(q) \/ Clear(q) \/ Worker(q)
        \/ \E p \in Ports : Disconnect(p) \/ Connect(p)
        \/ Reconcile
        \/ Teardown

Spec == Init /\ [][Next]_vars

\* Every thread that has something to do gets to do it: the worker's waits are
\* bounded by the poll interval and the port's write timeout, a caller and the
\* teardown wait for nothing longer than the monitor and the grace.
Fairness == /\ \A j \in Jobs : WF_vars(Submit(j)) /\ WF_vars(CancelCleared(j))
            /\ \A q \in Queues : WF_vars(Worker(q))
            /\ WF_vars(Teardown)

FairSpec == Spec /\ Fairness

-----------------------------------------------------------------------------
(* Properties *)

Members(s) == {s[i] : i \in DOMAIN s}

\* The type invariant: each variable holds a value the code can give it.
TypeOK ==
    /\ job \in [Jobs -> JobState]
    /\ call \in [Jobs -> CallPc]
    /\ via \in [Jobs -> Queues \cup {NoQueue}]
    /\ order \in Seq(Jobs)
    /\ current \in Queues \cup {NoQueue}
    /\ state \in [Queues -> {"NEW", "RUNNING", "STOPPED"}]
    /\ paused \in [Queues -> BOOLEAN]
    /\ pending \in [Queues -> Seq(Jobs)]
    /\ slipped \in [Queues -> Nat]
    /\ worker \in [Queues -> WorkerPc]
    /\ hand \in [Queues -> Jobs \cup {NoJob}]
    /\ inFlight \in [Queues -> Jobs \cup {NoJob}]
    /\ interrupted \in [Queues -> BOOLEAN]
    /\ clearing \in SUBSET Jobs
    /\ boss \in BossPc
    /\ after \in {"none", "build", "exit"}
    /\ draining \in SUBSET Jobs
    /\ suspect \in Jobs \cup {NoJob}
    /\ portOf \in [Queues -> Ports]
    /\ open \in [Ports -> BOOLEAN]
    /\ writer \in [Ports -> Queues \cup {NoQueue}]
    /\ touched \in SUBSET Jobs
    /\ paper \in Seq(Jobs)
    /\ used \in [Tally -> Nat]

\* Cancelling and starting to print cannot both win (PrintJob.java:27), whoever
\* cancels: not one byte of a cancelled job has gone to the printer.
CancelledIsBlank == \A j \in Jobs : job[j] = "CANCELLED" => j \notin touched

\* A job reads COMPLETED only if all its bytes were written, once: no drain,
\* replacement or retry leaves a job where two workers find it.
PrintedOnce ==
    /\ \A i, k \in DOMAIN paper : paper[i] = paper[k] => i = k
    /\ \A j \in Jobs : job[j] = "COMPLETED" => j \in Members(paper)

Before(s, a, b) == \E i, k \in DOMAIN s : i < k /\ s[i] = a /\ s[k] = b

\* Jobs reach the paper once, in the order their queue accepted them
\* (PrintQueue.java:22), however many callers and failures there are.
PrintedInOrder ==
    /\ PrintedOnce
    /\ \A a, b \in Members(paper) :
          via[a] = via[b] /\ Before(order, a, b) => Before(paper, a, b)

\* A pause stops feeding the printer: the worker, which may be past the gate
\* when the pause comes, begins at most one more job before the resume.
PauseLetsOneThrough == \A q \in Queues : paused[q] => slipped[q] <= 1

\* Whatever one job does, a running queue keeps the worker that drains it
\* ("one unprintable job must not take the device out of service").
StaysInService == \A q \in Queues : state[q] = "RUNNING" => worker[q] # "gone"

\* A queue goes on printing whatever its jobs do, and stops when it is told to.
ServesAsTold == StaysInService /\ PauseLetsOneThrough

\* Outside a teardown, a job's outcome is final: complete() and fail() check
\* nothing, so this rests on nobody else ending the job a worker has in hand.
OutcomeIsFinal ==
    [][\A j \in Jobs : job[j] \in Terminal /\ job'[j] # job[j]
                       => via[j] # NoQueue /\ state[via[j]] = "STOPPED"]_vars

\* A job the queue took is settled, unless an operator holds the queue paused or
\* the offer came after the teardown had drained it.
Drained(q)     == state[q] = "STOPPED" /\ ~(q = current /\ boss \in {"resume", "drain"})
Stranded(j, q) == Drained(q) /\ InQueue(q, j)

AcceptedIsSettled ==
    \A j \in Jobs, q \in Queues :
        call[j] = "accepted" /\ via[j] = q
            ~> job[j] \in Terminal \/ paused[q] \/ Stranded(j, q)

\* A teardown ends, and releases the monitor every lookup waits for.
TeardownEnds == boss = "stop" ~> boss \in {"idle", "exited"}
=============================================================================
