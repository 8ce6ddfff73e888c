--------------------------- MODULE IdempotentSubmit ---------------------------
(***************************************************************************)
(* Submits that carry one Idempotency-Key: lib/jobs/idempotency.ts, the      *)
(* handler of app/api/v1/print, and the parts of dispatch.ts and settle.ts  *)
(* that keep or clear the key on the job's row.  The printer and the body    *)
(* together are a receipt; a submit makes at most one row, named after it.   *)
(* What the agent does with a job that was sent is JobLink's.               *)
(***************************************************************************)
EXTENDS Naturals, FiniteSets

CONSTANTS
    Submits,    \* requests carrying the key, each answered at most once
    Receipts,   \* what they ask to print
    MaxRestarts

VARIABLES
    submit,     \* of each request, how far it is, its receipt, its answer
    row,        \* the job each made: its status, and whether it still has the key
    sent,       \* jobs whose frame was taken by the socket
    released,   \* history: jobs settleUnfinishedJobs wrote off
    restarts

submitVars == <<submit, row, sent, released, restarts>>

NotSubmitted == [at |-> "none"]
NoRow        == [status |-> "none", keyed |-> FALSE]

SubmitInit ==
    /\ submit = [s \in Submits |-> NotSubmitted] /\ row = [s \in Submits |-> NoRow]
    /\ sent = {} /\ released = {} /\ restarts = 0

Keyed == {s \in Submits : row[s].keyed}

GoesTo(s, at)      == submit' = [submit EXCEPT ![s].at = at]
Answered(s, ans) == submit' = [submit EXCEPT ![s].at = "over", ![s].answer = ans]
Refused(s)       == Answered(s, {})
RowsKept         == UNCHANGED <<row, sent, released, restarts>>

SubmitKeyed(s, r) ==
    /\ submit[s] = NotSubmitted
    /\ submit' = [submit EXCEPT ![s] = [at |-> "look", receipt |-> r, answer |-> {}]]
    /\ RowsKept

\* findReplay: another receipt under the key is a conflict.
Replay(s) ==
    \E j \in Keyed : IF submit[j].receipt = submit[s].receipt THEN Answered(s, {j}) ELSE Refused(s)

FindReplay(s) ==
    /\ submit[s].at = "look" /\ RowsKept
    /\ IF Keyed # {} THEN Replay(s) ELSE GoesTo(s, "create")

\* Anything that refuses a submit before its row exists.
RefuseEarly(s) == submit[s].at = "create" /\ Refused(s) /\ RowsKept

\* The mutant: the key is looked for and never held unique.
MistakeInserts(s) ==
    /\ submit[s].at = "create" /\ GoesTo(s, "compile")
    /\ row' = [row EXCEPT ![s] = [status |-> "QUEUED", keyed |-> TRUE]]
    /\ UNCHANGED <<sent, released, restarts>>

\* The insert; @@unique([apiKeyId, idempotencyKey]) refuses a second row.
Insert(s) ==
    /\ submit[s].at = "create"
    /\ IF Keyed # {} THEN GoesTo(s, "again") /\ RowsKept
       ELSE /\ row' = [row EXCEPT ![s] = [status |-> "QUEUED", keyed |-> TRUE]]
            /\ GoesTo(s, "compile") /\ UNCHANGED <<sent, released, restarts>>

\* The loser of the race looks once more, and answers 500 when the key is gone.
FindReplayAgain(s) ==
    /\ submit[s].at = "again" /\ RowsKept
    /\ IF Keyed # {} THEN Replay(s) ELSE Refused(s)

Compile(s) == submit[s].at = "compile" /\ GoesTo(s, "send") /\ RowsKept

Send(s) ==
    /\ submit[s].at = "send" /\ Answered(s, {s}) /\ sent' = sent \cup {s}
    /\ UNCHANGED <<row, released, restarts>>

\* failJob: the row keeps its key only if the write of it fails.
Fail(s) ==
    /\ submit[s].at \in {"compile", "send"} /\ Refused(s)
    /\ \/ row' = [row EXCEPT ![s] = [status |-> "FAILED", keyed |-> FALSE]]
       \/ UNCHANGED row
    /\ UNCHANGED <<sent, released, restarts>>

\* settleUnfinishedJobs: an unpair, or a hello that does not know the job.
SettleUnfinished(j) ==
    /\ row[j].status = "QUEUED"
    /\ row' = [row EXCEPT ![j] = [status |-> "FAILED", keyed |-> FALSE]]
    /\ released' = released \cup {j}
    /\ UNCHANGED <<submit, sent, restarts>>

\* The agent's last word on a job leaves its key where it is.
Report(j) ==
    /\ row[j].status = "QUEUED" /\ j \in sent
    /\ \E st \in {"COMPLETED", "FAILED"} : row' = [row EXCEPT ![j].status = st]
    /\ UNCHANGED <<submit, sent, released, restarts>>

\* Requests die with the server; their callers may ask again.
Restart ==
    /\ restarts < MaxRestarts /\ restarts' = restarts + 1
    /\ submit' = [s \in Submits |->
          IF submit[s].at = "none" THEN submit[s] ELSE [submit[s] EXCEPT !.at = "over"]]
    /\ UNCHANGED <<row, sent, released>>

SubmitNext ==
    \/ \E s \in Submits :
          \/ \E r \in Receipts : SubmitKeyed(s, r)
          \/ FindReplay(s) \/ RefuseEarly(s) \/ Insert(s) \/ FindReplayAgain(s) \/ Compile(s) \/ Send(s)
          \/ Fail(s) \/ SettleUnfinished(s) \/ Report(s)
    \/ Restart

SubmitSpec == SubmitInit /\ [][SubmitNext]_submitVars

(***************************************************************************)
(* Properties                                                               *)
(***************************************************************************)

\* One key prints one receipt however its submits race, fail or are repeated
\* after a restart: a second job is sent only once the server has written the
\* first off; and who is told that a job was accepted is told of the receipt it
\* asked for ("a key recorded in a second statement could be lost to a crash
\* between the two", dispatch.ts:169).
OneReceiptPerKey ==
    /\ Cardinality(sent \ released) <= 1
    /\ \A s \in Submits : submit[s] # NotSubmitted =>
          \A j \in submit[s].answer : submit[j].receipt = submit[s].receipt /\ row[j] # NoRow
=============================================================================
