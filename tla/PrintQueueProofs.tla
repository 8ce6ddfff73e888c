-------------------------- MODULE PrintQueueProofs --------------------------
(***************************************************************************)
(* Proofs about PrintQueue: a cancelled job is blank, jobs reach the paper  *)
(* once and in the order they were accepted, a running queue keeps its      *)
(* worker, and outcomes are final.  All of it rests on one invariant about  *)
(* where a job is: with its caller, in the one queue that took it, in that  *)
(* queue's worker's hand, or past it.                                      *)
(*                                                                         *)
(* Then about EscPos: a line prints as written, whatever its length, which   *)
(* rests on what the renderer takes for the style in effect being in effect.  *)
(*                                                                         *)
(* Last about DrawnChart: a chart reads true whatever is written in it, which *)
(* is arithmetic of quotients: of the marks, the scale, the shares of the     *)
(* bars and the room of the names.                                         *)
(***************************************************************************)
EXTENDS PrintQueue, EscPos, DrawnChart, SequenceFacts

(* What stands before what in a sequence. *)

\* Appending puts the new element after the others and nothing else anew.
LEMMA BeforeAppend ==
    ASSUME NEW S, NEW s \in Seq(S), NEW x \in S
    PROVE  /\ \A a, b : Before(s, a, b) => Before(Append(s, x), a, b)
           /\ \A a \in Elems(s) : Before(Append(s, x), a, x)
           /\ \A a, b : Before(Append(s, x), a, b) => Before(s, a, b) \/ b = x
<1>1. /\ DOMAIN s = 1 .. Len(s) /\ Len(s) \in Nat
      /\ DOMAIN Append(s, x) = 1 .. (Len(s) + 1)
      /\ \A i \in 1 .. Len(s) : Append(s, x)[i] = s[i]
      /\ Append(s, x)[Len(s) + 1] = x
  BY AppendProperties, LenProperties
<1>2. \A a, b : Before(s, a, b) => Before(Append(s, x), a, b)
  BY <1>1 DEF Before
<1>3. \A a \in Elems(s) : Before(Append(s, x), a, x)
  BY <1>1 DEF Before, Elems
<1>4. ASSUME NEW a, NEW b, Before(Append(s, x), a, b), b # x
      PROVE  Before(s, a, b)
  <2>1. PICK i, k \in 1 .. (Len(s) + 1) : i < k /\ Append(s, x)[i] = a /\ Append(s, x)[k] = b
    BY <1>1, <1>4 DEF Before
  <2>2. k # Len(s) + 1
    BY <1>1, <1>4, <2>1
  <2>3. i \in 1 .. Len(s) /\ k \in 1 .. Len(s)
    BY <1>1, <2>1, <2>2
  <2> QED
    BY <1>1, <2>1, <2>3 DEF Before
<1> QED
  BY <1>2, <1>3, <1>4

\* In a sequence without repetition, what comes before does not come after.
LEMMA BeforeOnce ==
    ASSUME NEW S, NEW s \in Seq(S), NoRepeat(s)
    PROVE  \A a, b : Before(s, a, b) => ~Before(s, b, a) /\ a # b /\ a \in Elems(s) /\ b \in Elems(s)
<1>1. DOMAIN s = 1 .. Len(s) /\ Len(s) \in Nat
  BY LenProperties
<1> SUFFICES ASSUME NEW a, NEW b, Before(s, a, b)
             PROVE  ~Before(s, b, a) /\ a # b /\ a \in Elems(s) /\ b \in Elems(s)
  OBVIOUS
<1>2. PICK i, k \in DOMAIN s : i < k /\ s[i] = a /\ s[k] = b
  BY DEF Before
<1>3. ASSUME Before(s, b, a) PROVE FALSE
  <2>1. PICK m, n \in DOMAIN s : m < n /\ s[m] = b /\ s[n] = a
    BY <1>3 DEF Before
  <2>2. m = k /\ n = i
    BY <1>2, <2>1 DEF NoRepeat
  <2> QED
    BY <1>1, <1>2, <2>1, <2>2
<1>4. a # b
  BY <1>1, <1>2 DEF NoRepeat
<1> QED
  BY <1>2, <1>3, <1>4 DEF Elems

\* The elements of s come in the order they have in o.
InOrder(s, o) == \A i, k \in DOMAIN s : i < k => Before(o, s[i], s[k])

\* What is appended to both stays in order.
LEMMA AppendInOrder ==
    ASSUME NEW S, NEW s \in Seq(S), NEW o \in Seq(S), NEW x \in S, InOrder(s, o),
           Elems(s) \subseteq Elems(o)
    PROVE  InOrder(Append(s, x), Append(o, x))
<1>1. /\ DOMAIN s = 1 .. Len(s) /\ Len(s) \in Nat
      /\ DOMAIN Append(s, x) = 1 .. (Len(s) + 1)
      /\ \A i \in 1 .. Len(s) : Append(s, x)[i] = s[i]
      /\ Append(s, x)[Len(s) + 1] = x
  BY AppendProperties, LenProperties
<1> SUFFICES ASSUME NEW i \in 1 .. (Len(s) + 1), NEW k \in 1 .. (Len(s) + 1), i < k
             PROVE  Before(Append(o, x), Append(s, x)[i], Append(s, x)[k])
  BY <1>1 DEF InOrder
<1>2. i \in 1 .. Len(s) /\ s[i] \in Elems(o)
  <2>1. i \in 1 .. Len(s)
    BY <1>1
  <2>2. s[i] \in Elems(s)
    BY <1>1, <2>1 DEF Elems
  <2> QED
    BY <2>1, <2>2
<1>3. CASE k \in 1 .. Len(s)
  BY <1>1, <1>2, <1>3, BeforeAppend DEF InOrder
<1>4. CASE k = Len(s) + 1
  BY <1>1, <1>2, <1>4, BeforeAppend
<1> QED
  BY <1>1, <1>3, <1>4

\* What is left when the head is taken is in order, and after the head.
LEMMA TailInOrder ==
    ASSUME NEW S, NEW s \in Seq(S), NEW o, s # <<>>, InOrder(s, o)
    PROVE  InOrder(Tail(s), o) /\ \A x \in Elems(Tail(s)) : Before(o, Head(s), x)
<1>1. /\ Head(s) = s[1]
      /\ Len(s) \in Nat \ {0} /\ DOMAIN s = 1 .. Len(s)
      /\ DOMAIN Tail(s) = 1 .. (Len(s) - 1)
      /\ \A i \in 1 .. (Len(s) - 1) : Tail(s)[i] = s[i + 1]
  BY HeadTailProperties, LenProperties
<1>2. \A i \in 1 .. (Len(s) - 1) : i + 1 \in 1 .. Len(s) /\ 1 < i + 1
  BY <1>1
<1>3. InOrder(Tail(s), o)
  BY <1>1, <1>2 DEF InOrder
<1>4. \A x \in Elems(Tail(s)) : Before(o, Head(s), x)
  BY <1>1, <1>2 DEF InOrder, Elems
<1> QED
  BY <1>3, <1>4

\* Nothing is in order.
LEMMA EmptyInOrder == \A o : InOrder(<<>>, o)
BY DEF InOrder

\* A queue has what its sequence holds.
LEMMA PendingIs == \A q \in Queues : \A j : InQueue(q, j) <=> j \in Elems(pending[q])
BY DEF InQueue, Elems
-----------------------------------------------------------------------------
(* The inductive invariant. *)

Asking  == {"looked", "running", "unpaused", "reachable"}
Begun   == {"PRINTING", "COMPLETED", "FAILED"}
Holding == {"begin", "mark", "write", "writing", "wrote", "broke", "release"}
Tearing == {"stop", "resume", "drain", "withdraw", "join", "read", "fail"}

\* A job its queue has taken.
Taken(q, j) == call[j] = "accepted" /\ via[j] = q

\* A job nobody submitted is none, one that is asked about is queued and nothing
\* else, and what is written or complete was begun, or is on paper.
CallFits(j) ==
    /\ call[j] = "idle" => job[j] = "none"
    /\ call[j] \in Asking => job[j] = "QUEUED"
    /\ call[j] \in Asking \cup {"accepted"} => via[j] \in Queues
    /\ j \in Elems(order) <=> call[j] = "accepted"
    /\ j \in touched => job[j] \in Begun
    /\ job[j] = "COMPLETED" => j \in Elems(paper)

Calls == NoRepeat(order) /\ \A j \in Jobs : CallFits(j)

\* What a worker holds or has in flight was taken by its queue and, past the check,
\* begun; a queue that was not stopped has nobody else end it.
HandFits(q) ==
    /\ worker[q] \in Holding => hand[q] \in Jobs /\ Taken(q, hand[q])
    /\ worker[q] \in Holding \ {"begin"} => job[hand[q]] \in Begun
    /\ worker[q] \in Holding \ {"begin", "release"} /\ state[q] # "STOPPED" =>
          job[hand[q]] = "PRINTING"
    /\ worker[q] = "wrote" => hand[q] \in Elems(paper)
    /\ inFlight[q] # NoJob => Taken(q, inFlight[q]) /\ job[inFlight[q]] \in Begun

Hands == \A q \in Queues : HandFits(q)

\* What waits was taken by this queue, in the order it accepted, and after all that
\* is in hand or on paper.
PendingFits(q) ==
    /\ \A j \in Elems(pending[q]) : Taken(q, j)
    /\ InOrder(pending[q], order)
    /\ worker[q] \in Holding => \A j \in Elems(pending[q]) : Before(order, hand[q], j)
    /\ \A a \in Elems(paper) : via[a] = q =>
          /\ \A j \in Elems(pending[q]) : Before(order, a, j)
          /\ worker[q] \in {"begin", "mark", "write", "writing"} => Before(order, a, hand[q])

AllInLine == \A q \in Queues : PendingFits(q)

\* The paper holds what was accepted, once, in each queue's order.
PaperFits ==
    /\ NoRepeat(paper) /\ \A a \in Elems(paper) : call[a] = "accepted"
    /\ \A a, b \in Elems(paper) : via[a] = via[b] /\ Before(order, a, b) => Before(paper, a, b)

\* A teardown has a queue to tear down, which is stopped from then on, and what it
\* or a clear is about to end was taken.
BossFits ==
    /\ current # NoQueue => state[current] # "NEW"
    /\ boss \in Tearing => current # NoQueue
    /\ boss \in Tearing \ {"stop"} => state[current] = "STOPPED"
    /\ boss \notin {"idle", "exited"} /\ after = "build" => Fresh # {}
    /\ boss = "fail" => suspect \in Jobs /\ Taken(current, suspect) /\ job[suspect] \in Begun
    /\ \A j \in draining \cup clearing : call[j] = "accepted"

\* Only a stopped queue loses its worker, and one that is paused began at most one
\* job, after which its worker waits.
QueueFits(q) ==
    /\ state[q] = "NEW" => slipped[q] = 0 /\ worker[q] = "absent"
    /\ interrupted[q] \/ worker[q] = "gone" => state[q] = "STOPPED"
    /\ paused[q] => slipped[q] = 0 \/ (slipped[q] = 1 /\ worker[q] \notin {"poll", "begin"})

Service == \A q \in Queues : QueueFits(q)

QueueInv == TypeOK /\ Calls /\ Hands /\ AllInLine /\ PaperFits /\ BossFits /\ Service

\* Each part is about the variables named here and no others.
LEMMA Unmoved ==
    /\ Calls /\ UNCHANGED <<job, call, via, order, touched, paper>> => Calls'
    /\ Hands /\ UNCHANGED <<job, call, via, state, worker, hand, inFlight, paper>> => Hands'
    /\ AllInLine /\ UNCHANGED <<call, via, order, pending, worker, hand, paper>> => AllInLine'
    /\ PaperFits /\ UNCHANGED <<call, via, order, paper>> => PaperFits'
    /\ BossFits /\ UNCHANGED <<job, call, via, current, state, boss, after, suspect, draining, clearing>>
          => BossFits'
    /\ Service /\ UNCHANGED <<state, slipped, worker, interrupted, paused>> => Service'
<1>1. Calls /\ UNCHANGED <<job, call, via, order, touched, paper>> => Calls'
  BY DEF Calls, CallFits
<1>2. Hands /\ UNCHANGED <<job, call, via, state, worker, hand, inFlight, paper>> => Hands'
  BY DEF Hands, HandFits, Taken
<1>3. AllInLine /\ UNCHANGED <<call, via, order, pending, worker, hand, paper>> => AllInLine'
  BY DEF AllInLine, PendingFits, Taken
<1>4. PaperFits /\ UNCHANGED <<call, via, order, paper>> => PaperFits'
  BY DEF PaperFits
<1>5. BossFits /\ UNCHANGED <<job, call, via, current, state, boss, after, suspect, draining, clearing>>
          => BossFits'
  BY DEF BossFits, Taken, Fresh
<1>6. Service /\ UNCHANGED <<state, slipped, worker, interrupted, paused>> => Service'
  BY DEF Service, QueueFits
<1> QED
  BY <1>1, <1>2, <1>3, <1>4, <1>5, <1>6

\* A device whose queue was just built satisfies the invariant.
LEMMA QueueInitInv == Init => QueueInv
<1> SUFFICES ASSUME Init PROVE QueueInv
  OBVIOUS
<1> USE DEF Init
<1>1. TypeOK
  BY QueuesAssumption DEF TypeOK, JobState, CallPc, Queues, NoQueue, WorkerPc, BossPc, Ports, Tally
<1>2. Calls
  BY ElemsOfEmpty DEF Calls, CallFits, Asking, Begun
<1>3. Hands
  BY DEF Hands, HandFits, Holding
<1>4. AllInLine
  BY ElemsOfEmpty, EmptyInOrder DEF AllInLine, PendingFits, Holding
<1>5. PaperFits
  BY ElemsOfEmpty DEF PaperFits
<1>6. BossFits
  BY QueuesAssumption DEF BossFits, Tearing, NoQueue, Queues
<1>7. Service
  BY DEF Service, QueueFits
<1> QED
  BY <1>1, <1>2, <1>3, <1>4, <1>5, <1>6, <1>7 DEF QueueInv




\* A step that leaves alone the jobs that were taken leaves the queues in order.
LEMMA OthersStay ==
    ASSUME TypeOK, Hands, AllInLine, PaperFits,
           UNCHANGED <<order, pending, worker, hand, inFlight, paper, state>>,
           \A x \in Jobs : call[x] = "accepted" =>
              call'[x] = "accepted" /\ via'[x] = via[x] /\ job'[x] = job[x]
    PROVE  Hands' /\ AllInLine' /\ PaperFits'
<1>1. /\ \A q \in Queues : Elems(pending[q]) \subseteq Jobs
      /\ Elems(paper) \subseteq Jobs /\ \A q \in Queues : inFlight[q] # NoJob => inFlight[q] \in Jobs
  BY ElemsAreOf DEF TypeOK
<1>2. \A q \in Queues, x \in Jobs : Taken(q, x) => Taken(q, x)' /\ job'[x] = job[x]
  BY DEF Taken
<1>3. Hands'
  BY <1>1, <1>2 DEF Hands, HandFits
<1>4. PaperFits'
  BY <1>1 DEF PaperFits
<1>5. \A a \in Elems(paper) : via'[a] = via[a]
  BY <1>1 DEF PaperFits
<1>6. AllInLine'
  BY <1>1, <1>2, <1>5 DEF AllInLine, PendingFits
<1> QED
  BY <1>3, <1>4, <1>6

\* A job that was taken moves on: once begun it stays so, and is complete only on
\* paper.
LEMMA OneMovesOn ==
    ASSUME TypeOK, Calls, NEW j \in Jobs, call[j] = "accepted", NEW s, job' = [job EXCEPT ![j] = s],
           UNCHANGED <<call, via, order, touched, paper>>,
           job[j] \in Begun => s \in Begun,
           s = "COMPLETED" => j \in Elems(paper)
    PROVE  Calls'
<1>1. job'[j] = s /\ \A x \in Jobs \ {j} : job'[x] = job[x]
  BY DEF TypeOK
<1>2. CallFits(j)'
  BY <1>1 DEF Calls, CallFits, Asking
<1>3. ASSUME NEW x \in Jobs \ {j}
      PROVE  CallFits(x)'
  BY <1>1 DEF Calls, CallFits
<1> QED
  BY <1>2, <1>3 DEF Calls

\* The same of what the workers hold and have in flight: a job that was begun
\* stays so, and ends only in its worker's hand or under a teardown.
LEMMA HeldMovesOn ==
    ASSUME TypeOK, Hands, NEW j \in Jobs, NEW s, job' = [job EXCEPT ![j] = s],
           UNCHANGED <<call, via, state, worker, hand, inFlight, paper>>,
           job[j] \in Begun => s \in Begun,
           job[j] = "PRINTING" => s = "PRINTING" \/ (via[j] \in Queues /\ state[via[j]] = "STOPPED")
    PROVE  Hands'
<1>1. job'[j] = s /\ \A x \in Jobs \ {j} : job'[x] = job[x]
  BY DEF TypeOK
<1>2. \A x \in Jobs : job[x] \in Begun => job'[x] \in Begun
  BY <1>1
<1>3. ASSUME NEW q \in Queues
      PROVE  HandFits(q)'
  <2>1. inFlight[q] # NoJob => inFlight[q] \in Jobs
    BY DEF TypeOK
  <2> QED
    BY <1>1, <1>2, <2>1 DEF Hands, HandFits, Taken, Holding
<1> QED
  BY <1>3 DEF Hands

\* Every step of a caller, an operator, a worker, the port and a teardown keeps the
\* invariant.
LEMMA QueueNextInv == QueueInv /\ [Next]_vars => QueueInv'
<1> SUFFICES ASSUME QueueInv, [Next]_vars PROVE QueueInv'
  OBVIOUS
<1>0. TypeOK /\ Calls /\ Hands /\ AllInLine /\ PaperFits /\ BossFits /\ Service
  BY DEF QueueInv
<1> USE <1>0
<1>1. ASSUME NEW j \in Jobs, Look(j)
       PROVE  QueueInv'
  <2> USE <1>1 DEF Look, queueVars, workerVars, bossVars, portVars
  <2>1. TypeOK'
    BY DEF TypeOK, JobState, CallPc, WorkerPc, BossPc, Ports, Tally, Terminal, NoQueue
  <2>2. Service'
    BY Unmoved
  <2>3. Calls'
    BY DEF TypeOK, Calls, CallFits, Asking, Begun
  <2>4. Hands'
    <3>1. \A x \in Jobs \ {j} : call'[x] = call[x] /\ via'[x] = via[x] /\ job'[x] = job[x]
      BY DEF TypeOK
    <3> QED
      BY <3>1, OthersStay
  <2>5. AllInLine'
    <3>1. \A x \in Jobs \ {j} : call'[x] = call[x] /\ via'[x] = via[x] /\ job'[x] = job[x]
      BY DEF TypeOK
    <3> QED
      BY <3>1, OthersStay
  <2>6. PaperFits'
    <3>1. \A x \in Jobs \ {j} : call'[x] = call[x] /\ via'[x] = via[x] /\ job'[x] = job[x]
      BY DEF TypeOK
    <3> QED
      BY <3>1, OthersStay
  <2>7. BossFits'
    BY DEF TypeOK, BossFits, Taken, Fresh, Tearing, NoQueue, Begun
  <2> QED
    BY <2>1, <2>2, <2>3, <2>4, <2>5, <2>6, <2>7 DEF QueueInv
<1>2. ASSUME NEW j \in Jobs, CheckState(j)
       PROVE  QueueInv'
  <2> USE <1>2 DEF CheckState, Refuse, Pass, Fail, Withdraw, queueVars, workerVars, bossVars, portVars
  <2>1. TypeOK'
    BY ZenonT(60) DEF TypeOK, JobState, CallPc, WorkerPc, BossPc, Ports, Tally, Terminal, NoQueue
  <2>2. Service'
    BY Unmoved
  <2>3. Calls'
    BY DEF TypeOK, Calls, CallFits, Asking, Begun
  <2>4. Hands'
    BY OthersStay DEF TypeOK
  <2>5. AllInLine'
    BY OthersStay DEF TypeOK
  <2>6. PaperFits'
    BY OthersStay DEF TypeOK
  <2>7. BossFits'
    BY DEF TypeOK, BossFits, Taken, Fresh, Tearing, NoQueue, Begun
  <2> QED
    BY <2>1, <2>2, <2>3, <2>4, <2>5, <2>6, <2>7 DEF QueueInv
<1>3. ASSUME NEW j \in Jobs, CheckPaused(j)
       PROVE  QueueInv'
  <2> USE <1>3 DEF CheckPaused, Refuse, Pass, Fail, Withdraw, queueVars, workerVars, bossVars, portVars
  <2>1. TypeOK'
    <3>1. job' \in [Jobs -> JobState] /\ call' \in [Jobs -> CallPc]
      BY ZenonT(60) DEF TypeOK, JobState, CallPc, Terminal
    <3> QED
      BY <3>1 DEF TypeOK
  <2>2. Service'
    BY Unmoved
  <2>3. Calls'
    BY DEF TypeOK, Calls, CallFits, Asking, Begun
  <2>4. Hands'
    BY OthersStay DEF TypeOK
  <2>5. AllInLine'
    BY OthersStay DEF TypeOK
  <2>6. PaperFits'
    BY OthersStay DEF TypeOK
  <2>7. BossFits'
    BY DEF TypeOK, BossFits, Taken, Fresh, Tearing, NoQueue, Begun
  <2> QED
    BY <2>1, <2>2, <2>3, <2>4, <2>5, <2>6, <2>7 DEF QueueInv
<1>4. ASSUME NEW j \in Jobs, CheckPort(j)
       PROVE  QueueInv'
  <2> USE <1>4 DEF CheckPort, Refuse, Pass, Fail, Withdraw, queueVars, workerVars, bossVars, portVars
  <2>1. TypeOK'
    BY ZenonT(60) DEF TypeOK, JobState, CallPc, WorkerPc, BossPc, Ports, Tally, Terminal, NoQueue
  <2>2. Service'
    BY Unmoved
  <2>3. Calls'
    BY DEF TypeOK, Calls, CallFits, Asking, Begun
  <2>4. Hands'
    BY OthersStay DEF TypeOK
  <2>5. AllInLine'
    BY OthersStay DEF TypeOK
  <2>6. PaperFits'
    BY OthersStay DEF TypeOK
  <2>7. BossFits'
    BY DEF TypeOK, BossFits, Taken, Fresh, Tearing, NoQueue, Begun
  <2> QED
    BY <2>1, <2>2, <2>3, <2>4, <2>5, <2>6, <2>7 DEF QueueInv
<1>5. ASSUME NEW j \in Jobs, Offer(j)
       PROVE  QueueInv'
  <2> USE <1>5 DEF Offer, Refuse, Pass, Fail, Withdraw, workerVars, bossVars, portVars
  <2>1. TypeOK'
    <3>1. job' \in [Jobs -> JobState] /\ call' \in [Jobs -> CallPc]
      BY DEF TypeOK, JobState, CallPc, Terminal
    <3>2. pending[via[j]] \in Seq(Jobs) /\ order \in Seq(Jobs)
      BY DEF TypeOK, Calls, CallFits, Asking
    <3>3. Append(pending[via[j]], j) \in Seq(Jobs) /\ Append(order, j) \in Seq(Jobs)
      BY <3>2
    <3>4. order' \in Seq(Jobs) /\ pending' \in [Queues -> Seq(Jobs)]
      BY <3>3 DEF TypeOK
    <3> QED
      BY <3>1, <3>4 DEF TypeOK
  <2>2. Service'
    BY Unmoved
  <2>3. Calls'
    <3>1. CASE UNCHANGED order
      BY <3>1 DEF TypeOK, Calls, CallFits, Asking, Begun
    <3>2. CASE order' = Append(order, j) /\ call' = [call EXCEPT ![j] = "accepted"] /\ UNCHANGED job
      <4>1. j \notin Elems(order) /\ via[j] \in Queues /\ call'[j] = "accepted" /\ job[j] = "QUEUED"
        BY <3>2 DEF Calls, CallFits, Asking, TypeOK
      <4>2. NoRepeat(order') /\ Elems(order') = Elems(order) \cup {j}
        BY <3>2, <4>1, ElemsOfAppend DEF TypeOK, Calls
      <4>3. \A x \in Jobs : x # j => call'[x] = call[x]
        BY <3>2 DEF TypeOK
      <4>4. \A x \in Jobs : CallFits(x)'
        BY <3>2, <4>1, <4>2, <4>3 DEF Calls, CallFits, Asking
      <4> QED
        BY <4>2, <4>4 DEF Calls
    <3> QED
      BY <3>1, <3>2
  <2>4. Hands'
    BY DEF TypeOK, Hands, HandFits, Taken, Holding, Begun, Terminal
  <2>5. AllInLine'
    <3>1. PICK q \in Queues : q = via[j]
      BY DEF Calls, CallFits, Asking
    <3>2. pending[q] \in Seq(Jobs) /\ order \in Seq(Jobs) /\ paper \in Seq(Jobs)
      BY DEF TypeOK
    <3>3. CASE Len(pending[q]) >= Capacity
      <4>1. UNCHANGED <<order, pending>> /\ \A x \in Jobs : x # j => call'[x] = call[x] /\ job'[x] = job[x]
        BY <3>1, <3>2, <3>3, CapacityAssumption DEF TypeOK
      <4> QED
        BY <4>1, OthersStay
    <3>4. CASE Len(pending[q]) < Capacity
      <4>1. /\ order' = Append(order, j) /\ pending' = [pending EXCEPT ![q] = Append(pending[q], j)]
            /\ call' = [call EXCEPT ![j] = "accepted"]
        BY <3>1, <3>4
      <4>2. /\ \A a, b : Before(order, a, b) => Before(order', a, b)
            /\ \A a \in Elems(order) : Before(order', a, j)
        BY <3>2, <4>1, BeforeAppend
      <4>3. \A x \in Jobs : call[x] = "accepted" => x \in Elems(order)
        BY DEF Calls, CallFits
      <4>4. /\ Elems(paper) \subseteq Elems(order)
            /\ \A r \in Queues : worker[r] \in Holding => hand[r] \in Elems(order)
            /\ \A r \in Queues : Elems(pending[r]) \subseteq Elems(order)
        BY <4>3, ElemsAreOf DEF PaperFits, Hands, HandFits, Taken, AllInLine, PendingFits, TypeOK
      <4>5. \A x \in Jobs, r \in Queues : Taken(r, x) => Taken(r, x)'
        BY <4>1 DEF Taken, TypeOK
      <4>6. ASSUME NEW r \in Queues, r # q
            PROVE  PendingFits(r)'
        <5>1. pending'[r] = pending[r] /\ Elems(pending[r]) \subseteq Jobs
          BY <4>1, <4>6, ElemsAreOf DEF TypeOK
        <5>2. InOrder(pending'[r], order')
          BY <4>2, <5>1 DEF AllInLine, PendingFits, InOrder
        <5> QED
          BY <4>2, <4>5, <5>1, <5>2 DEF AllInLine, PendingFits
      <4>7. PendingFits(q)'
        <5>1. pending'[q] = Append(pending[q], j)
          BY <4>1 DEF TypeOK
        <5>2. InOrder(pending'[q], order')
          BY <3>2, <4>1, <4>4, <5>1, AppendInOrder DEF AllInLine, PendingFits
        <5>3. Elems(pending'[q]) = Elems(pending[q]) \cup {j} /\ Elems(pending[q]) \subseteq Jobs
          BY <3>2, <5>1, ElemsOfAppend, ElemsAreOf
        <5>4. Taken(q, j)'
          BY <3>1, <4>1 DEF Taken, TypeOK
        <5> QED
          BY <4>2, <4>4, <4>5, <5>2, <5>3, <5>4 DEF AllInLine, PendingFits
      <4> QED
        BY <4>6, <4>7 DEF AllInLine
    <3> QED
      BY <3>1, <3>2, <3>3, <3>4, CapacityAssumption
  <2>6. PaperFits'
    <3>1. PICK q \in Queues : q = via[j]
      BY DEF Calls, CallFits, Asking
    <3>2. pending[q] \in Seq(Jobs) /\ order \in Seq(Jobs) /\ paper \in Seq(Jobs)
      BY DEF TypeOK
    <3>3. CASE Len(pending[q]) >= Capacity
      <4>1. UNCHANGED <<order, pending>> /\ \A x \in Jobs : x # j => call'[x] = call[x] /\ job'[x] = job[x]
        BY <3>1, <3>2, <3>3, CapacityAssumption DEF TypeOK
      <4> QED
        BY <4>1, OthersStay
    <3>4. CASE Len(pending[q]) < Capacity
      <4>1. order' = Append(order, j) /\ call' = [call EXCEPT ![j] = "accepted"]
        BY <3>1, <3>4
      <4>2. j \notin Elems(paper) /\ Elems(paper) \subseteq Jobs
        BY <3>2, ElemsAreOf DEF PaperFits
      <4>3. \A a, b : Before(order', a, b) => Before(order, a, b) \/ b = j
        BY <3>2, <4>1, BeforeAppend
      <4>4. \A a \in Elems(paper) : call'[a] = "accepted"
        BY <4>1, <4>2 DEF PaperFits, TypeOK
      <4> QED
        BY <4>2, <4>3, <4>4 DEF PaperFits
    <3> QED
      BY <3>1, <3>2, <3>3, <3>4, CapacityAssumption
  <2>7. BossFits'
    BY DEF TypeOK, BossFits, Taken, Fresh, Tearing, NoQueue, Begun
  <2> QED
    BY <2>1, <2>2, <2>3, <2>4, <2>5, <2>6, <2>7 DEF QueueInv
<1>6. ASSUME NEW j \in Jobs, CancelRequested(j)
       PROVE  QueueInv'
  <2> USE <1>6 DEF CancelRequested, Withdraw, queueVars, workerVars, bossVars, portVars
  <2>1. TypeOK'
    BY DEF TypeOK, JobState, CallPc, WorkerPc, BossPc, Ports, Tally, Terminal, NoQueue
  <2>2. AllInLine' /\ PaperFits' /\ Service'
    BY Unmoved
  <2>3. Calls'
    <3>1. call[j] = "accepted" /\ (job[j] = "COMPLETED" => j \in Elems(paper))
      BY DEF BossFits, Calls, CallFits
    <3>2. PICK s \in JobState : s = IF job[j] = "QUEUED" THEN "CANCELLED" ELSE job[j]
      BY DEF TypeOK, JobState, Terminal
    <3> QED
      BY <3>1, <3>2, OneMovesOn DEF Begun
  <2>4. Hands'
    BY HeldMovesOn DEF Begun
  <2>5. BossFits'
    BY DEF TypeOK, BossFits, Taken, Fresh, Tearing, NoQueue, Begun
  <2> QED
    BY <2>1, <2>2, <2>3, <2>4, <2>5 DEF QueueInv
<1>7. ASSUME NEW j \in Jobs, CancelCleared(j)
       PROVE  QueueInv'
  <2> USE <1>7 DEF CancelCleared, Withdraw, queueVars, workerVars, bossVars, portVars
  <2>1. TypeOK'
    BY DEF TypeOK, JobState, CallPc, WorkerPc, BossPc, Ports, Tally, Terminal, NoQueue
  <2>2. AllInLine' /\ PaperFits' /\ Service'
    BY Unmoved
  <2>3. Calls'
    <3>1. call[j] = "accepted" /\ (job[j] = "COMPLETED" => j \in Elems(paper))
      BY DEF BossFits, Calls, CallFits
    <3>2. PICK s \in JobState : s = IF job[j] = "QUEUED" THEN "CANCELLED" ELSE job[j]
      BY DEF TypeOK, JobState, Terminal
    <3> QED
      BY <3>1, <3>2, OneMovesOn DEF Begun
  <2>4. Hands'
    BY HeldMovesOn DEF Begun
  <2>5. BossFits'
    BY DEF TypeOK, BossFits, Taken, Fresh, Tearing, NoQueue, Begun
  <2> QED
    BY <2>1, <2>2, <2>3, <2>4, <2>5 DEF QueueInv
<1>8. ASSUME NEW q \in Queues, Pause(q)
       PROVE  QueueInv'
  <2> USE <1>8 DEF Pause, Use, jobVars, workerVars, bossVars, portVars
  <2>1. TypeOK'
    BY SMTT(30) DEF TypeOK, JobState, CallPc, WorkerPc, BossPc, Ports, Tally, Terminal, NoQueue
  <2>2. Calls' /\ Hands' /\ AllInLine' /\ PaperFits' /\ BossFits'
    BY Unmoved
  <2>3. Service'
    BY DEF TypeOK, Service, QueueFits
  <2> QED
    BY <2>1, <2>2, <2>3 DEF QueueInv
<1>9. ASSUME NEW q \in Queues, Resume(q)
       PROVE  QueueInv'
  <2> USE <1>9 DEF Resume, jobVars, workerVars, bossVars, portVars
  <2>1. TypeOK'
    BY DEF TypeOK, JobState, CallPc, WorkerPc, BossPc, Ports, Tally, Terminal, NoQueue
  <2>2. Calls' /\ Hands' /\ AllInLine' /\ PaperFits' /\ BossFits'
    BY Unmoved
  <2>3. Service'
    BY DEF TypeOK, Service, QueueFits
  <2> QED
    BY <2>1, <2>2, <2>3 DEF QueueInv
<1>10. ASSUME NEW q \in Queues, Clear(q)
        PROVE  QueueInv'
  <2> USE <1>10 DEF Clear, Use, jobVars, workerVars, bossVars, portVars
  <2>1. TypeOK'
    <3>1. pending' \in [Queues -> Seq(Jobs)]
      BY DEF TypeOK
    <3>2. used' \in [Tally -> Nat]
      BY DEF TypeOK, Tally
    <3>3. clearing' \in SUBSET Jobs
      BY DEF TypeOK
    <3> QED
      BY <3>1, <3>2, <3>3 DEF TypeOK
  <2>2. Calls' /\ Hands' /\ PaperFits' /\ Service'
    BY Unmoved
  <2>3. AllInLine'
    <3>1. \A r \in Queues : pending'[r] = pending[r] \/ pending'[r] = <<>>
      BY DEF TypeOK
    <3>2. ASSUME NEW r \in Queues
          PROVE  PendingFits(r)'
      <4>1. CASE pending'[r] = pending[r]
        BY <4>1 DEF AllInLine, PendingFits, Taken
      <4>2. CASE pending'[r] = <<>>
        BY <4>2, ElemsOfEmpty, EmptyInOrder DEF AllInLine, PendingFits, Taken
      <4> QED
        BY <3>1, <4>1, <4>2
    <3> QED
      BY <3>2 DEF AllInLine
  <2>4. BossFits'
    <3>1. \A x \in Jobs : InQueue(q, x) => call[x] = "accepted"
      BY PendingIs DEF AllInLine, PendingFits, Taken
    <3>2. \A x \in draining' \cup clearing' : call'[x] = "accepted"
      BY <3>1 DEF BossFits
    <3> QED
      BY <3>2 DEF BossFits, Taken, Fresh
  <2> QED
    BY <2>1, <2>2, <2>3, <2>4 DEF QueueInv
<1>11. ASSUME NEW q \in Queues, Gate(q)
        PROVE  QueueInv'
  <2> USE <1>11 DEF Gate, jobVars, queueVars, bossVars, portVars
  <2>1. TypeOK'
    BY DEF TypeOK, JobState, CallPc, WorkerPc, BossPc, Ports, Tally, Terminal, NoQueue
  <2>2. Calls' /\ PaperFits' /\ BossFits'
    BY Unmoved
  <2>3. Hands'
    BY DEF TypeOK, Hands, HandFits, Taken, Holding, Begun, Terminal
  <2>4. AllInLine'
    BY DEF TypeOK, AllInLine, PendingFits, Taken, Holding
  <2>5. Service'
    BY DEF TypeOK, Service, QueueFits
  <2> QED
    BY <2>1, <2>2, <2>3, <2>4, <2>5 DEF QueueInv
<1>12. ASSUME NEW q \in Queues, Poll(q)
        PROVE  QueueInv'
  <2> USE <1>12 DEF Poll, jobVars, bossVars, portVars
  <2>1. TypeOK'
    <3>1. pending[q] \in Seq(Jobs)
      BY DEF TypeOK
    <3>2. pending[q] # <<>> => Head(pending[q]) \in Jobs /\ Tail(pending[q]) \in Seq(Jobs)
      BY <3>1
    <3>3. CASE UNCHANGED <<hand, pending>>
      BY <3>3 DEF TypeOK, WorkerPc
    <3>4. CASE pending[q] # <<>> /\ ~interrupted[q]
      <4>1. hand' = [hand EXCEPT ![q] = Head(pending[q])] /\ pending' = [pending EXCEPT ![q] = Tail(pending[q])]
        BY <3>4
      <4>2. pending' \in [Queues -> Seq(Jobs)] /\ hand' \in [Queues -> Jobs \cup {NoJob}]
        BY <3>2, <3>4, <4>1 DEF TypeOK
      <4>3. worker' \in [Queues -> WorkerPc]
        BY ZenonT(60) DEF TypeOK, WorkerPc
      <4> QED
        BY <4>2, <4>3 DEF TypeOK
    <3> QED
      BY <3>3, <3>4
  <2>2. Calls' /\ PaperFits' /\ BossFits'
    BY Unmoved
  <2>3. Hands'
    <3>1. \A r \in Queues : r # q => worker'[r] = worker[r] /\ hand'[r] = hand[r]
      BY DEF TypeOK
    <3>2. CASE worker'[q] \notin Holding
      BY <3>1, <3>2 DEF Hands, HandFits, Taken, Holding
    <3>3. CASE worker'[q] \in Holding
      <4>1. pending[q] # <<>> /\ hand'[q] = Head(pending[q]) /\ worker'[q] = "begin"
        BY <3>3 DEF TypeOK, Holding
      <4>2. Head(pending[q]) \in Jobs /\ Head(pending[q]) \in Elems(pending[q])
        BY <4>1, ElemsOfTail DEF TypeOK
      <4>3. HandFits(q)'
        BY <4>1, <4>2 DEF AllInLine, PendingFits, Hands, HandFits, Taken
      <4> QED
        BY <3>1, <4>3 DEF Hands, HandFits, Taken
    <3> QED
      BY <3>2, <3>3
  <2>4. AllInLine'
    <3>1. ASSUME NEW r \in Queues, r # q
          PROVE  PendingFits(r)'
      <4>1. worker'[r] = worker[r] /\ hand'[r] = hand[r] /\ pending'[r] = pending[r]
        BY <3>1 DEF TypeOK
      <4> QED
        BY <4>1 DEF AllInLine, PendingFits, Taken
    <3>2. CASE worker'[q] \notin Holding
      <4>1. pending'[q] = pending[q]
        BY <3>2 DEF TypeOK, Holding
      <4>2. PendingFits(q)'
        BY <3>2, <4>1 DEF AllInLine, PendingFits, Taken, Holding
      <4> QED
        BY <3>1, <4>2 DEF AllInLine
    <3>3. CASE worker'[q] \in Holding
      <4>1. /\ pending[q] # <<>> /\ hand'[q] = Head(pending[q])
            /\ pending'[q] = Tail(pending[q])
        BY <3>3 DEF TypeOK, Holding
      <4>2. /\ Head(pending[q]) \in Elems(pending[q])
            /\ Elems(pending'[q]) \subseteq Elems(pending[q])
            /\ InOrder(pending[q], order)
        BY <4>1, ElemsOfTail DEF TypeOK, AllInLine, PendingFits
      <4>3. InOrder(pending'[q], order) /\ \A x \in Elems(pending'[q]) : Before(order, hand'[q], x)
        BY <4>1, <4>2, TailInOrder DEF TypeOK
      <4>4. PendingFits(q)'
        BY <4>1, <4>2, <4>3 DEF AllInLine, PendingFits, Taken
      <4> QED
        BY <3>1, <4>4 DEF AllInLine
    <3> QED
      BY <3>2, <3>3
  <2>5. Service'
    BY DEF TypeOK, Service, QueueFits
  <2> QED
    BY <2>1, <2>2, <2>3, <2>4, <2>5 DEF QueueInv
<1>13. ASSUME NEW q \in Queues, BeginPrinting(q)
        PROVE  QueueInv'
  <2> USE <1>13 DEF BeginPrinting, Begin, bossVars, portVars
  <2>1. TypeOK'
    <3>1. job' \in [Jobs -> JobState]
      BY ZenonT(60) DEF TypeOK, JobState
    <3>2. slipped' \in [Queues -> Nat]
      <4>1. slipped[q] \in Nat /\ slipped[q] + 1 \in Nat
        BY DEF TypeOK
      <4>2. PICK n \in Nat : slipped' = [slipped EXCEPT ![q] = n] \/ slipped' = slipped
        BY <4>1
      <4> QED
        BY <4>2, ZenonT(60) DEF TypeOK
    <3>3. worker' \in [Queues -> WorkerPc] /\ hand' \in [Queues -> Jobs \cup {NoJob}]
      BY ZenonT(60) DEF TypeOK, WorkerPc
    <3> QED
      BY <3>1, <3>2, <3>3 DEF TypeOK
  <2>2. PaperFits'
    BY Unmoved
  <2>3. Calls'
    <3>1. hand[q] \in Jobs /\ call[hand[q]] = "accepted"
      BY DEF Hands, HandFits, Taken, Holding
    <3>2. CASE job[hand[q]] = "QUEUED"
      BY <3>1, <3>2, OneMovesOn DEF Begun
    <3>3. CASE job[hand[q]] # "QUEUED"
      BY <3>3, Unmoved
    <3> QED
      BY <3>2, <3>3
  <2>4. Hands'
    <3>1. hand[q] \in Jobs /\ Taken(q, hand[q])
      BY DEF Hands, HandFits, Holding
    <3>2. ASSUME NEW r \in Queues, r # q
          PROVE  HandFits(r)'
      <4>1. worker'[r] = worker[r] /\ hand'[r] = hand[r] /\ (inFlight[r] # NoJob => inFlight[r] \in Jobs)
        BY <3>2 DEF TypeOK
      <4>2. \A x \in Jobs : x # hand[q] => job'[x] = job[x]
        BY DEF TypeOK
      <4>3. \A x \in Jobs : job[x] \in Begun => job'[x] \in Begun
        BY <3>1 DEF TypeOK, Begun
      <4>4. worker[r] \in Holding => hand[r] # hand[q]
        BY <3>1, <3>2 DEF Hands, HandFits, Taken
      <4> QED
        BY <4>1, <4>2, <4>3, <4>4 DEF Hands, HandFits, Taken, Holding
    <3>3. CASE job[hand[q]] = "QUEUED"
      <4>1. worker'[q] = "mark" /\ job'[hand[q]] = "PRINTING" /\ hand'[q] = hand[q]
        BY <3>1, <3>3 DEF TypeOK
      <4>2. inFlight[q] # NoJob => inFlight[q] \in Jobs /\ inFlight[q] # hand[q]
        <5>1. inFlight[q] \in Jobs \cup {NoJob}
          BY DEF TypeOK
        <5>2. inFlight[q] # NoJob => job[inFlight[q]] # "QUEUED"
          BY DEF Hands, HandFits, Begun
        <5> QED
          BY <3>3, <5>1, <5>2
      <4>3. \A x \in Jobs : x # hand[q] => job'[x] = job[x]
        BY DEF TypeOK
      <4>4. HandFits(q)'
        BY <3>1, <4>1, <4>2, <4>3 DEF Hands, HandFits, Taken, Holding, Begun
      <4> QED
        BY <3>2, <4>4 DEF Hands
    <3>4. CASE job[hand[q]] # "QUEUED"
      <4>1. worker'[q] = "loop" /\ UNCHANGED job
        BY <3>4 DEF TypeOK
      <4>2. HandFits(q)'
        BY <4>1 DEF Hands, HandFits, Taken, Holding
      <4> QED
        BY <3>2, <4>2 DEF Hands
    <3> QED
      BY <3>3, <3>4
  <2>5. AllInLine'
    <3>1. ASSUME NEW r \in Queues, r # q
          PROVE  PendingFits(r)'
      <4>1. worker'[r] = worker[r] /\ hand'[r] = hand[r]
        BY <3>1 DEF TypeOK
      <4> QED
        BY <4>1 DEF AllInLine, PendingFits, Taken
    <3>2. \/ worker'[q] = "mark" /\ hand'[q] = hand[q]
          \/ worker'[q] = "loop"
      BY DEF TypeOK
    <3>3. PendingFits(q)'
      BY <3>2 DEF AllInLine, PendingFits, Taken, Holding
    <3> QED
      BY <3>1, <3>3 DEF AllInLine
  <2>6. BossFits'
    BY DEF TypeOK, BossFits, Taken, Fresh, Tearing, NoQueue, Begun
  <2>7. Service'
    BY DEF TypeOK, Service, QueueFits
  <2> QED
    BY <2>1, <2>2, <2>3, <2>4, <2>5, <2>6, <2>7 DEF QueueInv
<1>14. ASSUME NEW q \in Queues, MarkInFlight(q)
        PROVE  QueueInv'
  <2> USE <1>14 DEF MarkInFlight, jobVars, queueVars, bossVars, portVars
  <2>1. TypeOK'
    BY DEF TypeOK, JobState, CallPc, WorkerPc, BossPc, Ports, Tally, Terminal, NoQueue
  <2>2. Calls' /\ PaperFits' /\ BossFits'
    BY Unmoved
  <2>3. Hands'
    BY DEF TypeOK, Hands, HandFits, Taken, Holding, Begun, Terminal
  <2>4. AllInLine'
    BY DEF TypeOK, AllInLine, PendingFits, Taken, Holding
  <2>5. Service'
    BY DEF TypeOK, Service, QueueFits
  <2> QED
    BY <2>1, <2>2, <2>3, <2>4, <2>5 DEF QueueInv
<1>15. ASSUME NEW q \in Queues, PayloadGone(q)
        PROVE  QueueInv'
  <2> USE <1>15 DEF PayloadGone, jobVars, queueVars, bossVars, portVars
  <2>1. TypeOK'
    BY DEF TypeOK, JobState, CallPc, WorkerPc, BossPc, Ports, Tally, Terminal, NoQueue
  <2>2. Calls' /\ PaperFits' /\ BossFits'
    BY Unmoved
  <2>3. Hands'
    BY DEF TypeOK, Hands, HandFits, Taken, Holding, Begun, Terminal
  <2>4. AllInLine'
    BY DEF TypeOK, AllInLine, PendingFits, Taken, Holding
  <2>5. Service'
    <3>1. state[q] = "STOPPED"
      BY DEF Hands, HandFits, Holding, Terminal
    <3>2. \A r \in Queues : r # q => worker'[r] = worker[r]
      BY DEF TypeOK
    <3>3. worker'[q] = "gone"
      BY DEF TypeOK
    <3> QED
      BY <3>1, <3>2, <3>3 DEF Service, QueueFits
  <2> QED
    BY <2>1, <2>2, <2>3, <2>4, <2>5 DEF QueueInv
<1>16. ASSUME NEW q \in Queues, StartWrite(q)
        PROVE  QueueInv'
  <2> USE <1>16 DEF StartWrite, jobVars, queueVars, bossVars
  <2>1. TypeOK'
    <3>1. worker' = [worker EXCEPT ![q] = "writing"] \/ worker' = [worker EXCEPT ![q] = "broke"]
      OBVIOUS
    <3>2. worker' \in [Queues -> WorkerPc]
      BY <3>1, ZenonT(60) DEF TypeOK, WorkerPc
    <3>3. writer' \in [Ports -> Queues \cup {NoQueue}]
      <4>1. [writer EXCEPT ![portOf[q]] = q] \in [Ports -> Queues \cup {NoQueue}]
        BY DEF TypeOK
      <4> QED
        BY <4>1 DEF TypeOK
    <3> QED
      BY <3>2, <3>3 DEF TypeOK
  <2>2. Calls' /\ PaperFits' /\ BossFits'
    BY Unmoved
  <2>3. Hands'
    BY DEF TypeOK, Hands, HandFits, Taken, Holding, Begun, Terminal
  <2>4. AllInLine'
    <3>1. worker'[q] \in {"writing", "broke"} /\ \A r \in Queues : r # q => worker'[r] = worker[r]
      BY DEF TypeOK
    <3>2. PendingFits(q)'
      BY <3>1 DEF AllInLine, PendingFits, Taken, Holding
    <3>3. \A r \in Queues : r # q => PendingFits(r)'
      BY <3>1 DEF AllInLine, PendingFits, Taken
    <3> QED
      BY <3>2, <3>3 DEF AllInLine
  <2>5. Service'
    BY DEF TypeOK, Service, QueueFits
  <2> QED
    BY <2>1, <2>2, <2>3, <2>4, <2>5 DEF QueueInv
<1>17. ASSUME NEW q \in Queues, EndWrite(q)
        PROVE  QueueInv'
  <2>1. hand[q] \in Jobs /\ Taken(q, hand[q])
    BY <1>17 DEF EndWrite, Hands, HandFits, Holding
  <2>2. paper \in Seq(Jobs)
    BY DEF TypeOK
  <2>3. \/ worker'[q] = "wrote" /\ paper' = Append(paper, hand[q])
        \/ worker'[q] = "broke" /\ paper' = paper
    <3>1. worker \in [Queues -> WorkerPc]
      BY DEF TypeOK
    <3>2. CASE worker' = [worker EXCEPT ![q] = "wrote"] /\ paper' = Append(paper, hand[q])
      <4>1. worker'[q] = "wrote"
        BY <3>1, <3>2
      <4> QED
        BY <3>2, <4>1
    <3>3. CASE worker' = [worker EXCEPT ![q] = "broke"] /\ UNCHANGED paper
      <4>1. worker'[q] = "broke"
        BY <3>1, <3>3
      <4> QED
        BY <3>3, <4>1
    <3> QED
      BY <3>2, <3>3, <1>17 DEF EndWrite
  <2>4. \A r \in Queues : r # q => worker'[r] = worker[r]
    BY <1>17 DEF EndWrite, TypeOK
  <2>5. Elems(paper') = Elems(paper) \/ (worker'[q] = "wrote" /\ Elems(paper') = Elems(paper) \cup {hand[q]})
    <3>1. Elems(Append(paper, hand[q])) = Elems(paper) \cup {hand[q]}
      BY <2>1, <2>2, ElemsOfAppend
    <3> QED
      BY <3>1, <2>3
  <2>6. worker'[q] = "wrote" => hand[q] \in Elems(paper')
    <3>1. hand[q] \in Elems(Append(paper, hand[q]))
      BY <2>1, <2>2, ElemsOfAppend
    <3> QED
      BY <3>1, <2>3
  <2> USE <1>17 DEF EndWrite, Use, jobVars, queueVars, bossVars
  <2>7. TypeOK'
    <3>1. hand[q] \in Jobs /\ portOf[q] \in Ports
      BY DEF TypeOK, Hands, HandFits, Holding
    <3>2. worker' \in [Queues -> WorkerPc] /\ touched' \in SUBSET Jobs
      BY <3>1 DEF TypeOK, WorkerPc
    <3>3. writer' \in [Ports -> Queues \cup {NoQueue}]
      BY DEF TypeOK
    <3>4. paper' \in Seq(Jobs)
      <4>1. paper \in Seq(Jobs)
        BY DEF TypeOK
      <4>2. Append(paper, hand[q]) \in Seq(Jobs)
        BY <3>1, <4>1
      <4> QED
        BY <4>1, <4>2
    <3>5. open' \in [Ports -> BOOLEAN]
      <4>1. [open EXCEPT ![portOf[q]] = FALSE] \in [Ports -> BOOLEAN]
        BY DEF TypeOK
      <4> QED
        BY <4>1 DEF TypeOK
    <3>6. used' \in [Tally -> Nat]
      BY DEF TypeOK, Tally
    <3> HIDE DEF EndWrite
    <3>7. UNCHANGED <<jobVars, queueVars, hand, inFlight, interrupted, bossVars, clearing>>
      BY DEF EndWrite
    <3> QED
      BY <3>2, <3>3, <3>4, <3>5, <3>6, <3>7 DEF TypeOK
  <2>8. BossFits'
    BY Unmoved
  <2>9. Calls'
    <3>6. job[hand[q]] \in Begun
      BY DEF Hands, HandFits, Holding
    <3> QED
      BY <2>5, <3>6 DEF Calls, CallFits
  <2>10. Hands'
    <3>6. HandFits(q)'
      <4>1. hand[q] \in Elems(paper') \/ worker'[q] = "broke"
        BY <2>3, <2>6
      <4>2. worker'[q] \in {"wrote", "broke"}
        BY <2>3
      <4> QED
        BY <4>1, <4>2 DEF Hands, HandFits, Taken, Holding
    <3>7. ASSUME NEW r \in Queues, r # q
          PROVE  HandFits(r)'
      BY <2>4, <2>5, <3>7 DEF Hands, HandFits, Taken
    <3> QED
      BY <3>6, <3>7 DEF Hands
  <2>11. AllInLine'
    <3>6. ASSUME NEW r \in Queues, r # q
          PROVE  PendingFits(r)'
      <4>1. via[hand[q]] # r
        BY <2>1, <3>6 DEF Taken
      <4>2. \A a \in Elems(paper') : via[a] = r => a \in Elems(paper)
        BY <2>5, <4>1
      <4> QED
        BY <2>4, <3>6, <4>2 DEF AllInLine, PendingFits, Taken
    <3>7. PendingFits(q)'
      <4>1. worker'[q] \in {"wrote", "broke"} /\ worker[q] \in Holding
        BY <2>3 DEF Holding
      <4>2. \A a \in Elems(paper') : a \in Elems(paper) \/ a = hand[q]
        BY <2>5
      <4>3. \A a \in Elems(paper') : via[a] = q => \A x \in Elems(pending[q]) : Before(order, a, x)
        BY <4>1, <4>2 DEF AllInLine, PendingFits
      <4> QED
        BY <4>1, <4>3 DEF AllInLine, PendingFits, Taken, Holding
    <3> QED
      BY <3>6, <3>7 DEF AllInLine
  <2>12. PaperFits'
    <3>6. CASE paper' = paper
      BY <3>6, Unmoved
    <3>7. CASE paper' = Append(paper, hand[q])
      <4>1. \A a \in Elems(paper) : via[a] = q => Before(order, a, hand[q])
        BY DEF AllInLine, PendingFits
      <4>2. order \in Seq(Jobs) /\ NoRepeat(order)
        BY DEF TypeOK, Calls
      <4>3. \A a, b : Before(order, a, b) => ~Before(order, b, a) /\ a # b
        BY <4>2, BeforeOnce
      <4>4. hand[q] \notin Elems(paper)
        BY <2>1, <4>1, <4>3 DEF Taken
      <4>5. NoRepeat(paper') /\ Elems(paper') = Elems(paper) \cup {hand[q]}
        BY <2>1, <2>2, <3>7, <4>4, ElemsOfAppend DEF PaperFits
      <4>6. /\ \A a, b : Before(paper, a, b) => Before(paper', a, b)
            /\ \A a \in Elems(paper) : Before(paper', a, hand[q])
        BY <2>1, <2>2, <3>7, BeforeAppend
      <4>7. \A a \in Elems(paper') : call'[a] = "accepted"
        BY <2>1, <4>5 DEF PaperFits, Taken
      <4>8. ASSUME NEW a \in Elems(paper'), NEW b \in Elems(paper'), via[a] = via[b], Before(order, a, b)
            PROVE  Before(paper', a, b)
        BY <2>1, <4>1, <4>3, <4>5, <4>6, <4>8 DEF PaperFits, Taken
      <4> QED
        BY <4>5, <4>7, <4>8 DEF PaperFits
    <3> QED
      BY <2>3, <3>6, <3>7
  <2>13. Service'
    BY DEF TypeOK, Service, QueueFits
  <2> QED
    BY <2>7, <2>8, <2>9, <2>10, <2>11, <2>12, <2>13 DEF QueueInv
<1>18. ASSUME NEW q \in Queues, Record(q)
        PROVE  QueueInv'
  <2> USE <1>18 DEF Record, Complete, Fail, queueVars, bossVars, portVars
  <2>1. TypeOK'
    BY ZenonT(60) DEF TypeOK, JobState, CallPc, WorkerPc, BossPc, Ports, Tally, Terminal, NoQueue
  <2>2. PaperFits'
    BY Unmoved
  <2>3. Calls'
    <3>1. hand[q] \in Jobs /\ call[hand[q]] = "accepted"
      BY DEF Hands, HandFits, Taken, Holding
    <3>2. worker[q] = "wrote" => hand[q] \in Elems(paper)
      BY DEF Hands, HandFits
    <3> QED
      BY <3>1, <3>2, OneMovesOn DEF Begun
  <2>4. Hands'
    <3>1. hand[q] \in Jobs /\ Taken(q, hand[q])
      BY DEF Hands, HandFits, Holding
    <3>2. PICK s \in {"COMPLETED", "FAILED"} : job' = [job EXCEPT ![hand[q]] = s]
      OBVIOUS
    <3>3. job'[hand[q]] \in Begun /\ \A x \in Jobs : x # hand[q] => job'[x] = job[x]
      BY <3>1, <3>2 DEF TypeOK, Begun
    <3>4. \A x \in Jobs : job[x] \in Begun => job'[x] \in Begun
      BY <3>3
    <3>5. ASSUME NEW r \in Queues, r # q
          PROVE  HandFits(r)'
      <4>1. worker'[r] = worker[r] /\ (inFlight[r] # NoJob => inFlight[r] \in Jobs)
        BY <3>5 DEF TypeOK
      <4>2. worker[r] \in Holding => hand[r] # hand[q]
        BY <3>1, <3>5 DEF Hands, HandFits, Taken
      <4> QED
        BY <3>1, <3>3, <3>4, <4>1, <4>2 DEF Hands, HandFits, Taken, Holding
    <3>6. HandFits(q)'
      <4>1. worker'[q] = "release" /\ (inFlight[q] # NoJob => inFlight[q] \in Jobs)
        BY DEF TypeOK
      <4> QED
        BY <3>1, <3>3, <3>4, <4>1 DEF Hands, HandFits, Taken, Holding
    <3> QED
      BY <3>5, <3>6 DEF Hands
  <2>5. AllInLine'
    BY DEF TypeOK, AllInLine, PendingFits, Taken, Holding
  <2>6. BossFits'
    BY DEF TypeOK, BossFits, Taken, Fresh, Tearing, NoQueue, Begun
  <2>7. Service'
    BY DEF TypeOK, Service, QueueFits
  <2> QED
    BY <2>1, <2>2, <2>3, <2>4, <2>5, <2>6, <2>7 DEF QueueInv
<1>19. ASSUME NEW q \in Queues, ReleaseJob(q)
        PROVE  QueueInv'
  <2> USE <1>19 DEF ReleaseJob, jobVars, queueVars, bossVars, portVars
  <2>1. TypeOK'
    BY DEF TypeOK, JobState, CallPc, WorkerPc, BossPc, Ports, Tally, Terminal, NoQueue
  <2>2. Calls' /\ PaperFits' /\ BossFits'
    BY Unmoved
  <2>3. Hands'
    BY DEF TypeOK, Hands, HandFits, Taken, Holding, Begun, Terminal
  <2>4. AllInLine'
    BY DEF TypeOK, AllInLine, PendingFits, Taken, Holding
  <2>5. Service'
    BY DEF TypeOK, Service, QueueFits
  <2> QED
    BY <2>1, <2>2, <2>3, <2>4, <2>5 DEF QueueInv
<1>20. ASSUME NEW p \in Ports, Disconnect(p)
        PROVE  QueueInv'
  <2> USE <1>20 DEF Disconnect, Use, jobVars, queueVars, workerVars, bossVars
  <2>1. TypeOK'
    BY SMTT(30) DEF TypeOK, JobState, CallPc, WorkerPc, BossPc, Ports, Tally, Terminal, NoQueue
  <2>2. Calls' /\ Hands' /\ AllInLine' /\ PaperFits' /\ BossFits' /\ Service'
    BY Unmoved
  <2> QED
    BY <2>1, <2>2 DEF QueueInv
<1>21. ASSUME NEW p \in Ports, Connect(p)
        PROVE  QueueInv'
  <2> USE <1>21 DEF Connect, jobVars, queueVars, workerVars, bossVars
  <2>1. TypeOK'
    BY DEF TypeOK, JobState, CallPc, WorkerPc, BossPc, Ports, Tally, Terminal, NoQueue
  <2>2. Calls' /\ Hands' /\ AllInLine' /\ PaperFits' /\ BossFits' /\ Service'
    BY Unmoved
  <2> QED
    BY <2>1, <2>2 DEF QueueInv
<1>22. ASSUME ChangeCapacity
        PROVE  QueueInv'
  <2> USE <1>22 DEF ChangeCapacity, jobVars, queueVars, workerVars, portVars
  <2>1. TypeOK'
    BY DEF TypeOK, JobState, CallPc, WorkerPc, BossPc, Ports, Tally, Terminal, NoQueue
  <2>2. Calls' /\ Hands' /\ AllInLine' /\ PaperFits' /\ Service'
    BY Unmoved
  <2>3. BossFits'
    BY DEF TypeOK, BossFits, Taken, Fresh, Tearing, NoQueue, Begun
  <2> QED
    BY <2>1, <2>2, <2>3 DEF QueueInv
<1>23. ASSUME ChangePort
        PROVE  QueueInv'
  <2> USE <1>23 DEF ChangePort, jobVars, queueVars, workerVars
  <2>1. TypeOK'
    <3>1. portOf' \in [Queues -> Ports] /\ boss' \in BossPc
      <4>1. NextOne \in Queues
        BY DEF NextOne, Fresh
      <4> QED
        BY <4>1 DEF TypeOK, Ports, BossPc
    <3>2. open' \in [Ports -> BOOLEAN]
      <4>1. PICK answers \in BOOLEAN :
               open' = [[open EXCEPT ![portOf[current]] = FALSE] EXCEPT ![NextOne] = answers]
        OBVIOUS
      <4>2. [open EXCEPT ![portOf[current]] = FALSE] \in [Ports -> BOOLEAN]
        BY DEF TypeOK
      <4> QED
        BY <4>1, <4>2
    <3> QED
      BY <3>1, <3>2 DEF TypeOK
  <2>2. Calls' /\ Hands' /\ AllInLine' /\ PaperFits' /\ Service'
    BY Unmoved
  <2>3. BossFits'
    BY DEF TypeOK, BossFits, Taken, Fresh, Tearing, NoQueue, Begun
  <2> QED
    BY <2>1, <2>2, <2>3 DEF QueueInv
<1>24. ASSUME RemoveDevice
        PROVE  QueueInv'
  <2> USE <1>24 DEF RemoveDevice, ClosePort, jobVars, queueVars, workerVars
  <2>1. TypeOK'
    BY DEF TypeOK, JobState, CallPc, WorkerPc, BossPc, Ports, Tally, Terminal, NoQueue
  <2>2. Calls' /\ Hands' /\ AllInLine' /\ PaperFits' /\ Service'
    BY Unmoved
  <2>3. BossFits'
    BY DEF TypeOK, BossFits, Taken, Fresh, Tearing, NoQueue, Begun
  <2> QED
    BY <2>1, <2>2, <2>3 DEF QueueInv
<1>25. ASSUME AddDevice
        PROVE  QueueInv'
  <2> USE <1>25 DEF AddDevice, jobVars, queueVars, workerVars
  <2>1. TypeOK'
    BY DEF TypeOK, JobState, CallPc, WorkerPc, BossPc, Ports, Tally, Terminal, NoQueue
  <2>2. Calls' /\ Hands' /\ AllInLine' /\ PaperFits' /\ Service'
    BY Unmoved
  <2>3. BossFits'
    BY DEF TypeOK, BossFits, Taken, Fresh, Tearing, NoQueue, Begun
  <2> QED
    BY <2>1, <2>2, <2>3 DEF QueueInv
<1>26. ASSUME ExitAgent
        PROVE  QueueInv'
  <2> USE <1>26 DEF ExitAgent, jobVars, queueVars, workerVars, portVars
  <2>1. TypeOK'
    BY DEF TypeOK, JobState, CallPc, WorkerPc, BossPc, Ports, Tally, Terminal, NoQueue
  <2>2. Calls' /\ Hands' /\ AllInLine' /\ PaperFits' /\ Service'
    BY Unmoved
  <2>3. BossFits'
    BY DEF TypeOK, BossFits, Taken, Fresh, Tearing, NoQueue, Begun
  <2> QED
    BY <2>1, <2>2, <2>3 DEF QueueInv
<1>27. ASSUME Stop
        PROVE  QueueInv'
  <2> USE <1>27 DEF Stop, jobVars, workerVars, portVars
  <2>1. TypeOK'
    BY DEF TypeOK, JobState, CallPc, WorkerPc, BossPc, Ports, Tally, Terminal, NoQueue
  <2>2. Calls' /\ AllInLine' /\ PaperFits'
    BY Unmoved
  <2>3. Hands'
    BY DEF TypeOK, Hands, HandFits, Taken, Holding, Begun, Terminal
  <2>4. BossFits'
    BY DEF TypeOK, BossFits, Taken, Fresh, Tearing, NoQueue, Begun
  <2>5. Service'
    BY DEF TypeOK, Service, QueueFits
  <2> QED
    BY <2>1, <2>2, <2>3, <2>4, <2>5 DEF QueueInv
<1>28. ASSUME ResumeStopped
        PROVE  QueueInv'
  <2> USE <1>28 DEF ResumeStopped, jobVars, workerVars, portVars
  <2>1. TypeOK'
    BY DEF TypeOK, JobState, CallPc, WorkerPc, BossPc, Ports, Tally, Terminal, NoQueue
  <2>2. Calls' /\ Hands' /\ AllInLine' /\ PaperFits'
    BY Unmoved
  <2>3. BossFits'
    BY DEF TypeOK, BossFits, Taken, Fresh, Tearing, NoQueue, Begun
  <2>4. Service'
    BY DEF TypeOK, Service, QueueFits
  <2> QED
    BY <2>1, <2>2, <2>3, <2>4 DEF QueueInv
<1>29. ASSUME Drain
        PROVE  QueueInv'
  <2> USE <1>29 DEF Drain, jobVars, workerVars, portVars
  <2>1. TypeOK'
    <3>1. draining' \in SUBSET Jobs
      OBVIOUS
    <3>2. <<>> \in Seq(Jobs)
      OBVIOUS
    <3>3. pending' \in [Queues -> Seq(Jobs)]
      BY <3>2 DEF TypeOK
    <3> QED
      BY <3>1, <3>3 DEF TypeOK, BossPc
  <2>2. Calls' /\ Hands' /\ PaperFits' /\ Service'
    BY Unmoved
  <2>3. AllInLine'
    <3>1. \A r \in Queues : pending'[r] = pending[r] \/ pending'[r] = <<>>
      BY DEF TypeOK
    <3>2. ASSUME NEW r \in Queues
          PROVE  PendingFits(r)'
      <4>1. CASE pending'[r] = pending[r]
        BY <4>1 DEF AllInLine, PendingFits, Taken
      <4>2. CASE pending'[r] = <<>>
        BY <4>2, ElemsOfEmpty, EmptyInOrder DEF AllInLine, PendingFits, Taken
      <4> QED
        BY <3>1, <4>1, <4>2
    <3> QED
      BY <3>2 DEF AllInLine
  <2>4. BossFits'
    <3>1. current \in Queues
      BY DEF BossFits, Tearing, TypeOK
    <3>2. \A x \in Jobs : InQueue(current, x) => call[x] = "accepted"
      BY <3>1, PendingIs DEF AllInLine, PendingFits, Taken
    <3>3. \A x \in draining' \cup clearing' : call'[x] = "accepted"
      BY <3>2 DEF BossFits
    <3> QED
      BY <3>3 DEF BossFits, Taken, Fresh, Tearing
  <2> QED
    BY <2>1, <2>2, <2>3, <2>4 DEF QueueInv
<1>30. ASSUME NEW j \in Jobs, CancelDrained(j)
        PROVE  QueueInv'
  <2> USE <1>30 DEF CancelDrained, Withdraw, queueVars, workerVars, portVars
  <2>1. TypeOK'
    BY DEF TypeOK, JobState, CallPc, WorkerPc, BossPc, Ports, Tally, Terminal, NoQueue
  <2>2. AllInLine' /\ PaperFits' /\ Service'
    BY Unmoved
  <2>3. Calls'
    <3>1. call[j] = "accepted" /\ (job[j] = "COMPLETED" => j \in Elems(paper))
      BY DEF BossFits, Calls, CallFits
    <3>2. PICK s \in JobState : s = IF job[j] = "QUEUED" THEN "CANCELLED" ELSE job[j]
      BY DEF TypeOK, JobState, Terminal
    <3> QED
      BY <3>1, <3>2, OneMovesOn DEF Begun
  <2>4. Hands'
    BY HeldMovesOn DEF Begun
  <2>5. BossFits'
    BY DEF TypeOK, BossFits, Taken, Fresh, Tearing, NoQueue, Begun
  <2> QED
    BY <2>1, <2>2, <2>3, <2>4, <2>5 DEF QueueInv
<1>31. ASSUME Join
        PROVE  QueueInv'
  <2> USE <1>31 DEF Join, jobVars, queueVars, portVars
  <2>1. TypeOK'
    BY DEF TypeOK, JobState, CallPc, WorkerPc, BossPc, Ports, Tally, Terminal, NoQueue
  <2>2. Calls' /\ Hands' /\ AllInLine' /\ PaperFits'
    BY Unmoved
  <2>3. BossFits'
    BY DEF TypeOK, BossFits, Taken, Fresh, Tearing, NoQueue, Begun
  <2>4. Service'
    <3>1. current \in Queues /\ state[current] = "STOPPED"
      BY DEF BossFits, Tearing, TypeOK
    <3>2. \A r \in Queues : interrupted'[r] => interrupted[r] \/ r = current
      BY DEF TypeOK
    <3> QED
      BY <3>1, <3>2 DEF Service, QueueFits
  <2> QED
    BY <2>1, <2>2, <2>3, <2>4 DEF QueueInv
<1>32. ASSUME ReadInFlight
        PROVE  QueueInv'
  <2> USE <1>32 DEF ReadInFlight, jobVars, queueVars, workerVars, portVars
  <2>1. TypeOK'
    <3>1. suspect' \in Jobs \cup {NoJob} /\ boss' \in BossPc
      BY DEF TypeOK, BossFits, Tearing, BossPc
    <3> QED
      BY <3>1 DEF TypeOK
  <2>2. Calls' /\ Hands' /\ AllInLine' /\ PaperFits' /\ Service'
    BY Unmoved
  <2>3. BossFits'
    <3>1. current \in Queues
      BY DEF BossFits, Tearing, TypeOK
    <3>2. inFlight[current] \in Jobs \cup {NoJob}
      BY <3>1 DEF TypeOK
    <3>3. inFlight[current] # NoJob => Taken(current, inFlight[current]) /\ job[inFlight[current]] \in Begun
      BY <3>1 DEF Hands, HandFits
    <3> QED
      BY <3>1, <3>2, <3>3 DEF BossFits, Taken, Fresh, Tearing
  <2> QED
    BY <2>1, <2>2, <2>3 DEF QueueInv
<1>33. ASSUME FailInFlight
        PROVE  QueueInv'
  <2> USE <1>33 DEF FailInFlight, Fail, queueVars, workerVars, portVars
  <2>1. TypeOK'
    BY DEF TypeOK, JobState, CallPc, WorkerPc, BossPc, Ports, Tally, Terminal, NoQueue
  <2>2. AllInLine' /\ PaperFits' /\ Service'
    BY Unmoved
  <2>3. Calls'
    <3>1. suspect \in Jobs /\ call[suspect] = "accepted"
      BY DEF BossFits, Taken
    <3> QED
      BY <3>1, OneMovesOn DEF Begun
  <2>4. Hands'
    <3>1. suspect \in Jobs /\ via[suspect] \in Queues /\ state[via[suspect]] = "STOPPED"
      BY DEF BossFits, Taken, Tearing, TypeOK, NoQueue
    <3> QED
      BY <3>1, HeldMovesOn DEF Begun
  <2>5. BossFits'
    BY DEF TypeOK, BossFits, Taken, Fresh, Tearing, NoQueue, Begun
  <2> QED
    BY <2>1, <2>2, <2>3, <2>4, <2>5 DEF QueueInv
<1>34. ASSUME Build
        PROVE  QueueInv'
  <2> USE <1>34 DEF Build, jobVars, portVars
  <2>1. TypeOK'
    <3>1. CASE after = "build"
      <4>1. NextOne \in Queues
        BY <3>1 DEF BossFits, NextOne, Fresh
      <4>2. worker' \in [Queues -> WorkerPc] /\ state' \in [Queues -> {"NEW", "RUNNING", "STOPPED"}]
        BY <3>1 DEF TypeOK, WorkerPc
      <4>3. paused' \in [Queues -> BOOLEAN]
        BY <3>1 DEF TypeOK
      <4> QED
        BY <3>1, <4>1, <4>2, <4>3 DEF TypeOK, BossPc
    <3>2. CASE after # "build"
      BY <3>2 DEF TypeOK, BossPc
    <3> QED
      BY <3>1, <3>2
  <2>2. Calls' /\ PaperFits'
    BY Unmoved
  <2>3. Hands'
    BY DEF TypeOK, Hands, HandFits, Taken, Holding, Begun, Terminal
  <2>4. AllInLine'
    BY DEF TypeOK, AllInLine, PendingFits, Taken, Holding
  <2>5. BossFits'
    <3>1. boss' \in {"idle", "exited"}
      OBVIOUS
    <3>2. current' # NoQueue => state'[current'] # "NEW"
      <4>1. CASE after = "build"
        <5>1. NextOne \in Queues
          BY <4>1 DEF BossFits, NextOne, Fresh
        <5> QED
          BY <4>1, <5>1 DEF TypeOK
      <4>2. CASE after # "build"
        BY <4>2 DEF BossFits
      <4> QED
        BY <4>1, <4>2
    <3> QED
      BY <3>1, <3>2 DEF BossFits, Tearing
  <2>6. Service'
    <3>1. CASE after = "build"
      <4>1. PICK n \in Queues : n = NextOne /\ state[n] = "NEW"
        BY <3>1 DEF BossFits, NextOne, Fresh
      <4>2. QueueFits(n)'
        <5>1. state'[n] = "RUNNING" /\ worker'[n] = "loop"
          BY <3>1, <4>1 DEF TypeOK
        <5> QED
          BY <4>1, <5>1 DEF Service, QueueFits
      <4>3. ASSUME NEW r \in Queues, r # n
            PROVE  QueueFits(r)'
        <5>1. state'[r] = state[r] /\ worker'[r] = worker[r] /\ paused'[r] = paused[r]
          BY <3>1, <4>1, <4>3 DEF TypeOK
        <5> QED
          BY <5>1 DEF Service, QueueFits
      <4> QED
        BY <4>2, <4>3 DEF Service
    <3>2. CASE after # "build"
      BY <3>2 DEF Service, QueueFits
    <3> QED
      BY <3>1, <3>2
  <2> QED
    BY <2>1, <2>2, <2>3, <2>4, <2>5, <2>6 DEF QueueInv
<1>35. CASE UNCHANGED vars
  <2>1. TypeOK'
    BY <1>35 DEF TypeOK, vars, jobVars, queueVars, workerVars, bossVars, portVars
  <2> QED
    BY <1>35, <2>1, Unmoved DEF QueueInv, vars, jobVars, queueVars, workerVars, bossVars, portVars
<1>36. CASE \E j \in Jobs : Submit(j) \/ CancelRequested(j) \/ CancelCleared(j)
  BY <1>36, <1>1, <1>2, <1>3, <1>4, <1>5, <1>6, <1>7 DEF Submit
<1>37. CASE \E q \in Queues : Pause(q) \/ Resume(q) \/ Clear(q) \/ Worker(q)
  BY <1>37, <1>8, <1>9, <1>10, <1>11, <1>12, <1>13, <1>14, <1>15, <1>16, <1>17, <1>18, <1>19
  DEF Worker
<1>38. CASE \E p \in Ports : Disconnect(p) \/ Connect(p)
  BY <1>38, <1>20, <1>21
<1>39. CASE Reconcile
  BY <1>39, <1>22, <1>23, <1>24, <1>25, <1>26 DEF Reconcile
<1>40. CASE Teardown
  BY <1>40, <1>27, <1>28, <1>29, <1>30, <1>31, <1>32, <1>33, <1>34 DEF Teardown
<1> QED
  BY <1>35, <1>36, <1>37, <1>38, <1>39, <1>40 DEF Next

\* The invariant holds of every queue the device ever has.
THEOREM QueueStaysSound == Spec => []QueueInv
<1> QED
  BY QueueInitInv, QueueNextInv, PTL DEF Spec

\* However many jobs, callers, queues, pauses and faults: not one byte of a
\* cancelled job has gone to the printer.
THEOREM CancelledStaysBlank == Spec => []CancelledIsBlank
<1>1. QueueInv => CancelledIsBlank
  BY DEF QueueInv, Calls, CallFits, CancelledIsBlank, Begun
<1> QED
  BY <1>1, QueueStaysSound, PTL

\* Jobs reach the paper once, in the order their queue accepted them, and a job
\* reads COMPLETED only if it did.
THEOREM PaperIsInOrder == Spec => []PrintedInOrder
<1>1. QueueInv => PrintedInOrder
  <2> SUFFICES ASSUME QueueInv PROVE PrintedInOrder
    OBVIOUS
  <2>1. Members(paper) = Elems(paper)
    BY DEF Members, Elems
  <2>2. PrintedOnce
    BY <2>1 DEF QueueInv, PaperFits, Calls, CallFits, PrintedOnce, NoRepeat
  <2> QED
    BY <2>1, <2>2 DEF QueueInv, PaperFits, PrintedInOrder
<1> QED
  BY <1>1, QueueStaysSound, PTL

\* A running queue keeps the worker that drains it, whatever its jobs do, and a
\* pause lets one more job through at most.
THEOREM QueueServesAsTold == Spec => []ServesAsTold
<1>1. QueueInv => ServesAsTold
  <2> SUFFICES ASSUME QueueInv PROVE ServesAsTold
    OBVIOUS
  <2>1. StaysInService
    BY DEF QueueInv, Service, QueueFits, StaysInService
  <2>2. PauseLetsOneThrough
    BY DEF QueueInv, Service, QueueFits, PauseLetsOneThrough
  <2> QED
    BY <2>1, <2>2 DEF ServesAsTold
<1> QED
  BY <1>1, QueueStaysSound, PTL

\* Outside a teardown no step of anyone changes how a job ended.
THEOREM OutcomesAreFinal == Spec => OutcomeIsFinal
<1> DEFINE Final == \A j \in Jobs : job[j] \in Terminal /\ job'[j] # job[j]
                                       => via[j] # NoQueue /\ state[via[j]] = "STOPPED"
<1>1. QueueInv /\ [Next]_vars => [Final]_vars
  <2> SUFFICES ASSUME QueueInv, Next, NEW j \in Jobs, job[j] \in Terminal, job'[j] # job[j]
               PROVE  via[j] # NoQueue /\ state[via[j]] = "STOPPED"
    OBVIOUS
  <2> USE DEF QueueInv
  <2>0. job \in [Jobs -> JobState] /\ 0 \notin Queues
    BY DEF TypeOK, Queues
  <2>1. CASE \E k \in Jobs : Submit(k) \/ CancelRequested(k) \/ CancelCleared(k)
    <3>1. PICK k \in Jobs : Submit(k) \/ CancelRequested(k) \/ CancelCleared(k)
      BY <2>1
    <3>2. \A s : job' = [job EXCEPT ![k] = s] => j = k /\ job'[k] = s
      BY <2>0
    <3>3. Submit(k) => job[k] \in {"none", "QUEUED"}
      BY DEF Submit, Look, CheckState, CheckPaused, CheckPort, Offer, Calls, CallFits, Asking
    <3>4. \/ UNCHANGED job
          \/ job[k] \in {"none", "QUEUED"} /\ \E s : job' = [job EXCEPT ![k] = s]
          \/ job' = [job EXCEPT ![k] = IF job[k] = "QUEUED" THEN "CANCELLED" ELSE job[k]]
      BY <3>1, <3>3 DEF Submit, Look, CheckState, CheckPaused, CheckPort, Offer, Refuse, Pass, Fail,
                   Withdraw, CancelRequested, CancelCleared
    <3> QED
      BY <3>2, <3>4 DEF Terminal
  <2>2. CASE \E q \in Queues : Pause(q) \/ Resume(q) \/ Clear(q) \/ Worker(q)
    <3>1. PICK q \in Queues : Pause(q) \/ Resume(q) \/ Clear(q) \/ Worker(q)
      BY <2>2
    <3>2. CASE UNCHANGED job
      BY <3>2
    <3>3. CASE BeginPrinting(q)
      BY <2>0, <3>3 DEF BeginPrinting, Begin, Terminal
    <3>4. CASE Record(q)
      <4>1. hand[q] \in Jobs /\ via[hand[q]] = q /\ (state[q] = "STOPPED" \/ job[hand[q]] = "PRINTING")
        BY <3>4 DEF Record, Hands, HandFits, Taken, Holding
      <4>2. j = hand[q]
        BY <2>0, <3>4 DEF Record, Complete, Fail
      <4> QED
        BY <2>0, <4>1, <4>2 DEF Terminal, NoQueue
    <3> QED
      BY <3>1, <3>2, <3>3, <3>4 DEF Pause, Resume, Clear, Worker, Gate, Poll, MarkInFlight, PayloadGone,
                                  StartWrite, EndWrite, ReleaseJob, jobVars
  <2>3. CASE \E p \in Ports : Disconnect(p) \/ Connect(p)
    BY <2>3 DEF Disconnect, Connect, jobVars
  <2>4. CASE Reconcile
    BY <2>4 DEF Reconcile, ChangeCapacity, ChangePort, RemoveDevice, AddDevice, ExitAgent, jobVars
  <2>5. CASE Teardown
    <3>1. CASE UNCHANGED job
      BY <3>1
    <3>2. CASE \E k \in Jobs : CancelDrained(k)
      BY <2>0, <3>2 DEF CancelDrained, Withdraw, Terminal
    <3>3. CASE FailInFlight
      <4>1. suspect \in Jobs /\ via[suspect] = current /\ current # NoQueue /\ state[current] = "STOPPED"
        BY <3>3 DEF FailInFlight, BossFits, Taken, Tearing
      <4>2. j = suspect
        BY <2>0, <3>3, <4>1 DEF FailInFlight, Fail
      <4> QED
        BY <4>1, <4>2
    <3> QED
      BY <2>5, <3>1, <3>2, <3>3 DEF Teardown, Stop, ResumeStopped, Drain, Join, ReadInFlight, Build, jobVars
  <2> QED
    BY <2>1, <2>2, <2>3, <2>4, <2>5 DEF Next
<1> QED
  BY <1>1, QueueStaysSound, PTL DEF Spec, OutcomeIsFinal

-----------------------------------------------------------------------------
(* The renderer: what a line's commands do to a printer that remembers.      *)

Texts     == SpanStyles \cup Solo \cup {"rule"}
Cells     == [text : Texts, style : Texts]
PaperRows == [align : LineAligns, row : Seq(Cells)]
Printers  == [style : SpanStyles, align : LineAligns, row : Seq(Cells), out : Seq(PaperRows)]
Configs   == [style : SpanStyles, align : LineAligns]
Commands  ==
    [do : {"style"}, style : SpanStyles, align : LineAligns] \cup [do : {"align"}, align : LineAligns]
    \cup [do : {"text"}, text : Texts] \cup [do : {"lf", "feed", "cut", "drawer"}]
    \cup [do : {"symbol"}, what : Solo]
Renderings == [commands : Seq(Commands), active : Configs \cup {NotKnown}]
Ruled      == [style |-> "plain", text |-> "rule"]
Spans      == {SpanIn(style) : style \in SpanStyles} \cup {Ruled}

\* A cell is in the style its author gave it.
CellFits(c)   == c.style = c.text \/ c = Ruled
RowFits(row)  == \A i \in DOMAIN row : CellFits(row[i])
RowsFit(p)  == RowFits(p.row) /\ \A r \in DOMAIN p.out : RowFits(p.out[r].row)

\* Where the printer is as a line begins.
Start == [style |-> printer.style, align |-> printer.align, row |-> printer.row, out |-> <<>>]

\* However few of the commands arrive, what is on paper fits.
AllFit(commands) == \A n \in 0 .. Len(commands) : RowsFit(Works(SubSeq(commands, 1, n)))

\* What the renderer takes for the style in effect is, and between rows the whole of it.
StyleKnown(active, p) == active = NotKnown \/ active.style = p.style
Known(active, p)      == active = NotKnown \/ active = [style |-> p.style, align |-> p.align]

\* A rendering the printer can follow, in every prefix.
Follows(r) == r \in Renderings /\ AllFit(r.commands) /\ StyleKnown(r.active, Works(r.commands))

\* A line as the renderer gets it.
WireLines == [spans : Seq(Spans), align : LineAligns, directives : Seq(Emitted)]
Wire(l) ==
    /\ l \in WireLines /\ Len(l.spans) <= RowWidth
    /\ \A i \in DOMAIN l.directives : l.directives[i] \in Alone =>
          l.spans = <<>> /\ \A j \in DOMAIN l.directives : j # i => l.directives[j] = "drawer"

PrinterFits ==
    /\ printer \in [style : SpanStyles, align : LineAligns, row : Seq(Cells)] /\ RowFits(printer.row)
    /\ printed \in Seq(PaperRows)
    /\ cache \in Configs \cup {NotKnown}
EscInv ==
    /\ PrinterFits
    /\ rendering # Idle => rendering \in [from : {"server", "console"}, linefeed : {"LF", "NONE"}]
    /\ StyleKnown(cache, printer)
    /\ rendering.linefeed = "LF" => printer.row = <<>> /\ Known(cache, printer)
    /\ PrintsAsWritten

\* What a line keeps without its rules is of the line, and no rule.
LEMMA WithoutRulesIs ==
    ASSUME NEW D, NEW s \in Seq(D)
    PROVE  WithoutRules(s) \in Seq({d \in D : d # "rule" /\ \E i \in DOMAIN s : s[i] = d})
<1> DEFINE K == {d \in D : d # "rule" /\ \E i \in DOMAIN s : s[i] = d}
           X == Seq(K)
           G == [p \in (1 .. Len(s)) \X X |-> IF s[p[1]] = "rule" THEN p[2] ELSE Append(p[2], s[p[1]])]
<1>1. Len(s) \in Nat /\ \A k \in 1 .. Len(s) : s[k] = "rule" \/ s[k] \in K
  BY LenProperties
<1> HIDE DEF K
<1>2. G \in [(1 .. Len(s)) \X X -> X]
  BY <1>1
<1>3. <<>> \in X
  OBVIOUS
<1>4. PICK c : IsRun(c, X, <<>>, Len(s), G)
  <2> HIDE DEF G, X
  <2> QED
    BY <1>1, <1>2, <1>3, RunExists
<1>5. c \in [0 .. Len(s) -> X] /\ c[0] = <<>> /\ \A k \in 1 .. Len(s) : c[k] = G[<<k, c[k - 1]>>]
  BY <1>4 DEF IsRun
<1> HIDE DEF X
<1>6. ASSUME NEW k \in 1 .. Len(s)
      PROVE  c[k] = IF s[k] = "rule" THEN c[k - 1] ELSE Append(c[k - 1], s[k])
  <2>1. k - 1 \in 0 .. Len(s)
    BY <1>1
  <2>2. <<k, c[k - 1]>> \in (1 .. Len(s)) \X X
    BY <1>5, <2>1
  <2>3. G[<<k, c[k - 1]>>] = IF s[k] = "rule" THEN c[k - 1] ELSE Append(c[k - 1], s[k])
    BY <2>2
  <2> HIDE DEF G
  <2> QED
    BY <1>5, <2>3
<1> HIDE DEF G
<1> DEFINE Run(g) == g = [n \in 0 .. Len(s) |-> IF n = 0 THEN <<>>
                                                ELSE IF s[n] = "rule" THEN g[n - 1] ELSE Append(g[n - 1], s[n])]
<1>7. Run(c)
  <2>1. \A n \in 0 .. Len(s) : c[n] = IF n = 0 THEN <<>>
                                      ELSE IF s[n] = "rule" THEN c[n - 1] ELSE Append(c[n - 1], s[n])
    <3> SUFFICES ASSUME NEW n \in 0 .. Len(s)
                 PROVE  c[n] = IF n = 0 THEN <<>>
                               ELSE IF s[n] = "rule" THEN c[n - 1] ELSE Append(c[n - 1], s[n])
      OBVIOUS
    <3>1. n = 0 \/ (n \in 1 .. Len(s) /\ n # 0)
      BY <1>1
    <3> QED
      BY <1>5, <1>6, <3>1
  <2>2. c = [n \in 0 .. Len(s) |-> c[n]]
    BY <1>5
  <2> QED
    BY <2>1, <2>2
<1> DEFINE u == CHOOSE g : Run(g)
<1>8. Run(u)
  <2> HIDE DEF Run
  <2> QED
    BY <1>7
<1>9. WithoutRules(s) = u[Len(s)]
  BY DEF WithoutRules
<1> HIDE DEF u
<1>10. u[0] = <<>> /\ \A k \in 1 .. Len(s) : u[k] = IF s[k] = "rule" THEN u[k - 1] ELSE Append(u[k - 1], s[k])
  <2>1. ASSUME NEW n \in 0 .. Len(s)
        PROVE  u[n] = IF n = 0 THEN <<>>
                      ELSE IF s[n] = "rule" THEN u[n - 1] ELSE Append(u[n - 1], s[n])
    BY <1>8, Zenon
  <2>2. 0 \in 0 .. Len(s) /\ \A k \in 1 .. Len(s) : k \in 0 .. Len(s) /\ k # 0
    BY <1>1
  <2> HIDE DEF Run
  <2> QED
    BY ONLY <2>1, <2>2, Zenon
<1> HIDE DEF Run
<1>11. Alike(c, u, Len(s))
  <2>1. GoAlike(c, u, Len(s))
    BY <1>5, <1>6, <1>10 DEF GoAlike
  <2> QED
    BY <1>1, <2>1, RunsAgree
<1>12. c[Len(s)] = u[Len(s)] /\ c[Len(s)] \in X
  <2>1. Len(s) \in 0 .. Len(s)
    BY <1>1
  <2> QED
    BY ONLY <2>1, <1>5, <1>11 DEF Alike
<1> QED
  BY <1>9, <1>12 DEF X, K

\* The printer stays a printer.
LEMMA DoesIs ==
    ASSUME NEW p \in Printers, NEW c \in Commands
    PROVE  Does(p, c) \in Printers
<1>1. RowOut(p) \in Printers /\ RowOut(p).row = <<>> /\ RowOut(p).style = p.style
  <2>1. [align |-> p.align, row |-> p.row] \in PaperRows
    BY DEF Printers, PaperRows
  <2>2. Append(p.out, [align |-> p.align, row |-> p.row]) \in Seq(PaperRows)
    BY <2>1 DEF Printers
  <2>3. p.row \in Seq(Cells) /\ <<>> \in Seq(Cells)
    BY DEF Printers
  <2> DEFINE o == Append(p.out, [align |-> p.align, row |-> p.row])
  <2>4. RowOut(p) = [p EXCEPT !.out = o, !.row = <<>>]
    BY DEF RowOut
  <2> HIDE DEF o
  <2>5. o \in Seq(PaperRows)
    BY <2>2 DEF o
  <2> QED
    BY <2>3, <2>4, <2>5 DEF Printers
<1>2. ASSUME NEW to \in LineAligns PROVE Aligned(p, to) \in Printers
  BY DEF Aligned, Printers
<1>3. CASE c \in [do : {"style"}, style : SpanStyles, align : LineAligns]
  <2>1. c.do = "style" /\ c.style \in SpanStyles /\ c.align \in LineAligns
    BY <1>3
  <2>2. Does(p, c) = [Aligned(p, c.align) EXCEPT !.style = c.style]
    BY <2>1 DEF Does
  <2> QED
    BY <1>2, <2>1, <2>2 DEF Printers
<1>4. CASE c \in [do : {"align"}, align : LineAligns]
  <2>1. c.do = "align" /\ c.align \in LineAligns
    BY <1>4
  <2> QED
    BY <1>2, <2>1 DEF Does
<1>5. CASE c \in [do : {"text"}, text : Texts]
  <2>1. c.do = "text" /\ c.text \in Texts
    BY <1>5
  <2> DEFINE q == IF Len(p.row) = RowWidth THEN RowOut(p) ELSE p
             cell == [text |-> c.text, style |-> p.style]
  <2>2. Does(p, c) = [q EXCEPT !.row = Append(@, cell)]
    BY <2>1 DEF Does
  <2>3. q \in Printers
    BY <1>1
  <2>4. cell \in Cells
    BY <2>1 DEF Cells, Printers, Texts
  <2> HIDE DEF q, cell
  <2>5. Append(q.row, cell) \in Seq(Cells)
    BY <2>3, <2>4 DEF Printers
  <2> QED
    BY <2>2, <2>3, <2>5 DEF Printers
<1>6. CASE c \in [do : {"lf", "feed", "cut", "drawer"}]
  <2>1. c.do \in {"lf", "feed", "cut", "drawer"}
    BY <1>6
  <2> QED
    BY <1>1, <2>1 DEF Does
<1>7. CASE c \in [do : {"symbol"}, what : Solo]
  <2>1. c.do = "symbol" /\ c.what \in Solo
    BY <1>7
  <2> DEFINE new == [align |-> p.align, row |-> <<SpanIn(c.what)>>]
  <2>2. Does(p, c) = [p EXCEPT !.out = Append(@, new)]
    BY <2>1 DEF Does
  <2>3. new \in PaperRows
    <3>1. SpanIn(c.what) \in Cells
      BY <2>1 DEF SpanIn, Cells, Texts
    <3>2. <<SpanIn(c.what)>> \in Seq(Cells)
      BY <3>1
    <3> QED
      BY <3>2 DEF Printers, PaperRows
  <2> HIDE DEF new
  <2>4. Append(p.out, new) \in Seq(PaperRows)
    BY <2>3 DEF Printers
  <2> QED
    BY <2>2, <2>4 DEF Printers
<1> QED
  BY <1>3, <1>4, <1>5, <1>6, <1>7 DEF Commands

\* The printer as it stands between two lines.
PrinterOK == printer \in [style : SpanStyles, align : LineAligns, row : Seq(Cells)]

\* The printer, as a line begins, is a printer.
LEMMA StartIs ==
    ASSUME PrinterOK
    PROVE  Start \in Printers
BY DEF PrinterOK, Start, Printers

\* The printer works through commands one by one.
LEMMA WorksRuns ==
    ASSUME PrinterOK, NEW s \in Seq(Commands)
    PROVE  \E c \in [0 .. Len(s) -> Printers] :
              c[0] = Start /\ (\A k \in 1 .. Len(s) : c[k] = Does(c[k - 1], s[k])) /\ Works(s) = c[Len(s)]
<1> DEFINE X == Printers
           G == [p \in (1 .. Len(s)) \X X |-> Does(p[2], s[p[1]])]
<1>1. Len(s) \in Nat /\ \A k \in 1 .. Len(s) : s[k] \in Commands
  BY LenProperties
<1>2. G \in [(1 .. Len(s)) \X X -> X]
  BY <1>1, DoesIs
<1>3. Start \in X
  BY StartIs
<1>4. PICK c : IsRun(c, X, Start, Len(s), G)
  <2> HIDE DEF G, X
  <2> QED
    BY <1>1, <1>2, <1>3, RunExists
<1>5. c \in [0 .. Len(s) -> X] /\ c[0] = Start /\ \A k \in 1 .. Len(s) : c[k] = G[<<k, c[k - 1]>>]
  BY <1>4 DEF IsRun
<1> HIDE DEF X
<1>6. ASSUME NEW k \in 1 .. Len(s)
      PROVE  c[k] = Does(c[k - 1], s[k])
  <2>1. k - 1 \in 0 .. Len(s)
    BY <1>1
  <2>2. <<k, c[k - 1]>> \in (1 .. Len(s)) \X X
    BY <1>5, <2>1
  <2>3. G[<<k, c[k - 1]>>] = Does(c[k - 1], s[k])
    BY <2>2
  <2> HIDE DEF G
  <2> QED
    BY <1>5, <2>3
<1> HIDE DEF G
<1> DEFINE Run(g) == g = [n \in 0 .. Len(s) |-> IF n = 0 THEN Start ELSE Does(g[n - 1], s[n])]
<1>7. Run(c)
  <2>1. \A n \in 0 .. Len(s) : c[n] = IF n = 0 THEN Start ELSE Does(c[n - 1], s[n])
    <3> SUFFICES ASSUME NEW n \in 0 .. Len(s)
                 PROVE  c[n] = IF n = 0 THEN Start ELSE Does(c[n - 1], s[n])
      OBVIOUS
    <3>1. n = 0 \/ (n \in 1 .. Len(s) /\ n # 0)
      BY <1>1
    <3> QED
      BY <1>5, <1>6, <3>1
  <2>2. c = [n \in 0 .. Len(s) |-> c[n]]
    BY <1>5
  <2> QED
    BY <2>1, <2>2
<1> DEFINE u == CHOOSE g : Run(g)
<1>8. Run(u)
  <2> HIDE DEF Run
  <2> QED
    BY <1>7
<1>9. Works(s) = u[Len(s)]
  BY DEF Works, Start
<1> HIDE DEF u
<1>10. u[0] = Start /\ \A k \in 1 .. Len(s) : u[k] = Does(u[k - 1], s[k])
  <2>1. ASSUME NEW n \in 0 .. Len(s)
        PROVE  u[n] = IF n = 0 THEN Start ELSE Does(u[n - 1], s[n])
    BY <1>8, Zenon
  <2>2. 0 \in 0 .. Len(s) /\ \A k \in 1 .. Len(s) : k \in 0 .. Len(s) /\ k # 0
    BY <1>1
  <2> HIDE DEF Run
  <2> QED
    BY ONLY <2>1, <2>2, Zenon
<1> HIDE DEF Run
<1>11. Alike(c, u, Len(s))
  <2>1. GoAlike(c, u, Len(s))
    BY <1>5, <1>6, <1>10 DEF GoAlike
  <2> QED
    BY <1>1, <2>1, RunsAgree
<1>12. c[Len(s)] = u[Len(s)]
  <2>1. Len(s) \in 0 .. Len(s)
    BY <1>1
  <2> QED
    BY ONLY <2>1, <1>11 DEF Alike
<1> QED
  BY <1>5, <1>6, <1>9, <1>12 DEF X

\* And so it is when it has worked through any commands.
LEMMA WorksIs ==
    ASSUME PrinterOK, NEW s \in Seq(Commands)
    PROVE  Works(s) \in Printers
<1>1. Len(s) \in Nat
  BY LenProperties
<1> QED
  BY <1>1, WorksRuns

\* Nothing to do leaves the printer as it is, and one command more is done last.
LEMMA WorksOfAppend ==
    ASSUME PrinterOK, NEW s \in Seq(Commands), NEW e \in Commands
    PROVE  /\ Works(<<>>) = Start /\ Works(s) \in Printers
           /\ Works(Append(s, e)) = Does(Works(s), e)
<1>0. Len(s) \in Nat /\ Works(s) \in Printers
  BY WorksRuns, LenProperties
<1>1. Works(<<>>) = Start
  <2>1. <<>> \in Seq(Commands) /\ Len(<<>>) = 0
    OBVIOUS
  <2>2. PICK c \in [0 .. Len(<<>>) -> Printers] : c[0] = Start /\ Works(<<>>) = c[Len(<<>>)]
    BY <2>1, WorksRuns
  <2> QED
    BY <2>1, <2>2
<1> DEFINE t == Append(s, e)
<1>2. /\ t \in Seq(Commands) /\ Len(t) = Len(s) + 1 /\ Len(s) \in Nat /\ t[Len(s) + 1] = e
      /\ \A k \in 1 .. Len(s) : t[k] = s[k]
  BY AppendProperties, LenProperties
<1> HIDE DEF t
<1>3. PICK c \in [0 .. Len(s) -> Printers] :
          c[0] = Start /\ (\A k \in 1 .. Len(s) : c[k] = Does(c[k - 1], s[k])) /\ Works(s) = c[Len(s)]
  BY WorksRuns
<1>4. PICK d \in [0 .. Len(t) -> Printers] :
          d[0] = Start /\ (\A k \in 1 .. Len(t) : d[k] = Does(d[k - 1], t[k])) /\ Works(t) = d[Len(t)]
  BY <1>2, WorksRuns
<1>5. Alike(c, d, Len(s))
  <2>1. GoAlike(c, d, Len(s))
    <3> SUFFICES ASSUME NEW k \in 1 .. Len(s), c[k - 1] = d[k - 1] PROVE c[k] = d[k]
      BY <1>3, <1>4 DEF GoAlike
    <3>1. k \in 1 .. Len(t) /\ t[k] = s[k]
      BY <1>2
    <3> QED
      BY <1>3, <1>4, <3>1
  <2> QED
    BY <1>0, <2>1, RunsAgree
<1>6. c[Len(s)] = d[Len(s)]
  <2>1. Len(s) \in 0 .. Len(s)
    BY <1>0
  <2> QED
    BY ONLY <2>1, <1>5 DEF Alike
<1>7. d[Len(s) + 1] = Does(d[Len(s)], e)
  <2>1. Len(s) + 1 \in 1 .. Len(t) /\ Len(s) + 1 - 1 = Len(s)
    BY <1>2
  <2> QED
    BY <1>2, <1>4, <2>1
<1> QED
  BY <1>0, <1>1, <1>2, <1>3, <1>4, <1>6, <1>7 DEF t

\* What a prefix leaves does not change when a command is appended.
LEMMA AllFitOfAppend ==
    ASSUME PrinterOK, NEW s \in Seq(Commands), NEW e \in Commands, AllFit(s), RowsFit(Does(Works(s), e))
    PROVE  Append(s, e) \in Seq(Commands) /\ AllFit(Append(s, e))
<1> DEFINE t == Append(s, e)
<1>1. /\ t \in Seq(Commands) /\ Len(t) = Len(s) + 1 /\ Len(s) \in Nat
      /\ \A k \in 1 .. Len(s) : t[k] = s[k]
  BY AppendProperties, LenProperties
<1>2. /\ SubSeq(t, 1, Len(s) + 1) = t
      /\ \A n \in 0 .. Len(s) : SubSeq(t, 1, n) = SubSeq(s, 1, n)
  BY PrefixOfAppend
<1>3. Works(t) = Does(Works(s), e)
  BY WorksOfAppend
<1> HIDE DEF t
<1>4. ASSUME NEW n \in 0 .. Len(t) PROVE RowsFit(Works(SubSeq(t, 1, n)))
  <2>1. n = Len(s) + 1 \/ n \in 0 .. Len(s)
    BY <1>1
  <2>2. CASE n = Len(s) + 1
    BY <1>2, <1>3, <2>2
  <2>3. CASE n \in 0 .. Len(s)
    BY <1>2, <2>3 DEF AllFit
  <2> QED
    BY <2>1, <2>2, <2>3
<1> QED
  BY <1>1, <1>4 DEF AllFit, t

\* Sending out a row, and its alignment, takes nothing from what fits.
LEMMA RowOutFits ==
    ASSUME NEW p \in Printers, RowsFit(p)
    PROVE  RowsFit(RowOut(p)) /\ RowOut(p).style = p.style /\ RowOut(p).row = <<>>
           /\ RowOut(p).out = Append(p.out, [align |-> p.align, row |-> p.row])
           /\ RowOut(p).align = p.align
<1> DEFINE new == [align |-> p.align, row |-> p.row]
           o == Append(p.out, new)
<1>1. new \in PaperRows /\ p.out \in Seq(PaperRows)
  BY DEF Printers, PaperRows
<1>2. RowOut(p) = [p EXCEPT !.out = o, !.row = <<>>]
  BY DEF RowOut
<1>3. RowOut(p).out = o /\ RowOut(p).row = <<>> /\ RowOut(p).style = p.style /\ RowOut(p).align = p.align
  <2> HIDE DEF o
  <2> QED
    BY <1>2 DEF Printers
<1>4. /\ DOMAIN o = 1 .. Len(p.out) + 1 /\ o[Len(p.out) + 1] = new
      /\ \A i \in 1 .. Len(p.out) : o[i] = p.out[i]
      /\ DOMAIN p.out = 1 .. Len(p.out) /\ Len(p.out) \in Nat
  BY <1>1, AppendProperties, LenProperties
<1> HIDE DEF o
<1>5. \A r \in DOMAIN o : RowFits(o[r].row)
  <2> SUFFICES ASSUME NEW r \in DOMAIN o PROVE RowFits(o[r].row)
    OBVIOUS
  <2>1. r = Len(p.out) + 1 \/ r \in 1 .. Len(p.out)
    BY <1>4
  <2> QED
    BY <1>4, <2>1 DEF RowsFit
<1>6. RowFits(<<>>)
  BY DEF RowFits
<1> QED
  BY <1>3, <1>5, <1>6 DEF RowsFit, o

\* A row that fits goes on fitting with one more cell that does.
LEMMA AppendedFits ==
    ASSUME NEW row \in Seq(Cells), NEW cell \in Cells, RowFits(row), CellFits(cell)
    PROVE  RowFits(Append(row, cell))
<1>1. /\ DOMAIN Append(row, cell) = 1 .. Len(row) + 1 /\ Append(row, cell)[Len(row) + 1] = cell
      /\ \A i \in 1 .. Len(row) : Append(row, cell)[i] = row[i]
      /\ DOMAIN row = 1 .. Len(row) /\ Len(row) \in Nat
  BY AppendProperties, LenProperties
<1> SUFFICES ASSUME NEW r \in DOMAIN Append(row, cell) PROVE CellFits(Append(row, cell)[r])
  BY DEF RowFits
<1>2. r = Len(row) + 1 \/ r \in 1 .. Len(row)
  BY <1>1
<1> QED
  BY <1>1, <1>2 DEF RowFits

\* A symbol is a row of its own, under the alignment in effect.
LEMMA SymbolDoes ==
    ASSUME NEW p \in Printers, NEW d \in Solo
    PROVE  LET q == Does(p, [do |-> "symbol", what |-> d])
               new == [align |-> p.align, row |-> <<SpanIn(d)>>]
           IN  /\ q.out = Append(p.out, new) /\ q.row = p.row /\ q.style = p.style /\ q.align = p.align
               /\ new \in PaperRows /\ RowFits(new.row)
<1> DEFINE c == [do |-> "symbol", what |-> d]
           new == [align |-> p.align, row |-> <<SpanIn(d)>>]
           o == Append(p.out, new)
<1>1. Does(p, c) = [p EXCEPT !.out = o]
  BY DEF Does
<1>2. SpanIn(d) \in Cells /\ CellFits(SpanIn(d))
  BY DEF SpanIn, Cells, Texts, CellFits
<1>3. <<SpanIn(d)>> \in Seq(Cells) /\ RowFits(<<SpanIn(d)>>)
  BY <1>2 DEF RowFits
<1>4. new \in PaperRows
  BY <1>3 DEF PaperRows, Printers
<1>5. Does(p, c).out = o /\ Does(p, c).row = p.row /\ Does(p, c).style = p.style /\ Does(p, c).align = p.align
  <2> HIDE DEF o, c
  <2> QED
    BY <1>1 DEF Printers
<1> QED
  BY <1>3, <1>4, <1>5

\* A command that prints in the style of its text leaves paper that fits.
LEMMA DoesFits ==
    ASSUME NEW p \in Printers, RowsFit(p), NEW c \in Commands,
           c.do = "text" => CellFits([text |-> c.text, style |-> p.style])
    PROVE  RowsFit(Does(p, c))
<1>1. RowsFit(RowOut(p)) /\ RowOut(p).style = p.style
  BY RowOutFits
<1>2. ASSUME NEW to \in LineAligns PROVE RowsFit(Aligned(p, to)) /\ Aligned(p, to) \in Printers
  <2>1. Aligned(p, to).row = p.row /\ Aligned(p, to).out = p.out /\ Aligned(p, to) \in Printers
    BY DEF Aligned, Printers
  <2> QED
    BY <2>1 DEF RowsFit
<1>3. CASE c \in [do : {"style"}, style : SpanStyles, align : LineAligns]
  <2>1. c.do = "style" /\ c.style \in SpanStyles /\ c.align \in LineAligns
    BY <1>3
  <2>2. Does(p, c) = [Aligned(p, c.align) EXCEPT !.style = c.style]
    BY <2>1 DEF Does
  <2>3. Does(p, c).row = Aligned(p, c.align).row /\ Does(p, c).out = Aligned(p, c.align).out
    BY <1>2, <2>1, <2>2 DEF Printers
  <2> QED
    BY <1>2, <2>1, <2>3 DEF RowsFit
<1>4. CASE c \in [do : {"align"}, align : LineAligns]
  <2>1. c.do = "align" /\ c.align \in LineAligns
    BY <1>4
  <2> QED
    BY <1>2, <2>1 DEF Does
<1>5. CASE c \in [do : {"text"}, text : Texts]
  <2>1. c.do = "text" /\ c.text \in Texts
    BY <1>5
  <2> DEFINE q == IF Len(p.row) = RowWidth THEN RowOut(p) ELSE p
             cell == [text |-> c.text, style |-> p.style]
  <2>2. Does(p, c) = [q EXCEPT !.row = Append(@, cell)]
    BY <2>1 DEF Does
  <2>3. q \in Printers /\ RowsFit(q)
    <3>1. RowOut(p) = Does(p, [do |-> "lf"]) /\ [do |-> "lf"] \in Commands
      BY DEF Does, Commands
    <3> QED
      BY <1>1, <3>1, DoesIs
  <2>4. cell \in Cells /\ CellFits(cell)
    BY <2>1 DEF Cells, Printers, Texts
  <2> HIDE DEF q, cell
  <2>5. RowFits(Append(q.row, cell))
    BY <2>3, <2>4, AppendedFits DEF Printers, RowsFit
  <2>6. Does(p, c).row = Append(q.row, cell) /\ Does(p, c).out = q.out
    BY <2>2, <2>3 DEF Printers
  <2> QED
    BY <2>3, <2>5, <2>6 DEF RowsFit
<1>6. CASE c \in [do : {"lf", "feed", "cut", "drawer"}]
  <2>1. c.do \in {"lf", "feed", "cut", "drawer"}
    BY <1>6
  <2> QED
    BY <1>1, <2>1 DEF Does
<1>7. CASE c \in [do : {"symbol"}, what : Solo]
  <2>1. PICK d \in Solo : c = [do |-> "symbol", what |-> d]
    BY <1>7
  <2> DEFINE new == [align |-> p.align, row |-> <<SpanIn(d)>>]
             q == Does(p, c)
  <2>2. q.out = Append(p.out, new) /\ q.row = p.row /\ new \in PaperRows /\ RowFits(new.row) /\ p.out \in Seq(PaperRows)
    BY <2>1, SymbolDoes DEF Printers
  <2> HIDE DEF new, q
  <2>3. /\ DOMAIN q.out = 1 .. Len(p.out) + 1 /\ q.out[Len(p.out) + 1] = new
        /\ \A i \in 1 .. Len(p.out) : q.out[i] = p.out[i]
        /\ DOMAIN p.out = 1 .. Len(p.out) /\ Len(p.out) \in Nat
    BY <2>2, AppendProperties, LenProperties
  <2>4. \A r \in DOMAIN q.out : RowFits(q.out[r].row)
    <3> SUFFICES ASSUME NEW r \in DOMAIN q.out PROVE RowFits(q.out[r].row)
      OBVIOUS
    <3>1. r = Len(p.out) + 1 \/ r \in 1 .. Len(p.out)
      BY <2>3
    <3> QED
      BY <2>2, <2>3, <3>1 DEF RowsFit
  <2> QED
    BY <2>2, <2>4 DEF RowsFit, q
<1> QED
  BY <1>3, <1>4, <1>5, <1>6, <1>7 DEF Commands

\* What all commands leave is what the last prefix leaves.
LEMMA AllFitLast ==
    ASSUME NEW s \in Seq(Commands), AllFit(s)
    PROVE  RowsFit(Works(s))
<1>1. Len(s) \in 0 .. Len(s)
  BY LenProperties
<1> DEFINE q == SubSeq(s, 1, Len(s))
<1>2. q \in Seq(Commands) /\ Len(q) = Len(s) /\ \A i \in 1 .. Len(s) : q[i] = s[i]
  BY <1>1, PrefixIs
<1>3. RowsFit(Works(q))
  BY <1>1 DEF AllFit
<1> HIDE DEF q
<1>4. q = s
  BY <1>2, SeqEqual
<1> QED
  BY <1>3, <1>4

\* One command written, and done.
LEMMA WroteSound ==
    ASSUME PrinterOK, NEW r \in Renderings, AllFit(r.commands), NEW c \in Commands,
           c.do = "text" => CellFits([text |-> c.text, style |-> Works(r.commands).style])
    PROVE  /\ Wrote(r, c) \in Renderings /\ AllFit(Wrote(r, c).commands) /\ Wrote(r, c).active = r.active
           /\ Works(Wrote(r, c).commands) = Does(Works(r.commands), c)
<1>1. r.commands \in Seq(Commands)
  BY DEF Renderings
<1>2. Works(r.commands) \in Printers /\ RowsFit(Works(r.commands))
  BY <1>1, AllFitLast, WorksRuns
<1>3. RowsFit(Does(Works(r.commands), c))
  BY <1>2, DoesFits
<1> DEFINE t == Append(r.commands, c)
<1>4. t \in Seq(Commands) /\ AllFit(t)
  BY <1>1, <1>3, AllFitOfAppend
<1>5. Works(t) = Does(Works(r.commands), c)
  BY <1>1, WorksOfAppend
<1>6. Wrote(r, c) = [r EXCEPT !.commands = t]
  BY DEF Wrote
<1> HIDE DEF t
<1>7. Wrote(r, c).commands = t /\ Wrote(r, c).active = r.active /\ Wrote(r, c) \in Renderings
  BY <1>4, <1>6 DEF Renderings
<1> QED
  BY <1>4, <1>5, <1>7

\* A span is written in its style, on the row begun; and between rows, or under the
\* alignment of the row, what the renderer takes for the style in effect is.
LEMMA WriteStyledFollows ==
    ASSUME PrinterOK, NEW r, Follows(r), NEW style \in SpanStyles, NEW align \in LineAligns,
           NEW text \in Texts, CellFits([text |-> text, style |-> style])
    PROVE  LET w == WriteStyled(r, style, align, text)
               p == Works(r.commands)
               q == Works(w.commands)
           IN  /\ Follows(w) /\ w.active = [style |-> style, align |-> align]
               /\ Known(r.active, p) /\ (p.row = <<>> \/ p.align = align) /\ Len(p.row) < RowWidth =>
                     /\ q.out = p.out /\ q.row = Append(p.row, [text |-> text, style |-> style])
                     /\ q.align = align /\ q.style = style
<1> DEFINE config == [style |-> style, align |-> align]
           change == [do |-> "style", style |-> style, align |-> align]
           word   == [do |-> "text", text |-> text]
           p == Works(r.commands)
           t == IF r.active = config THEN r ELSE [Wrote(r, change) EXCEPT !.active = config]
           o == Works(t.commands)
           w == Wrote(t, word)
           q == Works(w.commands)
<1>1. change \in Commands /\ word \in Commands /\ config \in Configs
  BY DEF Commands, Configs
<1>2. r \in Renderings /\ AllFit(r.commands) /\ StyleKnown(r.active, p) /\ p \in Printers
  <2>1. r \in Renderings /\ AllFit(r.commands) /\ StyleKnown(r.active, p)
    BY DEF Follows
  <2> QED
    BY <2>1, WorksIs DEF Renderings
<1>3. config # NotKnown
  BY EscAssumption DEF NotKnown
<1> HIDE DEF p
<1>4. /\ t \in Renderings /\ AllFit(t.commands) /\ t.active = config /\ o \in Printers
      /\ o.style = style /\ o.row = p.row /\ o.out = p.out
      /\ Known(r.active, p) /\ (p.row = <<>> \/ p.align = align) => o.align = align
  <2>1. CASE r.active = config
    <3>1. o = p
      BY <2>1 DEF p
    <3>2. p.style = style
      BY <1>2, <1>3, <2>1 DEF StyleKnown
    <3>3. Known(r.active, p) => p.align = align
      BY <1>3, <2>1 DEF Known
    <3> HIDE DEF o
    <3>4. t = r
      BY <2>1
    <3> QED
      BY <1>2, <2>1, <3>1, <3>2, <3>3, <3>4
  <2>2. CASE r.active # config
    <3>1. /\ Wrote(r, change) \in Renderings /\ AllFit(Wrote(r, change).commands)
          /\ Works(Wrote(r, change).commands) = Does(p, change)
      BY <1>1, <1>2, WroteSound DEF p
    <3>2. t = [Wrote(r, change) EXCEPT !.active = config]
      BY <2>2
    <3>3. t \in Renderings /\ t.active = config /\ t.commands = Wrote(r, change).commands
      <4> HIDE DEF t, config, change
      <4> QED
        BY <1>1, <3>1, <3>2 DEF Renderings
    <3>4. o = Does(p, change)
      BY <3>1, <3>3
    <3>5. Does(p, change) = [Aligned(p, align) EXCEPT !.style = style]
      BY DEF Does
    <3>6. Aligned(p, align) \in Printers /\ Aligned(p, align).row = p.row /\ Aligned(p, align).out = p.out
          /\ (p.row = <<>> \/ p.align = align => Aligned(p, align).align = align)
      BY <1>2 DEF Aligned, Printers
    <3>7. /\ Does(p, change).style = style /\ Does(p, change).row = p.row /\ Does(p, change).out = p.out
          /\ (p.row = <<>> \/ p.align = align => Does(p, change).align = align)
      BY <3>5, <3>6 DEF Printers
    <3>8. o \in Printers
      BY <1>1, <1>2, <3>4, DoesIs
    <3> HIDE DEF o, t, change, config
    <3> QED
      BY <3>1, <3>3, <3>4, <3>7, <3>8
  <2> QED
    BY <2>1, <2>2
<1> HIDE DEF t, config, change
<1>5. /\ w \in Renderings /\ AllFit(w.commands) /\ w.active = config
      /\ q = Does(o, word)
  BY <1>1, <1>4, WroteSound
<1>6. /\ q.style = style
      /\ Len(o.row) # RowWidth => q.row = Append(o.row, [text |-> text, style |-> style]) /\ q.out = o.out /\ q.align = o.align
  <2> DEFINE u == IF Len(o.row) = RowWidth THEN RowOut(o) ELSE o
             cell == [text |-> text, style |-> o.style]
  <2>1. Does(o, word) = [u EXCEPT !.row = Append(@, cell)]
    BY DEF Does
  <2>2. u \in Printers /\ u.style = style
    <3>1. RowOut(o) = Does(o, [do |-> "lf"]) /\ [do |-> "lf"] \in Commands
      BY DEF Does, Commands
    <3>2. RowOut(o).style = o.style
      BY <1>4 DEF RowOut, Printers
    <3> QED
      BY <1>4, <3>1, <3>2, DoesIs
  <2>3. Len(o.row) # RowWidth => u = o
    OBVIOUS
  <2> HIDE DEF u, cell, o, w, q, word
  <2>4. q.style = u.style /\ q.row = Append(u.row, cell) /\ q.out = u.out /\ q.align = u.align
    BY <1>5, <2>1, <2>2 DEF Printers
  <2> QED
    BY <1>4, <2>2, <2>3, <2>4 DEF cell
<1>7. WriteStyled(r, style, align, text) = w
  BY DEF WriteStyled, t, config, change
<1>8. Len(p.row) \in Nat
  BY <1>2, LenProperties DEF Printers
<1> HIDE DEF o, w, q, word
<1>9. Follows(w)
  <2>1. StyleKnown(w.active, q)
    BY <1>5, <1>6 DEF StyleKnown, config
  <2> QED
    BY <1>5, <2>1 DEF Follows, q
<1>10. Len(p.row) < RowWidth => Len(o.row) # RowWidth
  BY <1>4, <1>8, EscAssumption
<1>11. Known(r.active, p) /\ (p.row = <<>> \/ p.align = align) /\ Len(p.row) < RowWidth =>
                     /\ q.out = p.out /\ q.row = Append(p.row, [text |-> text, style |-> style])
                     /\ q.align = align /\ q.style = style
  BY <1>4, <1>6, <1>10
<1> QED
  BY <1>5, <1>7, <1>9, <1>11 DEF p, q, config

\* What a directive prints, if it is one that claims the line.
Claimed(d, align) == [align |-> align, row |-> <<IF d = "rule" THEN Ruled ELSE SpanIn(d)>>]

\* A directive done between rows prints what claims the line, and begins no row.
LEMMA EmitFollows ==
    ASSUME PrinterOK, NEW r, Follows(r), NEW d \in Emitted, NEW align \in LineAligns
    PROVE  LET e == Emit(r, d, align)
               p == Works(r.commands)
               q == Works(e.commands)
           IN  /\ Follows(e)
               /\ Known(r.active, p) /\ p.row = <<>> =>
                     /\ q.row = <<>> /\ Known(e.active, q)
                     /\ q.out = IF d \in Alone THEN Append(p.out, Claimed(d, align)) ELSE p.out
<1> DEFINE p == Works(r.commands)
           e == Emit(r, d, align)
           q == Works(e.commands)
<1>1. r \in Renderings /\ AllFit(r.commands) /\ StyleKnown(r.active, p) /\ p \in Printers
  <2>1. r \in Renderings /\ AllFit(r.commands) /\ StyleKnown(r.active, p)
    BY DEF Follows
  <2> QED
    BY <2>1, WorksIs DEF Renderings
<1>2. d \in {"feed", "cut", "drawer", "rule"} \cup Solo
  BY EscAssumption DEF Alone
<1> USE DEF Solo
<1>3. CASE d = "feed"
  <2> DEFINE reset == [do |-> "style", style |-> "plain", align |-> "left"]
             feed  == [do |-> "feed"]
             v == Wrote(r, reset)
             w == Wrote(v, feed)
  <2>1. reset \in Commands /\ feed \in Commands
    BY EscAssumption DEF Commands
  <2>2. v \in Renderings /\ AllFit(v.commands) /\ Works(v.commands) = Does(p, reset)
    BY <1>1, <2>1, WroteSound
  <2> HIDE DEF v
  <2>3. w \in Renderings /\ AllFit(w.commands) /\ Works(w.commands) = Does(Does(p, reset), feed)
    BY <2>1, <2>2, WroteSound
  <2>4. e = [w EXCEPT !.active = NotKnown]
    BY <1>3 DEF Emit, Forgets, v
  <2> HIDE DEF w
  <2>5. e \in Renderings /\ e.commands = w.commands /\ e.active = NotKnown
    <3> HIDE DEF e
    <3> QED
      BY <2>3, <2>4 DEF Renderings
  <2>6. Follows(e) /\ Known(e.active, q)
    BY <2>3, <2>5 DEF Follows, StyleKnown, Known
  <2>7. Does(p, reset).row = p.row /\ Does(p, reset).out = p.out
    <3>1. Does(p, reset) = [Aligned(p, "left") EXCEPT !.style = "plain"]
      BY DEF Does
    <3> QED
      BY <1>1, <3>1, EscAssumption DEF Aligned, Printers
  <2>8. p.row = <<>> => Does(Does(p, reset), feed) = Does(p, reset)
    <3> DEFINE o == Does(p, reset)
    <3> HIDE DEF o
    <3>1. Does(o, feed) = IF o.row = <<>> THEN o ELSE RowOut(o)
      BY DEF Does
    <3> QED
      BY <2>7, <3>1 DEF o
  <2>9. p.row = <<>> => q.row = <<>> /\ q.out = p.out
    BY <2>3, <2>5, <2>7, <2>8
  <2>10. d \notin Alone
    BY <1>3 DEF Alone
  <2> QED
    BY <2>6, <2>9, <2>10
<1>4. CASE d \in {"cut", "drawer"}
  <2> DEFINE c == [do |-> d]
  <2>1. c \in Commands /\ c.do # "text"
    BY <1>4 DEF Commands
  <2>2. Does(p, c) = p
    BY <1>4 DEF Does
  <2>3. e = Wrote(r, c)
    BY <1>4 DEF Emit, Forgets
  <2> HIDE DEF c
  <2>4. e \in Renderings /\ AllFit(e.commands) /\ e.active = r.active /\ q = p
    BY <1>1, <2>1, <2>2, <2>3, WroteSound
  <2>5. Follows(e)
    BY <1>1, <2>4 DEF Follows
  <2>6. d \notin Alone
    BY <1>4 DEF Alone
  <2> QED
    BY <2>4, <2>5, <2>6
<1>5. CASE d \in Solo
  <2> DEFINE turn == [do |-> "align", align |-> align]
             draw == [do |-> "symbol", what |-> d]
             v == Wrote(r, turn)
             w == Wrote(v, draw)
  <2>1. turn \in Commands /\ draw \in Commands
    BY <1>5 DEF Commands
  <2>2. v \in Renderings /\ AllFit(v.commands) /\ Works(v.commands) = Does(p, turn)
    BY <1>1, <2>1, WroteSound
  <2> HIDE DEF v
  <2>3. w \in Renderings /\ AllFit(w.commands) /\ Works(w.commands) = Does(Does(p, turn), draw)
    BY <2>1, <2>2, WroteSound
  <2>4. e = [w EXCEPT !.active = NotKnown]
    BY <1>5 DEF Emit, Forgets, v
  <2> HIDE DEF w
  <2>5. e \in Renderings /\ e.commands = w.commands /\ e.active = NotKnown
    <3> HIDE DEF e
    <3> QED
      BY <2>3, <2>4 DEF Renderings
  <2>6. Follows(e) /\ Known(e.active, q)
    BY <2>3, <2>5 DEF Follows, StyleKnown, Known
  <2>7. Does(p, turn) = Aligned(p, align)
    BY DEF Does
  <2>8. /\ Does(p, turn).row = p.row /\ Does(p, turn).out = p.out
        /\ p.row = <<>> => Does(p, turn).align = align
    BY <1>1, <2>7 DEF Aligned, Printers
  <2>9. Does(p, turn) \in Printers
    BY <1>1, <2>1, DoesIs
  <2>10. d # "rule" /\ d \in Alone
    BY <1>5 DEF Alone
  <2> DEFINE o == Does(p, turn)
  <2> HIDE DEF o
  <2>11. /\ Does(o, draw).out = Append(o.out, [align |-> o.align, row |-> <<SpanIn(d)>>])
         /\ Does(o, draw).row = o.row
    BY <1>5, <2>9, SymbolDoes DEF o
  <2>12. p.row = <<>> => q.row = <<>> /\ q.out = Append(p.out, Claimed(d, align))
    BY <2>3, <2>5, <2>8, <2>10, <2>11 DEF Claimed, o
  <2> QED
    BY <2>6, <2>10, <2>12
<1>6. CASE d = "rule"
  <2> DEFINE w  == WriteStyled(r, "plain", align, "rule")
             lf == [do |-> "lf"]
             o  == Works(w.commands)
             v  == Wrote(w, lf)
  <2>1. "plain" \in SpanStyles /\ "rule" \in Texts /\ CellFits([text |-> "rule", style |-> "plain"])
    BY EscAssumption DEF Texts, CellFits, Ruled
  <2>2. /\ Follows(w) /\ w.active = [style |-> "plain", align |-> align]
        /\ Known(r.active, p) /\ p.row = <<>> /\ Len(p.row) < RowWidth =>
              /\ o.out = p.out /\ o.row = Append(p.row, [text |-> "rule", style |-> "plain"])
              /\ o.align = align /\ o.style = "plain"
    BY <2>1, WriteStyledFollows
  <2>3. lf \in Commands /\ e = v
    BY <1>6 DEF Commands, Emit, Forgets
  <2> HIDE DEF w
  <2>4. w \in Renderings /\ AllFit(w.commands) /\ StyleKnown(w.active, o) /\ o \in Printers
    <3>1. w \in Renderings /\ AllFit(w.commands) /\ StyleKnown(w.active, o)
      BY <2>2 DEF Follows
    <3> QED
      BY <3>1, WorksIs DEF Renderings
  <2>5. v \in Renderings /\ AllFit(v.commands) /\ v.active = w.active /\ Works(v.commands) = Does(o, lf)
    BY <2>3, <2>4, WroteSound
  <2>6. Does(o, lf) = RowOut(o)
    BY DEF Does
  <2> HIDE DEF o, e, p
  <2>7. RowsFit(o)
    BY <2>4, AllFitLast DEF o, Renderings
  <2>8. RowOut(o).style = o.style /\ RowOut(o).row = <<>> /\ RowOut(o).align = o.align
        /\ RowOut(o).out = Append(o.out, [align |-> o.align, row |-> o.row])
    BY <2>4, <2>7, RowOutFits
  <2>9. q = RowOut(o)
    BY <2>3, <2>5, <2>6
  <2> HIDE DEF q
  <2>10. Follows(e)
    <3>1. StyleKnown(e.active, q)
      BY <2>3, <2>4, <2>5, <2>8, <2>9 DEF StyleKnown
    <3> QED
      BY <2>3, <2>5, <3>1 DEF Follows, q
  <2>11. ASSUME Known(r.active, p), p.row = <<>>
         PROVE  /\ q.row = <<>> /\ Known(e.active, q)
                /\ q.out = Append(p.out, Claimed(d, align))
    <3>1. Len(p.row) = 0 /\ 0 < RowWidth
      BY <2>11, EscAssumption
    <3>2. /\ o.out = p.out /\ o.row = Append(<<>>, [text |-> "rule", style |-> "plain"])
          /\ o.align = align /\ o.style = "plain"
      BY <2>2, <2>11, <3>1
    <3>3. o.row = <<Ruled>>
      BY <3>2 DEF Ruled
    <3>4. q.out = Append(p.out, Claimed(d, align))
      BY <1>6, <2>8, <2>9, <3>2, <3>3 DEF Claimed
    <3>5. Known(e.active, q)
      BY <2>2, <2>3, <2>5, <2>8, <2>9, <3>2 DEF Known
    <3> QED
      BY <2>8, <2>9, <3>4, <3>5
  <2>12. d \in Alone
    BY <1>6 DEF Alone
  <2> QED
    BY <2>10, <2>11, <2>12 DEF q, p, e
<1> QED
  BY <1>2, <1>3, <1>4, <1>5, <1>6

\* A span is a cell in the style its author gave it.
LEMMA SpanIs ==
    ASSUME NEW span \in Spans
    PROVE  /\ span.style \in SpanStyles /\ span.text \in Texts /\ span \in Cells
           /\ CellFits([text |-> span.text, style |-> span.style])
           /\ span = [text |-> span.text, style |-> span.style]
<1>1. CASE \E style \in SpanStyles : span = SpanIn(style)
  BY <1>1 DEF SpanIn, Texts, Cells, CellFits
<1>2. CASE span = Ruled
  BY <1>2, EscAssumption DEF Ruled, Texts, Cells, CellFits
<1> QED
  BY <1>1, <1>2 DEF Spans

\* The renderings the printer can follow.
Followers == {r \in Renderings : Follows(r)}

\* A line's spans are written one by one, each a rendering the printer can follow.
LEMMA SpansRun ==
    ASSUME PrinterOK, NEW w, Wire(w), NEW active,
           Follows([commands |-> <<>>, active |-> active])
    PROVE  \E c \in [0 .. Len(w.spans) -> Followers] :
              /\ c[0] = [commands |-> <<>>, active |-> active]
              /\ \A k \in 1 .. Len(w.spans) :
                    c[k] = WriteStyled(c[k - 1], w.spans[k].style, w.align, w.spans[k].text)
              /\ SpansOf(w, active) = c[Len(w.spans)]
<1> DEFINE X == Followers
           s == w.spans
           first == [commands |-> <<>>, active |-> active]
           Turn(r, k) == WriteStyled(r, s[k].style, w.align, s[k].text)
           G == [p \in (1 .. Len(s)) \X X |-> Turn(p[2], p[1])]
<1>1. Len(s) \in Nat /\ (\A k \in 1 .. Len(s) : s[k] \in Spans) /\ w.align \in LineAligns
  BY LenProperties DEF Wire, WireLines
<1>2. G \in [(1 .. Len(s)) \X X -> X]
  <2>1. ASSUME NEW k \in 1 .. Len(s), NEW r \in X PROVE Turn(r, k) \in X
    <3>1. Follows(r)
      BY DEF Followers
    <3>2. s[k].style \in SpanStyles /\ s[k].text \in Texts /\ CellFits([text |-> s[k].text, style |-> s[k].style])
      BY <1>1, SpanIs
    <3>3. Follows(Turn(r, k))
      BY <1>1, <3>1, <3>2, WriteStyledFollows
    <3> HIDE DEF Turn
    <3> QED
      BY <3>3 DEF Followers, Follows
  <2> HIDE DEF Turn, X
  <2> QED
    BY <1>1, <2>1
<1>3. first \in X
  BY DEF Followers, Follows
<1>4. PICK c : IsRun(c, X, first, Len(s), G)
  <2> HIDE DEF G, X
  <2> QED
    BY <1>1, <1>2, <1>3, RunExists
<1>5. c \in [0 .. Len(s) -> X] /\ c[0] = first /\ \A k \in 1 .. Len(s) : c[k] = G[<<k, c[k - 1]>>]
  BY <1>4 DEF IsRun
<1> HIDE DEF X, Turn
<1>6. ASSUME NEW k \in 1 .. Len(s)
      PROVE  c[k] = Turn(c[k - 1], k)
  <2>1. k - 1 \in 0 .. Len(s)
    BY <1>1
  <2>2. <<k, c[k - 1]>> \in (1 .. Len(s)) \X X
    BY <1>5, <2>1
  <2>3. G[<<k, c[k - 1]>>] = Turn(c[k - 1], k)
    BY <2>2
  <2> HIDE DEF G
  <2> QED
    BY <1>5, <2>3
<1> HIDE DEF G
<1> DEFINE Run(g) == g = [n \in 0 .. Len(s) |-> IF n = 0 THEN first ELSE Turn(g[n - 1], n)]
<1>7. Run(c)
  <2>1. \A n \in 0 .. Len(s) : c[n] = IF n = 0 THEN first ELSE Turn(c[n - 1], n)
    <3> SUFFICES ASSUME NEW n \in 0 .. Len(s)
                 PROVE  c[n] = IF n = 0 THEN first ELSE Turn(c[n - 1], n)
      OBVIOUS
    <3>1. n = 0 \/ (n \in 1 .. Len(s) /\ n # 0)
      BY <1>1
    <3> QED
      BY <1>5, <1>6, <3>1
  <2>2. c = [n \in 0 .. Len(s) |-> c[n]]
    BY <1>5
  <2> QED
    BY <2>1, <2>2
<1> DEFINE u == CHOOSE g : Run(g)
<1>8. Run(u)
  <2> HIDE DEF Run
  <2> QED
    BY <1>7
<1>9. SpansOf(w, active) = u[Len(s)]
  BY DEF SpansOf, Turn
<1> HIDE DEF u
<1>10. u[0] = first /\ \A k \in 1 .. Len(s) : u[k] = Turn(u[k - 1], k)
  <2>1. ASSUME NEW n \in 0 .. Len(s)
        PROVE  u[n] = IF n = 0 THEN first ELSE Turn(u[n - 1], n)
    BY <1>8, Zenon
  <2>2. 0 \in 0 .. Len(s) /\ \A k \in 1 .. Len(s) : k \in 0 .. Len(s) /\ k # 0
    BY <1>1
  <2> HIDE DEF Run, first
  <2> QED
    BY ONLY <2>1, <2>2, Zenon
<1> HIDE DEF Run
<1>11. Alike(c, u, Len(s))
  <2>1. GoAlike(c, u, Len(s))
    BY <1>5, <1>6, <1>10 DEF GoAlike
  <2> QED
    BY <1>1, <2>1, RunsAgree
<1>12. c[Len(s)] = u[Len(s)]
  <2>1. Len(s) \in 0 .. Len(s)
    BY <1>1
  <2> QED
    BY ONLY <2>1, <1>11 DEF Alike
<1> QED
  BY <1>5, <1>6, <1>9, <1>12 DEF X, Turn

\* A line's directives are done one by one, after what was begun.
LEMMA DirectivesRun ==
    ASSUME PrinterOK, NEW w, Wire(w), NEW begun, Follows(begun)
    PROVE  \E c \in [0 .. Len(w.directives) -> Followers] :
              /\ c[0] = begun
              /\ \A k \in 1 .. Len(w.directives) : c[k] = Emit(c[k - 1], w.directives[k], w.align)
              /\ DirectivesOf(w, begun) = c[Len(w.directives)]
<1> DEFINE X == Followers
           s == w.directives
           Turn(r, k) == Emit(r, s[k], w.align)
           G == [p \in (1 .. Len(s)) \X X |-> Turn(p[2], p[1])]
<1>1. Len(s) \in Nat /\ (\A k \in 1 .. Len(s) : s[k] \in Emitted) /\ w.align \in LineAligns
  BY LenProperties DEF Wire, WireLines
<1>2. G \in [(1 .. Len(s)) \X X -> X]
  <2>1. ASSUME NEW k \in 1 .. Len(s), NEW r \in X PROVE Turn(r, k) \in X
    <3>1. Follows(r)
      BY DEF Followers
    <3>2. Follows(Turn(r, k))
      BY <1>1, <3>1, EmitFollows
    <3> HIDE DEF Turn
    <3> QED
      BY <3>2 DEF Followers, Follows
  <2> HIDE DEF Turn, X
  <2> QED
    BY <1>1, <2>1
<1>3. begun \in X
  BY DEF Followers, Follows
<1>4. PICK c : IsRun(c, X, begun, Len(s), G)
  <2> HIDE DEF G, X
  <2> QED
    BY <1>1, <1>2, <1>3, RunExists
<1>5. c \in [0 .. Len(s) -> X] /\ c[0] = begun /\ \A k \in 1 .. Len(s) : c[k] = G[<<k, c[k - 1]>>]
  BY <1>4 DEF IsRun
<1> HIDE DEF X, Turn
<1>6. ASSUME NEW k \in 1 .. Len(s)
      PROVE  c[k] = Turn(c[k - 1], k)
  <2>1. k - 1 \in 0 .. Len(s)
    BY <1>1
  <2>2. <<k, c[k - 1]>> \in (1 .. Len(s)) \X X
    BY <1>5, <2>1
  <2>3. G[<<k, c[k - 1]>>] = Turn(c[k - 1], k)
    BY <2>2
  <2> HIDE DEF G
  <2> QED
    BY <1>5, <2>3
<1> HIDE DEF G
<1> DEFINE Run(g) == g = [n \in 0 .. Len(s) |-> IF n = 0 THEN begun ELSE Turn(g[n - 1], n)]
<1>7. Run(c)
  <2>1. \A n \in 0 .. Len(s) : c[n] = IF n = 0 THEN begun ELSE Turn(c[n - 1], n)
    <3> SUFFICES ASSUME NEW n \in 0 .. Len(s)
                 PROVE  c[n] = IF n = 0 THEN begun ELSE Turn(c[n - 1], n)
      OBVIOUS
    <3>1. n = 0 \/ (n \in 1 .. Len(s) /\ n # 0)
      BY <1>1
    <3> QED
      BY <1>5, <1>6, <3>1
  <2>2. c = [n \in 0 .. Len(s) |-> c[n]]
    BY <1>5
  <2> QED
    BY <2>1, <2>2
<1> DEFINE u == CHOOSE g : Run(g)
<1>8. Run(u)
  <2> HIDE DEF Run
  <2> QED
    BY <1>7
<1>9. DirectivesOf(w, begun) = u[Len(s)]
  BY DEF DirectivesOf, Turn
<1> HIDE DEF u
<1>10. u[0] = begun /\ \A k \in 1 .. Len(s) : u[k] = Turn(u[k - 1], k)
  <2>1. ASSUME NEW n \in 0 .. Len(s)
        PROVE  u[n] = IF n = 0 THEN begun ELSE Turn(u[n - 1], n)
    BY <1>8, Zenon
  <2>2. 0 \in 0 .. Len(s) /\ \A k \in 1 .. Len(s) : k \in 0 .. Len(s) /\ k # 0
    BY <1>1
  <2> HIDE DEF Run
  <2> QED
    BY ONLY <2>1, <2>2, Zenon
<1> HIDE DEF Run
<1>11. Alike(c, u, Len(s))
  <2>1. GoAlike(c, u, Len(s))
    BY <1>5, <1>6, <1>10 DEF GoAlike
  <2> QED
    BY <1>1, <2>1, RunsAgree
<1>12. c[Len(s)] = u[Len(s)]
  <2>1. Len(s) \in 0 .. Len(s)
    BY <1>1
  <2> QED
    BY ONLY <2>1, <1>11 DEF Alike
<1> QED
  BY <1>5, <1>6, <1>9, <1>12 DEF X, Turn

\* Between rows the spans fill one row, in order, and under the line's alignment.
LEMMA SpansPrint ==
    ASSUME PrinterOK, NEW w, Wire(w), NEW active,
           Follows([commands |-> <<>>, active |-> active])
    PROVE  LET r == SpansOf(w, active)
               p == Works(r.commands)
           IN  /\ Follows(r)
               /\ Known(active, Start) /\ printer.row = <<>> =>
                     /\ p.out = <<>> /\ p.row = w.spans /\ Known(r.active, p)
                     /\ p.row = <<>> \/ p.align = w.align
<1> DEFINE s == w.spans
           first == [commands |-> <<>>, active |-> active]
<1>1. /\ Len(s) \in Nat /\ s \in Seq(Spans) /\ (\A k \in 1 .. Len(s) : s[k] \in Spans) /\ Len(s) <= RowWidth
      /\ w.align \in LineAligns
  BY LenProperties DEF Wire, WireLines
<1>2. PICK c \in [0 .. Len(s) -> Followers] :
              /\ c[0] = first
              /\ \A k \in 1 .. Len(s) : c[k] = WriteStyled(c[k - 1], s[k].style, w.align, s[k].text)
              /\ SpansOf(w, active) = c[Len(s)]
  BY SpansRun
<1>3. Len(s) \in 0 .. Len(s)
  BY <1>1
<1>4. Follows(SpansOf(w, active))
  BY <1>2, <1>3 DEF Followers
<1>5. ASSUME Known(active, Start), printer.row = <<>>
      PROVE  LET p == Works(SpansOf(w, active).commands)
             IN  /\ p.out = <<>> /\ p.row = s /\ Known(SpansOf(w, active).active, p)
                 /\ p.row = <<>> \/ p.align = w.align
  <2> DEFINE P(n) == LET p == Works(c[n].commands)
                     IN  /\ p.out = <<>> /\ p.row = SubSeq(s, 1, n) /\ Known(c[n].active, p)
                         /\ n = 0 \/ p.align = w.align
             T == {n \in 0 .. Len(s) : P(n)}
  <2>1. P(0)
    <3>1. SubSeq(s, 1, 0) = <<>>
      OBVIOUS
    <3>2. Works(c[0].commands) = Start /\ c[0].active = active
      <4>1. <<>> \in Seq(Commands) /\ [do |-> "lf"] \in Commands
        BY DEF Commands
      <4>2. Works(<<>>) = Start
        BY <4>1, WorksOfAppend
      <4> QED
        BY <1>2, <4>2
    <3>3. Start.out = <<>> /\ Start.row = <<>>
      BY <1>5 DEF Start
    <3> QED
      BY <1>5, <3>1, <3>2, <3>3
  <2>2. ASSUME NEW n \in 1 .. Len(s), n - 1 \in T PROVE n \in T
    <3> DEFINE r == c[n - 1]
               p == Works(r.commands)
               q == Works(c[n].commands)
    <3>1. n - 1 \in 0 .. Len(s) /\ n \in 0 .. Len(s) /\ P(n - 1)
      BY <1>1, <2>2
    <3>2. Follows(r) /\ r \in Renderings
      BY <1>2, <3>1 DEF Followers
    <3>3. /\ p.out = <<>> /\ p.row = SubSeq(s, 1, n - 1) /\ Known(r.active, p)
          /\ n - 1 = 0 \/ p.align = w.align
      BY <3>1
    <3>4. Len(p.row) = n - 1 /\ Len(p.row) < RowWidth
      BY <1>1, <3>1, <3>3, PrefixIs, EscAssumption
    <3>5. p.row = <<>> \/ p.align = w.align
      <4>1. n - 1 = 0 => p.row = <<>>
        BY <3>3
      <4> QED
        BY <3>3, <4>1
    <3>6. s[n].style \in SpanStyles /\ s[n].text \in Texts /\ CellFits([text |-> s[n].text, style |-> s[n].style])
          /\ s[n] = [text |-> s[n].text, style |-> s[n].style]
      BY <1>1, SpanIs
    <3> HIDE DEF r, p
    <3>7. c[n] = WriteStyled(r, s[n].style, w.align, s[n].text)
      BY <1>2 DEF r
    <3>8. /\ q.out = p.out /\ q.row = Append(p.row, [text |-> s[n].text, style |-> s[n].style])
          /\ q.align = w.align /\ q.style = s[n].style /\ c[n].active = [style |-> s[n].style, align |-> w.align]
      <4> DEFINE t == WriteStyled(r, s[n].style, w.align, s[n].text)
                 o == Works(t.commands)
      <4>1. /\ t.active = [style |-> s[n].style, align |-> w.align]
            /\ Known(r.active, p) /\ (p.row = <<>> \/ p.align = w.align) /\ Len(p.row) < RowWidth =>
                  /\ o.out = p.out /\ o.row = Append(p.row, [text |-> s[n].text, style |-> s[n].style])
                  /\ o.align = w.align /\ o.style = s[n].style
        <5> HIDE DEF s
        <5> QED
          BY <1>1, <3>2, <3>6, WriteStyledFollows DEF p
      <4>2. c[n] = t /\ q = o
        BY <3>7
      <4> HIDE DEF t, o, q
      <4> QED
        BY <3>3, <3>4, <3>5, <4>1, <4>2
    <3> HIDE DEF q
    <3>9. q.row = SubSeq(s, 1, n)
      <4>1. q.row = Append(SubSeq(s, 1, n - 1), s[n])
        BY <3>3, <3>6, <3>8
      <4> QED
        BY <1>1, <4>1, PrefixGrows
    <3>10. Known(c[n].active, q)
      BY <3>8 DEF Known
    <3>11. P(n)
      BY <3>3, <3>8, <3>9, <3>10 DEF q
    <3> QED
      BY <3>1, <3>11
  <2>3. 0 \in T
    BY <1>1, <2>1
  <2> HIDE DEF T
  <2>4. Len(s) \in T
    BY <1>1, <1>3, <2>2, <2>3, AllUpTo
  <2>5. P(Len(s))
    BY <2>4 DEF T
  <2>6. SubSeq(s, 1, Len(s)) = s
    BY <1>1, WholeIs
  <2>7. Len(s) = 0 => s = <<>>
    BY <1>1
  <2> DEFINE r == SpansOf(w, active)
             p == Works(r.commands)
  <2>8. p.out = <<>> /\ p.row = SubSeq(s, 1, Len(s)) /\ Known(r.active, p) /\ (Len(s) = 0 \/ p.align = w.align)
    BY <1>2, <2>5
  <2> HIDE DEF r, p
  <2> QED
    BY <2>6, <2>7, <2>8 DEF p, r
<1> QED
  BY <1>4, <1>5

\* What stands alone on a line does so once.
LEMMA OneClaims ==
    ASSUME NEW w, Wire(w), NEW i \in DOMAIN w.directives, NEW k \in DOMAIN w.directives,
           w.directives[i] \in Alone, w.directives[k] \in Alone
    PROVE  i = k
<1> SUFFICES ASSUME i # k PROVE FALSE
  OBVIOUS
<1>1. w.directives[k] = "drawer"
  BY DEF Wire
<1> QED
  BY <1>1 DEF Alone, Solo

\* Between rows the directives begin no row, and print what claims the line.
LEMMA DirectivesPrint ==
    ASSUME PrinterOK, NEW w, Wire(w), NEW begun, Follows(begun)
    PROVE  LET r == DirectivesOf(w, begun)
               b == Works(begun.commands)
               p == Works(r.commands)
           IN  /\ Follows(r)
               /\ Known(begun.active, b) /\ b.row = <<>> =>
                     /\ p.row = <<>> /\ Known(r.active, p)
                     /\ \A i \in DOMAIN w.directives : w.directives[i] \in Alone =>
                           p.out = Append(b.out, Claimed(w.directives[i], w.align))
                     /\ (\A i \in DOMAIN w.directives : w.directives[i] \notin Alone) => p.out = b.out
<1> DEFINE s == w.directives
           b == Works(begun.commands)
           Claims(i) == s[i] \in Alone
<1>1. /\ Len(s) \in Nat /\ (\A k \in 1 .. Len(s) : s[k] \in Emitted) /\ w.align \in LineAligns
      /\ \A k : k \in DOMAIN s <=> k \in 1 .. Len(s)
  BY LenProperties DEF Wire, WireLines
<1>2. PICK c \in [0 .. Len(s) -> Followers] :
              /\ c[0] = begun
              /\ \A k \in 1 .. Len(s) : c[k] = Emit(c[k - 1], s[k], w.align)
              /\ DirectivesOf(w, begun) = c[Len(s)]
  BY DirectivesRun
<1>3. Len(s) \in 0 .. Len(s)
  BY <1>1
<1>4. Follows(DirectivesOf(w, begun))
  BY <1>2, <1>3 DEF Followers
<1>5. ASSUME Known(begun.active, b), b.row = <<>>
      PROVE  LET r == DirectivesOf(w, begun)
                 p == Works(r.commands)
             IN  /\ p.row = <<>> /\ Known(r.active, p)
                 /\ \A i \in 1 .. Len(s) : Claims(i) => p.out = Append(b.out, Claimed(s[i], w.align))
                 /\ (\A i \in 1 .. Len(s) : ~Claims(i)) => p.out = b.out
  <2> DEFINE P(n) == LET p == Works(c[n].commands)
                     IN  /\ p.row = <<>> /\ Known(c[n].active, p)
                         /\ \A i \in 1 .. n : Claims(i) => p.out = Append(b.out, Claimed(s[i], w.align))
                         /\ (\A i \in 1 .. n : ~Claims(i)) => p.out = b.out
             T == {n \in 0 .. Len(s) : P(n)}
  <2>1. P(0)
    BY <1>2, <1>5
  <2>2. ASSUME NEW n \in 1 .. Len(s), n - 1 \in T PROVE n \in T
    <3> DEFINE r == c[n - 1]
               p == Works(r.commands)
               q == Works(c[n].commands)
    <3>1. n - 1 \in 0 .. Len(s) /\ n \in 0 .. Len(s) /\ P(n - 1)
      BY <1>1, <2>2
    <3>2. Follows(r) /\ r \in Renderings
      BY <1>2, <3>1 DEF Followers
    <3>3. /\ p.row = <<>> /\ Known(r.active, p)
          /\ \A i \in 1 .. n - 1 : Claims(i) => p.out = Append(b.out, Claimed(s[i], w.align))
          /\ (\A i \in 1 .. n - 1 : ~Claims(i)) => p.out = b.out
      BY <3>1
    <3> HIDE DEF r
    <3>4. c[n] = Emit(r, s[n], w.align) /\ s[n] \in Emitted
      BY <1>1, <1>2 DEF r
    <3>5. /\ q.row = <<>> /\ Known(c[n].active, q)
          /\ q.out = IF Claims(n) THEN Append(p.out, Claimed(s[n], w.align)) ELSE p.out
      BY <1>1, <3>2, <3>3, <3>4, EmitFollows
    <3> HIDE DEF q, p, b
    <3>6. \A i \in 1 .. n : i = n \/ i \in 1 .. n - 1
      BY <1>1
    <3>7. \A i \in 1 .. n - 1 : i \in 1 .. n /\ i # n
      BY <1>1
    <3>8. n \in 1 .. n
      BY <1>1
    <3>9. Claims(n) => \A i \in 1 .. n - 1 : ~Claims(i)
      <4> SUFFICES ASSUME Claims(n), NEW i \in 1 .. n - 1, Claims(i) PROVE FALSE
        OBVIOUS
      <4>1. i \in DOMAIN s /\ n \in DOMAIN s /\ i # n
        BY <1>1
      <4> QED
        BY <4>1, OneClaims
    <3> HIDE DEF Claims
    <3>10. \A i \in 1 .. n : Claims(i) => q.out = Append(b.out, Claimed(s[i], w.align))
      <4> SUFFICES ASSUME NEW i \in 1 .. n, Claims(i)
                   PROVE  q.out = Append(b.out, Claimed(s[i], w.align))
        OBVIOUS
      <4>1. CASE i = n
        BY <3>3, <3>5, <3>9, <4>1
      <4>2. CASE i # n
        <5>1. i \in 1 .. n - 1 /\ ~Claims(n)
          BY <3>6, <3>9, <4>2
        <5> QED
          BY <3>3, <3>5, <5>1
      <4> QED
        BY <4>1, <4>2
    <3>11. (\A i \in 1 .. n : ~Claims(i)) => q.out = b.out
      BY <3>3, <3>5, <3>7, <3>8
    <3>12. P(n)
      BY <3>5, <3>10, <3>11 DEF q
    <3> QED
      BY <3>1, <3>12
  <2>3. 0 \in T
    BY <1>1, <2>1
  <2> HIDE DEF T
  <2>4. Len(s) \in T
    BY <1>1, <1>3, <2>2, <2>3, AllUpTo
  <2>5. P(Len(s))
    BY <2>4 DEF T
  <2> QED
    BY <1>2, <2>5
<1> QED
  BY <1>1, <1>4, <1>5

\* What the printer does with a line as the renderer gets it.
LinePrints(w, out) ==
    /\ \A i \in DOMAIN w.directives : w.directives[i] \in Alone => out = <<Claimed(w.directives[i], w.align)>>
    /\ (\A i \in DOMAIN w.directives : w.directives[i] \notin Alone) =>
          IF IsDirectiveOnly(w) THEN out = <<>>
          ELSE \E a \in LineAligns : out = <<[align |-> a, row |-> w.spans]>> /\ (w.spans = <<>> \/ a = w.align)

\* A line begun between rows ends between rows.
LEMMA LinePrinted ==
    ASSUME PrinterOK, NEW w, Wire(w), NEW active,
           Follows([commands |-> <<>>, active |-> active]), NEW linefeed
    PROVE  LET r == RenderLine(w, active, linefeed)
               p == Works(r.commands)
           IN  /\ Follows(r) /\ p \in Printers
               /\ linefeed = "LF" /\ Known(active, Start) /\ printer.row = <<>> =>
                     p.row = <<>> /\ Known(r.active, p) /\ LinePrints(w, p.out)
<1> DEFINE text  == SpansOf(w, active)
           lf    == [do |-> "lf"]
           begun == IF IsDirectiveOnly(w) \/ linefeed = "NONE" THEN text ELSE Wrote(text, lf)
           o == Works(text.commands)
           b == Works(begun.commands)
           r == DirectivesOf(w, begun)
           p == Works(r.commands)
           Calm == linefeed = "LF" /\ Known(active, Start) /\ printer.row = <<>>
<1>1. RenderLine(w, active, linefeed) = r
  BY DEF RenderLine
<1>2. /\ Follows(text)
      /\ Calm => /\ o.out = <<>> /\ o.row = w.spans /\ Known(text.active, o)
                 /\ o.row = <<>> \/ o.align = w.align
  BY SpansPrint
<1> HIDE DEF text
<1>3. text \in Renderings /\ AllFit(text.commands) /\ StyleKnown(text.active, o) /\ o \in Printers
  <2>1. text \in Renderings /\ AllFit(text.commands) /\ StyleKnown(text.active, o)
    BY <1>2 DEF Follows
  <2> QED
    BY <2>1, WorksIs DEF Renderings
<1> DEFINE v == Wrote(text, lf)
<1>4. v \in Renderings /\ AllFit(v.commands) /\ v.active = text.active /\ Works(v.commands) = RowOut(o)
  <2>1. lf \in Commands /\ lf.do # "text"
    BY DEF Commands
  <2>2. v \in Renderings /\ AllFit(v.commands) /\ v.active = text.active /\ Works(v.commands) = Does(o, lf)
    BY <1>3, <2>1, WroteSound
  <2>3. Does(o, lf) = RowOut(o)
    BY DEF Does
  <2> QED
    BY <2>2, <2>3
<1> HIDE DEF o
<1>5. /\ RowOut(o).style = o.style /\ RowOut(o).row = <<>> /\ RowOut(o).align = o.align
      /\ RowOut(o).out = Append(o.out, [align |-> o.align, row |-> o.row])
  <2>1. RowsFit(o)
    BY <1>3, AllFitLast DEF o, Renderings
  <2> QED
    BY <1>3, <2>1, RowOutFits
<1> HIDE DEF v
<1>6. begun = IF IsDirectiveOnly(w) \/ linefeed = "NONE" THEN text ELSE v
  BY DEF v
<1>7. Follows(begun)
  <2>1. Follows(v)
    BY <1>3, <1>4, <1>5 DEF Follows, StyleKnown
  <2> HIDE DEF begun
  <2> QED
    BY <1>2, <1>6, <2>1
<1>8. Calm =>
        /\ b.row = <<>> /\ Known(begun.active, b)
        /\ b.out = IF IsDirectiveOnly(w) THEN <<>> ELSE <<[align |-> o.align, row |-> w.spans]>>
        /\ o.align \in LineAligns /\ (w.spans = <<>> \/ o.align = w.align)
  <2> SUFFICES ASSUME Calm
               PROVE  /\ b.row = <<>> /\ Known(begun.active, b)
                      /\ b.out = IF IsDirectiveOnly(w) THEN <<>> ELSE <<[align |-> o.align, row |-> w.spans]>>
                      /\ o.align \in LineAligns /\ (w.spans = <<>> \/ o.align = w.align)
    OBVIOUS
  <2>1. o.align \in LineAligns
    BY <1>3 DEF Printers
  <2>2. CASE IsDirectiveOnly(w)
    <3>1. begun = text /\ w.spans = <<>>
      BY <1>6, <2>2 DEF IsDirectiveOnly
    <3>2. b = o
      BY <3>1 DEF o
    <3> HIDE DEF b, begun
    <3> QED
      BY <1>2, <2>1, <2>2, <3>1, <3>2
  <2>3. CASE ~IsDirectiveOnly(w)
    <3>1. begun = v
      BY <1>6, <2>3
    <3>2. b = RowOut(o)
      BY <1>4, <3>1
    <3> HIDE DEF b, begun
    <3>3. Known(begun.active, b)
      BY <1>2, <1>4, <1>5, <3>1, <3>2 DEF Known
    <3>4. b.out = <<[align |-> o.align, row |-> w.spans]>>
      BY <1>2, <1>5, <3>2
    <3> QED
      BY <1>2, <1>5, <2>1, <2>3, <3>2, <3>3, <3>4
  <2> QED
    BY <2>2, <2>3
<1> HIDE DEF begun
<1>9. /\ Follows(r)
      /\ Calm => /\ p.row = <<>> /\ Known(r.active, p)
                 /\ \A i \in DOMAIN w.directives : w.directives[i] \in Alone =>
                       p.out = Append(b.out, Claimed(w.directives[i], w.align))
                 /\ (\A i \in DOMAIN w.directives : w.directives[i] \notin Alone) => p.out = b.out
  BY <1>7, <1>8, DirectivesPrint
<1> HIDE DEF r, b
<1>10. p \in Printers
  BY <1>9, WorksIs DEF Follows, Renderings
<1> HIDE DEF p
<1>11. Calm => LinePrints(w, p.out)
  <2> SUFFICES ASSUME Calm PROVE LinePrints(w, p.out)
    OBVIOUS
  <2>1. ASSUME NEW i \in DOMAIN w.directives, w.directives[i] \in Alone
        PROVE  p.out = <<Claimed(w.directives[i], w.align)>>
    <3>1. w.spans = <<>> /\ w.directives # <<>>
      BY <2>1 DEF Wire
    <3>2. b.out = <<>>
      BY <1>8, <3>1 DEF IsDirectiveOnly
    <3> QED
      BY <1>9, <2>1, <3>2
  <2> QED
    BY <1>8, <1>9, <2>1 DEF LinePrints
<1> QED
  BY <1>1, <1>9, <1>10, <1>11 DEF p

\* A line and its rows on paper.
Written(l, out) ==
    /\ [i \in DOMAIN out |-> out[i].row] = Due(l)
    /\ \A i \in DOMAIN out : out[i].row # <<>> => out[i].align = l.align /\ LineCost(l) > 0

\* One row, or none.
LEMMA RowsOfOut ==
    ASSUME NEW a, NEW row
    PROVE  /\ [i \in DOMAIN <<[align |-> a, row |-> row]>> |-> <<[align |-> a, row |-> row]>>[i].row] = <<row>>
           /\ DOMAIN <<[align |-> a, row |-> row]>> = {1} /\ DOMAIN <<>> = {}
           /\ <<[align |-> a, row |-> row]>>[1] = [align |-> a, row |-> row]
           /\ [i \in DOMAIN <<>> |-> <<>>[i].row] = <<>>
OBVIOUS

\* A line of the grammar is one the renderer takes, from the console or the server,
\* and prints as its author meant it.
LEMMA LineIsWire ==
    ASSUME NEW l \in Lines
    PROVE  Wire(l) /\ l.align \in LineAligns
<1>1. /\ l.spans \in UpTo(RowWidth, {SpanIn(style) : style \in SpanStyles}) /\ l.align \in LineAligns
      /\ l.directives \in UpTo(MaxDirectives, Emitted)
      /\ l = [spans |-> l.spans, align |-> l.align, directives |-> l.directives]
      /\ \A i \in DOMAIN l.directives : l.directives[i] \in Alone =>
            l.spans = <<>> /\ \A j \in DOMAIN l.directives : j # i => l.directives[j] = "drawer"
  BY DEF Lines
<1>2. ASSUME NEW n \in Nat, NEW S, NEW s \in UpTo(n, S) PROVE s \in Seq(S) /\ Len(s) <= n
  <2>1. PICK m \in 0 .. n : s \in [1 .. m -> S]
    BY <1>2 DEF UpTo
  <2>2. s \in Seq(S) /\ Len(s) = m
    BY <1>2, <2>1
  <2> QED
    BY <1>2, <2>1, <2>2
<1>3. l.spans \in Seq({SpanIn(style) : style \in SpanStyles}) /\ Len(l.spans) <= RowWidth
  BY <1>1, <1>2, EscAssumption
<1>4. l.directives \in Seq(Emitted)
  BY <1>1, <1>2, EscAssumption
<1>5. l.spans \in Seq(Spans)
  <2>1. {SpanIn(style) : style \in SpanStyles} \subseteq Spans
    BY DEF Spans
  <2> QED
    BY <1>3, <2>1
<1>6. l \in WireLines
  BY <1>1, <1>4, <1>5 DEF WireLines
<1> QED
  BY <1>1, <1>3, <1>6 DEF Wire

\* From the console a line prints what it should be.
LEMMA PlainWritten ==
    ASSUME NEW l, Wire(l), NEW out, LinePrints(l, out)
    PROVE  Written(l, out)
<1>1. CASE Claimants(l) = {}
  <2>1. \A i \in DOMAIN l.directives : l.directives[i] \notin Alone
    BY <1>1 DEF Claimants
  <2>2. ~(\E i \in Claimants(l) : l.directives[i] = "rule")
    BY <1>1
  <2>3. CASE IsDirectiveOnly(l)
    <3>1. out = <<>>
      BY <2>1, <2>3 DEF LinePrints
    <3>2. Due(l) = <<>>
      BY <1>1, <2>2, <2>3 DEF Due
    <3> QED
      BY <3>1, <3>2, RowsOfOut DEF Written
  <2>4. CASE ~IsDirectiveOnly(l)
    <3>1. PICK a \in LineAligns : out = <<[align |-> a, row |-> l.spans]>> /\ (l.spans = <<>> \/ a = l.align)
      BY <2>1, <2>4 DEF LinePrints
    <3>2. Due(l) = <<l.spans>>
      BY <1>1, <2>2, <2>4 DEF Due
    <3>3. l.spans # <<>> => LineCost(l) > 0
      BY DEF LineCost
    <3> QED
      BY <3>1, <3>2, <3>3, RowsOfOut DEF Written
  <2> QED
    BY <2>3, <2>4
<1>2. CASE Claimants(l) # {}
  <2>1. PICK i \in Claimants(l) : TRUE
    BY <1>2
  <2>2. i \in DOMAIN l.directives /\ l.directives[i] \in Alone
    BY <2>1 DEF Claimants
  <2>3. \A k \in Claimants(l) : k = i
    BY <2>2, OneClaims DEF Claimants
  <2>4. (CHOOSE k \in Claimants(l) : TRUE) = i
    BY <2>1, <2>3
  <2>5. out = <<Claimed(l.directives[i], l.align)>>
    BY <2>2 DEF LinePrints
  <2> DEFINE row == <<IF l.directives[i] = "rule" THEN Ruled ELSE SpanIn(l.directives[i])>>
  <2>6. out = <<[align |-> l.align, row |-> row]>>
    BY <2>5 DEF Claimed
  <2>7. Due(l) = <<row>>
    <3>1. CASE l.directives[i] = "rule"
      BY <2>1, <3>1 DEF Due, Ruled
    <3>2. CASE l.directives[i] # "rule"
      <4>1. ~(\E k \in Claimants(l) : l.directives[k] = "rule")
        BY <2>3, <3>2
      <4> QED
        BY <1>2, <2>4, <3>2, <4>1 DEF Due
    <3> QED
      BY <3>1, <3>2
  <2>8. LineCost(l) > 0
    BY <1>2 DEF LineCost
  <2> HIDE DEF row
  <2> QED
    BY <2>6, <2>7, <2>8, RowsOfOut DEF Written
<1> QED
  BY <1>1, <1>2

\* From the server a rule comes as text, and prints the same.
LEMMA ServerWritten ==
    ASSUME NEW l, Wire(l)
    PROVE  /\ Wire(ToWireLine(l)) /\ ToWireLine(l).align = l.align
           /\ \A out : LinePrints(ToWireLine(l), out) => Written(l, out)
<1>1. CASE ~(\E i \in DOMAIN l.directives : l.directives[i] = "rule")
  <2>1. ToWireLine(l) = l
    BY <1>1 DEF ToWireLine
  <2> QED
    BY <2>1, PlainWritten
<1>2. CASE \E i \in DOMAIN l.directives : l.directives[i] = "rule"
  <2> DEFINE w == ToWireLine(l)
             d == WithoutRules(l.directives)
             K == {e \in Emitted : e # "rule" /\ \E i \in DOMAIN l.directives : l.directives[i] = e}
  <2>1. PICK i \in DOMAIN l.directives : l.directives[i] = "rule"
    BY <1>2
  <2>2. l \in WireLines /\ l.directives \in Seq(Emitted) /\ l.align \in LineAligns
    BY DEF Wire, WireLines
  <2>3. d \in Seq(K)
    BY <2>2, WithoutRulesIs
  <2>4. ASSUME NEW e \in K PROVE e \in Emitted /\ e = "drawer"
    <3>1. PICK k \in DOMAIN l.directives : l.directives[k] = e /\ e # "rule"
      OBVIOUS
    <3> QED
      BY <2>1, <3>1 DEF Wire, Alone
  <2>5. w = [l EXCEPT !.spans = <<Ruled>>, !.directives = d]
    BY <1>2 DEF ToWireLine, Ruled
  <2> HIDE DEF d, w, K
  <2>6. w.spans = <<Ruled>> /\ w.directives = d /\ w.align = l.align /\ w = [spans |-> w.spans, align |-> w.align, directives |-> w.directives]
    BY <2>2, <2>5 DEF WireLines
  <2>7. d \in Seq(Emitted) /\ \A k \in DOMAIN d : d[k] = "drawer"
    BY <2>3, <2>4
  <2>8. "drawer" \notin Alone
    BY DEF Alone, Solo
  <2>9. <<Ruled>> \in Seq(Spans) /\ Len(<<Ruled>>) = 1 /\ 1 <= RowWidth
    BY EscAssumption DEF Spans
  <2>10. Wire(w)
    BY <2>2, <2>6, <2>7, <2>8, <2>9 DEF Wire, WireLines
  <2>11. ASSUME NEW out, LinePrints(w, out) PROVE Written(l, out)
    <3>1. <<Ruled>> # <<>>
      OBVIOUS
    <3>2. out = <<[align |-> l.align, row |-> <<Ruled>>]>>
      <4>1. ~IsDirectiveOnly(w)
        BY <2>6, <3>1 DEF IsDirectiveOnly
      <4>2. \A k \in DOMAIN w.directives : w.directives[k] \notin Alone
        BY <2>6, <2>7, <2>8
      <4> QED
        BY <2>6, <2>11, <3>1, <4>1, <4>2 DEF LinePrints
    <3>3. i \in Claimants(l)
      BY <2>1 DEF Claimants, Alone
    <3>4. Due(l) = <<<<Ruled>>>>
      BY <2>1, <3>3 DEF Due, Ruled
    <3>5. LineCost(l) > 0
      BY <3>3 DEF LineCost
    <3> QED
      BY <3>2, <3>4, <3>5, RowsOfOut DEF Written
  <2> QED
    BY <2>6, <2>10, <2>11 DEF w
<1> QED
  BY <1>1, <1>2

\* The rows that fit are rows printed as written.
LEMMA FitsIsWritten ==
    ASSUME NEW out, \A r \in DOMAIN out : RowFits(out[r].row)
    PROVE  \A r \in DOMAIN out : \A i \in DOMAIN out[r].row :
              out[r].row[i].style = out[r].row[i].text \/ out[r].row[i] = [text |-> "rule", style |-> "plain"]
<1>1. Ruled = [text |-> "rule", style |-> "plain"]
  BY DEF Ruled
<1> QED
  BY <1>1 DEF RowFits, CellFits

\* A line begins with nothing written, and the printer where it was left.
LEMMA LineBegins ==
    ASSUME EscInv
    PROVE  PrinterOK /\ Follows([commands |-> <<>>, active |-> cache])
<1>1. PrinterOK
  BY DEF EscInv, PrinterFits, PrinterOK
<1> DEFINE first == [commands |-> <<>>, active |-> cache]
<1>2. first \in Renderings
  BY DEF EscInv, PrinterFits, Renderings
<1>3. Works(<<>>) = Start
  <2>1. <<>> \in Seq(Commands) /\ [do |-> "lf"] \in Commands
    BY DEF Commands
  <2> QED
    BY <1>1, <2>1, WorksOfAppend
<1>4. RowsFit(Start)
  BY DEF EscInv, PrinterFits, RowsFit, Start
<1>5. AllFit(<<>>)
  <2> SUFFICES ASSUME NEW n \in 0 .. Len(<<>>) PROVE RowsFit(Works(SubSeq(<<>>, 1, n)))
    BY DEF AllFit
  <2>1. n = 0
    OBVIOUS
  <2>2. SubSeq(<<>>, 1, 0) = <<>>
    OBVIOUS
  <2> QED
    BY <1>3, <1>4, <2>1, <2>2
<1>6. StyleKnown(cache, Start)
  BY DEF EscInv, StyleKnown, Start
<1> QED
  BY <1>1, <1>2, <1>3, <1>5, <1>6 DEF Follows

\* A line as the renderer gets it from where the job came from.
LEMMA LineTaken ==
    ASSUME NEW l \in Lines
    PROVE  LET w == IF rendering.from = "server" THEN ToWireLine(l) ELSE l
           IN  Wire(w) /\ \A out : LinePrints(w, out) => Written(l, out)
<1>1. Wire(l)
  BY LineIsWire
<1>2. Wire(ToWireLine(l)) /\ \A out : LinePrints(ToWireLine(l), out) => Written(l, out)
  BY <1>1, ServerWritten
<1>3. \A out : LinePrints(l, out) => Written(l, out)
  BY <1>1, PlainWritten
<1> QED
  BY <1>1, <1>2, <1>3

\* A line rendered is one the printer can follow, and prints what it should be.
LEMMA LineRendered ==
    ASSUME EscInv, NEW l \in Lines
    PROVE  LET r == Rendered(l)
               p == Works(r.commands)
           IN  /\ PrinterOK /\ Follows(r) /\ p \in Printers
               /\ rendering.linefeed = "LF" =>
                     p.row = <<>> /\ Known(r.active, p) /\ Written(l, p.out)
<1> DEFINE w == IF rendering.from = "server" THEN ToWireLine(l) ELSE l
           r == RenderLine(w, cache, rendering.linefeed)
           p == Works(r.commands)
<1>1. Wire(w) /\ \A out : LinePrints(w, out) => Written(l, out)
  BY LineTaken
<1>2. Rendered(l) = r
  BY DEF Rendered
<1> HIDE DEF w
<1>3. PrinterOK /\ Follows([commands |-> <<>>, active |-> cache])
  BY LineBegins
<1>4. /\ Follows(r) /\ p \in Printers
      /\ rendering.linefeed = "LF" /\ Known(cache, Start) /\ printer.row = <<>> =>
            p.row = <<>> /\ Known(r.active, p) /\ LinePrints(w, p.out)
  BY <1>1, <1>3, LinePrinted
<1>5. rendering.linefeed = "LF" => Known(cache, Start) /\ printer.row = <<>>
  BY DEF EscInv, Known, Start
<1> DEFINE t == Rendered(l)
           q == Works(t.commands)
<1>6. t = r /\ q = p
  BY <1>2
<1> HIDE DEF r, p, t, q
<1>7. /\ PrinterOK /\ Follows(t) /\ q \in Printers
      /\ rendering.linefeed = "LF" => q.row = <<>> /\ Known(t.active, q) /\ Written(l, q.out)
  BY <1>1, <1>3, <1>4, <1>5, <1>6
<1> QED
  BY <1>7 DEF q, t

\* The invariant holds of a printer nobody has written to.
LEMMA EscInitInv == EscInit => EscInv
<1> SUFFICES ASSUME EscInit PROVE EscInv
  OBVIOUS
<1>1. rendering = Idle /\ cache = NotKnown /\ input = <<>> /\ printed = <<>>
      /\ printer \in [style : SpanStyles, align : LineAligns, row : {<<>>}]
  BY DEF EscInit
<1>2. PrinterFits
  <2>1. <<>> \in Seq(Cells) /\ <<>> \in Seq(PaperRows) /\ RowFits(<<>>)
    BY DEF RowFits
  <2>2. printer.row = <<>>
    BY <1>1
  <2>3. printer \in [style : SpanStyles, align : LineAligns, row : Seq(Cells)]
    BY <1>1, <2>1
  <2> QED
    BY <1>1, <2>1, <2>2, <2>3 DEF PrinterFits
<1>3. rendering.linefeed # "LF"
  BY <1>1 DEF Idle
<1>4. PrintsAsWritten
  BY <1>1, <1>3 DEF PrintsAsWritten
<1> QED
  BY <1>1, <1>2, <1>3, <1>4 DEF EscInv, StyleKnown

\* Every step of the renderer keeps it, one cut short among them.
LEMMA EscNextInv == EscInv /\ [EscNext]_escVars => EscInv'
<1> SUFFICES ASSUME EscInv, [EscNext]_escVars PROVE EscInv'
  OBVIOUS
<1>1. ASSUME NEW from \in {"server", "console"}, NEW linefeed \in {"LF", "NONE"}, StartJob(from, linefeed)
      PROVE  EscInv'
  <2>1. /\ rendering' = [from |-> from, linefeed |-> linefeed] /\ cache' = NotKnown
        /\ printer' = [style |-> "plain", align |-> "left", row |-> <<>>]
        /\ input' = <<>> /\ printed' = <<>>
    BY <1>1 DEF StartJob
  <2>2. PrinterFits'
    BY <2>1, EscAssumption DEF PrinterFits, RowFits
  <2>3. PrintsAsWritten'
    BY <2>1 DEF PrintsAsWritten
  <2>4. rendering' \in [from : {"server", "console"}, linefeed : {"LF", "NONE"}] /\ printer'.row = <<>>
    BY <2>1
  <2> QED
    BY <2>1, <2>2, <2>3, <2>4 DEF EscInv, StyleKnown, Known
<1>2. ASSUME NEW l \in Lines, PrintLine(l)
      PROVE  EscInv'
  <2> DEFINE r == Rendered(l)
             p == Works(r.commands)
  <2>1. /\ PrinterOK /\ Follows(r) /\ p \in Printers
        /\ rendering.linefeed = "LF" => p.row = <<>> /\ Known(r.active, p) /\ Written(l, p.out)
    BY LineRendered
  <2>2. /\ rendering # Idle /\ rendering' = rendering /\ input' = <<l>> /\ cache' = r.active
        /\ printer' = [style |-> p.style, align |-> p.align, row |-> p.row] /\ printed' = p.out
    BY <1>2 DEF PrintLine, Leaves
  <2>3. r \in Renderings /\ AllFit(r.commands) /\ StyleKnown(r.active, p)
    BY <2>1 DEF Follows
  <2>4. RowsFit(p)
    BY <2>3, AllFitLast DEF Renderings
  <2> HIDE DEF r, p
  <2>5. PrinterFits'
    <3>1. printer' \in [style : SpanStyles, align : LineAligns, row : Seq(Cells)] /\ printed' \in Seq(PaperRows)
      BY <2>1, <2>2 DEF Printers
    <3>2. RowFits(printer'.row)
      BY <2>2, <2>4 DEF RowsFit
    <3>3. cache' \in Configs \cup {NotKnown}
      BY <2>2, <2>3 DEF Renderings
    <3> QED
      BY <3>1, <3>2, <3>3 DEF PrinterFits
  <2>6. PrintsAsWritten'
    <3>1. \A k \in DOMAIN printed' : RowFits(printed'[k].row)
      BY <2>2, <2>4 DEF RowsFit
    <3>2. \A k \in DOMAIN printed' : \A i \in DOMAIN printed'[k].row :
             printed'[k].row[i].style = printed'[k].row[i].text
             \/ printed'[k].row[i] = [text |-> "rule", style |-> "plain"]
      BY <3>1, FitsIsWritten
    <3>3. rendering'.linefeed = "LF" => Written(l, printed')
      BY <2>1, <2>2
    <3>4. input'[1] = l
      BY <2>2
    <3> QED
      BY <3>2, <3>3, <3>4 DEF PrintsAsWritten, Written
  <2>7. StyleKnown(cache', printer') /\ (rendering'.linefeed = "LF" => printer'.row = <<>> /\ Known(cache', printer'))
    BY <2>1, <2>2, <2>3 DEF StyleKnown, Known
  <2>8. rendering' # Idle => rendering' \in [from : {"server", "console"}, linefeed : {"LF", "NONE"}]
    BY <2>2 DEF EscInv
  <2> QED
    BY <2>5, <2>6, <2>7, <2>8 DEF EscInv
<1>3. ASSUME NEW l \in Lines, CutShort(l)
      PROVE  EscInv'
  <2> DEFINE r == Rendered(l)
  <2>1. PrinterOK /\ Follows(r)
    BY LineRendered
  <2>2. PICK n \in 0 .. Len(r.commands) : Leaves(SubSeq(r.commands, 1, n))
    BY <1>3 DEF CutShort
  <2> DEFINE s == SubSeq(r.commands, 1, n)
             p == Works(s)
  <2>3. /\ rendering' = Idle /\ cache' = NotKnown /\ input' = <<l>>
        /\ printer' = [style |-> p.style, align |-> p.align, row |-> p.row] /\ printed' = p.out
    BY <1>3, <2>2 DEF CutShort, Leaves
  <2>4. r.commands \in Seq(Commands) /\ RowsFit(p)
    BY <2>1 DEF Follows, AllFit, Renderings
  <2>5. s \in Seq(Commands)
    BY <2>4, PrefixIs
  <2>6. p \in Printers
    BY <2>1, <2>5, WorksIs
  <2> HIDE DEF p
  <2>7. PrinterFits'
    <3>1. printer' \in [style : SpanStyles, align : LineAligns, row : Seq(Cells)] /\ printed' \in Seq(PaperRows)
      BY <2>3, <2>6 DEF Printers
    <3>2. RowFits(printer'.row)
      BY <2>3, <2>4 DEF RowsFit
    <3> QED
      BY <2>3, <3>1, <3>2 DEF PrinterFits
  <2>8. rendering'.linefeed # "LF"
    BY <2>3 DEF Idle
  <2>9. PrintsAsWritten'
    <3>1. \A k \in DOMAIN printed' : RowFits(printed'[k].row)
      BY <2>3, <2>4 DEF RowsFit
    <3>2. \A k \in DOMAIN printed' : \A i \in DOMAIN printed'[k].row :
             printed'[k].row[i].style = printed'[k].row[i].text
             \/ printed'[k].row[i] = [text |-> "rule", style |-> "plain"]
      BY <3>1, FitsIsWritten
    <3> QED
      BY <2>8, <3>2 DEF PrintsAsWritten
  <2> QED
    BY <2>3, <2>7, <2>8, <2>9 DEF EscInv, StyleKnown
<1>4. CASE LineOver
  <2>1. input' = <<>> /\ printed' = <<>> /\ rendering' = rendering /\ cache' = cache /\ printer' = printer
    BY <1>4 DEF LineOver
  <2>2. PrintsAsWritten'
    BY <2>1 DEF PrintsAsWritten
  <2>3. PrinterFits'
    BY <2>1 DEF EscInv, PrinterFits
  <2> QED
    BY <2>1, <2>2, <2>3 DEF EscInv
<1>5. CASE UNCHANGED escVars
  <2>1. input' = input /\ printed' = printed /\ rendering' = rendering /\ cache' = cache /\ printer' = printer
    BY <1>5 DEF escVars
  <2>2. PrintsAsWritten'
    BY <2>1 DEF PrintsAsWritten, EscInv
  <2>3. PrinterFits'
    BY <2>1 DEF EscInv, PrinterFits
  <2> QED
    BY <2>1, <2>2, <2>3 DEF EscInv
<1> QED
  BY <1>1, <1>2, <1>3, <1>4, <1>5 DEF EscNext

\* Whatever was printed before, a job cut short on the wire included, a line of any
\* length puts its own rows on paper, in the styles and under the alignment its
\* author gave it, and costs what it prints: EscPosRenderer's cache of the style in
\* effect is never wrong.
THEOREM LinesPrintAsWritten == EscSpec => []PrintsAsWritten
<1>1. EscInv => PrintsAsWritten
  BY DEF EscInv
<1> QED
  BY EscInitInv, EscNextInv, <1>1, PTL DEF EscSpec

\* What division leaves.
LEMMA Quotient ==
    ASSUME NEW a \in Int, NEW b \in Nat \ {0}
    PROVE  /\ a \div b \in Int
           /\ (a \div b) * b <= a
           /\ a < (a \div b) * b + b
<1>1. a = b * (a \div b) + (a % b) /\ a % b \in 0 .. b - 1 /\ a \div b \in Int
  OBVIOUS
<1> QED  BY <1>1

\* What fits into a quotient, and what does not.
LEMMA QuotientAtLeast ==
    ASSUME NEW a \in Int, NEW b \in Nat \ {0}, NEW k \in Int, k * b <= a
    PROVE  k <= a \div b
<1> DEFINE q == a \div b
<1>1. q \in Int /\ a < q * b + b  BY Quotient
<1> HIDE DEF q
<1>2. SUFFICES ASSUME q + 1 <= k PROVE FALSE
  <2>1. q < k => q + 1 <= k  BY <1>1
  <2> QED  BY <1>1, <1>2, <2>1 DEF q
<1>3. (q + 1) * b <= k * b
  BY <1>1, <1>2
<1> QED  BY <1>1, <1>3

\* What bounds a quotient from above.
LEMMA QuotientBelow ==
    ASSUME NEW a \in Int, NEW b \in Nat \ {0}, NEW k \in Int, a < k * b
    PROVE  a \div b < k
<1> DEFINE q == a \div b
<1>1. q \in Int /\ q * b <= a  BY Quotient
<1> HIDE DEF q
<1>2. SUFFICES ASSUME k <= q PROVE FALSE
  BY <1>1, <1>2 DEF q
<1>3. k * b <= q * b
  BY <1>1, <1>2
<1> QED  BY <1>1, <1>3

\* A product grows with its first factor.
LEMMA Product ==
    ASSUME NEW a \in Int, NEW b \in Int, NEW c \in Nat, a <= b
    PROVE  a * c <= b * c /\ a * c \in Int /\ b * c \in Int
  OBVIOUS

\* A larger number has no smaller quotient.
LEMMA QuotientsClimb ==
    ASSUME NEW a \in Int, NEW d \in Int, NEW b \in Nat \ {0}, a <= d
    PROVE  a \div b <= d \div b
<1>1. a \div b \in Int /\ (a \div b) * b <= a  BY Quotient
<1> QED  BY <1>1, QuotientAtLeast

\* A rounded quotient is within a half of the exact one.
LEMMA RoundedIs ==
    ASSUME NEW p \in Int, NEW q \in Nat \ {0}
    PROVE  /\ Rounded(p, q) \in Int
           /\ 2 * (Rounded(p, q) * q) <= 2 * p + q
           /\ 2 * p < 2 * (Rounded(p, q) * q) + q
<1>1. 2 * q \in Nat \ {0} /\ 2 * p + q \in Int  OBVIOUS
<1> QED  BY <1>1, Quotient DEF Rounded

\* A larger number is rounded to no smaller one.
LEMMA RoundedClimbs ==
    ASSUME NEW p \in Int, NEW r \in Int, NEW q \in Nat \ {0}, p <= r
    PROVE  Rounded(p, q) <= Rounded(r, q)
  BY QuotientsClimb, 2 * q \in Nat \ {0} DEF Rounded

\* What bounds a rounded quotient from below.
LEMMA RoundedAtLeast ==
    ASSUME NEW p \in Int, NEW q \in Nat \ {0}, NEW k \in Int, k * q <= p
    PROVE  k <= Rounded(p, q)
<1>1. k * (2 * q) <= 2 * p + q  OBVIOUS
<1> QED  BY <1>1, QuotientAtLeast, 2 * q \in Nat \ {0} DEF Rounded

\* What bounds a rounded quotient from above.
LEMMA RoundedAtMost ==
    ASSUME NEW p \in Int, NEW q \in Nat \ {0}, NEW k \in Int, p <= k * q
    PROVE  Rounded(p, q) <= k
<1>1. 2 * p + q < (k + 1) * (2 * q)  OBVIOUS
<1>2. (2 * p + q) \div (2 * q) < k + 1
  BY <1>1, QuotientBelow, 2 * q \in Nat \ {0}, 2 * p + q \in Int, k + 1 \in Int
<1>3. (2 * p + q) \div (2 * q) \in Int
  BY Quotient, 2 * q \in Nat \ {0}, 2 * p + q \in Int
<1> QED  BY <1>2, <1>3 DEF Rounded

\* Among any numbers that go no further than a bound there is a lowest and a highest.
LEMMA LowestIs ==
    ASSUME NEW L \in Nat, NEW S \in SUBSET Int, S # {}, \A x \in S : -L <= x /\ x <= L
    PROVE  Lowest(S) \in S /\ \A y \in S : Lowest(S) <= y
<1>1. \E x \in S : \A y \in S : x <= y
  <2> DEFINE T == {x + L : x \in S}
  <2>1. T \in SUBSET Nat /\ T # {}
    <3>1. ASSUME NEW x \in S PROVE x + L \in Nat
      <4>1. x \in Int /\ -L <= x /\ x <= L
        OBVIOUS
      <4> QED  BY <4>1
    <3> QED  BY <3>1
  <2>2. PICK m \in T : \A n \in T : m <= n
    <3> HIDE DEF T
    <3> QED  BY <2>1, SmallestOf
  <2>3. PICK x \in S : m = x + L
    OBVIOUS
  <2>4. ASSUME NEW y \in S PROVE x <= y
    <3>1. y + L \in T
      OBVIOUS
    <3>2. x + L <= y + L
      BY <2>2, <2>3, <3>1
    <3>3. x \in Int /\ y \in Int
      OBVIOUS
    <3> QED  BY <3>2, <3>3
  <2> QED  BY <2>4
<1> QED  BY <1>1 DEF Lowest

\* A set of numbers that is bounded has a highest one.
LEMMA HighestIs ==
    ASSUME NEW L \in Nat, NEW S \in SUBSET Int, S # {}, \A x \in S : -L <= x /\ x <= L
    PROVE  Highest(S) \in S /\ \A y \in S : y <= Highest(S)
<1>1. \E x \in S : \A y \in S : y <= x
  <2> DEFINE T == {L - x : x \in S}
  <2>1. T \in SUBSET Nat /\ T # {}
    <3>1. ASSUME NEW x \in S PROVE L - x \in Nat
      <4>1. x \in Int /\ -L <= x /\ x <= L
        OBVIOUS
      <4> QED  BY <4>1
    <3> QED  BY <3>1
  <2>2. PICK m \in T : \A n \in T : m <= n
    <3> HIDE DEF T
    <3> QED  BY <2>1, SmallestOf
  <2>3. PICK x \in S : m = L - x
    OBVIOUS
  <2>4. ASSUME NEW y \in S PROVE y <= x
    <3>1. L - y \in T
      OBVIOUS
    <3>2. L - x <= L - y
      BY <2>2, <2>3, <3>1
    <3>3. x \in Int /\ y \in Int
      OBVIOUS
    <3> QED  BY <3>2, <3>3
  <2> QED  BY <2>4
<1> QED  BY <1>1 DEF Highest

\* The widest of some widths is one of them, or zero.
LEMMA WidestIs ==
    ASSUME NEW L \in Nat, NEW S \in SUBSET (0 .. L)
    PROVE  WidestOf(S) \in 0 .. L /\ \A y \in S : y <= WidestOf(S)
<1>1. /\ S \cup {0} \in SUBSET Int /\ S \cup {0} # {} /\ S \cup {0} \in SUBSET (0 .. L)
      /\ \A x \in S \cup {0} : -L <= x /\ x <= L
  OBVIOUS
<1>2. Highest(S \cup {0}) \in S \cup {0} /\ \A y \in S \cup {0} : y <= Highest(S \cup {0})
  BY <1>1, HighestIs
<1> QED  BY <1>1, <1>2 DEF WidestOf

\* The numbers of a sequence go no further than some bound.
LEMMA NumbersEnd ==
    ASSUME NEW n \in Nat, NEW f, \A i \in 1 .. n : f[i] \in Nat
    PROVE  \E L \in Nat : {f[i] : i \in 1 .. n} \in SUBSET (0 .. L)
<1> DEFINE Ends(k) == \E L \in Nat : \A i \in 1 .. k : f[i] <= L
           T == {k \in 0 .. n : Ends(k)}
<1>1. 0 \in T
  OBVIOUS
<1>2. ASSUME NEW k \in 1 .. n, k - 1 \in T PROVE k \in T
  <2>1. PICK L \in Nat : \A i \in 1 .. k - 1 : f[i] <= L
    BY <1>2
  <2>2. f[k] \in Nat /\ L + f[k] \in Nat
    OBVIOUS
  <2>3. \A i \in 1 .. k : i = k \/ i \in 1 .. k - 1
    OBVIOUS
  <2>4. \A i \in 1 .. k : f[i] <= L + f[k]
    BY <2>1, <2>2, <2>3
  <2> QED  BY <2>2, <2>4
<1>3. n \in T
  <2> HIDE DEF T
  <2> QED  BY <1>1, <1>2, AllUpTo
<1>4. PICK L \in Nat : \A i \in 1 .. n : f[i] <= L
  BY <1>3
<1>5. \A i \in 1 .. n : f[i] \in 0 .. L
  BY <1>4
<1> QED  BY <1>5

(***************************************************************************)
(* Axes                                                                     *)
(***************************************************************************)

\* Four steps span the range.
LEMMA StepSpans ==
    ASSUME NEW range \in Int, 1 <= range, range <= 4000
    PROVE  Step(range, TickCount) \in Nat \ {0} /\ range <= 4 * Step(range, TickCount)
<1> DEFINE S == {s \in {1, 2, 5, 10, 20, 50, 100, 200, 500, 1000} : s * (TickCount - 1) >= range}
<1>1. S \in SUBSET Int /\ 1000 \in S /\ \A x \in S : -1000 <= x /\ x <= 1000
  BY DEF TickCount
<1>2. Lowest(S) \in S
  <2> DEFINE L == 1000
  <2>1. S # {} /\ L \in Nat /\ S \in SUBSET Int /\ \A x \in S : -L <= x /\ x <= L
    BY <1>1
  <2> HIDE DEF S, L
  <2> QED  BY <2>1, LowestIs
<1> QED  BY <1>2 DEF Step, TickCount

\* An axis that reaches from low to high.
Marked(marks, low, high) ==
    /\ marks \in Seq(Int)
    /\ Len(marks) \in 2 .. TickCount + 1
    /\ \A i \in 1 .. Len(marks) - 1 : marks[i + 1] - marks[i] = marks[2] - marks[1]
    /\ marks[1] <= low /\ high <= LastOf(marks) /\ marks[1] < LastOf(marks)
    /\ \E i \in DOMAIN marks : marks[i] = 0

\* The marks between two numbers on either side of zero span them.
LEMMA TicksMark ==
    ASSUME NEW low \in Reach, NEW high \in Reach, low <= 0, 0 <= high
    PROVE  Marked(Ticks(low, high, TickCount), low, high)
<1> USE DEF Reach
<1>1. CASE low = high
  <2>1. Ticks(low, high, TickCount) = <<0, 10>>
    BY <1>1 DEF Ticks
  <2>2. Len(<<0, 10>>) = 2 /\ <<0, 10>> \in Seq(Int) /\ <<0, 10>>[1] = 0 /\ <<0, 10>>[2] = 10
    OBVIOUS
  <2>3. \A i \in 1 .. 1 : <<0, 10>>[i + 1] - <<0, 10>>[i] = <<0, 10>>[2] - <<0, 10>>[1]
    OBVIOUS
  <2>4. 1 \in DOMAIN <<0, 10>>
    BY <2>2
  <2>5. low = 0 /\ high = 0 /\ 1 .. Len(<<0, 10>>) - 1 = 1 .. 1
    BY <1>1, <2>2
  <2> DEFINE m == <<0, 10>>
  <2> HIDE DEF m
  <2>6. m \in Seq(Int) /\ Len(m) = 2 /\ m[1] = 0 /\ m[2] = 10 /\ 1 \in DOMAIN m
    BY <2>2, <2>4 DEF m
  <2>7. \A i \in 1 .. Len(m) - 1 : m[i + 1] - m[i] = m[2] - m[1]
    BY <2>3, <2>5 DEF m
  <2>8. Marked(m, 0, 0)
    BY <2>6, <2>7 DEF Marked, LastOf, TickCount
  <2> QED  BY <2>1, <2>5, <2>8 DEF m
<1>2. CASE low # high
  <2> DEFINE s == Step(high - low, TickCount)
             a == low \div s
             b == (-high) \div s
             from == a * s
             upto == -b * s
             n == (upto - from) \div s
             marks == [i \in 1 .. n + 1 |-> from + (i - 1) * s]
  <2>1. s \in Nat \ {0} /\ high - low <= 4 * s /\ high \in Int /\ low \in Int /\ low < high
    <3>1. high - low \in 1 .. 4000 /\ high \in Int /\ low \in Int /\ low < high
      BY <1>2
    <3>2. s \in Nat \ {0} /\ high - low <= 4 * s
      <4> DEFINE r == high - low
      <4> HIDE DEF r
      <4>1. r \in Int /\ 1 <= r /\ r <= 4000
        BY <3>1 DEF r
      <4>2. Step(r, TickCount) \in Nat \ {0} /\ r <= 4 * Step(r, TickCount)
        BY <4>1, StepSpans
      <4> QED  BY <4>2 DEF r, s
    <3> QED  BY <3>1, <3>2
  <2> HIDE DEF s
  <2>2. a \in Int /\ a * s <= low /\ low < a * s + s
    BY <2>1, Quotient
  <2>3. b \in Int /\ b * s <= -high /\ -high < b * s + s
    BY <2>1, Quotient
  <2> HIDE DEF a, b
  <2>4. from \in Int /\ upto \in Int /\ upto - from = (-b - a) * s
    BY <2>1, <2>2, <2>3
  <2>5. -b - a \in Int /\ n = -b - a
    <3>1. (-b - a) * s <= upto - from /\ upto - from < (-b - a + 1) * s
      BY <2>1, <2>2, <2>3, <2>4
    <3>2. -b - a \in Int /\ -b - a + 1 \in Int
      BY <2>2, <2>3
    <3>3. -b - a <= n /\ n < -b - a + 1 /\ n \in Int
      <4> HIDE DEF from, upto
      <4> QED  BY <2>1, <2>4, <3>1, <3>2, QuotientAtLeast, QuotientBelow, Quotient
    <3> HIDE DEF n
    <3> QED  BY <3>2, <3>3
  <2> HIDE DEF n
  <2>6. from <= low /\ high <= upto /\ upto < high + s /\ low < from + s
    BY <2>1, <2>2, <2>3
  <2>7. n * s = upto - from
    BY <2>4, <2>5
  <2>8. n \in 1 .. 5
    <3>1. n * s > 0 /\ n * s < 6 * s
      BY <2>1, <2>4, <2>6, <2>7
    <3>2. n > 0
      <4> SUFFICES ASSUME n <= 0 PROVE FALSE
        BY <2>5
      <4> QED  BY <2>1, <2>5, <3>1
    <3>3. n < 6
      <4> SUFFICES ASSUME n >= 6 PROVE FALSE
        BY <2>5
      <4> QED  BY <2>1, <2>5, <3>1
    <3> QED  BY <2>5, <3>2, <3>3
  <2>9. a <= 0 /\ -a <= n
    <3>1. a <= 0
      <4> SUFFICES ASSUME a >= 1 PROVE FALSE
        BY <2>2
      <4>1. a * s >= s
        BY <2>1, <2>2
      <4> QED  BY <2>1, <2>2, <4>1
    <3>2. b <= 0
      <4> SUFFICES ASSUME b >= 1 PROVE FALSE
        BY <2>3
      <4>1. b * s >= s
        BY <2>1, <2>3
      <4> QED  BY <2>1, <2>3, <4>1
    <3> QED  BY <2>2, <2>3, <2>5, <3>1, <3>2
  <2>10. Ticks(low, high, TickCount) = marks
    BY <1>2 DEF Ticks, s, a, b, n
  <2>11. /\ marks \in Seq(Int) /\ Len(marks) = n + 1 /\ DOMAIN marks = 1 .. n + 1
         /\ \A i \in 1 .. n + 1 : marks[i] = from + (i - 1) * s
    <3> HIDE DEF from, upto
    <3>1. \A i \in 1 .. n + 1 : from + (i - 1) * s \in Int
      BY <2>1, <2>4, <2>8
    <3>2. n + 1 \in Nat
      BY <2>8
    <3> QED  BY <3>1, <3>2
  <2>12. marks[1] = from /\ marks[2] = from + s /\ marks[n + 1] = upto
    <3>1. 1 \in 1 .. n + 1 /\ 2 \in 1 .. n + 1 /\ n + 1 \in 1 .. n + 1
      BY <2>8
    <3>2. from + (1 - 1) * s = from /\ from + (2 - 1) * s = from + s
      BY <2>1, <2>4
    <3>3. from + (n + 1 - 1) * s = upto
      BY <2>1, <2>4, <2>7, <2>8
    <3> HIDE DEF marks, from, upto
    <3>4. marks[1] = from + (1 - 1) * s
      BY <2>11, <3>1
    <3>5. marks[2] = from + (2 - 1) * s
      BY <2>11, <3>1
    <3>6. marks[n + 1] = from + (n + 1 - 1) * s
      <4> DEFINE k == n + 1
      <4> HIDE DEF k
      <4>1. k \in 1 .. k /\ \A i \in 1 .. k : marks[i] = from + (i - 1) * s
        BY <2>11, <3>1 DEF k
      <4>2. marks[k] = from + (k - 1) * s
        BY <4>1
      <4> QED  BY <2>1, <2>4, <2>8, <4>2 DEF k
    <3> QED  BY <3>2, <3>3, <3>4, <3>5, <3>6
  <2>13. \A i \in 1 .. n : marks[i + 1] - marks[i] = s
    <3> SUFFICES ASSUME NEW i \in 1 .. n PROVE marks[i + 1] - marks[i] = s
      OBVIOUS
    <3>1. i \in 1 .. n + 1 /\ i + 1 \in 1 .. n + 1
      BY <2>8
    <3>2. marks[i] = from + (i - 1) * s /\ marks[i + 1] = from + (i + 1 - 1) * s
      <4> HIDE DEF marks, from
      <4> QED  BY <2>11, <3>1
    <3> HIDE DEF marks, from
    <3> QED  BY <2>1, <2>4, <3>2
  <2>14. 1 - a \in 1 .. n + 1 /\ marks[1 - a] = 0
    <3>1. 1 - a \in 1 .. n + 1
      BY <2>2, <2>8, <2>9
    <3>2. from + (1 - a - 1) * s = 0
      BY <2>1, <2>2
    <3> HIDE DEF marks
    <3> QED  BY <2>11, <3>1, <3>2
  <2> HIDE DEF marks, from, upto
  <2>15. LastOf(marks) = upto
    BY <2>11, <2>12 DEF LastOf
  <2>16. from < upto
    BY <2>1, <2>4, <2>6
  <2>17. Len(marks) \in 2 .. TickCount + 1 /\ Len(marks) - 1 = n
    BY <2>8, <2>11 DEF TickCount
  <2>18. marks[2] - marks[1] = s
    BY <2>1, <2>4, <2>12
  <2>19. \E i \in DOMAIN marks : marks[i] = 0
    BY <2>11, <2>14
  <2>20. \A i \in 1 .. Len(marks) - 1 : marks[i + 1] - marks[i] = marks[2] - marks[1]
    BY <2>13, <2>17, <2>18
  <2>21. marks[1] <= low /\ high <= LastOf(marks) /\ marks[1] < LastOf(marks)
    BY <2>6, <2>12, <2>15, <2>16
  <2> HIDE DEF marks, s, from, upto, n
  <2>22. Marked(marks, low, high)
    BY ONLY <2>11, <2>17, <2>19, <2>20, <2>21 DEF Marked
  <2> QED  BY <2>10, <2>22
<1> QED  BY <1>1, <1>2

\* An axis that shows these values.
Axis(marks, values) ==
    /\ MarksSpan(marks, values)
    /\ marks \in Seq(Int) /\ marks[1] \in Int /\ LastOf(marks) \in Int
    /\ marks[1] < LastOf(marks) /\ marks[1] <= 0 /\ 0 <= LastOf(marks)

\* The axis of some values spans them.
LEMMA AxisOf ==
    ASSUME NEW values \in SUBSET Reach
    PROVE  Axis(TicksOf(values), values)
<1> DEFINE S    == values \cup {0}
           L    == 2000
           low  == Lowest(S)
           high == Highest(S)
<1>1. S # {} /\ L \in Nat /\ S \in SUBSET Int /\ \A x \in S : -L <= x /\ x <= L
  <2>1. \A x \in Reach : x \in Int /\ -2000 <= x /\ x <= 2000
    BY DEF Reach
  <2>2. \A x \in S : x = 0 \/ x \in Reach
    OBVIOUS
  <2>3. \A x \in S : x \in Int /\ -L <= x /\ x <= L
    BY <2>1, <2>2
  <2> QED  BY <2>3
<1>2. 0 \in S /\ S \subseteq Reach
  BY DEF Reach
<1>3. low \in S /\ (\A y \in S : low <= y) /\ high \in S /\ \A y \in S : y <= high
  <2> HIDE DEF S, L
  <2> QED  BY <1>1, LowestIs, HighestIs
<1> DEFINE marks == Ticks(low, high, TickCount)
<1>4. TicksOf(values) = marks
  BY DEF TicksOf
<1> HIDE DEF S, L, low, high
<1>5. low \in Reach /\ high \in Reach /\ low <= 0 /\ 0 <= high
  BY <1>2, <1>3
<1>6. Marked(marks, low, high)
  BY <1>5, TicksMark
<1> HIDE DEF marks
<1>7. marks \in Seq(Int) /\ Len(marks) \in 2 .. TickCount + 1
  BY <1>6 DEF Marked
<1>8. marks[1] \in Int /\ LastOf(marks) \in Int
  <2>1. 1 \in 1 .. Len(marks) /\ Len(marks) \in 1 .. Len(marks)
    <3> DEFINE n == Len(marks)
    <3>1. n \in 2 .. 6
      BY <1>7 DEF TickCount
    <3> HIDE DEF n
    <3>2. 1 \in 1 .. n /\ n \in 1 .. n
      BY <3>1
    <3> QED  BY <3>2 DEF n
  <2> QED  BY <1>7, <2>1 DEF LastOf
<1>9. marks[1] <= low /\ high <= LastOf(marks) /\ marks[1] < LastOf(marks)
  BY <1>6 DEF Marked
<1>10. \A v \in S : marks[1] <= v /\ v <= LastOf(marks)
  <2> SUFFICES ASSUME NEW v \in S PROVE marks[1] <= v /\ v <= LastOf(marks)
    OBVIOUS
  <2>1. low <= v /\ v <= high /\ v \in Int /\ low \in Int /\ high \in Int
    BY <1>1, <1>3
  <2> QED  BY <1>8, <1>9, <2>1
<1>11. MarksSpan(marks, values)
  BY <1>6, <1>10 DEF Marked, MarksSpan, S
<1>12. marks[1] <= 0 /\ 0 <= LastOf(marks)
  BY <1>2, <1>10
<1> QED  BY <1>4, <1>7, <1>8, <1>9, <1>11, <1>12 DEF Axis

\* Where a value stands on a scale that has room for all of it.
LEMMA Scaled ==
    ASSUME NEW m \in Int, NEW span \in Nat \ {0}, NEW H \in Nat, NEW v \in Int, m <= v, v <= m + span
    PROVE  /\ (v - m) * H \in Int
           /\ Rounded((v - m) * H, span) \in Int
           /\ 0 <= Rounded((v - m) * H, span)
           /\ Rounded((v - m) * H, span) <= H
<1> DEFINE p == (v - m) * H
<1>1. p \in Int /\ 0 * span <= p /\ p <= H * span
  BY Product, v - m <= span, 0 <= v - m, v - m \in Int
<1> HIDE DEF p
<1>2. 0 <= Rounded(p, span) /\ Rounded(p, span) <= H /\ Rounded(p, span) \in Int
  BY <1>1, RoundedAtLeast, RoundedAtMost, RoundedIs
<1> QED  BY <1>1, <1>2 DEF p

\* A larger value stands no lower on its scale.
LEMMA ScaleClimbs ==
    ASSUME NEW m \in Int, NEW span \in Nat \ {0}, NEW H \in Nat, NEW v \in Int, NEW w \in Int, v <= w
    PROVE  Rounded((v - m) * H, span) <= Rounded((w - m) * H, span)
<1>1. (v - m) * H <= (w - m) * H /\ (v - m) * H \in Int /\ (w - m) * H \in Int
  BY Product, v - m <= w - m, v - m \in Int, w - m \in Int
<1> QED  BY <1>1, RoundedClimbs

\* Two values stand as far apart as they are, to within a dot.
LEMMA ScaleTells ==
    ASSUME NEW m \in Int, NEW span \in Nat \ {0}, NEW H \in Nat, NEW v \in Int, NEW w \in Int
    PROVE  LET d == Rounded((w - m) * H, span) - Rounded((v - m) * H, span)
           IN  d * span - (w - v) * H <= span /\ -span <= d * span - (w - v) * H
<1> DEFINE p == (v - m) * H
           q == (w - m) * H
           P == Rounded(p, span)
           Q == Rounded(q, span)
<1>1. p \in Int /\ q \in Int /\ q - p = (w - v) * H
  OBVIOUS
<1> HIDE DEF p, q
<1>2. P \in Int /\ 2 * (P * span) <= 2 * p + span /\ 2 * p < 2 * (P * span) + span
  BY <1>1, RoundedIs
<1>3. Q \in Int /\ 2 * (Q * span) <= 2 * q + span /\ 2 * q < 2 * (Q * span) + span
  BY <1>1, RoundedIs
<1> HIDE DEF P, Q
<1>4. (Q - P) * span = Q * span - P * span /\ Q * span \in Int /\ P * span \in Int
  BY <1>2, <1>3
<1>5. (Q - P) * span - (q - p) <= span /\ -span <= (Q - P) * span - (q - p)
  BY <1>1, <1>2, <1>3, <1>4
<1> QED  BY <1>1, <1>5 DEF p, q, P, Q

\* A value stands on the dots of the plot.
LEMMA DownIs ==
    ASSUME NEW values \in SUBSET Int, NEW marks, Axis(marks, values), NEW top \in Int, NEW H \in Nat,
           NEW v \in values \cup {0}
    PROVE  /\ Down(marks, top, H, v) \in Int
           /\ top <= Down(marks, top, H, v) /\ Down(marks, top, H, v) <= top + H
<1> DEFINE m == marks[1]
           span == LastOf(marks) - marks[1]
           R == Rounded((v - m) * H, span)
<1>1. m \in Int /\ span \in Nat \ {0} /\ v \in Int /\ m <= v /\ v <= m + span
  BY DEF Axis, MarksSpan
<1>2. Down(marks, top, H, v) = top + H - R
  BY DEF Down
<1>3. R \in Int /\ 0 <= R /\ R <= H
  <2> HIDE DEF m, span
  <2> QED  BY <1>1, Scaled
<1> HIDE DEF R
<1> QED  BY <1>2, <1>3

\* A larger value stands no further down.
LEMMA DownFalls ==
    ASSUME NEW values \in SUBSET Int, NEW marks, Axis(marks, values), NEW top \in Int, NEW H \in Nat,
           NEW v \in values \cup {0}, NEW w \in values \cup {0}, v <= w
    PROVE  Down(marks, top, H, w) <= Down(marks, top, H, v)
<1> DEFINE m == marks[1]
           span == LastOf(marks) - marks[1]
           P == Rounded((v - m) * H, span)
           Q == Rounded((w - m) * H, span)
<1>1. m \in Int /\ span \in Nat \ {0} /\ v \in Int /\ w \in Int /\ m <= v /\ v <= m + span /\ m <= w /\ w <= m + span
  BY DEF Axis, MarksSpan
<1>2. Down(marks, top, H, w) = top + H - Q /\ Down(marks, top, H, v) = top + H - P
  BY DEF Down
<1>3. P \in Int /\ Q \in Int /\ P <= Q
  <2> HIDE DEF m, span
  <2> QED  BY <1>1, Scaled, ScaleClimbs
<1> HIDE DEF P, Q
<1> QED  BY <1>2, <1>3

\* Two values stand as far apart down the plot as they are, to within a dot.
LEMMA DownTells ==
    ASSUME NEW values \in SUBSET Int, NEW marks, Axis(marks, values), NEW top \in Int, NEW H \in Nat,
           NEW v \in values \cup {0}, NEW w \in values \cup {0}
    PROVE  LET span == LastOf(marks) - marks[1]
               d    == Down(marks, top, H, v) - Down(marks, top, H, w)
           IN  d * span - (w - v) * H <= span /\ -span <= d * span - (w - v) * H
<1> DEFINE m == marks[1]
           span == LastOf(marks) - marks[1]
           P == Rounded((v - m) * H, span)
           Q == Rounded((w - m) * H, span)
<1>1. m \in Int /\ span \in Nat \ {0} /\ v \in Int /\ w \in Int /\ m <= v /\ v <= m + span /\ m <= w /\ w <= m + span
  BY DEF Axis, MarksSpan
<1>2. Down(marks, top, H, w) = top + H - Q /\ Down(marks, top, H, v) = top + H - P
  BY DEF Down
<1>3. /\ P \in Int /\ Q \in Int
      /\ (Q - P) * span - (w - v) * H <= span /\ -span <= (Q - P) * span - (w - v) * H
  <2> HIDE DEF m, span
  <2> QED  BY <1>1, Scaled, ScaleTells
<1> HIDE DEF P, Q
<1>4. Down(marks, top, H, v) - Down(marks, top, H, w) = Q - P
  BY <1>2, <1>3
<1> QED  BY <1>3, <1>4

\* A value across a plot stands on its dots, and a larger one no further to the left.
LEMMA AcrossIs ==
    ASSUME NEW values \in SUBSET Int, NEW marks, Axis(marks, values), NEW left \in Int, NEW W \in Nat \ {0},
           NEW v \in values \cup {0}
    PROVE  /\ Across(marks, left, W, v) \in Int
           /\ left <= Across(marks, left, W, v) /\ Across(marks, left, W, v) < left + W
           /\ \A w \in values \cup {0} : v <= w => Across(marks, left, W, v) <= Across(marks, left, W, w)
<1> DEFINE m == marks[1]
           span == LastOf(marks) - marks[1]
           H == W - 1
           R(u) == Rounded((u - m) * H, span)
<1>1. \A u \in values \cup {0} : u \in Int /\ m <= u /\ u <= m + span
  BY DEF Axis, MarksSpan
<1>2. m \in Int /\ span \in Nat \ {0} /\ H \in Nat /\ Larger(0, W - 1) = H
  BY DEF Axis, Larger
<1>3. \A u : Across(marks, left, W, u) = left + R(u)
  BY <1>2 DEF Across
<1> HIDE DEF m, span, H
<1>4. \A u \in values \cup {0} : R(u) \in Int /\ 0 <= R(u) /\ R(u) <= H
  <2> SUFFICES ASSUME NEW u \in values \cup {0} PROVE R(u) \in Int /\ 0 <= R(u) /\ R(u) <= H
    OBVIOUS
  <2>1. u \in Int /\ m <= u /\ u <= m + span
    BY <1>1
  <2> QED  BY <1>2, <2>1, Scaled
<1>5. \A u \in values \cup {0} : v <= u => R(v) <= R(u)
  <2> SUFFICES ASSUME NEW u \in values \cup {0}, v <= u PROVE R(v) <= R(u)
    OBVIOUS
  <2>1. u \in Int /\ v \in Int
    BY <1>1
  <2> QED  BY <1>2, <2>1, ScaleClimbs
<1> HIDE DEF R
<1>6. H < W
  BY DEF H
<1> QED  BY <1>2, <1>3, <1>4, <1>5, <1>6

\* What a tag and what is written between it and its end make.
ChartFits(c) ==
    /\ c \in [type: ChartTypes, width: Nat, height: Nat, title: Nat, legend: LegendModes,
              series: Seq([name: Nat, values: Seq(Reach \X Reach)]), labels: Seq(Nat)]
    /\ 3 <= c.height

\* What a chart that fits consists of.
LEMMA ChartIs ==
    ASSUME NEW c, ChartFits(c)
    PROVE  /\ c.type \in ChartTypes /\ c.width \in Nat /\ c.height \in Nat /\ 3 <= c.height
           /\ c.title \in Nat /\ c.legend \in LegendModes /\ c.labels \in Seq(Nat)
           /\ c.series \in Seq([name: Nat, values: Seq(Reach \X Reach)])
           /\ \A s \in 1 .. Len(c.series) :
                 c.series[s].name \in Nat /\ c.series[s].values \in Seq(Reach \X Reach)
           /\ \A i \in 1 .. Len(c.labels) : c.labels[i] \in Nat
           /\ DOMAIN c.series = 1 .. Len(c.series) /\ Len(c.series) \in Nat
           /\ DOMAIN c.labels = 1 .. Len(c.labels) /\ Len(c.labels) \in Nat
<1>1. /\ c.type \in ChartTypes /\ c.width \in Nat /\ c.height \in Nat /\ 3 <= c.height
      /\ c.title \in Nat /\ c.legend \in LegendModes /\ c.labels \in Seq(Nat)
      /\ c.series \in Seq([name: Nat, values: Seq(Reach \X Reach)])
  BY DEF ChartFits
<1> DEFINE One == [name: Nat, values: Seq(Reach \X Reach)]
<1>2. \A s \in 1 .. Len(c.series) : c.series[s] \in One
  <2>1. c.series \in Seq(One)
    BY <1>1
  <2> HIDE DEF One
  <2> QED  BY <2>1, ElementOfSeq
<1>3. \A s \in 1 .. Len(c.series) :
          c.series[s].name \in Nat /\ c.series[s].values \in Seq(Reach \X Reach)
  BY <1>2
<1>4. \A i \in 1 .. Len(c.labels) : c.labels[i] \in Nat
  BY <1>1, ElementOfSeq
<1>5. /\ DOMAIN c.series = 1 .. Len(c.series) /\ Len(c.series) \in Nat
      /\ DOMAIN c.labels = 1 .. Len(c.labels) /\ Len(c.labels) \in Nat
  <2>1. c.series \in Seq(One) /\ c.labels \in Seq(Nat)
    BY <1>1
  <2> HIDE DEF One
  <2> QED  BY <2>1, LenProperties
<1> HIDE DEF One
<1> QED  BY <1>1, <1>3, <1>4, <1>5 DEF One

\* A place of a chart is a series of it and a value of that series.
LEMMA PlacesAre ==
    ASSUME NEW c, ChartFits(c), NEW p \in Places(c)
    PROVE  /\ p = <<p[1], p[2]>> /\ p[1] \in 1 .. Len(c.series)
           /\ p[2] \in 1 .. Len(c.series[p[1]].values)
           /\ PointAt(c, p) \in Reach \X Reach
           /\ PointAt(c, p)[1] \in Xs(c) /\ PointAt(c, p)[2] \in Ys(c)
<1>1. PICK s \in DOMAIN c.series : p \in {s} \X DOMAIN c.series[s].values
  BY DEF Places
<1>2. s \in 1 .. Len(c.series) /\ c.series[s].values \in Seq(Reach \X Reach)
  BY <1>1, ChartIs
<1>3. p = <<p[1], p[2]>> /\ p[1] = s /\ p[2] \in DOMAIN c.series[s].values
  BY <1>1
<1>4. p[2] \in 1 .. Len(c.series[p[1]].values) /\ c.series[p[1]].values[p[2]] \in Reach \X Reach
  <2> DEFINE q == c.series[s].values
  <2>1. q \in Seq(Reach \X Reach) /\ p[2] \in DOMAIN q
    BY <1>2, <1>3
  <2> HIDE DEF q
  <2>2. p[2] \in 1 .. Len(q) /\ q[p[2]] \in Reach \X Reach
    BY <2>1
  <2> QED  BY <1>3, <2>2 DEF q
<1> QED  BY <1>2, <1>3, <1>4 DEF PointAt, Xs, Ys

\* The numbers of a chart are within reach.
LEMMA NumbersAre ==
    ASSUME NEW c, ChartFits(c)
    PROVE  /\ Xs(c) \in SUBSET Reach /\ Ys(c) \in SUBSET Reach
           /\ Xs(c) \in SUBSET Int /\ Ys(c) \in SUBSET Int
<1>1. ASSUME NEW p \in Places(c) PROVE PointAt(c, p)[1] \in Reach /\ PointAt(c, p)[2] \in Reach
  <2>1. PointAt(c, p) \in Reach \X Reach
    BY PlacesAre
  <2> QED  BY <2>1
<1>2. Xs(c) \in SUBSET Reach /\ Ys(c) \in SUBSET Reach
  BY <1>1 DEF Xs, Ys
<1>3. Reach \in SUBSET Int
  BY DEF Reach
<1> QED  BY <1>2, <1>3

\* No series has more values than the chart has categories.
LEMMA CategoriesAre ==
    ASSUME NEW c, ChartFits(c)
    PROVE  /\ Categories(c) \in Nat
           /\ \A p \in Places(c) : p[2] \in 1 .. Categories(c)
<1> DEFINE n == Len(c.series)
           f == [s \in 1 .. n |-> Len(c.series[s].values)]
           S == {f[s] : s \in 1 .. n}
<1>1. n \in Nat /\ \A s \in 1 .. n : f[s] \in Nat
  <2>1. \A s \in 1 .. n : c.series[s].values \in Seq(Reach \X Reach)
    BY ChartIs
  <2>2. \A s \in 1 .. n : Len(c.series[s].values) \in Nat
    BY <2>1, LenProperties
  <2> QED  BY <2>2, ChartIs
<1>2. {Len(c.series[s].values) : s \in DOMAIN c.series} = S
  BY ChartIs
<1>3. PICK L \in Nat : S \in SUBSET (0 .. L)
  <2> HIDE DEF n, f
  <2> QED  BY <1>1, NumbersEnd
<1>4. Categories(c) \in 0 .. L /\ \A y \in S : y <= Categories(c)
  <2>1. Categories(c) = WidestOf(S)
    BY <1>2 DEF Categories
  <2> HIDE DEF S
  <2> QED  BY <1>3, <2>1, WidestIs
<1>5. ASSUME NEW p \in Places(c) PROVE p[2] \in 1 .. Categories(c)
  <2>1. p[1] \in 1 .. n /\ p[2] \in 1 .. Len(c.series[p[1]].values)
    BY PlacesAre
  <2>2. f[p[1]] = Len(c.series[p[1]].values) /\ f[p[1]] \in S
    BY <2>1
  <2>3. f[p[1]] <= Categories(c) /\ f[p[1]] \in Nat
    BY <1>1, <1>4, <2>1, <2>2
  <2> DEFINE len == Len(c.series[p[1]].values)
             k   == p[2]
  <2> HIDE DEF len, k
  <2>4. k \in 1 .. len /\ len \in Nat /\ len <= Categories(c) /\ Categories(c) \in Nat
    BY <1>4, <2>1, <2>2, <2>3 DEF len, k
  <2>5. k \in 1 .. Categories(c)
    BY <2>4
  <2> QED  BY <2>5 DEF k
<1> QED  BY <1>4, <1>5

(***************************************************************************)
(* The frame                                                                *)
(***************************************************************************)

\* A mark takes six characters at most.
LEMMA ShownIs ==
    ASSUME NEW m \in Int
    PROVE  Shown(m) \in 0 .. 6
<1> DEFINE size == IF m < 0 THEN -m ELSE m
<1>1. Digits(size \div 10) \in 1 .. 3
  BY DEF Digits
<1> QED  BY <1>1 DEF Shown

\* The marks and their gap take some dots.
LEMMA AxisWidthIs ==
    ASSUME NEW c, ChartFits(c)
    PROVE  AxisWidth(c) \in Nat /\ (c.type # "pie" => 4 <= AxisWidth(c))
<1> DEFINE marks == ChartTicks(c)
           S == {Shown(marks[m]) : m \in DOMAIN marks}
<1>1. marks \in Seq(Int)
  BY NumbersAre, AxisOf DEF ChartTicks, Axis
<1>2. S \in SUBSET (0 .. 6)
  <2>1. \A m \in DOMAIN marks : marks[m] \in Int
    BY <1>1
  <2> QED  BY <2>1, ShownIs
<1>3. WidestOf(S) \in 0 .. 6
  <2> HIDE DEF S
  <2> QED  BY <1>2, WidestIs, 6 \in Nat
<1> HIDE DEF S
<1>4. TextDots(WidestOf(S)) + AxisGap \in Nat /\ 4 <= TextDots(WidestOf(S)) + AxisGap
  BY <1>3 DEF TextDots, LetterDots, AxisGap
<1> QED  BY <1>4 DEF AxisWidth, S

\* A legend lists names.
LEMMA EntriesAre ==
    ASSUME NEW c, ChartFits(c), c.type = "pie" => Len(c.series) = 1
    PROVE  LegendEntries(c) \in Seq(Nat)
<1> DEFINE named(i) == IF c.type = "pie" THEN (IF i <= Len(c.labels) THEN c.labels[i] ELSE 2)
                       ELSE IF c.series[i].name = 0 THEN 1 ELSE c.series[i].name
           all == IF c.type = "pie" THEN Len(c.series[1].values) ELSE Len(c.series)
           n   == Smaller(all, ChartHeight(c) \div EntryHeight)
<1>1. all \in Nat
  <2>1. CASE c.type = "pie"
    <3>1. c.series[1].values \in Seq(Reach \X Reach)
      <4>1. 1 \in 1 .. Len(c.series)
        BY <2>1
      <4>2. \A s \in 1 .. Len(c.series) : c.series[s].values \in Seq(Reach \X Reach)
        BY ONLY ChartFits(c), ChartIs
      <4> QED  BY ONLY <4>1, <4>2
    <3>2. Len(c.series[1].values) \in Nat
      <4> DEFINE values == c.series[1].values
      <4>1. values \in Seq(Reach \X Reach)
        BY <3>1
      <4> HIDE DEF values
      <4>2. Len(values) \in Nat
        BY <4>1, LenProperties
      <4> QED  BY <4>2 DEF values
    <3> QED  BY <2>1, <3>2
  <2> QED  BY <2>1, ChartIs
<1> HIDE DEF all
<1>2. n \in Nat /\ n <= all
  <2>1. ChartHeight(c) \in Nat /\ EntryHeight \in Nat \ {0}
    BY ChartIs DEF ChartHeight, LineDots, EntryHeight, Larger, Swatch, LabelCell, EntryGap
  <2>2. 0 <= ChartHeight(c) \div EntryHeight /\ ChartHeight(c) \div EntryHeight \in Int
    BY <2>1, Quotient, QuotientAtLeast
  <2> QED  BY <1>1, <2>2 DEF Smaller
<1>3. ASSUME NEW i \in 1 .. n PROVE named(i) \in Nat
  <2>1. CASE c.type = "pie"
    <3>1. i <= Len(c.labels) => i \in 1 .. Len(c.labels)
      BY <1>2, ChartIs
    <3> QED  BY <2>1, <3>1, ChartIs
  <2>2. CASE c.type # "pie"
    <3>1. i \in 1 .. Len(c.series)
      BY <1>1, <1>2, <2>2 DEF all
    <3> QED  BY <2>2, <3>1, ChartIs
  <2> QED  BY <2>1, <2>2
<1>4. LegendEntries(c) = IF ShowsLegend(c) THEN [i \in 1 .. n |-> named(i)] ELSE <<>>
  BY DEF LegendEntries, all
<1> HIDE DEF n, named
<1>5. [i \in 1 .. n |-> named(i)] \in Seq(Nat)
  BY <1>2, <1>3
<1> QED  BY <1>4, <1>5

\* A legend takes some dots.
LEMMA LegendIs ==
    ASSUME NEW entries \in Seq(Nat)
    PROVE  LegendWidth(entries) \in Nat /\ LegendHeight(entries) \in Nat
<1> DEFINE n == Len(entries)
           S == {entries[i] : i \in 1 .. n}
<1>1. n \in Nat /\ (\A i \in 1 .. n : entries[i] \in Nat) /\ DOMAIN entries = 1 .. n
  OBVIOUS
<1>2. PICK L \in Nat : S \in SUBSET (0 .. L)
  <2> HIDE DEF n
  <2> QED  BY <1>1, NumbersEnd
<1>3. WidestOf(S) \in Nat
  <2> HIDE DEF S
  <2>1. WidestOf(S) \in 0 .. L
    BY <1>2, WidestIs
  <2> QED  BY <2>1
<1>4. LegendWidth(entries) = Swatch + SwatchGap + TextDots(WidestOf(S))
  BY <1>1 DEF LegendWidth
<1> HIDE DEF S
<1> QED  BY <1>1, <1>3, <1>4 DEF LegendHeight, EntryHeight, Larger, Swatch, SwatchGap, TextDots, LetterDots,
            LabelCell, EntryGap

Rects == [x: Nat, y: Nat, w: Nat, h: Nat]

\* How much of a chart's room its legend takes, beside the plot or below it.
WideOf(c) == IF LegendEntries(c) # <<>> /\ Besides(c) THEN LegendWidth(LegendEntries(c)) + LegendGap ELSE 0
HighOf(c) == IF Besides(c) THEN 0 ELSE LegendHeight(LegendEntries(c))

\* Where the plot of a chart is, and what it is left.
LEMMA FrameIs ==
    ASSUME NEW c, ChartFits(c), c.type = "pie" => Len(c.series) = 1
    PROVE  /\ WideOf(c) \in Nat /\ HighOf(c) \in Nat
           /\ AxisWidth(c) \in Nat /\ AxisHeight(c) \in {0, 21} /\ TitleHeight(c) \in {0, 28}
           /\ ChartHeight(c) \in Nat /\ 72 <= ChartHeight(c) /\ c.width \in Nat
           /\ Frame(c).plot \in Rects
           /\ Frame(c).plot.x = AxisWidth(c) /\ Frame(c).plot.y = TitleHeight(c)
           /\ Frame(c).plot.w = Larger(0, c.width - AxisWidth(c) - WideOf(c))
           /\ Frame(c).plot.h = Larger(0, ChartHeight(c) - TitleHeight(c) - AxisHeight(c) - HighOf(c))
<1>1. LegendWidth(LegendEntries(c)) \in Nat /\ LegendHeight(LegendEntries(c)) \in Nat
  BY EntriesAre, LegendIs
<1>2. WideOf(c) \in Nat /\ HighOf(c) \in Nat
  BY <1>1 DEF WideOf, HighOf, LegendGap
<1>3. AxisWidth(c) \in Nat /\ AxisHeight(c) \in {0, 21} /\ TitleHeight(c) \in {0, 28}
  BY AxisWidthIs DEF AxisHeight, TitleHeight, LabelCell, AxisGap, TitleCell, TitleGap
<1>4. ChartHeight(c) \in Nat /\ 72 <= ChartHeight(c) /\ c.width \in Nat
  BY ChartIs DEF ChartHeight, LineDots
<1>5. Frame(c).plot = PlotIn(c, AxisWidth(c), WideOf(c), HighOf(c))
  BY DEF Frame, FrameOf, WideOf, HighOf
<1>6. /\ Frame(c).plot.x = AxisWidth(c) /\ Frame(c).plot.y = TitleHeight(c)
      /\ Frame(c).plot.w = Larger(0, c.width - AxisWidth(c) - WideOf(c))
      /\ Frame(c).plot.h = Larger(0, ChartHeight(c) - TitleHeight(c) - AxisHeight(c) - HighOf(c))
  BY <1>5 DEF PlotIn
<1>7. /\ Larger(0, c.width - AxisWidth(c) - WideOf(c)) \in Nat
      /\ Larger(0, ChartHeight(c) - TitleHeight(c) - AxisHeight(c) - HighOf(c)) \in Nat
  BY <1>2, <1>3, <1>4 DEF Larger
<1>8. Frame(c).plot \in Rects
  BY <1>3, <1>5, <1>7 DEF PlotIn, Rects
<1> QED  BY <1>2, <1>3, <1>4, <1>6, <1>8

\* The plot does not pass the right edge of the chart.
LEMMA PlotIsInside ==
    ASSUME NEW c, ChartFits(c), c.type = "pie" => Len(c.series) = 1
    PROVE  /\ Frame(c).plot.w <= c.width
           /\ Frame(c).plot.w # 0 => Frame(c).plot.x + Frame(c).plot.w <= c.width
<1> DEFINE a == AxisWidth(c)
           w == WideOf(c)
           p == Frame(c).plot.w
<1>1. a \in Nat /\ w \in Nat /\ c.width \in Nat /\ p = Larger(0, c.width - a - w) /\ Frame(c).plot.x = a
  BY FrameIs
<1> HIDE DEF a, w, p
<1>2. p <= c.width /\ (p # 0 => a + p <= c.width)
  BY <1>1 DEF Larger
<1> QED  BY <1>1, <1>2 DEF p

\* The plot, the axis under it and the legend of a chart that is not crowded.
LEMMA PartsApart ==
    ASSUME NEW c, ChartFits(c), c.type = "pie" => Len(c.series) = 1
    PROVE  PartsKeepApart(c, Frame(c).plot, Frame(c).legend)
<1> DEFINE plot   == Frame(c).plot
           legend == Frame(c).legend
           es     == LegendEntries(c)
           W      == c.width
           A      == AxisWidth(c)
           H      == ChartHeight(c)
           T      == TitleHeight(c)
           U      == AxisHeight(c)
           whole  == [x |-> 0, y |-> 0, w |-> W, h |-> H]
           under  == [x |-> plot.x, y |-> plot.y + plot.h, w |-> plot.w, h |-> U]
           px     == plot.x
           py     == plot.y
           pw     == plot.w
           ph     == plot.h
           lw     == LegendWidth(es)
           lh     == LegendHeight(es)
           half   == W \div 2
<1> SUFFICES ASSUME A <= W, ~Crowded(c, legend)
             PROVE  /\ Contained(plot, whole) /\ plot.y >= T /\ Contained(under, whole)
                    /\ \A l \in legend :
                          /\ Contained(l, whole) /\ Apart(l, plot) /\ Apart(l, under)
                          /\ Besides(c) => plot.w >= MinPlot
  BY DEF PartsKeepApart
<1>1. /\ WideOf(c) \in Nat /\ HighOf(c) \in Nat /\ A \in Nat /\ U \in {0, 21} /\ T \in {0, 28}
      /\ H \in Nat /\ 72 <= H /\ W \in Nat
      /\ px = A /\ py = T /\ pw = Larger(0, W - A - WideOf(c)) /\ ph = Larger(0, H - T - U - HighOf(c))
  BY FrameIs
<1>2. lw \in Nat /\ lh \in Nat /\ half \in Int /\ 0 <= half
  <2>1. es \in Seq(Nat)
    BY EntriesAre
  <2> HIDE DEF es, W
  <2>2. lw \in Nat /\ lh \in Nat
    BY <2>1, LegendIs
  <2>3. half \in Int /\ 0 <= half
    BY <1>1
  <2> QED  BY <2>2, <2>3
<1>3. es = <<>> => lh = 0
  BY DEF LegendHeight, EntryHeight, Larger, Swatch, LabelCell, EntryGap
<1>4. \A l \in legend : es # <<>> /\ l = [x |-> IF Besides(c) THEN px + pw + LegendGap ELSE px,
                                          y |-> IF Besides(c) THEN py ELSE py + ph + U,
                                          w |-> lw, h |-> lh]
  BY DEF Frame, FrameOf
<1>5. es # <<>> => \E l \in legend : l.w = lw /\ l.h = lh
  BY DEF Frame, FrameOf
<1>6. es # <<>> => /\ lw <= (IF Besides(c) THEN half ELSE W - A)
                   /\ T + lh + (IF Besides(c) THEN 0 ELSE U) <= H
  <2> SUFFICES ASSUME es # <<>>
               PROVE  /\ lw <= (IF Besides(c) THEN half ELSE W - A)
                      /\ T + lh + (IF Besides(c) THEN 0 ELSE U) <= H
    OBVIOUS
  <2>1. PICK l \in legend : l.w = lw /\ l.h = lh
    BY <1>5
  <2>2. /\ ~(lw > (IF Besides(c) THEN half ELSE W - A))
        /\ ~(T + lh + (IF Besides(c) THEN 0 ELSE U) > H)
    BY <2>1 DEF Crowded
  <2> HIDE DEF es, W, A, H, T, U, legend, lw, lh, half
  <2>3. U \in Int /\ T \in Int
    BY <1>1
  <2>4. CASE Besides(c)
    <3>1. ~(lw > half) /\ ~(T + lh + 0 > H)
      BY <2>2, <2>4
    <3>2. lw <= half /\ T + lh + 0 <= H
      BY <1>1, <1>2, <2>3, <3>1
    <3> QED  BY <2>4, <3>2
  <2>5. CASE ~Besides(c)
    <3>1. ~(lw > W - A) /\ ~(T + lh + U > H)
      BY <2>2, <2>5
    <3>2. lw <= W - A /\ T + lh + U <= H
      BY <1>1, <1>2, <2>3, <3>1
    <3> QED  BY <2>5, <3>2
  <2> QED  BY <2>4, <2>5
<1>7. WideOf(c) = (IF es # <<>> /\ Besides(c) THEN lw + 8 ELSE 0)
  BY DEF WideOf, LegendGap
<1>8. HighOf(c) = (IF Besides(c) THEN 0 ELSE lh)
  BY DEF HighOf
<1>9. Besides(c) => W - A - 8 - half >= 200
  BY DEF Besides, LegendGap, MinPlot
<1>10. /\ plot.x = px /\ plot.y = py /\ plot.w = pw /\ plot.h = ph
       /\ whole.x = 0 /\ whole.y = 0 /\ whole.w = W /\ whole.h = H
       /\ under.x = px /\ under.y = py + ph /\ under.w = pw /\ under.h = U
  OBVIOUS
<1>11. \A l \in legend : /\ l.x = (IF Besides(c) THEN px + pw + 8 ELSE px)
                         /\ l.y = (IF Besides(c) THEN py ELSE py + ph + U)
                         /\ l.w = lw /\ l.h = lh /\ es # <<>>
  BY <1>4 DEF LegendGap, lw, lh
<1> HIDE DEF plot, legend, es, whole, under, W, A, H, T, U, px, py, pw, ph, lw, lh, half
<1>13. pw \in Nat /\ ph \in Nat /\ A + pw <= W /\ T + ph + U <= H
  <2>1. CASE Besides(c) /\ es # <<>>
    BY <1>1, <1>2, <1>6, <1>7, <1>8, <1>9, <2>1 DEF Larger
  <2>2. CASE ~Besides(c) /\ es # <<>>
    BY <1>1, <1>2, <1>6, <1>7, <1>8, <2>2 DEF Larger
  <2>3. CASE es = <<>>
    BY <1>1, <1>2, <1>3, <1>7, <1>8, <2>3 DEF Larger
  <2> QED  BY <2>1, <2>2, <2>3
<1>17. px \in Int /\ py \in Int /\ U \in Int /\ T \in Int /\ 0 <= px /\ 0 <= py /\ 0 <= U /\ px = A /\ py = T
  BY <1>1
<1>14. Contained(plot, whole) /\ plot.y >= T
  BY <1>1, <1>10, <1>13 DEF Contained
<1>15. Contained(under, whole)
  BY <1>1, <1>10, <1>13 DEF Contained
<1>16. ASSUME NEW l \in legend
       PROVE  /\ Contained(l, whole) /\ Apart(l, plot) /\ Apart(l, under)
              /\ Besides(c) => plot.w >= MinPlot
  <2>1. CASE Besides(c)
    <3>1. l.x = px + pw + 8 /\ l.y = py /\ l.w = lw /\ l.h = lh /\ es # <<>>
      BY <1>11, <2>1
    <3>2. pw = W - A - lw - 8 /\ pw >= 200 /\ lw <= half /\ T + lh <= H
      <4>1. WideOf(c) = lw + 8 /\ W - A - 8 - half >= 200 /\ lw <= half /\ T + lh + 0 <= H
        BY <1>6, <1>7, <1>9, <2>1, <3>1
      <4>2. W - A - WideOf(c) = W - A - lw - 8 /\ W - A - lw - 8 >= 200
        BY <1>1, <1>2, <4>1
      <4> QED  BY <1>1, <1>2, <4>1, <4>2 DEF Larger
    <3>3. Contained(l, whole)
      <4>1. /\ px + pw + 8 >= 0 /\ px + pw + 8 + lw <= 0 + W
            /\ py >= 0 /\ py + lh <= 0 + H
        BY <1>1, <1>2, <1>13, <1>17, <3>2
      <4> QED  BY <1>10, <3>1, <4>1 DEF Contained
    <3>4. Beside(l, plot) /\ Beside(l, under)
      <4>1. px + pw <= l.x
        BY <1>13, <1>17, <3>1
      <4> QED  BY <1>10, <4>1 DEF Beside
    <3> QED  BY <1>10, <3>2, <3>3, <3>4 DEF Apart, MinPlot
  <2>2. CASE ~Besides(c)
    <3>1. l.x = px /\ l.y = py + ph + U /\ l.w = lw /\ l.h = lh /\ es # <<>>
      BY <1>11, <2>2
    <3>2. lw <= W - A /\ ph = H - T - U - lh
      <4>1. HighOf(c) = lh /\ lw <= W - A /\ T + lh + U <= H
        BY <1>6, <1>8, <2>2, <3>1
      <4> QED  BY <1>1, <1>2, <4>1 DEF Larger
    <3>3. Contained(l, whole)
      <4>1. /\ px >= 0 /\ px + lw <= 0 + W
            /\ py + ph + U >= 0 /\ py + ph + U + lh <= 0 + H
        BY <1>1, <1>2, <1>13, <1>17, <3>2
      <4> QED  BY <1>10, <3>1, <4>1 DEF Contained
    <3>4. Apart(l, plot) /\ Apart(l, under)
      <4>1. py + ph <= py + ph + U /\ py + ph + U <= py + ph + U
        BY <1>13, <1>17
      <4> QED  BY <1>10, <3>1, <4>1 DEF Apart
    <3> QED  BY <2>2, <3>3, <3>4
  <2> QED  BY <2>1, <2>2
<1> QED  BY <1>14, <1>15, <1>16

(***************************************************************************)
(* Bars                                                                     *)
(***************************************************************************)

\* Each share of a room is as wide as it would be if every share were rounded down.
LEMMA Shares ==
    ASSUME NEW C \in Nat \ {0}, NEW w \in Nat, NEW j \in Int, NEW k \in Int, j < k
    PROVE  /\ (j * w) \div C \in Int /\ (k * w) \div C \in Int /\ w \div C \in Int
           /\ (j * w) \div C + w \div C <= (k * w) \div C
<1> DEFINE s == (j * w) \div C
           r == w \div C
<1>1. j * w \in Int /\ k * w \in Int /\ j * w + w <= k * w
  <2>1. (j + 1) * w <= k * w
    BY Product, j + 1 <= k
  <2> QED  BY <2>1
<1>2. s \in Int /\ s * C <= j * w /\ r \in Int /\ r * C <= w
  BY <1>1, Quotient
<1> HIDE DEF s, r
<1>3. (s + r) * C <= k * w /\ s + r \in Int
  BY <1>1, <1>2
<1>4. s + r <= (k * w) \div C /\ (k * w) \div C \in Int
  BY <1>1, <1>3, Quotient, QuotientAtLeast
<1> QED  BY <1>2, <1>4 DEF s, r

\* A share of the plot ends inside it.
LEMMA ShareEnds ==
    ASSUME NEW C \in Nat \ {0}, NEW w \in Nat, NEW k \in 0 .. C
    PROVE  0 <= (k * w) \div C /\ (k * w) \div C <= w
<1>1. k * w \in Int /\ 0 * C <= k * w /\ k * w < (w + 1) * C
  <2>1. k * w <= C * w
    BY Product
  <2> QED  BY <2>1
<1>2. (k * w) \div C \in Int /\ (k * w) \div C < w + 1 /\ 0 <= (k * w) \div C
  BY <1>1, Quotient, QuotientAtLeast, QuotientBelow
<1> QED  BY <1>2

\* What a series' bars, gaps and all, take of a category's share.
LEMMA BarsAcross ==
    ASSUME NEW n \in Nat \ {0}, NEW room \in Int, NEW s \in 1 .. n,
           NEW width \in Nat \ {0}, width = (room - 2 * (n - 1)) \div n
    PROVE  /\ 0 <= (s - 1) * (width + 2) /\ (s - 1) * (width + 2) \in Int
           /\ (s - 1) * (width + 2) + width <= room
           /\ \A t \in 1 .. n : s < t => (s - 1) * (width + 2) + width <= (t - 1) * (width + 2)
<1>1. width * n <= room - 2 * (n - 1)
  BY Quotient
<1>2. (s - 1) * (width + 2) <= (n - 1) * (width + 2) /\ (s - 1) * (width + 2) \in Int
  BY Product, s - 1 <= n - 1
<1>3. (n - 1) * (width + 2) + width = width * n + 2 * (n - 1)
  OBVIOUS
<1>4. 0 <= (s - 1) * (width + 2)
  <2>1. 0 * (width + 2) <= (s - 1) * (width + 2)
    BY Product, 0 <= s - 1
  <2> QED  BY <2>1
<1>5. ASSUME NEW t \in 1 .. n, s < t
      PROVE  (s - 1) * (width + 2) + width <= (t - 1) * (width + 2)
  <2>1. (s - 1 + 1) * (width + 2) <= (t - 1) * (width + 2)
    BY <1>5, Product, s - 1 + 1 <= t - 1
  <2> QED  BY <2>1
<1>6. (s - 1) * (width + 2) + width <= room
  BY <1>1, <1>2, <1>3
<1> QED  BY <1>2, <1>4, <1>5, <1>6

\* Zero is among the marks, so bars stand on it.
LEMMA ZeroIs ==
    ASSUME NEW values, NEW marks, Axis(marks, values)
    PROVE  ZeroOf(marks) = 0
<1>1. marks[1] \in Int /\ LastOf(marks) \in Int /\ marks[1] <= 0 /\ 0 <= LastOf(marks)
  BY DEF Axis
<1> QED  BY <1>1 DEF ZeroOf, Larger, Smaller

\* One bar: where it stands, of which series, category and value.
BarAt(c, plot, marks, b, p) ==
    LET n     == Len(c.series)
        width == (plot.w \div Categories(c) - 2 * CategoryMargin - BarGap * (n - 1)) \div n
        top   == Down(marks, plot.y, plot.h, b.value)
        base  == Down(marks, plot.y, plot.h, 0)
    IN  /\ p \in Places(c) /\ width \in Nat \ {0} /\ plot.w # 0
        /\ b = [series |-> b.series, category |-> b.category, value |-> b.value,
                x |-> b.x, y |-> b.y, w |-> b.w, h |-> b.h]
        /\ b.series = p[1] /\ b.category = p[2] /\ b.value = PointAt(c, p)[2]
        /\ b.x = plot.x + ((p[2] - 1) * plot.w) \div Categories(c) + CategoryMargin
                     + (p[1] - 1) * (width + BarGap)
        /\ b.y = Smaller(top, base) /\ b.w = width /\ b.h = Larger(base - top, top - base)

\* Every bar drawn is one of a place of the chart.
LEMMA BarsAre ==
    ASSUME NEW c, ChartFits(c), NEW plot \in Rects, NEW marks, Axis(marks, Ys(c)), NEW b \in Bars(c, plot, marks)
    PROVE  \E p : BarAt(c, plot, marks, b, p)
<1> DEFINE n     == Len(c.series)
           room  == plot.w \div Categories(c) - 2 * CategoryMargin - BarGap * (n - 1)
           width == room \div n
           top(p) == Down(marks, plot.y, plot.h, PointAt(c, p)[2])
           base  == Down(marks, plot.y, plot.h, 0)
           bar(p) == [series |-> p[1], category |-> p[2], value |-> PointAt(c, p)[2],
               x |-> plot.x + ((p[2] - 1) * plot.w) \div Categories(c) + CategoryMargin
                         + (p[1] - 1) * (width + BarGap),
               y |-> Smaller(top(p), base), w |-> width, h |-> Larger(base - top(p), top(p) - base)]
<1>1. Bars(c, plot, marks) = IF plot.w = 0 \/ width < 1 THEN {} ELSE {bar(p) : p \in Places(c)}
  <2> DEFINE foot   == Down(marks, plot.y, plot.h, ZeroOf(marks))
             rod(p) == [series |-> p[1], category |-> p[2], value |-> PointAt(c, p)[2],
                        x |-> plot.x + ((p[2] - 1) * plot.w) \div Categories(c) + CategoryMargin
                                  + (p[1] - 1) * (width + BarGap),
                        y |-> Smaller(top(p), foot), w |-> width, h |-> Larger(foot - top(p), top(p) - foot)]
  <2>1. Bars(c, plot, marks) = IF plot.w = 0 \/ width < 1 THEN {} ELSE {rod(p) : p \in Places(c)}
    BY Zenon DEF Bars
  <2>2. foot = base
    BY ZeroIs
  <2>3. \A p : rod(p) = bar(p)
    BY <2>2
  <2> HIDE DEF rod, bar, width
  <2> QED  BY <2>1, <2>3
<1>2. plot.w # 0 /\ ~(width < 1)
  BY <1>1
<1>3. PICK p \in Places(c) : b = bar(p)
  BY <1>1
<1>4. width \in Nat \ {0}
  <2>1. n \in Nat \ {0} /\ Categories(c) \in Nat \ {0}
    BY <1>3, PlacesAre, CategoriesAre, ChartIs
  <2>2. plot.w \in Nat
    BY DEF Rects
  <2>3. plot.w \div Categories(c) \in Int
    BY <2>1, <2>2, Quotient
  <2>4. room \in Int
    BY <2>1, <2>3 DEF CategoryMargin, BarGap
  <2> HIDE DEF room, n
  <2>5. width \in Int
    BY <2>1, <2>4, Quotient
  <2> HIDE DEF width
  <2> QED  BY <1>2, <2>5
<1>5. BarAt(c, plot, marks, bar(p), p)
  <2> HIDE DEF width
  <2>1. BarAt(c, plot, marks, bar(p), p) <=>
          LET q == bar(p) IN
          /\ p \in Places(c) /\ width \in Nat \ {0} /\ plot.w # 0
          /\ q = [series |-> q.series, category |-> q.category, value |-> q.value,
                  x |-> q.x, y |-> q.y, w |-> q.w, h |-> q.h]
          /\ q.series = p[1] /\ q.category = p[2] /\ q.value = PointAt(c, p)[2]
          /\ q.x = plot.x + ((p[2] - 1) * plot.w) \div Categories(c) + CategoryMargin
                     + (p[1] - 1) * (width + BarGap)
          /\ q.y = Smaller(top(p), base) /\ q.w = width /\ q.h = Larger(base - top(p), top(p) - base)
    BY DEF BarAt, width
  <2> QED  BY <1>2, <1>3, <1>4, <2>1
<1> HIDE DEF bar
<1> QED  BY <1>3, <1>5

\* The room a bar has to itself.
LEMMA BarStands ==
    ASSUME NEW c, ChartFits(c), NEW plot \in Rects, NEW marks, Axis(marks, Ys(c)),
           NEW a, NEW p, BarAt(c, plot, marks, a, p)
    PROVE  /\ a.x \in Int /\ a.y \in Int /\ a.w \in Nat \ {0} /\ a.h \in Nat /\ a.value \in Int
           /\ a.value \in Ys(c) /\ a.series \in Int /\ a.category \in Int
           /\ Contained(a, plot)
           /\ \A b, q : BarAt(c, plot, marks, b, q) =>
                 /\ a.category < b.category => a.x + a.w + 8 <= b.x
                 /\ a.category = b.category /\ a.series < b.series => a.x + a.w <= b.x
<1> DEFINE n     == Len(c.series)
           C     == Categories(c)
           W     == plot.w
           share == W \div C
           wide  == (share - 2 * CategoryMargin - BarGap * (n - 1)) \div n
           room  == share - 8
           width == (room - 2 * (n - 1)) \div n
           S(k)  == ((k - 1) * W) \div C
           X(s)  == (s - 1) * (width + 2)
           top   == Down(marks, plot.y, plot.h, a.value)
           base  == Down(marks, plot.y, plot.h, 0)
<1>1. /\ p \in Places(c) /\ width \in Nat \ {0} /\ W # 0
      /\ a.series = p[1] /\ a.category = p[2] /\ a.value = PointAt(c, p)[2]
      /\ a.x = plot.x + S(p[2]) + 4 + X(p[1]) /\ a.w = width
      /\ a.y = Smaller(top, base) /\ a.h = Larger(base - top, top - base)
      /\ \A b, q : BarAt(c, plot, marks, b, q) =>
            /\ q \in Places(c) /\ b.series = q[1] /\ b.category = q[2]
            /\ b.x = plot.x + S(q[2]) + 4 + X(q[1])
  <2>1. n \in Nat /\ share \in Int
    <3>1. p \in Places(c) /\ W \in Nat
      BY DEF BarAt, Rects
    <3>2. C \in Nat \ {0} /\ n \in Nat
      BY <3>1, PlacesAre, CategoriesAre, ChartIs
    <3> QED  BY <3>1, <3>2, Quotient
  <2>2. wide = width
    <3> HIDE DEF n, share
    <3>1. share - 2 * CategoryMargin - BarGap * (n - 1) = room - 2 * (n - 1)
      BY <2>1 DEF CategoryMargin, BarGap
    <3> QED  BY <3>1
  <2>3. /\ p \in Places(c) /\ wide \in Nat \ {0} /\ W # 0
        /\ a.series = p[1] /\ a.category = p[2] /\ a.value = PointAt(c, p)[2]
        /\ a.x = plot.x + S(p[2]) + CategoryMargin + (p[1] - 1) * (wide + BarGap) /\ a.w = wide
        /\ a.y = Smaller(top, base) /\ a.h = Larger(base - top, top - base)
        /\ \A b, q : BarAt(c, plot, marks, b, q) =>
              /\ q \in Places(c) /\ b.series = q[1] /\ b.category = q[2]
              /\ b.x = plot.x + S(q[2]) + CategoryMargin + (q[1] - 1) * (wide + BarGap)
    BY DEF BarAt
  <2> HIDE DEF wide, width, S, top, base
  <2> QED  BY <2>2, <2>3 DEF CategoryMargin, BarGap
<1>2. \A b, q : BarAt(c, plot, marks, b, q) =>
          /\ q \in Places(c) /\ b.series = q[1] /\ b.category = q[2]
          /\ b.x = plot.x + S(q[2]) + 4 + X(q[1])
  BY <1>1
<1>3. plot.x \in Nat /\ plot.y \in Nat /\ W \in Nat /\ plot.h \in Nat
  BY DEF Rects
<1>4. \A q \in Places(c) : q[1] \in 1 .. n /\ q[2] \in 1 .. C
  BY PlacesAre, CategoriesAre
<1>5. n \in Nat \ {0} /\ C \in Nat \ {0}
  <2>1. p[1] \in 1 .. n /\ p[2] \in 1 .. C /\ n \in Nat /\ C \in Nat
    BY <1>1, <1>4, CategoriesAre, ChartIs
  <2> HIDE DEF n, C
  <2> QED  BY <2>1
<1>6. share \in Int
  BY <1>3, <1>5, Quotient
<1> HIDE DEF share, n, C, W
<1>7. room \in Int /\ room = share - 8
  BY <1>6
<1> HIDE DEF room
<1>8. \A s \in 1 .. n : /\ X(s) \in Int /\ 0 <= X(s) /\ X(s) + width <= room
                        /\ \A t \in 1 .. n : s < t => X(s) + width <= X(t)
  BY <1>1, <1>5, <1>7, BarsAcross
<1>9. \A k \in 1 .. C : /\ S(k) \in Int /\ 0 <= S(k) /\ S(k) + share <= W
                        /\ \A j \in 1 .. C : k < j => S(k) + share <= S(j)
  <2> SUFFICES ASSUME NEW k \in 1 .. C
               PROVE  /\ S(k) \in Int /\ 0 <= S(k) /\ S(k) + share <= W
                      /\ \A j \in 1 .. C : k < j => S(k) + share <= S(j)
    OBVIOUS
  <2>1. S(k) \in Int /\ S(k) + share <= (C * W) \div C /\ (C * W) \div C \in Int
    BY <1>3, <1>5, Shares, k - 1 < C, k - 1 \in Int DEF share
  <2>2. 0 <= S(k) /\ (C * W) \div C <= W
    BY <1>3, <1>5, ShareEnds, k - 1 \in 0 .. C, C \in 0 .. C
  <2>3. \A j \in 1 .. C : k < j => S(k) + share <= S(j)
    <3> SUFFICES ASSUME NEW j \in 1 .. C, k < j PROVE S(k) + share <= S(j)
      OBVIOUS
    <3>1. k - 1 < j - 1 /\ k - 1 \in Int /\ j - 1 \in Int
      BY <1>5
    <3> QED  BY <1>3, <1>5, <3>1, Shares DEF share
  <2> HIDE DEF S
  <2> QED  BY <1>3, <1>6, <2>1, <2>2, <2>3
<1> HIDE DEF S, X, width
<1>10. p[1] \in 1 .. n /\ p[2] \in 1 .. C
  BY <1>1, <1>4
<1>11. a.x \in Int /\ a.w \in Nat \ {0} /\ plot.x <= a.x /\ a.x + a.w <= plot.x + W
  BY <1>1, <1>3, <1>5, <1>6, <1>7, <1>8, <1>9, <1>10
<1>12. a.value \in Ys(c) /\ a.value \in Int
  <2>1. a.value \in Ys(c)
    BY <1>1, PlacesAre
  <2> QED  BY <2>1, NumbersAre
<1>13. /\ top \in Int /\ plot.y <= top /\ top <= plot.y + plot.h
       /\ base \in Int /\ plot.y <= base /\ base <= plot.y + plot.h
  <2>1. Ys(c) \in SUBSET Int
    BY NumbersAre
  <2>2. plot.y \in Int /\ plot.h \in Nat /\ a.value \in Ys(c) \cup {0} /\ 0 \in Ys(c) \cup {0}
    BY <1>3, <1>12
  <2> QED  BY <2>1, <2>2, DownIs
<1> HIDE DEF top, base
<1>14. a.y \in Int /\ a.h \in Nat /\ plot.y <= a.y /\ a.y + a.h <= plot.y + plot.h
  BY <1>1, <1>3, <1>13 DEF Smaller, Larger
<1>15. Contained(a, plot)
  BY <1>11, <1>14, <1>3 DEF Contained, W
<1>16. a.series \in Int /\ a.category \in Int
  BY <1>1, <1>5, <1>10
<1>17. ASSUME NEW b, NEW q, BarAt(c, plot, marks, b, q)
       PROVE  /\ a.category < b.category => a.x + a.w + 8 <= b.x
              /\ a.category = b.category /\ a.series < b.series => a.x + a.w <= b.x
  <2>1. /\ q[1] \in 1 .. n /\ q[2] \in 1 .. C /\ b.series = q[1] /\ b.category = q[2]
        /\ b.x = plot.x + S(q[2]) + 4 + X(q[1])
    BY <1>2, <1>4, <1>17
  <2>2. ASSUME p[2] < q[2] PROVE a.x + a.w + 8 <= b.x
    <3>1. S(p[2]) + share <= S(q[2]) /\ S(p[2]) \in Int /\ S(q[2]) \in Int
      BY <1>9, <1>10, <2>1, <2>2
    <3>2. X(p[1]) + width <= room /\ 0 <= X(q[1]) /\ X(p[1]) \in Int /\ X(q[1]) \in Int
      BY <1>8, <1>10, <2>1
    <3>3. S(p[2]) + 4 + X(p[1]) + width + 8 <= S(q[2]) + 4 + X(q[1])
      BY <1>1, <1>6, <1>7, <3>1, <3>2
    <3> QED  BY <1>1, <1>3, <2>1, <3>1, <3>2, <3>3
  <2>3. ASSUME p[2] = q[2], p[1] < q[1] PROVE a.x + a.w <= b.x
    <3>1. X(p[1]) + width <= X(q[1]) /\ X(p[1]) \in Int /\ X(q[1]) \in Int
      BY <1>8, <1>10, <2>1, <2>3
    <3>2. S(p[2]) \in Int
      BY <1>9, <1>10
    <3> QED  BY <1>1, <1>3, <2>1, <2>3, <3>1, <3>2
  <2> QED  BY <1>1, <2>1, <2>2, <2>3
<1> QED  BY <1>11, <1>12, <1>14, <1>15, <1>16, <1>17

\* A bar stands on the axis and is as high as its value.
LEMMA BarTells ==
    ASSUME NEW c, ChartFits(c), NEW plot \in Rects, NEW marks, Axis(marks, Ys(c)),
           NEW a, NEW p, BarAt(c, plot, marks, a, p)
    PROVE  LET span == LastOf(marks) - marks[1]
               top  == Down(marks, plot.y, plot.h, a.value)
               base == Down(marks, plot.y, plot.h, 0)
           IN  /\ top \in Int /\ base \in Int /\ a.y = Smaller(top, base) /\ a.y + a.h = Larger(top, base)
               /\ (IF a.value < 0 THEN a.y ELSE a.y + a.h) = base
               /\ Magnitude(a.h * span - Magnitude(a.value) * plot.h) <= span
<1> DEFINE span == LastOf(marks) - marks[1]
           top  == Down(marks, plot.y, plot.h, a.value)
           base == Down(marks, plot.y, plot.h, 0)
           H    == plot.h
           v    == a.value
<1>1. a.y = Smaller(top, base) /\ a.h = Larger(base - top, top - base)
  BY DEF BarAt
<1>2. plot.y \in Int /\ H \in Nat
  BY DEF Rects
<1>3. v \in Ys(c) /\ v \in Int
  BY BarStands
<1>4. Ys(c) \in SUBSET Int /\ v \in Ys(c) \cup {0} /\ 0 \in Ys(c) \cup {0}
  BY <1>3, NumbersAre
<1>5. span \in Nat \ {0}
  BY DEF Axis
<1>6. top \in Int /\ base \in Int
  BY <1>2, <1>4, DownIs
<1>7. (v <= 0 => base <= top) /\ (0 <= v => top <= base)
  BY <1>2, <1>4, DownFalls
<1>8. (base - top) * span - (v - 0) * H <= span /\ -span <= (base - top) * span - (v - 0) * H
  BY <1>2, <1>4, DownTells
<1> HIDE DEF top, base, span, v, H
<1>9. a.y + a.h = Larger(top, base)
  BY <1>1, <1>6 DEF Smaller, Larger
<1>10. CASE v < 0
  <2>1. base <= top /\ a.y = base /\ a.h = top - base
    BY <1>1, <1>3, <1>6, <1>7, <1>10 DEF Smaller, Larger
  <2>2. Magnitude(v) = -v
    BY <1>3, <1>10 DEF Magnitude
  <2>3. a.h * span - Magnitude(v) * H = -((base - top) * span - (v - 0) * H)
    BY <1>2, <1>3, <1>5, <1>6, <2>1, <2>2
  <2>4. Magnitude(a.h * span - Magnitude(v) * H) <= span
    <3> DEFINE e == (base - top) * span - (v - 0) * H
    <3>1. e \in Int /\ e <= span /\ -span <= e
      BY <1>2, <1>3, <1>5, <1>6, <1>8
    <3> HIDE DEF e
    <3>2. Magnitude(-e) <= span
      BY <1>5, <3>1 DEF Magnitude
    <3> QED  BY <2>3, <3>2 DEF e
  <2> QED  BY <1>1, <1>6, <1>9, <1>10, <2>1, <2>4 DEF top, base, span, v, H
<1>11. CASE ~(v < 0)
  <2>1. top <= base /\ a.y = top /\ a.h = base - top
    BY <1>1, <1>3, <1>6, <1>7, <1>11 DEF Smaller, Larger
  <2>2. Magnitude(v) = v
    BY <1>3, <1>11 DEF Magnitude
  <2>3. a.h * span - Magnitude(v) * H = (base - top) * span - (v - 0) * H
    BY <1>2, <1>3, <1>5, <1>6, <2>1, <2>2
  <2>4. Magnitude(a.h * span - Magnitude(v) * H) <= span
    <3> DEFINE e == (base - top) * span - (v - 0) * H
    <3>1. e \in Int /\ e <= span /\ -span <= e
      BY <1>2, <1>3, <1>5, <1>6, <1>8
    <3> HIDE DEF e
    <3>2. Magnitude(e) <= span
      BY <1>5, <3>1 DEF Magnitude
    <3> QED  BY <2>3, <3>2 DEF e
  <2>5. a.y + a.h = base
    BY <1>6, <2>1
  <2> QED  BY <1>1, <1>6, <1>9, <1>11, <2>1, <2>4, <2>5 DEF top, base, span, v, H
<1> QED  BY <1>10, <1>11

\* Bars tell the values of the chart.
LEMMA BarsTrue ==
    ASSUME NEW c, ChartFits(c), NEW plot \in Rects, NEW marks, Axis(marks, Ys(c))
    PROVE  BarsTell(Bars(c, plot, marks), plot, marks)
<1> DEFINE bars == Bars(c, plot, marks)
           span == LastOf(marks) - marks[1]
<1>1. ASSUME NEW b \in bars
      PROVE  /\ Contained(b, plot)
             /\ (IF b.value < 0 THEN b.y ELSE b.y + b.h) = Down(marks, plot.y, plot.h, 0)
             /\ Magnitude(b.h * span - Magnitude(b.value) * plot.h) <= span
  <2>1. PICK p : BarAt(c, plot, marks, b, p)
    BY BarsAre
  <2> QED  BY <2>1, BarStands, BarTells
<1>2. ASSUME NEW a \in bars, NEW b \in bars
      PROVE  /\ a.value <= b.value => a.y + a.h >= b.y + b.h /\ a.y >= b.y
             /\ a # b => Beside(a, b)
             /\ a.category < b.category => a.x + a.w + 2 * CategoryMargin <= b.x
  <2>1. PICK p : BarAt(c, plot, marks, a, p)
    BY BarsAre
  <2>2. PICK q : BarAt(c, plot, marks, b, q)
    BY BarsAre
  <2>3. /\ a.x \in Int /\ a.y \in Int /\ a.w \in Nat \ {0} /\ a.h \in Nat /\ a.value \in Int
        /\ a.value \in Ys(c) /\ a.series \in Int /\ a.category \in Int
    BY <2>1, BarStands
  <2>4. /\ b.x \in Int /\ b.y \in Int /\ b.w \in Nat \ {0} /\ b.h \in Nat /\ b.value \in Int
        /\ b.value \in Ys(c) /\ b.series \in Int /\ b.category \in Int
    BY <2>2, BarStands
  <2>5. /\ a.category < b.category => a.x + a.w + 8 <= b.x
        /\ a.category = b.category /\ a.series < b.series => a.x + a.w <= b.x
    BY <2>1, <2>2, BarStands
  <2>6. /\ b.category < a.category => b.x + b.w + 8 <= a.x
        /\ b.category = a.category /\ b.series < a.series => b.x + b.w <= a.x
    BY <2>1, <2>2, BarStands
  <2>7. a.category = b.category /\ a.series = b.series => a = b
    <3> SUFFICES ASSUME a.category = b.category, a.series = b.series PROVE a = b
      OBVIOUS
    <3>1. /\ p \in Places(c) /\ a.series = p[1] /\ a.category = p[2] /\ a.value = PointAt(c, p)[2]
          /\ q \in Places(c) /\ b.series = q[1] /\ b.category = q[2] /\ b.value = PointAt(c, q)[2]
      BY <2>1, <2>2 DEF BarAt
    <3>2. p = q
      <4>1. p = <<p[1], p[2]>> /\ q = <<q[1], q[2]>>
        BY <3>1, PlacesAre
      <4> QED  BY <3>1, <4>1
    <3>3. a.value = b.value
      BY <3>1, <3>2
    <3>4. a.x = b.x /\ a.y = b.y /\ a.w = b.w /\ a.h = b.h
      BY <2>1, <2>2, <3>2, <3>3 DEF BarAt
    <3>5. /\ a = [series |-> a.series, category |-> a.category, value |-> a.value,
                  x |-> a.x, y |-> a.y, w |-> a.w, h |-> a.h]
          /\ b = [series |-> b.series, category |-> b.category, value |-> b.value,
                  x |-> b.x, y |-> b.y, w |-> b.w, h |-> b.h]
      BY <2>1, <2>2 DEF BarAt
    <3> QED  BY <3>3, <3>4, <3>5
  <2>8. a # b => Beside(a, b)
    <3> SUFFICES ASSUME a # b PROVE a.x + a.w <= b.x \/ b.x + b.w <= a.x
      BY DEF Beside
    <3>1. a.category < b.category \/ b.category < a.category \/ a.series < b.series \/ b.series < a.series
      BY <2>3, <2>4, <2>7
    <3> QED  BY <2>3, <2>4, <2>5, <2>6, <3>1
  <2>9. a.value <= b.value => a.y + a.h >= b.y + b.h /\ a.y >= b.y
    <3> SUFFICES ASSUME a.value <= b.value PROVE a.y + a.h >= b.y + b.h /\ a.y >= b.y
      OBVIOUS
    <3> DEFINE s    == Down(marks, plot.y, plot.h, a.value)
               t    == Down(marks, plot.y, plot.h, b.value)
               base == Down(marks, plot.y, plot.h, 0)
    <3>1. s \in Int /\ base \in Int /\ a.y = Smaller(s, base) /\ a.y + a.h = Larger(s, base)
      BY <2>1, BarTells
    <3>2. t \in Int /\ b.y = Smaller(t, base) /\ b.y + b.h = Larger(t, base)
      BY <2>2, BarTells
    <3>3. t <= s
      <4>1. plot.y \in Int /\ plot.h \in Nat /\ Ys(c) \in SUBSET Int
        BY NumbersAre DEF Rects
      <4> QED  BY <2>3, <2>4, <4>1, DownFalls
    <3> HIDE DEF s, t, base
    <3>4. Larger(s, base) >= Larger(t, base) /\ Smaller(s, base) >= Smaller(t, base)
      BY <3>1, <3>2, <3>3 DEF Smaller, Larger
    <3> QED  BY <3>1, <3>2, <3>4
  <2> QED  BY <2>5, <2>8, <2>9 DEF CategoryMargin
<1> HIDE DEF bars
<1> QED  BY <1>1, <1>2 DEF BarsTell, bars

(***************************************************************************)
(* Points                                                                   *)
(***************************************************************************)

\* A point of a line stands on the dots of the plot, after the points before it.
LEMMA PointXIs ==
    ASSUME NEW plot \in Rects, plot.w # 0, NEW n \in Nat, NEW i \in 1 .. n
    PROVE  /\ PointX(plot, i, n) \in Int /\ plot.x <= PointX(plot, i, n) /\ PointX(plot, i, n) < plot.x + plot.w
           /\ \A j \in 1 .. n : i < j => PointX(plot, i, n) <= PointX(plot, j, n)
<1> DEFINE w == plot.w
           R(k) == Rounded((k - 1) * (w - 1), n - 1)
<1>1. plot.x \in Nat /\ w \in Nat \ {0}
  BY DEF Rects
<1>2. CASE n < 2
  <2>1. PointX(plot, i, n) = plot.x
    BY <1>2 DEF PointX
  <2>2. \A j \in 1 .. n : ~(i < j)
    BY <1>2
  <2> HIDE DEF w
  <2>3. plot.x < plot.x + w
    BY <1>1
  <2> QED  BY <1>1, <2>1, <2>2, <2>3 DEF w
<1>3. CASE ~(n < 2)
  <2>1. \A k : PointX(plot, k, n) = plot.x + R(k)
    BY <1>3 DEF PointX
  <2> HIDE DEF w
  <2>2. n - 1 \in Nat \ {0} /\ w - 1 \in Nat
    BY <1>1, <1>3
  <2>3. \A k \in 1 .. n : (k - 1) * (w - 1) \in Int /\ 0 * (n - 1) <= (k - 1) * (w - 1)
                            /\ (k - 1) * (w - 1) <= (w - 1) * (n - 1)
    <3> SUFFICES ASSUME NEW k \in 1 .. n
                 PROVE  (k - 1) * (w - 1) \in Int /\ 0 * (n - 1) <= (k - 1) * (w - 1)
                            /\ (k - 1) * (w - 1) <= (w - 1) * (n - 1)
      OBVIOUS
    <3>1. (k - 1) * (w - 1) <= (n - 1) * (w - 1) /\ 0 * (w - 1) <= (k - 1) * (w - 1)
      BY <2>2, Product, k - 1 <= n - 1, 0 <= k - 1, k - 1 \in Int, n - 1 \in Int
    <3> QED  BY <2>2, <3>1
  <2>4. \A k \in 1 .. n : R(k) \in Int /\ 0 <= R(k) /\ R(k) <= w - 1
    <3> SUFFICES ASSUME NEW k \in 1 .. n PROVE R(k) \in Int /\ 0 <= R(k) /\ R(k) <= w - 1
      OBVIOUS
    <3> DEFINE r == (k - 1) * (w - 1)
    <3>1. r \in Int /\ 0 * (n - 1) <= r /\ r <= (w - 1) * (n - 1)
      BY <2>3
    <3> HIDE DEF r
    <3>2. Rounded(r, n - 1) \in Int /\ 0 <= Rounded(r, n - 1) /\ Rounded(r, n - 1) <= w - 1
      BY <2>2, <3>1, RoundedIs, RoundedAtLeast, RoundedAtMost
    <3> QED  BY <3>2 DEF r
  <2>5. \A j \in 1 .. n : i < j => R(i) <= R(j)
    <3> SUFFICES ASSUME NEW j \in 1 .. n, i < j PROVE R(i) <= R(j)
      OBVIOUS
    <3>1. (i - 1) * (w - 1) <= (j - 1) * (w - 1)
      BY <2>2, Product, i - 1 <= j - 1, i - 1 \in Int, j - 1 \in Int
    <3> QED  BY <2>2, <2>3, <3>1, RoundedClimbs
  <2> HIDE DEF R
  <2>6. R(i) \in Int /\ 0 <= R(i) /\ R(i) <= w - 1
    BY <2>4
  <2> QED  BY <1>1, <2>1, <2>4, <2>5, <2>6 DEF w
<1> QED  BY <1>2, <1>3

PointStands(c, plot, marks, a, p) ==
    /\ p \in Places(c) /\ plot.w # 0
    /\ a.series = p[1] /\ a.at = p[2] /\ a.value = PointAt(c, p)
    /\ a.x = IF c.type = "scatter" THEN Across(AcrossTicks(c), plot.x, plot.w, PointAt(c, p)[1])
             ELSE PointX(plot, p[2], Len(c.series[p[1]].values))
    /\ a.y = Down(marks, plot.y, plot.h, PointAt(c, p)[2])

\* Every point drawn is one of a place of the chart.
LEMMA PointsAre ==
    ASSUME NEW c, NEW plot, NEW marks, NEW a \in Points(c, plot, marks)
    PROVE  \E p : PointStands(c, plot, marks, a, p)
<1> DEFINE point(p) == [series |-> p[1], at |-> p[2], value |-> PointAt(c, p),
              x |-> IF c.type = "scatter" THEN Across(AcrossTicks(c), plot.x, plot.w, PointAt(c, p)[1])
                    ELSE PointX(plot, p[2], Len(c.series[p[1]].values)),
              y |-> Down(marks, plot.y, plot.h, PointAt(c, p)[2])]
<1>1. Points(c, plot, marks) = IF plot.w = 0 THEN {} ELSE {point(p) : p \in Places(c)}
  BY Zenon DEF Points
<1>2. PICK p \in Places(c) : plot.w # 0 /\ a = point(p)
  BY <1>1
<1>3. plot.w # 0 => PointStands(c, plot, marks, point(p), p)
  BY DEF PointStands
<1> HIDE DEF point
<1> QED  BY <1>2, <1>3

\* Points tell the values of the chart.
LEMMA PointsTrue ==
    ASSUME NEW c, ChartFits(c), c.type \in {"line", "scatter"}, NEW plot \in Rects, NEW marks, Axis(marks, Ys(c))
    PROVE  PointsTell(c.type, Points(c, plot, marks), plot)
<1> DEFINE points == Points(c, plot, marks)
<1>1. plot.x \in Nat /\ plot.y \in Nat /\ plot.w \in Nat /\ plot.h \in Nat
  BY DEF Rects
<1>2. Xs(c) \in SUBSET Int /\ Ys(c) \in SUBSET Int /\ Axis(AcrossTicks(c), Xs(c))
  BY NumbersAre, AxisOf DEF AcrossTicks
<1>3. ASSUME NEW a \in points, NEW b \in points
      PROVE  /\ plot.x <= a.x /\ a.x < plot.x + plot.w /\ plot.y <= a.y /\ a.y <= plot.y + plot.h
             /\ a.value[2] <= b.value[2] => a.y >= b.y
             /\ c.type = "scatter" /\ a.value[1] <= b.value[1] => a.x <= b.x
             /\ c.type = "line" /\ a.series = b.series /\ a.at < b.at => a.x <= b.x
  <2>1. PICK p : PointStands(c, plot, marks, a, p)
    BY PointsAre
  <2>2. PICK q : PointStands(c, plot, marks, b, q)
    BY PointsAre
  <2>3. /\ p \in Places(c) /\ plot.w # 0
        /\ a.series = p[1] /\ a.at = p[2] /\ a.value = PointAt(c, p)
        /\ a.x = IF c.type = "scatter" THEN Across(AcrossTicks(c), plot.x, plot.w, PointAt(c, p)[1])
                 ELSE PointX(plot, p[2], Len(c.series[p[1]].values))
        /\ a.y = Down(marks, plot.y, plot.h, PointAt(c, p)[2])
    BY <2>1 DEF PointStands
  <2>4. /\ q \in Places(c)
        /\ b.series = q[1] /\ b.at = q[2] /\ b.value = PointAt(c, q)
        /\ b.x = IF c.type = "scatter" THEN Across(AcrossTicks(c), plot.x, plot.w, PointAt(c, q)[1])
                 ELSE PointX(plot, q[2], Len(c.series[q[1]].values))
        /\ b.y = Down(marks, plot.y, plot.h, PointAt(c, q)[2])
    BY <2>2 DEF PointStands
  <2>5. /\ PointAt(c, p)[1] \in Xs(c) /\ PointAt(c, p)[2] \in Ys(c)
        /\ PointAt(c, q)[1] \in Xs(c) /\ PointAt(c, q)[2] \in Ys(c)
        /\ p[1] \in 1 .. Len(c.series) /\ p[2] \in 1 .. Len(c.series[p[1]].values)
        /\ q[1] \in 1 .. Len(c.series) /\ q[2] \in 1 .. Len(c.series[q[1]].values)
    BY <2>3, <2>4, PlacesAre
  <2>6. plot.y <= a.y /\ a.y <= plot.y + plot.h
    <3> DEFINE v == PointAt(c, p)[2]
    <3>1. v \in Ys(c) \cup {0} /\ a.y = Down(marks, plot.y, plot.h, v) /\ plot.y \in Int
      BY <1>1, <2>3, <2>5
    <3> HIDE DEF v
    <3> QED  BY <1>1, <1>2, <3>1, DownIs
  <2>7. a.value[2] <= b.value[2] => a.y >= b.y
    <3> DEFINE v == PointAt(c, p)[2]
               u == PointAt(c, q)[2]
    <3>1. v \in Ys(c) \cup {0} /\ a.y = Down(marks, plot.y, plot.h, v) /\ a.value[2] = v /\ plot.y \in Int
      BY <1>1, <2>3, <2>5
    <3>2. u \in Ys(c) \cup {0} /\ b.y = Down(marks, plot.y, plot.h, u) /\ b.value[2] = u
      BY <2>4, <2>5
    <3> HIDE DEF v, u
    <3>3. a.y \in Int /\ b.y \in Int
      <4>1. plot.y \in Int /\ plot.h \in Nat /\ Ys(c) \in SUBSET Int
        BY <1>1, <1>2
      <4>2. Down(marks, plot.y, plot.h, v) \in Int
        BY <3>1, <4>1, DownIs
      <4>3. Down(marks, plot.y, plot.h, u) \in Int
        BY <3>2, <4>1, DownIs
      <4> QED  BY <3>1, <3>2, <4>2, <4>3
    <3>4. v <= u => b.y <= a.y
      <4>1. plot.y \in Int /\ plot.h \in Nat /\ Ys(c) \in SUBSET Int /\ Axis(marks, Ys(c))
        BY <1>1, <1>2
      <4>2. v <= u => Down(marks, plot.y, plot.h, u) <= Down(marks, plot.y, plot.h, v)
        BY ONLY <3>1, <3>2, <4>1, DownFalls
      <4> QED  BY ONLY <3>1, <3>2, <4>2
    <3> DEFINE ay == a.y
               by == b.y
    <3> HIDE DEF ay, by
    <3>5. v <= u => ay >= by
      <4>1. ay \in Int /\ by \in Int /\ (v <= u => by <= ay)
        BY ONLY <3>3, <3>4 DEF ay, by
      <4> QED  BY ONLY <4>1
    <3> QED  BY ONLY <3>1, <3>2, <3>5 DEF ay, by
  <2>8. CASE c.type = "scatter"
    <3>1. plot.w \in Nat \ {0} /\ plot.x \in Int
      BY <1>1, <2>3
    <3>2. plot.x <= a.x /\ a.x < plot.x + plot.w
      BY <1>2, <2>3, <2>5, <2>8, <3>1, AcrossIs
    <3>3. a.value[1] <= b.value[1] => a.x <= b.x
      BY <1>2, <2>3, <2>4, <2>5, <2>8, <3>1, AcrossIs
    <3> QED  BY <2>6, <2>7, <2>8, <3>2, <3>3
  <2>9. CASE c.type = "line"
    <3> DEFINE n == Len(c.series[p[1]].values)
    <3>1. n \in Nat
      <4>1. c.series[p[1]].values \in Seq(Reach \X Reach)
        BY <2>5, ChartIs
      <4> QED  BY <4>1, LenProperties
    <3>2. a.x = PointX(plot, p[2], n)
      BY <2>3, <2>9
    <3>3. a.series = b.series => b.x = PointX(plot, q[2], n) /\ q[2] \in 1 .. n
      BY <2>3, <2>4, <2>5, <2>9
    <3>4. p[2] \in 1 .. n
      BY <2>5
    <3> HIDE DEF n
    <3>5. plot.x <= a.x /\ a.x < plot.x + plot.w
      BY <2>3, <3>1, <3>2, <3>4, PointXIs
    <3>6. a.series = b.series /\ a.at < b.at => a.x <= b.x
      BY <2>3, <2>4, <3>1, <3>2, <3>3, <3>4, PointXIs
    <3> QED  BY <2>6, <2>7, <2>9, <3>5, <3>6
  <2> QED  BY <2>8, <2>9
<1> HIDE DEF points
<1> QED  BY <1>3 DEF PointsTell, points

(***************************************************************************)
(* Names                                                                    *)
(***************************************************************************)

\* A name that was cut takes no more than its room.
LEMMA ElideIs ==
    ASSUME NEW n \in Nat, NEW room \in Nat
    PROVE  TextDots(Elide(n, room)) \in Nat /\ TextDots(Elide(n, room)) <= room
<1> DEFINE q == room \div 9
<1>1. q \in Int /\ q * 9 <= room
  BY Quotient
<1>2. 0 <= q
  BY QuotientAtLeast, 0 * 9 <= room
<1> HIDE DEF q
<1>3. CASE TextDots(n) <= room
  BY <1>3 DEF Elide, TextDots, LetterDots
<1>4. CASE ~(TextDots(n) <= room) /\ q < 2
  <2>1. Elide(n, room) = 0
    BY <1>4 DEF Elide, LetterDots, q
  <2> QED  BY <2>1 DEF TextDots, LetterDots
<1>5. CASE ~(TextDots(n) <= room) /\ ~(q < 2)
  <2>1. Elide(n, room) = q
    BY <1>5 DEF Elide, LetterDots, q
  <2> QED  BY <1>1, <1>2, <2>1 DEF TextDots, LetterDots
<1> QED  BY <1>3, <1>4, <1>5

\* A name of so many dots under a dot of the axis.
Centred(t, ce, W) == Larger(0, Smaller(ce - t \div 2, W - t))

\* A half, rounded down.
LEMMA HalfIs ==
    ASSUME NEW t \in Nat
    PROVE  t \div 2 \in Nat /\ 2 * (t \div 2) <= t /\ t <= 2 * (t \div 2) + 1
  OBVIOUS

\* A centred name stays in the chart, and where it was centred unless an edge holds it.
LEMMA CentredIs ==
    ASSUME NEW t \in Nat, NEW ce \in Int, NEW W \in Nat
    PROVE  /\ Centred(t, ce, W) \in Nat
           /\ t <= W => Centred(t, ce, W) + t <= W
           /\ 0 < Centred(t, ce, W) \/ 0 <= ce - t \div 2 => Centred(t, ce, W) <= ce - t \div 2
           /\ 0 <= ce - t \div 2 /\ ce - t \div 2 + t <= W => Centred(t, ce, W) = ce - t \div 2
           /\ t <= W /\ 0 <= ce - t \div 2 /\ Centred(t, ce, W) + t # W => Centred(t, ce, W) = ce - t \div 2
<1> DEFINE h == t \div 2
<1>1. h \in Nat /\ 2 * h <= t /\ t <= 2 * h + 1
  BY HalfIs
<1> HIDE DEF h
<1>2. /\ Larger(0, Smaller(ce - h, W - t)) \in Nat
      /\ t <= W => Larger(0, Smaller(ce - h, W - t)) + t <= W
  BY <1>1 DEF Larger, Smaller
<1>3. 0 < Larger(0, Smaller(ce - h, W - t)) \/ 0 <= ce - h => Larger(0, Smaller(ce - h, W - t)) <= ce - h
  BY <1>1 DEF Larger, Smaller
<1>4. 0 <= ce - h /\ ce - h + t <= W => Larger(0, Smaller(ce - h, W - t)) = ce - h
  BY <1>1 DEF Larger, Smaller
<1>5. t <= W /\ 0 <= ce - h /\ Larger(0, Smaller(ce - h, W - t)) + t # W
          => Larger(0, Smaller(ce - h, W - t)) = ce - h
  BY <1>1 DEF Larger, Smaller
<1> QED  BY <1>2, <1>3, <1>4, <1>5 DEF Centred, h

\* Two names that stand as far apart as each has room.
LEMMA NextTo ==
    ASSUME NEW R \in Nat, NEW a \in Int, NEW b \in Int, a + R <= b,
           NEW t \in Nat, t <= R, NEW u \in Nat, u <= R, NEW x \in Int, x <= a - t \div 2
    PROVE  x + t <= b - u \div 2
<1> DEFINE h == t \div 2
           k == u \div 2
<1>1. h \in Nat /\ t <= 2 * h + 1 /\ k \in Nat /\ 2 * k <= u
  BY HalfIs
<1> HIDE DEF h, k
<1>2. x <= a - h
  BY DEF h
<1>3. t - h + k <= R
  <2>1. 2 * (t - h + k) <= R + R + 1
    BY <1>1
  <2> QED  BY <1>1, <2>1
<1> QED  BY <1>1, <1>2, <1>3 DEF k

NameAt(c, plot, i) ==
    LET N == Len(c.labels)
        t == TextDots(Elide(c.labels[i], plot.w \div N))
        ce == IF c.type = "bar" THEN plot.x + ((2 * i - 1) * plot.w) \div (2 * N) ELSE PointX(plot, i, N)
    IN  [x |-> Centred(t, ce, c.width), w |-> t]

\* The names of a chart, one by one.
LEMMA NamesAre ==
    ASSUME NEW c, NEW plot
    PROVE  Names(c, plot) = [i \in 1 .. Len(c.labels) |-> NameAt(c, plot, i)]
  BY Zenon DEF Names, NameAt, Under, Centred

\* The dot a bar's name is centred under, and the one a point's is.
LEMMA BarCentres ==
    ASSUME NEW N \in Nat \ {0}, NEW w \in Nat, NEW i \in 1 .. N, NEW t \in Nat, t <= w \div N
    PROVE  LET q == ((2 * i - 1) * w) \div (2 * N)
           IN  /\ q \in Int /\ w \div N \in Nat
               /\ ((i - 1) * w) \div N \in Int /\ 0 <= ((i - 1) * w) \div N
               /\ ((i - 1) * w) \div N <= q - t \div 2
               /\ (i * w + N - 1) \div N \in Int
               /\ q - t \div 2 + t <= (i * w + N - 1) \div N /\ (i * w + N - 1) \div N <= w
               /\ \A j \in 1 .. N : j < i => ((2 * j - 1) * w) \div (2 * N) + w \div N <= q
<1> DEFINE q == ((2 * i - 1) * w) \div (2 * N)
           R == w \div N
           s == ((i - 1) * w) \div N
           u == (i * w + N - 1) \div N
           h == t \div 2
<1>1. R \in Nat /\ R * N <= w
  <2>1. R \in Int /\ R * N <= w
    BY Quotient
  <2>2. 0 <= R
    BY QuotientAtLeast, 0 * N <= w
  <2> QED  BY <2>1, <2>2
<1>2. 2 * N \in Nat \ {0} /\ (2 * i - 1) * w \in Int /\ (i - 1) * w \in Int /\ i * w + N - 1 \in Int
  OBVIOUS
<1>3. q \in Int /\ q * (2 * N) <= (2 * i - 1) * w
  BY <1>2, Quotient
<1>4. s \in Int /\ s * N <= (i - 1) * w
  BY <1>2, Quotient
<1>5. u \in Int /\ i * w + N - 1 < u * N + N
  BY <1>2, Quotient
<1>6. h \in Nat /\ 2 * h <= t /\ t <= 2 * h + 1 /\ t <= R
  BY HalfIs
<1>7. 0 <= s
  <2>1. 0 * N <= (i - 1) * w
    BY Product, 0 <= i - 1
  <2> QED  BY <1>2, <2>1, QuotientAtLeast
<1>8. u <= w
  <2>1. i * w <= N * w
    BY Product, i <= N
  <2>2. i * w + N - 1 < (w + 1) * N
    BY <2>1
  <2>3. u < w + 1
    BY <1>2, <2>2, QuotientBelow
  <2> HIDE DEF u
  <2> QED  BY <1>5, <2>3
<1>9. t * N <= w
  <2>1. t * N <= R * N
    BY <1>1, <1>6, Product
  <2> QED  BY <1>1, <2>1
<1>10. s + h <= q
  <2> HIDE DEF s, h
  <2>1. (2 * h) * N <= t * N
    BY <1>6, Product
  <2>2. (s + h) * (2 * N) = 2 * (s * N) + (2 * h) * N
    BY <1>4, <1>6
  <2>3. (2 * i - 1) * w = 2 * ((i - 1) * w) + w
    OBVIOUS
  <2>4. s * N \in Int /\ (2 * h) * N \in Int /\ t * N \in Int
    BY <1>4, <1>6
  <2>5. (s + h) * (2 * N) <= (2 * i - 1) * w
    BY <1>2, <1>4, <1>9, <2>1, <2>2, <2>3, <2>4
  <2> QED  BY <1>2, <1>4, <1>6, <2>5, QuotientAtLeast
<1>11. q - h + t <= u
  <2> HIDE DEF q, u, h
  <2> DEFINE g == t - h
  <2>1. g \in Int /\ 2 * g <= t + 1
    BY <1>6
  <2> HIDE DEF g
  <2>2. (2 * g) * N <= (t + 1) * N /\ (t + 1) * N = t * N + N
    BY <2>1, Product
  <2>3. (q + g) * (2 * N) = q * (2 * N) + (2 * g) * N
    BY <1>3, <2>1
  <2>4. (2 * i - 1) * w = 2 * (i * w) - w /\ i * w \in Int
    OBVIOUS
  <2>5. (q + g) * (2 * N) <= 2 * (i * w) + N
    BY <1>3, <1>9, <2>1, <2>2, <2>3, <2>4
  <2>6. 2 * (i * w) + N < (u + 1) * (2 * N)
    <3>1. (u + 1) * (2 * N) = 2 * (u * N) + 2 * N /\ u * N \in Int
      BY <1>5
    <3>2. i * w <= u * N
      BY <1>5, <2>4, <3>1
    <3> QED  BY <2>4, <3>1, <3>2
  <2>7. q + g < u + 1
    <3> SUFFICES ASSUME u + 1 <= q + g PROVE FALSE
      BY <1>3, <1>5, <2>1
    <3>1. (u + 1) * (2 * N) <= (q + g) * (2 * N)
      BY <1>2, <1>3, <1>5, <2>1, Product
    <3> QED  BY <1>3, <1>5, <2>1, <2>4, <2>5, <2>6, <3>1
  <2> QED  BY <1>3, <1>5, <1>6, <2>1, <2>7 DEF g
<1>12. ASSUME NEW j \in 1 .. N, j < i
       PROVE  ((2 * j - 1) * w) \div (2 * N) + R <= q
  <2> DEFINE p == ((2 * j - 1) * w) \div (2 * N)
  <2>1. (2 * j - 1) * w \in Int /\ (2 * j - 1) * w + 2 * w <= (2 * i - 1) * w
    <3>1. (2 * j + 1) * w <= (2 * i - 1) * w
      BY <1>12, Product, 2 * j + 1 <= 2 * i - 1
    <3> QED  BY <3>1
  <2>2. p \in Int /\ p * (2 * N) <= (2 * j - 1) * w
    BY <1>2, <2>1, Quotient
  <2> HIDE DEF p, R
  <2>3. (p + R) * (2 * N) = p * (2 * N) + 2 * (R * N) /\ p + R \in Int
    BY <1>1, <2>2
  <2>4. (p + R) * (2 * N) <= (2 * i - 1) * w
    BY <1>1, <1>2, <2>1, <2>2, <2>3
  <2>5. p + R <= q
    BY <1>2, <2>3, <2>4, QuotientAtLeast
  <2> QED  BY <2>5 DEF p
<1> HIDE DEF q, R, s, u, h
<1>13. s <= q - h
  BY <1>3, <1>4, <1>6, <1>10
<1> QED  BY <1>1, <1>3, <1>4, <1>5, <1>7, <1>8, <1>11, <1>12, <1>13 DEF q, R, s, u, h

\* Two points of a line stand as far apart as each name has room.
LEMMA PointCentres ==
    ASSUME NEW plot \in Rects, plot.w # 0, NEW N \in Nat \ {0}, NEW i \in 1 .. N, NEW j \in 1 .. N, j < i,
           1 <= plot.w \div N
    PROVE  PointX(plot, j, N) + plot.w \div N <= PointX(plot, i, N)
<1> DEFINE w == plot.w
           R == w \div N
           M == N - 1
           p == (j - 1) * (w - 1)
           r == (i - 1) * (w - 1)
           P == Rounded(p, M)
<1>1. plot.x \in Nat /\ w \in Nat \ {0} /\ M \in Nat \ {0} /\ ~(N < 2)
  BY DEF Rects
<1>2. PointX(plot, j, N) = plot.x + P /\ PointX(plot, i, N) = plot.x + Rounded(r, M)
  BY <1>1 DEF PointX
<1> HIDE DEF w
<1>3. R \in Int /\ R * N <= w /\ 1 <= R
  BY <1>1, Quotient DEF w
<1> HIDE DEF R
<1>4. p \in Int /\ r \in Int /\ p + (w - 1) <= r
  <2>1. j * (w - 1) <= (i - 1) * (w - 1)
    BY <1>1, Product, j <= i - 1, w - 1 \in Nat
  <2> QED  BY <1>1, <2>1
<1>5. R * M <= w - 1
  BY <1>1, <1>3
<1> HIDE DEF p, r
<1>6. P \in Int /\ 2 * (P * M) <= 2 * p + M
  BY <1>1, <1>4, RoundedIs
<1> HIDE DEF P, M
<1>7. (P + R) * (2 * M) <= 2 * r + M
  <2>1. (P + R) * (2 * M) = 2 * (P * M) + 2 * (R * M) /\ P * M \in Int /\ R * M \in Int
    BY <1>1, <1>3, <1>6
  <2> QED  BY <1>1, <1>4, <1>5, <1>6, <2>1
<1>8. P + R <= Rounded(r, M) /\ Rounded(r, M) \in Int
  <2>1. 2 * M \in Nat \ {0} /\ 2 * r + M \in Int /\ P + R \in Int
    BY <1>1, <1>3, <1>4, <1>6
  <2>2. P + R <= (2 * r + M) \div (2 * M)
    BY <1>7, <2>1, QuotientAtLeast
  <2> QED  BY <1>1, <1>4, <2>2, RoundedIs DEF Rounded
<1> QED  BY <1>1, <1>2, <1>3, <1>6, <1>8 DEF R, w, P, M

\* Names stand apart when each does from those before it.
LEMMA ApartByName ==
    ASSUME NEW c, NEW plot, NEW names,
           \A k \in DOMAIN names :
              /\ names[k].w <= plot.w => names[k].x + names[k].w <= c.width
              /\ \A j \in 1 .. k - 1 : names[k].w > 0 /\ names[j].w > 0
                     /\ ~(/\ c.type = "line"
                          /\ \/ j = 1 /\ names[j].x = 0
                             \/ k = Len(names) /\ names[k].x + names[k].w = c.width) =>
                     names[j].x + names[j].w <= names[k].x
              /\ c.type = "bar" /\ Len(names) = Categories(c) /\ names[k].w > 0 =>
                  /\ plot.x + ((k - 1) * plot.w) \div Len(names) <= names[k].x
                  /\ names[k].x + names[k].w <= plot.x + (k * plot.w + Len(names) - 1) \div Len(names)
    PROVE  NamesStandApart(c, names, plot)
  BY Zenon DEF NamesStandApart

\* The names of a chart stand apart.
LEMMA NamesTrue ==
    ASSUME NEW c, ChartFits(c), c.type \in {"bar", "line", "scatter"}, c.type = "scatter" => c.labels = <<>>,
           NEW plot \in Rects, plot.w <= c.width, plot.w # 0 => plot.x + plot.w <= c.width
    PROVE  NamesStandApart(c, Names(c, plot), plot)
<1> DEFINE N     == Len(c.labels)
           W     == c.width
           w     == plot.w
           px    == plot.x
           names == Names(c, plot)
           t(i)  == TextDots(Elide(c.labels[i], w \div N))
           ce(i) == IF c.type = "bar" THEN px + ((2 * i - 1) * w) \div (2 * N) ELSE PointX(plot, i, N)
           x(i)  == Centred(t(i), ce(i), W)
           held(j, i) == /\ c.type = "line"
                         /\ \/ j = 1 /\ x(j) = 0
                            \/ i = N /\ x(i) + t(i) = W
<1>1. N \in Nat /\ W \in Nat /\ w \in Nat /\ px \in Nat /\ w <= W /\ (w # 0 => px + w <= W)
  BY ChartIs DEF Rects
<1>2. names = [i \in 1 .. N |-> NameAt(c, plot, i)]
  BY NamesAre
<1>3. \A i \in 1 .. N : names[i].x = x(i) /\ names[i].w = t(i)
  BY <1>2 DEF NameAt
<1>4. DOMAIN names = 1 .. N /\ Len(names) = N
  <2> HIDE DEF N
  <2> QED  BY <1>1, <1>2
<1>5. SUFFICES ASSUME NEW i \in 1 .. N
      PROVE  /\ t(i) <= w => x(i) + t(i) <= W
             /\ \A j \in 1 .. i - 1 : t(i) > 0 /\ t(j) > 0 /\ ~held(j, i) => x(j) + t(j) <= x(i)
             /\ c.type = "bar" /\ N = Categories(c) /\ t(i) > 0 =>
                   /\ px + ((i - 1) * w) \div N <= x(i)
                   /\ x(i) + t(i) <= px + (i * w + N - 1) \div N
  <2> HIDE DEF names, x, t
  <2>1. \A j, k \in 1 .. N : held(j, k) <=> /\ c.type = "line"
                                              /\ \/ j = 1 /\ names[j].x = 0
                                                 \/ k = Len(names) /\ names[k].x + names[k].w = c.width
    BY <1>3, <1>4
  <2>2. \A k \in 1 .. N : \A j \in 1 .. k - 1 : j \in 1 .. N
    BY <1>1
  <2>3. ASSUME NEW k \in DOMAIN names
        PROVE  /\ names[k].w <= plot.w => names[k].x + names[k].w <= c.width
               /\ \A j \in 1 .. k - 1 : names[k].w > 0 /\ names[j].w > 0
                      /\ ~(/\ c.type = "line"
                           /\ \/ j = 1 /\ names[j].x = 0
                              \/ k = Len(names) /\ names[k].x + names[k].w = c.width) =>
                      names[j].x + names[j].w <= names[k].x
               /\ c.type = "bar" /\ Len(names) = Categories(c) /\ names[k].w > 0 =>
                   /\ plot.x + ((k - 1) * plot.w) \div Len(names) <= names[k].x
                   /\ names[k].x + names[k].w <= plot.x + (k * plot.w + Len(names) - 1) \div Len(names)
    <3>1. k \in 1 .. N /\ names[k].x = x(k) /\ names[k].w = t(k)
      BY <1>3, <1>4
    <3>2. \A j \in 1 .. k - 1 : j \in 1 .. N /\ names[j].x = x(j) /\ names[j].w = t(j)
      BY <1>3, <2>2, <3>1
    <3> HIDE DEF held, N, W, w, px
    <3> QED  BY <1>4, <1>5, <2>1, <3>1, <3>2 DEF W, w, px
  <2> QED  BY Zenon, <2>3, ApartByName DEF names
<1>6. N \in Nat \ {0} /\ c.type \in {"bar", "line"}
  <2>1. N # 0
    BY <1>1, <1>5
  <2>2. c.labels = <<>> => N = 0
    OBVIOUS
  <2> QED  BY <1>1, <2>1, <2>2
<1> DEFINE R == w \div N
<1>7. R \in Nat /\ R * N <= w
  <2> HIDE DEF N, w
  <2>1. R \in Int /\ R * N <= w /\ w < R * N + N
    BY <1>1, <1>6, Quotient
  <2>2. 0 <= R
    BY <1>1, <1>6, QuotientAtLeast, 0 * N <= w
  <2> HIDE DEF R
  <2> QED  BY <2>1, <2>2
<1>8. R <= w
  <2>1. 1 * R <= N * R
    BY <1>6, <1>7, Product
  <2> HIDE DEF R, N, w
  <2> QED  BY <1>1, <1>6, <1>7, <2>1
<1>9. \A k \in 1 .. N : t(k) \in Nat /\ t(k) <= R
  <2> HIDE DEF R
  <2> SUFFICES ASSUME NEW k \in 1 .. N PROVE TextDots(Elide(c.labels[k], R)) \in Nat /\ TextDots(Elide(c.labels[k], R)) <= R
    BY DEF R
  <2>1. c.labels[k] \in Nat
    BY ChartIs
  <2> QED  BY <1>7, <2>1, ElideIs
<1>10. w # 0 => \A k \in 1 .. N : /\ ce(k) \in Int /\ px <= ce(k)
                                  /\ c.type = "line" => ce(k) < px + w
  <2> SUFFICES ASSUME w # 0, NEW k \in 1 .. N
               PROVE  ce(k) \in Int /\ px <= ce(k) /\ (c.type = "line" => ce(k) < px + w)
    OBVIOUS
  <2>1. CASE c.type = "bar"
    <3> DEFINE q == ((2 * k - 1) * w) \div (2 * N)
    <3>1. (2 * k - 1) * w \in Int /\ 0 * (2 * N) <= (2 * k - 1) * w /\ 2 * N \in Nat \ {0}
      <4>1. 0 * w <= (2 * k - 1) * w /\ (2 * k - 1) * w \in Int
        BY <1>1, <1>6, Product, 0 <= 2 * k - 1, 2 * k - 1 \in Int
      <4> QED  BY <1>1, <1>6, <4>1
    <3>2. q \in Int /\ 0 <= q
      <4> DEFINE a == (2 * k - 1) * w
                 b == 2 * N
      <4>1. a \in Int /\ 0 * b <= a /\ b \in Nat \ {0}
        BY <3>1
      <4> HIDE DEF a, b
      <4>2. a \div b \in Int /\ 0 <= a \div b
        BY <4>1, Quotient, QuotientAtLeast
      <4> QED  BY <4>2 DEF a, b
    <3>3. ce(k) = px + q
      BY <2>1
    <3> HIDE DEF q, ce
    <3> QED  BY <1>1, <2>1, <3>2, <3>3
  <2>2. CASE c.type = "line"
    <3>1. ce(k) = PointX(plot, k, N)
      BY <2>2
    <3> QED  BY <1>6, <2>2, <3>1, PointXIs
  <2> QED  BY <1>6, <2>1, <2>2
<1>11. 1 <= R => \A j, k \in 1 .. N : j < k => ce(j) + R <= ce(k)
  <2> SUFFICES ASSUME 1 <= R, NEW j \in 1 .. N, NEW k \in 1 .. N, j < k PROVE ce(j) + R <= ce(k)
    OBVIOUS
  <2>0. w # 0
    BY <1>1, <1>7, <1>8
  <2>1. CASE c.type = "bar"
    <3> DEFINE q(n) == ((2 * n - 1) * w) \div (2 * N)
    <3>1. 0 \in Nat /\ 0 <= w \div N
      BY <1>7
    <3>2. q(k) \in Int /\ q(j) + R <= q(k)
      BY <1>1, <1>6, <3>1, BarCentres
    <3>3. q(j) \in Int
      BY <1>1, <1>6, <3>1, BarCentres
    <3>4. ce(j) = px + q(j) /\ ce(k) = px + q(k)
      BY <2>1
    <3> HIDE DEF q, R, ce
    <3> QED  BY <1>1, <1>7, <3>2, <3>3, <3>4
  <2>2. CASE c.type = "line"
    <3>1. ce(j) = PointX(plot, j, N) /\ ce(k) = PointX(plot, k, N)
      BY <2>2
    <3>2. PointX(plot, j, N) + R <= PointX(plot, k, N)
      BY <1>6, <2>0, PointCentres
    <3> QED  BY <3>1, <3>2
  <2> QED  BY <1>6, <2>1, <2>2
<1>12. c.type = "bar" /\ t(i) > 0 =>
           /\ x(i) = ce(i) - t(i) \div 2
           /\ px + ((i - 1) * w) \div N <= x(i) /\ x(i) + t(i) <= px + (i * w + N - 1) \div N
  <2> SUFFICES ASSUME c.type = "bar", t(i) > 0
               PROVE  /\ x(i) = ce(i) - t(i) \div 2
                      /\ px + ((i - 1) * w) \div N <= x(i) /\ x(i) + t(i) <= px + (i * w + N - 1) \div N
    OBVIOUS
  <2> DEFINE q == ((2 * i - 1) * w) \div (2 * N)
             s == ((i - 1) * w) \div N
             u == (i * w + N - 1) \div N
             T == t(i)
  <2>1. T \in Nat /\ T <= R
    BY <1>9
  <2> HIDE DEF T
  <2>2. /\ q \in Int /\ s \in Int /\ 0 <= s /\ s <= q - T \div 2
        /\ u \in Int /\ q - T \div 2 + T <= u /\ u <= w
    BY <1>1, <1>6, <2>1, BarCentres
  <2>3. ce(i) = px + q
    OBVIOUS
  <2>4. w # 0
    BY <1>1, <1>7, <1>8, <2>1 DEF T
  <2> HIDE DEF q, s, u, ce
  <2>5. T \div 2 \in Nat
    BY <2>1, HalfIs
  <2> DEFINE h == T \div 2
  <2> HIDE DEF h
  <2>6. 0 <= ce(i) - h /\ ce(i) - h + T <= W /\ ce(i) \in Int
    <3>1. s <= q - h /\ q - h + T <= u /\ h \in Nat
      BY <2>2, <2>5 DEF h
    <3> HIDE DEF px, w, W
    <3> QED  BY <1>1, <2>1, <2>2, <2>3, <2>4, <3>1
  <2>7. Centred(T, ce(i), W) = ce(i) - h
    BY <1>1, <2>1, <2>6, CentredIs DEF h
  <2>8. px + s <= ce(i) - h /\ ce(i) - h + T <= px + u
    <3>1. s <= q - h /\ q - h + T <= u /\ h \in Nat
      BY <2>2, <2>5 DEF h
    <3> HIDE DEF px
    <3> QED  BY <1>1, <2>1, <2>2, <2>3, <3>1
  <2> QED  BY <2>7, <2>8 DEF T, h, s, u
<1>13. t(i) <= w => x(i) + t(i) <= W
  <2> SUFFICES ASSUME t(i) <= w PROVE x(i) + t(i) <= W
    OBVIOUS
  <2> DEFINE T == t(i)
             C == ce(i)
  <2>1. T \in Nat /\ T <= R
    BY <1>9
  <2>2. CASE w = 0
    <3>1. T = 0
      <4> HIDE DEF R, T, w, N, W
      <4> QED  BY <1>1, <1>7, <1>8, <2>1, <2>2
    <3>2. C \in Int
      <4>1. CASE c.type = "bar"
        <5>1. 2 * N \in Nat \ {0} /\ (2 * i - 1) * w \in Int
          BY <1>1, <1>6
        <5> DEFINE a == (2 * i - 1) * w
                   b == 2 * N
        <5>2. C = px + a \div b
          BY <4>1
        <5> HIDE DEF a, b, C, px
        <5>3. a \div b \in Int
          BY <5>1, Quotient DEF a, b
        <5> QED  BY <1>1, <5>2, <5>3
      <4>2. CASE c.type = "line"
        <5>1. C = PointX(plot, i, N)
          BY <4>2
        <5> HIDE DEF C, N
        <5>2. CASE N < 2
          BY <1>1, <5>1, <5>2 DEF PointX, px
        <5>3. CASE ~(N < 2)
          <6> DEFINE p == (i - 1) * (w - 1)
          <6>1. N - 1 \in Nat \ {0} /\ p \in Int
            BY <1>1, <1>6, <5>3
          <6>2. C = px + Rounded(p, N - 1)
            BY <5>1, <5>3 DEF PointX
          <6> HIDE DEF p, px
          <6>3. Rounded(p, N - 1) \in Int
            BY <6>1, RoundedIs
          <6> QED  BY <1>1, <6>2, <6>3
        <5> QED  BY <5>2, <5>3
      <4> QED  BY <1>6, <4>1, <4>2
    <3> HIDE DEF T, C
    <3> HIDE DEF N, W, w, R, ce, t
    <3>3. T <= W /\ W \in Nat
      BY <1>1, <3>1
    <3>4. Centred(T, C, W) + T <= W
      BY <2>1, <3>2, <3>3, CentredIs
    <3> QED  BY <3>4 DEF T, C
  <2>3. CASE w # 0
    <3>1. C \in Int
      BY <1>10, <2>3
    <3>2. T <= W
      BY <1>1, <1>7, <1>8, <2>1
    <3> HIDE DEF T, C
    <3>3. Centred(T, C, W) + T <= W
      BY <1>1, <2>1, <3>1, <3>2, CentredIs
    <3> QED  BY <3>3 DEF T, C
  <2> QED  BY <2>2, <2>3
<1>14. ASSUME NEW j \in 1 .. i - 1, t(i) > 0, t(j) > 0, ~held(j, i)
       PROVE  x(j) + t(j) <= x(i)
  <2> DEFINE T == t(j)
             U == t(i)
             A == ce(j)
             B == ce(i)
             X == x(j)
             Y == x(i)
  <2>1. j \in 1 .. N /\ j < i /\ j \in Int /\ i \in Int
    BY <1>1, <1>5
  <2>2. T \in Nat /\ T <= R /\ U \in Nat /\ U <= R
    BY <1>9, <2>1
  <2>3. 1 <= R /\ w # 0 /\ R <= W
    <3>1. t(j) > 0
      BY <1>14
    <3> HIDE DEF T, R, w, W, N, t
    <3>2. T > 0
      BY <3>1 DEF T
    <3> QED  BY <1>1, <1>7, <1>8, <2>2, <3>2
  <2>4. A \in Int /\ px <= A /\ B \in Int /\ px <= B /\ A + R <= B
    BY <1>10, <1>11, <2>1, <2>3
  <2>5. X = Centred(T, A, W) /\ Y = Centred(U, B, W)
    OBVIOUS
  <2>6. c.type = "line" => ~(j = 1 /\ X = 0) /\ ~(i = N /\ Y + U = W)
    BY <1>14
  <2>7. c.type = "line" /\ i < N => B + R < px + w
    <3> SUFFICES ASSUME c.type = "line", i < N PROVE B + R < px + w
      OBVIOUS
    <3>1. N \in 1 .. N /\ i \in 1 .. N
      BY <1>5, <1>6
    <3>2. ce(i) + R <= ce(N) /\ ce(N) < px + w /\ ce(N) \in Int
      BY <1>10, <1>11, <2>3, <3>1
    <3> HIDE DEF ce, R, w, px, N
    <3> QED  BY <1>1, <1>7, <2>4, <3>2 DEF B
  <2>8. c.type = "line" /\ 1 < j => px + R <= A
    <3> SUFFICES ASSUME c.type = "line", 1 < j PROVE px + R <= A
      OBVIOUS
    <3>1. 1 \in 1 .. N
      BY <1>6
    <3>2. ce(1) + R <= ce(j) /\ px <= ce(1) /\ ce(1) \in Int
      BY <1>10, <1>11, <2>1, <2>3, <3>1
    <3> HIDE DEF ce, R, w, px, N
    <3> QED  BY <1>1, <1>7, <2>4, <3>2 DEF A
  <2>9. c.type = "bar" => Y = B - U \div 2 /\ X <= A - T \div 2
    <3> SUFFICES ASSUME c.type = "bar" PROVE Y = B - U \div 2 /\ X <= A - T \div 2
      OBVIOUS
    <3>1. Y = B - U \div 2
      BY <1>12, <1>14
    <3>2. 0 <= A - T \div 2
      <4> DEFINE q == ((2 * j - 1) * w) \div (2 * N)
                 s == ((j - 1) * w) \div N
      <4>1. A = px + q
        OBVIOUS
      <4> HIDE DEF T, A
      <4>2. q \in Int /\ s \in Int /\ 0 <= s /\ s <= q - T \div 2
        BY <1>1, <1>6, <2>1, <2>2, BarCentres
      <4>3. T \div 2 \in Nat
        BY <2>2, HalfIs
      <4> HIDE DEF q, s, px
      <4> QED  BY <1>1, <4>1, <4>2, <4>3
    <3> HIDE DEF T, A, X
    <3>3. Centred(T, A, W) <= A - T \div 2
      BY <1>1, <2>2, <2>4, <3>2, CentredIs
    <3> QED  BY <2>5, <3>1, <3>3
  <2> HIDE DEF T, U, A, B, X, Y, R, ce, W, w, px, N
  <2> DEFINE h == T \div 2
             k == U \div 2
  <2>10. h \in Nat /\ 2 * h <= T /\ T <= 2 * h + 1 /\ k \in Nat /\ 2 * k <= U /\ U <= 2 * k + 1
    BY <2>2, HalfIs
  <2> HIDE DEF h, k
  <2>11. c.type = "line" => Y = B - k /\ X <= A - h
    <3> SUFFICES ASSUME c.type = "line" PROVE Y = B - k /\ X <= A - h
      OBVIOUS
    <3>1. 0 <= B - k
      BY <1>1, <1>7, <2>2, <2>4, <2>10
    <3>2. Y = B - k
      <4>1. CASE i < N
        <5>1. B - k + U <= W
          BY <1>1, <1>7, <2>2, <2>3, <2>4, <2>7, <2>10, <4>1
        <5> QED  BY <1>1, <2>2, <2>4, <2>5, <3>1, <5>1, CentredIs DEF k
      <4>2. CASE ~(i < N)
        <5>1. i = N
          BY <1>1, <1>5, <4>2
        <5>2. Y + U # W /\ U <= W
          BY <1>1, <1>7, <2>2, <2>3, <2>6, <5>1
        <5> QED  BY <1>1, <2>2, <2>4, <2>5, <3>1, <5>2, CentredIs DEF k
      <4> QED  BY <4>1, <4>2
    <3>3. X <= A - h
      <4>1. CASE j = 1
        <5>1. X \in Nat /\ X # 0
          BY <1>1, <2>2, <2>4, <2>5, <2>6, <4>1, CentredIs
        <5>2. 0 < Centred(T, A, W)
          BY <2>5, <5>1
        <5>3. Centred(T, A, W) <= A - T \div 2
          BY <1>1, <2>2, <2>4, <5>2, CentredIs
        <5> QED  BY <2>5, <5>3 DEF h
      <4>2. CASE j # 1
        <5>1. 1 < j
          BY <2>1, <4>2
        <5>2. 0 <= A - h
          BY <1>1, <1>7, <2>2, <2>4, <2>8, <2>10, <5>1
        <5> QED  BY <1>1, <2>2, <2>4, <2>5, <5>2, CentredIs DEF h
      <4> QED  BY <4>1, <4>2
    <3> QED  BY <3>2, <3>3
  <2>12. Y = B - U \div 2 /\ X <= A - T \div 2
    BY <1>6, <2>9, <2>11 DEF h, k
  <2>13. X \in Int
    <3>1. Centred(T, A, W) \in Nat
      BY <1>1, <2>2, <2>4, CentredIs
    <3> QED  BY <2>5, <3>1
  <2>14. X + T <= B - U \div 2
    BY <1>7, <2>2, <2>4, <2>12, <2>13, NextTo
  <2> QED  BY <2>12, <2>14 DEF X, Y, T
<1> QED  BY <1>12, <1>13, <1>14

ChartFitsIn == ChartFits(chart) /\ supply \in DOMAIN ChartSupplies

\* A tag with nothing in it is a chart that fits.
LEMMA ChartStarts == ChartInit => ChartFitsIn
<1> SUFFICES ASSUME ChartInit PROVE ChartFitsIn
  OBVIOUS
<1>1. supply \in DOMAIN ChartSupplies
  BY DEF ChartInit
<1>2. PICK t \in ChartTags :
          chart = [type |-> t.type, width |-> t.width, height |-> t.height, title |-> t.title,
                   legend |-> t.legend, series |-> <<>>, labels |-> <<>>]
  BY DEF ChartInit
<1>3. t \in [type: ChartTypes, width: Nat, height: Nat \ 0 .. 2, title: Nat, legend: LegendModes]
  BY ChartAssumption
<1>4. /\ t.type \in ChartTypes /\ t.width \in Nat /\ t.height \in Nat /\ 3 <= t.height
      /\ t.title \in Nat /\ t.legend \in LegendModes
  BY <1>3
<1> DEFINE One == [name: Nat, values: Seq(Reach \X Reach)]
<1>5. <<>> \in Seq(One) /\ <<>> \in Seq(Nat)
  OBVIOUS
<1> HIDE DEF One
<1>6. chart \in [type: ChartTypes, width: Nat, height: Nat, title: Nat, legend: LegendModes,
                 series: Seq(One), labels: Seq(Nat)]
  BY <1>2, <1>4, <1>5
<1>7. chart.height = t.height
  BY <1>2
<1>8. ChartFits(chart)
  BY <1>4, <1>6, <1>7 DEF ChartFits, One
<1> QED  BY <1>1, <1>8 DEF ChartFitsIn

\* Writing a series, a value or a label makes another.
LEMMA ChartGrows == ChartFitsIn /\ [ChartNext]_chartVars => ChartFitsIn'
<1> SUFFICES ASSUME ChartFitsIn, [ChartNext]_chartVars PROVE ChartFitsIn'
  OBVIOUS
<1> DEFINE One == [name: Nat, values: Seq(Reach \X Reach)]
           All == [type: ChartTypes, width: Nat, height: Nat, title: Nat, legend: LegendModes,
                   series: Seq(One), labels: Seq(Nat)]
<1>1. ChartFits(chart) /\ supply \in DOMAIN ChartSupplies
  BY DEF ChartFitsIn
<1>2. chart \in All /\ 3 <= chart.height
  BY <1>1 DEF ChartFits
<1>3. ChartSupplies[supply].names \subseteq Nat
  BY <1>1, ChartAssumption
<1>4. ChartSupplies[supply].numbers \cup ChartSupplies[supply].across \subseteq Reach
  BY <1>1, ChartAssumption
<1>5. chart.series \in Seq(One) /\ chart.labels \in Seq(Nat)
  <2> HIDE DEF One
  <2> QED  BY <1>2
<1>6. ASSUME NEW n \in ChartSupplies[supply].names \cup {0}, NewSeries(n)
      PROVE  chart' \in All /\ 3 <= chart'.height
  <2>1. n \in Nat
    BY <1>3
  <2>2. [name |-> n, values |-> <<>>] \in One
    BY <2>1
  <2> DEFINE more == Append(chart.series, [name |-> n, values |-> <<>>])
  <2>3. more \in Seq(One)
    <3> DEFINE new == [name |-> n, values |-> <<>>]
    <3>1. new \in One
      BY <2>2
    <3> HIDE DEF new, One
    <3>2. Append(chart.series, new) \in Seq(One)
      BY <1>5, <3>1, AppendProperties
    <3> QED  BY <3>2 DEF new
  <2>4. chart' = [chart EXCEPT !.series = more]
    BY <1>6 DEF NewSeries
  <2> HIDE DEF One, more
  <2> QED  BY <1>2, <2>3, <2>4
<1>7. ASSUME NEW x \in ChartSupplies[supply].across, NEW y \in ChartSupplies[supply].numbers, Value(x, y)
      PROVE  chart' \in All /\ 3 <= chart'.height
  <2> DEFINE s == chart.series
             l == Len(s)
             more == Append(s[l].values, <<x, y>>)
  <2>1. x \in Reach /\ y \in Reach
    BY <1>4
  <2>2. l \in 1 .. l /\ s[l] \in One /\ l \in DOMAIN s
    <3>1. s # <<>> /\ s \in Seq(One)
      BY <1>5, <1>7 DEF Value
    <3> HIDE DEF One, s
    <3>2. l \in 1 .. l /\ l \in Nat
      BY <3>1
    <3> QED  BY <3>1, <3>2, ElementOfSeq
  <2>3. more \in Seq(Reach \X Reach)
    <3> DEFINE pair == <<x, y>>
               old == s[l].values
    <3>1. pair \in Reach \X Reach /\ old \in Seq(Reach \X Reach)
      BY <2>1, <2>2
    <3> HIDE DEF pair, old
    <3>2. Append(old, pair) \in Seq(Reach \X Reach)
      BY <3>1, AppendProperties
    <3> QED  BY <3>2 DEF pair, old
  <2>4. chart' = [chart EXCEPT !.series = [s EXCEPT ![l] = [s[l] EXCEPT !.values = more]]]
    BY <1>7 DEF Value
  <2> HIDE DEF more
  <2> DEFINE new == [s[l] EXCEPT !.values = more]
  <2>5. new \in One
    BY <2>2, <2>3
  <2> HIDE DEF new, One
  <2> DEFINE grown == [s EXCEPT ![l] = new]
  <2>6. grown \in Seq(One)
    <3>1. s \in Seq(One)
      BY <1>5
    <3> HIDE DEF s
    <3> QED  BY <2>2, <2>5, <3>1, ExceptSeq
  <2>7. chart' = [chart EXCEPT !.series = grown]
    BY <2>4 DEF new
  <2> HIDE DEF grown
  <2> QED  BY <1>2, <2>6, <2>7
<1>8. ASSUME NEW n \in ChartSupplies[supply].names, Label(n)
      PROVE  chart' \in All /\ 3 <= chart'.height
  <2>1. n \in Nat
    BY <1>3
  <2> DEFINE more == Append(chart.labels, n)
  <2>2. more \in Seq(Nat)
    BY <1>5, <2>1, AppendProperties
  <2>3. chart' = [chart EXCEPT !.labels = more]
    BY <1>8 DEF Label
  <2> HIDE DEF One, more
  <2> QED  BY <1>2, <2>2, <2>3
<1>9. CASE UNCHANGED chartVars
  BY <1>9 DEF chartVars, ChartFitsIn
<1>10. CASE ChartNext
  <2>1. supply' = supply
    BY <1>10 DEF ChartNext
  <2>2. chart' \in All /\ 3 <= chart'.height
    BY <1>10, <1>6, <1>7, <1>8 DEF ChartNext
  <2>3. ChartFits(chart')
    BY <2>2 DEF ChartFits
  <2> QED  BY <1>1, <2>1, <2>3 DEF ChartFitsIn
<1> QED  BY <1>9, <1>10

\* A chart that fits and is readable reads true.
LEMMA ReadsTrueWhenReadable ==
    ASSUME NEW c, ChartFits(c), Readable(c)
    PROVE  ReadsTrue(c, Frame(c).plot, Frame(c).legend, ChartTicks(c))
<1> DEFINE plot  == Frame(c).plot
           marks == ChartTicks(c)
<1>1. c.type = "pie" => Len(c.series) = 1
  BY DEF Readable
<1>2. c.type = "scatter" => c.labels = <<>>
  BY DEF Readable
<1>3. c.type \in {"bar", "line", "pie", "scatter"}
  BY ChartIs DEF ChartTypes
<1>4. plot \in Rects /\ plot.w <= c.width /\ (plot.w # 0 => plot.x + plot.w <= c.width)
  BY <1>1, FrameIs, PlotIsInside
<1>5. Axis(marks, Ys(c)) /\ Axis(AcrossTicks(c), Xs(c))
  BY NumbersAre, AxisOf DEF ChartTicks, AcrossTicks
<1>6. PartsKeepApart(c, plot, Frame(c).legend)
  BY <1>1, PartsApart
<1> HIDE DEF plot, marks
<1>7. MarksSpan(marks, Ys(c)) /\ MarksSpan(AcrossTicks(c), Xs(c))
  BY <1>5 DEF Axis
<1>8. c.type # "pie" => NamesStandApart(c, Names(c, plot), plot)
  BY <1>2, <1>3, <1>4, NamesTrue
<1>9. BarsTell(Bars(c, plot, marks), plot, marks)
  BY <1>4, <1>5, BarsTrue
<1>10. c.type \in {"line", "scatter"} => PointsTell(c.type, Points(c, plot, marks), plot)
  BY <1>4, <1>5, PointsTrue
<1>11. ReadsTrue(c, plot, Frame(c).legend, marks)
  BY <1>6, <1>7, <1>8, <1>9, <1>10 DEF ReadsTrue
<1> QED  BY <1>11 DEF plot, marks

\* A chart shows its numbers, whatever is written in it: the marks of the axes span the
\* values, each bar is as high as its value to within a dot and clear of the others, points
\* stand in the order of their values, names do not run into each other, and the plot, its
\* axis and the legend have dots of their own (charts.ts, tree.ts readChart).
THEOREM ChartsReadTrue == ChartSpec => []ChartReadsTrue
<1>1. ChartFitsIn => ChartReadsTrue
  BY Zenon, ReadsTrueWhenReadable DEF ChartFitsIn, ChartReadsTrue
<1> QED  BY <1>1, ChartStarts, ChartGrows, PTL DEF ChartSpec
===========================================================================
