----------------------- MODULE WebhookDeliveryProofs -----------------------
(***************************************************************************)
(* Proofs about WebhookDelivery: whatever calls of deliverDue overlap, one  *)
(* attempt at a time works on a delivery while no call outlives the worst   *)
(* case its lease is computed for; an outcome stays; a sweep keeps the      *)
(* newest rows.  What makes them inductive is the account of a claim: the    *)
(* compare-and-set on attempts gives every claim a number of its own, and   *)
(* the lease reaches further than a prompt call may go on, so that no other *)
(* call reads the row as due meanwhile.                                     *)
(***************************************************************************)
EXTENDS WebhookDelivery, FiniteSetTheorems, TLAPS

(* Numbers *)

\* The larger of two numbers.
LEMMA MaxOfTwo ==
    \A a, b \in Int : Max({a, b}) \in {a, b} /\ Max({a, b}) >= a /\ Max({a, b}) >= b
  BY DEF Max

\* The smaller of two numbers.
LEMMA MinOfTwo ==
    \A a, b \in Int : Min({a, b}) \in {a, b} /\ Min({a, b}) <= a /\ Min({a, b}) <= b
  BY DEF Min

\* The library counts the subsets of 1 .. n; that there are 2 ^ n types the power.
LEMMA PowersAreNatural == \A n \in Nat : 2 ^ n \in Nat
<1> SUFFICES ASSUME NEW n \in Nat PROVE 2 ^ n \in Nat
  OBVIOUS
<1>1. IsFiniteSet(1 .. n) /\ Cardinality(1 .. n) = n
  BY FS_Interval
<1>2. IsFiniteSet(SUBSET (1 .. n)) /\ Cardinality(SUBSET (1 .. n)) = 2 ^ n
  BY <1>1, FS_SUBSET
<1> QED
  BY <1>2, FS_CardinalityType

\* Later only raises what lies further back than the margin.
LEMMA LaterIsCapped ==
    \A t \in Int : /\ Later(t) \in Int /\ Later(t) >= t /\ Later(t) >= -Margin
                   /\ Later(t) = t \/ Later(t) = -Margin
<1> SUFFICES ASSUME NEW t \in Int
             PROVE  /\ Later(t) \in Int /\ Later(t) >= t /\ Later(t) >= -Margin
                    /\ Later(t) = t \/ Later(t) = -Margin
  OBVIOUS
<1>1. PICK m \in Int : m = -Margin
  BY BoundsAssumption
<1> QED
  BY <1>1, MaxOfTwo DEF Later

\* No nextAttemptAt lies further ahead.
Horizon == Max({Lease, MaxWait})

\* The lease covers both waits, and the age of a pass is counted further than that.
LEMMA LeaseBounds ==
    /\ Lease \in Nat /\ Lease > Margin + Timeout /\ Lease = Margin + 2 * Timeout
    /\ Horizon \in Nat /\ Horizon >= Lease /\ Horizon >= MaxWait
    /\ MaxAge \in Nat /\ MaxAge >= Lease
<1>1. Lease \in Nat /\ Lease > Margin + Timeout /\ Lease = Margin + 2 * Timeout
  BY BoundsAssumption DEF Lease
<1>2. Horizon \in Nat /\ Horizon >= Lease /\ Horizon >= MaxWait
  BY <1>1, MaxOfTwo, BoundsAssumption DEF Horizon
<1>3. MaxAge = Horizon + Margin
  BY DEF MaxAge, Horizon
<1> QED
  BY <1>1, <1>2, <1>3, BoundsAssumption

\* A retry waits no longer than MAX_BACKOFF_SECONDS.
LEMMA RetryWaitIsBounded == \A n \in Nat \ {0} : RetryWait(n) \in 0 .. MaxWait
<1> SUFFICES ASSUME NEW n \in Nat \ {0} PROVE RetryWait(n) \in 0 .. MaxWait
  OBVIOUS
<1>1. n - 1 \in Nat
  OBVIOUS
<1>2. PICK k \in Nat : k = 2 ^ (n - 1)
  BY <1>1, PowersAreNatural
<1>3. PICK b \in Nat : b = Backoff * k
  BY <1>2, BoundsAssumption
<1>4. RetryWait(n) = Min({b, MaxWait})
  BY <1>2, <1>3 DEF RetryWait
<1>5. MaxWait \in Int /\ b \in Int
  BY BoundsAssumption
<1>6. RetryWait(n) \in {b, MaxWait} /\ RetryWait(n) <= MaxWait
  BY <1>4, <1>5, MinOfTwo
<1> QED
  BY <1>6, BoundsAssumption

(* The invariant *)

\* The attempt won its row; and no later attempt has.
Holds(p, d) == task[p][d] \in Claimed
Current(p, d) == Holds(p, d) /\ attempts[d] = Mine(p, d)

\* Only a pass that reads or works has an age, tasks, or may be stalled.
Rest ==
    \A p \in Passes :
        /\ pc[p] = "idle" => age[p] = 0
        /\ pc[p] # "working" => p \notin stalled /\ \A d \in Deliveries : task[p][d] = "none"

\* A row exists from when it is created, and starts without attempts.
Queued ==
    \A d \in Deliveries :
        /\ status[d] = "none" <=> created[d] = 0
        /\ status[d] = "none" => attempts[d] = 0

\* No count that a pass read or claimed is ahead of the row's, and the row of the
\* latest attempt waits for that attempt's outcome.
Reads ==
    \A p \in Passes, d \in Deliveries :
        /\ task[p][d] = "found" => seen[p][d] <= attempts[d]
        /\ Holds(p, d) => Mine(p, d) <= attempts[d]
        /\ Current(p, d) => status[d] = "PENDING"

\* A claim's number is its own.
OneWinner ==
    \A d \in Deliveries, p, q \in Passes :
        Holds(p, d) /\ Holds(q, d) /\ seen[p][d] = seen[q][d] => p = q

\* A pass that keeps the worst case is within its deadline.
InTime ==
    \A p \in Passes \ stalled :
        /\ pc[p] = "reading" => age[p] < Margin
        /\ \A d \in Deliveries : task[p][d] # "none" => age[p] < Deadline(p, d)

\* Its claims are then the latest, still leased, and known to no other pass.
Leased ==
    \A p \in Passes \ stalled, d \in Deliveries :
        Holds(p, d) =>
            /\ attempts[d] = Mine(p, d)
            /\ wait[d] >= Lease - age[p]
            /\ \A q \in Passes : task[q][d] = "found" => seen[q][d] <= seen[p][d]

\* There is an attempt left, or one under way that a pass will record; and what a
\* stalled pass could still claim was paid for by the fault that stalled it.
Charged ==
    \A d \in Deliveries :
        status[d] = "PENDING" =>
            /\ \/ attempts[d] + 1 <= MaxAttempts + faults
               \/ \E p \in Passes \ stalled : Current(p, d)
            /\ \A p \in stalled : task[p][d] = "found" /\ seen[p][d] = attempts[d] =>
                  attempts[d] + 2 <= MaxAttempts + faults

\* Without a fault an accepted delivery is settled, or its one answer is about to
\* be recorded.
Answered ==
    faults = 0 =>
        /\ stalled = {}
        /\ \A d \in Deliveries :
              accepted[d] > 0 =>
                  /\ accepted[d] = 1
                  /\ \/ status[d] \in {"DELIVERED", "swept"}
                     \/ \E p \in Passes : task[p][d] = "ok"

\* What a sweep that read c as its cutoff will leave.
NoOlder(c) == {e \in Deliveries : status[e] \in Settled /\ created[e] >= created[c]}

\* However many rows other sweeps removed since the cutoff was read, as many as
\* are to be kept are no older.
Kept ==
    \A c \in cutoffs : status[c] # "none" /\ Cardinality(NoOlder(c)) >= MaxRecords

\* The inductive invariant.
DeliveryInv ==
    /\ TypeOK /\ Rest /\ Queued /\ Reads /\ OneWinner /\ InTime /\ Leased
    /\ Charged /\ Answered /\ Kept

(* What the steps of a call leave of the calls *)

\* TypeOK, as far as it is about the calls.
CallsOK ==
    /\ pc \in [Passes -> {"idle", "reading", "working"}] /\ age \in [Passes -> Nat]
    /\ task \in [Passes -> [Deliveries -> {"none", "found"} \cup Claimed]]
    /\ seen \in [Passes -> [Deliveries -> Nat]] /\ stalled \subseteq Passes

\* The tasks of a call as they were, or ended.
Quiets ==
    /\ CallsOK' /\ Rest' /\ stalled' \subseteq stalled
    /\ \A q \in Passes, e \in Deliveries :
          \/ task'[q][e] = "none"
          \/ /\ task'[q][e] = task[q][e] /\ seen'[q][e] = seen[q][e]
             /\ age'[q] = age[q] /\ (q \in stalled' <=> q \in stalled)
    /\ \A q \in Passes :
          pc'[q] = "reading" => pc[q] = "reading" /\ age'[q] = age[q] /\ q \notin stalled

\* A pass that returns only ends tasks.
LEMMA ReturnQuiets ==
    ASSUME CallsOK, Rest, NEW p \in Passes, Return(p)
    PROVE  /\ Quiets
           /\ \A q \in Passes, e \in Deliveries : task'[q][e] = IF q = p THEN "none" ELSE task[q][e]
<1> USE DEF Return
<1>1. \A q \in Passes, e \in Deliveries :
         /\ task'[q][e] = IF q = p THEN "none" ELSE task[q][e]
         /\ seen'[q][e] = IF q = p THEN 0 ELSE seen[q][e]
  BY DEF CallsOK
<1>2. \A q \in Passes : /\ age'[q] = IF q = p THEN 0 ELSE age[q]
                        /\ pc'[q] = IF q = p THEN "idle" ELSE pc[q]
                        /\ q \in stalled' <=> q \in stalled /\ q # p
  BY DEF CallsOK
<1>3. pc' \in [Passes -> {"idle", "reading", "working"}] /\ age' \in [Passes -> Nat]
  BY DEF CallsOK
<1>4. task' \in [Passes -> [Deliveries -> {"none", "found"} \cup Claimed]]
  BY DEF CallsOK
<1>5. seen' \in [Passes -> [Deliveries -> Nat]]
  BY DEF CallsOK
<1>6. CallsOK' /\ stalled' \subseteq stalled
  BY <1>3, <1>4, <1>5 DEF CallsOK
<1>7. Rest'
  BY <1>1, <1>2 DEF Rest
<1> QED
  BY <1>1, <1>2, <1>6, <1>7 DEF Quiets, Rest

\* A delivery that is finished ends one task, with its pass if it was the last.
LEMMA FinishQuiets ==
    ASSUME CallsOK, Rest, NEW p \in Passes, NEW d \in Deliveries, task[p][d] # "none", Finish(p, d)
    PROVE  /\ Quiets
           /\ \A q \in Passes, e \in Deliveries :
                 task'[q][e] = IF q = p /\ e = d THEN "none" ELSE task[q][e]
<1>1. CASE \A e \in Deliveries \ {d} : task[p][e] = "none"
  <2>1. Return(p)
    BY <1>1 DEF Finish
  <2> QED
    BY <1>1, <2>1, ReturnQuiets
<1>2. CASE ~\A e \in Deliveries \ {d} : task[p][e] = "none"
  <2>1. /\ task' = [task EXCEPT ![p][d] = "none"]
        /\ seen' = [seen EXCEPT ![p][d] = 0]
        /\ UNCHANGED <<pc, age, stalled>>
    BY <1>2 DEF Finish
  <2>2. \A q \in Passes, e \in Deliveries :
           /\ task'[q][e] = IF q = p /\ e = d THEN "none" ELSE task[q][e]
           /\ seen'[q][e] = IF q = p /\ e = d THEN 0 ELSE seen[q][e]
    BY <2>1 DEF CallsOK
  <2>3. task' \in [Passes -> [Deliveries -> {"none", "found"} \cup Claimed]]
    BY <2>1 DEF CallsOK
  <2>4. seen' \in [Passes -> [Deliveries -> Nat]]
    BY <2>1 DEF CallsOK
  <2>5. CallsOK' /\ stalled' \subseteq stalled
    BY <2>1, <2>3, <2>4 DEF CallsOK
  <2>6. Rest'
    BY <2>1, <2>2 DEF Rest
  <2> QED
    BY <2>1, <2>2, <2>5, <2>6 DEF Quiets, Rest
<1> QED
  BY <1>1, <1>2

\* Whoever still works on a row works on it under the same claim.
LEMMA QuietsKeep ==
    ASSUME CallsOK, Rest, Reads, OneWinner, InTime, Leased, Quiets, attempts' = attempts,
           \A q \in Passes, e \in Deliveries :
              Current(q, e) /\ task'[q][e] # "none" =>
                  status'[e] = "PENDING" /\ (q \notin stalled => wait'[e] = wait[e])
    PROVE  Reads' /\ OneWinner' /\ InTime' /\ Leased'
<1>1. \A q \in Passes, e \in Deliveries :
         /\ Holds(q, e)' => Holds(q, e) /\ Mine(q, e)' = Mine(q, e) /\ seen'[q][e] = seen[q][e]
         /\ Current(q, e)' => Current(q, e) /\ task'[q][e] # "none"
         /\ Holds(q, e)' => task'[q][e] # "none"
  <2> TAKE q \in Passes, e \in Deliveries
  <2>1. Holds(q, e)' => task'[q][e] # "none"
    BY DEF Holds, Claimed, Outcomes, CheckOutcomes, SendOutcomes
  <2>2. task'[q][e] # "none" => task'[q][e] = task[q][e] /\ seen'[q][e] = seen[q][e]
    BY DEF Quiets
  <2>3. Holds(q, e)' <=> task'[q][e] \in Claimed
    BY DEF Holds, Claimed, Outcomes, CheckOutcomes, SendOutcomes
  <2>4. Holds(q, e)' => Holds(q, e) /\ seen'[q][e] = seen[q][e]
    BY <2>1, <2>2, <2>3 DEF Holds
  <2> QED
    BY <2>1, <2>4 DEF Current, Mine
<1>2. Reads'
  <2>1. \A q \in Passes, e \in Deliveries :
           task'[q][e] = "found" => task[q][e] = "found" /\ seen'[q][e] = seen[q][e]
    BY DEF Quiets
  <2> QED
    BY <1>1, <2>1 DEF Reads
<1>3. OneWinner'
  BY <1>1 DEF OneWinner
<1>4. InTime'
  BY DEF InTime, Quiets, Deadline
<1>5. Leased'
  <2> SUFFICES ASSUME NEW q \in Passes \ stalled', NEW e \in Deliveries, Holds(q, e)'
               PROVE  /\ attempts'[e] = Mine(q, e)' /\ wait'[e] >= Lease - age'[q]
                      /\ \A r \in Passes : task'[r][e] = "found" => seen'[r][e] <= seen'[q][e]
    BY DEF Leased
  <2>1. Holds(q, e) /\ q \notin stalled /\ age'[q] = age[q] /\ task'[q][e] # "none"
    BY <1>1 DEF Quiets
  <2>2. /\ attempts[e] = Mine(q, e) /\ wait[e] >= Lease - age[q]
        /\ \A r \in Passes : task[r][e] = "found" => seen[r][e] <= seen[q][e]
    BY <2>1 DEF Leased
  <2>3. wait'[e] = wait[e]
    BY <2>1, <2>2 DEF Current
  <2>4. \A r \in Passes : task'[r][e] = "found" => task[r][e] = "found" /\ seen'[r][e] = seen[r][e]
    BY DEF Quiets
  <2> QED
    BY <1>1, <2>1, <2>2, <2>3, <2>4
<1> QED
  BY <1>2, <1>3, <1>4, <1>5

\* An attempt that goes on keeps its claim, and time until a later deadline.
LEMMA GotoKeeps ==
    ASSUME CallsOK, Rest, Reads, OneWinner, InTime, Leased,
           NEW p \in Passes, NEW d \in Deliveries, Holds(p, d),
           NEW step \in Claimed \ {"checking"}, Goto(p, d, step), UNCHANGED rows
    PROVE  /\ CallsOK' /\ Rest' /\ Reads' /\ OneWinner' /\ InTime' /\ Leased'
           /\ \A q \in Passes, e \in Deliveries :
                 task'[q][e] = IF q = p /\ e = d THEN step ELSE task[q][e]
           /\ \A q \in Passes, e \in Deliveries : Current(q, e)' <=> Current(q, e)
<1> USE DEF Goto, rows
<1>1. \A q \in Passes, e \in Deliveries :
         task'[q][e] = IF q = p /\ e = d THEN step ELSE task[q][e]
  BY DEF CallsOK
<1>2. CallsOK'
  BY DEF CallsOK
<1>3. \A q \in Passes, e \in Deliveries :
         /\ Holds(q, e)' <=> Holds(q, e)
         /\ Mine(q, e)' = Mine(q, e)
         /\ Current(q, e)' <=> Current(q, e)
         /\ task'[q][e] = "found" => task[q][e] = "found"
         /\ task'[q][e] # "none" => task[q][e] # "none"
  BY <1>1 DEF Holds, Current, Mine, Claimed, Outcomes, CheckOutcomes, SendOutcomes
<1>4. Rest'
  BY <1>1 DEF Rest, Holds, Claimed, Outcomes, CheckOutcomes, SendOutcomes
<1>5. Reads' /\ OneWinner'
  BY <1>3 DEF Reads, OneWinner
<1>6. InTime'
  <2>1. \A q \in Passes, e \in Deliveries :
           task'[q][e] # "none" => task[q][e] # "none" /\ Deadline(q, e) <= Deadline(q, e)'
    BY <1>1, BoundsAssumption DEF Deadline, Holds, Claimed, Outcomes, CheckOutcomes, SendOutcomes
  <2>2. \A q \in Passes, e \in Deliveries : Deadline(q, e) \in Int /\ Deadline(q, e)' \in Int /\ age[q] \in Int
    BY BoundsAssumption DEF Deadline, CallsOK
  <2> QED
    BY <2>1, <2>2 DEF InTime
<1>7. Leased'
  BY <1>3 DEF Leased
<1> QED
  BY <1>1, <1>2, <1>3, <1>4, <1>5, <1>6, <1>7

(* What a step leaves of the rows *)

\* TypeOK, as far as it is about the rows.
RowsOK ==
    /\ status \in [Deliveries -> {"none", "PENDING", "swept"} \cup Settled]
    /\ attempts \in [Deliveries -> 0 .. MaxAttempts + faults]
    /\ wait \in [Deliveries -> -Margin .. Horizon]
    /\ created \in [Deliveries -> 0 .. Cardinality(Deliveries)]

\* The rest of TypeOK.
OtherOK ==
    /\ enabled \in [Deliveries -> BOOLEAN] /\ on \in BOOLEAN
    /\ settles \in 0 .. SweepEvery - 1 /\ sweeps \in Nat /\ cutoffs \subseteq Deliveries
    /\ accepted \in [Deliveries -> Nat]
    /\ faults \in 0 .. MaxFaults /\ toggles \in 0 .. MaxToggles

\* TypeOK is these three, now and after a step.
LEMMA TypeParts ==
    /\ TypeOK <=> CallsOK /\ RowsOK /\ OtherOK
    /\ TypeOK' <=> CallsOK' /\ RowsOK' /\ OtherOK'
  BY DEF TypeOK, CallsOK, RowsOK, OtherOK, Horizon

\* The invariant with TypeOK in its parts.
Parts ==
    /\ CallsOK /\ RowsOK /\ OtherOK /\ Rest /\ Queued /\ Reads /\ OneWinner /\ InTime /\ Leased
    /\ Charged /\ Answered /\ Kept

\* The two forms of the invariant are the same.
LEMMA PartsOfInv == (DeliveryInv <=> Parts) /\ (DeliveryInv' <=> Parts')
  BY TypeParts DEF DeliveryInv, Parts

\* Two attempts that are both a row's latest read the same count.
LEMMA SameClaim ==
    ASSUME CallsOK, NEW p \in Passes, NEW q \in Passes, NEW d \in Deliveries,
           attempts[d] = Mine(p, d), attempts[d] = Mine(q, d)
    PROVE  seen[p][d] = seen[q][d]
<1>1. seen[p][d] \in Nat /\ seen[q][d] \in Nat
  BY DEF CallsOK
<1> QED
  BY <1>1 DEF Mine

\* A step that leaves the calls, the counts and the times leaves what is said of them.
LEMMA CallsStay ==
    ASSUME CallsOK, Rest, OneWinner, InTime, Leased, UNCHANGED <<calls, attempts, wait>>
    PROVE  CallsOK' /\ Rest' /\ OneWinner' /\ InTime' /\ Leased'
<1> USE DEF calls
<1>1. \A p \in Passes, d \in Deliveries :
         /\ Holds(p, d)' <=> Holds(p, d)
         /\ Mine(p, d)' = Mine(p, d) /\ Deadline(p, d)' = Deadline(p, d)
  BY DEF Holds, Mine, Deadline, Claimed, Outcomes, CheckOutcomes, SendOutcomes
<1> QED
  BY <1>1 DEF CallsOK, Rest, OneWinner, InTime, Leased

\* A step that leaves the rows leaves what is said of them.
LEMMA RowsStay ==
    ASSUME RowsOK, Queued, UNCHANGED <<rows, faults>>
    PROVE  RowsOK' /\ Queued'
  BY DEF RowsOK, Queued, rows, Settled

\* Rows that settle, and cutoffs that are used up, endanger no row to keep.
LEMMA KeptStays ==
    ASSUME CallsOK, RowsOK, OtherOK, Kept, cutoffs' \subseteq cutoffs,
           \A e \in Deliveries :
              /\ status[e] # "none" => status'[e] # "none" /\ created'[e] = created[e]
              /\ status[e] \in Settled => status'[e] \in Settled
    PROVE  Kept'
<1> SUFFICES ASSUME NEW c \in cutoffs'
             PROVE  status'[c] # "none" /\ Cardinality(NoOlder(c)') >= MaxRecords
  BY DEF Kept, NoOlder
<1>1. c \in cutoffs /\ c \in Deliveries /\ status[c] # "none" /\ created'[c] = created[c]
  BY DEF Kept, OtherOK
<1>2. Cardinality(NoOlder(c)) >= MaxRecords
  BY <1>1 DEF Kept
<1>3. NoOlder(c) \subseteq NoOlder(c)' /\ NoOlder(c)' \subseteq Deliveries
  BY <1>1 DEF NoOlder, Settled
<1>4. IsFiniteSet(NoOlder(c)')
  BY <1>3, DeliveriesAssumption, FS_Subset
<1>5. Cardinality(NoOlder(c)) <= Cardinality(NoOlder(c)')
  BY <1>3, <1>4, FS_Subset
<1>6. Cardinality(NoOlder(c)) \in Nat /\ Cardinality(NoOlder(c)') \in Nat
  BY <1>3, <1>4, FS_Subset, FS_CardinalityType
<1> QED
  BY <1>1, <1>2, <1>5, <1>6, BoundsAssumption

\* A step that neither counts an attempt nor ends the latest leaves the account.
LEMMA ChargedStays ==
    ASSUME CallsOK, RowsOK, OtherOK, Charged, UNCHANGED <<faults, attempts>>,
           \A e \in Deliveries : status'[e] = "PENDING" => status[e] = "PENDING",
           \A q \in Passes \ stalled, e \in Deliveries :
              Current(q, e) => Current(q, e)' /\ q \notin stalled',
           stalled' \subseteq stalled,
           \A q \in Passes, e \in Deliveries :
              task'[q][e] = "found" => task[q][e] = "found" /\ seen'[q][e] = seen[q][e]
    PROVE  Charged'
<1> SUFFICES ASSUME NEW d \in Deliveries, status'[d] = "PENDING"
             PROVE  /\ \/ attempts'[d] + 1 <= MaxAttempts + faults'
                       \/ \E p \in Passes \ stalled' : Current(p, d)'
                    /\ \A p \in stalled' : task'[p][d] = "found" /\ seen'[p][d] = attempts'[d] =>
                          attempts'[d] + 2 <= MaxAttempts + faults'
  BY DEF Charged
<1>1. /\ \/ attempts[d] + 1 <= MaxAttempts + faults
         \/ \E p \in Passes \ stalled : Current(p, d)
      /\ \A p \in stalled : task[p][d] = "found" /\ seen[p][d] = attempts[d] =>
            attempts[d] + 2 <= MaxAttempts + faults
  BY DEF Charged
<1> QED
  BY <1>1 DEF CallsOK

\* A fault pays for one more attempt.
LEMMA FaultPays ==
    ASSUME RowsOK, OtherOK, Queued, Charged, faults < MaxFaults, faults' = faults + 1,
           UNCHANGED rows, stalled' \subseteq stalled, stalled \subseteq Passes,
           \A q \in Passes, e \in Deliveries :
              task'[q][e] = "found" => task[q][e] = "found" /\ seen'[q][e] = seen[q][e]
    PROVE  RowsOK' /\ Queued' /\ Charged' /\ Answered'
<1>1. attempts' \in [Deliveries -> 0 .. MaxAttempts + faults']
  BY BoundsAssumption DEF RowsOK, OtherOK, rows
<1>2. RowsOK' /\ Queued'
  BY <1>1 DEF RowsOK, Queued, rows, Settled
<1>3. \A d \in Deliveries : attempts[d] \in Nat /\ attempts[d] <= MaxAttempts + faults
  BY BoundsAssumption DEF RowsOK, OtherOK
<1>4. Charged'
  <2> SUFFICES ASSUME NEW d \in Deliveries, status'[d] = "PENDING"
               PROVE  /\ attempts'[d] + 1 <= MaxAttempts + faults'
                      /\ \A p \in stalled' : task'[p][d] = "found" /\ seen'[p][d] = attempts'[d] =>
                            attempts'[d] + 2 <= MaxAttempts + faults'
    BY DEF Charged
  <2>1. attempts'[d] = attempts[d] /\ status[d] = "PENDING"
    BY DEF rows
  <2>2. \A p \in stalled : task[p][d] = "found" /\ seen[p][d] = attempts[d] =>
           attempts[d] + 2 <= MaxAttempts + faults
    BY <2>1 DEF Charged
  <2> QED
    BY <1>3, <2>1, <2>2, BoundsAssumption DEF OtherOK
<1>5. Answered'
  BY DEF Answered, OtherOK
<1> QED
  BY <1>2, <1>4, <1>5

\* A fault is counted within its bound.
LEMMA FaultCounts ==
    ASSUME OtherOK, faults < MaxFaults, faults' = faults + 1,
           UNCHANGED <<enabled, on, toggles, accepted>>, settles' = settles \/ settles' = 0,
           sweeps' \in Nat, cutoffs' \subseteq Deliveries
    PROVE  OtherOK'
<1>1. faults' \in 0 .. MaxFaults
  BY BoundsAssumption DEF OtherOK
<1>2. settles' \in 0 .. SweepEvery - 1
  BY BoundsAssumption DEF OtherOK
<1> QED
  BY <1>1, <1>2 DEF OtherOK

\* The queue begins in a state of the invariant.
LEMMA DeliveryInitInv == Init => DeliveryInv
<1> SUFFICES ASSUME Init PROVE Parts
  BY PartsOfInv
<1> USE DEF Init
<1>1. CallsOK
  BY DEF CallsOK
<1>2. 0 \in 0 .. MaxAttempts /\ 0 \in -Margin .. Horizon /\ 0 \in 0 .. Cardinality(Deliveries)
  BY BoundsAssumption, LeaseBounds, DeliveriesAssumption, FS_CardinalityType
<1>3. RowsOK
  BY <1>2, BoundsAssumption DEF RowsOK
<1>4. OtherOK
  BY BoundsAssumption DEF OtherOK
<1>5. Rest /\ Queued /\ Answered /\ Kept
  BY DEF Rest, Queued, Answered, Kept
<1>6. \A p \in Passes, d \in Deliveries : ~Holds(p, d)
  BY DEF Holds, Claimed, Outcomes, CheckOutcomes, SendOutcomes
<1>7. Reads /\ OneWinner /\ InTime /\ Leased
  BY <1>6 DEF Reads, OneWinner, InTime, Leased, Current
<1>8. Charged
  BY BoundsAssumption DEF Charged
<1> QED
  BY <1>1, <1>3, <1>4, <1>5, <1>7, <1>8 DEF Parts

\* Every step of a pass, a sweep, an operator, the clock and a crash keeps it.
LEMMA DeliveryNextInv == DeliveryInv /\ [Next]_vars => DeliveryInv'
<1> SUFFICES ASSUME Parts, [Next]_vars PROVE Parts'
  BY PartsOfInv
<1>0. /\ CallsOK /\ RowsOK /\ OtherOK /\ Rest /\ Queued /\ Reads /\ OneWinner /\ InTime /\ Leased
      /\ Charged /\ Answered /\ Kept
  BY DEF Parts
<1> USE <1>0
<1>1. ASSUME NEW d \in Deliveries, Queue(d)
       PROVE  Parts'
  <2> USE <1>1 DEF Queue
  <2>1. CallsOK' /\ Rest' /\ OneWinner' /\ InTime' /\ Leased'
    BY CallsStay
  <2>2. created'[d] \in 1 .. Cardinality(Deliveries)
    <3> DEFINE K == {e \in Deliveries : created[e] > 0}
    <3>1. K \subseteq Deliveries /\ d \notin K
      BY DEF Queued, RowsOK
    <3>2. IsFiniteSet(K) /\ Cardinality(K) <= Cardinality(Deliveries) /\ K # Deliveries
      BY <3>1, DeliveriesAssumption, FS_Subset
    <3>3. Cardinality(K) # Cardinality(Deliveries)
      BY <3>1, <3>2, DeliveriesAssumption, FS_Subset
    <3>4. Cardinality(K) \in Nat /\ Cardinality(Deliveries) \in Nat
      BY <3>2, DeliveriesAssumption, FS_CardinalityType
    <3>5. created'[d] = Cardinality(K) + 1
      BY DEF RowsOK
    <3> QED
      BY <3>2, <3>3, <3>4, <3>5
  <2>3. /\ status'[d] = "PENDING" /\ \A e \in Deliveries \ {d} : status'[e] = status[e] /\ created'[e] = created[e]
        /\ status' \in [Deliveries -> {"none", "PENDING", "swept"} \cup Settled]
    BY DEF RowsOK
  <2>4. created' \in [Deliveries -> 0 .. Cardinality(Deliveries)]
    <3>1. created' = [created EXCEPT ![d] = created'[d]]
      BY DEF RowsOK
    <3>2. created'[d] \in 0 .. Cardinality(Deliveries)
      BY <2>2
    <3> QED
      BY <3>1, <3>2 DEF RowsOK
  <2>5. RowsOK' /\ OtherOK'
    BY <2>3, <2>4 DEF RowsOK, OtherOK, switches, sweeping
  <2>6. Queued'
    BY <2>2, <2>3 DEF Queued
  <2>7. Reads'
    BY <2>3 DEF Reads, Current, Holds, Mine, calls
  <2>8. Charged'
    <3>1. attempts[d] = 0 /\ attempts' = attempts
      BY DEF Queued
    <3>2. \A p \in stalled : faults >= 1
      BY DEF Answered, OtherOK
    <3> QED
      BY <2>3, <3>1, <3>2, BoundsAssumption DEF Charged, Current, Holds, Mine, calls, OtherOK, RowsOK
  <2>9. Answered'
    BY <2>3 DEF Answered, calls
  <2>10. Kept'
    BY <2>3, KeptStays DEF sweeping, Settled
  <2> QED
    BY <2>1, <2>5, <2>6, <2>7, <2>8, <2>9, <2>10 DEF Parts
<1>2. ASSUME UNCHANGED <<rows, calls, accepted, faults>>, OtherOK', cutoffs' \subseteq cutoffs
      PROVE  Parts'
  <2> USE <1>2
  <2>1. CallsOK' /\ Rest' /\ OneWinner' /\ InTime' /\ Leased'
    BY CallsStay DEF rows
  <2>2. RowsOK' /\ Queued'
    BY RowsStay
  <2>3. Reads' /\ Charged' /\ Answered'
    BY DEF Reads, Charged, Answered, Current, Holds, Mine, calls, rows
  <2>4. Kept'
    BY KeptStays DEF rows
  <2> QED
    BY <2>1, <2>2, <2>3, <2>4 DEF Parts
<1>3. ASSUME NEW d \in Deliveries, ToggleWebhook(d)
       PROVE  Parts'
  <2>1. OtherOK'
    <3>1. enabled \in [Deliveries -> BOOLEAN] /\ enabled' = [enabled EXCEPT ![d] = ~enabled[d]]
      BY <1>3 DEF ToggleWebhook, OtherOK
    <3>2. enabled' \in [Deliveries -> BOOLEAN]
      BY <3>1
    <3>3. toggles' \in 0 .. MaxToggles
      BY <1>3, BoundsAssumption DEF ToggleWebhook, OtherOK
    <3>4. on' \in BOOLEAN
      BY <1>3 DEF ToggleWebhook, OtherOK
    <3> QED
      BY <1>3, <3>2, <3>3, <3>4 DEF ToggleWebhook, OtherOK, sweeping
  <2> QED
    BY <1>2, <1>3, <2>1 DEF ToggleWebhook, sweeping
<1>4. ASSUME ToggleAll
       PROVE  Parts'
  <2>1. OtherOK'
    <3>1. toggles' \in 0 .. MaxToggles
      BY <1>4, BoundsAssumption DEF ToggleAll, OtherOK
    <3>2. on' \in BOOLEAN /\ enabled' \in [Deliveries -> BOOLEAN]
      BY <1>4 DEF ToggleAll, OtherOK
    <3> QED
      BY <1>4, <3>1, <3>2 DEF ToggleAll, OtherOK, sweeping
  <2> QED
    BY <1>2, <1>4, <2>1 DEF ToggleAll, sweeping
<1>5. ASSUME NEW c \in Deliveries, SweepDelete(c)
       PROVE  Parts'
  <2> USE <1>5 DEF SweepDelete
  <2>1. CallsOK' /\ Rest' /\ OneWinner' /\ InTime' /\ Leased'
    BY CallsStay
  <2>2. \A d \in Deliveries :
           /\ status'[d] = status[d] \/ (status[d] \in Settled /\ status'[d] = "swept" /\ created[d] < created[c])
           /\ status[d] \in Settled /\ ~(created[d] < created[c]) => status'[d] = status[d]
    BY DEF Older, SettledRows
  <2>3. status' \in [Deliveries -> {"none", "PENDING", "swept"} \cup Settled]
    BY <2>2 DEF RowsOK
  <2>4. RowsOK' /\ OtherOK'
    BY <2>3 DEF RowsOK, OtherOK, switches
  <2>5. Queued'
    BY <2>2 DEF Queued, Settled
  <2>6. Reads'
    BY <2>2 DEF Reads, Current, Holds, Mine, calls, Settled
  <2>7. Charged'
    BY <2>2, ChargedStays DEF calls, Current, Holds, Mine, CallsOK
  <2>8. Answered'
    BY <2>2 DEF Answered, calls, Settled
  <2>9. Kept'
    <3> SUFFICES ASSUME NEW k \in cutoffs'
                 PROVE  status'[k] # "none" /\ Cardinality(NoOlder(k)') >= MaxRecords
      BY DEF Kept, NoOlder
    <3>1. /\ k \in cutoffs /\ k \in Deliveries /\ c \in cutoffs /\ status[k] # "none"
          /\ Cardinality(NoOlder(k)) >= MaxRecords /\ Cardinality(NoOlder(c)) >= MaxRecords
      BY DEF Kept, OtherOK
    <3>2. created \in [Deliveries -> Int]
      BY DeliveriesAssumption, FS_CardinalityType DEF RowsOK
    <3>3. NoOlder(k) \subseteq NoOlder(k)' \/ NoOlder(c) \subseteq NoOlder(k)'
      <4>1. CASE created[c] <= created[k]
        BY <2>2, <3>1, <3>2, <4>1 DEF NoOlder
      <4>2. CASE created[k] < created[c]
        BY <2>2, <3>1, <3>2, <4>2 DEF NoOlder
      <4> QED
        BY <3>1, <3>2, <4>1, <4>2
    <3>4. NoOlder(k)' \subseteq Deliveries
      BY DEF NoOlder
    <3>5. IsFiniteSet(NoOlder(k)')
      BY <3>4, DeliveriesAssumption, FS_Subset
    <3>6. \A S : S \subseteq NoOlder(k)' =>
             /\ Cardinality(S) <= Cardinality(NoOlder(k)')
             /\ Cardinality(S) \in Nat /\ Cardinality(NoOlder(k)') \in Nat
      BY <3>5, FS_Subset, FS_CardinalityType
    <3>7. Cardinality(NoOlder(k)') >= MaxRecords
      BY <3>1, <3>3, <3>6, BoundsAssumption
    <3> QED
      BY <2>2, <3>1, <3>7 DEF Settled
  <2> QED
    BY <2>1, <2>4, <2>5, <2>6, <2>7, <2>8, <2>9 DEF Parts
<1>6. ASSUME NEW p \in Passes, Begin(p)
       PROVE  Parts'
  <2> USE <1>6 DEF Begin, rows, switches, sweeping
  <2>1. \A q \in Passes : pc'[q] = IF q = p THEN "reading" ELSE pc[q]
    BY DEF CallsOK
  <2>2. CallsOK'
    BY DEF CallsOK
  <2>3. RowsOK' /\ Queued' /\ OtherOK'
    BY RowsStay DEF OtherOK
  <2>4. Rest'
    BY <2>1 DEF Rest
  <2>5. InTime'
    BY <2>1, BoundsAssumption DEF InTime, Rest, Deadline
  <2>6. Reads' /\ OneWinner' /\ Leased' /\ Charged' /\ Answered'
    BY DEF Reads, OneWinner, Leased, Charged, Answered, Current, Holds, Mine
  <2>7. Kept'
    BY KeptStays
  <2> QED
    BY <2>2, <2>3, <2>4, <2>5, <2>6, <2>7 DEF Parts
<1>7. ASSUME NEW p \in Passes, ReadDue(p)
       PROVE  Parts'
  <2> USE <1>7
  <2>1. PICK B \in Batches(p) :
           LET W == Workable(B) IN
           IF W = {} THEN Return(p)
           ELSE /\ pc' = [pc EXCEPT ![p] = "working"]
                /\ task' = [task EXCEPT ![p] =
                              [d \in Deliveries |-> IF d \in W THEN "found" ELSE "none"]]
                /\ seen' = [seen EXCEPT ![p] =
                              [d \in Deliveries |-> IF d \in W THEN attempts[d] ELSE 0]]
                /\ UNCHANGED <<age, stalled>>
    BY DEF ReadDue
  <2>2. /\ pc[p] = "reading" /\ p \notin stalled /\ \A d \in Deliveries : task[p][d] = "none"
        /\ UNCHANGED <<rows, switches, sweeping, accepted, faults>>
    BY DEF ReadDue, Rest
  <2>3. OtherOK' /\ RowsOK' /\ Queued'
    BY <2>2, RowsStay DEF OtherOK, switches, sweeping
  <2>4. Kept'
    BY <2>2, KeptStays DEF sweeping, rows
  <2>5. CASE Workable(B) = {}
    <3>1. Return(p)
      BY <2>1, <2>5
    <3>2. /\ Quiets
          /\ \A q \in Passes, e \in Deliveries : task'[q][e] = task[q][e]
      BY <2>2, <3>1, ReturnQuiets DEF CallsOK
    <3>3. Reads' /\ OneWinner' /\ InTime' /\ Leased'
      BY <2>2, <3>2, QuietsKeep DEF rows, Reads
    <3>4. \A q \in Passes, e \in Deliveries :
             task[q][e] # "none" => seen'[q][e] = seen[q][e] /\ (q \in stalled' <=> q \in stalled)
      BY <3>2 DEF Quiets
    <3>5. \A q \in Passes, e \in Deliveries : Holds(q, e) => task[q][e] # "none"
      BY DEF Holds, Claimed, Outcomes, CheckOutcomes, SendOutcomes
    <3>6. \A q \in Passes, e \in Deliveries : Holds(q, e)' <=> Holds(q, e)
      BY <3>2 DEF Holds, Claimed, Outcomes, CheckOutcomes, SendOutcomes
    <3>7. Charged'
      BY <2>2, <3>2, <3>4, <3>5, <3>6, ChargedStays DEF rows, Current, Mine, Quiets
    <3>8. Answered'
      BY <2>2, <3>2 DEF Answered, Quiets, rows
    <3> QED
      BY <2>3, <2>4, <3>2, <3>3, <3>7, <3>8 DEF Parts, Quiets
  <2>6. CASE Workable(B) # {}
    <3> DEFINE W == Workable(B)
    <3> HIDE DEF W
    <3>1. /\ pc' = [pc EXCEPT ![p] = "working"]
          /\ task' = [task EXCEPT ![p] = [d \in Deliveries |-> IF d \in W THEN "found" ELSE "none"]]
          /\ seen' = [seen EXCEPT ![p] = [d \in Deliveries |-> IF d \in W THEN attempts[d] ELSE 0]]
          /\ UNCHANGED <<age, stalled>>
      BY <2>1, <2>6 DEF W
    <3>2. \A d \in W : d \in Deliveries /\ status[d] = "PENDING" /\ wait[d] <= -age[p]
      BY DEF W, Workable, Batches, Due
    <3>3. \A q \in Passes, e \in Deliveries :
             /\ q # p => task'[q][e] = task[q][e] /\ seen'[q][e] = seen[q][e]
             /\ task'[p][e] \in {"found", "none"}
             /\ task'[p][e] = "found" => e \in W /\ seen'[p][e] = attempts[e]
      BY <3>1 DEF CallsOK
    <3>4. pc' \in [Passes -> {"idle", "reading", "working"}] /\ age' = age /\ stalled' = stalled
      BY <3>1 DEF CallsOK
    <3>5. task' \in [Passes -> [Deliveries -> {"none", "found"} \cup Claimed]]
      BY <3>1 DEF CallsOK
    <3>6. attempts \in [Deliveries -> Nat]
      BY BoundsAssumption DEF RowsOK, OtherOK
    <3>7. seen' \in [Passes -> [Deliveries -> Nat]]
      BY <3>1, <3>6 DEF CallsOK
    <3>8. CallsOK'
      BY <3>4, <3>5, <3>7 DEF CallsOK
    <3>9. Rest'
      BY <2>2, <3>1, <3>3 DEF Rest, CallsOK
    <3>10. \A q \in Passes, e \in Deliveries :
              /\ Holds(q, e)' <=> Holds(q, e)
              /\ Holds(q, e) => q # p
              /\ Holds(q, e) => seen'[q][e] = seen[q][e]
      BY <2>2, <3>3 DEF Holds, Claimed, Outcomes, CheckOutcomes, SendOutcomes
    <3>11. \A q \in Passes, e \in Deliveries : Current(q, e)' <=> Current(q, e)
      BY <2>2, <3>10 DEF Current, Mine, rows
    <3>12. Reads'
      BY <2>2, <3>3, <3>6, <3>10, <3>11 DEF Reads, Mine, rows
    <3>13. OneWinner'
      BY <3>10 DEF OneWinner
    <3>14. InTime'
      BY <2>2, <3>3, <3>4, <3>1 DEF InTime, Deadline, CallsOK
    <3>15. \A q \in Passes \ stalled, e \in Deliveries : Holds(q, e) => age[q] < Lease
      <4> SUFFICES ASSUME NEW q \in Passes \ stalled, NEW e \in Deliveries, Holds(q, e)
                   PROVE  age[q] < Lease
        OBVIOUS
      <4>1. age[q] < Deadline(q, e) /\ task[q][e] # "found"
        BY DEF InTime, Holds, Claimed, Outcomes, CheckOutcomes, SendOutcomes
      <4>2. Deadline(q, e) \in Int /\ Deadline(q, e) <= Lease
        BY <4>1, LeaseBounds, BoundsAssumption DEF Deadline
      <4> QED
        BY <4>1, <4>2, LeaseBounds DEF CallsOK
    <3>16. \A q \in Passes \ stalled, e \in Deliveries : Holds(q, e) => e \notin W
      <4> SUFFICES ASSUME NEW q \in Passes \ stalled, NEW e \in Deliveries, Holds(q, e), e \in W
                   PROVE  FALSE
        OBVIOUS
      <4>1. wait[e] >= Lease - age[q] /\ age[q] < Lease
        BY <3>15 DEF Leased
      <4>2. wait[e] <= -age[p]
        BY <3>2
      <4>3. wait[e] \in Int /\ age[p] \in Nat /\ age[q] \in Nat
        BY LeaseBounds, BoundsAssumption DEF RowsOK, CallsOK
      <4> QED
        BY <4>1, <4>2, <4>3, LeaseBounds
    <3>17. Leased'
      BY <2>2, <3>3, <3>4, <3>10, <3>16 DEF Leased, Mine, rows
    <3>18. Charged'
      <4> SUFFICES ASSUME NEW d \in Deliveries, status'[d] = "PENDING"
                   PROVE  /\ \/ attempts'[d] + 1 <= MaxAttempts + faults'
                             \/ \E q \in Passes \ stalled' : Current(q, d)'
                          /\ \A q \in stalled' : task'[q][d] = "found" /\ seen'[q][d] = attempts'[d] =>
                                attempts'[d] + 2 <= MaxAttempts + faults'
        BY DEF Charged
      <4> QED
        BY <2>2, <3>3, <3>4, <3>11, SMTT(30) DEF Charged, rows, CallsOK
    <3>19. Answered'
      BY <2>2, <3>3, <3>4 DEF Answered, rows
    <3> QED
      BY <2>3, <2>4, <3>8, <3>9, <3>12, <3>13, <3>14, <3>17, <3>18, <3>19 DEF Parts
  <2> QED
    BY <2>5, <2>6
<1>8. ASSUME NEW p \in Passes, PassFails(p)
       PROVE  Parts'
  <2> USE <1>8 DEF PassFails
  <2>1. \A d \in Deliveries : task[p][d] = "none"
    BY DEF Rest
  <2>2. Quiets /\ \A q \in Passes, e \in Deliveries : task'[q][e] = task[q][e]
    BY <2>1, ReturnQuiets DEF CallsOK
  <2>3. Reads' /\ OneWinner' /\ InTime' /\ Leased'
    BY <2>2, QuietsKeep DEF rows, Reads
  <2>4. RowsOK' /\ Queued' /\ Charged' /\ Answered'
    <3>1. stalled \subseteq Passes /\ stalled' \subseteq stalled
      BY <2>2 DEF Quiets, CallsOK
    <3>2. \A q \in Passes, e \in Deliveries : task'[q][e] = "found" => seen'[q][e] = seen[q][e]
      BY <2>2 DEF Quiets
    <3> QED
      BY <2>2, <3>1, <3>2, FaultPays
  <2>5. OtherOK'
    BY FaultCounts DEF switches, sweeping, OtherOK
  <2>6. Kept'
    BY KeptStays DEF sweeping, rows
  <2> QED
    BY <2>2, <2>3, <2>4, <2>5, <2>6 DEF Parts, Quiets
<1>9. ASSUME NEW p \in Passes, Stall(p)
       PROVE  Parts'
  <2> USE <1>9 DEF Stall, rows, switches, sweeping
  <2>1. CallsOK' /\ Rest'
    BY DEF CallsOK, Rest
  <2>2. OtherOK' /\ Kept'
    BY FaultCounts, KeptStays DEF OtherOK
  <2>3. \A q \in Passes, e \in Deliveries :
           (Holds(q, e)' <=> Holds(q, e)) /\ Mine(q, e)' = Mine(q, e) /\ (Current(q, e)' <=> Current(q, e))
    BY DEF Holds, Mine, Current, Claimed, Outcomes, CheckOutcomes, SendOutcomes
  <2>4. Reads' /\ OneWinner' /\ InTime' /\ Leased'
    BY <2>3 DEF Reads, OneWinner, InTime, Leased, Deadline
  <2>5. attempts \in [Deliveries -> Nat] /\ \A d \in Deliveries : attempts[d] <= MaxAttempts + faults
    BY BoundsAssumption DEF RowsOK, OtherOK
  <2>6. attempts' \in [Deliveries -> 0 .. MaxAttempts + faults']
    BY <2>5, BoundsAssumption DEF OtherOK
  <2>7. RowsOK' /\ Queued'
    BY <2>6 DEF RowsOK, Queued, Settled
  <2>8. Charged'
    <3> SUFFICES ASSUME NEW d \in Deliveries, status'[d] = "PENDING"
                 PROVE  /\ attempts'[d] + 1 <= MaxAttempts + faults'
                        /\ \A q \in stalled' : task'[q][d] = "found" /\ seen'[q][d] = attempts'[d] =>
                              attempts'[d] + 2 <= MaxAttempts + faults'
      BY DEF Charged
    <3>1. ASSUME NEW q \in stalled', task[q][d] = "found", seen[q][d] = attempts[d]
          PROVE  attempts[d] + 2 <= MaxAttempts + faults + 1
      <4>1. CASE q \in stalled
        <5>1. attempts[d] + 2 <= MaxAttempts + faults
          BY <3>1, <4>1 DEF Charged
        <5> QED
          BY <2>5, <5>1, BoundsAssumption DEF OtherOK
      <4>2. CASE q = p
        <5>1. \A r \in Passes \ stalled : ~Current(r, d)
          BY <2>5, <3>1, <4>2 DEF Leased, Current, Mine, CallsOK
        <5>2. attempts[d] + 1 <= MaxAttempts + faults
          BY <5>1 DEF Charged
        <5> QED
          BY <2>5, <5>2, BoundsAssumption DEF OtherOK
      <4> QED
        BY <3>1, <4>1, <4>2
    <3> QED
      BY <2>5, <3>1, BoundsAssumption DEF OtherOK
  <2>9. Answered'
    BY DEF Answered, OtherOK
  <2> QED
    BY <2>1, <2>2, <2>4, <2>7, <2>8, <2>9 DEF Parts
<1>10. ASSUME NEW p \in Passes, NEW d \in Deliveries, Claim(p, d)
       PROVE  Parts'
  <2> USE <1>10 DEF Claim, Goto, switches, sweeping
  <2>1. /\ task[p][d] = "found" /\ status[d] = "PENDING" /\ attempts[d] = seen[p][d]
        /\ pc[p] = "working"
    BY DEF Unclaimed, Rest
  <2>2. \A q \in Passes, e \in Deliveries :
           task'[q][e] = IF q = p /\ e = d THEN "checking" ELSE task[q][e]
    BY DEF CallsOK
  <2>3. attempts \in [Deliveries -> Nat] /\ seen \in [Passes -> [Deliveries -> Nat]] /\ age \in [Passes -> Nat]
    BY BoundsAssumption DEF RowsOK, OtherOK, CallsOK
  <2>4. /\ attempts' \in [Deliveries -> Nat] /\ attempts'[d] = attempts[d] + 1
        /\ \A e \in Deliveries \ {d} : attempts'[e] = attempts[e]
    BY <2>1, <2>3 DEF Mine
  <2>5. \A q \in Passes \ stalled : ~Current(q, d)
    BY <2>1, <2>3 DEF Leased, Current, Mine
  <2>6. attempts[d] + 1 <= MaxAttempts + faults
    BY <2>1, <2>5 DEF Charged
  <2>7. CallsOK'
    <3>1. task' \in [Passes -> [Deliveries -> {"none", "found"} \cup Claimed]]
      BY DEF CallsOK, Claimed
    <3> QED
      BY <3>1 DEF CallsOK
  <2>8. PICK w \in -Margin .. Horizon : w = Later(Lease - age[p]) /\ w >= Lease - age[p]
    <3>1. Lease - age[p] \in Int /\ Lease - age[p] <= Lease
      BY <2>3, LeaseBounds
    <3>2. /\ Later(Lease - age[p]) \in Int /\ Later(Lease - age[p]) >= Lease - age[p]
          /\ Later(Lease - age[p]) >= -Margin
          /\ Later(Lease - age[p]) = Lease - age[p] \/ Later(Lease - age[p]) = -Margin
      BY <3>1, LaterIsCapped
    <3>3. Later(Lease - age[p]) <= Horizon
      BY <3>1, <3>2, LeaseBounds, BoundsAssumption
    <3> QED
      BY <3>2, <3>3, LeaseBounds, BoundsAssumption
  <2>9. /\ wait' \in [Deliveries -> -Margin .. Horizon] /\ wait'[d] >= Lease - age[p]
        /\ \A e \in Deliveries \ {d} : wait'[e] = wait[e]
    BY <2>8 DEF RowsOK
  <2>10. attempts' \in [Deliveries -> 0 .. MaxAttempts + faults]
    <3>1. attempts' = [attempts EXCEPT ![d] = attempts[d] + 1]
      BY <2>1 DEF Mine
    <3>2. attempts[d] + 1 \in 0 .. MaxAttempts + faults
      BY <2>3, <2>6, BoundsAssumption DEF OtherOK
    <3> QED
      BY <3>1, <3>2 DEF RowsOK
  <2>11. RowsOK' /\ OtherOK'
    BY <2>9, <2>10 DEF RowsOK, OtherOK, Settled
  <2>12. Rest'
    BY <2>1, <2>2 DEF Rest
  <2>13. Queued'
    BY <2>1, <2>4 DEF Queued
  <2>14. \A q \in Passes, e \in Deliveries :
            /\ Holds(q, e)' <=> (Holds(q, e) \/ (q = p /\ e = d))
            /\ Mine(q, e)' = Mine(q, e)
            /\ task'[q][e] = "found" => task[q][e] = "found" /\ (e = d => q # p)
            /\ ~Holds(p, d)
    BY <2>1, <2>2 DEF Holds, Mine, Claimed, Outcomes, CheckOutcomes, SendOutcomes
  <2>15. \A q \in Passes : Holds(q, d) => Mine(q, d) <= attempts[d] /\ Mine(q, d) \in Nat
    BY <2>3 DEF Reads, Mine
  <2>16. \A q \in Passes, e \in Deliveries :
            Current(q, e)' <=> (e # d /\ Current(q, e)) \/ (e = d /\ q = p)
    BY <2>1, <2>3, <2>4, <2>14, <2>15 DEF Current, Mine
  <2>17. Reads'
    <3> SUFFICES ASSUME NEW q \in Passes, NEW e \in Deliveries
                 PROVE  /\ task'[q][e] = "found" => seen'[q][e] <= attempts'[e]
                        /\ Holds(q, e)' => Mine(q, e)' <= attempts'[e]
                        /\ Current(q, e)' => status'[e] = "PENDING"
      BY DEF Reads
    <3>1. task'[q][e] = "found" => seen'[q][e] <= attempts'[e]
      BY <2>3, <2>4, <2>14 DEF Reads
    <3>2. Holds(q, e)' => Mine(q, e)' <= attempts'[e]
      BY <2>1, <2>3, <2>4, <2>14, <2>15 DEF Reads, Mine
    <3>3. Current(q, e)' => status'[e] = "PENDING"
      BY <2>1, <2>16 DEF Reads
    <3> QED
      BY <3>1, <3>2, <3>3
  <2>18. OneWinner'
    <3>1. \A q \in Passes : Holds(q, d) => seen[q][d] # seen[p][d]
      BY <2>1, <2>3, <2>15 DEF Mine
    <3> QED
      BY <2>14, <3>1 DEF OneWinner
  <2>19. InTime'
    <3>1. \A q \in Passes, e \in Deliveries :
             task'[q][e] # "none" => task[q][e] # "none" /\ Deadline(q, e) <= Deadline(q, e)'
      BY <2>1, <2>2, BoundsAssumption DEF Deadline
    <3>2. \A q \in Passes, e \in Deliveries : Deadline(q, e) \in Int /\ Deadline(q, e)' \in Int /\ age[q] \in Int
      BY <2>3, BoundsAssumption DEF Deadline
    <3> QED
      BY <3>1, <3>2 DEF InTime
  <2>20. Leased'
    <3> SUFFICES ASSUME NEW q \in Passes \ stalled, NEW e \in Deliveries, Holds(q, e)'
                 PROVE  /\ attempts'[e] = Mine(q, e)' /\ wait'[e] >= Lease - age[q]
                        /\ \A r \in Passes : task'[r][e] = "found" => seen[r][e] <= seen[q][e]
      BY DEF Leased
    <3>1. CASE e = d /\ q = p
      BY <2>1, <2>4, <2>9, <2>14, <3>1 DEF Reads, Mine
    <3>2. CASE ~(e = d /\ q = p)
      <4>1. Holds(q, e)
        BY <2>14, <3>2
      <4>2. e # d
        BY <2>5, <4>1 DEF Leased, Current
      <4> QED
        BY <2>4, <2>9, <2>14, <4>1, <4>2 DEF Leased
    <3> QED
      BY <3>1, <3>2
  <2>21. Charged'
    <3> SUFFICES ASSUME NEW e \in Deliveries, status'[e] = "PENDING"
                 PROVE  /\ \/ attempts'[e] + 1 <= MaxAttempts + faults'
                           \/ \E q \in Passes \ stalled' : Current(q, e)'
                        /\ \A q \in stalled' : task'[q][e] = "found" /\ seen'[q][e] = attempts'[e] =>
                              attempts'[e] + 2 <= MaxAttempts + faults'
      BY DEF Charged
    <3>1. CASE e # d
      BY <2>4, <2>14, <2>16, <3>1 DEF Charged, CallsOK
    <3>2. CASE e = d
      <4>1. \A q \in Passes : task'[q][d] = "found" => seen'[q][d] # attempts'[d]
        BY <2>3, <2>4, <2>14 DEF Reads
      <4>2. CASE p \in stalled
        <5>1. attempts[d] + 2 <= MaxAttempts + faults
          BY <2>1, <4>2 DEF Charged
        <5>2. attempts'[d] + 1 <= MaxAttempts + faults'
          BY <2>3, <2>4, <5>1, BoundsAssumption DEF OtherOK
        <5> QED
          BY <3>2, <4>1, <5>2 DEF CallsOK
      <4>3. CASE p \notin stalled
        BY <2>16, <3>2, <4>1, <4>3 DEF CallsOK
      <4> QED
        BY <4>2, <4>3
    <3> QED
      BY <3>1, <3>2
  <2>22. Answered'
    BY <2>1, <2>2 DEF Answered
  <2>23. Kept'
    BY KeptStays
  <2> QED
    BY <2>7, <2>11, <2>12, <2>13, <2>17, <2>18, <2>19, <2>20, <2>21, <2>22, <2>23 DEF Parts
<1>11. ASSUME NEW p \in Passes, NEW d \in Deliveries, ClaimLost(p, d)
       PROVE  Parts'
  <2> USE <1>11 DEF ClaimLost
  <2>1. /\ Quiets
        /\ \A q \in Passes, e \in Deliveries :
              task'[q][e] = IF q = p /\ e = d THEN "none" ELSE task[q][e]
    BY FinishQuiets
  <2>2. Reads' /\ OneWinner' /\ InTime' /\ Leased'
    BY <2>1, QuietsKeep DEF rows, Reads
  <2>3. \A q \in Passes, e \in Deliveries :
           /\ Holds(q, e) => task[q][e] # "none" /\ ~(q = p /\ e = d)
           /\ Holds(q, e) => Holds(q, e)'
    BY <2>1 DEF Holds, Claimed, Outcomes, CheckOutcomes, SendOutcomes
  <2>4. \A q \in Passes, e \in Deliveries :
           /\ Holds(q, e) => seen'[q][e] = seen[q][e] /\ (q \in stalled' <=> q \in stalled)
           /\ task'[q][e] = "found" => task[q][e] = "found" /\ seen'[q][e] = seen[q][e]
    BY <2>1, <2>3 DEF Quiets
  <2>5. Charged'
    BY <2>1, <2>3, <2>4, ChargedStays DEF rows, Current, Mine, Quiets
  <2>6. RowsOK' /\ OtherOK' /\ Queued'
    BY RowsStay DEF OtherOK, switches, sweeping
  <2>7. Answered'
    BY <2>1 DEF Answered, Quiets, rows
  <2>8. Kept'
    BY KeptStays DEF sweeping, rows
  <2> QED
    BY <2>1, <2>2, <2>5, <2>6, <2>7, <2>8 DEF Parts, Quiets
<1>12. ASSUME NEW p \in Passes, NEW d \in Deliveries, Check(p, d)
       PROVE  Parts'
  <2> USE <1>12 DEF Check
  <2>1. PICK step \in {"sending", "denied", "slow"} : Goto(p, d, step)
    OBVIOUS
  <2>2. Holds(p, d) /\ step \in Claimed \ {"checking"}
    BY DEF Holds, Claimed, Outcomes, CheckOutcomes, SendOutcomes
  <2>3. /\ CallsOK' /\ Rest' /\ Reads' /\ OneWinner' /\ InTime' /\ Leased'
        /\ \A q \in Passes, e \in Deliveries :
              task'[q][e] = IF q = p /\ e = d THEN step ELSE task[q][e]
        /\ \A q \in Passes, e \in Deliveries : Current(q, e)' <=> Current(q, e)
    BY <2>1, <2>2, GotoKeeps
  <2>4. UNCHANGED <<seen, stalled>>
    BY <2>1 DEF Goto
  <2>5. RowsOK' /\ OtherOK' /\ Queued'
    BY RowsStay DEF OtherOK, switches, sweeping
  <2>6. Charged'
    BY <2>3, <2>4, ChargedStays DEF rows
  <2>7. Answered'
    BY <2>3, <2>4 DEF Answered, rows
  <2>8. Kept'
    BY KeptStays DEF sweeping, rows
  <2> QED
    BY <2>3, <2>5, <2>6, <2>7, <2>8 DEF Parts
<1>13. ASSUME NEW p \in Passes, NEW d \in Deliveries, NEW step \in {"broken", "again"},
              Holds(p, d), Goto(p, d, step), faults < MaxFaults, faults' = faults + 1,
              UNCHANGED <<rows, switches, sweeping, accepted>>
       PROVE  Parts'
  <2> USE <1>13
  <2>1. step \in Claimed \ {"checking"}
    BY DEF Claimed, Outcomes, CheckOutcomes, SendOutcomes
  <2>2. /\ CallsOK' /\ Rest' /\ Reads' /\ OneWinner' /\ InTime' /\ Leased'
        /\ \A q \in Passes, e \in Deliveries :
              task'[q][e] = IF q = p /\ e = d THEN step ELSE task[q][e]
    BY <2>1, GotoKeeps
  <2>3. UNCHANGED <<seen, stalled>>
    BY DEF Goto
  <2>4. RowsOK' /\ Queued' /\ Charged' /\ Answered'
    BY <2>2, <2>3, FaultPays DEF CallsOK
  <2>5. OtherOK'
    BY FaultCounts DEF switches, sweeping, OtherOK
  <2>6. Kept'
    BY KeptStays DEF sweeping, rows
  <2> QED
    BY <2>2, <2>4, <2>5, <2>6 DEF Parts
<1>14. ASSUME NEW p \in Passes, NEW d \in Deliveries, CheckBreaks(p, d)
       PROVE  Parts'
  BY <1>13, <1>14 DEF CheckBreaks, Holds, Claimed, Outcomes, CheckOutcomes, SendOutcomes
<1>15. ASSUME NEW p \in Passes, NEW d \in Deliveries, RecordBreaks(p, d)
       PROVE  Parts'
  BY <1>13, <1>15 DEF RecordBreaks, Holds, Claimed, Outcomes, CheckOutcomes, SendOutcomes
<1>16. ASSUME NEW p \in Passes, NEW d \in Deliveries, Answer(p, d)
       PROVE  Parts'
  <2> USE <1>16 DEF Answer
  <2>1. PICK step \in SendOutcomes :
           /\ Goto(p, d, step)
           /\ IF step = "ok" THEN accepted' = [accepted EXCEPT ![d] = accepted[d] + 1]
              ELSE UNCHANGED accepted
    BY DEF SendOutcomes
  <2>2. Holds(p, d) /\ step \in Claimed \ {"checking"} /\ task[p][d] = "sending"
    BY DEF Holds, Claimed, Outcomes, CheckOutcomes, SendOutcomes
  <2>3. /\ CallsOK' /\ Rest' /\ Reads' /\ OneWinner' /\ InTime' /\ Leased'
        /\ \A q \in Passes, e \in Deliveries :
              task'[q][e] = IF q = p /\ e = d THEN step ELSE task[q][e]
        /\ \A q \in Passes, e \in Deliveries : Current(q, e)' <=> Current(q, e)
    BY <2>1, <2>2, GotoKeeps
  <2>4. UNCHANGED <<seen, stalled>>
    BY <2>1 DEF Goto
  <2>5. RowsOK' /\ Queued'
    BY RowsStay
  <2>6. accepted' \in [Deliveries -> Nat]
    BY <2>1 DEF OtherOK
  <2>7. OtherOK'
    <3>1. UNCHANGED <<enabled, on, toggles, settles, sweeps, cutoffs, faults>>
      BY DEF switches, sweeping
    <3> QED
      BY <2>6, <3>1 DEF OtherOK
  <2>8. Charged'
    <3>1. UNCHANGED <<status, attempts, faults>>
      BY DEF rows
    <3> QED
      BY <2>3, <2>4, <3>1, ChargedStays DEF SendOutcomes
  <2>9. faults = 0 => accepted[d] = 0
    <3> SUFFICES ASSUME faults = 0, accepted[d] # 0 PROVE FALSE
      OBVIOUS
    <3>1. accepted[d] > 0 /\ stalled = {}
      BY DEF OtherOK, Answered
    <3>2. status[d] = "PENDING" /\ attempts[d] = Mine(p, d)
      BY <2>2, <3>1 DEF Leased, Reads, Current
    <3>3. PICK q \in Passes : task[q][d] = "ok"
      BY <3>1, <3>2 DEF Answered
    <3>4. Holds(q, d)
      BY <3>3 DEF Holds, Claimed, Outcomes, CheckOutcomes, SendOutcomes
    <3>5. seen[q][d] = seen[p][d]
      BY <3>1, <3>2, <3>4, SameClaim DEF Leased
    <3> QED
      BY <2>2, <3>3, <3>4, <3>5 DEF OneWinner
  <2>10. Answered'
    <3>1. CASE step = "ok"
      <4>1. \A e \in Deliveries : accepted'[e] = IF e = d THEN accepted[d] + 1 ELSE accepted[e]
        BY <2>1, <3>1 DEF OtherOK
      <4> QED
        BY <2>2, <2>3, <2>4, <2>9, <3>1, <4>1 DEF Answered, rows
    <3>2. CASE step # "ok"
      BY <2>1, <2>2, <2>3, <2>4, <3>2 DEF Answered, rows
    <3> QED
      BY <3>1, <3>2
  <2>11. Kept'
    BY KeptStays DEF sweeping, rows
  <2> QED
    BY <2>3, <2>5, <2>7, <2>8, <2>10, <2>11 DEF Parts
<1>17. ASSUME NEW p \in Passes, NEW d \in Deliveries, AttemptDies(p, d)
       PROVE  Parts'
  <2> USE <1>17 DEF AttemptDies
  <2>1. /\ Quiets
        /\ \A q \in Passes, e \in Deliveries :
              task'[q][e] = IF q = p /\ e = d THEN "none" ELSE task[q][e]
    BY FinishQuiets DEF CheckOutcomes
  <2>2. Reads' /\ OneWinner' /\ InTime' /\ Leased'
    BY <2>1, QuietsKeep DEF rows, Reads
  <2>3. RowsOK' /\ Queued' /\ Charged' /\ Answered'
    <3>1. stalled \subseteq Passes /\ stalled' \subseteq stalled
      BY <2>1 DEF Quiets, CallsOK
    <3>2. \A q \in Passes, e \in Deliveries :
             task'[q][e] = "found" => task[q][e] = "found" /\ seen'[q][e] = seen[q][e]
      BY <2>1 DEF Quiets
    <3> QED
      BY <3>1, <3>2, FaultPays
  <2>4. OtherOK'
    BY FaultCounts DEF switches, sweeping, OtherOK
  <2>5. Kept'
    BY KeptStays DEF sweeping, rows
  <2> QED
    BY <2>1, <2>2, <2>3, <2>4, <2>5 DEF Parts, Quiets
<1>18. ASSUME SweepRead
       PROVE  Parts'
  <2> USE <1>18 DEF SweepRead
  <2>1. CallsOK' /\ Rest' /\ OneWinner' /\ InTime' /\ Leased'
    BY CallsStay DEF rows
  <2>2. OtherOK'
    <3>1. sweeps' \in Nat
      BY DEF OtherOK
    <3>2. cutoffs' \subseteq Deliveries
      BY DEF OtherOK, SettledRows
    <3> QED
      BY <3>1, <3>2 DEF OtherOK, switches
  <2>3. RowsOK' /\ Queued'
    BY RowsStay
  <2>4. Reads' /\ Charged' /\ Answered'
    BY DEF Reads, Charged, Answered, Current, Holds, Mine, calls, rows
  <2>5. ASSUME NEW c \in SettledRows, Cardinality(Newer(c, SettledRows)) = MaxRecords - 1
        PROVE  status[c] # "none" /\ Cardinality(NoOlder(c)) >= MaxRecords
    <3> DEFINE N == Newer(c, SettledRows)
    <3>1. created \in [Deliveries -> Int] /\ c \in Deliveries
      BY DeliveriesAssumption, FS_CardinalityType DEF RowsOK, SettledRows
    <3>2. N \subseteq Deliveries /\ c \notin N /\ N \cup {c} \subseteq NoOlder(c) /\ NoOlder(c) \subseteq Deliveries
      BY <2>5, <3>1 DEF Newer, SettledRows, NoOlder
    <3>3. IsFiniteSet(N) /\ IsFiniteSet(NoOlder(c))
      BY <3>2, DeliveriesAssumption, FS_Subset
    <3>4. Cardinality(N \cup {c}) = Cardinality(N) + 1
      BY <3>2, <3>3, FS_AddElement
    <3>5. Cardinality(N \cup {c}) <= Cardinality(NoOlder(c)) /\ Cardinality(NoOlder(c)) \in Nat
      BY <3>2, <3>3, FS_Subset, FS_CardinalityType
    <3>6. Cardinality(N) = MaxRecords - 1
      BY <2>5
    <3> HIDE DEF N
    <3> QED
      BY <2>5, <3>4, <3>5, <3>6, BoundsAssumption DEF SettledRows, Settled
  <2>6. Kept'
    <3>1. \A c \in cutoffs' : status[c] # "none" /\ Cardinality(NoOlder(c)) >= MaxRecords
      BY <2>5 DEF Kept
    <3>2. \A c : NoOlder(c)' = NoOlder(c)
      BY DEF NoOlder, rows, Settled
    <3> QED
      BY <3>1, <3>2 DEF Kept, rows
  <2> QED
    BY <2>1, <2>2, <2>3, <2>4, <2>6 DEF Parts
<1>19. ASSUME SweepFails
       PROVE  Parts'
  <2> USE <1>19 DEF SweepFails
  <2>1. CallsOK' /\ Rest' /\ OneWinner' /\ InTime' /\ Leased'
    BY CallsStay DEF rows
  <2>2. sweeps' \in Nat
    BY DEF OtherOK
  <2>3. OtherOK'
    BY <2>2, FaultCounts DEF switches, OtherOK
  <2>4. Reads'
    BY DEF Reads, Current, Holds, Mine, calls, rows
  <2>5. RowsOK' /\ Queued' /\ Charged' /\ Answered'
    BY FaultPays DEF calls, CallsOK
  <2>6. Kept'
    BY KeptStays DEF rows
  <2> QED
    BY <2>1, <2>3, <2>4, <2>5, <2>6 DEF Parts
<1>20. ASSUME NEW p \in Passes, NEW d \in Deliveries, Record(p, d)
       PROVE  Parts'
  <2> USE <1>20 DEF Record
  <2>1. Holds(p, d)
    BY DEF Holds, Claimed
  <2>2. /\ Quiets
        /\ \A q \in Passes, e \in Deliveries :
              task'[q][e] = IF q = p /\ e = d THEN "none" ELSE task[q][e]
    BY <2>1, FinishQuiets DEF Holds, Claimed, Outcomes, CheckOutcomes, SendOutcomes
  <2>3. \A q \in Passes, e \in Deliveries :
           /\ Holds(q, e) => task[q][e] # "none"
           /\ Holds(q, e) /\ ~(q = p /\ e = d) =>
                 Holds(q, e)' /\ seen'[q][e] = seen[q][e] /\ (q \in stalled' <=> q \in stalled)
    <3>1. \A q \in Passes, e \in Deliveries : Holds(q, e) => task[q][e] # "none"
      BY DEF Holds, Claimed, Outcomes, CheckOutcomes, SendOutcomes
    <3>2. \A q \in Passes, e \in Deliveries :
             Holds(q, e) /\ ~(q = p /\ e = d) => Holds(q, e)' /\ task'[q][e] # "none"
      BY <2>2, <3>1 DEF Holds, Claimed, Outcomes, CheckOutcomes, SendOutcomes
    <3> QED
      BY <2>2, <3>1, <3>2 DEF Quiets
  <2>4. \A q \in Passes, e \in Deliveries :
           task'[q][e] = "found" => task[q][e] = "found" /\ seen'[q][e] = seen[q][e]
    BY <2>2 DEF Quiets
  <2>5. \A q \in Passes : Current(q, d) /\ Current(p, d) => q = p
    BY SameClaim DEF Current, OneWinner
  <2>6. /\ StillMine(p, d) => Current(p, d) /\ status[d] = "PENDING"
        /\ Current(p, d) => StillMine(p, d)
    BY <2>1 DEF StillMine, Current, Reads
  <2>7. /\ attempts' = attempts /\ created' = created /\ cutoffs' = cutoffs
        /\ \A e \in Deliveries \ {d} : status'[e] = status[e] /\ wait'[e] = wait[e]
        /\ ~StillMine(p, d) => status' = status /\ wait' = wait
        /\ StillMine(p, d) =>
              \/ /\ wait' = wait
                 /\ \/ task[p][d] = "ok" /\ status'[d] = "DELIVERED"
                    \/ task[p][d] # "ok" /\ status'[d] = "FAILED"
              \/ /\ task[p][d] # "ok" /\ Mine(p, d) < MaxAttempts /\ status' = status
    <3>1. CASE ~StillMine(p, d)
      BY <3>1 DEF RecordOutcome, rows, sweeping
    <3>2. CASE StillMine(p, d) /\ task[p][d] = "ok"
      BY <3>2 DEF RecordOutcome, Settle, CountSettle, RowsOK
    <3>3. CASE StillMine(p, d) /\ task[p][d] # "ok" /\ GivesUp(p, d)
      BY <3>3 DEF RecordOutcome, Settle, CountSettle, RowsOK
    <3>4. CASE StillMine(p, d) /\ task[p][d] # "ok" /\ ~GivesUp(p, d)
      <4>1. Mine(p, d) < MaxAttempts
        BY <3>4, BoundsAssumption DEF GivesUp, Mine, CallsOK
      <4> QED
        BY <3>4, <4>1 DEF RecordOutcome, sweeping, RowsOK
    <3> QED
      BY <3>1, <3>2, <3>3, <3>4
  <2>8. Reads' /\ OneWinner' /\ InTime' /\ Leased'
    <3>1. ASSUME NEW q \in Passes, NEW e \in Deliveries, Current(q, e), task'[q][e] # "none"
          PROVE  status'[e] = "PENDING" /\ wait'[e] = wait[e]
      <4>1. status[e] = "PENDING" /\ ~(q = p /\ e = d)
        BY <2>2, <3>1 DEF Reads
      <4>2. CASE e # d
        BY <2>7, <4>1, <4>2
      <4>3. CASE e = d
        BY <2>5, <2>6, <2>7, <3>1, <4>1, <4>3
      <4> QED
        BY <4>2, <4>3
    <3> QED
      BY <2>2, <2>7, <3>1, QuietsKeep
  <2>9. wait' \in [Deliveries -> -Margin .. Horizon]
    <3>1. CASE wait' = wait
      BY <3>1 DEF RowsOK
    <3>2. CASE wait' # wait
      <4>1. wait' = [wait EXCEPT ![d] = Later(RetryWait(Mine(p, d)) - age[p])]
        BY <3>2 DEF RecordOutcome, Settle, rows
      <4>2. Mine(p, d) \in Nat \ {0} /\ age[p] \in Nat
        BY DEF Mine, CallsOK
      <4>3. PICK r \in 0 .. MaxWait : r = RetryWait(Mine(p, d))
        BY <4>2, RetryWaitIsBounded
      <4>4. r - age[p] \in Int /\ r - age[p] <= MaxWait
        BY <4>2, BoundsAssumption
      <4>5. /\ Later(r - age[p]) \in Int /\ Later(r - age[p]) >= -Margin
            /\ Later(r - age[p]) = r - age[p] \/ Later(r - age[p]) = -Margin
        BY <4>4, LaterIsCapped
      <4>6. Later(r - age[p]) \in -Margin .. Horizon
        BY <4>4, <4>5, LeaseBounds, BoundsAssumption
      <4> QED
        BY <4>1, <4>3, <4>6 DEF RowsOK
    <3> QED
      BY <3>1, <3>2
  <2>10. status' \in [Deliveries -> {"none", "PENDING", "swept"} \cup Settled]
    BY DEF RecordOutcome, Settle, rows, RowsOK, Settled
  <2>11. RowsOK'
    BY <2>7, <2>9, <2>10 DEF RowsOK
  <2>12. OtherOK'
    <3>1. settles' \in 0 .. SweepEvery - 1 /\ sweeps' \in Nat
      <4>1. CASE UNCHANGED sweeping
        BY <4>1 DEF OtherOK, sweeping
      <4>2. CASE CountSettle
        <5>1. settles + 1 \in Int /\ SweepEvery \in Nat \ {0}
          BY BoundsAssumption DEF OtherOK
        <5>2. (settles + 1) % SweepEvery \in 0 .. SweepEvery - 1
          BY <5>1
        <5> QED
          BY <4>2, <5>2 DEF CountSettle, OtherOK
      <4> QED
        BY <4>1, <4>2 DEF RecordOutcome, Settle
    <3> QED
      BY <2>7, <3>1 DEF OtherOK, switches
  <2>13. Rest' /\ CallsOK'
    BY <2>2 DEF Quiets
  <2>14. Queued'
    BY <2>6, <2>7 DEF Queued
  <2>15. Charged'
    <3> SUFFICES ASSUME NEW e \in Deliveries, status'[e] = "PENDING"
                 PROVE  /\ \/ attempts'[e] + 1 <= MaxAttempts + faults'
                           \/ \E q \in Passes \ stalled' : Current(q, e)'
                        /\ \A q \in stalled' : task'[q][e] = "found" /\ seen'[q][e] = attempts'[e] =>
                              attempts'[e] + 2 <= MaxAttempts + faults'
      BY DEF Charged
    <3>1. status[e] = "PENDING"
      BY <2>6, <2>7
    <3>2. /\ \/ attempts[e] + 1 <= MaxAttempts + faults
             \/ \E q \in Passes \ stalled : Current(q, e)
          /\ \A q \in stalled : task[q][e] = "found" /\ seen[q][e] = attempts[e] =>
                attempts[e] + 2 <= MaxAttempts + faults
      BY <3>1 DEF Charged
    <3>3. \A q \in stalled' : task'[q][e] = "found" /\ seen'[q][e] = attempts'[e] =>
             attempts'[e] + 2 <= MaxAttempts + faults'
      BY <2>2, <2>4, <2>7, <3>2 DEF Quiets, CallsOK
    <3>4. CASE \E q \in Passes \ stalled : Current(q, e) /\ ~(q = p /\ e = d)
      <4>1. PICK q \in Passes \ stalled : Current(q, e) /\ ~(q = p /\ e = d)
        BY <3>4
      <4>2. Current(q, e)' /\ q \notin stalled'
        BY <2>3, <2>7, <4>1 DEF Current, Mine
      <4> QED
        BY <3>3, <4>2
    <3>5. CASE attempts[e] + 1 <= MaxAttempts + faults
      BY <2>7, <3>3, <3>5
    <3>6. CASE e = d /\ Current(p, d)
      <4>1. Mine(p, d) < MaxAttempts /\ attempts[d] = Mine(p, d)
        BY <2>6, <2>7, <3>1, <3>6 DEF Current
      <4>2. attempts[d] + 1 <= MaxAttempts + faults
        BY <4>1, BoundsAssumption DEF OtherOK, RowsOK, Mine, CallsOK
      <4> QED
        BY <2>7, <3>3, <3>6, <4>2
    <3> QED
      BY <3>2, <3>4, <3>5, <3>6
  <2>16. Answered'
    <3> SUFFICES ASSUME faults = 0
                 PROVE  /\ stalled' = {}
                        /\ \A e \in Deliveries :
                              accepted[e] > 0 =>
                                  /\ accepted[e] = 1
                                  /\ \/ status'[e] \in {"DELIVERED", "swept"}
                                     \/ \E q \in Passes : task'[q][e] = "ok"
      BY DEF Answered
    <3>1. stalled = {} /\ stalled' = {}
      BY <2>2 DEF Answered, Quiets
    <3>2. Current(p, d) /\ StillMine(p, d) /\ status[d] = "PENDING"
      BY <2>1, <2>6, <3>1 DEF Leased, Current
    <3>3. ASSUME NEW e \in Deliveries, accepted[e] > 0
          PROVE  /\ accepted[e] = 1
                 /\ \/ status'[e] \in {"DELIVERED", "swept"}
                    \/ \E q \in Passes : task'[q][e] = "ok"
      <4>1. /\ accepted[e] = 1
            /\ \/ status[e] \in {"DELIVERED", "swept"}
               \/ \E q \in Passes : task[q][e] = "ok"
        BY <3>3 DEF Answered
      <4>2. CASE e # d
        BY <2>2, <2>7, <4>1, <4>2
      <4>3. CASE e = d
        <5>1. PICK q \in Passes : task[q][d] = "ok"
          BY <3>2, <4>1, <4>3
        <5>2. Holds(q, d)
          BY <5>1 DEF Holds, Claimed, Outcomes, CheckOutcomes, SendOutcomes
        <5>3. q = p
          BY <2>5, <3>1, <3>2, <5>2 DEF Leased, Current
        <5> QED
          BY <2>7, <3>2, <4>1, <4>3, <5>1, <5>3
      <4> QED
        BY <4>2, <4>3
    <3> QED
      BY <3>1, <3>3
  <2>17. Kept'
    BY <2>6, <2>7, KeptStays DEF Settled
  <2> QED
    BY <2>8, <2>11, <2>12, <2>13, <2>14, <2>15, <2>16, <2>17 DEF Parts
<1>21. ASSUME Tick
       PROVE  Parts'
  <2> USE <1>21 DEF Tick, switches, sweeping
  <2>1. \A q \in Passes : age'[q] \in Nat /\ (pc[q] = "idle" => age'[q] = 0) /\ age'[q] <= age[q] + 1
    <3> TAKE q \in Passes
    <3>1. age[q] + 1 \in Int /\ MaxAge \in Int /\ age[q] \in Nat /\ MaxAge \in Nat
      BY LeaseBounds DEF CallsOK
    <3>2. /\ Min({age[q] + 1, MaxAge}) \in {age[q] + 1, MaxAge}
          /\ Min({age[q] + 1, MaxAge}) <= age[q] + 1
      BY <3>1, MinOfTwo
    <3> QED
      BY <3>1, <3>2
  <2>2. CallsOK'
    BY <2>1 DEF CallsOK
  <2>3. \A d \in Deliveries :
           /\ wait'[d] \in -Margin .. Horizon
           /\ status[d] = "PENDING" => wait'[d] >= wait[d] - 1
    <3> TAKE d \in Deliveries
    <3>1. wait[d] \in Int /\ wait[d] - 1 \in Int /\ wait[d] \in -Margin .. Horizon
      BY LeaseBounds, BoundsAssumption DEF RowsOK
    <3>2. /\ Later(wait[d] - 1) \in Int /\ Later(wait[d] - 1) >= wait[d] - 1
          /\ Later(wait[d] - 1) >= -Margin
          /\ Later(wait[d] - 1) = wait[d] - 1 \/ Later(wait[d] - 1) = -Margin
      BY <3>1, LaterIsCapped
    <3>3. Later(wait[d] - 1) \in -Margin .. Horizon
      BY <3>1, <3>2, LeaseBounds, BoundsAssumption
    <3> QED
      BY <3>1, <3>2, <3>3
  <2>4. RowsOK'
    <3>1. wait' \in [Deliveries -> -Margin .. Horizon]
      BY <2>3
    <3> QED
      BY <3>1 DEF RowsOK, Settled
  <2>5. OtherOK' /\ Queued' /\ Kept'
    BY KeptStays DEF OtherOK, Queued
  <2>6. Rest'
    BY <2>1 DEF Rest
  <2>7. \A q \in Passes, e \in Deliveries :
           /\ Holds(q, e)' <=> Holds(q, e)
           /\ Mine(q, e)' = Mine(q, e) /\ Deadline(q, e)' = Deadline(q, e)
           /\ Current(q, e)' <=> Current(q, e)
    BY DEF Holds, Mine, Current, Deadline, Claimed, Outcomes, CheckOutcomes, SendOutcomes
  <2>8. Reads' /\ OneWinner' /\ Charged' /\ Answered'
    BY <2>7 DEF Reads, OneWinner, Charged, Answered
  <2>9. InTime'
    <3> SUFFICES ASSUME NEW q \in Passes \ stalled
                 PROVE  /\ pc[q] = "reading" => age'[q] < Margin
                        /\ \A e \in Deliveries : task[q][e] # "none" => age'[q] < Deadline(q, e)
      BY <2>7 DEF InTime
    <3>1. /\ pc[q] = "reading" => age[q] + 1 < Margin
          /\ \A e \in Deliveries : task[q][e] # "none" => age[q] + 1 < Deadline(q, e)
      BY DEF Prompt
    <3>2. age[q] \in Nat /\ Margin \in Int /\ \A e \in Deliveries : Deadline(q, e) \in Int
      BY BoundsAssumption DEF CallsOK, Deadline
    <3> QED
      BY <2>1, <3>1, <3>2
  <2>10. Leased'
    <3> SUFFICES ASSUME NEW q \in Passes \ stalled, NEW e \in Deliveries, Holds(q, e)
                 PROVE  /\ attempts[e] = Mine(q, e) /\ wait'[e] >= Lease - age'[q]
                        /\ \A r \in Passes : task[r][e] = "found" => seen[r][e] <= seen[q][e]
      BY <2>7 DEF Leased
    <3>1. /\ attempts[e] = Mine(q, e) /\ wait[e] >= Lease - age[q]
          /\ \A r \in Passes : task[r][e] = "found" => seen[r][e] <= seen[q][e]
      BY DEF Leased
    <3>2. status[e] = "PENDING"
      BY <3>1 DEF Reads, Current
    <3>3. task[q][e] # "none" /\ task[q][e] # "found" /\ pc[q] = "working"
      BY DEF Rest, Holds, Claimed, Outcomes, CheckOutcomes, SendOutcomes
    <3>4. age[q] + 1 < Deadline(q, e)
      BY <3>3 DEF Prompt
    <3>5. age[q] \in Nat /\ Deadline(q, e) \in Int /\ Deadline(q, e) <= Lease
      BY <3>3, LeaseBounds, BoundsAssumption DEF Deadline, CallsOK
    <3>6. age'[q] = age[q] + 1
      <4>1. age'[q] = Min({age[q] + 1, MaxAge})
        BY <3>3
      <4>2. PICK n \in Int : n = age[q] + 1
        BY <3>5
      <4>3. MaxAge \in Int /\ n < MaxAge
        BY <3>4, <3>5, <4>2, LeaseBounds
      <4>4. Min({n, MaxAge}) \in {n, MaxAge} /\ Min({n, MaxAge}) <= n
        BY <4>3, MinOfTwo
      <4>5. Min({n, MaxAge}) = n
        BY <4>3, <4>4
      <4> QED
        BY <4>1, <4>2, <4>5
    <3>7. wait[e] \in Int /\ wait'[e] \in Int
      BY <2>3, LeaseBounds, BoundsAssumption DEF RowsOK
    <3> QED
      BY <2>3, <3>1, <3>2, <3>5, <3>6, <3>7, LeaseBounds
  <2> QED
    BY <2>2, <2>4, <2>5, <2>6, <2>8, <2>9, <2>10 DEF Parts
<1>22. ASSUME Crash
       PROVE  Parts'
  <2> USE <1>22 DEF Crash
  <2>1. CallsOK' /\ Rest' /\ \A q \in Passes, e \in Deliveries : task'[q][e] = "none" /\ ~Holds(q, e)'
    BY DEF CallsOK, Rest, Holds, Claimed, Outcomes, CheckOutcomes, SendOutcomes
  <2>2. Reads' /\ OneWinner' /\ InTime' /\ Leased'
    BY <2>1 DEF Reads, OneWinner, InTime, Leased, Current
  <2>3. RowsOK' /\ Queued' /\ Charged' /\ Answered'
    BY <2>1, FaultPays DEF CallsOK
  <2>4. OtherOK'
    BY FaultCounts DEF switches
  <2>5. Kept'
    BY DEF Kept
  <2> QED
    BY <2>1, <2>2, <2>3, <2>4, <2>5 DEF Parts
<1>23. ASSUME UNCHANGED vars
       PROVE  Parts'
  <2>1. OtherOK'
    BY <1>23 DEF OtherOK, vars, switches, sweeping
  <2> QED
    BY <1>2, <1>23, <2>1 DEF vars, sweeping
<1> QED
  BY <1>1, <1>3, <1>4, <1>5, <1>6, <1>7, <1>8, <1>9, <1>10, <1>11, <1>12, <1>14, <1>15, <1>16,
     <1>17, <1>18, <1>19, <1>20, <1>21, <1>22, <1>23 DEF Next, Attempt

\* What the invariant says of the queue stays true, whatever passes overlap.
THEOREM DeliveriesStaySound == Spec => []DeliveryInv
<1> QED
  BY DeliveryInitInv, DeliveryNextInv, PTL DEF Spec

\* Overlapping passes never work on one delivery together while none outlives the
\* worst case its lease is computed for; and without a fault a delivery the receiver
\* accepted is neither sent again nor given up on (deliverDue, processDelivery).
THEOREM AttemptsAlwaysTakeTurns == Spec => []AttemptsTakeTurns
<1>1. ASSUME DeliveryInv PROVE OneAttemptAtATime
  <2>0. Parts
    BY <1>1, PartsOfInv
  <2> SUFFICES ASSUME stalled = {}, NEW d \in Deliveries, NEW p \in Passes, NEW q \in Passes,
                      Holds(p, d), Holds(q, d)
               PROVE  p = q
    BY DEF OneAttemptAtATime, Holds
  <2>1. attempts[d] = Mine(p, d) /\ attempts[d] = Mine(q, d)
    BY <2>0 DEF Parts, Leased
  <2>2. seen[p][d] = seen[q][d]
    BY <2>0, <2>1, SameClaim DEF Parts
  <2> QED
    BY <2>0, <2>2 DEF Parts, OneWinner
<1>2. ASSUME DeliveryInv PROVE AcceptedOnce
  <2>0. Parts
    BY <1>2, PartsOfInv
  <2> SUFFICES ASSUME faults = 0, NEW d \in Deliveries, accepted[d] > 0
               PROVE  accepted[d] = 1 /\ status[d] # "FAILED"
    BY DEF AcceptedOnce, Undisturbed
  <2>1. /\ accepted[d] = 1 /\ stalled = {}
        /\ status[d] \in {"DELIVERED", "swept"} \/ \E p \in Passes : task[p][d] = "ok"
    BY <2>0 DEF Parts, Answered
  <2>2. ASSUME NEW p \in Passes, task[p][d] = "ok" PROVE status[d] = "PENDING"
    <3>1. Holds(p, d)
      BY <2>2 DEF Holds, Claimed, Outcomes, CheckOutcomes, SendOutcomes
    <3> QED
      BY <2>0, <2>1, <3>1 DEF Parts, Leased, Reads, Current
  <2> QED
    BY <2>1, <2>2
<1> QED
  BY <1>1, <1>2, DeliveriesStaySound, PTL DEF AttemptsTakeTurns

\* A settled row keeps its outcome until retention removes it: an attempt that lost
\* its row records nothing over it (the guard on attempts in recordFailure and the
\* update after a 2xx).
THEOREM OutcomesStand == Spec => OutcomeStands
<1>1. ASSUME DeliveryInv, [Next]_vars
      PROVE  [\A d \in Deliveries :
                 status[d] \in Settled => status'[d] \in {status[d], "swept"}]_vars
  <2>0. Parts
    BY <1>1, PartsOfInv
  <2> SUFFICES ASSUME NEW d \in Deliveries, status[d] \in Settled
               PROVE  status'[d] \in {status[d], "swept"}
    OBVIOUS
  <2>1. CASE status' = status
    BY <2>1
  <2>2. ASSUME NEW e \in Deliveries, Queue(e)
        PROVE  status'[d] \in {status[d], "swept"}
    BY <2>0, <2>2 DEF Queue, Parts, RowsOK, Settled
  <2>3. ASSUME NEW c \in Deliveries, SweepDelete(c)
        PROVE  status'[d] \in {status[d], "swept"}
    BY <2>3 DEF SweepDelete
  <2>4. ASSUME NEW p \in Passes, NEW e \in Deliveries, Record(p, e)
        PROVE  status'[d] \in {status[d], "swept"}
    <3>1. CASE ~StillMine(p, e) \/ e # d
      BY <2>0, <2>4, <3>1 DEF Record, RecordOutcome, Settle, Parts, RowsOK, rows
    <3>2. CASE StillMine(p, e) /\ e = d
      <4>1. Current(p, d)
        BY <2>4, <3>2 DEF Record, StillMine, Current, Holds, Claimed
      <4> QED
        BY <2>0, <4>1 DEF Parts, Reads, Settled
    <3> QED
      BY <3>1, <3>2
  <2> QED
    BY <1>1, <2>1, <2>2, <2>3, <2>4 DEF Next, vars, rows, Attempt, ToggleWebhook, ToggleAll, Begin, ReadDue,
       PassFails, Stall, Claim, ClaimLost, Check, Answer, CheckBreaks, RecordBreaks, AttemptDies,
       SweepRead, SweepFails, Tick, Crash
<1> QED
  BY <1>1, DeliveriesStaySound, PTL DEF Spec, OutcomeStands

\* sweepDeliveriesNow removes settled rows only, and of those never one of the
\* MaxRecords newest, whatever settles between its two statements.
THEOREM SweepsKeepNewest == Spec => SweepKeepsNewest
<1> DEFINE Keeps == \A d \in Deliveries :
                       status'[d] = "swept" /\ status[d] # "swept" =>
                           /\ status[d] \in Settled
                           /\ Cardinality({e \in Deliveries :
                                 status'[e] \in Settled /\ created[e] > created[d]}) >= MaxRecords
<1>1. ASSUME DeliveryInv, [Next]_vars
      PROVE  [Keeps]_vars
  <2>0. Parts
    BY <1>1, PartsOfInv
  <2>1. ASSUME NEW c \in Deliveries, SweepDelete(c)
        PROVE  Keeps
    <3> SUFFICES ASSUME NEW d \in Deliveries, status'[d] = "swept", status[d] # "swept"
                 PROVE  /\ status[d] \in Settled
                        /\ Cardinality({e \in Deliveries :
                              status'[e] \in Settled /\ created[e] > created[d]}) >= MaxRecords
      OBVIOUS
    <3> DEFINE S == {e \in Deliveries : status'[e] \in Settled /\ created[e] > created[d]}
    <3>1. status[d] \in Settled /\ created[d] < created[c] /\ c \in cutoffs
      BY <2>1 DEF SweepDelete, Older, SettledRows
    <3>2. created \in [Deliveries -> Int]
      BY <2>0, DeliveriesAssumption, FS_CardinalityType DEF Parts, RowsOK
    <3>3. NoOlder(c) \subseteq S /\ S \subseteq Deliveries
      BY <2>1, <3>1, <3>2 DEF NoOlder, SweepDelete, Older, SettledRows
    <3>4. IsFiniteSet(S)
      BY <3>3, DeliveriesAssumption, FS_Subset
    <3>5. Cardinality(NoOlder(c)) <= Cardinality(S) /\ Cardinality(S) \in Nat /\ Cardinality(NoOlder(c)) \in Nat
      BY <3>3, <3>4, FS_Subset, FS_CardinalityType
    <3>6. Cardinality(NoOlder(c)) >= MaxRecords
      BY <2>0, <3>1 DEF Parts, Kept
    <3>7. Cardinality(S) >= MaxRecords
      <4> HIDE DEF S
      <4> QED
        BY <3>5, <3>6, BoundsAssumption
    <3> QED
      BY <3>1, <3>7
  <2>2. ASSUME NEW e \in Deliveries, Queue(e)
        PROVE  Keeps
    BY <2>0, <2>2 DEF Queue, Parts, RowsOK
  <2>3. ASSUME NEW p \in Passes, NEW e \in Deliveries, Record(p, e)
        PROVE  Keeps
    <3>1. \A d \in Deliveries : status'[d] \in {status[d], "DELIVERED", "FAILED"}
      BY <2>0, <2>3 DEF Record, RecordOutcome, Settle, Parts, RowsOK, rows
    <3> QED
      BY <3>1
  <2>4. CASE status' = status
    BY <2>4
  <2>5. \/ \E e \in Deliveries : Queue(e) \/ SweepDelete(e)
        \/ \E p \in Passes, e \in Deliveries : Record(p, e)
        \/ status' = status
    BY <1>1 DEF Next, vars, rows, Attempt, ToggleWebhook, ToggleAll, Begin, ReadDue, PassFails, Stall,
       Claim, ClaimLost, Check, Answer, CheckBreaks, RecordBreaks, AttemptDies, SweepRead, SweepFails,
       Tick, Crash
  <2> HIDE DEF Keeps
  <2> QED
    BY <2>1, <2>2, <2>3, <2>4, <2>5
<1> QED
  BY <1>1, DeliveriesStaySound, PTL DEF Spec, SweepKeepsNewest
=============================================================================
