------------------------- MODULE AuditRecordProofs -------------------------
(***************************************************************************)
(* Proofs about AuditRecord, for any number of appends and deletions on     *)
(* their way at once: no event is lost, filed twice or out of its chain,    *)
(* whatever crashes or file operations fail, and nothing ever makes the     *)
(* sweeps stop; a verification nothing overlaps says nothing false; the     *)
(* epoch passes only events that are gone.                                  *)
(*                                                                         *)
(* What makes it inductive is time and order.  An append carries a moment   *)
(* at most one month old, so no row is older than a month due for filing    *)
(* once a newer one is in the table; hence what a sweep takes is a prefix   *)
(* of the table, the archives hold intervals of seqs in the order of their  *)
(* months, and the anchor is the last row that left the table.              *)
(***************************************************************************)
EXTENDS AuditRecord, SequenceTheorems, WellFoundedInduction, TLAPS

(* Numbers *)

\* A set of numbers that is not empty has a least member.
LEMMA LeastMember ==
    ASSUME NEW S \in SUBSET Nat, S # {}
    PROVE  Min(S) \in S /\ \A x \in S : Min(S) <= x
<1> DEFINE R == {p \in Nat \X Nat : p[1] < p[2]}
<1>1. IsWellFoundedOn(R, Nat)
  BY NatLessThanWellFounded DEF OpToRel
<1>2. PICK x \in S : \A y \in S : <<y, x>> \notin R
  <2> HIDE DEF R
  <2> QED
    BY <1>1, WFMin
<1>3. ASSUME NEW y \in S PROVE x <= y
  <2>1. x \in Nat /\ y \in Nat /\ <<y, x>> \in Nat \X Nat
    OBVIOUS
  <2>2. ~(y < x)
    BY <1>2, <2>1
  <2> QED
    BY <2>1, <2>2
<1> QED
  BY <1>3 DEF Min

\* A set of numbers that is bounded and not empty has a greatest member.
LEMMA GreatestMember ==
    ASSUME NEW S \in SUBSET Nat, S # {}, NEW b \in Nat, \A x \in S : x <= b
    PROVE  Max(S) \in S /\ \A x \in S : x <= Max(S)
<1> DEFINE U == {u \in Nat : \A x \in S : x <= u}
<1>1. U \in SUBSET Nat /\ U # {}
  OBVIOUS
<1>2. PICK u \in U : \A v \in U : u <= v
  BY <1>1, LeastMember
<1>3. u \in S
  <2> SUFFICES ASSUME u \notin S PROVE FALSE
    OBVIOUS
  <2>1. \A x \in S : x < u /\ x \in Nat
    BY <1>2
  <2>2. PICK x \in S : x < u /\ x \in Nat
    BY <2>1
  <2>3. u \in Nat /\ u - 1 \in Nat
    BY <2>2
  <2>4. u - 1 \in U
    BY <2>1, <2>3
  <2> QED
    BY <2>4, <2>3, <1>2
<1> QED
  BY <1>2, <1>3 DEF Max

\* The greatest number of an interval that is not empty is its end.
LEMMA IntervalMax == \A h, k \in Nat : h < k => Max(h + 1 .. k) = k
<1> SUFFICES ASSUME NEW h \in Nat, NEW k \in Nat, h < k PROVE Max(h + 1 .. k) = k
  OBVIOUS
<1>1. h + 1 .. k \in SUBSET Nat /\ k \in h + 1 .. k
  OBVIOUS
<1> QED
  BY <1>1 DEF Max

\* The least number of an interval that is not empty is its start.
LEMMA IntervalMin == \A h, k \in Nat : h < k => Min(h + 1 .. k) = h + 1
<1> SUFFICES ASSUME NEW h \in Nat, NEW k \in Nat, h < k PROVE Min(h + 1 .. k) = h + 1
  OBVIOUS
<1>1. h + 1 .. k \in SUBSET Nat /\ h + 1 \in h + 1 .. k
  OBVIOUS
<1> QED
  BY <1>1 DEF Min

-----------------------------------------------------------------------------
(* The invariant *)


\* The verification under way: where it is, what it has read, what it said.
CheckOK ==
    check \in [pc : {"idle", "epoch", "anchor", "live", "said"}, epoch : [seq : Nat, prev : Nat],
               anchor : Nat, last : Nat, overlap : BOOLEAN,
               said : {"nothing", "broken", "incomplete", "whole"}]

\* The table holds every event after the anchor, each with the one before it as
\* its predecessor: live rows are one chain (append.ts).
Chained ==
    /\ swept \in {0, 1} /\ swept <= anchor
    /\ live = anchor + 1 .. Len(rows)
    /\ \A s \in Recorded : rows[s].prev = s - 1 /\ rows[s].at <= now

\* An append lags the calendar by one month at most, and no row it has not seen
\* is older than that: what it creates is not due (append.ts).
Writing ==
    \A w \in Writers :
        /\ writer[w].pc # "idle" => writer[w].at <= now /\ now <= writer[w].at + 1
        /\ writer[w].pc = "anchor" => \A s \in live : writer[w].at <= rows[s].at + 1
        /\ writer[w].pc = "create" =>
              /\ anchor <= writer[w].prev
              /\ \A s \in Recorded : writer[w].prev < s => writer[w].at <= rows[s].at + 1

\* Archives hold events the anchor has passed, each month older than what is
\* live, and a later month only later events (rotate.ts).
Filing ==
    /\ \A m \in OnDisk :
          /\ Due(m) /\ filed[m] \subseteq swept + 1 .. anchor
          /\ \A s \in live : m < rows[s].at
    /\ \A m, n \in OnDisk : m < n => \A s \in filed[m], t \in filed[n] : s < t

\* Where a sweep is: the months before its own are filed, what it has copied is
\* the oldest live rows, and what it has deleted is filed nowhere yet (rotate.ts,
\* retention.ts).
Rotating ==
    /\ sweep.pc # "idle" => sweep.month <= sweep.last /\ Due(sweep.last)
    /\ sweep.pc \in {"period", "copied", "deleted"} => \A m \in OnDisk : m < sweep.month
    /\ sweep.pc \in {"promoted", "gzip", "next"} => \A m \in OnDisk : m <= sweep.month
    /\ sweep.pc = "copied" =>
          /\ \E k \in anchor .. Len(rows) :
                sweep.rows = anchor + 1 .. k /\ (anchor < k => rows[k].at <= sweep.month)
          /\ \A s \in live \ sweep.rows : sweep.month < rows[s].at
    /\ sweep.pc = "deleted" =>
          /\ sweep.rows \subseteq swept + 1 .. anchor
          /\ \A s \in live : sweep.month < rows[s].at
          /\ \A s \in Archived, t \in sweep.rows : s < t
    /\ sweep.pc \in {"promoted", "gzip"} => form[sweep.month] # "none"

\* Nothing was ever filed: no archive, and no copy left aside whose rows are gone.
Fresh == OnDisk = {} /\ stray \ live = {}
\* The oldest archive has rows, unless a copy was left aside: a sweep opens none
\* that would be the first and empty (rotate.ts).
NotEmpty ==
    /\ sweep.pc = "period" /\ Fresh => Prefix(sweep.month) # {}
    /\ sweep.pc \in {"copied", "deleted"} /\ Fresh => sweep.rows # {}
    /\ sweep.pc = "next" => ~Fresh
    /\ ~Fresh => \/ stray \ live # {}
                 \/ \E n \in OnDisk : filed[n] # {} /\ \A k \in OnDisk : n <= k

\* The epoch is set once the anchor has moved, and nothing that is filed or on its
\* way to be lies before it (epoch.ts).
Begun ==
    /\ epoch = NoEpoch => anchor = swept
    /\ epoch # NoEpoch =>
          /\ epoch.seq = epoch.prev + 1 /\ swept < epoch.seq /\ epoch.seq <= anchor
          /\ sweep.pc \in {"copied", "deleted"} => \A s \in sweep.rows : epoch.seq <= s
          /\ \A s \in Archived : epoch.seq <= s

\* What a deletion has read stays true: its archive is the oldest, another one with
\* rows follows, and that one begins with the row the epoch will name (actions.ts).
Deleting ==
    \A d \in Deleters :
        LET m == deleter[d].month  b == deleter[d].begins
        IN  /\ deleter[d].pc # "idle" =>
                  /\ b.seq = b.prev + 1 /\ swept < b.seq /\ b.seq <= anchor
                  /\ sweep.pc \in {"copied", "deleted"} => \A s \in sweep.rows : b.seq <= s
            /\ deleter[d].pc = "read" =>
                  /\ form[m] \in {"none", "gz"}
                  /\ \A k \in OnDisk : m <= k
                  /\ \E n \in OnDisk : /\ m < n /\ filed[n] # {}
                                       /\ \A k \in OnDisk : k = m \/ n <= k
                  /\ \A k \in OnDisk : k = m \/ \A s \in filed[k] : b.seq <= s
            /\ deleter[d].pc = "removed" => \A s \in Archived : b.seq <= s

\* What a verification nothing overlaps has read is still so, and what it said is
\* what the walk of that state says (verify.ts).
Judging ==
    check.pc # "idle" /\ ~check.overlap =>
        /\ check.epoch = epoch /\ sweep.pc # "deleted" /\ \A d \in Deleters : deleter[d].pc # "removed"
        /\ check.pc \in {"anchor", "live"} => check.anchor = anchor
        /\ check.pc = "live" =>
              /\ check.last = IF Archived = {} THEN Genesis ELSE anchor
              /\ check.epoch.prev = Genesis \/ check.last = Genesis => swept + 1 .. anchor \subseteq Archived
        /\ check.pc = "said" /\ check.said = "broken" => Cut
        /\ check.pc = "said" /\ check.said = "whole" => swept + 1 .. anchor \subseteq Archived

\* The inductive invariant: the parts above, and that nothing recorded is lost.
RecordInv ==
    /\ TypeOK /\ CheckOK /\ Chained /\ Writing /\ Filing /\ Rotating /\ NotEmpty
    /\ Begun /\ Deleting /\ Judging /\ NothingLost

-----------------------------------------------------------------------------
(* The record *)

\* What the seqs are, in one place.
LEMMA Numbers ==
    ASSUME TypeOK, Chained
    PROVE  /\ Len(rows) \in Nat /\ Recorded = 1 .. Len(rows) /\ Len(rows) <= MaxEvents
           /\ anchor \in Nat /\ anchor <= Len(rows) /\ swept \in Nat /\ swept <= anchor
           /\ now \in Nat /\ now \in Months /\ Months \subseteq Nat
           /\ \A s \in 1 .. Len(rows) : rows[s].at \in Months /\ rows[s].prev = s - 1
           /\ \A s \in live : s \in Nat /\ anchor < s /\ s <= Len(rows)
           /\ \A s \in 1 .. Len(rows) : anchor < s => s \in live
<1>1. rows \in Seq([prev : Nat, at : Months]) /\ Len(rows) <= MaxEvents /\ now \in Months
      /\ anchor \in {Genesis} \cup Recorded /\ swept \in Nat
  BY DEF TypeOK
<1>2. Len(rows) \in Nat /\ Recorded = 1 .. Len(rows)
  BY <1>1, LenProperties DEF Recorded
<1>4. ASSUME NEW s \in 1 .. Len(rows) PROVE rows[s] \in [prev : Nat, at : Months]
  BY <1>1, <1>2, ElementOfSeq
<1>3. Months \subseteq Nat
  BY BoundsAssumption DEF Months
<1> QED
  BY <1>1, <1>2, <1>3, <1>4 DEF Chained, Genesis

\* Rows that follow one another without a gap are linked from the one before them.
LEMMA IntervalIsLinked ==
    ASSUME TypeOK, Chained, NEW h \in Nat, NEW k \in Nat, k <= Len(rows)
    PROVE  LinkedFrom(h, h + 1 .. k)
<1> USE Numbers
<1> SUFFICES ASSUME NEW s \in h + 1 .. k
             PROVE  rows[s].prev = IF {t \in h + 1 .. k : t < s} = {} THEN h
                                   ELSE Max({t \in h + 1 .. k : t < s})
  BY DEF LinkedFrom
<1>1. rows[s].prev = s - 1
  OBVIOUS
<1>2. {t \in h + 1 .. k : t < s} = h + 1 .. s - 1
  OBVIOUS
<1>3. CASE s = h + 1
  BY <1>1, <1>2, <1>3
<1>4. CASE s # h + 1
  <2>1. PICK k0 \in Nat : k0 = s - 1 /\ h < k0
    BY <1>4
  <2>2. Max(h + 1 .. k0) = k0
    BY <2>1, IntervalMax
  <2>3. k0 \in h + 1 .. k0
    BY <2>1
  <2> QED
    BY <1>1, <1>2, <2>1, <2>2, <2>3
<1> QED
  BY <1>3, <1>4

\* A prefix of the table is an interval, and ends in a row from before the boundary.
LEMMA PrefixIsInterval ==
    ASSUME TypeOK, Chained, NEW m \in Nat
    PROVE  /\ \E k \in anchor .. Len(rows) :
                 Prefix(m) = anchor + 1 .. k /\ (anchor < k => rows[k].at <= m)
           /\ \A s \in live \ Prefix(m) : m < rows[s].at
           /\ Prefix(m) \subseteq live
<1> USE Numbers
<1>1. Prefix(m) \subseteq live
  BY DEF Prefix
<1>2. \A s \in live \ Prefix(m) : m < rows[s].at
  <2> SUFFICES ASSUME NEW s \in live, rows[s].at <= m PROVE s \in Prefix(m)
    <3>1. \A s \in live : rows[s].at \in Nat
      OBVIOUS
    <3> QED
      BY <3>1
  <2> QED
    BY DEF Prefix
<1>3. CASE Prefix(m) = {}
  <2>1. anchor + 1 .. anchor = {} /\ anchor \in anchor .. Len(rows)
    OBVIOUS
  <2> QED
    BY <1>1, <1>2, <1>3, <2>1
<1>4. CASE Prefix(m) # {}
  <2> DEFINE k == Max(Prefix(m))
  <2>1. Prefix(m) \in SUBSET Nat /\ \A s \in Prefix(m) : s <= Len(rows)
    BY <1>1
  <2>2. k \in Prefix(m) /\ \A s \in Prefix(m) : s <= k
    BY <2>1, <1>4, GreatestMember
  <2> HIDE DEF k
  <2>3. PICK t \in live : rows[t].at <= m /\ k <= t
    BY <2>2 DEF Prefix
  <2>4. t \in Prefix(m)
    BY <2>3 DEF Prefix
  <2>5. t = k
    BY <2>2, <2>3, <2>4, <1>1
  <2>6. k \in live /\ rows[k].at <= m
    BY <2>3, <2>5
  <2>7. Prefix(m) = anchor + 1 .. k
    <3>1. ASSUME NEW s \in Prefix(m) PROVE s \in anchor + 1 .. k
      BY <1>1, <2>2, <2>6
    <3>2. ASSUME NEW s \in anchor + 1 .. k PROVE s \in Prefix(m)
      <4>1. s \in live /\ s <= k
        BY <2>6
      <4> QED
        BY <4>1, <2>6 DEF Prefix
    <3> QED
      BY <3>1, <3>2
  <2> QED
    BY <1>1, <1>2, <2>6, <2>7
<1> QED
  BY <1>3, <1>4

-----------------------------------------------------------------------------
(* Which actions change what *)

\* The record itself: an insert, a removal and the calendar.
LEMMA RecordChanges ==
    ASSUME [Next]_vars
    PROVE  /\ swept' = swept
           /\ \/ \E w \in Writers : Create(w)
              \/ RemoveRows \/ Tick
              \/ UNCHANGED <<now, rows, live, anchor>>
<1>1. CASE \E w \in Writers : Append_(w) \/ ReadTail(w) \/ ReadAnchor(w) \/ Collide(w)
  BY <1>1 DEF Append_, ReadTail, ReadAnchor, Collide
<1>2. CASE StartSweep \/ Drain \/ DrainFails \/ Promote
  BY <1>2 DEF StartSweep, Drain, DrainFails, Promote
<1>3. CASE Gzip \/ Gzipped \/ NextPeriod
  BY <1>3 DEF Gzip, Gzipped, NextPeriod
<1>4. CASE \E d \in Deleters : AskDelete(d) \/ RemoveFile(d) \/ AdvanceEpoch(d)
  BY <1>4 DEF AskDelete, RemoveFile, AdvanceEpoch
<1>5. CASE BeginCheck \/ CheckAnchor \/ CheckArchives \/ CheckLive \/ Crash
  BY <1>5 DEF BeginCheck, CheckAnchor, CheckArchives, CheckLive, Crash
<1>6. CASE (\E w \in Writers : Create(w)) \/ RemoveRows \/ Tick
  BY <1>6 DEF Create, RemoveRows, Tick
<1>7. CASE UNCHANGED vars
  BY <1>7 DEF vars
<1> QED
  BY <1>1, <1>2, <1>3, <1>4, <1>5, <1>6, <1>7 DEF Next

\* The files of archives, and the copies left aside.
LEMMA DiskChanges ==
    ASSUME [Next]_vars
    PROVE  /\ Promote \/ Gzip \/ Gzipped \/ (\E d \in Deleters : RemoveFile(d)) \/ UNCHANGED <<form, filed>>
           /\ Promote \/ Crash \/ UNCHANGED stray
           /\ (\E d \in Deleters : RemoveFile(d)) \/ UNCHANGED taken
<1>1. CASE \E w \in Writers : Append_(w) \/ ReadTail(w) \/ ReadAnchor(w) \/ Create(w) \/ Collide(w)
  BY <1>1 DEF Append_, ReadTail, ReadAnchor, Create, Collide, files
<1>2. CASE StartSweep \/ Drain \/ DrainFails \/ RemoveRows
  BY <1>2 DEF StartSweep, Drain, DrainFails, RemoveRows, files
<1>3. CASE Promote \/ Gzip \/ Gzipped \/ NextPeriod
  BY <1>3 DEF Promote, Gzip, Gzipped, NextPeriod, files
<1>4. CASE \E d \in Deleters : AskDelete(d) \/ RemoveFile(d) \/ AdvanceEpoch(d)
  BY <1>4 DEF AskDelete, RemoveFile, AdvanceEpoch, files
<1>5. CASE BeginCheck \/ CheckAnchor \/ CheckArchives \/ CheckLive
  BY <1>5 DEF BeginCheck, CheckAnchor, CheckArchives, CheckLive, files
<1>6. CASE Tick \/ Crash
  BY <1>6 DEF Tick, Crash, files
<1>7. CASE UNCHANGED vars
  BY <1>7 DEF vars, files
<1> QED
  BY <1>1, <1>2, <1>3, <1>4, <1>5, <1>6, <1>7 DEF Next

\* The sweep and the epoch.
LEMMA SweepChanges ==
    ASSUME [Next]_vars
    PROVE  /\ \/ StartSweep \/ Drain \/ DrainFails \/ RemoveRows \/ Promote
              \/ Gzip \/ Gzipped \/ NextPeriod \/ Crash
              \/ UNCHANGED sweep
           /\ RemoveRows \/ (\E d \in Deleters : AdvanceEpoch(d)) \/ UNCHANGED epoch
<1>1. CASE \E w \in Writers : Append_(w) \/ ReadTail(w) \/ ReadAnchor(w) \/ Create(w) \/ Collide(w)
  BY <1>1 DEF Append_, ReadTail, ReadAnchor, Create, Collide
<1>2. CASE StartSweep \/ Drain \/ DrainFails \/ RemoveRows \/ Promote
  BY <1>2 DEF StartSweep, Drain, DrainFails, Promote
<1>3. CASE Gzip \/ Gzipped \/ NextPeriod
  BY <1>3 DEF Gzip, Gzipped, NextPeriod
<1>4. CASE \E d \in Deleters : AskDelete(d) \/ RemoveFile(d) \/ AdvanceEpoch(d)
  BY <1>4 DEF AskDelete, RemoveFile, AdvanceEpoch
<1>5. CASE BeginCheck \/ CheckAnchor \/ CheckArchives \/ CheckLive \/ Crash
  BY <1>5 DEF BeginCheck, CheckAnchor, CheckArchives, CheckLive, Crash
<1>6. CASE Tick \/ UNCHANGED vars
  BY <1>6 DEF Tick, vars
<1> QED
  BY <1>1, <1>2, <1>3, <1>4, <1>5, <1>6 DEF Next

\* The appends and the deletions.
LEMMA CallChanges ==
    ASSUME [Next]_vars
    PROVE  /\ \/ \E w \in Writers : Append_(w) \/ ReadTail(w) \/ ReadAnchor(w) \/ Create(w) \/ Collide(w)
              \/ NextPeriod \/ Crash \/ UNCHANGED writer
           /\ \/ \E d \in Deleters : AskDelete(d) \/ RemoveFile(d) \/ AdvanceEpoch(d)
              \/ Crash \/ UNCHANGED deleter
<1>1. CASE \E w \in Writers : Append_(w) \/ ReadTail(w) \/ ReadAnchor(w) \/ Create(w) \/ Collide(w)
  BY <1>1 DEF Append_, ReadTail, ReadAnchor, Create, Collide
<1>2. CASE StartSweep \/ Drain \/ DrainFails \/ RemoveRows \/ Promote
  BY <1>2 DEF StartSweep, Drain, DrainFails, RemoveRows, Promote
<1>3. CASE Gzip \/ Gzipped \/ NextPeriod
  BY <1>3 DEF Gzip, Gzipped, NextPeriod
<1>4. CASE \E d \in Deleters : AskDelete(d) \/ RemoveFile(d) \/ AdvanceEpoch(d)
  BY <1>4 DEF AskDelete, RemoveFile, AdvanceEpoch
<1>5. CASE BeginCheck \/ CheckAnchor \/ CheckArchives \/ CheckLive \/ Crash
  BY <1>5 DEF BeginCheck, CheckAnchor, CheckArchives, CheckLive
<1>6. CASE Tick \/ UNCHANGED vars
  BY <1>6 DEF Tick, vars
<1> QED
  BY <1>1, <1>2, <1>3, <1>4, <1>5, <1>6 DEF Next

-----------------------------------------------------------------------------
(* Types, in parts *)

\* The parts of the type invariant, one for each process and one for the data.
SweepOK ==
    sweep \in [pc : {"idle", "period", "copied", "deleted", "promoted", "gzip", "next"},
               month : Months, last : Months, rows : SUBSET Recorded]
WriterOK ==
    writer \in [Writers -> [pc : {"idle", "tail", "anchor", "create"}, at : Months,
                            tries : 0 .. MaxAttempts, prev : {Genesis} \cup Recorded]]
DeleterOK ==
    deleter \in [Deleters -> [pc : {"idle", "read", "removed"}, month : Months,
                              begins : [seq : Nat, prev : Nat]]]
DiskOK == form \in [Months -> Forms] /\ filed \in [Months -> SUBSET Recorded]
RowsOK ==
    /\ now \in Months /\ live \subseteq Recorded /\ anchor \in {Genesis} \cup Recorded
    /\ rows \in Seq([prev : Nat, at : Months]) /\ Len(rows) <= MaxEvents
    /\ epoch \in [seq : Nat, prev : Nat]
    /\ stray \subseteq Recorded /\ taken \subseteq Recorded /\ swept \in Nat

\* The type invariant is the parts named above.
LEMMA TypeParts ==
    /\ TypeOK <=> SweepOK /\ WriterOK /\ DeleterOK /\ DiskOK /\ RowsOK
    /\ TypeOK' <=> SweepOK' /\ WriterOK' /\ DeleterOK' /\ DiskOK' /\ RowsOK'
<1>1. TypeOK <=> SweepOK /\ WriterOK /\ DeleterOK /\ DiskOK /\ RowsOK
  BY DEF TypeOK, SweepOK, WriterOK, DeleterOK, DiskOK, RowsOK
<1>2. TypeOK' <=> SweepOK' /\ WriterOK' /\ DeleterOK' /\ DiskOK' /\ RowsOK'
  BY DEF TypeOK, SweepOK, WriterOK, DeleterOK, DiskOK, RowsOK
<1> QED
  BY <1>1, <1>2

\* The invariant, part by part.
LEMMA InvParts ==
    RecordInv => /\ TypeOK /\ SweepOK /\ WriterOK /\ DeleterOK /\ DiskOK /\ RowsOK
                 /\ CheckOK /\ Chained /\ Writing /\ Filing /\ Rotating /\ NotEmpty
                 /\ Begun /\ Deleting /\ Judging /\ NothingLost
  BY TypeParts DEF RecordInv

-----------------------------------------------------------------------------
(* The archives on disk, step by step *)

\* The archives are the files and the rows in them.
LEMMA SameDisk ==
    ASSUME UNCHANGED <<form, filed>>
    PROVE  OnDisk' = OnDisk /\ Archived' = Archived
  BY DEF OnDisk, Archived

\* What the archives hold: rows the anchor has passed.
LEMMA ArchivedRows ==
    ASSUME RecordInv
    PROVE  /\ Archived \subseteq swept + 1 .. anchor /\ OnDisk \subseteq Nat
           /\ \A k \in OnDisk : k \in Months /\ filed[k] \subseteq Archived
           /\ \A s \in Archived : \E k \in OnDisk : s \in filed[k]
<1>1. \A k \in OnDisk : filed[k] \subseteq swept + 1 .. anchor
  BY InvParts DEF Filing
<1>2. OnDisk \subseteq Months
  BY DEF OnDisk
<1>3. OnDisk \subseteq Nat
  BY <1>2, InvParts, Numbers
<1> QED
  BY <1>1, <1>2, <1>3 DEF Archived

\* Compressing replaces a file by another of the same rows.
LEMMA GzipDisk ==
    ASSUME RecordInv, Gzip \/ Gzipped
    PROVE  /\ OnDisk' = OnDisk /\ Archived' = Archived /\ filed' = filed
           /\ \A k \in Months : k # sweep.month => form'[k] = form[k]
           /\ form'[sweep.month] # "none"
<1>1. DiskOK /\ SweepOK /\ Rotating
  BY InvParts
<1>2. sweep.month \in Months
  BY <1>1 DEF SweepOK
<1>3. sweep.pc \in {"promoted", "gzip"} /\ filed' = filed
  BY DEF Gzip, Gzipped
<1>4. form[sweep.month] # "none"
  BY <1>1, <1>3 DEF Rotating
<1>5. \E f \in {"torn", "gz", "both", "db"} : form' = [form EXCEPT ![sweep.month] = f]
  BY DEF Gzip, Gzipped
<1>6. /\ \A k \in Months : k # sweep.month => form'[k] = form[k]
      /\ form'[sweep.month] # "none"
  BY <1>1, <1>2, <1>5 DEF DiskOK
<1>7. OnDisk' = OnDisk
  BY <1>2, <1>4, <1>6 DEF OnDisk
<1> QED
  BY <1>3, <1>6, <1>7 DEF Archived

\* The rename adds the newest archive, or leaves the copy where it is.
LEMMA PromoteDisk ==
    ASSUME RecordInv, Promote
    PROVE  /\ sweep.month \in Months /\ \A k \in OnDisk : k < sweep.month
           /\ \/ /\ sweep' = [sweep EXCEPT !.pc = "promoted", !.rows = {}] /\ stray' = stray
                 /\ OnDisk' = OnDisk \cup {sweep.month} /\ Archived' = Archived \cup sweep.rows
                 /\ filed'[sweep.month] = sweep.rows
                 /\ \A k \in Months : k # sweep.month => filed'[k] = filed[k] /\ form'[k] = form[k]
              \/ /\ sweep' = [sweep EXCEPT !.pc = "next", !.rows = {}]
                 /\ stray' = stray \cup sweep.rows /\ UNCHANGED <<form, filed>>
<1>1. DiskOK /\ SweepOK /\ Rotating /\ sweep.pc = "deleted"
  BY InvParts DEF Promote
<1>2. sweep.month \in Months /\ \A k \in OnDisk : k < sweep.month
  BY <1>1 DEF SweepOK, Rotating
<1>3. CASE /\ form' = [form EXCEPT ![sweep.month] = "db"]
           /\ filed' = [filed EXCEPT ![sweep.month] = sweep.rows]
           /\ sweep' = [sweep EXCEPT !.pc = "promoted", !.rows = {}]
           /\ UNCHANGED <<stray, mishaps>>
  <2>1. /\ form'[sweep.month] = "db" /\ filed'[sweep.month] = sweep.rows
        /\ \A k \in Months : k # sweep.month => filed'[k] = filed[k] /\ form'[k] = form[k]
    BY <1>1, <1>2, <1>3 DEF DiskOK
  <2>2. OnDisk' = OnDisk \cup {sweep.month}
    BY <1>2, <2>1 DEF OnDisk
  <2>3. sweep.month \notin OnDisk /\ \A k \in OnDisk : k \in Months /\ k # sweep.month
    <3>1. sweep.month \in Nat
      BY <1>2, InvParts, Numbers
    <3> QED
      BY <1>2, <3>1 DEF OnDisk
  <2>4. Archived' = Archived \cup sweep.rows
    BY <2>1, <2>2, <2>3 DEF Archived
  <2> QED
    BY <1>2, <1>3, <2>1, <2>2, <2>4
<1>4. CASE stray' = stray \cup sweep.rows /\ sweep' = [sweep EXCEPT !.pc = "next", !.rows = {}]
           /\ UNCHANGED <<form, filed>>
  BY <1>2, <1>4
<1> QED
  BY <1>3, <1>4 DEF Promote

\* A deletion removes the oldest archive, and another one with rows is there.
LEMMA RemoveDisk ==
    ASSUME RecordInv, NEW d \in Deleters, RemoveFile(d)
    PROVE  LET m == deleter[d].month
           IN  /\ OnDisk' = OnDisk \ {m}
               /\ \A k \in OnDisk' : filed'[k] = filed[k]
               /\ \A k \in Months : k # m => form'[k] = form[k]
               /\ form'[m] = "none" /\ m \in Months
               /\ Archived' \subseteq Archived /\ Archived \subseteq Archived' \cup taken'
               /\ taken \subseteq taken'
               /\ \A k \in OnDisk : m <= k
               /\ \E n \in OnDisk' : /\ m < n /\ filed[n] # {}
                                     /\ \A k \in OnDisk : k = m \/ n <= k
<1> DEFINE m == deleter[d].month
<1>1. DiskOK /\ DeleterOK /\ Deleting /\ deleter[d].pc = "read"
  BY InvParts DEF RemoveFile
<1>2. m \in Months /\ m \in Nat
  BY <1>1, InvParts, Numbers DEF DeleterOK
<1>3. form[m] \in {"none", "gz"} /\ \A k \in OnDisk : m <= k
  BY <1>1 DEF Deleting
<1>4. /\ form' = [form EXCEPT ![m] = IF @ \in {"gz", "none"} THEN "none" ELSE "db"]
      /\ filed' = [filed EXCEPT ![m] = IF form'[m] = "none" THEN {} ELSE @]
      /\ taken' = taken \cup (filed[m] \ filed'[m])
  BY DEF RemoveFile
<1>5. form'[m] = "none" /\ \A k \in Months : k # m => form'[k] = form[k]
  BY <1>1, <1>2, <1>3, <1>4 DEF DiskOK
<1>6. filed'[m] = {} /\ \A k \in Months : k # m => filed'[k] = filed[k]
  BY <1>1, <1>2, <1>4, <1>5 DEF DiskOK
<1>7. OnDisk' = OnDisk \ {m}
  BY <1>2, <1>5 DEF OnDisk
<1>8. \A k \in OnDisk' : k \in Months /\ k # m /\ filed'[k] = filed[k]
  BY <1>6, <1>7 DEF OnDisk
<1>9. Archived' \subseteq Archived
  BY <1>7, <1>8 DEF Archived
<1>10. Archived \subseteq Archived' \cup taken'
  BY <1>4, <1>6, <1>7, <1>8 DEF Archived
<1>11. PICK n \in OnDisk : m < n /\ filed[n] # {} /\ \A k \in OnDisk : k = m \/ n <= k
  BY <1>1 DEF Deleting
<1>12. n \in OnDisk'
  BY <1>2, <1>7, <1>11
<1> QED
  BY <1>2, <1>3, <1>4, <1>5, <1>7, <1>8, <1>9, <1>10, <1>11, <1>12

-----------------------------------------------------------------------------
(* The chain *)

\* An insert appends the row that names the newest one: the constraint refuses
\* any other.
LEMMA CreateAppends ==
    ASSUME RecordInv, NEW w \in Writers, Create(w)
    PROVE  /\ Len(rows') = Len(rows) + 1 /\ Len(rows') <= MaxEvents
           /\ rows' \in Seq([prev : Nat, at : Months])
           /\ \A s \in 1 .. Len(rows) : rows'[s] = rows[s]
           /\ rows'[Len(rows) + 1].prev = Len(rows)
           /\ rows'[Len(rows) + 1].at = writer[w].at
           /\ writer[w].at <= now /\ now <= writer[w].at + 1
           /\ live' = live \cup {Len(rows) + 1} /\ Len(rows) + 1 \notin live
           /\ UNCHANGED <<now, anchor, epoch, form, filed, stray, sweep, deleter, check, taken, swept>>
<1> USE Numbers, InvParts
<1> DEFINE n == Len(rows)  p == writer[w].prev  a == writer[w].at
<1>1. /\ writer[w].pc = "create" /\ ~Taken(p) /\ n < MaxEvents
      /\ rows' = Append(rows, [prev |-> p, at |-> a])
      /\ live' = live \cup {n + 1}
      /\ UNCHANGED <<now, anchor, epoch, form, filed, stray, sweep, deleter, check, taken, swept>>
  BY DEF Create, files
<1>2. p \in {Genesis} \cup Recorded /\ a \in Months
  BY DEF WriterOK
<1>3. p \in Nat /\ p <= n
  BY <1>2 DEF Genesis
<1>4. anchor <= p /\ a <= now /\ now <= a + 1
  BY <1>1 DEF Writing
<1>5. p = n
  <2> SUFFICES ASSUME p # n PROVE FALSE
    OBVIOUS
  <2>1. PICK t \in Nat : t = p + 1
    BY <1>3
  <2>2. t \in 1 .. n /\ anchor < t
    BY <1>3, <1>4, <2>1
  <2>3. t \in live /\ rows[t].prev = t - 1
    BY <2>2
  <2>4. rows[t].prev = p
    BY <2>1, <2>3, <1>3
  <2> QED
    BY <2>3, <2>4, <1>1 DEF Taken
<1>6. [prev |-> p, at |-> a] \in [prev : Nat, at : Months]
  BY <1>2, <1>3
<1>7. rows \in Seq([prev : Nat, at : Months])
  BY DEF RowsOK
<1>8. /\ rows' \in Seq([prev : Nat, at : Months]) /\ Len(rows') = n + 1
      /\ \A s \in 1 .. n : rows'[s] = rows[s]
      /\ rows'[n + 1] = [prev |-> p, at |-> a]
  BY <1>1, <1>6, <1>7, AppendProperties
<1>9. n + 1 \notin live /\ n + 1 <= MaxEvents
  BY <1>1, BoundsAssumption
<1> QED
  BY <1>1, <1>4, <1>5, <1>8, <1>9

\* A removal takes the oldest live rows, all from before the boundary.
LEMMA RemovalMovesAnchor ==
    ASSUME RecordInv, RemoveRows
    PROVE  /\ anchor' \in anchor .. Len(rows)
           /\ sweep.rows = anchor + 1 .. anchor'
           /\ anchor < anchor' => rows[anchor'].at <= sweep.month
           /\ live' = anchor' + 1 .. Len(rows) /\ live' = live \ sweep.rows
           /\ \A s \in live' : sweep.month < rows[s].at
           /\ sweep.pc = "copied" /\ sweep' = [sweep EXCEPT !.pc = "deleted"]
           /\ sweep.rows = {} => epoch' = epoch
           /\ sweep.rows # {} => epoch' = IF epoch # NoEpoch THEN epoch
                                          ELSE [seq |-> anchor + 1, prev |-> anchor]
           /\ UNCHANGED <<now, rows, form, filed, stray, writer, deleter, taken, swept>>
<1> USE Numbers, InvParts
<1> DEFINE n == Len(rows)
<1>1. /\ sweep.pc = "copied" /\ sweep' = [sweep EXCEPT !.pc = "deleted"]
      /\ UNCHANGED <<now, rows, form, filed, stray, writer, deleter, taken, swept>>
  BY DEF RemoveRows, files
<1>2. PICK k \in anchor .. n : sweep.rows = anchor + 1 .. k /\ (anchor < k => rows[k].at <= sweep.month)
  BY <1>1 DEF Rotating
<1>3. \A s \in live \ sweep.rows : sweep.month < rows[s].at
  BY <1>1 DEF Rotating
<1>4. live = anchor + 1 .. n
  BY DEF Chained
<1>5. CASE sweep.rows = {}
  <2>1. UNCHANGED <<live, anchor, epoch>>
    BY <1>5 DEF RemoveRows
  <2>2. k = anchor
    <3> SUFFICES ASSUME k # anchor PROVE FALSE
      OBVIOUS
    <3>1. k \in sweep.rows
      BY <1>2
    <3> QED
      BY <3>1, <1>5
  <2> QED
    BY <1>1, <1>2, <1>3, <1>4, <1>5, <2>1, <2>2
<1>6. CASE sweep.rows # {}
  <2>1. anchor < k
    BY <1>2, <1>6
  <2>2. /\ epoch' = Claimed(Min(live))
        /\ live' = live \ sweep.rows
        /\ anchor' = Max(sweep.rows)
    BY <1>6 DEF RemoveRows
  <2>3. anchor' = k
    BY <1>2, <2>1, <2>2, IntervalMax
  <2>4. Min(live) = anchor + 1
    BY <1>4, <2>1, IntervalMin
  <2>5. rows[anchor + 1].prev = anchor
    BY <2>1
  <2>6. live' = k + 1 .. n
    BY <1>2, <1>4, <2>2
  <2>7. epoch' = IF epoch # NoEpoch THEN epoch ELSE [seq |-> anchor + 1, prev |-> anchor]
    BY <2>2, <2>4, <2>5 DEF Claimed
  <2>8. \A s \in live' : sweep.month < rows[s].at
    BY <1>3, <2>2
  <2> QED
    BY <1>1, <1>2, <1>6, <2>2, <2>3, <2>6, <2>7, <2>8
<1> QED
  BY <1>5, <1>6

\* The live rows stay one chain from the anchor.
LEMMA ChainedKept == ASSUME RecordInv, [Next]_vars PROVE Chained'
<1> USE Numbers, InvParts
<1>1. CASE \E w \in Writers : Create(w)
  <2> PICK w \in Writers : Create(w)
    BY <1>1
  <2>1. live' = anchor' + 1 .. Len(rows')
    <3>1. live = anchor + 1 .. Len(rows) /\ anchor <= Len(rows)
      BY DEF Chained
    <3>2. live' = live \cup {Len(rows) + 1} /\ Len(rows') = Len(rows) + 1 /\ anchor' = anchor
      BY CreateAppends
    <3> QED
      BY <3>1, <3>2
  <2>2. DOMAIN rows' = 1 .. Len(rows')
    BY CreateAppends, LenProperties
  <2>0. Len(rows') = Len(rows) + 1
    BY CreateAppends
  <2>3. ASSUME NEW s \in 1 .. Len(rows') PROVE rows'[s].prev = s - 1 /\ rows'[s].at <= now'
    <3>1. CASE s = Len(rows) + 1
      <4>1. /\ rows'[s].prev = Len(rows) /\ rows'[s].at = writer[w].at
            /\ writer[w].at <= now /\ now' = now
        BY <3>1, CreateAppends
      <4> QED
        BY <3>1, <4>1
    <3>2. CASE s # Len(rows) + 1
      <4>1. s \in 1 .. Len(rows)
        BY <3>2, <2>0
      <4>2. rows'[s] = rows[s] /\ now' = now
        BY <4>1, CreateAppends
      <4> QED
        BY <4>1, <4>2 DEF Chained
    <3> QED
      BY <3>1, <3>2
  <2>4. swept' = swept /\ anchor' = anchor
    BY CreateAppends
  <2> QED
    BY <2>1, <2>2, <2>3, <2>4 DEF Chained, Recorded
<1>2. CASE RemoveRows
  <2>1. swept' = swept /\ rows' = rows /\ now' = now /\ swept <= anchor'
    BY <1>2, RemovalMovesAnchor
  <2>2. live' = anchor' + 1 .. Len(rows)
    BY <1>2, RemovalMovesAnchor
  <2> QED
    BY <2>1, <2>2 DEF Chained, Recorded
<1>3. CASE Tick
  <2>1. now' = now + 1 /\ UNCHANGED <<rows, live, anchor, swept>>
    BY <1>3 DEF Tick
  <2>2. \A s \in Recorded : rows[s].at <= now' 
    <3>1. \A s \in Recorded : rows[s].at \in Nat /\ rows[s].at <= now
      BY DEF Chained
    <3> QED
      BY <2>1, <3>1
  <2> QED
    BY <2>1, <2>2 DEF Chained, Recorded
<1>4. CASE UNCHANGED <<now, rows, live, anchor>> /\ swept' = swept
  BY <1>4 DEF Chained, Recorded
<1> QED
  BY <1>1, <1>2, <1>3, <1>4, RecordChanges

-----------------------------------------------------------------------------
(* Types *)

\* Rows are never taken back.
LEMMA RecordedGrows ==
    ASSUME RecordInv, [Next]_vars
    PROVE  /\ Recorded \subseteq Recorded' /\ Genesis' = Genesis
           /\ \A s \in Recorded : rows'[s] = rows[s]
<1> USE InvParts, Numbers
<1>1. CASE \E w \in Writers : Create(w)
  <2> PICK w \in Writers : Create(w)
    BY <1>1
  <2>1. Len(rows') = Len(rows) + 1 /\ \A s \in 1 .. Len(rows) : rows'[s] = rows[s]
    BY CreateAppends
  <2>2. DOMAIN rows' = 1 .. Len(rows')
    BY CreateAppends, LenProperties
  <2> QED
    BY <2>1, <2>2 DEF Recorded, Genesis
<1>2. CASE RemoveRows \/ Tick \/ UNCHANGED <<now, rows, live, anchor>>
  <2>1. rows' = rows
    BY <1>2 DEF RemoveRows, Tick
  <2> QED
    BY <2>1 DEF Recorded, Genesis
<1> QED
  BY <1>1, <1>2, RecordChanges

\* Every step of the program leaves the sweep well typed.
LEMMA SweepTyped == ASSUME RecordInv, [Next]_vars PROVE SweepOK'
<1> USE InvParts, Numbers
<1>1. Recorded \subseteq Recorded'
  BY RecordedGrows
<1>2. CASE StartSweep
  <2>1. PICK x \in live : x = Min(live)
    BY <1>2, LeastMember DEF StartSweep
  <2>2. rows[Min(live)].at \in Months
    BY <2>1
  <2> DEFINE D == {m \in Months : Due(m)}
  <2>3. D \in SUBSET Nat /\ D # {} /\ MaxTime \in Nat /\ \A m \in D : m <= MaxTime
    BY <1>2, <2>2, BoundsAssumption DEF StartSweep, Months
  <2>4. Max(D) \in Months
    <3>1. Max(D) \in D
      BY <2>3, GreatestMember
    <3> QED
      BY <3>1
  <2>5. sweep' = [NoSweep EXCEPT !.pc = "period", !.month = rows[Min(live)].at, !.last = Max(D)]
    BY <1>2 DEF StartSweep
  <2> HIDE DEF D
  <2> QED
    BY <2>2, <2>4, <2>5 DEF SweepOK, NoSweep
<1>3. CASE Drain
  <2>1. Prefix(sweep.month) \subseteq Recorded
    BY DEF Prefix, RowsOK
  <2> QED
    BY <1>1, <1>3, <2>1 DEF Drain, SweepOK
<1>4. CASE DrainFails \/ Crash
  <2>1. 0 \in Months
    BY BoundsAssumption DEF Months
  <2> QED
    BY <1>4, <2>1 DEF DrainFails, Crash, SweepOK, NoSweep
<1>5. CASE RemoveRows
  BY <1>1, <1>5 DEF RemoveRows, SweepOK
<1>6. CASE Promote
  BY <1>1, <1>6 DEF Promote, SweepOK
<1>7. CASE Gzip \/ Gzipped
  BY <1>1, <1>7 DEF Gzip, Gzipped, SweepOK
<1>8. CASE NextPeriod
  <2>1. 0 \in Months
    BY BoundsAssumption DEF Months
  <2>2. CASE sweep.month < sweep.last /\ sweep' = [sweep EXCEPT !.pc = "period", !.month = @ + 1]
    <3>1. sweep.month \in 0 .. MaxTime /\ sweep.last \in 0 .. MaxTime /\ MaxTime \in Nat
      BY BoundsAssumption DEF SweepOK, Months
    <3>2. sweep.month + 1 \in Months
      BY <2>2, <3>1 DEF Months
    <3> QED
      BY <1>1, <2>2, <3>2 DEF SweepOK
  <2>3. CASE sweep' = NoSweep
    BY <2>1, <2>3 DEF SweepOK, NoSweep
  <2> QED
    BY <1>8, <2>2, <2>3 DEF NextPeriod
<1>9. CASE UNCHANGED sweep
  BY <1>1, <1>9 DEF SweepOK
<1> QED
  BY <1>2, <1>3, <1>4, <1>5, <1>6, <1>7, <1>8, <1>9, SweepChanges

\* Every step leaves the appends well typed.
LEMMA WriterTyped == ASSUME RecordInv, [Next]_vars PROVE WriterOK'
<1> USE InvParts, Numbers
<1>1. Recorded \subseteq Recorded' /\ Genesis' = Genesis
  BY RecordedGrows
<1>2. 0 \in Months /\ MaxAttempts \in Nat /\ 1 \in 0 .. MaxAttempts /\ 0 \in 0 .. MaxAttempts
  BY BoundsAssumption DEF Months
<1> DEFINE At == [pc : {"idle", "tail", "anchor", "create"}, at : Months,
                  tries : 0 .. MaxAttempts, prev : {Genesis} \cup Recorded]
           AtNext == [pc : {"idle", "tail", "anchor", "create"}, at : Months,
                      tries : 0 .. MaxAttempts, prev : {Genesis} \cup Recorded']
<1>3. writer \in [Writers -> At] /\ At \subseteq AtNext
  BY <1>1 DEF WriterOK
<1>4. Idle \in At
  BY <1>2 DEF Idle
<1>5. SUFFICES writer' \in [Writers -> AtNext]
  BY <1>1 DEF WriterOK
<1>6. ASSUME NEW w \in Writers, NEW v \in AtNext, writer' = [writer EXCEPT ![w] = v]
      PROVE  writer' \in [Writers -> AtNext]
  BY <1>3, <1>6
<1>7. ASSUME NEW w \in Writers, BeginAppend(w)
      PROVE  writer' \in [Writers -> AtNext]
  <2>1. [Idle EXCEPT !.pc = "tail", !.at = now, !.tries = 1] \in At
    BY <1>2 DEF Idle, RowsOK
  <2>2. writer' = [writer EXCEPT ![w] = [Idle EXCEPT !.pc = "tail", !.at = now, !.tries = 1]]
    BY <1>7 DEF BeginAppend
  <2> HIDE DEF At, AtNext
  <2> QED
    BY <1>3, <1>6, <2>1, <2>2
<1>8. ASSUME NEW w \in Writers, ReadTail(w)
      PROVE  writer' \in [Writers -> AtNext]
  <2>1. live # {} => Max(live) \in Recorded
    <3> SUFFICES ASSUME live # {} PROVE Max(live) \in Recorded
      OBVIOUS
    <3>1. live \in SUBSET Nat /\ \A s \in live : s <= Len(rows)
      OBVIOUS
    <3>2. Max(live) \in live
      BY <3>1, GreatestMember
    <3> QED
      BY <3>2 DEF RowsOK
  <2>2. PICK v : v = IF live = {} THEN [writer[w] EXCEPT !.pc = "anchor"]
                     ELSE [writer[w] EXCEPT !.pc = "create", !.prev = Max(live)]
    OBVIOUS
  <2>3. v \in At
    BY <1>3, <2>1, <2>2
  <2>4. writer' = [writer EXCEPT ![w] = v]
    BY <1>8, <2>2 DEF ReadTail
  <2> HIDE DEF At, AtNext
  <2> QED
    BY <1>3, <1>6, <2>3, <2>4
<1>9. ASSUME NEW w \in Writers, ReadAnchor(w)
      PROVE  writer' \in [Writers -> AtNext]
  <2>1. anchor \in {Genesis} \cup Recorded
    BY DEF RowsOK
  <2>2. [writer[w] EXCEPT !.pc = "create", !.prev = anchor] \in At
    BY <1>3, <2>1
  <2>3. writer' = [writer EXCEPT ![w] = [writer[w] EXCEPT !.pc = "create", !.prev = anchor]]
    BY <1>3, <1>9 DEF ReadAnchor
  <2> HIDE DEF At, AtNext
  <2> QED
    BY <1>3, <1>6, <2>2, <2>3
<1>10. ASSUME NEW w \in Writers, Create(w)
       PROVE  writer' \in [Writers -> AtNext]
  <2>1. writer' = [writer EXCEPT ![w] = Idle]
    BY <1>10 DEF Create
  <2> HIDE DEF At, AtNext
  <2> QED
    BY <1>3, <1>4, <1>6, <2>1
<1>11. ASSUME NEW w \in Writers, Collide(w)
       PROVE  writer' \in [Writers -> AtNext]
  <2>1. PICK v : v = IF writer[w].tries < MaxAttempts
                     THEN [writer[w] EXCEPT !.pc = "tail", !.tries = writer[w].tries + 1]
                     ELSE Idle
    OBVIOUS
  <2>2. v \in At
    <3>1. writer[w] \in At /\ writer[w].tries \in 0 .. MaxAttempts
      BY <1>3
    <3>2. writer[w].tries < MaxAttempts => writer[w].tries + 1 \in 0 .. MaxAttempts
      BY <1>2, <3>1
    <3> QED
      BY <1>4, <2>1, <3>1, <3>2
  <2>3. writer' = [writer EXCEPT ![w] = v]
    BY <1>3, <1>11, <2>1 DEF Collide
  <2> HIDE DEF At, AtNext
  <2> QED
    BY <1>3, <1>6, <2>2, <2>3
<1>12. CASE Crash
  <2>1. writer' = [w \in Writers |-> IF w \in Cli THEN writer[w] ELSE Idle]
    BY <1>12 DEF Crash
  <2> HIDE DEF At, AtNext
  <2> QED
    BY <1>3, <1>4, <2>1
<1>13. CASE UNCHANGED writer
  <2> HIDE DEF At, AtNext
  <2> QED
    BY <1>3, <1>13
<1>14. CASE NextPeriod
  <2>1. UNCHANGED writer \/ \E w \in Writers \ Cli : BeginAppend(w)
    BY <1>14 DEF NextPeriod
  <2> QED
    BY <1>7, <1>13, <2>1
<1> QED
  BY <1>7, <1>8, <1>9, <1>10, <1>11, <1>12, <1>13, <1>14, CallChanges DEF Append_

\* What asking for a deletion reads.
LEMMA AskedOf ==
    ASSUME RecordInv, NEW d \in Deleters, AskDelete(d)
    PROVE  \E m, n \in OnDisk :
              /\ m < n /\ \A k \in OnDisk : k = m \/ n <= k
              /\ filed[n] # {} /\ form[m] = "gz"
              /\ \E b \in filed[n] :
                    /\ \A s \in filed[n] : b <= s
                    /\ swept < b /\ b <= anchor
                    /\ deleter' = [deleter EXCEPT ![d] = [pc |-> "read", month |-> m,
                                                          begins |-> [seq |-> b, prev |-> b - 1]]]
<1> USE InvParts, Numbers
<1>1. \A k \in Months : form[k] \in {"none", "gz"}
  BY DEF AskDelete
<1>2. Listed = OnDisk /\ \A k \in OnDisk : form[k] = "gz"
  BY <1>1 DEF Listed, OnDisk
<1>3. PICK m, n \in OnDisk :
          /\ m < n /\ \A k \in OnDisk : k = m \/ n <= k
          /\ filed[n] # {}
          /\ deleter' = [deleter EXCEPT ![d] = [pc |-> "read", month |-> m,
                begins |-> [seq |-> Min(filed[n]), prev |-> rows[Min(filed[n])].prev]]]
  BY <1>2 DEF AskDelete
<1>4. filed[n] \in SUBSET Nat /\ filed[n] \subseteq swept + 1 .. anchor
  BY DEF Filing
<1>5. PICK b \in filed[n] : b = Min(filed[n]) /\ \A s \in filed[n] : b <= s
  BY <1>3, <1>4, LeastMember
<1>6. swept < b /\ b <= anchor /\ b \in 1 .. Len(rows)
  BY <1>4
<1>7. rows[b].prev = b - 1
  BY <1>6
<1> QED
  BY <1>2, <1>3, <1>5, <1>6, <1>7

\* Every step leaves the deletions well typed.
LEMMA DeleterTyped == ASSUME RecordInv, [Next]_vars PROVE DeleterOK'
<1> USE InvParts, Numbers
<1>1. 0 \in Months /\ NoDelete \in [pc : {"idle", "read", "removed"}, month : Months,
                                    begins : [seq : Nat, prev : Nat]]
  BY BoundsAssumption DEF Months, NoDelete, NoEpoch
<1>2. ASSUME NEW d \in Deleters, AskDelete(d) PROVE DeleterOK'
  <2>1. PICK m \in OnDisk, n \in OnDisk :
          \E b \in filed[n] :
            /\ swept < b /\ b <= anchor
            /\ deleter' = [deleter EXCEPT ![d] = [pc |-> "read", month |-> m,
                                                  begins |-> [seq |-> b, prev |-> b - 1]]]
    BY <1>2, AskedOf
  <2>3. PICK b \in filed[n] :
            /\ swept < b /\ b <= anchor
            /\ deleter' = [deleter EXCEPT ![d] = [pc |-> "read", month |-> m,
                                                  begins |-> [seq |-> b, prev |-> b - 1]]]
    BY <2>1
  <2>2. m \in Months /\ b \in Nat /\ b - 1 \in Nat
    <3>1. m \in Months
      BY DEF OnDisk
    <3>2. b \in swept + 1 .. anchor
      BY DEF Filing
    <3> QED
      BY <3>1, <3>2
  <2> QED
    BY <2>2, <2>3 DEF DeleterOK
<1>3. ASSUME NEW d \in Deleters, RemoveFile(d) \/ AdvanceEpoch(d) PROVE DeleterOK'
  <2>1. CASE RemoveFile(d)
    <3>1. deleter' = [deleter EXCEPT ![d].pc = "removed"]
      BY <2>1 DEF RemoveFile
    <3> QED
      BY <3>1 DEF DeleterOK
  <2>2. CASE AdvanceEpoch(d)
    <3>1. deleter' = [deleter EXCEPT ![d] = NoDelete]
      BY <2>2 DEF AdvanceEpoch
    <3> QED
      BY <1>1, <3>1 DEF DeleterOK
  <2> QED
    BY <1>3, <2>1, <2>2
<1>4. CASE Crash
  BY <1>1, <1>4 DEF Crash, DeleterOK
<1>5. CASE UNCHANGED deleter
  BY <1>5 DEF DeleterOK
<1> QED
  BY <1>2, <1>3, <1>4, <1>5, CallChanges

\* Every step leaves the files well typed.
LEMMA DiskTyped == ASSUME RecordInv, [Next]_vars PROVE DiskOK'
<1> USE InvParts, Numbers
<1>1. Recorded \subseteq Recorded'
  BY RecordedGrows
<1>2. CASE Promote
  <2>1. sweep.month \in Months /\ sweep.rows \subseteq Recorded
    BY DEF SweepOK
  <2>2. \/ UNCHANGED <<form, filed>>
        \/ /\ form' = [form EXCEPT ![sweep.month] = "db"]
           /\ filed' = [filed EXCEPT ![sweep.month] = sweep.rows]
    BY <1>2 DEF Promote
  <2> QED
    BY <1>1, <2>1, <2>2 DEF DiskOK, Forms
<1>3. CASE Gzip \/ Gzipped
  <2>1. filed' = filed /\ \E f \in Forms : form' = [form EXCEPT ![sweep.month] = f]
    BY <1>3 DEF Gzip, Gzipped, Forms
  <2> QED
    BY <1>1, <2>1 DEF DiskOK
<1>4. ASSUME NEW d \in Deleters, RemoveFile(d) PROVE DiskOK'
  <2> DEFINE m == deleter[d].month
  <2>1. /\ form' = [form EXCEPT ![m] = IF @ \in {"gz", "none"} THEN "none" ELSE "db"]
        /\ filed' = [filed EXCEPT ![m] = IF form'[m] = "none" THEN {} ELSE @]
    BY <1>4 DEF RemoveFile
  <2>2. form' \in [Months -> Forms]
    BY <2>1 DEF DiskOK, Forms
  <2>3. filed' \in [Months -> SUBSET Recorded]
    BY <2>1 DEF DiskOK
  <2> QED
    BY <1>1, <2>2, <2>3 DEF DiskOK
<1>5. CASE UNCHANGED <<form, filed>>
  BY <1>1, <1>5 DEF DiskOK
<1> QED
  BY <1>2, <1>3, <1>4, <1>5, DiskChanges

\* Every step leaves the rows, the anchor and the epoch well typed.
LEMMA RowsTyped == ASSUME RecordInv, [Next]_vars PROVE RowsOK'
<1> USE InvParts, Numbers
<1>1. Recorded \subseteq Recorded' /\ Genesis' = Genesis
  BY RecordedGrows
<1>2. /\ now' \in Months /\ live' \subseteq Recorded' /\ anchor' \in {Genesis} \cup Recorded'
      /\ rows' \in Seq([prev : Nat, at : Months]) /\ Len(rows') <= MaxEvents /\ swept' \in Nat
  <2>1. CASE \E w \in Writers : Create(w)
    <3> PICK w \in Writers : Create(w)
      BY <2>1
    <3>1. /\ Len(rows') = Len(rows) + 1 /\ Len(rows') <= MaxEvents
          /\ rows' \in Seq([prev : Nat, at : Months])
          /\ live' = live \cup {Len(rows) + 1} /\ UNCHANGED <<now, anchor, swept>>
      BY CreateAppends
    <3>2. Recorded' = 1 .. Len(rows) + 1
      BY <3>1, LenProperties DEF Recorded
    <3>3. live' \subseteq Recorded'
      BY <3>1, <3>2
    <3>4. anchor' \in {Genesis} \cup Recorded'
      BY <1>1, <3>1 DEF RowsOK
    <3> QED
      BY <3>1, <3>3, <3>4
  <2>2. CASE RemoveRows
    <3>1. anchor' \in anchor .. Len(rows) /\ live' = live \ sweep.rows /\ UNCHANGED <<now, rows, swept>>
      BY <2>2, RemovalMovesAnchor
    <3>2. anchor' \in {Genesis} \cup Recorded
      BY <3>1 DEF Genesis
    <3> QED
      BY <1>1, <3>1, <3>2 DEF RowsOK
  <2>3. CASE Tick
    <3>1. now' = now + 1 /\ now < MaxTime /\ UNCHANGED <<rows, live, anchor, swept>>
      BY <2>3 DEF Tick
    <3>2. now' \in Months
      BY <3>1, BoundsAssumption DEF Months
    <3> QED
      BY <1>1, <3>1, <3>2 DEF RowsOK
  <2>4. CASE UNCHANGED <<now, rows, live, anchor>>
    BY <1>1, <2>4, RecordChanges DEF RowsOK
  <2> QED
    BY <2>1, <2>2, <2>3, <2>4, RecordChanges
<1>3. epoch' \in [seq : Nat, prev : Nat]
  <2>1. CASE RemoveRows
    <3>1. epoch' = epoch \/ epoch' = [seq |-> anchor + 1, prev |-> anchor]
      BY <2>1, RemovalMovesAnchor
    <3> QED
      BY <3>1 DEF RowsOK
  <2>2. ASSUME NEW d \in Deleters, AdvanceEpoch(d) PROVE epoch' \in [seq : Nat, prev : Nat]
    BY <2>2 DEF AdvanceEpoch, DeleterOK
  <2>3. CASE UNCHANGED epoch
    BY <2>3 DEF RowsOK
  <2> QED
    BY <2>1, <2>2, <2>3, SweepChanges
<1>4. stray' \subseteq Recorded'
  <2>1. sweep.rows \subseteq Recorded /\ stray \subseteq Recorded
    BY DEF SweepOK, RowsOK
  <2>2. stray' \subseteq stray \cup sweep.rows
    BY DiskChanges DEF Promote, Crash, Copying
  <2> QED
    BY <1>1, <2>1, <2>2
<1>5. taken' \subseteq Recorded'
  <2>1. CASE \E d \in Deleters : RemoveFile(d)
    <3> PICK d \in Deleters : RemoveFile(d)
      BY <2>1
    <3>1. taken' \subseteq taken \cup filed[deleter[d].month]
      BY DEF RemoveFile
    <3>2. filed[deleter[d].month] \subseteq Recorded
      BY DEF DeleterOK, DiskOK
    <3> QED
      BY <1>1, <3>1, <3>2 DEF RowsOK
  <2>2. CASE UNCHANGED taken
    BY <1>1, <2>2 DEF RowsOK
  <2> QED
    BY <2>1, <2>2, DiskChanges
<1> QED
  BY <1>2, <1>3, <1>4, <1>5 DEF RowsOK

\* Every step keeps the type invariant.
LEMMA TypesKept == ASSUME RecordInv, [Next]_vars PROVE TypeOK'
  BY TypeParts, SweepTyped, WriterTyped, DeleterTyped, DiskTyped, RowsTyped

\* The verification.
LEMMA CheckChanges ==
    ASSUME [Next]_vars
    PROVE  \/ /\ check' = Overlapped
              /\ RemoveRows \/ Promote \/ \E d \in Deleters : RemoveFile(d) \/ AdvanceEpoch(d)
           \/ BeginCheck \/ CheckAnchor \/ CheckArchives \/ CheckLive \/ Crash
           \/ /\ UNCHANGED check
              /\ ~RemoveRows /\ ~Promote /\ \A d \in Deleters : ~RemoveFile(d) /\ ~AdvanceEpoch(d)
<1>1. RemoveRows \/ Promote \/ (\E d \in Deleters : RemoveFile(d) \/ AdvanceEpoch(d)) => check' = Overlapped
  BY DEF RemoveRows, Promote, RemoveFile, AdvanceEpoch
<1>2. CASE \E w \in Writers : Append_(w) \/ ReadTail(w) \/ ReadAnchor(w) \/ Create(w) \/ Collide(w)
  BY <1>1, <1>2 DEF Append_, ReadTail, ReadAnchor, Create, Collide
<1>3. CASE StartSweep \/ Drain \/ DrainFails \/ RemoveRows \/ Promote
  BY <1>1, <1>3 DEF StartSweep, Drain, DrainFails
<1>4. CASE Gzip \/ Gzipped \/ NextPeriod
  BY <1>1, <1>4 DEF Gzip, Gzipped, NextPeriod
<1>5. CASE \E d \in Deleters : AskDelete(d) \/ RemoveFile(d) \/ AdvanceEpoch(d)
  BY <1>1, <1>5 DEF AskDelete
<1>6. CASE BeginCheck \/ CheckAnchor \/ CheckArchives \/ CheckLive \/ Crash
  BY <1>6
<1>7. CASE Tick \/ UNCHANGED vars
  BY <1>1, <1>7 DEF Tick, vars
<1> QED
  BY <1>2, <1>3, <1>4, <1>5, <1>6, <1>7 DEF Next

\* Every step leaves the verification well typed.
LEMMA CheckTyped == ASSUME RecordInv, [Next]_vars PROVE CheckOK'
<1> USE InvParts, Numbers
<1> DEFINE At == [pc : {"idle", "epoch", "anchor", "live", "said"}, epoch : [seq : Nat, prev : Nat],
                  anchor : Nat, last : Nat, overlap : BOOLEAN,
                  said : {"nothing", "broken", "incomplete", "whole"}]
<1>1. check \in At
  BY DEF CheckOK
<1>2. SUFFICES check' \in At
  BY DEF CheckOK
<1>3. NoCheck \in At
  BY DEF NoCheck, NoEpoch, Genesis
<1>4. CASE check' = Overlapped
  <2>1. (check.overlap \/ check.pc # "idle") \in BOOLEAN
    OBVIOUS
  <2> QED
    BY <1>1, <1>4, <2>1 DEF Overlapped
<1>5. CASE BeginCheck
  <2> DEFINE b == sweep.pc = "deleted" \/ \E d \in Deleters : deleter[d].pc = "removed"
  <2>1. check' = [NoCheck EXCEPT !.pc = "epoch", !.epoch = epoch, !.overlap = b]
    BY <1>5 DEF BeginCheck
  <2>2. b \in BOOLEAN /\ epoch \in [seq : Nat, prev : Nat]
    BY DEF RowsOK
  <2> HIDE DEF b
  <2> QED
    BY <1>3, <2>1, <2>2
<1>6. CASE CheckAnchor
  BY <1>1, <1>6 DEF CheckAnchor
<1>7. CASE CheckArchives
  <2>1. Archived # {} => Max(Archived) \in Nat
    <3> SUFFICES ASSUME Archived # {} PROVE Max(Archived) \in Nat
      OBVIOUS
    <3>1. Archived \in SUBSET Nat /\ \A s \in Archived : s <= anchor
      BY ArchivedRows
    <3> QED
      BY <3>1, GreatestMember
  <2>2. PICK last \in Nat : last = IF Archived = {} THEN Genesis ELSE Max(Archived)
    BY <2>1 DEF Genesis
  <2>3. \/ check' = [check EXCEPT !.pc = "live", !.last = last]
        \/ check' = [check EXCEPT !.pc = "said", !.said = "broken"]
    BY <1>7, <2>2 DEF CheckArchives
  <2>4. CASE check' = [check EXCEPT !.pc = "live", !.last = last]
    BY <1>1, <2>2, <2>4
  <2>5. CASE check' = [check EXCEPT !.pc = "said", !.said = "broken"]
    BY <1>1, <2>5
  <2> QED
    BY <2>3, <2>4, <2>5
<1>8. CASE CheckLive
  <2>1. \E said \in {"broken", "incomplete", "whole"} :
            check' = [check EXCEPT !.pc = "said", !.said = said]
    BY <1>8 DEF CheckLive
  <2> QED
    BY <1>1, <2>1
<1>9. CASE Crash \/ UNCHANGED check
  BY <1>1, <1>3, <1>9 DEF Crash
<1> QED
  BY <1>4, <1>5, <1>6, <1>7, <1>8, <1>9, CheckChanges

-----------------------------------------------------------------------------
(* The appends *)

\* What Writing says of one append.
WritingOf(w) ==
    /\ writer[w].pc # "idle" => writer[w].at <= now /\ now <= writer[w].at + 1
    /\ writer[w].pc = "anchor" => \A s \in live : writer[w].at <= rows[s].at + 1
    /\ writer[w].pc = "create" =>
          /\ anchor <= writer[w].prev
          /\ \A s \in Recorded : writer[w].prev < s => writer[w].at <= rows[s].at + 1

\* An append is unmoved by a step that changes neither it nor the table.
LEMMA WritingStays ==
    ASSUME RecordInv, NEW w \in Writers, writer'[w] = writer[w],
           UNCHANGED <<now, rows, live, anchor>>
    PROVE  WritingOf(w)'
<1>1. WritingOf(w)
  BY InvParts DEF Writing, WritingOf
<1> QED
  BY <1>1 DEF WritingOf, Recorded

\* A row an append may follow, at most one month older than it, is not due.
LEMMA AppendIsNotLate ==
    \A at, month, last, time, begun \in Nat :
        ~(/\ at <= month /\ month <= last /\ last + 2 < time
          /\ begun <= at + 1 /\ time <= begun + 1)
  OBVIOUS

\* An append keeps up with the calendar and the table, whatever others do.
LEMMA WritingKept == ASSUME RecordInv, [Next]_vars PROVE Writing'
<1> USE InvParts, Numbers
<1>0. SUFFICES ASSUME NEW w \in Writers PROVE WritingOf(w)'
  BY DEF Writing, WritingOf
<1>1. writer[w].at \in Nat /\ writer[w].prev \in Nat /\ writer[w].prev <= Len(rows)
      /\ writer[w].pc \in {"idle", "tail", "anchor", "create"} /\ DOMAIN writer = Writers
  <2>1. writer[w] \in [pc : {"idle", "tail", "anchor", "create"}, at : Months,
                       tries : 0 .. MaxAttempts, prev : {Genesis} \cup Recorded]
    BY DEF WriterOK
  <2> QED
    BY <2>1 DEF Genesis, WriterOK
<1>2. WritingOf(w)
  BY DEF Writing, WritingOf
<1>3. ASSUME NEW v \in Writers, BeginAppend(v), UNCHANGED <<now, rows, live, anchor>>
      PROVE  WritingOf(w)'
  <2>1. writer' = [writer EXCEPT ![v] = [Idle EXCEPT !.pc = "tail", !.at = now, !.tries = 1]]
    BY <1>3 DEF BeginAppend
  <2>2. CASE w = v
    <3>1. writer'[w].pc = "tail" /\ writer'[w].at = now
      BY <1>1, <2>1, <2>2 DEF Idle
    <3> QED
      BY <1>3, <3>1 DEF WritingOf
  <2>3. CASE w # v
    <3>1. writer'[w] = writer[w]
      BY <1>1, <2>1, <2>3
    <3> QED
      BY <1>3, <3>1, WritingStays
  <2> QED
    BY <2>2, <2>3
<1>4. ASSUME NEW v \in Writers, ReadTail(v) PROVE WritingOf(w)'
  <2>1. UNCHANGED <<now, rows, live, anchor>>
    BY <1>4 DEF ReadTail
  <2>2. writer' = [writer EXCEPT ![v] = IF live = {} THEN [@ EXCEPT !.pc = "anchor"]
                                        ELSE [@ EXCEPT !.pc = "create", !.prev = Max(live)]]
        /\ writer[v].pc = "tail"
    BY <1>4 DEF ReadTail
  <2>3. CASE w # v
    BY <1>1, <2>1, <2>2, <2>3, WritingStays
  <2>4. CASE w = v /\ live = {}
    <3>1. writer'[w] = [writer[w] EXCEPT !.pc = "anchor"]
      BY <1>1, <2>2, <2>4
    <3>2. writer'[w].pc = "anchor" /\ writer'[w].at = writer[w].at
      BY <3>1, InvParts DEF WriterOK
    <3> QED
      BY <1>2, <2>1, <2>2, <2>4, <3>2 DEF WritingOf
  <2>5. CASE w = v /\ live # {}
    <3>1. writer'[w] = [writer[w] EXCEPT !.pc = "create", !.prev = Max(live)]
      BY <1>1, <2>2, <2>5
    <3>2. writer'[w].pc = "create" /\ writer'[w].at = writer[w].at /\ writer'[w].prev = Max(live)
      BY <3>1, InvParts DEF WriterOK
    <3>3. live = anchor + 1 .. Len(rows) /\ anchor < Len(rows)
      BY <2>5 DEF Chained
    <3>4. writer'[w].prev = Len(rows)
      BY <3>2, <3>3, IntervalMax
    <3>5. Recorded' = 1 .. Len(rows)
      BY <2>1 DEF Recorded
    <3> QED
      BY <1>2, <2>1, <2>2, <2>5, <3>2, <3>3, <3>4, <3>5 DEF WritingOf
  <2> QED
    BY <2>3, <2>4, <2>5
<1>5. ASSUME NEW v \in Writers, ReadAnchor(v) PROVE WritingOf(w)'
  <2>1. UNCHANGED <<now, rows, live, anchor>> /\ writer[v].pc = "anchor"
        /\ writer' = [writer EXCEPT ![v] = [writer[v] EXCEPT !.pc = "create", !.prev = anchor]]
    BY <1>1, <1>5 DEF ReadAnchor
  <2>2. CASE w # v
    BY <1>1, <2>1, <2>2, WritingStays
  <2>3. CASE w = v
    <3>1. writer'[w] = [writer[w] EXCEPT !.pc = "create", !.prev = anchor]
      BY <1>1, <2>1, <2>3
    <3>2. writer'[w].pc = "create" /\ writer'[w].at = writer[w].at /\ writer'[w].prev = anchor
      BY <3>1 DEF WriterOK
    <3>3. \A s \in Recorded : anchor < s => s \in live
      OBVIOUS
    <3>4. Recorded' = Recorded
      BY <2>1 DEF Recorded
    <3> QED
      BY <1>2, <2>1, <2>3, <3>2, <3>3, <3>4 DEF WritingOf
  <2> QED
    BY <2>2, <2>3
<1>6. ASSUME NEW v \in Writers, Collide(v) PROVE WritingOf(w)'
  <2>1. UNCHANGED <<now, rows, live, anchor>> /\ writer[v].pc = "create"
        /\ \/ writer' = [writer EXCEPT ![v] = [writer[v] EXCEPT !.pc = "tail",
                                                          !.tries = writer[v].tries + 1]]
           \/ writer' = [writer EXCEPT ![v] = Idle]
    BY <1>1, <1>6 DEF Collide
  <2>2. CASE w # v
    BY <1>1, <2>1, <2>2, WritingStays
  <2>3. CASE w = v
    <3>1. \/ writer'[w] = [writer[w] EXCEPT !.pc = "tail", !.tries = writer[w].tries + 1]
          \/ writer'[w] = Idle
      BY <1>1, <2>1, <2>3
    <3>2. \/ writer'[w].pc = "tail" /\ writer'[w].at = writer[w].at
          \/ writer'[w].pc = "idle"
      <4>1. DOMAIN writer[w] = {"pc", "at", "tries", "prev"}
        BY DEF WriterOK
      <4>2. CASE writer'[w] = [writer[w] EXCEPT !.pc = "tail", !.tries = writer[w].tries + 1]
        BY <4>1, <4>2
      <4>3. CASE writer'[w] = Idle
        BY <4>3 DEF Idle
      <4> QED
        BY <3>1, <4>2, <4>3
    <3> QED
      BY <1>2, <2>1, <2>3, <3>2 DEF WritingOf
  <2> QED
    BY <2>2, <2>3
<1>7. ASSUME NEW v \in Writers, Create(v) PROVE WritingOf(w)'
  <2>1. /\ Len(rows') = Len(rows) + 1 /\ live' = live \cup {Len(rows) + 1}
        /\ \A s \in 1 .. Len(rows) : rows'[s] = rows[s]
        /\ rows'[Len(rows) + 1].at = writer[v].at
        /\ writer[v].at <= now /\ now <= writer[v].at + 1
        /\ now' = now /\ anchor' = anchor
    BY <1>7, CreateAppends
  <2>2. Recorded' = 1 .. Len(rows) + 1
    <3>1. rows' \in Seq([prev : Nat, at : Months])
      BY <1>7, CreateAppends
    <3> QED
      BY <2>1, <3>1, LenProperties DEF Recorded
  <2>3. writer' = [writer EXCEPT ![v] = Idle]
    BY <1>7 DEF Create
  <2>4. CASE w = v
    <3>1. writer'[w].pc = "idle"
      BY <1>1, <2>3, <2>4 DEF Idle
    <3> QED
      BY <3>1 DEF WritingOf
  <2>5. CASE w # v
    <3>1. writer'[w] = writer[w]
      BY <1>1, <2>3, <2>5
    <3>2. ASSUME writer[w].pc = "anchor", NEW s \in live'
          PROVE  writer[w].at <= rows'[s].at + 1
      <4>1. CASE s \in live
        BY <1>2, <2>1, <3>2, <4>1 DEF WritingOf
      <4>2. CASE s = Len(rows) + 1
        <5>1. writer[v].at \in Nat
          BY <2>1 DEF WriterOK
        <5>2. writer[w].at <= now
          BY <1>2, <3>2 DEF WritingOf
        <5> QED
          BY <1>1, <2>1, <4>2, <5>1, <5>2
      <4> QED
        BY <2>1, <4>1, <4>2
    <3>3. ASSUME writer[w].pc = "create", NEW s \in Recorded', writer[w].prev < s
          PROVE  writer[w].at <= rows'[s].at + 1
      <4>1. CASE s \in Recorded
        BY <1>2, <2>1, <3>3, <4>1 DEF WritingOf
      <4>2. CASE s = Len(rows) + 1
        <5>1. writer[v].at \in Nat
          BY <2>1 DEF WriterOK
        <5>2. writer[w].at <= now
          BY <1>2, <3>3 DEF WritingOf
        <5> QED
          BY <1>1, <2>1, <4>2, <5>1, <5>2
      <4> QED
        BY <2>2, <4>1, <4>2
    <3> QED
      BY <1>2, <2>1, <3>1, <3>2, <3>3 DEF WritingOf
  <2> QED
    BY <2>4, <2>5
<1>8. CASE RemoveRows
  <2>1. /\ anchor' \in anchor .. Len(rows)
        /\ anchor < anchor' => rows[anchor'].at <= sweep.month
        /\ live' = live \ sweep.rows
        /\ UNCHANGED <<now, rows, writer>> /\ sweep.pc = "copied"
    BY <1>8, RemovalMovesAnchor
  <2>2. sweep.month <= sweep.last /\ sweep.last + 2 < now /\ sweep.month \in Nat /\ sweep.last \in Nat
    BY <2>1 DEF Rotating, Due, SweepOK
  <2>3. ASSUME writer[w].pc = "create" PROVE anchor' <= writer[w].prev
    <3> SUFFICES ASSUME writer[w].prev < anchor' PROVE FALSE
      BY <1>1, <2>1
    <3>1. anchor <= writer[w].prev
      BY <1>2, <2>3 DEF WritingOf
    <3>2. anchor < anchor' /\ anchor' \in 1 .. Len(rows)
      BY <1>1, <2>1, <3>1
    <3>3. rows[anchor'].at <= sweep.month /\ rows[anchor'].at \in Nat
      BY <2>1, <3>2
    <3>4. writer[w].at <= rows[anchor'].at + 1 /\ now <= writer[w].at + 1
      BY <1>2, <2>3, <3>2 DEF WritingOf
    <3>5. writer[w].at \in Nat /\ now \in Nat
      BY <1>1
    <3>6. sweep.last \in Nat
      BY <2>2
    <3> QED
      BY <2>2, <3>3, <3>4, <3>5, <3>6, AppendIsNotLate
  <2>4. Recorded' = Recorded
    BY <2>1 DEF Recorded
  <2> QED
    BY <1>2, <2>1, <2>3, <2>4 DEF WritingOf
<1>9. CASE Tick
  <2>1. /\ writer[w].pc # "idle" => writer[w].at = now
        /\ now' = now + 1 /\ UNCHANGED <<rows, live, anchor, writer>>
    BY <1>9 DEF Tick
  <2> QED
    BY <1>2, <2>1 DEF WritingOf, Recorded
<1>10. CASE Crash
  <2>1. writer' = [v \in Writers |-> IF v \in Cli THEN writer[v] ELSE Idle]
        /\ UNCHANGED <<now, rows, live, anchor>>
    BY <1>10 DEF Crash
  <2>2. CASE w \in Cli
    BY <2>1, <2>2, WritingStays
  <2>3. CASE w \notin Cli
    <3>1. writer'[w].pc = "idle"
      BY <2>1, <2>3 DEF Idle
    <3> QED
      BY <3>1 DEF WritingOf
  <2> QED
    BY <2>2, <2>3
<1>11. CASE NextPeriod
  <2>1. UNCHANGED <<now, rows, live, anchor>>
    BY <1>11 DEF NextPeriod
  <2>2. UNCHANGED writer \/ \E v \in Writers : BeginAppend(v)
    BY <1>11 DEF NextPeriod
  <2> QED
    BY <1>3, <2>1, <2>2, WritingStays
<1>12. ASSUME NEW v \in Writers, Append_(v) PROVE WritingOf(w)'
  BY <1>3, <1>12 DEF Append_
<1>13. CASE UNCHANGED writer /\ UNCHANGED <<now, rows, live, anchor>>
  BY <1>13, WritingStays
<1> QED
  BY <1>4, <1>5, <1>6, <1>7, <1>8, <1>9, <1>10, <1>11, <1>12, <1>13, RecordChanges, CallChanges

-----------------------------------------------------------------------------
(* The archives *)

\* Months that are due stay due.
LEMMA DueStays ==
    ASSUME RecordInv, [Next]_vars, NEW m \in Nat, Due(m)
    PROVE  Due(m)'
<1> USE InvParts, Numbers
<1>1. now' = now \/ now' = now + 1
  BY RecordChanges, CreateAppends, RemovalMovesAnchor DEF Tick
<1> QED
  BY <1>1 DEF Due

\* Months of the table never fall back to one that is due.
LEMMA RowsStayLate ==
    ASSUME RecordInv, [Next]_vars, NEW m \in Nat, Due(m), \A s \in live : m < rows[s].at
    PROVE  \A s \in live' : m < rows'[s].at
<1> USE InvParts, Numbers
<1>1. CASE \E w \in Writers : Create(w)
  <2> PICK w \in Writers : Create(w)
    BY <1>1
  <2>1. /\ live' = live \cup {Len(rows) + 1}
        /\ \A s \in 1 .. Len(rows) : rows'[s] = rows[s]
        /\ rows'[Len(rows) + 1].at = writer[w].at
        /\ now <= writer[w].at + 1
    BY CreateAppends
  <2>2. m < writer[w].at
    <3>1. writer[w].at \in Nat
      BY DEF WriterOK
    <3> QED
      BY <2>1, <3>1 DEF Due
  <2>3. ASSUME NEW s \in live PROVE m < rows'[s].at
    <3>1. rows'[s] = rows[s]
      BY <2>1
    <3> QED
      BY <3>1
  <2> QED
    BY <2>1, <2>2, <2>3
<1>2. CASE RemoveRows \/ Tick \/ UNCHANGED <<now, rows, live, anchor>>
  <2>1. live' \subseteq live /\ rows' = rows
    BY <1>2, RemovalMovesAnchor DEF Tick
  <2> QED
    BY <2>1
<1> QED
  BY <1>1, <1>2, RecordChanges

\* What the steps of a sweep and of a deletion say of files and anchor.
LEMMA AnchorGrows ==
    ASSUME RecordInv, [Next]_vars
    PROVE  anchor <= anchor' /\ anchor' \in Nat /\ anchor' <= Len(rows') /\ swept' = swept
<1> USE InvParts, Numbers
<1>1. CASE \E w \in Writers : Create(w)
  BY <1>1, CreateAppends
<1>2. CASE RemoveRows
  BY <1>2, RemovalMovesAnchor
<1>3. CASE Tick \/ UNCHANGED <<now, rows, live, anchor>>
  BY <1>3, RecordChanges DEF Tick
<1> QED
  BY <1>1, <1>2, <1>3, RecordChanges

\* What Filing says of one archive.
FiledRight(m) ==
    /\ Due(m) /\ filed[m] \subseteq swept + 1 .. anchor
    /\ \A s \in live : m < rows[s].at

\* What is filed right stays so, as long as it holds rows the anchor has passed.
LEMMA FiledStays ==
    ASSUME RecordInv, [Next]_vars, NEW m \in Nat, filed'[m] = filed[m] \/ filed'[m] = sweep.rows,
           Due(m), filed'[m] \subseteq swept + 1 .. anchor, \A s \in live : m < rows[s].at
    PROVE  FiledRight(m)'
<1> USE InvParts, Numbers
<1>1. Due(m)' /\ \A s \in live' : m < rows'[s].at
  BY DueStays, RowsStayLate
<1>2. swept + 1 .. anchor \subseteq swept' + 1 .. anchor'
  BY AnchorGrows
<1> QED
  BY <1>1, <1>2 DEF FiledRight

\* The archives stay in order as a sweep files and a deletion removes.
LEMMA FilingKept == ASSUME RecordInv, [Next]_vars PROVE Filing'
<1> USE InvParts, Numbers
<1>1. \A m \in OnDisk : m \in Nat /\ FiledRight(m)
  BY ArchivedRows DEF Filing, FiledRight
<1>2. \A m, n \in OnDisk : m < n => \A s \in filed[m], t \in filed[n] : s < t
  BY DEF Filing
<1>3. ASSUME OnDisk' \subseteq OnDisk, \A k \in OnDisk' : filed'[k] = filed[k]
      PROVE  Filing'
  <2>1. ASSUME NEW k \in OnDisk' PROVE FiledRight(k)'
    <3>1. k \in OnDisk /\ filed'[k] = filed[k]
      BY <1>3
    <3> QED
      BY <1>1, <3>1, FiledStays DEF FiledRight
  <2> QED
    BY <1>2, <1>3, <2>1 DEF Filing, FiledRight
<1>4. CASE Promote
  <2>0. PICK M \in Nat : M = sweep.month /\ M \in Months
    BY <1>4, PromoteDisk
  <2>1. M \in Nat /\ \A k \in OnDisk : k < M
    BY <1>4, <2>0, PromoteDisk
  <2>2. CASE /\ OnDisk' = OnDisk \cup {M} /\ filed'[M] = sweep.rows
             /\ \A k \in Months : k # M => filed'[k] = filed[k] /\ form'[k] = form[k]
    <3>1. \A k \in OnDisk : k \in Months /\ k # M /\ filed'[k] = filed[k]
      BY <2>1, <2>2 DEF OnDisk
    <3>2. FiledRight(M)'
      <4>1. sweep.pc = "deleted"
        BY <1>4 DEF Promote
      <4>2. /\ sweep.rows \subseteq swept + 1 .. anchor
            /\ \A s \in live : M < rows[s].at
            /\ M <= sweep.last /\ Due(sweep.last)
        BY <2>0, <4>1 DEF Rotating
      <4>3. Due(M)
        BY <2>1, <4>2 DEF Due, SweepOK
      <4>4. filed'[M] = sweep.rows /\ filed'[M] \subseteq swept + 1 .. anchor
        BY <2>2, <4>2
      <4> QED
        BY <2>1, <4>2, <4>3, <4>4, FiledStays
    <3>3. \A k \in OnDisk : FiledRight(k)'
      BY <1>1, <3>1, FiledStays DEF FiledRight
    <3>4. \A k \in OnDisk : \A s \in filed[k], t \in sweep.rows : s < t
      <4>1. sweep.pc = "deleted"
        BY <1>4 DEF Promote
      <4> QED
        BY <4>1, ArchivedRows DEF Rotating
    <3>5. ASSUME NEW m \in OnDisk', NEW n \in OnDisk', m < n, NEW s \in filed'[m], NEW t \in filed'[n]
          PROVE  s < t
      <4>1. CASE m \in OnDisk /\ n \in OnDisk
        BY <1>2, <3>1, <3>5, <4>1
      <4>2. CASE m \in OnDisk /\ n = M
        BY <2>2, <3>1, <3>4, <4>2
      <4>3. m # M
        BY <1>1, <2>1, <2>2, <3>5
      <4> QED
        BY <2>2, <4>1, <4>2, <4>3
    <3>6. \A k \in OnDisk' : FiledRight(k)'
      BY <2>2, <3>2, <3>3
    <3>7. \A m, n \in OnDisk' : m < n => \A s \in filed'[m], t \in filed'[n] : s < t
      BY <3>5
    <3> QED
      BY <3>6, <3>7 DEF Filing, FiledRight
  <2>3. CASE UNCHANGED <<form, filed>>
    BY <1>3, <2>3, SameDisk
  <2> QED
    BY <1>4, <2>0, <2>2, <2>3, PromoteDisk
<1>5. CASE Gzip \/ Gzipped
  BY <1>3, <1>5, GzipDisk
<1>6. ASSUME NEW d \in Deleters, RemoveFile(d) PROVE Filing'
  BY <1>3, <1>6, RemoveDisk
<1>7. CASE UNCHANGED <<form, filed>>
  BY <1>3, <1>7, SameDisk
<1> QED
  BY <1>4, <1>5, <1>6, <1>7, DiskChanges

-----------------------------------------------------------------------------
(* The sweep *)

\* The steps that move nothing but an append, a deletion, a verification or
\* the calendar.
LEMMA SweepStandsStill ==
    ASSUME RecordInv, [Next]_vars, UNCHANGED sweep
    PROVE  /\ ~RemoveRows /\ ~Promote /\ ~Gzip /\ ~Gzipped
           /\ Crash => sweep.pc = "idle"
           /\ anchor' = anchor
           /\ (\E d \in Deleters : RemoveFile(d)) \/ UNCHANGED <<form, filed>>
           /\ OnDisk' \subseteq OnDisk /\ Archived' \subseteq Archived
<1> USE InvParts
<1>1. ~RemoveRows /\ ~Promote /\ ~Gzip /\ ~Gzipped
  <2>1. DOMAIN sweep = {"pc", "month", "last", "rows"}
    BY DEF SweepOK
  <2> QED
    BY <2>1 DEF RemoveRows, Promote, Gzip, Gzipped
<1>2. Crash => sweep.pc = "idle"
  BY DEF Crash, NoSweep
<1>3. anchor' = anchor
  <2>1. CASE \E w \in Writers : Create(w)
    BY <2>1, CreateAppends
  <2> QED
    BY <1>1, <2>1, RecordChanges DEF Tick
<1>4. (\E d \in Deleters : RemoveFile(d)) \/ UNCHANGED <<form, filed>>
  BY <1>1, DiskChanges
<1>5. OnDisk' \subseteq OnDisk /\ Archived' \subseteq Archived
  BY <1>4, RemoveDisk, SameDisk
<1> QED
  BY <1>1, <1>2, <1>3, <1>4, <1>5

\* A row inserted now is later than any month due.
LEMMA NewRowIsLate ==
    ASSUME RecordInv, [Next]_vars, NEW m \in Nat, Due(m), NEW s \in live' \ live
    PROVE  m < rows'[s].at /\ s = Len(rows) + 1
<1> USE InvParts, Numbers
<1>1. CASE \E w \in Writers : Create(w)
  <2> PICK w \in Writers : Create(w)
    BY <1>1
  <2>1. /\ live' = live \cup {Len(rows) + 1}
        /\ rows'[Len(rows) + 1].at = writer[w].at
        /\ now <= writer[w].at + 1
    BY CreateAppends
  <2>2. m < writer[w].at
    <3>1. writer[w].at \in Nat
      BY DEF WriterOK
    <3> QED
      BY <2>1, <3>1 DEF Due
  <2> QED
    BY <2>1, <2>2
<1>2. CASE RemoveRows \/ Tick \/ UNCHANGED <<now, rows, live, anchor>>
  BY <1>2, RemovalMovesAnchor DEF Tick
<1> QED
  BY <1>1, <1>2, RecordChanges

\* The types and the months of the sweep.
LEMMA SweepNumbers ==
    ASSUME RecordInv
    PROVE  /\ sweep.month \in Months /\ sweep.last \in Months
           /\ sweep.month \in Nat /\ sweep.last \in Nat /\ sweep.rows \subseteq Recorded
           /\ sweep.pc \in {"idle", "period", "copied", "deleted", "promoted", "gzip", "next"}
           /\ DOMAIN sweep = {"pc", "month", "last", "rows"}
           /\ sweep.pc # "idle" => Due(sweep.month) /\ Due(sweep.last) /\ sweep.month <= sweep.last
<1> USE InvParts, Numbers
<1>1. /\ sweep.month \in Months /\ sweep.last \in Months /\ sweep.rows \subseteq Recorded
      /\ sweep.pc \in {"idle", "period", "copied", "deleted", "promoted", "gzip", "next"}
      /\ DOMAIN sweep = {"pc", "month", "last", "rows"}
  BY DEF SweepOK
<1>2. sweep.pc # "idle" => sweep.month <= sweep.last /\ Due(sweep.last)
  BY DEF Rotating
<1>3. sweep.month \in Nat /\ sweep.last \in Nat
  BY <1>1
<1>4. sweep.pc # "idle" => Due(sweep.month)
  BY <1>2, <1>3 DEF Due
<1> QED
  BY <1>1, <1>2, <1>3, <1>4

\* The sweep stays where its rows are.
LEMMA RotatingKept == ASSUME RecordInv, [Next]_vars PROVE Rotating'
<1> USE InvParts, Numbers, SweepNumbers
<1>0. PICK M \in Nat, L \in Nat : M = sweep.month /\ L = sweep.last
  OBVIOUS
<1>1. sweep.pc # "idle" => M <= L /\ Due(L)' /\ Due(M)
  BY <1>0, DueStays
<1>2. CASE UNCHANGED sweep
  <2>1. OnDisk' \subseteq OnDisk /\ Archived' \subseteq Archived /\ anchor' = anchor
    BY <1>2, SweepStandsStill
  <2>2. sweep.pc # "idle" => sweep'.month <= sweep'.last /\ Due(sweep.last)'
    BY <1>0, <1>1, <1>2
  <2>3. /\ sweep.pc \in {"period", "copied", "deleted"} => \A m \in OnDisk' : m < M
        /\ sweep.pc \in {"promoted", "gzip", "next"} => \A m \in OnDisk' : m <= M
    BY <1>0, <2>1 DEF Rotating
  <2>4. ASSUME sweep.pc = "copied"
        PROVE  /\ \E k \in anchor' .. Len(rows') :
                     sweep.rows = anchor' + 1 .. k /\ (anchor' < k => rows'[k].at <= M)
               /\ \A s \in live' \ sweep.rows : M < rows'[s].at
    <3>1. PICK k \in anchor .. Len(rows) :
              sweep.rows = anchor + 1 .. k /\ (anchor < k => rows[k].at <= M)
      BY <1>0, <2>4 DEF Rotating
    <3>2. Len(rows') >= Len(rows) /\ Len(rows') \in Nat
      <4>1. CASE \E w \in Writers : Create(w)
        BY <4>1, CreateAppends
      <4>2. CASE RemoveRows \/ Tick \/ UNCHANGED <<now, rows, live, anchor>>
        BY <4>2, RemovalMovesAnchor DEF Tick
      <4> QED
        BY <4>1, <4>2, RecordChanges
    <3>3. k \in anchor' .. Len(rows')
      BY <2>1, <3>2
    <3>4. anchor < k => rows'[k] = rows[k]
      <4>1. anchor < k => k \in Recorded
        OBVIOUS
      <4> QED
        BY <4>1, RecordedGrows
    <3>5. ASSUME NEW s \in live' \ sweep.rows PROVE M < rows'[s].at
      <4>1. CASE s \in live
        <5>1. M < rows[s].at
          BY <1>0, <2>4, <3>5, <4>1 DEF Rotating
        <5>2. rows'[s] = rows[s]
          BY <4>1, RecordedGrows
        <5> QED
          BY <5>1, <5>2
      <4>2. CASE s \notin live
        BY <1>1, <2>4, <3>5, <4>2, NewRowIsLate
      <4> QED
        BY <4>1, <4>2
    <3> QED
      BY <2>1, <3>1, <3>3, <3>4, <3>5
  <2>5. ASSUME sweep.pc = "deleted"
        PROVE  /\ sweep.rows \subseteq swept' + 1 .. anchor'
               /\ \A s \in live' : M < rows'[s].at
               /\ \A s \in Archived', t \in sweep.rows : s < t
    <3>1. /\ sweep.rows \subseteq swept + 1 .. anchor
          /\ \A s \in live : M < rows[s].at
          /\ \A s \in Archived, t \in sweep.rows : s < t
      BY <1>0, <2>5 DEF Rotating
    <3>2. \A s \in live' : M < rows'[s].at
      BY <1>1, <2>5, <3>1, RowsStayLate
    <3>3. swept' = swept
      BY RecordChanges
    <3> QED
      BY <2>1, <3>1, <3>2, <3>3
  <2>6. ASSUME sweep.pc \in {"promoted", "gzip"} PROVE form'[M] # "none"
    <3>1. form[M] # "none" /\ \A k \in OnDisk : k <= M
      BY <1>0, <2>6 DEF Rotating
    <3>2. CASE UNCHANGED <<form, filed>>
      BY <3>1, <3>2
    <3>3. ASSUME NEW d \in Deleters, RemoveFile(d) PROVE form'[M] # "none"
      <4>1. PICK n \in OnDisk' : deleter[d].month < n
        BY <3>3, RemoveDisk
      <4>2. deleter[d].month \in Months /\ \A k \in Months : k # deleter[d].month => form'[k] = form[k]
        BY <3>3, RemoveDisk
      <4>3. n \in OnDisk /\ n <= M /\ n \in Nat
        BY <2>1, <3>1, <4>1, ArchivedRows
      <4>4. deleter[d].month # M /\ M \in Months
        BY <1>0, <4>1, <4>2, <4>3
      <4> QED
        BY <3>1, <4>2, <4>4
    <3> QED
      BY <1>2, <3>2, <3>3, SweepStandsStill
  <2> QED
    BY <1>0, <1>2, <2>2, <2>3, <2>4, <2>5, <2>6 DEF Rotating
<1>3. CASE StartSweep
  <2> DEFINE D == {m \in Months : Due(m)}
  <2>1. PICK first \in Nat : first = rows[Min(live)].at /\ Min(live) \in live /\ first \in Months
    BY <1>3, LeastMember DEF StartSweep
  <2>2. first \in D /\ D \in SUBSET Nat /\ MaxTime \in Nat /\ \A m \in D : m <= MaxTime
    <3>1. Due(first)
      BY <1>3, <2>1 DEF StartSweep
    <3>2. MaxTime \in Nat
      BY BoundsAssumption
    <3> QED
      BY <2>1, <3>1, <3>2 DEF Months
  <2>3. PICK last \in Nat : last = Max(D) /\ last \in D /\ first <= last
    BY <2>2, GreatestMember
  <2>4. sweep' = [NoSweep EXCEPT !.pc = "period", !.month = first, !.last = last]
        /\ UNCHANGED <<form, filed>>
    BY <1>3, <2>1, <2>3 DEF StartSweep, files
  <2>5. sweep'.pc = "period" /\ sweep'.month = first /\ sweep'.last = last
    BY <2>4 DEF NoSweep
  <2>6. \A k \in OnDisk : k < first
    BY <2>1 DEF Filing
  <2>7. Due(last)'
    BY <2>3, DueStays
  <2>8. Due(sweep.last)'
    BY <2>5, <2>7 DEF Due
  <2> QED
    BY <2>3, <2>4, <2>5, <2>6, <2>8, SameDisk DEF Rotating
<1>4. CASE Drain
  <2>1. /\ sweep.pc = "period" /\ sweep' = [sweep EXCEPT !.pc = "copied", !.rows = Prefix(M)]
        /\ UNCHANGED <<rows, live, anchor, form, filed>>
    BY <1>0, <1>4 DEF Drain, files
  <2>2. sweep'.pc = "copied" /\ sweep'.month = M /\ sweep'.last = L /\ sweep'.rows = Prefix(M)
    BY <1>0, <2>1
  <2>3. \A k \in OnDisk : k < M
    BY <1>0, <2>1 DEF Rotating
  <2>4. /\ \E k \in anchor .. Len(rows) :
               Prefix(M) = anchor + 1 .. k /\ (anchor < k => rows[k].at <= M)
        /\ \A s \in live \ Prefix(M) : M < rows[s].at
    BY PrefixIsInterval
  <2>5. Due(sweep.last)'
    BY <1>1, <2>1, <2>2 DEF Due
  <2> QED
    BY <1>1, <2>1, <2>2, <2>3, <2>4, <2>5, SameDisk DEF Rotating
<1>5. CASE DrainFails \/ Crash
  <2>1. sweep'.pc = "idle"
    BY <1>5 DEF DrainFails, Crash, NoSweep
  <2> QED
    BY <2>1 DEF Rotating
<1>6. CASE RemoveRows
  <2>1. /\ sweep.pc = "copied" /\ sweep' = [sweep EXCEPT !.pc = "deleted"]
        /\ UNCHANGED <<rows, form, filed, swept>>
        /\ anchor' \in anchor .. Len(rows)
        /\ sweep.rows = anchor + 1 .. anchor'
        /\ \A s \in live' : M < rows[s].at
    BY <1>0, <1>6, RemovalMovesAnchor
  <2>2. sweep'.pc = "deleted" /\ sweep'.month = M /\ sweep'.last = L /\ sweep'.rows = sweep.rows
    BY <1>0, <2>1
  <2>3. \A k \in OnDisk : k < M
    BY <1>0, <2>1 DEF Rotating
  <2>4. \A s \in Archived, t \in sweep.rows : s < t
    BY <2>1, ArchivedRows
  <2>5. Due(sweep.last)'
    BY <1>1, <2>1, <2>2 DEF Due
  <2>6. sweep.rows \subseteq swept + 1 .. anchor'
    BY <2>1
  <2> QED
    BY <1>1, <2>1, <2>2, <2>3, <2>4, <2>5, <2>6, SameDisk DEF Rotating
<1>7. CASE Promote
  <2>1. \A k \in OnDisk : k < M
    BY <1>0, <1>7, PromoteDisk
  <2>2. sweep.pc = "deleted"
    BY <1>7 DEF Promote
  <2>3. sweep'.month = M /\ sweep'.last = L /\ sweep'.pc \in {"promoted", "next"}
    BY <1>0, <1>7, PromoteDisk
  <2>4. \A k \in OnDisk' : k <= M
    <3>1. OnDisk' \subseteq OnDisk \cup {M}
      BY <1>0, <1>7, PromoteDisk, SameDisk
    <3>2. \A k \in OnDisk : k \in Nat
      BY ArchivedRows
    <3> QED
      BY <2>1, <3>1, <3>2
  <2>5. sweep'.pc = "promoted" => form'[M] # "none"
    <3>1. OnDisk' = OnDisk \cup {M} \/ sweep'.pc = "next"
      BY <1>0, <1>7, PromoteDisk
    <3> QED
      BY <3>1 DEF OnDisk
  <2>6. Due(sweep.last)'
    BY <1>1, <2>2, <2>3 DEF Due
  <2> QED
    BY <1>1, <2>2, <2>3, <2>4, <2>5, <2>6 DEF Rotating
<1>8. CASE Gzip \/ Gzipped
  <2>1. /\ OnDisk' = OnDisk /\ form'[M] # "none" /\ sweep.pc \in {"promoted", "gzip"}
        /\ sweep'.month = M /\ sweep'.last = L /\ sweep'.pc \in {"gzip", "next"}
    BY <1>0, <1>8, GzipDisk DEF Gzip, Gzipped
  <2>2. \A k \in OnDisk : k <= M
    BY <1>0, <2>1 DEF Rotating
  <2>3. Due(sweep.last)'
    BY <1>1, <2>1 DEF Due
  <2> QED
    BY <1>1, <2>1, <2>2, <2>3 DEF Rotating
<1>9. CASE NextPeriod
  <2>1. sweep.pc = "next" /\ UNCHANGED <<form, filed>>
    BY <1>9 DEF NextPeriod, files
  <2>2. CASE M < L /\ sweep' = [sweep EXCEPT !.pc = "period", !.month = M + 1]
    <3>1. sweep'.pc = "period" /\ sweep'.month = M + 1 /\ sweep'.last = L
      BY <1>0, <2>2
    <3>2. \A k \in OnDisk : k < M + 1
      <4>1. \A k \in OnDisk : k <= M /\ k \in Nat
        BY <1>0, <2>1, ArchivedRows DEF Rotating
      <4> QED
        BY <4>1
    <3>3. Due(sweep.last)'
      BY <1>1, <2>1, <3>1 DEF Due
    <3> QED
      BY <2>1, <2>2, <3>1, <3>2, <3>3, SameDisk DEF Rotating
  <2>3. CASE sweep' = NoSweep
    BY <2>3 DEF Rotating, NoSweep
  <2> QED
    BY <1>0, <1>9, <2>2, <2>3 DEF NextPeriod
<1> QED
  BY <1>2, <1>3, <1>4, <1>5, <1>6, <1>7, <1>8, <1>9, SweepChanges

\* Where each step leaves the sweep.
LEMMA SweepGoesTo ==
    ASSUME RecordInv
    PROVE  /\ StartSweep => sweep'.pc = "period"
           /\ DrainFails \/ Crash => sweep'.pc = "idle"
           /\ Promote => sweep'.pc \in {"promoted", "next"}
           /\ Gzip => sweep'.pc = "gzip"
           /\ Gzipped => sweep'.pc = "next"
           /\ NextPeriod => sweep'.pc \in {"period", "idle"}
<1> USE SweepNumbers
<1>1. StartSweep => sweep'.pc = "period"
  BY DEF StartSweep, NoSweep
<1>2. DrainFails \/ Crash => sweep'.pc = "idle"
  BY DEF DrainFails, Crash, NoSweep
<1>3. Promote => sweep'.pc \in {"promoted", "next"}
  BY PromoteDisk
<1>4. (Gzip => sweep'.pc = "gzip") /\ (Gzipped => sweep'.pc = "next")
  BY DEF Gzip, Gzipped
<1>5. ASSUME NextPeriod PROVE sweep'.pc \in {"period", "idle"}
  <2>1. CASE sweep' = [sweep EXCEPT !.pc = "period", !.month = sweep.month + 1]
    BY <2>1
  <2>2. CASE sweep' = NoSweep
    BY <2>2 DEF NoSweep
  <2> QED
    BY <1>5, <2>1, <2>2 DEF NextPeriod
<1> QED
  BY <1>1, <1>2, <1>3, <1>4, <1>5

\* The copies left aside, and the table, as far as emptiness is concerned.
LEMMA StrayGrows ==
    ASSUME RecordInv, [Next]_vars
    PROVE  stray \ live \subseteq stray' \ live'
<1> USE InvParts, Numbers
<1>1. stray \subseteq stray' /\ stray \subseteq Recorded
  BY DiskChanges DEF Promote, Crash, RowsOK
<1>2. CASE \E w \in Writers : Create(w)
  <2>1. live' = live \cup {Len(rows) + 1}
    BY <1>2, CreateAppends
  <2> QED
    BY <1>1, <2>1
<1>3. CASE RemoveRows \/ Tick \/ UNCHANGED <<now, rows, live, anchor>>
  <2>1. live' \subseteq live
    BY <1>3, RemovalMovesAnchor DEF Tick
  <2> QED
    BY <1>1, <2>1
<1> QED
  BY <1>2, <1>3, RecordChanges

\* A first archive with rows, or a copy left aside.
Begins ==
    \/ stray \ live # {}
    \/ \E n \in OnDisk : filed[n] # {} /\ \A k \in OnDisk : n <= k

\* A first archive with rows stays one while the files do.
LEMMA BeginsStays ==
    ASSUME RecordInv, [Next]_vars, Begins, OnDisk' = OnDisk, \A k \in OnDisk : filed'[k] = filed[k]
    PROVE  Begins'
<1>1. stray \ live # {} => stray' \ live' # {}
  BY StrayGrows
<1> QED
  BY <1>1 DEF Begins

\* The oldest archive is never an empty one.
LEMMA NotEmptyKept == ASSUME RecordInv, [Next]_vars PROVE NotEmpty'
<1> USE InvParts, Numbers, SweepNumbers
<1>1. ~Fresh => Begins
  BY DEF NotEmpty, Begins
<1>2. ASSUME OnDisk' = OnDisk, \A k \in OnDisk : filed'[k] = filed[k]
      PROVE  (Fresh' => Fresh) /\ (~Fresh => ~Fresh' /\ Begins') /\ (~Fresh' /\ stray' \ live' # {} => Begins')
  <2>1. ~Fresh => ~Fresh'
    BY <1>2, StrayGrows DEF Fresh
  <2>2. ~Fresh => Begins'
    BY <1>1, <1>2, BeginsStays
  <2> QED
    BY <2>1, <2>2 DEF Begins
<1>3. ASSUME OnDisk' = OnDisk, \A k \in OnDisk : filed'[k] = filed[k]
      PROVE  ~Fresh' => Begins'
  <2>1. CASE ~Fresh
    BY <1>2, <1>3, <2>1
  <2>2. CASE Fresh /\ ~Fresh'
    BY <1>3, <2>2 DEF Fresh, Begins
  <2> QED
    BY <2>1, <2>2
<1>4. ASSUME /\ sweep'.pc = "period" /\ Fresh' => Prefix(sweep.month)' # {}
             /\ sweep'.pc \in {"copied", "deleted"} /\ Fresh' => sweep'.rows # {}
             /\ sweep'.pc = "next" => ~Fresh'
             /\ ~Fresh' => Begins'
      PROVE  NotEmpty'
  BY <1>4 DEF NotEmpty, Begins
<1>5. CASE UNCHANGED sweep
  <2>1. CASE UNCHANGED <<form, filed>>
    <3>1. OnDisk' = OnDisk /\ \A k \in OnDisk : filed'[k] = filed[k]
      BY <2>1, SameDisk
    <3>2. Fresh' => Fresh
      BY <1>2, <3>1
    <3>3. ASSUME sweep.pc = "period", Fresh' PROVE Prefix(sweep.month)' # {}
      <4>1. PICK s \in Prefix(sweep.month) : TRUE
        BY <3>2, <3>3 DEF NotEmpty
      <4>2. PICK t \in live : rows[t].at <= sweep.month /\ s <= t /\ s \in live
        BY <4>1 DEF Prefix
      <4>3. live \subseteq live'
        <5>1. ~RemoveRows
          BY <1>5, SweepStandsStill
        <5>2. CASE \E w \in Writers : Create(w)
          BY <5>2, CreateAppends
        <5> QED
          BY <5>1, <5>2, RecordChanges DEF Tick
      <4>4. rows'[t] = rows[t]
        BY RecordedGrows
      <4> QED
        BY <1>5, <4>2, <4>3, <4>4 DEF Prefix
    <3>4. sweep.pc \in {"copied", "deleted"} /\ Fresh' => sweep.rows # {}
      BY <3>2 DEF NotEmpty
    <3>5. sweep.pc = "next" => ~Fresh'
      BY <3>2 DEF NotEmpty
    <3> QED
      BY <1>3, <1>4, <1>5, <3>1, <3>3, <3>4, <3>5
  <2>2. ASSUME NEW d \in Deleters, RemoveFile(d) PROVE NotEmpty'
    <3> DEFINE m == deleter[d].month
    <3>1. PICK n \in OnDisk' : m < n /\ filed[n] # {} /\ \A k \in OnDisk : k = m \/ n <= k
      BY <2>2, RemoveDisk
    <3>2. OnDisk' = OnDisk \ {m} /\ filed'[n] = filed[n]
      BY <2>2, <3>1, RemoveDisk
    <3>3. ~Fresh' /\ Begins'
      BY <3>1, <3>2 DEF Fresh, Begins
    <3> QED
      BY <1>4, <3>3
  <2> QED
    BY <1>5, <2>1, <2>2, SweepStandsStill
<1>6. CASE StartSweep
  <2>1. OnDisk' = OnDisk /\ filed' = filed /\ UNCHANGED <<rows, live>>
    BY <1>6, SameDisk DEF StartSweep, files
  <2>2. sweep'.pc = "period" /\ sweep'.month = rows[Min(live)].at /\ live # {}
    BY <1>6 DEF StartSweep, NoSweep
  <2>3. Min(live) \in live
    BY <2>2, LeastMember
  <2>4. PICK t \in live : t = Min(live) /\ rows[t].at = sweep'.month /\ rows[t].at \in Nat
    BY <2>2, <2>3
  <2>5. Prefix(sweep.month)' # {}
    <3>1. t \in live' /\ rows'[t].at <= sweep'.month /\ t <= t
      BY <2>1, <2>4
    <3> QED
      BY <3>1 DEF Prefix
  <2> QED
    BY <1>3, <1>4, <2>1, <2>2, <2>5
<1>7. CASE Drain
  <2>1. OnDisk' = OnDisk /\ filed' = filed
    BY <1>7, SameDisk DEF Drain, files
  <2>2. sweep.pc = "period" /\ sweep'.pc = "copied" /\ sweep'.rows = Prefix(sweep.month)
    BY <1>7 DEF Drain
  <2>3. Fresh' => Prefix(sweep.month) # {}
    BY <1>2, <2>1, <2>2 DEF NotEmpty
  <2> QED
    BY <1>3, <1>4, <2>1, <2>2, <2>3
<1>8. CASE DrainFails \/ Crash
  <2>1. OnDisk' = OnDisk /\ filed' = filed
    BY <1>8, SameDisk DEF DrainFails, Crash, files
  <2>2. sweep'.pc = "idle"
    BY <1>8 DEF DrainFails, Crash, NoSweep
  <2> QED
    BY <1>3, <1>4, <2>1, <2>2
<1>9. CASE RemoveRows
  <2>1. OnDisk' = OnDisk /\ filed' = filed
    BY <1>9, RemovalMovesAnchor, SameDisk
  <2>2. sweep.pc = "copied" /\ sweep'.pc = "deleted" /\ sweep'.rows = sweep.rows
    BY <1>9, RemovalMovesAnchor
  <2>3. Fresh' => sweep.rows # {}
    BY <1>2, <2>1, <2>2 DEF NotEmpty
  <2> QED
    BY <1>3, <1>4, <2>1, <2>2, <2>3
<1>10. CASE Promote
  <2>1. PICK M \in Months : M = sweep.month /\ \A k \in OnDisk : k < M
    BY <1>10, PromoteDisk
  <2>2. sweep.pc = "deleted" /\ (Fresh => sweep.rows # {})
    BY <1>10 DEF Promote, NotEmpty
  <2>3. CASE /\ sweep' = [sweep EXCEPT !.pc = "promoted", !.rows = {}]
             /\ OnDisk' = OnDisk \cup {M} /\ filed'[M] = sweep.rows
             /\ \A k \in Months : k # M => filed'[k] = filed[k]
    <3>1. sweep'.pc = "promoted"
      BY <2>3
    <3>2. CASE stray \ live # {}
      <4>1. Begins'
        BY <3>2, StrayGrows DEF Begins
      <4> QED
        BY <1>4, <3>1, <4>1
    <3>3. CASE stray \ live = {} /\ OnDisk = {}
      <4>1. filed'[M] # {} /\ OnDisk' = {M} /\ M <= M
        BY <2>2, <2>3, <3>3 DEF Fresh
      <4>2. Begins'
        BY <4>1 DEF Begins
      <4> QED
        BY <1>4, <3>1, <4>2
    <3>4. CASE stray \ live = {} /\ OnDisk # {}
      <4>1. PICK n \in OnDisk : filed[n] # {} /\ \A k \in OnDisk : n <= k
        BY <1>1, <3>4 DEF Fresh, Begins
      <4>2. n < M /\ n \in Months /\ n \in Nat /\ M \in Nat
        BY <2>1, <4>1, ArchivedRows
      <4>3. filed'[n] = filed[n] /\ n <= M
        BY <2>3, <4>2
      <4>4. Begins'
        BY <2>3, <4>1, <4>3 DEF Begins
      <4> QED
        BY <1>4, <3>1, <4>4
    <3> QED
      BY <3>2, <3>3, <3>4
  <2>4. CASE /\ sweep' = [sweep EXCEPT !.pc = "next", !.rows = {}]
             /\ stray' = stray \cup sweep.rows /\ UNCHANGED <<form, filed>>
    <3>1. OnDisk' = OnDisk /\ filed' = filed /\ sweep'.pc = "next"
      BY <2>4, SameDisk
    <3>2. sweep.rows \cap live = {} /\ live' = live
      <4>1. sweep.rows \subseteq swept + 1 .. anchor
        BY <2>2 DEF Rotating
      <4> QED
        BY <1>10, <4>1 DEF Promote
    <3>3. ~Fresh'
      <4>1. CASE Fresh
        BY <2>2, <2>4, <3>2, <4>1 DEF Fresh
      <4>2. CASE ~Fresh
        BY <1>2, <3>1, <4>2
      <4> QED
        BY <4>1, <4>2
    <3> QED
      BY <1>3, <1>4, <3>1, <3>3
  <2> QED
    BY <1>10, <2>1, <2>3, <2>4, PromoteDisk
<1>11. CASE Gzip \/ Gzipped
  <2>1. OnDisk' = OnDisk /\ filed' = filed /\ sweep.month \in OnDisk'
    BY <1>11, GzipDisk DEF OnDisk
  <2>2. sweep'.pc \in {"gzip", "next"}
    BY <1>11 DEF Gzip, Gzipped
  <2>3. ~Fresh'
    BY <2>1 DEF Fresh
  <2> QED
    BY <1>3, <1>4, <2>1, <2>2, <2>3
<1>12. CASE NextPeriod
  <2>1. OnDisk' = OnDisk /\ filed' = filed
    BY <1>12, SameDisk DEF NextPeriod, files
  <2>2. sweep.pc = "next" /\ sweep'.pc \in {"period", "idle"}
    BY <1>12, SweepGoesTo DEF NextPeriod
  <2>3. ~Fresh'
    BY <1>2, <2>1, <2>2 DEF NotEmpty
  <2> QED
    BY <1>3, <1>4, <2>1, <2>2, <2>3
<1> QED
  BY <1>5, <1>6, <1>7, <1>8, <1>9, <1>10, <1>11, <1>12, SweepChanges

-----------------------------------------------------------------------------
(* The epoch and the deletions *)

\* The rows a sweep is moving, and what changes them.
LEMMA MovedRows ==
    ASSUME RecordInv, [Next]_vars, NEW b \in Nat, b <= anchor,
           sweep.pc \in {"copied", "deleted"} => \A s \in sweep.rows : b <= s
    PROVE  sweep'.pc \in {"copied", "deleted"} => \A s \in sweep'.rows : b <= s
<1> USE InvParts, Numbers, SweepNumbers
<1>1. CASE Drain
  <2>1. sweep'.rows = Prefix(sweep.month)
    BY <1>1 DEF Drain
  <2>2. Prefix(sweep.month) \subseteq live
    BY PrefixIsInterval
  <2>3. \A s \in live : b <= s
    OBVIOUS
  <2> QED
    BY <2>1, <2>2, <2>3
<1>2. CASE RemoveRows
  <2>1. sweep.pc = "copied" /\ sweep'.rows = sweep.rows
    BY <1>2, RemovalMovesAnchor
  <2> QED
    BY <2>1
<1>3. CASE UNCHANGED sweep
  BY <1>3
<1>4. CASE StartSweep \/ DrainFails \/ Promote \/ Crash
  <2>1. sweep'.pc \notin {"copied", "deleted"}
    BY <1>4, SweepGoesTo
  <2> QED
    BY <2>1
<1>5. CASE Gzip \/ Gzipped \/ NextPeriod
  <2>1. sweep'.pc \notin {"copied", "deleted"}
    BY <1>5, SweepGoesTo
  <2> QED
    BY <2>1
<1> QED
  BY <1>1, <1>2, <1>3, <1>4, <1>5, SweepChanges

\* Archives only gain the rows a sweep moved.
LEMMA ArchivedGains ==
    ASSUME RecordInv, [Next]_vars
    PROVE  Archived' \subseteq Archived \/ (Promote /\ Archived' \subseteq Archived \cup sweep.rows)
<1>1. CASE Promote
  BY <1>1, PromoteDisk, SameDisk
<1>2. CASE Gzip \/ Gzipped
  BY <1>2, GzipDisk
<1>3. CASE \E d \in Deleters : RemoveFile(d)
  BY <1>3, RemoveDisk
<1>4. CASE UNCHANGED <<form, filed>>
  BY <1>4, SameDisk
<1> QED
  BY <1>1, <1>2, <1>3, <1>4, DiskChanges

\* So what bounds the archived rows and the moved ones from below goes on doing so.
LEMMA BoundStays ==
    ASSUME RecordInv, [Next]_vars, NEW b \in Nat,
           sweep.pc \in {"copied", "deleted"} => \A s \in sweep.rows : b <= s,
           \A s \in Archived : b <= s
    PROVE  \A s \in Archived' : b <= s
<1>1. Promote => \A s \in sweep.rows : b <= s
  BY DEF Promote
<1> QED
  BY <1>1, ArchivedGains

\* The epoch never passes what is filed or about to be.
LEMMA BegunKept == ASSUME RecordInv, [Next]_vars PROVE Begun'
<1> USE InvParts, Numbers
<1>1. epoch \in [seq : Nat, prev : Nat]
  BY DEF RowsOK
<1>2. anchor <= anchor' /\ swept' = swept
  BY AnchorGrows
<1>3. NoEpoch' = NoEpoch /\ NoEpoch.seq = 0
  BY DEF NoEpoch
<1>4. ASSUME NEW e \in [seq : Nat, prev : Nat], epoch' = e,
             e.seq = e.prev + 1, swept < e.seq, e.seq <= anchor',
             sweep'.pc \in {"copied", "deleted"} => \A s \in sweep'.rows : e.seq <= s,
             \A s \in Archived' : e.seq <= s
      PROVE  Begun'
  <2>1. epoch' # NoEpoch
    BY <1>3, <1>4
  <2> QED
    BY <1>2, <1>3, <1>4, <2>1 DEF Begun
<1>5. CASE RemoveRows
  <2>1. /\ anchor' \in anchor .. Len(rows) /\ sweep.rows = anchor + 1 .. anchor'
        /\ sweep.pc = "copied" /\ sweep' = [sweep EXCEPT !.pc = "deleted"]
        /\ sweep.rows = {} => epoch' = epoch
        /\ sweep.rows # {} => epoch' = IF epoch # NoEpoch THEN epoch
                                       ELSE [seq |-> anchor + 1, prev |-> anchor]
        /\ UNCHANGED <<form, filed>>
    BY <1>5, RemovalMovesAnchor
  <2>2. Archived' = Archived /\ sweep'.rows = sweep.rows
    BY <2>1, SameDisk, SweepNumbers
  <2>3. CASE epoch # NoEpoch
    <3>1. epoch' = epoch
      BY <2>1, <2>3
    <3>2. /\ epoch.seq = epoch.prev + 1 /\ swept < epoch.seq /\ epoch.seq <= anchor
          /\ \A s \in sweep.rows : epoch.seq <= s
          /\ \A s \in Archived : epoch.seq <= s
      BY <2>1, <2>3 DEF Begun
    <3>3. epoch.seq <= anchor'
      BY <1>1, <2>1, <3>2
    <3> QED
      BY <1>1, <1>4, <2>2, <3>1, <3>2, <3>3
  <2>4. CASE epoch = NoEpoch /\ sweep.rows = {}
    <3>1. epoch' = NoEpoch /\ anchor = swept
      BY <2>1, <2>4 DEF Begun
    <3>2. anchor' = anchor
      <4> SUFFICES ASSUME anchor' # anchor PROVE FALSE
        OBVIOUS
      <4>1. anchor' \in sweep.rows
        BY <2>1
      <4> QED
        BY <4>1, <2>4
    <3> QED
      BY <1>2, <1>3, <3>1, <3>2 DEF Begun
  <2>5. CASE epoch = NoEpoch /\ sweep.rows # {}
    <3>1. PICK e : e = [seq |-> anchor + 1, prev |-> anchor]
      OBVIOUS
    <3>2. e \in [seq : Nat, prev : Nat] /\ e.seq = anchor + 1 /\ e.prev = anchor
      BY <3>1
    <3>3. epoch' = e
      BY <2>1, <2>5, <3>1
    <3>4. anchor = swept /\ Archived = {}
      <4>1. anchor = swept
        BY <2>5 DEF Begun
      <4> QED
        BY <4>1, ArchivedRows
    <3>5. e.seq <= anchor' /\ swept < e.seq
      BY <2>1, <2>5, <3>2
    <3>6. \A s \in sweep.rows : e.seq <= s
      BY <2>1, <3>2
    <3> QED
      BY <1>4, <2>2, <3>2, <3>3, <3>4, <3>5, <3>6
  <2> QED
    BY <2>3, <2>4, <2>5
<1>6. ASSUME NEW d \in Deleters, AdvanceEpoch(d) PROVE Begun'
  <2>1. /\ deleter[d].pc = "removed" /\ epoch' = deleter[d].begins
        /\ UNCHANGED <<sweep, anchor, form, filed>>
    BY <1>6 DEF AdvanceEpoch, files
  <2>2. PICK e \in [seq : Nat, prev : Nat] : e = deleter[d].begins
    BY DEF DeleterOK
  <2>3. /\ e.seq = e.prev + 1 /\ swept < e.seq /\ e.seq <= anchor
        /\ sweep.pc \in {"copied", "deleted"} => \A s \in sweep.rows : e.seq <= s
        /\ \A s \in Archived : e.seq <= s
    BY <2>1, <2>2 DEF Deleting
  <2> QED
    BY <1>4, <2>1, <2>2, <2>3, SameDisk
<1>7. CASE UNCHANGED epoch /\ ~RemoveRows
  <2>1. CASE epoch = NoEpoch
    <3>1. anchor = swept
      BY <2>1 DEF Begun
    <3>2. anchor' = anchor
      <4>1. CASE \E w \in Writers : Create(w)
        BY <4>1, CreateAppends
      <4> QED
        BY <1>7, <4>1, RecordChanges DEF Tick
    <3> QED
      BY <1>2, <1>3, <1>7, <2>1, <3>1, <3>2 DEF Begun
  <2>2. CASE epoch # NoEpoch
    <3>1. PICK e \in [seq : Nat, prev : Nat] : e = epoch
      BY <1>1
    <3>2. /\ e.seq = e.prev + 1 /\ swept < e.seq /\ e.seq <= anchor
          /\ sweep.pc \in {"copied", "deleted"} => \A s \in sweep.rows : e.seq <= s
          /\ \A s \in Archived : e.seq <= s
      BY <2>2, <3>1 DEF Begun
    <3>3. e.seq \in Nat /\ e.seq <= anchor'
      BY <1>2, <3>1, <3>2, AnchorGrows
    <3>4. \A s \in Archived' : e.seq <= s
      BY <3>2, <3>3, BoundStays
    <3>5. sweep'.pc \in {"copied", "deleted"} => \A s \in sweep'.rows : e.seq <= s
      BY <3>2, <3>3, MovedRows
    <3> QED
      BY <1>4, <1>7, <3>1, <3>2, <3>3, <3>4, <3>5
  <2> QED
    BY <2>1, <2>2
<1> QED
  BY <1>5, <1>6, <1>7, SweepChanges

\* What Deleting says of one deletion of archive m whose next one begins with row b.
DeletingOf(pc, m, b) ==
    /\ pc # "idle" =>
          /\ b.seq = b.prev + 1 /\ swept < b.seq /\ b.seq <= anchor
          /\ sweep.pc \in {"copied", "deleted"} => \A s \in sweep.rows : b.seq <= s
    /\ pc = "read" =>
          /\ form[m] \in {"none", "gz"}
          /\ \A k \in OnDisk : m <= k
          /\ \E n \in OnDisk : /\ m < n /\ filed[n] # {}
                               /\ \A k \in OnDisk : k = m \/ n <= k
          /\ \A k \in OnDisk : k = m \/ \A s \in filed[k] : b.seq <= s
    /\ pc = "removed" => \A s \in Archived : b.seq <= s

\* Deleting, deletion by deletion, with the fields of each as plain values.
LEMMA DeletingIs ==
    /\ Deleting <=> \A d \in Deleters : DeletingOf(deleter[d].pc, deleter[d].month, deleter[d].begins)
    /\ Deleting' <=> \A d \in Deleters :
           \A pc, m, b : /\ pc = deleter'[d].pc /\ m = deleter'[d].month /\ b = deleter'[d].begins
                         => DeletingOf(pc, m, b)'
<1>1. Deleting <=> \A d \in Deleters : DeletingOf(deleter[d].pc, deleter[d].month, deleter[d].begins)
  BY DEF Deleting, DeletingOf
<1>2. Deleting' <=> \A d \in Deleters :
           \A pc, m, b : /\ pc = deleter'[d].pc /\ m = deleter'[d].month /\ b = deleter'[d].begins
                         => DeletingOf(pc, m, b)'
  BY DEF Deleting, DeletingOf
<1> QED
  BY <1>1, <1>2

\* A deletion that is not moved by a step sees its premises kept by it.
LEMMA DeletionStays ==
    ASSUME RecordInv, [Next]_vars, NEW pc \in {"read", "removed"}, NEW m \in Months,
           NEW b \in [seq : Nat, prev : Nat], DeletingOf(pc, m, b),
           pc = "removed" => \A d \in Deleters : ~RemoveFile(d)
    PROVE  DeletingOf(pc, m, b)'
<1> USE InvParts, Numbers
<1>1. b.seq \in Nat /\ m \in Nat
  OBVIOUS
<1>2. /\ b.seq = b.prev + 1 /\ swept < b.seq /\ b.seq <= anchor
      /\ sweep.pc \in {"copied", "deleted"} => \A s \in sweep.rows : b.seq <= s
  BY DEF DeletingOf
<1>3. swept' = swept /\ b.seq <= anchor'
  BY <1>1, <1>2, AnchorGrows
<1>4. sweep'.pc \in {"copied", "deleted"} => \A s \in sweep'.rows : b.seq <= s
  BY <1>1, <1>2, MovedRows
<1>5. pc = "removed" => \A s \in Archived' : b.seq <= s
  <2>1. pc = "removed" => \A s \in Archived : b.seq <= s
    BY DEF DeletingOf
  <2> QED
    BY <1>1, <1>2, <2>1, BoundStays
<1>6. ASSUME pc = "read"
      PROVE  /\ form'[m] \in {"none", "gz"}
             /\ \A k \in OnDisk' : m <= k
             /\ \E n \in OnDisk' : /\ m < n /\ filed'[n] # {}
                                   /\ \A k \in OnDisk' : k = m \/ n <= k
             /\ \A k \in OnDisk' : k = m \/ \A s \in filed'[k] : b.seq <= s
  <2>1. /\ form[m] \in {"none", "gz"}
        /\ \A k \in OnDisk : m <= k
        /\ \A k \in OnDisk : k = m \/ \A s \in filed[k] : b.seq <= s
    BY <1>6 DEF DeletingOf
  <2>2. PICK n \in OnDisk : m < n /\ filed[n] # {} /\ \A k \in OnDisk : k = m \/ n <= k
    BY <1>6 DEF DeletingOf
  <2>3. n \in Nat /\ n \in Months
    BY ArchivedRows
  <2>4. CASE Promote
    <3>1. PICK M \in Months : M = sweep.month /\ \A k \in OnDisk : k < M
      BY <2>4, PromoteDisk
    <3>5. M \in Nat /\ n < M
      BY <3>1
    <3>2. n < M /\ m < M /\ m # M
      BY <1>1, <2>2, <2>3, <3>5
    <3>3. CASE /\ OnDisk' = OnDisk \cup {M} /\ filed'[M] = sweep.rows
               /\ \A k \in Months : k # M => filed'[k] = filed[k] /\ form'[k] = form[k]
      <4>1. \A k \in OnDisk : k # M /\ k \in Months /\ filed'[k] = filed[k]
        BY <3>1, <3>3, ArchivedRows
      <4>2. \A s \in sweep.rows : b.seq <= s
        BY <1>2, <2>4 DEF Promote
      <4>3. form'[m] \in {"none", "gz"}
        BY <2>1, <3>2, <3>3
      <4>4. \A k \in OnDisk' : m <= k
        BY <1>1, <2>1, <3>2, <3>3, <3>5
      <4>5. \A k \in OnDisk' : k = m \/ n <= k
        BY <2>2, <2>3, <3>2, <3>3, <3>5
      <4>6. filed'[n] # {} /\ n \in OnDisk'
        BY <2>2, <3>3, <4>1
      <4>7. \A k \in OnDisk' : k = m \/ \A s \in filed'[k] : b.seq <= s
        BY <2>1, <3>3, <4>1, <4>2
      <4> QED
        BY <2>2, <4>3, <4>4, <4>5, <4>6, <4>7
    <3>4. CASE UNCHANGED <<form, filed>>
      BY <2>1, <2>2, <3>4, SameDisk
    <3> QED
      BY <2>4, <3>1, <3>3, <3>4, PromoteDisk
  <2>5. CASE Gzip \/ Gzipped
    <3>1. /\ OnDisk' = OnDisk /\ filed' = filed
          /\ \A k \in Months : k # sweep.month => form'[k] = form[k]
      BY <2>5, GzipDisk
    <3>2. m # sweep.month
      <4>1. sweep.pc \in {"promoted", "gzip"}
        BY <2>5 DEF Gzip, Gzipped
      <4>2. n <= sweep.month /\ sweep.month \in Nat
        BY <4>1, SweepNumbers DEF Rotating
      <4> QED
        BY <1>1, <2>2, <2>3, <4>2
    <3> QED
      BY <2>1, <2>2, <3>1, <3>2
  <2>6. ASSUME NEW e \in Deleters, RemoveFile(e)
        PROVE  /\ form'[m] \in {"none", "gz"}
               /\ \A k \in OnDisk' : m <= k
               /\ \E j \in OnDisk' : /\ m < j /\ filed'[j] # {}
                                     /\ \A k \in OnDisk' : k = m \/ j <= k
               /\ \A k \in OnDisk' : k = m \/ \A s \in filed'[k] : b.seq <= s
    <3>1. PICK g \in Months : g = deleter[e].month
      BY <2>6, RemoveDisk
    <3>2. /\ OnDisk' = OnDisk \ {g}
          /\ \A k \in OnDisk' : filed'[k] = filed[k]
          /\ \A k \in Months : k # g => form'[k] = form[k]
          /\ form'[g] = "none"
          /\ \A k \in OnDisk : g <= k
      BY <2>6, <3>1, RemoveDisk
    <3>3. PICK i \in OnDisk' : g < i /\ filed[i] # {} /\ \A k \in OnDisk : k = g \/ i <= k
      BY <2>6, <3>1, RemoveDisk
    <3>4. form'[m] \in {"none", "gz"}
      BY <2>1, <3>2
    <3>5. \A k \in OnDisk' : m <= k /\ (k = m \/ \A s \in filed'[k] : b.seq <= s)
      BY <2>1, <3>2
    <3>6. \E j \in OnDisk' : /\ m < j /\ filed'[j] # {}
                             /\ \A k \in OnDisk' : k = m \/ j <= k
      <4>1. CASE n # g
        BY <2>2, <3>2, <4>1
      <4>2. CASE n = g
        <5>1. m < i
          <6>1. m \in Nat /\ n \in Nat /\ i \in Nat /\ m < n /\ n < i
            BY <1>1, <2>2, <2>3, <3>2, <3>3, <4>2, ArchivedRows
          <6> QED
            BY <6>1
        <5>2. filed'[i] # {} /\ \A k \in OnDisk' : i <= k
          BY <3>2, <3>3
        <5> QED
          BY <5>1, <5>2
      <4> QED
        BY <4>1, <4>2
    <3> QED
      BY <3>4, <3>5, <3>6
  <2>7. CASE UNCHANGED <<form, filed>>
    BY <2>1, <2>2, <2>7, SameDisk
  <2> QED
    BY <2>4, <2>5, <2>6, <2>7, DiskChanges
<1> QED
  BY <1>2, <1>3, <1>4, <1>5, <1>6 DEF DeletingOf

\* What a deletion has read of the archives stays true of them.
LEMMA DeletingKept == ASSUME RecordInv, [Next]_vars PROVE Deleting'
<1> USE InvParts, Numbers
<1>1. SUFFICES ASSUME NEW d \in Deleters, NEW pc, NEW m, NEW b, pc = deleter'[d].pc,
                      m = deleter'[d].month, b = deleter'[d].begins
               PROVE  DeletingOf(pc, m, b)'
  BY DeletingIs
<1>2. /\ deleter[d] \in [pc : {"idle", "read", "removed"}, month : Months,
                         begins : [seq : Nat, prev : Nat]]
      /\ DOMAIN deleter = Deleters
  BY DEF DeleterOK
<1>3. DeletingOf(deleter[d].pc, deleter[d].month, deleter[d].begins)
  BY DeletingIs
<1>4. CASE deleter'[d].pc = "idle"
  BY <1>1, <1>4 DEF DeletingOf
<1>5. CASE deleter'[d] = deleter[d]
  <2>1. CASE pc = "idle"
    BY <1>1, <1>4, <2>1
  <2>2. CASE pc # "idle"
    <3>1. /\ pc \in {"read", "removed"} /\ m \in Months /\ b \in [seq : Nat, prev : Nat]
          /\ DeletingOf(pc, m, b)
      BY <1>1, <1>2, <1>3, <1>5, <2>2
    <3>2. pc = "removed" => \A e \in Deleters : ~RemoveFile(e)
      BY <1>1, <1>5 DEF RemoveFile
    <3> QED
      BY <3>1, <3>2, DeletionStays
  <2> QED
    BY <2>1, <2>2
<1>6. CASE AskDelete(d)
  <2>1. PICK i \in OnDisk, n \in OnDisk :
              /\ i < n /\ \A k \in OnDisk : k = i \/ n <= k
              /\ filed[n] # {} /\ form[i] = "gz"
              /\ \E s \in filed[n] :
                    /\ \A t \in filed[n] : s <= t
                    /\ swept < s /\ s <= anchor
                    /\ deleter' = [deleter EXCEPT ![d] = [pc |-> "read", month |-> i,
                                                          begins |-> [seq |-> s, prev |-> s - 1]]]
    BY <1>6, AskedOf
  <2>2. PICK s \in filed[n] :
                    /\ \A t \in filed[n] : s <= t
                    /\ swept < s /\ s <= anchor
                    /\ deleter' = [deleter EXCEPT ![d] = [pc |-> "read", month |-> i,
                                                          begins |-> [seq |-> s, prev |-> s - 1]]]
    BY <2>1
  <2>3. pc = "read" /\ m = i /\ b.seq = s /\ b.prev = s - 1
    BY <1>1, <1>2, <2>2
  <2>4. \A k \in OnDisk : k \in Nat /\ filed[k] \subseteq swept + 1 .. anchor
    BY ArchivedRows
  <2>5. s \in Nat /\ s \in Archived /\ i \in Nat /\ n \in Nat
    BY <2>4, ArchivedRows
  <2>6. UNCHANGED <<sweep, anchor, swept>> /\ UNCHANGED <<form, filed>>
    BY <1>6 DEF AskDelete, files
  <2>7. ASSUME sweep.pc \in {"copied", "deleted"}, NEW t \in sweep.rows PROVE s <= t
    <3>1. CASE sweep.pc = "copied"
      <4>1. t \in Nat /\ anchor < t
        BY <2>7, <3>1 DEF Rotating
      <4> QED
        BY <2>2, <2>5, <4>1
    <3>2. CASE sweep.pc = "deleted"
      <4>1. t \in Nat /\ s < t
        BY <2>5, <2>7, <3>2 DEF Rotating
      <4> QED
        BY <2>5, <4>1
    <3> QED
      BY <2>7, <3>1, <3>2
  <2>8. \A k \in OnDisk : i <= k
    BY <2>1, <2>4, <2>5
  <2>9. ASSUME NEW k \in OnDisk, k # i, NEW t \in filed[k] PROVE s <= t
    <3>1. t \in Nat /\ (k = n \/ n < k)
      BY <2>1, <2>4, <2>5, <2>9
    <3>2. n < k => s < t
      BY <2>9 DEF Filing
    <3> QED
      BY <2>2, <2>5, <3>1, <3>2
  <2>10. /\ b.seq = b.prev + 1 /\ swept < b.seq /\ b.seq <= anchor
         /\ sweep.pc \in {"copied", "deleted"} => \A t \in sweep.rows : b.seq <= t
    BY <2>2, <2>3, <2>5, <2>7
  <2>11. /\ form[m] \in {"none", "gz"}
         /\ \A k \in OnDisk : m <= k
         /\ \E j \in OnDisk : /\ m < j /\ filed[j] # {}
                              /\ \A k \in OnDisk : k = m \/ j <= k
         /\ \A k \in OnDisk : k = m \/ \A t \in filed[k] : b.seq <= t
    BY <2>1, <2>3, <2>8, <2>9
  <2> QED
    BY <2>3, <2>6, <2>10, <2>11, SameDisk DEF DeletingOf
<1>7. CASE RemoveFile(d)
  <2>1. /\ deleter[d].pc = "read" /\ deleter' = [deleter EXCEPT ![d].pc = "removed"]
        /\ UNCHANGED <<sweep, anchor, swept>>
    BY <1>7 DEF RemoveFile
  <2>2. pc = "removed" /\ m = deleter[d].month /\ b = deleter[d].begins
    BY <1>1, <1>2, <2>1
  <2>3. /\ b.seq = b.prev + 1 /\ swept < b.seq /\ b.seq <= anchor
        /\ sweep.pc \in {"copied", "deleted"} => \A s \in sweep.rows : b.seq <= s
        /\ \A k \in OnDisk : k = m \/ \A s \in filed[k] : b.seq <= s
    BY <1>3, <2>1, <2>2 DEF DeletingOf
  <2>4. OnDisk' = OnDisk \ {m} /\ \A k \in OnDisk' : filed'[k] = filed[k]
    BY <1>7, <2>2, RemoveDisk
  <2>5. \A s \in Archived' : b.seq <= s
    BY <2>3, <2>4 DEF Archived
  <2> QED
    BY <2>1, <2>2, <2>3, <2>5 DEF DeletingOf
<1>8. CASE AdvanceEpoch(d) \/ Crash
  <2>1. deleter'[d] = NoDelete
    BY <1>2, <1>8 DEF AdvanceEpoch, Crash
  <2> QED
    BY <1>4, <2>1 DEF NoDelete
<1>9. ASSUME NEW e \in Deleters, e # d, AskDelete(e) \/ RemoveFile(e) \/ AdvanceEpoch(e)
      PROVE  deleter'[d] = deleter[d]
  BY <1>2, <1>9 DEF AskDelete, RemoveFile, AdvanceEpoch
<1> QED
  BY <1>5, <1>6, <1>7, <1>8, <1>9, CallChanges

-----------------------------------------------------------------------------
(* Nothing is lost *)

\* Where an event is, or that it is gone for good.
Kept == live \cup Archived \cup Copying \cup stray \cup taken

\* An event that is anywhere stays somewhere.
LEMMA KeptStays == ASSUME RecordInv, [Next]_vars PROVE Kept \subseteq Kept'
<1> USE InvParts, Numbers
<1>1. live \subseteq live' \cup Copying'
  <2>1. CASE RemoveRows
    <3>1. live' = live \ sweep.rows /\ sweep' = [sweep EXCEPT !.pc = "deleted"]
      BY <2>1, RemovalMovesAnchor
    <3>2. Copying' = sweep.rows
      BY <3>1, SweepNumbers DEF Copying
    <3> QED
      BY <3>1, <3>2
  <2>2. CASE \E w \in Writers : Create(w)
    BY <2>2, CreateAppends
  <2>3. CASE Tick \/ UNCHANGED <<now, rows, live, anchor>>
    BY <2>3 DEF Tick
  <2> QED
    BY <2>1, <2>2, <2>3, RecordChanges
<1>2. Archived \subseteq Archived' \cup taken'
  <2>1. CASE Promote
    BY <2>1, PromoteDisk, SameDisk
  <2>2. CASE Gzip \/ Gzipped
    BY <2>2, GzipDisk
  <2>3. CASE \E d \in Deleters : RemoveFile(d)
    BY <2>3, RemoveDisk
  <2>4. CASE UNCHANGED <<form, filed>>
    BY <2>4, SameDisk
  <2> QED
    BY <2>1, <2>2, <2>3, <2>4, DiskChanges
<1>3. stray \subseteq stray'
  BY DiskChanges DEF Promote, Crash
<1>4. taken \subseteq taken'
  BY DiskChanges, RemoveDisk
<1>5. Copying \subseteq Kept'
  <2> SUFFICES ASSUME sweep.pc \in {"copied", "deleted"}, NEW s \in sweep.rows PROVE s \in Kept'
    BY DEF Copying
  <2>1. sweep.pc = "copied" => s \in live
    <3> SUFFICES ASSUME sweep.pc = "copied" PROVE s \in live
      OBVIOUS
    <3>1. PICK k \in anchor .. Len(rows) : sweep.rows = anchor + 1 .. k
      BY DEF Rotating
    <3> QED
      BY <3>1
  <2>2. CASE DrainFails
    <3>1. sweep.pc = "copied" /\ live' = live
      BY <2>2 DEF DrainFails, Refused
    <3> QED
      BY <2>1, <3>1 DEF Kept
  <2>3. CASE RemoveRows
    <3>1. sweep' = [sweep EXCEPT !.pc = "deleted"]
      BY <2>3, RemovalMovesAnchor
    <3>2. Copying' = sweep.rows
      BY <3>1, SweepNumbers DEF Copying
    <3> QED
      BY <3>2 DEF Kept
  <2>4. CASE Promote
    <3>1. s \in Archived' \/ s \in stray'
      BY <2>4, PromoteDisk
    <3> QED
      BY <3>1 DEF Kept
  <2>5. CASE Crash
    <3>1. s \in stray'
      BY <2>5 DEF Crash, Copying
    <3> QED
      BY <3>1 DEF Kept
  <2>6. CASE UNCHANGED sweep
    <3>1. s \in Copying'
      BY <2>6 DEF Copying
    <3> QED
      BY <3>1 DEF Kept
  <2>7. ~StartSweep /\ ~Drain /\ ~Gzip /\ ~Gzipped /\ ~NextPeriod
    BY DEF StartSweep, Drain, Gzip, Gzipped, NextPeriod
  <2> QED
    BY <2>2, <2>3, <2>4, <2>5, <2>6, <2>7, SweepChanges
<1> QED
  BY <1>1, <1>2, <1>3, <1>4, <1>5 DEF Kept

\* No step loses an event.
LEMMA NothingLostKept == ASSUME RecordInv, [Next]_vars PROVE NothingLost'
<1> USE InvParts, Numbers
<1>1. \A s \in Recorded : s > swept => s \in Kept
  BY DEF NothingLost, Kept
<1>2. Kept \subseteq Kept' /\ swept' = swept
  BY KeptStays, RecordChanges
<1>3. \A s \in Recorded' : s \in Recorded \/ s \in live'
  <2>1. CASE \E w \in Writers : Create(w)
    <3> PICK w \in Writers : Create(w)
      BY <2>1
    <3>1. /\ Len(rows') = Len(rows) + 1 /\ live' = live \cup {Len(rows) + 1}
          /\ rows' \in Seq([prev : Nat, at : Months])
      BY CreateAppends
    <3>2. Recorded' = 1 .. Len(rows) + 1
      BY <3>1, LenProperties DEF Recorded
    <3> QED
      BY <3>1, <3>2
  <2>2. CASE RemoveRows \/ Tick \/ UNCHANGED <<now, rows, live, anchor>>
    <3>1. rows' = rows
      BY <2>2, RemovalMovesAnchor DEF Tick
    <3> QED
      BY <3>1 DEF Recorded
  <2> QED
    BY <2>1, <2>2, RecordChanges
<1> QED
  BY <1>1, <1>2, <1>3 DEF NothingLost, Kept

-----------------------------------------------------------------------------
(* The verdicts *)

\* Archives that hold have no gap: what the walk reaches back to the first
\* event with is every event that was archived.
LEMMA HeldArchivesAreWhole ==
    ASSUME RecordInv, ArchivesHold(epoch, anchor), epoch.prev = Genesis \/ Archived = {}
    PROVE  swept + 1 .. anchor \subseteq Archived
<1> USE InvParts, Numbers
<1>1. CASE epoch = NoEpoch
  <2>1. anchor = swept
    BY <1>1 DEF Begun
  <2> QED
    BY <2>1
<1>2. CASE epoch # NoEpoch
  <2>1. OnDisk # {} /\ filed[Min(OnDisk)] # {} /\ ~(Min(filed[Min(OnDisk)]) > epoch.seq)
    BY <1>2 DEF ArchivesHold, Missing
  <2>2. PICK m \in OnDisk : m = Min(OnDisk)
    BY <2>1, ArchivedRows, LeastMember
  <2>3. filed[m] \in SUBSET Nat /\ filed[m] \subseteq Archived
    BY ArchivedRows
  <2>4. PICK b \in filed[m] : b = Min(filed[m])
    BY <2>1, <2>2, <2>3, LeastMember
  <2>5. epoch.prev = 0 /\ epoch.seq = 1 /\ swept = 0
    <3>1. Archived # {}
      BY <2>3, <2>4
    <3>2. epoch.prev = 0
      BY <3>1 DEF Genesis
    <3> QED
      BY <1>2, <3>2 DEF Begun
  <2>6. b = 1 /\ 1 \in Archived
    <3>1. b \in Nat /\ b \in swept + 1 .. anchor /\ b <= 1
      BY <2>1, <2>2, <2>3, <2>4, <2>5, ArchivedRows
    <3> QED
      BY <2>3, <2>5, <3>1
  <2>7. LinkedFrom(0, Archived) /\ Max(Archived) = anchor
    BY <2>5, <2>6 DEF ArchivesHold
  <2>8. Archived \in SUBSET Nat /\ \A s \in Archived : s <= anchor /\ 1 <= s
    BY <2>5, ArchivedRows
  <2>9. anchor \in Archived
    BY <2>6, <2>7, <2>8, GreatestMember
  <2>10. SUFFICES ASSUME NEW g \in 1 .. anchor, g \notin Archived PROVE FALSE
    BY <2>5
  <2> DEFINE Above == {s \in Archived : g < s}
  <2>11. Above \in SUBSET Nat /\ anchor \in Above
    <3>1. g # anchor /\ g <= anchor /\ g \in Nat
      BY <2>9, <2>10
    <3>2. g < anchor
      BY <3>1
    <3> QED
      BY <2>8, <2>9, <3>2
  <2>12. PICK s \in Above : \A t \in Above : s <= t
    BY <2>11, LeastMember
  <2> DEFINE Below == {t \in Archived : t < s}
  <2>13. 1 \in Below /\ Below \in SUBSET Nat /\ s \in Nat /\ \A t \in Below : t <= s
    <3>1. s \in Nat /\ g < s /\ g >= 1 /\ g \in Nat
      BY <2>10, <2>11, <2>12
    <3>2. 1 < s
      BY <3>1
    <3>3. \A t \in Archived : t \in Nat
      BY <2>8
    <3>4. 1 \in Below
      BY <2>6, <3>2
    <3>5. Below \in SUBSET Nat
      BY <3>3
    <3>6. \A t \in Below : t <= s
      BY <3>1, <3>3
    <3> QED
      BY <3>1, <3>4, <3>5, <3>6
  <2>14. Max(Below) \in Below
    BY <2>13, GreatestMember
  <2>15. rows[s].prev = Max(Below)
    BY <2>7, <2>12, <2>13 DEF LinkedFrom
  <2>16. rows[s].prev = s - 1
    BY <2>8, <2>12
  <2>17. s - 1 \in Archived /\ s - 1 \in Nat /\ g <= s - 1
    BY <2>12, <2>13, <2>14, <2>15, <2>16
  <2>18. s - 1 = g \/ s - 1 \in Above
    BY <2>17
  <2> QED
    BY <2>10, <2>12, <2>13, <2>17, <2>18
<1> QED
  BY <1>1, <1>2

\* Unless a rotation or a deletion was cut in two, the archives hold.
LEMMA UncutArchivesHold ==
    ASSUME RecordInv, sweep.pc # "deleted", ~Cut
    PROVE  ArchivesHold(epoch, anchor)
<1> USE InvParts, Numbers
<1>1. \A m, n \in OnDisk : m < n => \A s \in filed[m], t \in filed[n] : s < t
  BY DEF Filing
<1>2. CASE epoch = NoEpoch
  <2>1. anchor = swept
    BY <1>2 DEF Begun
  <2>2. Archived = {}
    BY <2>1, ArchivedRows
  <2>3. ~Missing(epoch) /\ LinkedFrom(epoch.prev, {})
    BY <1>2 DEF Missing, LinkedFrom
  <2> QED
    BY <1>1, <2>2, <2>3 DEF ArchivesHold
<1>3. CASE epoch # NoEpoch
  <2>1. PICK h \in Nat, e \in Nat : h = epoch.prev /\ e = epoch.seq
    BY DEF RowsOK
  <2>2. e = h + 1 /\ swept < e /\ e <= anchor /\ \A s \in Archived : e <= s
    BY <1>3, <2>1 DEF Begun
  <2>3. stray \subseteq live /\ \A s \in taken : ~(e <= s)
    BY <1>3, <2>1 DEF Cut
  <2>4. ASSUME NEW s \in e .. anchor PROVE s \in Archived
    <3>1. s \in Recorded /\ s > swept /\ s \notin live
      BY <2>2
    <3>2. s \notin stray /\ s \notin taken
      BY <2>3, <3>1
    <3>3. s \notin Copying
      <4> SUFFICES ASSUME sweep.pc = "copied", s \in sweep.rows PROVE FALSE
        BY DEF Copying
      <4>1. PICK k \in anchor .. Len(rows) : sweep.rows = anchor + 1 .. k
        BY DEF Rotating
      <4> QED
        BY <4>1
    <3> QED
      BY <3>1, <3>2, <3>3 DEF NothingLost
  <2>5. Archived = h + 1 .. anchor
    <3>1. Archived \subseteq swept + 1 .. anchor
      BY ArchivedRows
    <3>2. ASSUME NEW s \in Archived PROVE s \in h + 1 .. anchor
      <4>1. s \in swept + 1 .. anchor /\ e <= s
        BY <2>2, <3>1
      <4> QED
        BY <2>2, <4>1
    <3>3. h + 1 .. anchor \subseteq Archived
      BY <2>2, <2>4
    <3> QED
      BY <3>2, <3>3
  <2>6. LinkedFrom(h, Archived)
    BY <2>5, IntervalIsLinked
  <2>7. Max(Archived) = anchor
    BY <2>2, <2>5, IntervalMax
  <2>8. ~Missing(epoch)
    <3>1. e \in Archived
      BY <2>2, <2>4
    <3>2. PICK k \in OnDisk : e \in filed[k]
      BY <3>1, ArchivedRows
    <3>3. ~Fresh /\ stray \ live = {}
      BY <2>3, <3>2 DEF Fresh
    <3>4. PICK n \in OnDisk : filed[n] # {} /\ \A i \in OnDisk : n <= i
      BY <3>3 DEF NotEmpty
    <3>5. OnDisk \subseteq Nat /\ filed[n] \subseteq Archived /\ Archived \in SUBSET Nat
      BY ArchivedRows
    <3>6. Min(OnDisk) = n
      <4>1. Min(OnDisk) \in OnDisk /\ Min(OnDisk) <= n
        BY <3>5, LeastMember
      <4>2. n <= Min(OnDisk) /\ n \in Nat /\ Min(OnDisk) \in Nat
        BY <3>4, <3>5, <4>1
      <4> QED
        BY <4>1, <4>2
    <3>7. k = n
      <4> SUFFICES ASSUME k # n PROVE FALSE
        OBVIOUS
      <4>1. n < k
        BY <3>4, <3>5
      <4>2. PICK s \in filed[n] : TRUE
        BY <3>4
      <4>3. s < e /\ s \in Nat
        BY <1>1, <3>2, <3>5, <4>1
      <4>4. e <= s
        BY <2>2, <3>5
      <4> QED
        BY <4>3, <4>4
    <3>8. Min(filed[n]) <= e /\ Min(filed[n]) \in Nat
      BY <3>2, <3>5, <3>7, LeastMember
    <3> QED
      BY <2>1, <3>2, <3>4, <3>6, <3>8 DEF Missing
  <2> QED
    BY <1>1, <2>1, <2>6, <2>7, <2>8 DEF ArchivesHold
<1> QED
  BY <1>2, <1>3

\* A step that no verification needs to notice leaves alone what it looks at.
LEMMA NothingStirs ==
    ASSUME RecordInv, [Next]_vars, ~RemoveRows, ~Promote,
           \A d \in Deleters : ~RemoveFile(d) /\ ~AdvanceEpoch(d)
    PROVE  /\ UNCHANGED <<epoch, anchor, swept>> /\ Archived' = Archived
           /\ sweep.pc # "deleted" => sweep'.pc # "deleted"
           /\ (\A d \in Deleters : deleter[d].pc # "removed")
                 => \A d \in Deleters : deleter'[d].pc # "removed"
           /\ Cut => Cut'
<1> USE InvParts, Numbers
<1>1. epoch' = epoch
  BY SweepChanges
<1>2. anchor' = anchor /\ swept' = swept
  BY RecordChanges, CreateAppends DEF Tick
<1>3. Archived' = Archived
  BY DiskChanges, GzipDisk, SameDisk
<1>4. sweep.pc # "deleted" => sweep'.pc # "deleted"
  <2>1. Drain => sweep'.pc = "copied"
    BY SweepNumbers DEF Drain
  <2> QED
    BY <2>1, SweepChanges, SweepGoesTo
<1>5. ASSUME \A d \in Deleters : deleter[d].pc # "removed", NEW d \in Deleters
      PROVE  deleter'[d].pc # "removed"
  <2>1. CASE \E e \in Deleters : AskDelete(e)
    <3>1. PICK e \in Deleters : AskDelete(e)
      BY <2>1
    <3>2. \E r : r.pc = "read" /\ deleter' = [deleter EXCEPT ![e] = r]
      BY <3>1 DEF AskDelete
    <3> QED
      BY <1>5, <3>2 DEF DeleterOK
  <2>2. CASE Crash
    BY <2>2 DEF Crash, NoDelete
  <2>3. CASE UNCHANGED deleter
    BY <1>5, <2>3
  <2> QED
    BY <2>1, <2>2, <2>3, CallChanges
<1>6. taken' = taken
  BY DiskChanges
<1>7. Cut => Cut'
  <2>1. stray \ live # {} => stray' \ live' # {}
    BY StrayGrows
  <2>2. NoEpoch' = NoEpoch
    BY DEF NoEpoch
  <2> QED
    BY <1>1, <1>6, <2>1, <2>2 DEF Cut
<1> QED
  BY <1>1, <1>2, <1>3, <1>4, <1>5, <1>7

\* A verification that nothing overlaps works from what is still so.
LEMMA JudgingKept == ASSUME RecordInv, [Next]_vars PROVE Judging'
<1> USE InvParts, Numbers
<1>0. DOMAIN check = {"pc", "epoch", "anchor", "last", "overlap", "said"} /\ check.overlap \in BOOLEAN
      /\ DOMAIN NoCheck = {"pc", "epoch", "anchor", "last", "overlap", "said"}
  BY DEF CheckOK, NoCheck
<1>1. CASE check' = Overlapped
  <2>1. check'.pc = check.pc /\ check'.overlap = (check.overlap \/ check.pc # "idle")
    BY <1>0, <1>1 DEF Overlapped
  <2> QED
    BY <2>1 DEF Judging
<1>2. CASE Crash
  <2>1. check'.pc = "idle"
    BY <1>2 DEF Crash, NoCheck
  <2> QED
    BY <2>1 DEF Judging
<1>3. CASE /\ UNCHANGED check
           /\ ~RemoveRows /\ ~Promote /\ \A d \in Deleters : ~RemoveFile(d) /\ ~AdvanceEpoch(d)
  <2>1. /\ UNCHANGED <<check, epoch, anchor, swept>> /\ Archived' = Archived
        /\ sweep.pc # "deleted" => sweep'.pc # "deleted"
        /\ (\A d \in Deleters : deleter[d].pc # "removed")
              => \A d \in Deleters : deleter'[d].pc # "removed"
        /\ Cut => Cut'
    BY <1>3, NothingStirs
  <2> QED
    BY <2>1 DEF Judging, Genesis
<1>4. CASE BeginCheck
  <2> DEFINE b == sweep.pc = "deleted" \/ \E d \in Deleters : deleter[d].pc = "removed"
  <2>1. /\ check' = [NoCheck EXCEPT !.pc = "epoch", !.epoch = epoch, !.overlap = b]
        /\ UNCHANGED <<epoch, sweep, deleter>>
    BY <1>4 DEF BeginCheck
  <2>2. check'.pc = "epoch" /\ check'.epoch = epoch /\ check'.overlap = b
    <3> HIDE DEF b
    <3> QED
      BY <1>0, <2>1
  <2> QED
    BY <2>1, <2>2 DEF Judging
<1>5. CASE CheckAnchor
  <2>1. /\ check.pc = "epoch" /\ check' = [check EXCEPT !.pc = "anchor", !.anchor = anchor]
        /\ UNCHANGED <<epoch, anchor, sweep, deleter>>
    BY <1>5 DEF CheckAnchor
  <2>2. /\ check'.pc = "anchor" /\ check'.anchor = anchor /\ check'.epoch = check.epoch
        /\ check'.overlap = check.overlap
    BY <1>0, <2>1
  <2> QED
    BY <2>1, <2>2 DEF Judging
<1>6. CASE CheckArchives
  <2>1. check.pc = "anchor" /\ UNCHANGED <<epoch, anchor, live, stray, taken, sweep, deleter, swept>>
        /\ UNCHANGED <<form, filed>>
    BY <1>6 DEF CheckArchives, files
  <2>2. check'.overlap = check.overlap /\ check'.epoch = check.epoch /\ check'.anchor = check.anchor
        /\ check'.pc \in {"live", "said"}
    BY <1>0, <1>6 DEF CheckArchives
  <2>3. SUFFICES ASSUME ~check.overlap PROVE Judging'
    BY <2>2 DEF Judging
  <2>4. /\ check.epoch = epoch /\ sweep.pc # "deleted" /\ check.anchor = anchor
        /\ \A d \in Deleters : deleter[d].pc # "removed"
    BY <2>1, <2>3 DEF Judging
  <2>5. Archived' = Archived /\ (Cut => Cut') /\ Genesis' = Genesis
    BY <2>1, SameDisk DEF Cut, NoEpoch, Genesis
  <2>6. CASE ArchivesHold(epoch, anchor)
    <3>1. check' = [check EXCEPT !.pc = "live", !.last = IF Archived = {} THEN Genesis ELSE Max(Archived)]
      BY <1>6, <2>4, <2>6 DEF CheckArchives
    <3>2. check'.pc = "live" /\ check'.last = IF Archived = {} THEN Genesis ELSE Max(Archived)
      BY <1>0, <3>1
    <3>3. Archived # {} => Max(Archived) = anchor
      BY <2>6 DEF ArchivesHold
    <3>4. Archived # {} => anchor # Genesis
      BY ArchivedRows DEF Genesis
    <3>5. epoch.prev = Genesis \/ check'.last = Genesis => swept + 1 .. anchor \subseteq Archived
      BY <2>6, <3>2, <3>3, <3>4, HeldArchivesAreWhole
    <3> QED
      BY <2>1, <2>2, <2>4, <2>5, <3>2, <3>3, <3>5 DEF Judging
  <2>7. CASE ~ArchivesHold(epoch, anchor)
    <3>1. check' = [check EXCEPT !.pc = "said", !.said = "broken"]
      BY <1>6, <2>4, <2>7 DEF CheckArchives
    <3>2. check'.pc = "said" /\ check'.said = "broken"
      BY <1>0, <3>1
    <3>3. Cut
      BY <2>4, <2>7, UncutArchivesHold
    <3> QED
      BY <2>1, <2>2, <2>4, <2>5, <3>2, <3>3 DEF Judging
  <2> QED
    BY <2>6, <2>7
<1>7. CASE CheckLive
  <2> DEFINE from == IF check.last = Genesis THEN check.anchor ELSE check.last
             verdict == IF ~LinkedFrom(from, {s \in live : s > from}) THEN "broken"
                        ELSE IF check.epoch.prev # Genesis /\ check.last # Genesis THEN "incomplete"
                        ELSE "whole"
  <2>1. /\ check.pc = "live" /\ check' = [check EXCEPT !.pc = "said", !.said = verdict]
        /\ UNCHANGED <<epoch, anchor, sweep, deleter, swept>> /\ UNCHANGED <<form, filed>>
    BY <1>7 DEF CheckLive, files
  <2>2. /\ check'.pc = "said" /\ check'.said = verdict /\ check'.epoch = check.epoch
        /\ check'.overlap = check.overlap
    <3> HIDE DEF verdict
    <3> QED
      BY <1>0, <2>1
  <2>3. SUFFICES ASSUME ~check.overlap PROVE Judging'
    BY <2>2 DEF Judging
  <2>4. /\ check.epoch = epoch /\ sweep.pc # "deleted" /\ check.anchor = anchor
        /\ \A d \in Deleters : deleter[d].pc # "removed"
        /\ check.last = IF Archived = {} THEN Genesis ELSE anchor
        /\ check.epoch.prev = Genesis \/ check.last = Genesis => swept + 1 .. anchor \subseteq Archived
    BY <2>1, <2>3 DEF Judging
  <2>5. from = anchor
    BY <2>4
  <2>6. {s \in live : s > from} = anchor + 1 .. Len(rows)
    <3>1. live = anchor + 1 .. Len(rows)
      BY DEF Chained
    <3> HIDE DEF from
    <3> QED
      BY <2>5, <3>1
  <2>7. LinkedFrom(from, {s \in live : s > from})
    <3> HIDE DEF from
    <3>1. LinkedFrom(anchor, anchor + 1 .. Len(rows))
      BY IntervalIsLinked
    <3> QED
      BY <2>5, <2>6, <3>1
  <2>8. verdict # "broken" /\ (verdict = "whole" => check.epoch.prev = Genesis \/ check.last = Genesis)
    BY <2>7
  <2>9. verdict = "whole" => swept + 1 .. anchor \subseteq Archived
    BY <2>4, <2>8
  <2>10. Archived' = Archived
    BY <2>1, SameDisk
  <2> HIDE DEF verdict, from
  <2> QED
    BY <2>1, <2>2, <2>4, <2>8, <2>9, <2>10 DEF Judging
<1> QED
  BY <1>1, <1>2, <1>3, <1>4, <1>5, <1>6, <1>7, CheckChanges

-----------------------------------------------------------------------------
(* The theorems *)

\* The invariant holds at the start, swept once before or not.
LEMMA InvInit == Init => RecordInv
<1> SUFFICES ASSUME Init PROVE RecordInv
  OBVIOUS
<1>1. MaxEvents \in Nat \ {0} /\ MaxTime \in Nat /\ MaxAttempts \in Nat /\ 0 \in Months
  BY BoundsAssumption DEF Months
<1>2. swept \in {0, 1} /\ swept \in Nat /\ anchor = swept /\ live = {} /\ now = 0
      /\ rows = [s \in 1 .. swept |-> [prev |-> Genesis, at |-> 0]]
  BY DEF Init
<1>3. rows \in Seq([prev : Nat, at : Months]) /\ Len(rows) = swept
  BY <1>1, <1>2 DEF Genesis
<1>4. Recorded = 1 .. swept
  BY <1>2 DEF Recorded
<1>5. OnDisk = {}
  BY DEF Init, OnDisk
<1>6. Archived = {}
  BY <1>5 DEF Archived
<1>7. RowsOK
  BY <1>1, <1>2, <1>3, <1>4 DEF Init, RowsOK, NoEpoch, Genesis
<1>8. SweepOK /\ DeleterOK /\ WriterOK /\ DiskOK
  BY <1>1, <1>4 DEF Init, SweepOK, DeleterOK, WriterOK, DiskOK, NoSweep, NoDelete, Idle, NoEpoch,
                    Genesis, Forms
<1>9. CheckOK
  BY DEF Init, CheckOK, NoCheck, NoEpoch, Genesis
<1>10. Chained
  <2>1. live = anchor + 1 .. Len(rows)
    BY <1>2, <1>3
  <2>2. \A s \in Recorded : rows[s].prev = s - 1 /\ rows[s].at <= now
    BY <1>2, <1>4 DEF Genesis
  <2> QED
    BY <1>2, <2>1, <2>2 DEF Chained
<1>11. Writing
  BY DEF Init, Writing, Idle
<1>12. Filing
  BY <1>5 DEF Filing
<1>13. Rotating
  BY DEF Init, Rotating, NoSweep
<1>14. NotEmpty
  BY <1>5 DEF Init, NotEmpty, Fresh, NoSweep
<1>15. Begun
  BY DEF Init, Begun
<1>16. Deleting
  BY DEF Init, Deleting, NoDelete
<1>17. Judging
  BY DEF Init, Judging, NoCheck
<1>18. NothingLost
  BY <1>2, <1>4 DEF NothingLost
<1> QED
  BY <1>7, <1>8, <1>9, <1>10, <1>11, <1>12, <1>13, <1>14, <1>15, <1>16, <1>17, <1>18, TypeParts
     DEF RecordInv

\* The audit record's invariant holds in every behaviour, with any number of
\* appends and deletions on their way at once.
THEOREM RecordStaysSound == Spec => []RecordInv
<1>1. RecordInv /\ [Next]_vars => RecordInv'
  BY TypesKept, CheckTyped, ChainedKept, WritingKept, FilingKept, RotatingKept, NotEmptyKept,
     BegunKept, DeletingKept, JudgingKept, NothingLostKept DEF RecordInv
<1> QED
  BY InvInit, <1>1, PTL DEF Spec

\* No crash, failed rename or overlap loses an event, files one twice or stops
\* the sweeps, and the live rows are one chain from the anchor (append.ts,
\* rotate.ts, retention.ts).
THEOREM RecordStaysWhole == Spec => []RecordIsWhole
<1>1. RecordInv => RecordIsWhole
  <2> SUFFICES ASSUME RecordInv PROVE RecordIsWhole
    OBVIOUS
  <2> USE InvParts, Numbers
  <2>1. live \cap Archived = {}
    BY ArchivedRows
  <2>2. ASSUME NEW m \in OnDisk, NEW n \in OnDisk, m # n, NEW s \in filed[m] \cap filed[n]
        PROVE  FALSE
    <3>1. m \in Nat /\ n \in Nat /\ s \in Nat
      BY ArchivedRows
    <3>2. \A i, k \in OnDisk : i < k => \A t \in filed[i], u \in filed[k] : t < u
      BY DEF Filing
    <3>3. ~(m < n) /\ ~(n < m)
      BY <2>2, <3>1, <3>2
    <3> QED
      BY <2>2, <3>1, <3>3
  <2>3. LinkedFrom(anchor, live)
    <3>1. live = anchor + 1 .. Len(rows)
      BY DEF Chained
    <3>2. anchor \in Nat /\ Len(rows) \in Nat /\ Len(rows) <= Len(rows)
      OBVIOUS
    <3> QED
      BY <3>1, <3>2, IntervalIsLinked
  <2>4. ~Refused
    <3> SUFFICES ASSUME sweep.pc = "period"
                 PROVE  form[sweep.month] = "none" /\ LinkedFrom(anchor, Prefix(sweep.month))
      BY DEF Refused
    <3>1. form[sweep.month] = "none"
      <4>1. sweep.month \notin OnDisk
        BY SweepNumbers DEF Rotating
      <4> QED
        BY <4>1, SweepNumbers DEF OnDisk
    <3>2. PICK k \in anchor .. Len(rows) : Prefix(sweep.month) = anchor + 1 .. k
      BY SweepNumbers, PrefixIsInterval
    <3>3. LinkedFrom(anchor, Prefix(sweep.month))
      BY <3>2, IntervalIsLinked
    <3> QED
      BY <3>1, <3>3
  <2> QED
    BY <2>1, <2>2, <2>3, <2>4 DEF RecordIsWhole, FiledOnce
<1> QED
  BY <1>1, RecordStaysSound, PTL

\* A verification nothing overlaps calls an untouched record broken only if a
\* crash or a failed rename cut something in two, and whole only if every event
\* is live or archived (verify.ts:291-373).
THEOREM VerdictsAreJust == Spec => []VerdictIsJust
<1>1. RecordInv => VerdictIsJust
  <2> SUFFICES ASSUME RecordInv, check.pc = "said", ~check.overlap
               PROVE  /\ check.said = "broken" => Cut
                      /\ check.said = "whole" =>
                            \A s \in Recorded : s > swept => s \in live \cup Archived
    BY DEF VerdictIsJust
  <2> USE InvParts, Numbers
  <2>1. check.said = "broken" => Cut
    BY DEF Judging
  <2>2. check.said = "whole" => swept + 1 .. anchor \subseteq Archived
    BY DEF Judging
  <2>3. ASSUME check.said = "whole", NEW s \in Recorded, s > swept PROVE s \in live \cup Archived
    <3>1. CASE anchor < s
      BY <3>1
    <3>2. CASE ~(anchor < s)
      <4>1. s \in swept + 1 .. anchor
        BY <2>3, <3>2
      <4> QED
        BY <2>2, <2>3, <4>1
    <3> QED
      BY <3>1, <3>2
  <2> QED
    BY <2>1, <2>3
<1> QED
  BY <1>1, RecordStaysSound, PTL

\* Whatever deletions overlap, the epoch never passes an event that is still in
\* the table or in an archive (epoch.ts:103-127).
THEOREM EpochPassesWhatIsGone ==
    Spec => [][epoch # NoEpoch =>
                  \A s \in Recorded : epoch.seq <= s /\ s < epoch'.seq => s \in taken \cup stray]_epoch
<1> DEFINE Passes == epoch # NoEpoch =>
                  \A s \in Recorded : epoch.seq <= s /\ s < epoch'.seq => s \in taken \cup stray
<1>1. RecordInv /\ [Next]_vars => [Passes]_epoch
  <2> SUFFICES ASSUME RecordInv, [Next]_vars, epoch' # epoch, epoch # NoEpoch,
                      NEW s \in Recorded, epoch.seq <= s, s < epoch'.seq
               PROVE  s \in taken \cup stray
    OBVIOUS
  <2> USE InvParts, Numbers
  <2>1. ~RemoveRows
    BY RemovalMovesAnchor
  <2>2. PICK d \in Deleters : AdvanceEpoch(d)
    BY <2>1, SweepChanges
  <2>3. PICK b \in [seq : Nat, prev : Nat] : b = deleter[d].begins /\ epoch' = b
    BY <2>2 DEF AdvanceEpoch, DeleterOK
  <2>4. /\ swept < b.seq /\ b.seq <= anchor /\ \A t \in Archived : b.seq <= t
        /\ sweep.pc \in {"copied", "deleted"} => \A t \in sweep.rows : b.seq <= t
    BY <2>2, <2>3 DEF AdvanceEpoch, Deleting
  <2>5. epoch.seq \in Nat /\ swept < epoch.seq
    BY DEF Begun, RowsOK
  <2>6. s > swept /\ s < b.seq /\ s \in Nat
    BY <2>3, <2>5
  <2>7. s \notin live /\ s \notin Archived /\ s \notin Copying
    BY <2>4, <2>6 DEF Copying
  <2> QED
    BY <2>6, <2>7 DEF NothingLost
<1> QED
  BY <1>1, RecordStaysSound, PTL DEF Spec

\* One deletion at a time reads no epoch that lies past the row it will move it to.
Solo == \A d \in Deleters :
            deleter[d].pc # "idle" => epoch # NoEpoch /\ epoch.seq <= deleter[d].begins.seq

\* As long as deletions do not overlap, the epoch only moves forward, and only
\* past events that are gone.  Two that overlap can move it back: the one that
\* read the older archive may write its epoch last.
THEOREM EpochOnlyAdvances ==
    ASSUME \A d, e \in Deleters : d = e
    PROVE  Spec => EpochAdvances
<1>1. Init => Solo
  BY DEF Init, Solo, NoDelete
<1>2. ASSUME RecordInv, [Next]_vars, Solo PROVE Solo'
  <2> USE <1>2, InvParts, Numbers
  <2>1. SUFFICES ASSUME NEW d \in Deleters, deleter'[d].pc # "idle"
                 PROVE  epoch' # NoEpoch' /\ epoch'.seq <= deleter'[d].begins.seq
    BY DEF Solo
  <2>2. NoEpoch' = NoEpoch /\ DOMAIN deleter = Deleters
        /\ deleter[d] \in [pc : {"idle", "read", "removed"}, month : Months,
                           begins : [seq : Nat, prev : Nat]]
    BY DEF NoEpoch, DeleterOK
  <2>3. epoch # NoEpoch => UNCHANGED epoch \/ AdvanceEpoch(d)
    <3>1. RemoveRows /\ epoch # NoEpoch => epoch' = epoch
      BY RemovalMovesAnchor
    <3> QED
      BY <3>1, SweepChanges
  <2>4. ~AdvanceEpoch(d)
    BY <2>1, <2>2 DEF AdvanceEpoch, NoDelete
  <2>5. CASE AskDelete(d)
    <3>1. PICK i \in OnDisk, n \in OnDisk :
          \E s \in filed[n] :
            deleter' = [deleter EXCEPT ![d] = [pc |-> "read", month |-> i,
                                               begins |-> [seq |-> s, prev |-> s - 1]]]
      BY <2>5, AskedOf
    <3>2. PICK s \in filed[n] :
            deleter' = [deleter EXCEPT ![d] = [pc |-> "read", month |-> i,
                                               begins |-> [seq |-> s, prev |-> s - 1]]]
      BY <3>1
    <3>3. deleter'[d].begins.seq = s
      BY <2>2, <3>2
    <3>4. s \in Archived /\ anchor # swept
      BY ArchivedRows
    <3>5. epoch # NoEpoch /\ epoch.seq <= s
      BY <3>4 DEF Begun
    <3>6. epoch' = epoch
      BY <2>5 DEF AskDelete
    <3> QED
      BY <2>2, <3>3, <3>5, <3>6
  <2>6. CASE ~AskDelete(d)
    <3>1. deleter[d].pc # "idle" /\ deleter'[d].begins = deleter[d].begins
      <4>1. CASE RemoveFile(d)
        <5>1. deleter' = [deleter EXCEPT ![d].pc = "removed"] /\ deleter[d].pc = "read"
          BY <4>1 DEF RemoveFile
        <5> QED
          BY <2>2, <5>1
      <4>2. CASE UNCHANGED deleter
        BY <2>1, <4>2
      <4>3. ~Crash
        BY <2>1 DEF Crash, NoDelete
      <4> QED
        BY <2>4, <2>6, <4>1, <4>2, <4>3, CallChanges
    <3>2. epoch # NoEpoch /\ epoch.seq <= deleter[d].begins.seq
      BY <1>2, <3>1 DEF Solo
    <3> QED
      BY <2>2, <2>3, <2>4, <3>1, <3>2
  <2> QED
    BY <2>5, <2>6
<1> DEFINE Forward == epoch # NoEpoch => epoch'.seq >= epoch.seq
           Passes  == epoch # NoEpoch =>
                  \A s \in Recorded : epoch.seq <= s /\ s < epoch'.seq => s \in taken \cup stray
<1>3. RecordInv /\ [Next]_vars /\ Solo => [Forward]_epoch
  <2> SUFFICES ASSUME RecordInv, [Next]_vars, Solo, epoch' # epoch, epoch # NoEpoch
               PROVE  epoch'.seq >= epoch.seq
    OBVIOUS
  <2> USE InvParts, Numbers
  <2>1. ~RemoveRows
    BY RemovalMovesAnchor
  <2>2. PICK d \in Deleters : AdvanceEpoch(d)
    BY <2>1, SweepChanges
  <2>3. deleter[d].pc = "removed" /\ epoch' = deleter[d].begins
    BY <2>2 DEF AdvanceEpoch
  <2>4. epoch.seq <= deleter[d].begins.seq /\ epoch.seq \in Nat /\ deleter[d].begins.seq \in Nat
    BY <2>3 DEF Solo, RowsOK, DeleterOK
  <2> QED
    BY <2>3, <2>4
<1>4. Spec => [][Passes]_epoch
  BY EpochPassesWhatIsGone
<1>5. [Forward]_epoch /\ [Passes]_epoch
      => [epoch # NoEpoch => /\ epoch'.seq >= epoch.seq
                             /\ \A s \in Recorded : epoch.seq <= s /\ s < epoch'.seq
                                                    => s \in taken \cup stray]_epoch
  OBVIOUS
<1> QED
  BY <1>1, <1>2, <1>3, <1>4, <1>5, RecordStaysSound, PTL DEF Spec, EpochAdvances
=============================================================================
