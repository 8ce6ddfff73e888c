---------------------------- MODULE AuditRecord ----------------------------
(***************************************************************************)
(* The audit record: rows chained by hash in audit.db (lib/audit/append.ts), *)
(* moved a month at a time into archive files (lib/audit/retention.ts,      *)
(* lib/archive/rotate.ts), deleted there by an operator                     *)
(* (app/(panel)/archives/actions.ts) and walked by the verifier             *)
(* (lib/audit/verify.ts).                                                   *)
(*                                                                         *)
(* A row is known by its seq, and stands for its own hash: prev is the seq  *)
(* whose hash the row's prevHash is, Genesis the constant hash.  Time is    *)
(* counted in months.  A write is short and a month is only due a day after *)
(* its end, so an append sees at most one month's end (Tick) and rows of    *)
(* the two months before the current one are not due.                       *)
(*                                                                         *)
(* Steps that only read rows nobody else can change (the pages a drain      *)
(* copies, an archive's first row) are one action with the decision they    *)
(* serve.  Nobody alters a row here: every verdict of "broken" is false.    *)
(***************************************************************************)
EXTENDS Naturals, Sequences, FiniteSetsExt

CONSTANTS
    Writers,      \* appends that may be on their way at once
    Cli,          \* the writers of auth:recover, a process of its own
    Deleters,     \* calls of deleteAuditArchive on their way at once
    MaxAttempts,  \* MAX_CHAIN_ATTEMPTS
    MaxEvents,    \* bound: rows ever recorded
    MaxTime,      \* bound: the last month
    MaxMishaps,   \* bound: crashes of the server, and file operations that fail
    MaxChecks     \* bound: verifications

ASSUME WritersAssumption == Cli \subseteq Writers
ASSUME BoundsAssumption ==
    /\ {MaxAttempts, MaxEvents} \subseteq Nat \ {0}
    /\ {MaxTime, MaxMishaps, MaxChecks} \subseteq Nat

VARIABLES
    now,      \* the current month
    rows,     \* every row ever recorded, by seq: [prev, at]
    live,     \* the rows in audit.db
    anchor,   \* AuditAnchor's seq, Genesis when there is none
    epoch,    \* AuditEpoch: [seq, prev], NoEpoch when there is none
    form,     \* what is on disk under a month's final names
    filed,    \* the rows in that archive
    writer,   \* the appends: where each is
    sweep,    \* the maintenance pass's sweep: where it is
    deleter,  \* the deletions: where each is
    check,    \* the verification: where it is, and what it said
    stray,    \* rows in *.partial files nobody works on any more
    taken,    \* history: rows in archives operators deleted
    swept,    \* rows removed before there were archives
    mishaps, checks

files   == <<form, filed, stray>>
bounds  == <<mishaps, checks>>
vars == <<now, rows, live, anchor, epoch, files, writer, sweep, deleter, check,
          taken, swept, bounds>>

Months  == 0 .. MaxTime
Seqs    == 1 .. MaxEvents
Genesis == 0
NoEpoch == [seq |-> 0, prev |-> 0]

\* "torn" is a .gz that is not whole beside its .db, "both" a whole one.
Forms == {"none", "db", "torn", "both", "gz"}

Recorded == DOMAIN rows
OnDisk   == {m \in Months : form[m] # "none"}
Listed   == {m \in Months : form[m] \in {"torn", "both", "gz"}}
Archived == UNION {filed[m] : m \in OnDisk}
Copying  == IF sweep.pc \in {"copied", "deleted"} THEN sweep.rows ELSE {}

Idle     == [pc |-> "idle", at |-> 0, tries |-> 0, prev |-> Genesis]
NoSweep  == [pc |-> "idle", month |-> 0, last |-> 0, rows |-> {}]
NoDelete == [pc |-> "idle", month |-> 0, begins |-> NoEpoch]
NoCheck  == [pc |-> "idle", epoch |-> NoEpoch, anchor |-> Genesis, last |-> Genesis,
             overlap |-> FALSE, said |-> "nothing"]

TypeOK ==
    /\ now \in Months /\ live \subseteq Recorded /\ anchor \in {Genesis} \cup Recorded
    /\ rows \in Seq([prev : Nat, at : Months]) /\ Len(rows) <= MaxEvents
    /\ epoch \in [seq : Nat, prev : Nat]
    /\ form \in [Months -> Forms] /\ filed \in [Months -> SUBSET Recorded]
    /\ writer \in [Writers -> [pc : {"idle", "tail", "anchor", "create"}, at : Months,
                               tries : 0 .. MaxAttempts, prev : {Genesis} \cup Recorded]]
    /\ sweep \in [pc : {"idle", "period", "copied", "deleted", "promoted", "gzip", "next"},
                  month : Months, last : Months, rows : SUBSET Recorded]
    /\ deleter \in [Deleters -> [pc : {"idle", "read", "removed"}, month : Months,
                                 begins : [seq : Nat, prev : Nat]]]
    /\ stray \subseteq Recorded /\ taken \subseteq Recorded /\ swept \in Nat

\* An install that never swept, or one that swept a row before it archived any.
Init ==
    /\ now = 0
    /\ swept \in {0, 1}
    /\ rows = [s \in 1 .. swept |-> [prev |-> Genesis, at |-> 0]]
    /\ live = {} /\ anchor = swept /\ epoch = NoEpoch
    /\ form = [m \in Months |-> "none"] /\ filed = [m \in Months |-> {}]
    /\ writer = [w \in Writers |-> Idle] /\ sweep = NoSweep
    /\ deleter = [d \in Deleters |-> NoDelete] /\ check = NoCheck
    /\ stray = {} /\ taken = {}
    /\ mishaps = 0 /\ checks = 0

-----------------------------------------------------------------------------
\* appendAuditEvent: the moment is taken once, before the first attempt.
BeginAppend(w) ==
    /\ writer[w].pc = "idle" /\ Len(rows) < MaxEvents
    /\ writer' = [writer EXCEPT ![w] = [Idle EXCEPT !.pc = "tail", !.at = now, !.tries = 1]]

Append_(w) ==
    /\ BeginAppend(w)
    /\ UNCHANGED <<now, rows, live, anchor, epoch, files, sweep, deleter, check, taken, swept, bounds>>

\* tailHash, its first read: the newest row's hash.
ReadTail(w) ==
    /\ writer[w].pc = "tail"
    /\ writer' = [writer EXCEPT ![w] = IF live = {} THEN [@ EXCEPT !.pc = "anchor"]
                                       ELSE [@ EXCEPT !.pc = "create", !.prev = Max(live)]]
    /\ UNCHANGED <<now, rows, live, anchor, epoch, files, sweep, deleter, check, taken, swept, bounds>>

\* tailHash, its second read: the table was empty.
ReadAnchor(w) ==
    /\ writer[w].pc = "anchor"
    /\ writer' = [writer EXCEPT ![w].pc = "create", ![w].prev = anchor]
    /\ UNCHANGED <<now, rows, live, anchor, epoch, files, sweep, deleter, check, taken, swept, bounds>>

\* The constraint on prev_hash covers the rows in the table, not the swept ones.
Taken(prev) == \E s \in live : rows[s].prev = prev

Create(w) ==
    /\ writer[w].pc = "create" /\ ~Taken(writer[w].prev) /\ Len(rows) < MaxEvents
    /\ rows' = Append(rows, [prev |-> writer[w].prev, at |-> writer[w].at])
    /\ live' = live \cup {Len(rows) + 1}
    /\ writer' = [writer EXCEPT ![w] = Idle]
    /\ UNCHANGED <<now, anchor, epoch, files, sweep, deleter, check, taken, swept, bounds>>

\* The constraint refused the row: read the tail again, or give the event up.
Collide(w) ==
    /\ writer[w].pc = "create" /\ Taken(writer[w].prev)
    /\ writer' = [writer EXCEPT ![w] =
            IF @.tries < MaxAttempts THEN [@ EXCEPT !.pc = "tail", !.tries = writer[w].tries + 1] ELSE Idle]
    /\ UNCHANGED <<now, rows, live, anchor, epoch, files, sweep, deleter, check, taken, swept, bounds>>

-----------------------------------------------------------------------------
\* periodsFullyBefore: a month is due when all of it is past the cutoff.
Due(m) == m + 2 < now

\* sweepAuditNow: the months from the oldest row's to the last one due.
StartSweep ==
    /\ sweep.pc = "idle" /\ live # {}
    /\ LET first == rows[Min(live)].at
       IN  /\ Due(first)
           /\ sweep' = [NoSweep EXCEPT !.pc = "period", !.month = first,
                                       !.last = Max({m \in Months : Due(m)})]
    /\ UNCHANGED <<now, rows, live, anchor, epoch, files, writer, deleter, check, taken, swept, bounds>>

\* The verification under way, if any, does not see the record stand still.
Overlapped == [check EXCEPT !.overlap = @ \/ check.pc # "idle"]

\* A prefix of the table, chosen by the newest row from before the boundary.
Prefix(m) == {s \in live : \E t \in live : rows[t].at <= m /\ s <= t}

\* The rows of S in order, each naming the one before it, the first naming h.
LinkedFrom(h, S) ==
    \A s \in S : LET before == {t \in S : t < s}
                 IN  rows[s].prev = IF before = {} THEN h ELSE Max(before)

\* archivePeriod up to the delete: refuseIfArchived, then a copy that verifies.
Drain ==
    /\ sweep.pc = "period" /\ form[sweep.month] = "none"
    /\ LinkedFrom(anchor, Prefix(sweep.month))
    /\ sweep' = [sweep EXCEPT !.pc = "copied", !.rows = Prefix(sweep.month)]
    /\ UNCHANGED <<now, rows, live, anchor, epoch, files, writer, deleter, check, taken, swept, bounds>>

\* A throw before the delete is done: the copy is discarded, the sweep is over.
Refused == sweep.pc = "period" /\ (form[sweep.month] # "none" \/ ~LinkedFrom(anchor, Prefix(sweep.month)))

DrainFails ==
    /\ \/ Refused /\ UNCHANGED mishaps
       \/ sweep.pc = "copied" /\ mishaps < MaxMishaps /\ mishaps' = mishaps + 1
    /\ sweep' = NoSweep
    /\ UNCHANGED <<now, rows, live, anchor, epoch, files, writer, deleter, check, taken, swept, checks>>

\* Mistake: every removal claims the epoch.
MistakeClaimsAgain(s) == [seq |-> s, prev |-> rows[s].prev]

\* claimEpoch: written once, by the first removal there ever is.
Claimed(s) == IF epoch # NoEpoch THEN epoch ELSE [seq |-> s, prev |-> rows[s].prev]

\* removeAuditThrough: one transaction, nothing when the period was empty.
RemoveRows ==
    /\ sweep.pc = "copied"
    /\ IF sweep.rows = {} THEN UNCHANGED <<live, anchor, epoch>>
       ELSE /\ epoch' = Claimed(Min(live))
            /\ live' = live \ sweep.rows
            /\ anchor' = Max(sweep.rows)
    /\ sweep' = [sweep EXCEPT !.pc = "deleted"]
    /\ check' = Overlapped
    /\ UNCHANGED <<now, rows, files, writer, deleter, taken, swept, bounds>>

\* Mistake: a rename that fails discards the copy, as a drain that fails does.
MistakeDiscards ==
    /\ sweep.pc = "deleted"
    /\ \/ /\ form' = [form EXCEPT ![sweep.month] = "db"]
          /\ filed' = [filed EXCEPT ![sweep.month] = sweep.rows]
          /\ sweep' = [sweep EXCEPT !.pc = "promoted", !.rows = {}]
          /\ UNCHANGED mishaps
       \/ /\ mishaps < MaxMishaps /\ mishaps' = mishaps + 1
          /\ sweep' = NoSweep
          /\ UNCHANGED <<form, filed>>
    /\ check' = Overlapped
    /\ UNCHANGED <<now, rows, live, anchor, epoch, stray, writer, deleter, taken, swept, checks>>

\* promote: the rename that gives the archive its name.
Promote ==
    /\ sweep.pc = "deleted"
    /\ \/ /\ form' = [form EXCEPT ![sweep.month] = "db"]
          /\ filed' = [filed EXCEPT ![sweep.month] = sweep.rows]
          /\ sweep' = [sweep EXCEPT !.pc = "promoted", !.rows = {}]
          /\ UNCHANGED <<stray, mishaps>>
       \/ /\ mishaps < MaxMishaps /\ mishaps' = mishaps + 1
          /\ stray' = stray \cup sweep.rows
          /\ sweep' = [sweep EXCEPT !.pc = "next", !.rows = {}]
          /\ UNCHANGED <<form, filed>>
    /\ check' = Overlapped
    /\ UNCHANGED <<now, rows, live, anchor, epoch, writer, deleter, taken, swept, checks>>

\* compress, begun: the .gz grows under its final name.
Gzip ==
    /\ sweep.pc = "promoted"
    /\ form' = [form EXCEPT ![sweep.month] = "torn"]
    /\ sweep' = [sweep EXCEPT !.pc = "gzip"]
    /\ UNCHANGED <<now, rows, live, anchor, epoch, filed, stray, writer, deleter, check, taken, swept, bounds>>

\* compress, ended: whole and the .db removed, or not removed, or not whole
\* and the .gz removed, or not removed.
Gzipped ==
    /\ sweep.pc = "gzip"
    /\ \E f \in {"gz", "both", "db", "torn"} :
          /\ form' = [form EXCEPT ![sweep.month] = f]
          /\ IF f = "gz" THEN UNCHANGED mishaps ELSE mishaps < MaxMishaps /\ mishaps' = mishaps + 1
    /\ sweep' = [sweep EXCEPT !.pc = "next"]
    /\ UNCHANGED <<now, rows, live, anchor, epoch, filed, stray, writer, deleter, check, taken, swept,
                   checks>>

\* The next month due, or the end: runMaintenancePass records audit:sweep, a
\* write whose failure it swallows.
NextPeriod ==
    /\ sweep.pc = "next"
    /\ \/ /\ sweep.month < sweep.last
          /\ sweep' = [sweep EXCEPT !.pc = "period", !.month = @ + 1]
          /\ UNCHANGED writer
       \/ /\ sweep.month = sweep.last
          /\ sweep' = NoSweep
          /\ UNCHANGED writer \/ \E w \in Writers \ Cli : BeginAppend(w)
    /\ UNCHANGED <<now, rows, live, anchor, epoch, files, deleter, check, taken, swept, bounds>>

-----------------------------------------------------------------------------
\* removeAuditArchive up to the reading of the next archive's first row: no
\* .db may be there, the oldest of several goes, the next one must hold rows.
AskDelete(d) ==
    /\ deleter[d].pc = "idle"
    /\ \A m \in Months : form[m] \in {"none", "gz"}
    /\ \E m, n \in Listed :
          /\ m < n /\ \A k \in Listed : k = m \/ n <= k
          /\ filed[n] # {}
          /\ deleter' = [deleter EXCEPT ![d] = [pc |-> "read", month |-> m,
                begins |-> [seq |-> Min(filed[n]), prev |-> rows[Min(filed[n])].prev]]]
    /\ UNCHANGED <<now, rows, live, anchor, epoch, files, writer, sweep, check, taken, swept, bounds>>

\* rmSync, which is content to find the file gone.  The upsert that follows is
\* issued at once, and upserts are served in the order they are issued.
RemoveFile(d) ==
    /\ deleter[d].pc = "read" /\ \A e \in Deleters : deleter[e].pc # "removed"
    /\ LET m == deleter[d].month
       IN  /\ form' = [form EXCEPT ![m] = IF @ \in {"gz", "none"} THEN "none" ELSE "db"]
           /\ filed' = [filed EXCEPT ![m] = IF form'[m] = "none" THEN {} ELSE @]
           /\ taken' = taken \cup (filed[m] \ filed'[m])
    /\ deleter' = [deleter EXCEPT ![d].pc = "removed"]
    /\ check' = Overlapped
    /\ UNCHANGED <<now, rows, live, anchor, epoch, stray, writer, sweep, swept, bounds>>

AdvanceEpoch(d) ==
    /\ deleter[d].pc = "removed"
    /\ epoch' = deleter[d].begins
    /\ deleter' = [deleter EXCEPT ![d] = NoDelete]
    /\ check' = Overlapped
    /\ UNCHANGED <<now, rows, live, anchor, files, writer, sweep, taken, swept, bounds>>

-----------------------------------------------------------------------------
\* A verification is asked for: the caller reads the epoch first.
BeginCheck ==
    /\ check.pc \in {"idle", "said"} /\ checks < MaxChecks
    /\ check' = [NoCheck EXCEPT !.pc = "epoch", !.epoch = epoch,
                    !.overlap = sweep.pc = "deleted" \/ \E d \in Deleters : deleter[d].pc = "removed"]
    /\ checks' = checks + 1
    /\ UNCHANGED <<now, rows, live, anchor, epoch, files, writer, sweep, deleter, taken, swept,
                   mishaps>>

CheckAnchor ==
    /\ check.pc = "epoch"
    /\ check' = [check EXCEPT !.pc = "anchor", !.anchor = anchor]
    /\ UNCHANGED <<now, rows, live, anchor, epoch, files, writer, sweep, deleter, taken, swept, bounds>>

\* Mistake: nothing asks whether the archives reach back to the epoch.
MistakeNoMissing(e) == FALSE

\* missingArchive: the oldest file must reach back to the epoch.
Missing(e) ==
    e # NoEpoch /\ \/ OnDisk = {}
                   \/ filed[Min(OnDisk)] = {}
                   \/ Min(filed[Min(OnDisk)]) > e.seq

\* walkArchives and joinToAnchor: the files one after the other, and the last
\* of their rows the one the anchor names.
ArchivesHold(e, a) ==
    /\ ~Missing(e)
    /\ \A m, n \in OnDisk : m < n => \A s \in filed[m], t \in filed[n] : s < t
    /\ LinkedFrom(e.prev, Archived)
    /\ Archived # {} => Max(Archived) = a

CheckArchives ==
    /\ check.pc = "anchor"
    /\ check' = IF ArchivesHold(check.epoch, check.anchor)
                THEN [check EXCEPT !.pc = "live",
                                   !.last = IF Archived = {} THEN Genesis ELSE Max(Archived)]
                ELSE [check EXCEPT !.pc = "said", !.said = "broken"]
    /\ UNCHANGED <<now, rows, live, anchor, epoch, files, writer, sweep, deleter, taken, swept, bounds>>

\* The live rows, from the last archived row or else from the anchor.
CheckLive ==
    /\ check.pc = "live"
    /\ LET from == IF check.last = Genesis THEN check.anchor ELSE check.last
           said == IF ~LinkedFrom(from, {s \in live : s > from}) THEN "broken"
                   ELSE IF check.epoch.prev # Genesis /\ check.last # Genesis THEN "incomplete"
                   ELSE "whole"
       IN  check' = [check EXCEPT !.pc = "said", !.said = said]
    /\ UNCHANGED <<now, rows, live, anchor, epoch, files, writer, sweep, deleter, taken, swept, bounds>>

-----------------------------------------------------------------------------
\* A month ends; an append on its way has seen no other.
Tick ==
    /\ now < MaxTime
    /\ \A w \in Writers : writer[w].pc # "idle" => writer[w].at = now
    /\ now' = now + 1
    /\ UNCHANGED <<rows, live, anchor, epoch, files, writer, sweep, deleter, check, taken, swept, bounds>>

\* The server stops anywhere and is started again; a copy stays where it is.
Crash ==
    /\ mishaps < MaxMishaps /\ mishaps' = mishaps + 1
    /\ writer' = [w \in Writers |-> IF w \in Cli THEN writer[w] ELSE Idle]
    /\ stray' = stray \cup Copying
    /\ sweep' = NoSweep /\ deleter' = [d \in Deleters |-> NoDelete] /\ check' = NoCheck
    /\ UNCHANGED <<now, rows, live, anchor, epoch, form, filed, taken, swept, checks>>

Next ==
    \/ \E w \in Writers : Append_(w) \/ ReadTail(w) \/ ReadAnchor(w) \/ Create(w) \/ Collide(w)
    \/ StartSweep \/ Drain \/ DrainFails \/ RemoveRows \/ Promote \/ Gzip \/ Gzipped \/ NextPeriod
    \/ \E d \in Deleters : AskDelete(d) \/ RemoveFile(d) \/ AdvanceEpoch(d)
    \/ BeginCheck \/ CheckAnchor \/ CheckArchives \/ CheckLive
    \/ Tick \/ Crash

Spec == Init /\ [][Next]_vars

-----------------------------------------------------------------------------
\* A recorded event is in the table, in an archive the verifier reads, in a
\* copy under a provisional name, or in an archive an operator deleted.
NothingLost ==
    \A s \in Recorded : s > swept => s \in live \cup Archived \cup Copying \cup stray \cup taken

\* No event is both live and in a finished archive, nor in two.
FiledOnce ==
    /\ live \cap Archived = {}
    /\ \A m, n \in OnDisk : m # n => filed[m] \cap filed[n] = {}

\* The record stays whole: no crash or failure between the copy, the delete,
\* the rename and the compression (rotate.ts:202-563) loses an event; a sweep
\* that is cut and run again files none twice; and the live rows are one chain
\* from the anchor, whoever wrote them and whatever a sweep removed between
\* their reading of the tail and their insert (append.ts:58-71, 121-128).  And
\* a sweep never finds the month it rotates archived already (rotate.ts:249),
\* which would stop every later sweep at the same month.
RecordIsWhole == NothingLost /\ FiledOnce /\ LinkedFrom(anchor, live) /\ ~Refused

\* What may make an untouched record read as broken: rows whose only copy is
\* under a provisional name, or an archive deleted with its epoch not moved.
Cut ==
    \/ (stray \ live) # {}
    \/ epoch # NoEpoch /\ \E s \in taken : epoch.seq <= s

\* A verification no sweep and no deletion overlaps neither accuses nor
\* reassures wrongly (verify.ts:291-373): an untouched record is broken only if
\* a crash or a failed rename cut a rotation or a deletion in two, and one
\* called whole has every recorded event live or in a file the walk read.  An
\* install that swept before it archived is whole from its first archive on.
VerdictIsJust ==
    check.pc = "said" /\ ~check.overlap =>
        /\ check.said = "broken" => Cut
        /\ check.said = "whole" => \A s \in Recorded : s > swept => s \in live \cup Archived

\* The epoch, once claimed, only moves forward, and only past events that are
\* gone: a later sweep does not claim it again, whatever deletion it crosses,
\* and a deletion moves it to the first of the events that are still there
\* (epoch.ts:66-83, 121-127), or that a rotation cut in two left aside.
EpochAdvances ==
    [][epoch # NoEpoch =>
          /\ epoch'.seq >= epoch.seq
          /\ \A s \in Recorded : epoch.seq <= s /\ s < epoch'.seq => s \in taken \cup stray]_epoch
=============================================================================
