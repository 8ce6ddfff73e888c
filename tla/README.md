# FenPOS in TLA+

FenPOS prints receipts. Callers submit documents to a **server** (`fenpos/`, TypeScript, one Node
process and its databases); the server renders them and sends them over a WebSocket link to an
**agent** (`agent/`, Java, one process near the printers), which writes them to serial ports. A job
that ends is announced to webhook subscribers. A web panel administers all of it.

What can go wrong is seldom in one function. It is in a link that dies while a job is between two
processes, in an answer that arrives after another was given, in a check whose write comes two
statements later, in two parsers that read one document differently. These modules model those
parts of the program: TLC checks them on small instances, and TLAPS proves the safety of the job
protocol, the agent's queue, port and link, the deliveries, the audit record, the panel's protocols,
the two parsers, the renderer and the charts for any number of jobs, connections, calls and rows and
for documents of any length.

- [1. The system](#1-the-system)
- [2. The modules and the code](#2-the-modules-and-the-code)
- [3. What is checked, and within which bounds](#3-what-is-checked-and-within-which-bounds)
- [4. What is proved](#4-what-is-proved)
- [5. Where the code and its documents disagree](#5-where-the-code-and-its-documents-disagree)
- [6. What is not modelled](#6-what-is-not-modelled)
- [7. The plan](#7-the-plan)

## 1. The system

Paths below are relative to `src/`; `server` is `fenpos/lib`, `agent` is
`agent/src/main/java/fi/natroutter/fenpos`.

| component | state it keeps | operations | hard part | what makes it correct |
|---|---|---|---|---|
| **Job dispatch and settlement** `server/jobs/{dispatch,settle,job-service}.ts` | the `Job` row: status, error, times | `submitJob`, `failJob`, `settleUnfinishedJobs`, `cancelJob` | every await is a point where a hello, an unpair or an update settles the same row | a terminal job stays terminal; a COMPLETED job is on paper; a job settles once its agent is heard from |
| **Link, server side** `server/link/{link-server,agent-connection,registry}.ts` | one registry slot per agent; the handlers of all open connections | upgrade, hello with reconciliation, job update, close, displacement, handshake timeout, heartbeat | half-open connections, and a late close of a displaced one | the slot belongs to the newest hello; reconciliation fails lost jobs and no others |
| **Unpairing** `server/agents/agent-service.ts`, `app/(panel)/agents/actions.ts` | the agent's token hash | clear the token, settle the stranded jobs, close the link | three steps with submits and hellos in between | stranded jobs are settled; the agent forgets its credential |
| **Webhooks** `server/webhooks/{notify,deliver}.ts`, `instrumentation-runtime.ts` | the delivery rows: status, attempts, next attempt | queue on settlement, pass, claim, check, send, record, retention sweep | overlapping passes, leases, attempts that outlive them, crashes | one attempt at a time; an outcome stands; every enabled delivery settles; the sweep keeps the newest |
| **Link client** `agent/link/{LinkClient,FrameWorker}.java` | socket, state, identity, `stopped`, scheduler | start, connect, retry, listener callbacks, stop, unpaired by the server, shutdown | callbacks of several connections share one socket reference | one chain of dials; it comes back after any loss; `state()` tells the truth |
| **Job handling on the agent** `agent/link/LinkDispatcher.java` | the `dispatched` set, one frame thread | dispatch, cancel, commands, reports, the hello's outstanding list | a frame that waits is in no set; reports are sent from other threads | held work is named by the next hello |
| **Print queue and jobs** `agent/print/{PrintQueue,PrintJob}.java` | a bounded queue, a worker thread, pause flag, in-flight job, the job's state | submit, cancel, pause, resume, clear, worker loop, shutdown | volatile fields read without a lock; teardown against submit | in order, once, settled; a cancelled job printed nothing |
| **Print service and job store** `agent/print/{PrintService,JobStore}.java` | one queue per device; seen identifiers | accept, applyDevices, applyPause, evict | a monitor held while a worker is joined | a replaced queue loses nothing |
| **Serial port** `agent/serial/*` | the port's status, its lock, a reconnect thread | connect, write, disconnect, reconnect loop, shutdown | a device lost in the middle of a write, or as the loop ends; printers that swap names | a retired handler stays shut; a printer that returns is used again |
| **Agent process** `agent/FenPOSAgent.java`, `agent/pair/*`, console commands | the stored identity | start, pair, unpair, forget, applyConfig, shutdown | commands against callbacks and the shutdown hook | unpair followed by pair works |
| **Requests and commands** `server/link/{requests,commands}.ts` | pending requests by identifier | await, send, settle, time out, fail on close | reply, timeout and close race | each request settles once, by an answer to itself |
| **Device configuration** `agent-connection.ts: pushConfig`, `server/link/asset-sync.ts`, `FenPOSAgent.applyConfig` | the tables of devices and images; what the agent holds | edit, push, apply | a push reads two tables with awaits between, and pushes cross | at rest the agent holds the newest of both |
| **Pairing** `server/agents/{pairing,agent-service}.ts` | codes with expiry | issue, rename, redeem, unpair | two redemptions of one code, or one against a new code | a code buys one credential |
| **Idempotent submission** `server/jobs/idempotency.ts` and the print route | a unique key on the job | find a replay, insert, recover from the race | submissions with one key, a failed one in between | one receipt per key |
| **Audit record** `server/audit/*` | a hash chain, its anchor and its epoch | append, sweep, verify | writers race for the tail; a sweep moves rows while a verifier reads | nothing is lost or filed twice; the verdict is just |
| **Archive rotation** `server/archive/*` | one database file per period, provisional or compressed | copy, check, delete, rename, compress, delete the oldest | a crash between two of these | rows that leave the live table are in an archive |
| **Accounts and superusers** `server/auth/{account-service,account-guards,account-security,setup}.ts` | accounts: superuser, banned, deleted | first-run setup, ban, unban, demote, delete, recover | every guard counts before it writes | somebody administers the install |
| **Roles and grants** `server/auth/{grant-service,grant-guard,role-service,effective-permissions}.ts` | permissions of roles and of members | replace a role's or a member's, delete a role | what may be granted is read before the transaction that grants it | nobody hands out what nobody had |
| **Sign-in and sessions** `server/auth/{lockout,session-policy,require-session}.ts` | sessions, failure counter, lock | sign in, sign out, evict above the cap | counter and cap are read before they are written | a password is tried a bounded number of times; sessions stay under the cap |
| **Metrics** `server/metrics/*` | hourly rows, watermark, counters in memory | count, flush, roll up, re-roll, sweep | late rows, failed passes, a flush that throws halfway | whole hours; a sample counts once |
| **Stored assets** `server/assets/asset-service.ts` | bytes, revisions, cached dots and fonts | write, rename, delete, derive, remember, evict | revision and bytes are two reads | cached dots are those of the revision |
| **Markup** `server/markup/tree.ts`, `agent/markup/MarkupParser.java` | what a line holds, open scopes | tags, text, breaks | two parsers in two languages accept one language | what the server accepts the agent accepts |
| **Layout and charset** `server/markup/{charset,layout...}.ts`, `agent/encoding/{CharsetValidator,LineWrapper,IrRenderer}.java` | spans, fills, rows | clean, wrap, fill, align | a width changed by cleaning, double-width cells, indents | every character is on the paper in its place |
| **Rendering** `agent/encoding/EscPosRenderer.java` | the styles the renderer believes in effect | style, align, feed, symbols, cut | the printer's state changes behind it | each symbol prints in its own style |
| **Drawn text, blocks and charts** `server/raster/*.ts` | rows of dots, regions, a plot | measure, break, fill, draw | sizes found twice, by different code; roundings | nothing leaves its place; a chart shows its numbers |
| **Live updates** `server/events/bus.ts`, `fenpos/app/api/events/route.ts`, `useLiveRefresh` | streams per session, what a page has heard | publish, stream, drop, resync, refresh | an event between a read and what it lands in | an open page ends up showing what was written |
| **Log ingestion, variables, panel, settings** | rate windows, values, pages | request handlers | little that interleaves | compared by the unit tests |

**Who runs concurrently.** The server is one thread, and interleaves at each `await`; database
statements and transactions are atomic. Maintenance commands (`scripts/`) are processes of their own
on the same databases. The agent has the listener threads of its HTTP client, one frame thread,
scheduler threads, one worker thread per queue, reconnect threads, the console and the shutdown
hook. A connection is ordered and lossless until it dies; when it dies, each end notices in its own
time, and what was under way is gone.

**How they meet.** `submitJob` records a row and sends a dispatch on the link it read earlier. The
agent's frame thread hands it to a queue, whose worker renders and prints it over a port; listeners
report PRINTING and the outcome over the link of that moment, or drop the report when there is none.
A new connection says hello with the work the agent still holds, and the server fails the older jobs
it does not name, then pushes the configuration. Whoever moves a row to a terminal status calls
`queueJobSettled`, which freezes the answer in a delivery row; passes send it. The panel's actions
write the same tables under the permissions of the session that calls them, and append to the audit
record, which the hourly pass moves into archives.

`PROJECT.json` lists all of these, with the modules that model them, and the hazards of the code,
each at its line with the properties that guard it.

## 2. The modules and the code

A definition has the name of the method it models, where there is one, and `map` in
`PROJECT.json` gives its lines. One action is what runs without another thread, callback or await
in between. Definitions introduced as a mistake or a mutant are never part of a next-state
relation: each is a plausible error that one of the properties is known to notice.

### Jobs and the link

**`JobLedger`** is the abstract specification: a job is recorded, moves forward, settles once, and
one answer is told, that of the row. Nothing of links or agents is in it.

**`JobLink`** is the protocol that has to implement it: `submitJob` split at its awaits (`ReadLink`,
`CreateRow`, `SendDispatch` or `CompileFails`), cancellation, the connection handlers
(`ReceiveHello`, `SelectLostJobs`, `SettleLostJobs`, `ReceiveUpdate`, `OnJobUpdate`, `OnClose`,
`HandshakeTimeout`), unpairing in its four steps, the network with its half-open connections (`wire`
is what the network does, `srv` what the server has noticed, `sock` what the agent has), the agent's
frame backlog, its `dispatched` set, the print jobs and the reports that are announced and not yet
sent. Crashes and restarts keep what is on disk: the rows, the credential, and the paper. One agent
and one device, since the registry slot and the rows of another agent are disjoint. The link client
is here in its plain form, one connection at a time; `LinkClient` has the whole of it.

`older` deserves a word: `agent-connection.ts:93` reads `connectedAt` when the socket is accepted,
and `settleLostJobs` fails only rows created before it. The model keeps the set of those rows in
place of two times.

**`LinkClient`** is the agent's link with several dials at once: a dial left by `stop()`, a retry
that was scheduled, callbacks of connections that are no longer the one in `socket`. The server is
what the agent meets of it. `clean` and `early` remember whether a `start()` found an earlier dial
or retry alive, and whether a connection was lost between `onOpen` and `socket.set`. Left out: a
stored address that is no URI, a frame too large (a `Cut` has the same effect), a server of another
protocol version, and the lengths of the delays. `Redeem` needs an agent the server has unpaired,
since codes are issued for those only; `HandshakeTimeout` comes after the dial is built, since
the wait is far longer than the way from `onOpen` to the hello.

**`LinkRequests`** is the server's wait for the agent's answer: `awaitReply` with its timer,
`settleReply`, `failRequests` at a close, the panel's commands and what the agent does with a
request on its frame thread. What carrying a request out comes to is left open. One agent; a
handshake is one step; a promise settles and its continuation runs in one step.

**`AgentConfig`** is the configuration on its way: an edit, the reads of a push one await after
another, the frame, and what the agent adopts, also across hellos and an unpair. The configuration
is two counts of changes, one for the devices and one for the images. `crossed` remembers
connections with two pushes under way at once, `leftover` a frame that was still queued when the
agent forgot its pairing.

### The agent's devices

**`PrintQueue`** is one device's queue with all its threads. `submit` is one step per field it reads
(`Look`, `CheckState`, `CheckPaused`, `CheckPort`, `Offer`), the worker one step per method it calls,
`shutdown` one step per field it touches. `boss` is the thread that holds `PrintService`'s monitor;
it replaces the queue for a changed capacity or port, removes and adds the device, or ends the
agent. `Queues` numbers a device's successive queues, which share a port or not as the code has it.

**`SerialPort`** is what a queue writes to: handlers of one port one after another, the reconnect
loop, printers that are plugged in, pulled out and put back under another one's name. A method of
`SerialHandler` holds its lock throughout and is one step; the loop reads volatile fields without it,
and those reads are steps of their own where they can differ. `Command` is a connect or disconnect
from the panel. Auto-connect and auto-reconnect are on.

### Webhooks

**`WebhookDelivery`** is the queue of deliveries: passes that may overlap (`deliverDue` promises
that; its tests call it concurrently), the claim with its lease, the check of the target, the send,
the recorded outcome, the retries, and the sweep that keeps the newest records. Time is a `Tick`
that brings `nextAttemptAt` nearer and makes a pass's clock older. A pass keeps the worst case that
its lease is computed for (two waits of a whole timeout each, and a margin for the database) unless
it `Stall`s.

### From a document to paper

**`Markup`** reads a document token by token as both parsers do, the server's tree builder
(`tree`) and the parser of the agent's console (`parser`): scopes, owners of a line, regions, lists,
tables and chart data, symbols, rules, gauges, fills, and the breaks around them. At a break the
reader of the model guesses what comes next (`due`), which is what looking ahead amounts to.
Attributes, images, stored fonts, checkboxes and what data blocks contain are left out. The agent's
reading stops at a tag only the server knows.

**`LineLayout`** is a line in columns, in the server and the agent: the codepage with its three
policies, fills and how they share the room, the indent of a list's entry, and the wrapper with its
spaces, carried words and hanging indents. A cell has an identity, so what is lost, doubled or out of order
shows; glyphs are one or two columns wide. **`DrawnText`** is the same line by the other program, the
one that draws in dots, and says where each character stands in each row. Built-in face, left
aligned.

**`DrawnBlocks`** is the layout of drawn regions: each node is measured, then drawn, by code that
subtracts border, padding and rules twice. Dots and constants are the code's own; what is drawn is a
set of rectangles, each with the path of the node it is of. A text is one word. **`DrawnChart`**
divides a chart's dots between title, axes, legend and plot and draws bars and points in it, with
values in tenths and texts as lengths. Marker shapes, areas, patterns, shades and pie slices are
left out of them. Numbers are at most 200 either way (`Reach`), which is as far as the model's list of
steps goes.

**`EscPos`** is the renderer with its cache of the style in effect, and the printer (external),
which remembers what it was last told, across jobs cut short on the wire. A step renders one line of
any spans and directives, from the server or from the agent's console, and the printer works
through it.

### The panel and what it keeps

**`Accounts`**: setup, creating, promoting, demoting, deleting and banning accounts, every guard
with the count it reads before its write. **`Grants`** follows one call that writes roles or a
member's grants, with `Elsewhere` as any other call's writes in between; held permissions are read
once per call, as the code memoises them. **`SignIn`**: the failure counter, the lock, the second
factor, sessions with their cap and expiry. **`Pairing`**: codes issued, lapsed, purged and
regenerated, and two redemptions. **`IdempotentSubmit`**: one key, its lookup, the unique
constraint, the replay, a restart and the write-off of unfinished jobs. **`MetricsRollup`** rolls
hours up from a watermark, again for late rows, while a sweep deletes; **`MetricCounters`** is the
counting in memory and its flush, and **`Statistics`** the two together. **`AssetCache`** is the cache
of dots and faces against writes, renames and deletions. **`LiveView`** is a page that watches the server: changes counted in versions,
the event stream with its limited room, drops and resyncs, the refreshes and navigations of one tab.
The browser's `EventSource` and the router are modelled from how the code uses them.

### The record

**`AuditRecord`** is the hash chain and its archives: appends that race for the tail, in the server
and in maintenance commands, the monthly sweep (copy, check, delete, rename, compress, each a step,
with the anchor and the epoch), the deletion of the oldest archive, and a verifier that reads epoch,
anchor, files and rows in separate steps. A hash is the sequence number it stands for; time is in
months. A sweep runs once at a time, and the commands survive a crash of the server.

### Composition

`JobLink` takes from `PrintQueue` that a job leaves QUEUED once (`CancelledIsBlank`,
`OutcomeIsFinal`), from `LinkClient` the one connection at a time (`OneChain`), and hands
`WebhookDelivery` one row per settled job. `MCPrinting`, `MCDevices` and `MCPanel` put modules that
share no variable side by side: a variable `part` says which of them a behaviour is about, and
the others rest. That shows all there is to see of each, in one run.

`JobLinkClaims` and `LinkClientClaims` hold statements of the repository that the code does not keep
(section 5); `MC...` modules and their configurations are the instances; the `...Proofs` modules hold
the proofs, and `SequenceFacts` the lemmas on queues and wires that several of them use.

## 3. What is checked, and within which bounds

Deadlock is not reported where the modelled system may come to rest: all jobs submitted, the bounds
used up, the agent stopped. `deliveries` and `settle` keep the check, because time never stops there.

| run | what it asks | instance | states |
|---|---|---|---|
| `joblink` | the safety of the protocol, and that it implements `JobLedger` | 1 job, 2 connections, any 2 different ones of: a cancellation, a cut, a server restart, an unpair | 975 thousand |
| `joblink_settles` | that every job settles and is told, under fairness | 1 job, 2 connections, a cut and an agent crash | 125 thousand |
| `queue` | order, once, cancellation, pause and faults of a queue in service; two readings of a document, two layouts of a line, drawn regions and charts, and what the printer makes of the commands | 3 jobs, capacity 2, one of a pause, a clear or a port fault; six vocabularies of tags; lines of 5 cells on 2 papers; regions of up to 7 nodes; charts of up to 5 values; 4 things a line does besides text | 402 thousand |
| `teardown` | that a teardown ends and accepted jobs are settled, under fairness | 1 job, 2 successive queues, a pause, a clear and a port fault | 204 thousand |
| `deliveries` | attempts, outcomes and the sweep with overlapping passes | 2 deliveries, 2 passes, one fault, one stall | 987 thousand |
| `settle` | that deliveries settle, under fairness | 2 deliveries, a batch of 1, one fault, one switch | 158 thousand |
| `link` | one chain of dials, a truthful state, and recovery under fairness | 2 dials, 2 credentials, a cut, an outage, shutdown | 299 thousand |
| `audit` | that nothing recorded is lost or filed twice, and that verdicts are just | 2 writers, one of them a command, 3 events, 5 months, an archive deletion, one crash or failed file operation, one verification | 2.27 million |
| `devices` | requests, the port, the configuration, the live page; recovery of the port under fairness | 2 requests on 3 connections; 2 printers, 2 pluggings, 2 handlers; an edit, 2 connections, an unpair; 3 changes, 2 streams | 618 thousand |
| `panel` | eight of the panel's protocols | 3 accounts and 2 removals; 2 members, 2 permissions, a role; 3 sign-ins; 3 operators and 2 redemptions; 3 submits with a restart; 4 hours; 4 samples; 2 assets | 1.07 million |
| `joblink_lost`, `again` | a statement of the repository that does not hold | as above, smaller; `again` with 3 dials | |

*Why these bounds are enough for the questions.* In `JobLink` the jobs meet only in the sets a hello
or an unpair settles, and each property speaks of one job; two connections are what displacement, a
late close and reconciliation take, and two events let a failure meet another one. More of each is
the proofs' business: they hold for all values of all bounds. A crash of the agent is in
`joblink_settles` only, where it matters (jobs and reports are lost); the proofs cover it for the
safety properties. In `PrintQueue`, three jobs and a capacity of two are what order, a full queue
and one job in the worker's hand take; two queues are what a replacement takes; how a
pause, a clear and a fault meet in one life of a queue is in `teardown` and in the proofs, which bound
none of them. In
`WebhookDelivery`, `Batch = 1` makes the rows of a disabled webhook stand before those of an enabled
one; `Timeout` and `Margin` are one tick each, and only their sum against the lease matters. In
`LinkClient` two dials are a connection and one that should not be there, and the endless
displacement of `again` needs a third. In `AuditRecord`, two writers race for one tail, three events
put one on either side of a sweep and one in the next month, and a fifth month lets an archive be
deleted after another was made; an append sees at most one month end. In `SerialPort` the second
plugging is another printer under the first one's name, or the same one back. In `MCPanel` each race is
between two calls; a third sign-in exceeds a cap that the first two share. In `EscPos` two directives
(`MaxDirectives`) are a symbol with something after it. The members and the permissions of `Grants` are
symmetric (`Symmetry`): nothing tells them apart, and the run has no liveness property. In the two layouts five
cells are a word, a break, a word that does not fit and a fill, on papers of two and four columns; in
`DrawnBlocks` seven nodes are a table of two rows and two columns.

**Fairness.** `JobLink`: the event loop and the agent's threads run what is ready; both ends notice a
dead socket (the server's heartbeat, the agent's periodic status report); the agent dials again for
as long as it has a credential (`scheduleReconnect` never gives up); and no device is paused for
ever. `PrintQueue`: the worker's waits end by the poll interval and the port's write timeout, and a
join by the grace. `WebhookDelivery`: `setInterval` keeps calling the drain, each await has a timeout
or is a database statement, and time passes; the last is strong fairness, because passes that read
stop the clock for a moment again and again. `LinkClient`: timers fire, callbacks arrive and a dial
ends within `CONNECT_TIMEOUT`. `SerialPort`: the reconnect loop runs while its thread lives. Callers,
operators, failures, printers and the network owe nothing anywhere.

**The properties.** Each stands in its module with the code it is about. Those worth a word:

- `HelloReconciles`, `NeverLosesItsOwn`: together, reconciliation fails exactly what is gone, whatever
  was submitted while it ran.
- `SettlesOnceSteady` allows what `PassedOver` names: a job rowed after the connection was accepted
  yet sent on an earlier one (section 5), and a hello that holds too many jobs to list.
- `OutcomeIsFinal` is for a queue in service; in a teardown the code may change an outcome
  (section 5). `ServesAsTold` joins that a running queue keeps its worker and that a pause lets one
  job through at most.
- `AcceptedIsSettled` excepts a job offered after the drain (section 5) and a queue held paused.
- `AttemptsTakeTurns` is for passes that keep the worst case of their lease, and for runs without a
  fault says once: the code promises at least once, no more. `OutcomeStands` has no such exception.
- `LinkRecovers` and `ReportsWhatItDoes` are for a link that was started with nothing left over and
  whose connections live until the socket is set; without that they fail (section 5).
- `OneGrammar`: what the server accepts, the agent reads to the same lines; it excepts a break that is
  dropped after it ended the line (`hushed`) and what follows a tag only the server has.
- `LinesComeOutRight`: no character is lost, doubled or out of order; rows fit; and the drawn line has
  the same character in the same place as the printed one, except fills on a line of several rows or
  in room that is no whole number of columns, and an indent with no column left (section 5).
- `BlocksKeepApart`: a region's content is inside it, clear of its border and of its neighbours,
  wherever no node is narrower than its own frame, padding or longest piece (`fits`).
- `ChartReadsTrue`: parts apart, marks even and spanning the values, bars as high as what they say,
  points in the order of their values, names apart and under their share. Excepted: a legend too large
  for its chart (`Crowded`), an axis wider than the chart, and the first or last name of a line where the
  chart's edge holds it over the next one (`held`).
- `PrintsAsWritten`: each text is printed in its own style and alignment and each symbol where its line
  says; with linefeed NONE only the styles are promised.
- `AdministeredUnlessRaced`, `SignInIsBounded`, `GrantsStayWithinAuthority`: what guards read before
  they write can change. Each says what holds of calls that do not cross, or cross in ways the code
  guards, and its exceptions (`crossed`, `fresh`) are the races section 5 names.
- `StatisticsAreTrue`: `punctual` asks for a pass every hour, `cut` exempts hours a sweep partly took
  within reach of a re-roll.
- `LiveViewIsKept`: a page that is open, told and left alone shows what was written, and slots of
  streams are returned; it excepts what is told between the reading of a new page and its landing.
- `ConfigArrives`: at rest the agent holds the newest of both tables, unless two pushes crossed on one
  connection or a frame was left over by an unpair.

Every property has a mutant in `PROJECT.json`: a change of one mapped definition, of the kind a bug
would be, under which the same run finds the property violated.

## 4. What is proved

The theorems hold for any jobs, connections, dials, queues, deliveries, requests, operators, appends and
deletions, for documents, lines and charts of any length, and for any values of the bounds, under the
`ASSUME`s of the modules: that bounds are natural numbers (positive where the code's constant is), that
a placeholder such as `NoDial`, `NoJob` or `Unpaired` is none of the things it stands beside, that
commands are writers, that there are finitely many deliveries, that no permission is called "no such
role", that no edit is named like a connection, that a late row comes less long after its hour than the
roll-up looks back (`Late < Reroll`), that vocabularies are of the language's tags and styles and
directives of the renderer's, and that a chart is three lines high (`tags.ts` refuses less) and its numbers
within `Reach`. TLC evaluates each assumption in every run of its module.

| module | theorem | states |
|---|---|---|
| `JobLinkProofs` | `TypeCorrect` | `Spec => []TypeOK` |
| | `Refinement` | `Spec => ImplementsLedger`: `JobLink` implements `JobLedger` |
| | `TerminalJobStaysTerminal` | `Spec => TerminalStays` |
| | `SubscriberKnowsTheRow` | `Spec => []HookTellsTheRow` |
| | `CompletedMeansPaper` | `Spec => []CompletedIsOnPaper` |
| | `OwnJobsAreSafe` | `Spec => []NeverLosesItsOwn` |
| | `HelloAccountsForAll` | `Spec => []HelloReconciles` |
| | `HeldIsNamed` | `Spec => []HeldWorkIsNamed` |
| | `SlotIsItsHolders` | `Spec => SlotVacatedByHolder` |
| `PrintQueueProofs` | `QueueStaysSound` | `Spec => []QueueInv` |
| | `CancelledStaysBlank` | `Spec => []CancelledIsBlank` |
| | `PaperIsInOrder` | `Spec => []PrintedInOrder` |
| | `QueueServesAsTold` | `Spec => []ServesAsTold` |
| | `OutcomesAreFinal` | `Spec => OutcomeIsFinal` |
| | `LinesPrintAsWritten` | `EscSpec => []PrintsAsWritten` |
| | `ChartsReadTrue` | `ChartSpec => []ChartReadsTrue` |
| `AgentProofs` | `ClientStaysSound` | `Spec => []ClientInv` |
| | `ChainStaysOne` | `Spec => []OneChain` |
| | `ReportsStayTrue` | `Spec => []ReportsWhatItDoes` |
| | `GrammarIsOne` | `MarkupSpec => []OneGrammar` |
| `WebhookDeliveryProofs` | `DeliveriesStaySound` | `Spec => []DeliveryInv` |
| | `AttemptsAlwaysTakeTurns` | `Spec => []AttemptsTakeTurns` |
| | `OutcomesStand` | `Spec => OutcomeStands` |
| | `SweepsKeepNewest` | `Spec => SweepKeepsNewest` |
| `AuditRecordProofs` | `RecordStaysSound` | `Spec => []RecordInv` |
| | `RecordStaysWhole` | `Spec => []RecordIsWhole` |
| | `VerdictsAreJust` | `Spec => []VerdictIsJust` |
| | `EpochPassesWhatIsGone` | the epoch passes only events that are gone, whatever deletions overlap |
| | `EpochOnlyAdvances` | `Spec => EpochAdvances`, one deletion at a time |
| `DevicesProofs` | `AnswersStayTrue` | `LinkSpec => []AnswersAreTrue` |
| | `RetiredKeepsOffThePort` | `SerialSpec => []RetiredStaysShut` |
| | `ConfigurationArrives` | `ConfigSpec => []ConfigArrives` |
| | `ViewsAreKept` | `LiveSpec => []LiveViewIsKept` |
| `PanelProofs` | `CodesAreSpentOnce` | `PairingSpec => []CodeIsSpentOnce` |
| | `AdministeredAlways` | `AccountsSpec => []AdministeredUnlessRaced` |
| | `SignInStaysBounded` | `SignInSpec => []SignInIsBounded` |
| | `GrantsAreWithinAuthority` | `GrantsSpec => GrantsStayWithinAuthority` |
| | `OneKeyOneReceipt` | `SubmitSpec => []OneReceiptPerKey` |
| | `StatisticsStayTrue` | `StatisticsSpec => []StatisticsAreTrue` |
| | `CachedDotsStayCurrent` | `AssetSpec => []CachedDotsAreCurrent` |

`PairingSpec`, `SubmitSpec`, `GrantsSpec` and the like are the module's own `Init` and `Next`; the runs
check the same actions under `MCPrinting`, `MCPanel` and `MCDevices`.

**Why the invariants are needed.** None of the properties is inductive. Each module proves
`Init => Inv`, the preservation of each part of `Inv` with one step per action, and that `Inv` implies
the property. TLC checked the larger invariants on the run's instance before they were proved.

Where an operator folds over data (a sum, a line's spans, a document's open tags), the proofs need
induction, and the library's theorems for it take an operator, which no installed prover can
instantiate. `SequenceFacts` derives it from `WFMin`, which takes none: numbers have a smallest
(`SmallestOf`), so a set that has 0 and each successor has them all (`AllNumbers`, `AllUpTo`), so what is
computed from each number to the next exists and is unique (`RunExists`, `RunsAgree`), and a fold is
that.

- *`JobLink`: `IInv`.* `HookTellsTheRow` needs that a job waiting for its `queueJobSettled` call is
  terminal, and that no later write changes a terminal row; but `FailJob` writes without looking, so
  it needs that a job still being submitted has not ended otherwise than as FAILED; and that rests on
  the job not being in any frame, backlog or report before it was sent (`OnlySentWork`,
  `RowFollowsSubmit`, `AnswersAreFinal`). `KnownConns` and `HelloInOrder` say that a reconciliation
  follows a hello, works on jobs older than its connection, and once it has selected leaves no older
  job unaccounted for. `StepLedger` maps every step to a step of `JobLedger` or to a stutter.
- *`PrintQueue`: `QueueInv`* is where a job is: with its caller (`Calls`), in the one queue that took it
  (`Lines`), in that queue's worker's hand (`Hands`), or past it (`PaperFits`), with what the thread in
  a teardown may still do (`BossFits`) and what a pause has let through (`Service`). Only so does
  neither a cancellation, nor a clear, nor a teardown meet a job the worker has begun.
- *`LinkClient`: `ClientInv`.* A connection's end and a `start()` each add a retry or a dial, so the chain
  stays one only if nothing but an open connection can end (`Ends`), nothing is under way before the
  first start (`Unstarted`), and the socket is the standing connection's (`SocketIsSet`).
- *`WebhookDelivery`: `DeliveryInv`* is an account of claims: the compare-and-set on `attempts` gives
  every claim a number of its own (`OneWinner`, `Charged`), and the lease reaches further than a prompt
  call may go on (`InTime`, `Leased`), so no other call reads the row as due meanwhile. `Kept` carries
  the sweep: however many rows others removed since it read its cutoff, `MaxRecords` newer ones stand.
- *`AuditRecord`: `RecordInv`* rests on time and order. An append carries a moment at most a month old
  (`Writing`), so once a newer row is in the table no row that is due can still come; what a sweep takes
  is then a prefix of the table (`Rotating`), the archives hold intervals in the order of their months
  (`Filing`) and the anchor is the last row that left (`Chained`). `Begun` and `Deleting` place the epoch
  before everything that is filed or about to be, `NotEmpty` keeps an archive with rows in front, and
  `Judging` says what a verification nothing overlaps may rely on. `EpochPassesWhatIsGone` needs no more;
  that the epoch never moves back also needs that no deletion reads it while another has yet to write,
  which is the hypothesis of `EpochOnlyAdvances` and does not hold of the panel (section 5).
- *The panel and the devices.* In each, what a call has read stays true of the rows unless the ghost
  variable that names the race is set (`crossed`, `crossedIssue`, `crossedRemoval`, `fresh`,
  `overtaken`); `Spared`, `TokenWasPaid`, `OneAtATime`, `CallIsChecked`, `KeyIsHeld` and `RetiredIsLeft`
  say so, and the type invariants and the bookkeeping they need stand beside them.
- *`Statistics`.* `RollupInv` accounts for every hour: what is counted of it and not in its summary is
  known to be missing (`HoursFit`), its rows are whole or swept of an hour that is summed up (`SweptFits`), a
  pass holds what it read (`PassFits`), and while a pass ends in every hour, a late row stays within reach
  of a pass that will count it (`OnTime`, `LateFits`, `LateAgain`). `CountersInv` follows a sample from memory
  through a flush into its row.
- *`AssetCache`: `AssetInv`.* Who asks for an asset remembers how new its bytes were then (`AsksFit`,
  `AsksAgree`), an entry that can still be hit holds no older ones (`EntriesFit`), whoever waits, waits for a
  derivation under way (`FlightsFit`), and the total in hand is the sum over the entries, each key once
  (`SizesFit`; the lemmas on `Total` are inductions).
- *`EscPos`: `EscInv`.* What the renderer takes for the style in effect is in effect, or is not known
  (`StyleKnown`), also after a job was cut off; between rows the printer's buffer is empty and the
  alignment is known as well (`Known`), which linefeed NONE does not grant. Within a line the same is
  carried from span to span by a run.
- *`Markup`: `GrammarInv`.* Both parsers have the same tags open, each opened in the style of those around it
  (`SameTags`), and the same line in hand (`SameLine`); what a line may have once is a matter of the tags open
  (`Scoped`); the server remembers nothing of the line that the console does not see (`Trails`), and all of
  it unless a dropped break has hushed the line (`LineKept`); after a scope of the whole line nothing follows
  but its end (`Closed`). `MaxFrames`, `MaxOnLine` and `MaxDepth` may have any value.
- *`DrawnChart`.* A chart that fits its types is all the invariant; the rest is arithmetic of roundings, for
  any width, height, number of series and of values. `Quotient` and `RoundedIs` bound each division; the
  scale climbs and is true to half a dot at each end, so to one dot between two values (`ScaleTells`);
  the shares of the bars tile the plot (`Shares`); and two names each no wider than its share stand a
  share apart (`BarCentres`, `PointCentres`, `NextTo`), unless the edge holds one. The attempt to prove
  this of the first name failed: it is held too, which the run's numbers had been too narrow
  to show, and the exception and the run were corrected (section 5).
- *`AgentConfig`: `ConfigInv`.* A table is written, read for a push, framed, queued and adopted at five
  moments. `Current` names the one place where the newest of it must be, at each of them, once nobody is
  still to read it; `OneReads` says that a connection nothing crossed on has one push past its first
  read, so that no older one is sent behind it; `HalfAdopted` keeps the half adopted frame at the head
  of the queue; and `CutOff` separates an agent that is unpaired from one that is about to be.
- *`LiveView`: `LiveInv`.* `Covered`: what was offered to the tab's stream is in its buffer, will be said
  to be missing, or was told. `ToBeShown`: what was told is shown, is read already, or has a reading to
  come; that rests on the router's queue (`RouterFits`): only refreshes wait in it, and a page on its way
  in was read after all that was told. The slots are the streams that hold one, which needs that a
  stream is released exactly when it is closed (`StreamFits`).

**Only model-checked.**

- All of liveness (fairness and ENABLED are beyond the prover): `joblink_settles`, `teardown`, `settle`,
  and the recoveries in `link` and `devices`.
- `LinesComeOutRight`: that two wrappers and their fills agree on every line is an induction over two folds
  at once, with a different state in each; the run compares them on all lines of five cells.
- `BlocksKeepApart`: measuring and drawing a tree of nodes are recursive operators (`DrawnBlocks`), which
  the prover cannot enter.
- That `MCPrinting`, `MCDevices` and `MCPanel` run each part as its own specification does; by
  construction, one `part` moves and the others rest.

## 5. Where the code and its documents disagree

Two runs each find a behaviour a comment of the repository rules out; `findings` in `PROJECT.json`
quotes the lines.

1. `joblink_lost`: reconciliation is not to "settle a receipt that is about to print". A dispatch that
   waits for the frame thread is not in the list the agent reports, so it is failed, then printed.
2. `again`: after unpair and pair, two connections of the agent can displace each other without end,
   since the end of either clears the socket and dials again.

The rest was noticed while modelling. Where a property would fail on it, the property names it as an
exception.

*Jobs and the link*

- "A job settles the next time its agent is heard from": one recorded between the acceptance of a
  connection and its hello, and sent on the old connection, is not lost to that hello, because
  `connectedAt` is read at the acceptance. It waits for the next reconnect.
- `PrintQueue.shutdown` "settles every outstanding job": a submit that checked the state before the
  stop may offer after the drain; its job stays QUEUED on the agent.
- In a teardown `isTerminal()` and `fail()` are two monitor sections (`PrintQueue.java:311-312`), and
  neither `fail()` nor `complete()` asks for the state: a COMPLETED job may become FAILED, and one
  failed as "outcome unknown" COMPLETED, against the diagram of `JobState.java:5-10`. The comments on
  `isTerminal()` (`JobState.java:31`, `PrintJob.java:157`) say the opposite of what it returns.
- An unpair selects the stranded jobs once (`agent-service.ts:193`), and closes the registered connection
  once (`actions.ts:103`). A job a crossing submit records afterwards, and a connection accepted
  before the token was cleared that says hello afterwards, are not among them.
- `LinkClient.onOpen` sets CONNECTED and the build sets the socket later; a connection lost in between
  is taken for one already handled, and nothing dials again, though the client "reconnects
  indefinitely" (`LinkClient.java:36-38`). `early` records it. `LinkState.java` says CONNECTED means
  that the server has sent its welcome.
- `stop()` does not reach a dial under way, which then opens and stays. A late `unpaired` close of an
  old connection makes the agent forget a credential it has since been given.
- `FenPOSAgent.shutdown` says that the last updates reach the server; reports are sent asynchronously
  and the process may end first.
- Two pushes on one connection may arrive in reverse order; a configuration still queued when the
  agent is unpaired is adopted afterwards; images are not cleared by an unpair.
- `SerialHandler.connect` does not ask whether `shutdown()` ran (`SerialHandler.java:171-172`). A device
  lost as the reconnect loop returns, or after a connect from the console that failed, is not retried.
- `OFFLINE` is published while `markOffline` is still being written; settlements by a hello, an unpair,
  `failJob` and a cancellation publish no job event.

*Webhooks*

- A database error while the target of a delivery is checked fails the delivery for good, where the
  comment says it costs no more than waiting for the next pass. `processDelivery` asks a second time
  whether its webhook is enabled, of a value read with the row.

*The record*

- An epoch can move backwards when two archives are deleted at once: `removeAuditArchive` reads the next
  archive's first row at an `await`, and then removes its file and writes the epoch; one held there
  finishes after a later deletion and puts an older row back as the beginning, where `epoch.ts:103` says
  it "moves the epoch forward". TLC finds it with two deleters and six months; the run has one, for
  which `EpochAdvances` holds (section 4). A month without events leaves an
  archive that cannot be deleted: `oldestArchivedEvent` throws NO_NEW_BEGINNING. A provisional
  (`.partial`) file can be the only copy of rows, where `verify.ts:563-564` says none is. A verifier
  that reads across a sweep, or after a crash in the middle of one, may accuse a record that is whole.
- The reader of an opened archive never loads: `useInfiniteScroll` applies `settledMore` to the seed
  `{rows: [], more: true}` of `OpenedArchivePeriod`, so every period reads empty. Paging by offset has
  no guard in `load()` against rows that shift meanwhile, though `infinite-scroll.tsx` calls the one on
  batch 0 the guard.

*The panel*

- Two superusers who demote or ban each other at once leave none, and `recover.ts` can neither promote
  nor unban. `rotateSetupKey` is not atomic. A retained permission can be read before another call's
  revocation is written back; permissions and devices are read apart and may combine two grant sets.
- Regenerating a code, or unpairing, across a redemption leaves a redeemable code for a paired agent.
  `pairing.ts:128-130` says the claim checks the expiry again; it uses the same `now`.
- A submit replayed under its key answers 202 also for a job that has since failed.
- `rollup.ts:22` counts its hours "behind the watermark"; they are counted from the current hour. A
  roll-up repeated after a sweep took part of an hour counts too few. The flush of a shutdown that
  overlaps the timer's can lose samples of a histogram.
- Two sign-ins at once under the session cap may each delete the other's session; failures at once
  count as one.
- `asset-service.ts:293-295` says the stored dots survive a rename, since they are keyed by `updatedAt`;
  `@updatedAt` moves it. Two writes of one
  asset within a millisecond leave the older dots in the cache for good.
- The key's `lastUsedAt` may be written by a request under the old secret after a reroll; of two rerolls
  that cross, one hands out a secret that never works.
- `ingestLog` "never throws", but `await allow(agentId)` stands outside its `try` (`ingest.ts:136-150`) and
  the caller ignores the promise: a failed read of the settings ends the process.
  `keyless-log-budget.ts` says "nothing is lost"; another address's refusal evicts an expired entry with
  its count. A late read of an older window may overwrite newer settings.
- Concurrent creates exceed a variable's `maxCount`; `setDeviceOverride` across a change of kind leaves an
  override; a rename between the two reads of `resolveVariables` loses the value. A failed
  `applyPushedSettings` leaves the old values until a restart.
- `resolve-images.ts` says "the others are still awaited here"; `Promise.all` does not wait.

*Live pages*

- What is told after a new page was read and before it lands is not shown until the next event; a
  navigation drops the refresh the old page had pending. Changes between a page's render and the
  opening of its stream, or while it is paused, are not told.
- A reconnect of the `EventSource` reads nothing again, though `route.ts` says closing "costs a reconnect
  and a reload"; a 429 or 401 ends it for good, against `route.ts:103-104`. A client that leaves while
  the settings are awaited is noticed by the cancellation only.
- Log lines that arrive while an earlier refresh is under way are cleared when it lands.

*Documents, in columns*

- `<bold><hr>`, a break, `</bold>text`: the break ends the line's state and is then dropped, so text joins
  a rule's line and `toWireLine` replaces it by the rule, though the rule "must be alone on its line"
  (`tree.ts:372-396`).
- A fill before `<align>` or `<wrap>` is refused by the server and accepted by the agent. Drawers are
  unknown to the console.
- `lineCost` is 0 for a blank line, for which the agent feeds one (`compiler.ts:742`); the console's rule
  is not counted by `PrintCompiler.countTextLines`; `CharsetValidator` leaves a rule's character
  unchecked; a wrapped line of spaces with a directive prints no blank line. With linefeed NONE
  rows of several lines run together and only the styles are as written.
- `wrapper.ts` breaks at a single leading space before a word that is too long and prints an empty row;
  `text.ts` breaks the word.

*Documents, in dots*

- Fills share dots, not columns (`text.ts:452-468`): with two or more and a remainder, each loses up to a
  glyph and the line's end is not at the edge, though `text.ts` says only enlarged spans leave a
  remainder. On wrapped lines each row's room is filled when drawn, none when printed. A fill stripped for want of a
  glyph keeps its share when drawn; a trailing space takes room from fills only when printed.
- An indent as wide as the paper is clamped to one dot less, not one column (`text.ts:163-165`), so what
  follows falls off the edge.
- Titles, long words that may not wrap and gauges narrower than their number draw over their neighbours:
  the canvas clips at the paper only. `Canvas.line` from opposite ends differs on ties.
- Charts: fewer labels than values are spread over the whole plot, so a name stands under another's bar
  (`labelCentre` divides by the labels, `paintBars` by the longest series; its comment says the last
  few "go unnamed"). A shorter line series is stretched over the plot, though `tree.ts:1121-1123`
  "leaves its later categories empty". Without a title the topmost mark's text begins above the chart. The
  legend is cut at the chart's height without regard to title and axis, and "half the chart" is not
  enforced as its width. Ticks are "four to six"; 0 to 10 gives three. The last marker is cut at the
  plot's edge though `pointX` draws it "whole". The first name of a line chart, held by the chart's
  left edge, may run into the next, and the last, held by the right one, into the one before:
  `labelCentre` puts them on the plot's first and last dot, and `paintUnder` moves them inside. (On 384
  dots with an axis of 13, five names are cut to eight characters: the first ends at 72, the second
  begins at 70.)

## 6. What is not modelled

The map covers an eighth of the implementation's lines. It does not reach a third, and would not by
honest means: most of the repository is pages and forms of the panel (`app/(panel)`, components),
tables of settings with their wording, documentation written as pages, schemas and encoders of
frames, seed data and generated code, in which nothing happens in an order that matters.

- *Out of scope by nature:* the dots of glyphs, images and fonts; patterns and shades; payloads and
  signatures; cryptography; the wording of errors; what a page shows.
- *Variables and preview:* substitution and budgets over strings, compared by unit tests. Their races with
  the tables they read are listed in section 5.
- *Abstracted:* address rules for webhook targets (allowed, denied or undecided), heartbeats (a dead
  socket is noticed), rate limits on the upgrade, the `status` column of an agent, which no modelled
  decision reads.
- *Log ingestion, throttles, API keys:* read, and small; a budget each, with the remarks of section 5.
- *Of the modelled parts:* what each module leaves out is said in its head and in section 2, and in the
  notes of `components` in `PROJECT.json`.

## 7. The plan

Modelled so far: everything sections 2 and 3 list. Left, in the order of what a fault would cost:

1. **Proofs** of what is only model-checked and in reach: `LinesComeOutRight`, by a simulation between
   `LineLayout`'s fold and `DrawnText`'s.
2. That `PrintQueue`'s jobs and `WebhookDelivery`'s rows implement small specifications of their own,
   which is what `JobLink` takes from them.
3. Modules for the log budgets, the API keys and the variables with the images they name.

To run a check: `tlc -workers 2 -config MCJobLink_joblink.cfg MCJobLink`, and in the same way for the
other configurations; the proofs: `tlapm JobLinkProofs.tla`, and so on.
