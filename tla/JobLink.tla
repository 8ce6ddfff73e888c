------------------------------ MODULE JobLink ------------------------------
(***************************************************************************)
(* A print job from submission to settlement, across the link between the  *)
(* FenPOS server and one agent.                                            *)
(*                                                                         *)
(* The server keeps a row per job, a registry slot holding the agent's     *)
(* live connection, and the handlers of every connection still open, the   *)
(* half-open ones included. Each handler is an async function, so every    *)
(* await is a point where another step may run: a submission, a handshake  *)
(* and a settlement are several actions here. The agent keeps its socket,  *)
(* a backlog of frames for its one frame thread, the print jobs, and the   *)
(* set of jobs it still has to report on.                                  *)
(*                                                                         *)
(* One agent and one device: the registry slot, the rows and the frames of *)
(* another agent are disjoint from this one's.                             *)
(***************************************************************************)
EXTENDS Naturals, FiniteSets, FiniteSetsExt, Sequences

CONSTANTS
    Jobs,          \* the jobs callers may submit
    MaxConns,      \* how many connections the agent may open
    MaxReported,   \* MAX_REPORTED_OUTSTANDING: past it a hello names no jobs
    MaxCancels,    \* bound: cancellations requested from the panel
    MaxCuts,       \* bound: connections the network drops
    MaxCrashes,    \* bound: agent processes killed and started again
    MaxRestarts,   \* bound: server processes killed and started again
    MaxUnpairs,    \* bound: times the administrator unpairs the agent
    MaxEvents      \* bound: events of these five kinds altogether

ASSUME ConnsAssumption  == MaxConns \in Nat
ASSUME BoundsAssumption == /\ MaxReported \in Nat
                           /\ MaxCancels \in Nat
                           /\ MaxCuts \in Nat
                           /\ MaxCrashes \in Nat
                           /\ MaxRestarts \in Nat
                           /\ MaxUnpairs \in Nat
                           /\ MaxEvents \in Nat

Conns  == 1 .. MaxConns
NoConn == 0

Terminal   == {"COMPLETED", "FAILED", "CANCELLED"}
Unfinished == {"QUEUED", "PRINTING"}
Status     == {"none"} \cup Unfinished \cup Terminal
ErrorCode  == {"none", "print_failed", "invalid_job", "agent_offline",
               "agent_lost_job", "agent_unpaired"}

VARIABLES
    \* --- server: the database
    row,         \* job status, "none" before the row exists
    err,         \* the row's error code
    hook,        \* the webhook delivery of the job: frozen status and error
    paired,      \* the agent's token hash is set
    \* --- server: the process
    unspoken,    \* settled jobs whose queueJobSettled call has not run yet
    submit,      \* where submitJob stands for each job
    submitLink,  \* the link submitJob read from the registry
    registered,  \* the registry's slot for the agent
    srv,         \* each connection's handler: none, open, ready, closed
    older,       \* jobs rowed before connectedAt was read
    held,        \* the outstanding list of the connection's hello
    rec,         \* where onHello stands
    lost,        \* what settleLostJobs selected
    updates,     \* job updates received, their statement not yet run
    unpair,      \* where unpairAgent stands
    stranded,    \* what unpairAgent selected
    \* --- the network
    wire,        \* none, up, ended (the agent's end is gone), cut
    bye,         \* the code the server closed the connection with, if it did
    toAgent,     \* frames on their way to the agent
    toServer,    \* frames on their way to the server
    \* --- agent
    dial,        \* the connection whose upgrade is under way
    sock,        \* LinkClient.socket
    greeted,     \* the hello has been sent on sock
    credential,  \* LinkClient.identity is set
    backlog,     \* frames waiting for FrameWorker
    job,         \* PrintJob states, "none" before the job is adopted
    dispatched,  \* LinkDispatcher.dispatched
    reports,     \* announced state changes not yet handed to the socket
    paper,       \* jobs whose bytes all reached the printer (history)
    \* --- bounds
    spent        \* how much of each bound has been used

rowVars    == <<row, err, hook>>
submitVars == <<submit, submitLink>>
helloVars  == <<older, held, rec, lost>>
unpairVars == <<paired, unpair, stranded>>
netVars    == <<wire, bye, toAgent, toServer>>
linkVars   == <<dial, sock, greeted, credential>>
printVars  == <<job, dispatched, reports, paper>>

vars == <<rowVars, submitVars, helloVars, unpairVars, netVars, linkVars,
          printVars, unspoken, registered, srv, updates, backlog, spent>>

-----------------------------------------------------------------------------
(* Frames and small helpers *)

Dispatch(j) == [type |-> "dispatch", job |-> j]
Cancel(j)   == [type |-> "cancel", job |-> j]
Hello(S)    == [type |-> "hello", held |-> S, known |-> Cardinality(S) <= MaxReported]
Update(j, s) == [type |-> "update", job |-> j, status |-> s]

AgentBound  == [type : {"dispatch", "cancel"}, job : Jobs]
UpdateFrame == [type : {"update"}, job : Jobs, status : Status \ {"none", "QUEUED"}]
ServerBound == UpdateFrame \cup [type : {"hello"}, held : SUBSET Jobs, known : BOOLEAN]
Told        == [status : Status, err : ErrorCode]
Untold      == [status |-> "none", err |-> "none"]
Budget      == {"cancel", "cut", "crash", "restart", "unpair"}

Spend(b, max) == /\ spent[b] < max
                 /\ MapThenSumSet(LAMBDA k : spent[k], Budget) < MaxEvents
                 /\ spent' = [spent EXCEPT ![b] = @ + 1]

\* readyState is OPEN: the server neither closed the socket nor saw it close.
SocketOpen(c) == srv[c] \in {"open", "ready"} /\ bye[c] = "none"

\* link.send: a half-open connection takes the frame, which is then lost.
SendToAgent(c, frame) ==
    toAgent' = IF wire[c] = "up" THEN [toAgent EXCEPT ![c] = Append(@, frame)] ELSE toAgent

\* link.close on the registered link: what was sent before still arrives.
CloseRegistered(code) ==
    bye' = [c \in Conns |-> IF c = registered /\ SocketOpen(c) THEN code ELSE bye[c]]

\* The agent's end of these sockets goes: what it had sent still arrives, what
\* was on its way to it does not.
HangUp(S) ==
    /\ wire' = [c \in Conns |-> IF c \in S /\ wire[c] = "up" THEN "ended" ELSE wire[c]]
    /\ toAgent' = [c \in Conns |-> IF c \in S THEN <<>> ELSE toAgent[c]]

UnfinishedJobs == {j \in Jobs : row[j] \in Unfinished}

Init ==
    /\ row = [j \in Jobs |-> "none"]
    /\ err = [j \in Jobs |-> "none"]
    /\ hook = [j \in Jobs |-> Untold]
    /\ paired = TRUE
    /\ unspoken = {}
    /\ submit = [j \in Jobs |-> "idle"]
    /\ submitLink = [j \in Jobs |-> NoConn]
    /\ registered = NoConn
    /\ srv = [c \in Conns |-> "none"]
    /\ older = [c \in Conns |-> {}]
    /\ held = [c \in Conns |-> {}]
    /\ rec = [c \in Conns |-> "none"]
    /\ lost = [c \in Conns |-> {}]
    /\ updates = {}
    /\ unpair = "idle"
    /\ stranded = {}
    /\ wire = [c \in Conns |-> "none"]
    /\ bye = [c \in Conns |-> "none"]
    /\ toAgent = [c \in Conns |-> <<>>]
    /\ toServer = [c \in Conns |-> <<>>]
    /\ dial = NoConn
    /\ sock = NoConn
    /\ greeted = FALSE
    /\ credential = TRUE
    /\ backlog = <<>>
    /\ job = [j \in Jobs |-> "none"]
    /\ dispatched = {}
    /\ reports = {}
    /\ paper = {}
    /\ spent = [b \in Budget |-> 0]

-----------------------------------------------------------------------------
(* Server: settling a row *)

\* Mistake: the predicate only asks that the row exists.
AnyRowCanChange(j) == row[j] # "none"

\* onJobUpdate's predicate: the row exists and is not terminal.
CanStillChange(j) == row[j] \in Unfinished

\* Mistake: the data's two columns are swapped.
SettleSwapped(S, code) ==
    LET writing == {j \in S : CanStillChange(j)} IN
    /\ row' = [j \in Jobs |-> IF j \in writing THEN code ELSE row[j]]
    /\ err' = [j \in Jobs |-> IF j \in writing THEN "FAILED" ELSE err[j]]
    /\ unspoken' = unspoken \cup writing
    /\ UNCHANGED hook

\* settleUnfinishedJobs: the check and the write are one transaction.
SettleUnfinished(S, code) ==
    LET writing == {j \in S : CanStillChange(j)} IN
    /\ row' = [j \in Jobs |-> IF j \in writing THEN "FAILED" ELSE row[j]]
    /\ err' = [j \in Jobs |-> IF j \in writing THEN code ELSE err[j]]
    /\ unspoken' = unspoken \cup writing
    /\ UNCHANGED hook

\* Mistake: nobody is told of a job that failed before it was sent.
FailJobSilently(j, code) ==
    /\ row' = [row EXCEPT ![j] = "FAILED"]
    /\ err' = [err EXCEPT ![j] = code]
    /\ UNCHANGED <<hook, unspoken>>

\* failJob: an unconditional write.
FailJob(j, code) ==
    /\ row' = [row EXCEPT ![j] = "FAILED"]
    /\ err' = [err EXCEPT ![j] = code]
    /\ unspoken' = unspoken \cup {j}
    /\ UNCHANGED hook

\* queueJobSettled: a delivery that exists already is left alone.
QueueJobSettled(j) ==
    /\ j \in unspoken
    /\ unspoken' = unspoken \ {j}
    /\ hook' = [hook EXCEPT ![j] = IF @ = Untold THEN [status |-> row[j], err |-> err[j]] ELSE @]
    /\ UNCHANGED <<row, err, submitVars, helloVars, unpairVars, netVars, linkVars,
                   printVars, registered, srv, updates, backlog, spent>>

-----------------------------------------------------------------------------
(* Server: submitJob *)

\* getLink, then variables, fonts and images are awaited. A submission
\* refused in that time leaves no row and is one that never goes on.
ReadLink(j) ==
    /\ submit[j] = "idle"
    /\ registered # NoConn
    /\ submit' = [submit EXCEPT ![j] = "linked"]
    /\ submitLink' = [submitLink EXCEPT ![j] = registered]
    /\ UNCHANGED <<rowVars, helloVars, unpairVars, netVars, linkVars, printVars,
                   unspoken, registered, srv, updates, backlog, spent>>

CreateRow(j) ==
    /\ submit[j] = "linked"
    /\ submit' = [submit EXCEPT ![j] = "rowed"]
    /\ row' = [row EXCEPT ![j] = "QUEUED"]
    /\ UNCHANGED <<err, hook, submitLink, helloVars, unpairVars, netVars, linkVars,
                   printVars, unspoken, registered, srv, updates, backlog, spent>>

\* compile or link.send threw.
CompileFails(j) ==
    /\ submit[j] = "rowed"
    /\ submit' = [submit EXCEPT ![j] = "done"]
    /\ FailJob(j, "invalid_job")
    /\ UNCHANGED <<submitLink, helloVars, unpairVars, netVars, linkVars, printVars,
                   registered, srv, updates, backlog, spent>>

SendDispatch(j) ==
    /\ submit[j] = "rowed"
    /\ submit' = [submit EXCEPT ![j] = "done"]
    /\ LET c == submitLink[j] IN
         \/ /\ SocketOpen(c)
            /\ SendToAgent(c, Dispatch(j))
            /\ UNCHANGED <<rowVars, unspoken>>
         \/ /\ ~SocketOpen(c)
            /\ FailJob(j, "agent_offline")
            /\ UNCHANGED toAgent
    /\ UNCHANGED <<submitLink, helloVars, unpairVars, wire, bye, toServer, linkVars, printVars,
                   registered, srv, updates, backlog, spent>>

\* cancelJob: nothing is written, the agent is asked.
CancelJob(j) ==
    /\ CanStillChange(j)
    /\ registered # NoConn
    /\ SocketOpen(registered)
    /\ Spend("cancel", MaxCancels)
    /\ SendToAgent(registered, Cancel(j))
    /\ UNCHANGED <<rowVars, submitVars, helloVars, unpairVars, wire, bye, toServer, linkVars,
                   printVars, unspoken, registered, srv, updates, backlog>>

-----------------------------------------------------------------------------
(* Server: one connection's handler *)

HandshakeTimeout(c) ==
    /\ srv[c] = "open"
    /\ bye[c] = "none"
    /\ bye' = [bye EXCEPT ![c] = "goingAway"]
    /\ UNCHANGED <<rowVars, submitVars, helloVars, unpairVars, wire, toAgent, toServer, linkVars,
                   printVars, unspoken, registered, srv, updates, backlog, spent>>

Arrives(c, type) ==
    /\ srv[c] \in {"open", "ready"}
    /\ toServer[c] # <<>>
    /\ Head(toServer[c]).type = type
    /\ toServer' = [toServer EXCEPT ![c] = Tail(@)]

\* onHello up to its first await: registerLink and the displaced link's close.
ReceiveHello(c) ==
    /\ Arrives(c, "hello")
    /\ srv[c] = "open"
    /\ srv' = [srv EXCEPT ![c] = "ready"]
    /\ registered' = c
    /\ CloseRegistered("goingAway")
    /\ held' = [held EXCEPT ![c] = Head(toServer[c]).held]
    /\ rec' = [rec EXCEPT ![c] = IF Head(toServer[c]).known THEN "registered" ELSE "skipped"]
    /\ UNCHANGED <<rowVars, submitVars, older, lost, unpairVars, wire, toAgent, linkVars, printVars,
                   unspoken, updates, backlog, spent>>

\* The statement onJobUpdate runs is awaited: nothing orders two of them.
ReceiveUpdate(c) ==
    /\ Arrives(c, "update")
    /\ updates' = IF srv[c] = "ready" THEN updates \cup {Head(toServer[c])} ELSE updates
    /\ UNCHANGED <<rowVars, submitVars, helloVars, unpairVars, wire, bye, toAgent, linkVars,
                   printVars, unspoken, registered, srv, backlog, spent>>

OnJobUpdate(u) ==
    /\ u \in updates
    /\ updates' = updates \ {u}
    /\ \/ /\ CanStillChange(u.job)
          /\ row' = [row EXCEPT ![u.job] = u.status]
          /\ err' = [err EXCEPT ![u.job] = IF u.status = "FAILED" THEN "print_failed" ELSE @]
          /\ unspoken' = IF u.status \in Terminal THEN unspoken \cup {u.job} ELSE unspoken
       \/ /\ ~CanStillChange(u.job)
          /\ UNCHANGED <<row, err, unspoken>>
    /\ UNCHANGED <<hook, submitVars, helloVars, unpairVars, netVars, linkVars, printVars,
                   registered, srv, backlog, spent>>

\* Mistakes: the connection's own jobs are not left out; only the waiting jobs
\* are looked at; nothing is ever found.
LostJobsOfAnyAge(c) == {j \in Jobs : CanStillChange(j) /\ j \notin held[c]}
LostJobsWaiting(c)  == {j \in older[c] : row[j] = "QUEUED" /\ j \notin held[c]}
LostJobsNever(c)    == {}

\* settleLostJobs' query.
LostJobs(c) == {j \in older[c] : CanStillChange(j) /\ j \notin held[c]}

SelectLostJobs(c) ==
    /\ rec[c] = "registered"
    /\ rec' = [rec EXCEPT ![c] = "selected"]
    /\ lost' = [lost EXCEPT ![c] = LostJobs(c)]
    /\ UNCHANGED <<rowVars, submitVars, older, held, unpairVars, netVars, linkVars, printVars,
                   unspoken, registered, srv, updates, backlog, spent>>

SettleLostJobs(c) ==
    /\ rec[c] = "selected"
    /\ rec' = [rec EXCEPT ![c] = "done"]
    /\ lost' = [lost EXCEPT ![c] = {}]
    /\ SettleUnfinished(lost[c], "agent_lost_job")
    /\ UNCHANGED <<submitVars, older, held, unpairVars, netVars, linkVars, printVars,
                   registered, srv, updates, backlog, spent>>

\* Mistake: any close empties the slot.
RegisteredWhoever(c) == registered # NoConn

\* unregisterLink's identity check.
StillRegistered(c) == registered = c

\* The close event: a closing handshake done, or a heartbeat unanswered.
OnClose(c) ==
    /\ srv[c] \in {"open", "ready"}
    /\ wire[c] = "cut" \/ (wire[c] = "ended" /\ toServer[c] = <<>>)
    /\ srv' = [srv EXCEPT ![c] = "closed"]
    /\ registered' = IF StillRegistered(c) THEN NoConn ELSE registered
    /\ UNCHANGED <<rowVars, submitVars, helloVars, unpairVars, netVars, linkVars, printVars,
                   unspoken, updates, backlog, spent>>

-----------------------------------------------------------------------------
(* Server: unpairAgent, and the panel action that closes the link after it *)

ClearToken ==
    /\ unpair = "idle"
    /\ Spend("unpair", MaxUnpairs)
    /\ unpair' = "cleared"
    /\ paired' = FALSE
    /\ UNCHANGED <<rowVars, submitVars, helloVars, stranded, netVars, linkVars, printVars,
                   unspoken, registered, srv, updates, backlog>>

SelectStranded ==
    /\ unpair = "cleared"
    /\ unpair' = "selected"
    /\ stranded' = UnfinishedJobs
    /\ UNCHANGED <<rowVars, submitVars, helloVars, paired, netVars, linkVars, printVars,
                   unspoken, registered, srv, updates, backlog, spent>>

SettleStranded ==
    /\ unpair = "selected"
    /\ unpair' = "settled"
    /\ stranded' = {}
    /\ SettleUnfinished(stranded, "agent_unpaired")
    /\ UNCHANGED <<submitVars, helloVars, paired, netVars, linkVars, printVars,
                   registered, srv, updates, backlog, spent>>

CloseUnpaired ==
    /\ unpair = "settled"
    /\ unpair' = "done"
    /\ CloseRegistered("unpaired")
    /\ UNCHANGED <<rowVars, submitVars, helloVars, paired, stranded, wire, toAgent, toServer, linkVars,
                   printVars, unspoken, registered, srv, updates, backlog, spent>>

\* A new code is redeemed on the agent's console.
PairAgain ==
    /\ unpair = "done"
    /\ ~credential
    /\ unpair' = "idle"
    /\ paired' = TRUE
    /\ credential' = TRUE
    /\ UNCHANGED <<rowVars, submitVars, helloVars, stranded, netVars, dial, sock, greeted,
                   printVars, unspoken, registered, srv, updates, backlog, spent>>

-----------------------------------------------------------------------------
(* Agent: LinkClient *)

\* routeUpgrade finds the token and builds the handler; connectedAt is read
\* here, before the agent knows its socket is open.
Upgrade(c) ==
    /\ credential /\ paired
    /\ sock = NoConn /\ dial = NoConn
    /\ srv[c] = "none"
    /\ \A d \in Conns : d < c => srv[d] # "none"
    /\ dial' = c
    /\ srv' = [srv EXCEPT ![c] = "open"]
    /\ older' = [older EXCEPT ![c] = {j \in Jobs : row[j] # "none"}]
    /\ wire' = [wire EXCEPT ![c] = "up"]
    /\ UNCHANGED <<rowVars, submitVars, held, rec, lost, unpairVars, bye, toAgent, toServer, sock,
                   greeted, credential, printVars, unspoken, registered, updates, backlog, spent>>

\* buildAsync completes: socket.set(ws).
Opened ==
    /\ dial # NoConn
    /\ wire[dial] = "up"
    /\ sock' = dial
    /\ dial' = NoConn
    /\ UNCHANGED <<rowVars, submitVars, helloVars, unpairVars, netVars, greeted, credential, printVars,
                   unspoken, registered, srv, updates, backlog, spent>>

DialFails ==
    /\ dial # NoConn
    /\ wire[dial] # "up"
    /\ dial' = NoConn
    /\ UNCHANGED <<rowVars, submitVars, helloVars, unpairVars, netVars, sock, greeted, credential,
                   printVars, unspoken, registered, srv, updates, backlog, spent>>

SendToServer(frame) ==
    toServer' = IF sock # NoConn /\ wire[sock] = "up"
                THEN [toServer EXCEPT ![sock] = Append(@, frame)] ELSE toServer

SayHello ==
    /\ sock # NoConn
    /\ ~greeted
    /\ greeted' = TRUE
    /\ SendToServer(Hello(dispatched))
    /\ UNCHANGED <<rowVars, submitVars, helloVars, unpairVars, wire, bye, toAgent, dial, sock,
                   credential, printVars, unspoken, registered, srv, updates, backlog, spent>>

\* onText hands the frame to the one frame thread, whose queue outlives the
\* socket.
OnText(c) ==
    /\ c \in {dial, sock}
    /\ wire[c] = "up"
    /\ toAgent[c] # <<>>
    /\ backlog' = Append(backlog, Head(toAgent[c]))
    /\ toAgent' = [toAgent EXCEPT ![c] = Tail(@)]
    /\ UNCHANGED <<rowVars, submitVars, helloVars, unpairVars, wire, bye, toServer, linkVars, printVars,
                   unspoken, registered, srv, updates, spent>>

OnDisconnected ==
    /\ sock # NoConn
    /\ \/ wire[sock] # "up"
       \/ bye[sock] = "goingAway" /\ toAgent[sock] = <<>>
    /\ sock' = NoConn
    /\ greeted' = FALSE
    /\ HangUp({sock})
    /\ UNCHANGED <<rowVars, submitVars, helloVars, unpairVars, bye, toServer, dial,
                   credential, printVars, unspoken, registered, srv, updates, backlog, spent>>

\* onUnpairedByServer and forgetPairing: the identity and the devices go, and
\* with them every waiting job. Nothing can be reported any more.
OnUnpaired ==
    /\ sock # NoConn
    /\ wire[sock] = "up"
    /\ bye[sock] = "unpaired" /\ toAgent[sock] = <<>>
    /\ sock' = NoConn
    /\ greeted' = FALSE
    /\ credential' = FALSE
    /\ HangUp({sock})
    /\ job' = [j \in Jobs |-> IF job[j] = "QUEUED" THEN "CANCELLED" ELSE job[j]]
    /\ dispatched' = {j \in dispatched : job[j] # "QUEUED"}
    /\ UNCHANGED <<rowVars, submitVars, helloVars, unpairVars, bye, toServer, dial, reports,
                   paper, unspoken, registered, srv, updates, backlog, spent>>

-----------------------------------------------------------------------------
(* Agent: LinkDispatcher and the print queue *)

\* Mistake: the job leaves the set as soon as it is reported on.
AnnouncedOnce(j, s) ==
    /\ reports' = reports \cup {Update(k, s) : k \in {j} \cap dispatched}
    /\ dispatched' = dispatched \ {j}

\* The listener: a terminal job leaves the set before its report is sent.
Announced(j, s) ==
    /\ reports' = reports \cup {Update(k, s) : k \in {j} \cap dispatched}
    /\ dispatched' = IF s \in Terminal THEN dispatched \ {j} ELSE dispatched

AgentAlone == <<rowVars, submitVars, helloVars, unpairVars, netVars, linkVars, unspoken,
                registered, srv, updates, spent>>

Handles(frame) ==
    /\ backlog # <<>>
    /\ Head(backlog) = frame
    /\ backlog' = Tail(backlog)

OnDispatch(j) ==
    /\ Handles(Dispatch(j))
    /\ credential
    /\ job' = [job EXCEPT ![j] = "QUEUED"]
    /\ dispatched' = dispatched \cup {j}
    /\ UNCHANGED <<AgentAlone, reports, paper>>

\* No such device, no queue, a queue that refuses, a job that does not render.
RefuseDispatch(j) ==
    /\ Handles(Dispatch(j))
    /\ job' = [job EXCEPT ![j] = "FAILED"]
    /\ reports' = reports \cup {Update(j, "FAILED")}
    /\ UNCHANGED <<AgentAlone, dispatched, paper>>

OnCancel(j) ==
    /\ Handles(Cancel(j))
    /\ \/ /\ job[j] = "QUEUED"
          /\ job' = [job EXCEPT ![j] = "CANCELLED"]
          /\ Announced(j, "CANCELLED")
       \/ /\ job[j] # "QUEUED"
          /\ UNCHANGED <<job, reports, dispatched>>
    /\ UNCHANGED <<AgentAlone, paper>>

BeginPrinting(j) ==
    /\ job[j] = "QUEUED"
    /\ job' = [job EXCEPT ![j] = "PRINTING"]
    /\ Announced(j, "PRINTING")
    /\ UNCHANGED <<AgentAlone, backlog, paper>>

\* Mistake: a write that failed ends the job like one that succeeded.
FinishUnchecked(j) ==
    /\ job[j] = "PRINTING"
    /\ Update(j, "PRINTING") \notin reports
    /\ job' = [job EXCEPT ![j] = "COMPLETED"]
    /\ paper' \in {paper, paper \cup {j}}
    /\ Announced(j, "COMPLETED")
    /\ UNCHANGED <<AgentAlone, backlog>>

\* The worker announces in order: PRINTING has been sent by now.
FinishPrinting(j) ==
    /\ job[j] = "PRINTING"
    /\ Update(j, "PRINTING") \notin reports
    /\ \/ /\ job' = [job EXCEPT ![j] = "COMPLETED"]
          /\ paper' = paper \cup {j}
          /\ Announced(j, "COMPLETED")
       \/ /\ job' = [job EXCEPT ![j] = "FAILED"]
          /\ Announced(j, "FAILED")
          /\ UNCHANGED paper
    /\ UNCHANGED <<AgentAlone, backlog>>

\* LinkClient.send: dropped when there is no socket.
SendReport(u) ==
    /\ u \in reports
    /\ reports' = reports \ {u}
    /\ SendToServer(u)
    /\ UNCHANGED <<rowVars, submitVars, helloVars, unpairVars, wire, bye, toAgent, linkVars, job,
                   dispatched, paper, unspoken, registered, srv, updates, backlog, spent>>

-----------------------------------------------------------------------------
(* Failures *)

\* The network drops a connection; neither end has noticed.
Cut(c) ==
    /\ wire[c] \in {"up", "ended"}
    /\ srv[c] # "closed"
    /\ Spend("cut", MaxCuts)
    /\ wire' = [wire EXCEPT ![c] = "cut"]
    /\ toAgent' = [toAgent EXCEPT ![c] = <<>>]
    /\ toServer' = [toServer EXCEPT ![c] = <<>>]
    /\ UNCHANGED <<rowVars, submitVars, helloVars, unpairVars, bye, linkVars, printVars, unspoken,
                   registered, srv, updates, backlog>>

\* The agent's process dies and starts again: only the credential is stored.
AgentRestart ==
    /\ Spend("crash", MaxCrashes)
    /\ dial' = NoConn
    /\ sock' = NoConn
    /\ greeted' = FALSE
    /\ HangUp({dial, sock})
    /\ job' = [j \in Jobs |-> "none"]
    /\ dispatched' = {}
    /\ reports' = {}
    /\ backlog' = <<>>
    /\ UNCHANGED <<rowVars, submitVars, helloVars, unpairVars, bye, toServer, credential, paper,
                   unspoken, registered, srv, updates>>

\* The server's process dies and starts again: only the database is left.
ServerRestart ==
    /\ Spend("restart", MaxRestarts)
    /\ srv' = [c \in Conns |-> IF srv[c] = "none" THEN "none" ELSE "closed"]
    /\ wire' = [c \in Conns |-> IF wire[c] = "none" THEN "none" ELSE "cut"]
    /\ toAgent' = [c \in Conns |-> <<>>]
    /\ toServer' = [c \in Conns |-> <<>>]
    /\ registered' = NoConn
    /\ submit' = [j \in Jobs |-> IF submit[j] = "idle" THEN "idle" ELSE "done"]
    /\ rec' = [c \in Conns |-> IF rec[c] \in {"registered", "selected"} THEN "skipped" ELSE rec[c]]
    /\ lost' = [c \in Conns |-> {}]
    /\ unpair' = IF unpair = "idle" THEN "idle" ELSE "done"
    /\ stranded' = {}
    /\ unspoken' = {}
    /\ updates' = {}
    /\ UNCHANGED <<rowVars, submitLink, older, held, paired, bye, linkVars,
                   printVars, backlog>>

-----------------------------------------------------------------------------
ServerNext ==
    \/ \E j \in Jobs : \/ ReadLink(j) \/ CreateRow(j) \/ CompileFails(j) \/ SendDispatch(j)
                       \/ CancelJob(j) \/ QueueJobSettled(j)
    \/ \E c \in Conns : \/ HandshakeTimeout(c) \/ ReceiveHello(c) \/ ReceiveUpdate(c)
                        \/ SelectLostJobs(c) \/ SettleLostJobs(c) \/ OnClose(c)
    \/ \E u \in UpdateFrame : OnJobUpdate(u)
    \/ ClearToken \/ SelectStranded \/ SettleStranded \/ CloseUnpaired

AgentNext ==
    \/ \E c \in Conns : Upgrade(c) \/ OnText(c)
    \/ Opened \/ DialFails \/ SayHello \/ OnDisconnected \/ OnUnpaired \/ PairAgain
    \/ \E j \in Jobs : \/ OnDispatch(j) \/ RefuseDispatch(j) \/ OnCancel(j)
                       \/ BeginPrinting(j) \/ FinishPrinting(j)
    \/ \E u \in UpdateFrame : SendReport(u)

FailureNext == AgentRestart \/ ServerRestart \/ \E c \in Conns : Cut(c)

Next == ServerNext \/ AgentNext \/ FailureNext

Spec == Init /\ [][Next]_vars

(***************************************************************************)
(* Fairness: the event loop and the agent's threads run what is ready, a   *)
(* dead socket is noticed by both ends (the server's heartbeat, the        *)
(* agent's periodic status report), the agent dials again for as long as   *)
(* it has a credential, no device is paused for ever. Nothing obliges a    *)
(* caller to submit or cancel, an operator to unpair, or anything to fail. *)
(***************************************************************************)
Fairness ==
    /\ \A j \in Jobs : /\ WF_vars(CompileFails(j) \/ SendDispatch(j))
                       /\ WF_vars(QueueJobSettled(j))
                       /\ WF_vars(OnDispatch(j) \/ RefuseDispatch(j) \/ OnCancel(j))
                       /\ WF_vars(BeginPrinting(j))
                       /\ WF_vars(FinishPrinting(j))
    /\ \A c \in Conns : /\ WF_vars(ReceiveHello(c) \/ ReceiveUpdate(c))
                        /\ WF_vars(SelectLostJobs(c) \/ SettleLostJobs(c))
                        /\ WF_vars(OnClose(c))
                        /\ WF_vars(Upgrade(c))
                        /\ WF_vars(OnText(c))
    /\ \A u \in UpdateFrame : WF_vars(OnJobUpdate(u)) /\ WF_vars(SendReport(u))
    /\ WF_vars(Opened \/ DialFails)
    /\ WF_vars(SayHello)
    /\ WF_vars(OnDisconnected)

FairSpec == Spec /\ Fairness

-----------------------------------------------------------------------------
(* Properties *)

TypeOK ==
    /\ row \in [Jobs -> Status]
    /\ err \in [Jobs -> ErrorCode]
    /\ hook \in [Jobs -> Told]
    /\ unspoken \subseteq Jobs
    /\ submit \in [Jobs -> {"idle", "linked", "rowed", "done"}]
    /\ submitLink \in [Jobs -> Conns \cup {NoConn}]
    /\ registered \in Conns \cup {NoConn}
    /\ srv \in [Conns -> {"none", "open", "ready", "closed"}]
    /\ older \in [Conns -> SUBSET Jobs]
    /\ held \in [Conns -> SUBSET Jobs]
    /\ rec \in [Conns -> {"none", "registered", "selected", "done", "skipped"}]
    /\ lost \in [Conns -> SUBSET Jobs]
    /\ updates \subseteq UpdateFrame
    /\ paired \in BOOLEAN
    /\ unpair \in {"idle", "cleared", "selected", "settled", "done"}
    /\ stranded \subseteq Jobs
    /\ wire \in [Conns -> {"none", "up", "ended", "cut"}]
    /\ bye \in [Conns -> {"none", "goingAway", "unpaired"}]
    /\ toAgent \in [Conns -> Seq(AgentBound)]
    /\ toServer \in [Conns -> Seq(ServerBound)]
    /\ dial \in Conns \cup {NoConn}
    /\ sock \in Conns \cup {NoConn}
    /\ greeted \in BOOLEAN
    /\ credential \in BOOLEAN
    /\ backlog \in Seq(AgentBound)
    /\ job \in [Jobs -> Status]
    /\ dispatched \subseteq Jobs
    /\ reports \subseteq UpdateFrame
    /\ paper \subseteq Jobs
    /\ spent \in [Budget -> Nat]

\* "A terminal job stays terminal" (onJobUpdate, settleUnfinishedJobs): no
\* report, late settle or failed submission changes how a job ended.
TerminalStays ==
    [][\A j \in Jobs : row[j] \in Terminal => row'[j] = row[j]]_vars

\* What the webhook subscriber was told is how the job ended, however many
\* settles and reports raced for it (notify.ts, "one settle, one delivery").
HookTellsTheRow ==
    \A j \in Jobs : hook[j] # Untold => hook[j].status = row[j]

\* A COMPLETED row is a receipt on paper: no settle and no report of another
\* connection or another life of the agent produces one.
CompletedIsOnPaper ==
    \A j \in Jobs : row[j] = "COMPLETED" => j \in paper

\* settleLostJobs never picks a job submitted on the connection whose hello it
\* is answering: that one is about to print.
NeverLosesItsOwn ==
    \A c \in Conns, j \in Jobs : j \in lost[c] => submitLink[j] # c

\* Once a hello has been reconciled, every job older than its connection has
\* settled or is one the agent named.
HelloReconciles ==
    \A c \in Conns : rec[c] = "done" =>
        \A j \in older[c] : row[j] \in Terminal \/ j \in held[c]

\* The slot is emptied by the close of the connection in it, never by the late
\* close of one it displaced (unregisterLink).
SlotVacatedByHolder ==
    [][registered # NoConn /\ registered' = NoConn => srv'[registered] = "closed"]_vars

\* What the agent has queued or is printing is what its next hello will name.
HeldWorkIsNamed ==
    \A j \in Jobs : job[j] \in Unfinished => j \in dispatched

\* The link stands: the agent's socket is the registered one and works.
Steady == sock # NoConn /\ registered = sock /\ wire[sock] = "up" /\ bye[sock] = "none"

\* The two jobs a hello passes over: one rowed after the connection was
\* accepted but sent on an earlier one, and any when the agent holds too many.
PassedOver(j) ==
    registered # NoConn =>
        \/ submitLink[j] # registered /\ j \notin older[registered]
        \/ rec[registered] = "skipped"

\* "A job settles the next time its agent is heard from" (README): once the
\* link stands for good, every recorded job the hello reached ends.
SettlesOnceSteady ==
    \A j \in Jobs : <>[]Steady => <>[](row[j] \notin Unfinished \/ PassedOver(j))

\* A caller waiting on a webhook is told, on every path that ends a job, as
\* long as the server's process lives.
AnswerIsTold ==
    \A j \in Jobs : row[j] \in Terminal ~> hook[j] # Untold

\* The rows and deliveries behave as the ledger promises, whatever the links do
\* (settle.ts, notify.ts): this is JobLedger, a step here being one step or none
\* there.
Ledger == INSTANCE JobLedger WITH row <- row, hook <- [j \in Jobs |-> hook[j].status]

ImplementsLedger == Ledger!Spec
=============================================================================
