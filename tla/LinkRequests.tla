---------------------------- MODULE LinkRequests ----------------------------
(***************************************************************************)
(* Asking an agent for something and waiting for the answer:                *)
(* lib/link/requests.ts, lib/link/commands.ts, the parts of                 *)
(* lib/link/agent-connection.ts that end a wait, and the agent's frame       *)
(* thread, which carries requests out in the order they came.               *)
(*                                                                         *)
(* A request reads the registry, then awaits the setting that bounds its    *)
(* wait, then registers the wait and sends in one synchronous stretch.  A   *)
(* promise and the caller's continuation are one step, and so is the        *)
(* handshake (JobLink has it in all of its own).  What carrying a request   *)
(* out comes to is SerialPort's and PrintQueue's; here it may be either.    *)
(***************************************************************************)
EXTENDS Naturals, Sequences

CONSTANTS
    Requests,  \* what the panel and the API ask of the agent
    MaxConns   \* bound: connections the agent makes

ASSUME MaxConnsAssumption == MaxConns \in Nat

Conns == 1 .. MaxConns

VARIABLES
    request,    \* of each request: how far it is, the link it read, the answer
    pending,    \* requests.ts: the identifiers somebody waits for
    named,      \* AgentLink.pending, per connection
    registered, \* the link in the registry, 0 when there is none
    socket,     \* a connection as the server's socket has it
    dialled,    \* connections made so far
    line,       \* the connection the agent is on, 0 when it is on none
    toAgent,    \* requests on their way to the agent, per connection
    toServer,   \* answers on their way back, per connection
    frames,     \* FrameWorker's queue: a request and the connection it came on
    done        \* how often each request was carried out

waits == <<request, pending, named>>
conns == <<registered, socket, dialled, line>>
wires == <<toAgent, toServer>>
agent == <<frames, done>>
linkVars == <<waits, conns, wires, agent>>

LinkTypeOK ==
    /\ request \in [Requests -> [at : {"new", "reading", "waiting", "over"}, link : 0 .. MaxConns,
                                 answer : {"none", "ok", "refused", "unsent", "unknown"}]]
    /\ pending \subseteq Requests /\ named \in [Conns -> SUBSET Requests]
    /\ {registered, dialled, line} \subseteq 0 .. MaxConns
    /\ socket \in [Conns -> {"none", "open", "closing", "closed"}]
    /\ toAgent \in [Conns -> Seq(Requests)]
    /\ toServer \in [Conns -> Seq([id : Requests, ok : BOOLEAN])]
    /\ frames \in Seq([from : Conns, id : Requests])
    /\ done \in [Requests -> 0 .. 1]

LinkInit ==
    /\ request = [r \in Requests |-> [at |-> "new", link |-> 0, answer |-> "none"]]
    /\ pending = {} /\ named = [c \in Conns |-> {}] /\ registered = 0
    /\ socket = [c \in Conns |-> "none"] /\ dialled = 0 /\ line = 0
    /\ toAgent = [c \in Conns |-> <<>>] /\ toServer = [c \in Conns |-> <<>>]
    /\ frames = <<>> /\ done = [r \in Requests |-> 0]

(***************************************************************************)
(* The callers                                                              *)
(***************************************************************************)

\* A caller's promise is settled: its entry leaves the map, its timer is
\* cleared, and its continuation takes its name off the connection.
Settle(rs, answer) ==
    /\ pending' = pending \ rs
    /\ request' = [r \in Requests |->
                     IF r \in rs \cap pending
                     THEN [request[r] EXCEPT !.at = "over", !.answer = answer] ELSE request[r]]
    /\ named' = [c \in Conns |-> named[c] \ (rs \cap pending)]

Refuse(r) == request' = [request EXCEPT ![r].at = "over", ![r].answer = "unsent"]

\* scanPorts, sendDeviceCommand and sendRawWrite up to their await.
ReadLink(r) ==
    /\ request[r].at = "new"
    /\ IF registered = 0 THEN Refuse(r)
       ELSE request' = [request EXCEPT ![r].at = "reading", ![r].link = registered]
    /\ UNCHANGED <<pending, named, conns, wires, agent>>

\* awaitReply and dispatch, on the link read before the await: the wait is
\* registered, and given up when the socket does not take the frame.
Send(r) ==
    LET c == request[r].link IN
    /\ request[r].at = "reading"
    /\ IF socket[c] = "open"
       THEN /\ request' = [request EXCEPT ![r].at = "waiting"]
            /\ pending' = pending \cup {r} /\ named' = [named EXCEPT ![c] = @ \cup {r}]
            /\ toAgent' = IF line = c THEN [toAgent EXCEPT ![c] = Append(@, r)] ELSE toAgent
       ELSE Refuse(r) /\ UNCHANGED <<pending, named, toAgent>>
    /\ UNCHANGED <<conns, toServer, agent>>

Timeout(r) == r \in pending /\ Settle({r}, "unknown") /\ UNCHANGED <<conns, wires, agent>>

\* settleReply; an answer that comes after its timeout finds nobody.
OnReply(c) ==
    /\ socket[c] \in {"open", "closing"} /\ toServer[c] # <<>>
    /\ LET reply == Head(toServer[c]) IN Settle({reply.id}, IF reply.ok THEN "ok" ELSE "refused")
    /\ toServer' = [toServer EXCEPT ![c] = Tail(@)]
    /\ UNCHANGED <<conns, toAgent, agent>>

(***************************************************************************)
(* The connections                                                          *)
(***************************************************************************)

\* The mutant: the displaced link's requests are left to its own close.
MistakeDisplaces ==
    /\ line = 0 /\ dialled < MaxConns
    /\ LET c == dialled + 1
       IN /\ dialled' = c /\ line' = c /\ registered' = c
          /\ socket' = [k \in Conns |-> IF k = c THEN "open"
                                        ELSE IF k = registered THEN "closing" ELSE socket[k]]
    /\ UNCHANGED <<waits, wires, agent>>

\* onHello: the link takes the slot; the one it displaces is closed and, since
\* its own close will find the slot taken, its requests are failed here.
OnHello ==
    /\ line = 0 /\ dialled < MaxConns
    /\ LET c == dialled + 1
       IN /\ dialled' = c /\ line' = c /\ registered' = c
          /\ socket' = [k \in Conns |-> IF k = c THEN "open"
                                        ELSE IF k = registered THEN "closing" ELSE socket[k]]
    /\ IF registered = 0 THEN UNCHANGED waits ELSE Settle(named[registered], "unknown")
    /\ UNCHANGED <<wires, agent>>

\* An unpair, or a liveness check that nobody answered.
CloseLink(c) ==
    /\ socket[c] = "open" /\ socket' = [socket EXCEPT ![c] = "closing"]
    /\ UNCHANGED <<waits, registered, dialled, line, wires, agent>>

\* The mutant: what is failed is told it was never sent.
MistakeUnsent(c) ==
    /\ socket[c] \in {"open", "closing"} /\ line # c
    /\ socket' = [socket EXCEPT ![c] = "closed"]
    /\ IF registered = c THEN registered' = 0 /\ Settle(named[c], "unsent")
       ELSE UNCHANGED <<registered, waits>>
    /\ toServer' = [toServer EXCEPT ![c] = <<>>]
    /\ UNCHANGED <<dialled, line, toAgent, agent>>

\* The close event: the registered link's requests are failed.
OnClose(c) ==
    /\ socket[c] \in {"open", "closing"} /\ line # c
    /\ socket' = [socket EXCEPT ![c] = "closed"]
    /\ IF registered = c THEN registered' = 0 /\ Settle(named[c], "unknown")
       ELSE UNCHANGED <<registered, waits>>
    /\ toServer' = [toServer EXCEPT ![c] = <<>>]
    /\ UNCHANGED <<dialled, line, toAgent, agent>>

(***************************************************************************)
(* The agent                                                                *)
(***************************************************************************)

\* The connection ends at the agent; what was on its way there is gone.
Drop ==
    /\ line # 0 /\ line' = 0 /\ toAgent' = [toAgent EXCEPT ![line] = <<>>]
    /\ UNCHANGED <<waits, registered, socket, dialled, toServer, agent>>

\* onText hands a frame to the frame thread; the next of the same connection
\* is delivered when that one is done.
OnText ==
    /\ line # 0 /\ toAgent[line] # <<>>
    /\ \A i \in DOMAIN frames : frames[i].from # line
    /\ frames' = Append(frames, [from |-> line, id |-> Head(toAgent[line])])
    /\ toAgent' = [toAgent EXCEPT ![line] = Tail(@)]
    /\ UNCHANGED <<waits, conns, toServer, done>>

\* onCommand, onRawWrite, onPortsScan: the answer goes out on the connection
\* the agent is on by then, and is dropped when it is on none.
CarryOut ==
    /\ frames # <<>> /\ frames' = Tail(frames)
    /\ LET r == Head(frames).id IN
       \E ok \in BOOLEAN :
          /\ done' = IF ok THEN [done EXCEPT ![r] = @ + 1] ELSE done
          /\ toServer' = IF line = 0 THEN toServer
                         ELSE [toServer EXCEPT ![line] = Append(@, [id |-> r, ok |-> ok])]
    /\ UNCHANGED <<waits, conns, toAgent>>

LinkNext ==
    \/ OnHello \/ Drop \/ OnText \/ CarryOut
    \/ \E r \in Requests : ReadLink(r) \/ Send(r) \/ Timeout(r)
    \/ \E c \in Conns : OnReply(c) \/ CloseLink(c) \/ OnClose(c)

LinkSpec == LinkInit /\ [][LinkNext]_linkVars

(***************************************************************************)
(* Properties                                                               *)
(***************************************************************************)

InFlight(r) == \/ \E c \in Conns : \E i \in DOMAIN toAgent[c] : toAgent[c][i] = r
               \/ \E i \in DOMAIN frames : frames[i].id = r

\* What a caller is told is so, whatever the connections did meanwhile: "ok" was
\* done, a refusal was not, and what "disconnected before the command
\* was sent" (commands.ts:150) is not done and will not be; and nobody waits for
\* a connection that is gone: who waits is named by the connection in the
\* registry, whose close will fail the wait (agent-connection.ts:325-327).
AnswersAreTrue ==
    \A r \in Requests :
        /\ request[r].answer = "ok" => done[r] = 1
        /\ request[r].answer = "refused" => done[r] = 0
        /\ request[r].answer = "unsent" => done[r] = 0 /\ ~InFlight(r)
        /\ r \in pending <=> request[r].at = "waiting"
        /\ r \in pending => /\ registered = request[r].link
                            /\ r \in named[registered]
                            /\ socket[registered] \in {"open", "closing"}
=============================================================================
