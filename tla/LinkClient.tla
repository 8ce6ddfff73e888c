----------------------------- MODULE LinkClient -----------------------------
(***************************************************************************)
(* The agent's end of the link (LinkClient.java): one socket reference, one *)
(* volatile state, a retry thread and the listeners of the HTTP client,     *)
(* used by the console's pair and unpair commands and by shutdown().        *)
(*                                                                         *)
(* A dial is one buildAsync and the connection it may open.  The listener's *)
(* onOpen runs before the build completes, so a connection is "opened"      *)
(* before the socket is set and the hello said, and may be lost in between. *)
(* A method that touches the shared fields once, or only writes them, is    *)
(* one action.                                                              *)
(*                                                                         *)
(* The server is what the agent meets of it: it takes the token it knows,   *)
(* registers a connection on its hello and closes the one it displaces.     *)
(* JobLink models that side; backoff's delays and the frames are left out.  *)
(***************************************************************************)
EXTENDS Naturals, FiniteSets

CONSTANTS
    Dials,       \* the connections that may exist at once
    NoDial,      \* socket is null
    MaxStarts,   \* bound: credentials, and so calls of start()
    MaxCuts,     \* bound: connections the network drops
    MaxOutages,  \* bound: times the server cannot be reached for a while
    MayShutDown  \* whether the agent process may be stopped

ASSUME DialsAssumption  == NoDial \notin Dials
ASSUME BoundsAssumption == /\ MaxStarts \in Nat \ {0} /\ {MaxCuts, MaxOutages} \subseteq Nat
                           /\ MayShutDown \in BOOLEAN

VARIABLES
    stopped,     \* LinkClient.stopped
    identity,    \* LinkClient.identity: the number of a credential, 0 when null
    state,       \* LinkClient.state
    socket,      \* LinkClient.socket
    timers,      \* retries waiting in the scheduler
    down,        \* how far shutdown() is
    dial,        \* where a dial is
    token,       \* the credential a dial presents
    ending,      \* how a connection ended; "told" once the listener was called
    console,     \* where the console's pair or unpair command is
    forgetting,  \* forgetPairing is about to clear the store
    stored,      \* the identity in AgentStore, 0 when there is none
    known,       \* the credential whose hash the server holds, 0 when unpaired
    greeted,     \* connections whose hello the server has read
    registered,  \* the connection in the server's registry
    reachable,   \* the server can be reached
    starts, cuts, outages,
    clean,       \* history: no start() found an earlier dial or retry alive
    early        \* history: a connection was lost before the socket was set

client == <<stopped, identity, state, socket, timers>>
dials  == <<dial, token, ending>>
users  == <<down, console, forgetting, stored>>
server == <<known, greeted, registered, reachable>>
bounds == <<starts, cuts, outages>>
history == <<clean, early>>
vars == <<client, dials, users, server, bounds, history>>

Phases  == {"free", "dialling", "opened", "set", "up"}
Endings == {"none", "closed", "unpaired", "told"}

\* The connection exists and its end has not reached the listener.
Open(a)  == dial[a] \in {"opened", "set", "up"} /\ ending[a] # "told"
Alive(a) == dial[a] \in {"opened", "set", "up"} /\ ending[a] = "none"

\* What start() sets off and every loss passes on: a retry that waits, a
\* connect() about to run, a dial, or a connection.
Chains == timers + Cardinality({a \in Dials : dial[a] = "dialling" \/ Open(a)})
                 + (IF console = "starting" THEN 1 ELSE 0)

TypeOK ==
    /\ stopped \in BOOLEAN /\ identity \in 0 .. MaxStarts
    /\ state \in {"IDLE", "CONNECTING", "CONNECTED", "STOPPED"}
    /\ socket \in Dials \cup {NoDial} /\ timers \in Nat
    /\ dial \in [Dials -> Phases] /\ token \in [Dials -> 0 .. MaxStarts]
    /\ ending \in [Dials -> Endings]
    /\ down \in {"no", "stopped", "yes"} /\ (down = "yes" => timers = 0)
    /\ console \in {"idle", "redeemed", "starting", "unpairing"}
    /\ forgetting \in BOOLEAN /\ stored \in 0 .. MaxStarts
    /\ known \in 0 .. MaxStarts /\ greeted \subseteq Dials
    /\ registered \in Dials \cup {NoDial} /\ reachable \in BOOLEAN
    /\ starts \in 0 .. MaxStarts /\ cuts \in 0 .. MaxCuts /\ outages \in 0 .. MaxOutages
    /\ clean \in BOOLEAN /\ early \in BOOLEAN

\* main() found an identity in the store and is about to call start().
Init ==
    /\ stopped = FALSE /\ identity = 0 /\ state = "IDLE" /\ socket = NoDial /\ timers = 0
    /\ dial = [a \in Dials |-> "free"] /\ token = [a \in Dials |-> 0]
    /\ ending = [a \in Dials |-> "none"]
    /\ down = "no" /\ console = "redeemed" /\ forgetting = FALSE
    /\ stored = 1 /\ known = 1 /\ greeted = {} /\ registered = NoDial /\ reachable = TRUE
    /\ starts = 1 /\ cuts = 0 /\ outages = 0
    /\ clean = TRUE /\ early = FALSE

-----------------------------------------------------------------------------
(* Dialling *)

\* A socket reference keeps its object: no new dial takes its place.
Unused(a) == dial[a] = "free" /\ socket # a

\* connect(): the part that start() and a retry share.
Connect ==
    IF stopped \/ identity = 0
    THEN UNCHANGED <<state, dials, greeted>>
    ELSE LET a == CHOOSE b \in Dials : Unused(b)
         IN /\ \E b \in Dials : Unused(b)
            /\ state' = "CONNECTING"
            /\ dial' = [dial EXCEPT ![a] = "dialling"]
            /\ token' = [token EXCEPT ![a] = identity]
            /\ ending' = [ending EXCEPT ![a] = "none"]
            /\ greeted' = greeted \ {a}

\* Only a link that was up is worth a retry.
ReconnectOnce ==
    IF stopped \/ state = "CONNECTING" THEN UNCHANGED <<state, timers>>
    ELSE state' = "CONNECTING" /\ timers' = timers + 1

\* scheduleReconnect(): a scheduler that was shut down refuses the retry.
ScheduleReconnect ==
    IF stopped THEN UNCHANGED <<state, timers>>
    ELSE IF down = "yes" THEN state' = "STOPPED" /\ UNCHANGED timers
    ELSE state' = "CONNECTING" /\ timers' = timers + 1

\* A retry that was scheduled at a fixed rate.
RetryAtFixedRate ==
    /\ timers > 0
    /\ UNCHANGED timers
    /\ Connect
    /\ UNCHANGED <<stopped, identity, socket, users, known, registered, reachable, bounds, history>>

\* A retry's delay is over.
Retry ==
    /\ timers > 0
    /\ timers' = timers - 1
    /\ Connect
    /\ UNCHANGED <<stopped, identity, socket, users, known, registered, reachable, bounds, history>>

\* An onOpen that leaves the state to the hello.
OpenedQuietly(a) ==
    /\ dial[a] = "dialling" /\ reachable /\ token[a] = known
    /\ dial' = [dial EXCEPT ![a] = "opened"]
    /\ UNCHANGED <<client, token, ending, users, server, bounds, history>>

\* The server accepts the token; onOpen runs.
Opened(a) ==
    /\ dial[a] = "dialling" /\ reachable /\ token[a] = known
    /\ dial' = [dial EXCEPT ![a] = "opened"]
    /\ state' = "CONNECTED"
    /\ UNCHANGED <<stopped, identity, socket, timers, token, ending, users, server, bounds, history>>

\* Nobody answers, or the token is refused: onConnectFailure.
DialFails(a) ==
    /\ dial[a] = "dialling" /\ ~ (reachable /\ token[a] = known)
    /\ dial' = [dial EXCEPT ![a] = "free"]
    /\ ScheduleReconnect
    /\ UNCHANGED <<stopped, identity, socket, token, ending, users, server, bounds, history>>

\* The build completes: socket.set(ws), whether or not stop() came in between.
Establish(a) ==
    /\ dial[a] = "opened"
    /\ dial' = [dial EXCEPT ![a] = "set"]
    /\ socket' = a
    /\ UNCHANGED <<stopped, identity, state, timers, token, ending, users, server, bounds, history>>

\* The server closes a connection, or sees it closed.
Gone(a) == registered' = IF registered = a THEN NoDial ELSE registered

\* The server reads a hello: a second one on a connection is ignored, and the
\* first registers it and closes the connection it displaces.
Greet(a) ==
    IF a \in greeted
    THEN UNCHANGED <<greeted, registered, ending>>
    ELSE /\ greeted' = greeted \cup {a}
         /\ registered' = a
         /\ ending' = IF registered # NoDial
                      THEN [ending EXCEPT ![registered] = "closed"] ELSE ending

\* send(hello): on whatever socket is set by then.
SayHello(a) ==
    /\ dial[a] = "set"
    /\ dial' = [dial EXCEPT ![a] = IF ending[a] = "told" THEN "free" ELSE "up"]
    /\ IF socket # NoDial /\ Alive(socket)
       THEN Greet(socket)
       ELSE UNCHANGED <<greeted, registered, ending>>
    /\ UNCHANGED <<client, token, users, known, reachable, bounds, history>>

-----------------------------------------------------------------------------
(* Losing a connection *)

\* The listener heard of the end; a build that is not finished still has to.
Heard(a) ==
    /\ dial' = [dial EXCEPT ![a] = IF @ = "up" THEN "free" ELSE @]
    /\ ending' = [ending EXCEPT ![a] = IF dial[a] = "up" THEN "none" ELSE "told"]
    /\ early' = (early \/ dial[a] = "opened")

AlreadyHandled == socket = NoDial /\ state # "CONNECTING"

\* onClose and onError: onDisconnected, which asks not whose connection it was.
OnDisconnected(a) ==
    /\ Open(a) /\ ending[a] = "closed"
    /\ Heard(a)
    /\ socket' = NoDial
    /\ IF AlreadyHandled THEN UNCHANGED <<state, timers>> ELSE ScheduleReconnect
    /\ UNCHANGED <<stopped, identity, token, users, server, bounds, clean>>

\* onClose with the unpaired code: onUnpairedByServer.
OnUnpairedByServer(a) ==
    /\ Open(a) /\ ending[a] = "unpaired"
    /\ Heard(a)
    /\ socket' = NoDial
    /\ stopped' = TRUE /\ identity' = 0 /\ state' = "STOPPED"
    /\ forgetting' = TRUE
    /\ UNCHANGED <<timers, token, down, console, stored, server, bounds, clean>>

\* forgetPairing: whatever identity is stored by then.
ForgetPairing ==
    /\ forgetting
    /\ forgetting' = FALSE
    /\ stored' = 0
    /\ UNCHANGED <<client, dials, down, console, server, bounds, history>>

-----------------------------------------------------------------------------
(* The console and shutdown *)

\* stop(): a dial that is still being built is not part of it.
Stop ==
    /\ stopped' = TRUE /\ state' = "STOPPED" /\ identity' = 0 /\ socket' = NoDial
    /\ IF socket # NoDial /\ Alive(socket)
       THEN ending' = [ending EXCEPT ![socket] = "closed"] /\ Gone(socket)
       ELSE UNCHANGED <<ending, registered>>

\* pair: nothing is stored, and the server redeems the code of an unpaired agent.
Redeem ==
    /\ console = "idle" /\ down = "no" /\ reachable
    /\ stored = 0 /\ known = 0 /\ starts < MaxStarts
    /\ starts' = starts + 1
    /\ stored' = starts' /\ known' = starts'
    /\ console' = "redeemed"
    /\ UNCHANGED <<client, dials, down, forgetting, greeted, registered, reachable, cuts, outages, history>>

\* start(), by the pair command or by main().
Start ==
    /\ console = "redeemed"
    /\ console' = "starting"
    /\ identity' = starts /\ stopped' = FALSE
    /\ clean' = (clean /\ Chains = 0 /\ dial = [a \in Dials |-> "free"] /\ ~forgetting)
    /\ UNCHANGED <<state, socket, timers, dials, down, forgetting, stored, server, bounds, early>>

StartConnects ==
    /\ console = "starting"
    /\ console' = "idle"
    /\ Connect
    /\ UNCHANGED <<stopped, identity, socket, timers, down, forgetting, stored, known, registered, reachable, bounds, history>>

\* unpair: the store first, then the link.
Unpair ==
    /\ console = "idle" /\ down = "no" /\ stored # 0
    /\ stored' = 0
    /\ console' = "unpairing"
    /\ UNCHANGED <<client, dials, down, forgetting, server, bounds, history>>

UnpairStops ==
    /\ console = "unpairing"
    /\ console' = "idle"
    /\ Stop
    /\ UNCHANGED <<timers, dial, token, down, forgetting, stored, known, greeted, reachable, bounds, history>>

\* shutdown(), on the thread of the JVM's hook.
ShutDown ==
    /\ MayShutDown /\ down = "no"
    /\ down' = "stopped"
    /\ Stop
    /\ UNCHANGED <<timers, dial, token, console, forgetting, stored, known, greeted, reachable, bounds, history>>

ShutDownScheduler ==
    /\ down = "stopped"
    /\ down' = "yes" /\ timers' = 0
    /\ UNCHANGED <<stopped, identity, state, socket, dials, console, forgetting, stored, server, bounds, history>>

-----------------------------------------------------------------------------
(* The server and the network *)

\* The panel unpairs the agent, and may do so with no connection to close.
Revoke ==
    /\ known # 0
    /\ known' = 0
    /\ registered' = NoDial
    /\ ending' = IF registered # NoDial
                 THEN [ending EXCEPT ![registered] = "unpaired"] ELSE ending
    /\ UNCHANGED <<client, dial, token, users, greeted, reachable, bounds, history>>

\* No hello came.  The wait is far longer than the way from onOpen to send().
HandshakeTimeout(a) ==
    /\ dial[a] = "up" /\ ending[a] = "none" /\ a \notin greeted
    /\ ending' = [ending EXCEPT ![a] = "closed"]
    /\ UNCHANGED <<client, dial, token, users, server, bounds, history>>

Cut(a) ==
    /\ Alive(a) /\ cuts < MaxCuts
    /\ cuts' = cuts + 1
    /\ ending' = [ending EXCEPT ![a] = "closed"]
    /\ Gone(a)
    /\ UNCHANGED <<client, dial, token, users, known, greeted, reachable, starts, outages, history>>

Outage ==
    /\ reachable /\ outages < MaxOutages
    /\ reachable' = FALSE /\ outages' = outages + 1
    /\ UNCHANGED <<client, dials, users, known, greeted, registered, starts, cuts, history>>

BackInReach ==
    /\ ~reachable
    /\ reachable' = TRUE
    /\ UNCHANGED <<client, dials, users, known, greeted, registered, bounds, history>>

-----------------------------------------------------------------------------
Next ==
    \/ Retry \/ Redeem \/ Start \/ StartConnects \/ Unpair \/ UnpairStops
    \/ ForgetPairing \/ ShutDown \/ ShutDownScheduler \/ Revoke \/ Outage \/ BackInReach
    \/ \E a \in Dials : \/ Opened(a) \/ DialFails(a) \/ Establish(a) \/ SayHello(a)
                        \/ OnDisconnected(a) \/ OnUnpairedByServer(a)
                        \/ HandshakeTimeout(a) \/ Cut(a)

Spec == Init /\ [][Next]_vars

\* Threads and timers run, the client's callbacks arrive, and a dial ends
\* within CONNECT_TIMEOUT.  People and the network owe nothing.
FairSpec ==
    /\ Spec
    /\ WF_vars(Retry) /\ WF_vars(Start) /\ WF_vars(StartConnects) /\ WF_vars(UnpairStops)
    /\ WF_vars(ForgetPairing) /\ WF_vars(ShutDownScheduler)
    /\ \A a \in Dials :
          /\ WF_vars(Opened(a) \/ DialFails(a)) /\ WF_vars(Establish(a)) /\ WF_vars(SayHello(a))
          /\ WF_vars(OnDisconnected(a)) /\ WF_vars(OnUnpairedByServer(a))
          /\ WF_vars(HandshakeTimeout(a))

-----------------------------------------------------------------------------
(* Properties *)

Undisturbed == clean /\ ~early

\* start() is called once per life of the link and every loss is passed on to
\* one retry: there is never a second chain of dials beside the first
\* (connect, onConnectFailure, onDisconnected and scheduleReconnect).
OneChain == clean => Chains <= 1

\* state() tells the console the truth: CONNECTED while a connection stands,
\* CONNECTING while a dial or a retry is under way, as long as the link is
\* meant to run and no connection was lost before the socket was set.
ReportsWhatItDoes ==
    (Undisturbed /\ ~stopped /\ down = "no" /\ console # "starting") =>
        /\ (\E a \in Dials : Open(a)) <=> state = "CONNECTED"
        /\ (timers > 0 \/ \E a \in Dials : dial[a] = "dialling") <=> state = "CONNECTING"

\* The link is wanted, its credential is good and the server is there.
Welcome == reachable /\ ~stopped /\ identity # 0 /\ identity = known /\ down = "no"

Up == socket # NoDial /\ registered = socket /\ state = "CONNECTED"

\* The link comes back after any refusals and losses, and stays, once the
\* server can be reached: it "reconnects indefinitely" (LinkClient.java:36-38),
\* for a client that was started with nothing left over from before.
LinkRecovers == (<>[]Welcome /\ []Undisturbed) => <>[]Up
=============================================================================
