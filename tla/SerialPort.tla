----------------------------- MODULE SerialPort -----------------------------
(***************************************************************************)
(* The serial port of one printer on the agent: the SerialHandler made for  *)
(* each serial setting the server pushes, its reconnect loop, and the       *)
(* DeviceConnectionManager that replaces one handler by the next.           *)
(*                                                                         *)
(* A method of SerialHandler holds the handler's lock from beginning to     *)
(* end, so it is one step; the reconnect loop reads the volatile fields     *)
(* without it, so each of its checks is a step.  The printer is what the    *)
(* operating system shows under the port's name: it may be unplugged, and   *)
(* the one plugged in next may be another.  One handle has a port at a time. *)
(*                                                                         *)
(* Devices reconnect and connect on their own (both settings default to     *)
(* true).  The agent's stop shuts handlers down as their removal does.      *)
(***************************************************************************)
EXTENDS Naturals, Sequences

CONSTANTS
    Printers,     \* physical devices, told apart by DeviceIdentity
    NoPrinter,    \* knownIdentity is null
    MaxHandlers,  \* bound: handlers the device gets in turn
    MaxPlugs      \* bound: times a printer is plugged in

ASSUME PrintersAssumption == NoPrinter \notin Printers
ASSUME PortBoundsAssumption == MaxHandlers \in Nat /\ MaxPlugs \in Nat \ {0}

Handlers == 1 .. MaxHandlers

VARIABLES
    plugged,   \* the printers the port's name has stood for, the last one now
    present,   \* and whether that one is still there
    handler,   \* SerialHandler: status, port, knownIdentity, shuttingDown, loop
    made,      \* handlers made so far
    current,   \* DeviceConnectionManager.handlers for the device, 0 for none
    applying,  \* applyDevices shut the old handler down and has not opened one
    console,   \* the handler a console command has looked up, 0 for none
    overtaken, \* history: handlers shut down under a connect() on its way
    missed     \* history: handlers that lost the device as the loop returned, or
               \* that a console connect, which starts no loop, left without it

device == <<plugged, present>>
port   == <<handler, made, current, applying, console, overtaken, missed>>
serialVars == <<device, port>>

Statuses == {"CONNECTED", "DISCONNECTED", "NO_DEVICE", "FAILED_TO_CONNECT"}
Loops    == {"none", "sleeping", "connecting", "testing", "returning"}

SerialTypeOK ==
    /\ plugged \in Seq(Printers) /\ Len(plugged) \in 1 .. MaxPlugs /\ present \in BOOLEAN
    /\ handler \in [Handlers -> [status : Statuses, fd : 0 .. MaxPlugs, loop : Loops,
                                 known : Printers \cup {NoPrinter}, down : BOOLEAN]]
    /\ {made, current, console} \subseteq 0 .. MaxHandlers /\ current <= made
    /\ applying \in BOOLEAN
    /\ overtaken \cup missed \subseteq Handlers

Plug   == Len(plugged)
Usable(h)  == handler[h].status = "CONNECTED"
\* The port object is open on the printer that is there.
Reaches(h) == present /\ handler[h].fd = Plug

SerialInit ==
    /\ \E p \in Printers : plugged = <<p>>
    /\ present = TRUE
    /\ handler = [h \in Handlers |-> [status |-> "DISCONNECTED", fd |-> 0, known |-> NoPrinter,
                                      down |-> FALSE, loop |-> "none"]]
    /\ made = 0 /\ current = 0 /\ applying = FALSE /\ console = 0
    /\ overtaken = {} /\ missed = {}

(***************************************************************************)
(* SerialHandler: what each method makes of the handler                     *)
(***************************************************************************)

\* connect(): leaves a usable port alone and asks nothing about a shutdown.
Connected(h) ==
    CASE Usable(h)   -> handler[h]
      [] ~present /\ ~Usable(h)
                     -> [handler[h] EXCEPT !.status = "NO_DEVICE"]
      [] present /\ ~Usable(h) /\ (\E o \in Handlers \ {h} : Reaches(o))
                     -> [handler[h] EXCEPT !.status = "FAILED_TO_CONNECT"]
      [] OTHER       -> [handler[h] EXCEPT !.status = "CONNECTED", !.fd = Plug,
                                           !.known = plugged[Plug]]

Closed(r, status) == [r EXCEPT !.fd = 0, !.status = status]

\* startReconnectLoop(): one thread at a time, and none after a shutdown.
Retrying(r) == IF r.down \/ r.loop # "none" THEN r ELSE [r EXCEPT !.loop = "sleeping"]

\* A connect an operator or open() asks for: what fails is retried.
Opened(h) == LET r == Connected(h) IN IF r.status = "CONNECTED" THEN r ELSE Retrying(r)

\* The mutant: the device is marked lost and nothing is started.
MistakeLosesForGood(h) == Closed(handler[h], "NO_DEVICE")

\* handleLostDevice()
Lost(h) == Retrying(Closed(handler[h], "NO_DEVICE"))

Failed(r) == r.status \in {"NO_DEVICE", "FAILED_TO_CONNECT"}

Becomes(h, r) ==
    /\ handler' = [handler EXCEPT ![h] = r]
    /\ missed' = IF handler[h].loop = "returning" /\ Failed(r) THEN missed \cup {h} ELSE missed

(***************************************************************************)
(* The writes and commands a handler is asked for                           *)
(***************************************************************************)

\* write() by the queue's worker, on the handler its queue was built with: a
\* device that is gone is lost.  One that is refused because the port is not
\* open, or whose chunk times out, changes nothing here (PrintQueue has those).
Write(h) ==
    /\ Usable(h) /\ ~Reaches(h) /\ Becomes(h, Lost(h))
    /\ UNCHANGED <<device, made, current, applying, console, overtaken>>

\* The console's connect and disconnect look the handler up under the manager's
\* monitor and use it without.
ConsoleLooksUp ==
    /\ console = 0 /\ ~applying /\ current # 0 /\ console' = current
    /\ UNCHANGED <<device, handler, made, current, applying, overtaken, missed>>

ConsoleActs ==
    /\ console # 0 /\ console' = 0
    /\ \/ /\ handler' = [handler EXCEPT ![console] = Connected(console)]
          /\ missed' = IF Failed(handler'[console])
                       THEN missed \cup {console} ELSE missed
       \/ /\ handler' = [handler EXCEPT ![console] = Closed(@, "DISCONNECTED")]
          /\ UNCHANGED missed
    /\ UNCHANGED <<device, made, current, applying, overtaken>>

(***************************************************************************)
(* The reconnect loop                                                       *)
(***************************************************************************)

LoopGoes(h, from, to) ==
    /\ handler[h].loop = from
    /\ handler' = [handler EXCEPT ![h].loop = to]
    /\ UNCHANGED <<device, made, current, applying, console, overtaken, missed>>

\* isExpectedDevice(): the port is there, and on the printer last opened.
Expected(h) == present /\ handler[h].known \in {NoPrinter, plugged[Plug]}

\* The mutant: the loop does not ask whether the handler is shutting down.
MistakeKeepsRetrying(h) == Usable(h)

\* The sleep ends, or is interrupted; the loop is over, or looks for the printer.
Over(h) == handler[h].down \/ Usable(h)
Wake(h) == LoopGoes(h, "sleeping", IF Over(h) THEN "returning"
                                   ELSE IF Expected(h) THEN "connecting" ELSE "sleeping")

\* connect(), from the loop; its condition is tested again where it can end.
Reconnect(h) ==
    /\ handler[h].loop = "connecting"
    /\ LET r == Connected(h)
       IN handler' = [handler EXCEPT ![h] =
                        [r EXCEPT !.loop = IF r.status = "CONNECTED" THEN "testing" ELSE "sleeping"]]
    /\ UNCHANGED <<device, made, current, applying, console, overtaken, missed>>

Test(h) == LoopGoes(h, "testing", IF Over(h) THEN "returning" ELSE "sleeping")

Return(h) == LoopGoes(h, "returning", "none")

(***************************************************************************)
(* DeviceConnectionManager.applyDevices, and the machine                    *)
(***************************************************************************)

\* A device that is gone, or whose settings changed, has its handler shut down.
\* The interrupt ends a loop that sleeps; one further on connects all the same.
Retire ==
    /\ current # 0 /\ ~applying
    /\ handler' = [handler EXCEPT ![current] = [Closed(@, "DISCONNECTED") EXCEPT !.down = TRUE]]
    /\ overtaken' = IF handler[current].loop = "connecting" \/ console = current
                    THEN overtaken \cup {current} ELSE overtaken
    /\ current' = 0
    /\ UNCHANGED <<device, made, console, missed>>

\* open(): the next handler is made, connected and, if that failed, set retrying.
Open ==
    /\ made < MaxHandlers
    /\ made' = made + 1 /\ current' = made + 1
    /\ handler' = [handler EXCEPT ![made + 1] = Opened(made + 1)]
    /\ UNCHANGED <<device, console, overtaken, missed>>

\* A device added; one removed; one whose settings changed, which is both.
ApplyDevices ==
    \/ current = 0 /\ Open /\ applying' = FALSE
    \/ Retire /\ applying' \in {FALSE, made < MaxHandlers}

\* The panel's connect and disconnect, on the thread that applies settings too.
Command ==
    /\ current # 0
    /\ \/ Becomes(current, Opened(current))
       \/ Becomes(current, Closed(handler[current], "DISCONNECTED"))
    /\ UNCHANGED <<device, made, current, applying, console, overtaken>>

Unplug == present /\ present' = FALSE /\ UNCHANGED <<plugged, port>>

PlugIn ==
    /\ ~present /\ Plug < MaxPlugs /\ present' = TRUE
    /\ \E p \in Printers : plugged' = Append(plugged, p)
    /\ UNCHANGED port

Loop(h) == Wake(h) \/ Test(h) \/ Reconnect(h) \/ Return(h)

SerialNext ==
    \/ ApplyDevices \/ Command \/ Unplug \/ PlugIn \/ ConsoleLooksUp \/ ConsoleActs
    \/ \E h \in Handlers : Write(h) \/ Loop(h)

SerialSpec == SerialInit /\ [][SerialNext]_serialVars

\* Sleeps end, threads run, and an applyDevices under way goes on.
SerialFairness == /\ \A h \in Handlers : WF_serialVars(Loop(h))
                  /\ WF_serialVars(applying /\ ApplyDevices)

(***************************************************************************)
(* Properties                                                               *)
(***************************************************************************)

\* A handler shut down keeps off the port, which its successor may be opening
\* (SerialHandler.java:171-172).  connect() asks nothing about a shutdown, so
\* this leaves out the handlers shut down with a connect() already on its way.
RetiredStaysShut ==
    \A h \in Handlers \ overtaken : handler[h].down => handler[h].fd = 0

\* A printer that was lost, is back and stays is opened again: a loop is at
\* work, or the device was lost just as the last one returned, or a handler
\* that was shut down holds the port.
Missing(h) == current = h /\ Expected(h) /\ Failed(handler[h])

PrinterComesBack ==
    \A h \in Handlers : <>[]Missing(h) => <>(h \in missed \/ overtaken # {})
=============================================================================
