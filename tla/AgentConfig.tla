----------------------------- MODULE AgentConfig -----------------------------
(***************************************************************************)
(* Keeping an agent's configuration that of the panel: device-service.ts    *)
(* and assets/actions.ts save and then push, agent-connection.ts reads a    *)
(* whole snapshot and sends it, LinkDispatcher and FenPOSAgent adopt it.    *)
(*                                                                         *)
(* The configuration is two tables, read one after the other with awaits    *)
(* between: the devices and the stored images.  What is saved in them is    *)
(* the number of times it was.  Settings travel in the same frame, but      *)
(* saving them pushes nothing, so no more is promised of them than that     *)
(* the next frame has them; they are left out.                              *)
(***************************************************************************)
EXTENDS Naturals, Sequences

CONSTANTS
    Edits,      \* changes an operator makes, each saved once
    MaxLinks,   \* bound: connections the agent makes
    MaxUnpairs  \* bound: times the agent is unpaired

ASSUME ConfigBoundsAssumption == {MaxLinks, MaxUnpairs} \subseteq Nat
ASSUME EditsAssumption == Edits \cap (1 .. MaxLinks) = {}

Links  == 1 .. MaxLinks
Tables == {"devices", "images"}
Empty  == [t \in Tables |-> 0]

VARIABLES
    saved,    \* the panel's database: how often each table was changed
    push,     \* pushDeviceConfig, for each edit and for each connection's hello
    slot,     \* the link in the registry, 0 when there is none
    sock,     \* a connection as the server's socket has it
    dials,    \* connections made so far
    on,       \* the connection the agent is on, 0 when it is on none
    wire,     \* snapshots on their way to the agent, per connection
    queue,    \* FrameWorker's queue of them
    adopting, \* the frame thread has taken the images of the first one
    holds,    \* DeviceRegistry: the agent's devices and images
    paired,   \* the agent has a credential
    forgetting, \* a thread that unpaired is about to apply an empty device set
    unpairs,  \* unpairs so far
    crossed,  \* history: connections on which two pushes were under way at once
    leftover  \* history: a frame was still in the queue when the agent forgot

panelVars  == <<saved, push, slot, sock>>
agentVars  == <<queue, adopting, holds, paired, forgetting, unpairs, leftover>>
configVars == <<panelVars, dials, on, wire, crossed, agentVars>>

Pushes == Edits \cup Links

ConfigTypeOK ==
    /\ saved \in [Tables -> Nat] /\ holds \in [Tables -> Nat]
    /\ push \in [Pushes -> [at : {"idle", "saved", "devices", "images", "send", "over"},
                            link : 0 .. MaxLinks, read : [Tables -> Nat]]]
    /\ {slot, dials, on} \subseteq 0 .. MaxLinks
    /\ sock \in [Links -> {"none", "open", "closing", "unpairing", "closed"}]
    /\ wire \in [Links -> Seq([Tables -> Nat])] /\ queue \in Seq([Tables -> Nat])
    /\ {adopting, paired, forgetting, leftover} \subseteq BOOLEAN
    /\ unpairs \in 0 .. MaxUnpairs /\ crossed \subseteq Links

ConfigInit ==
    /\ saved = [t \in Tables |-> 1]
    /\ push = [p \in Pushes |-> [at |-> "idle", link |-> 0, read |-> Empty]]
    /\ slot = 0 /\ sock = [c \in Links |-> "none"] /\ dials = 0 /\ on = 0
    /\ wire = [c \in Links |-> <<>>] /\ queue = <<>> /\ adopting = FALSE /\ holds = Empty
    /\ paired = TRUE /\ forgetting = FALSE /\ unpairs = 0 /\ crossed = {} /\ leftover = FALSE

(***************************************************************************)
(* Saving and pushing                                                       *)
(***************************************************************************)

Reading(c) == {p \in Pushes : push[p].link = c /\ push[p].at \in {"images", "send"}}

\* createDevice, updateDevice, deleteDevice, setDevicePaused, and the panel's
\* changes to the image library.
Save(e) ==
    /\ push[e].at = "idle" /\ push' = [push EXCEPT ![e].at = "saved"]
    /\ \E t \in Tables : saved' = [saved EXCEPT ![t] = @ + 1]
    /\ UNCHANGED <<slot, sock, dials, on, wire, crossed, agentVars>>

\* The mutant: a change is saved and nobody is told.
MistakeSavesOnly(e) ==
    /\ push[e].at = "saved"
    /\ push' = [push EXCEPT ![e].at = "over"]
    /\ UNCHANGED <<saved, slot, sock, dials, on, wire, crossed, agentVars>>

\* push(), pushConfigToEveryAgent(): to the link there is, or to none.
FindLink(e) ==
    /\ push[e].at = "saved"
    /\ push' = [push EXCEPT ![e].at = IF slot = 0 THEN "over" ELSE "devices", ![e].link = slot]
    /\ UNCHANGED <<saved, slot, sock, dials, on, wire, crossed, agentVars>>

\* pushDeviceConfig: the devices, then the rasters for them.
ReadDevices(p) ==
    /\ push[p].at = "devices"
    /\ push' = [push EXCEPT ![p].at = "images", ![p].read["devices"] = saved["devices"]]
    /\ crossed' = IF Reading(push[p].link) = {} THEN crossed ELSE crossed \cup {push[p].link}
    /\ UNCHANGED <<saved, slot, sock, dials, on, wire, agentVars>>

ReadImages(p) ==
    /\ push[p].at = "images"
    /\ push' = [push EXCEPT ![p].at = "send", ![p].read["images"] = saved["images"]]
    /\ UNCHANGED <<saved, slot, sock, dials, on, wire, crossed, agentVars>>

\* The send; what the socket does not take, and any error, is logged.
SendConfig(p) ==
    LET c == push[p].link IN
    /\ push[p].at = "send" /\ push' = [push EXCEPT ![p].at = "over"]
    /\ wire' = IF sock[c] = "open" /\ on = c THEN [wire EXCEPT ![c] = Append(@, push[p].read)]
               ELSE wire
    /\ UNCHANGED <<saved, slot, sock, dials, on, crossed, agentVars>>

(***************************************************************************)
(* Connections                                                              *)
(***************************************************************************)

\* onHello: the link takes the slot, and has a push of its own.
Greet ==
    /\ paired /\ ~forgetting /\ on = 0 /\ dials < MaxLinks
    /\ LET c == dials + 1 IN
       /\ dials' = c /\ on' = c /\ slot' = c
       /\ sock' = [k \in Links |-> IF k = c THEN "open"
                                   ELSE IF k = slot THEN "closing" ELSE sock[k]]
       /\ push' = [push EXCEPT ![c].at = "devices", ![c].link = c]
    /\ UNCHANGED <<saved, wire, crossed, agentVars>>

Closes(c) ==
    /\ sock[c] \in {"open", "closing", "unpairing"} /\ on # c
    /\ sock' = [sock EXCEPT ![c] = "closed"] /\ slot' = IF slot = c THEN 0 ELSE slot
    /\ UNCHANGED <<saved, push, dials, on, wire, crossed, agentVars>>

\* The connection is lost on the agent's side, with what was on its way.
Lose ==
    /\ on # 0 /\ on' = 0 /\ wire' = [wire EXCEPT ![on] = <<>>]
    /\ UNCHANGED <<panelVars, dials, crossed, agentVars>>

(***************************************************************************)
(* Unpairing, from either side, and pairing again                           *)
(***************************************************************************)

\* The panel's unpair clears the token and closes the registered link.
Revoke ==
    /\ unpairs < MaxUnpairs /\ slot # 0 /\ on = slot /\ sock[slot] = "open"
    /\ sock' = [sock EXCEPT ![slot] = "unpairing"] /\ unpairs' = unpairs + 1
    /\ UNCHANGED <<saved, push, slot, dials, on, wire, crossed, queue, adopting, holds, paired,
                   forgetting, leftover>>

Forget ==
    /\ paired' = FALSE /\ forgetting' = TRUE /\ on' = 0
    /\ wire' = IF on = 0 THEN wire ELSE [wire EXCEPT ![on] = <<>>]

\* onUnpairedByServer, on the socket's thread, after what came before the close.
HearUnpaired ==
    /\ on # 0 /\ sock[on] = "unpairing" /\ wire[on] = <<>> /\ Forget
    /\ UNCHANGED <<panelVars, dials, crossed, queue, adopting, holds, unpairs, leftover>>

\* UnpairCommand, on the console's thread.
Unpair ==
    /\ paired /\ ~forgetting /\ unpairs < MaxUnpairs /\ unpairs' = unpairs + 1 /\ Forget
    /\ UNCHANGED <<panelVars, dials, crossed, queue, adopting, holds, leftover>>

\* The mutant: unpairing leaves the device set alone.
MistakeKeepsDevices ==
    /\ forgetting /\ forgetting' = FALSE
    /\ leftover' = (leftover \/ queue # <<>>)
    /\ UNCHANGED <<panelVars, dials, on, wire, crossed, queue, adopting, holds, paired, unpairs>>

\* applyConfig(List.of()): no device is left; the images are not asked about.
ApplyEmpty ==
    /\ forgetting /\ forgetting' = FALSE
    /\ holds' = [holds EXCEPT !["devices"] = 0]
    /\ leftover' = (leftover \/ queue # <<>>)
    /\ UNCHANGED <<panelVars, dials, on, wire, crossed, queue, adopting, paired, unpairs>>

PairAgain ==
    /\ ~paired /\ ~forgetting /\ paired' = TRUE
    /\ UNCHANGED <<panelVars, dials, on, wire, crossed, queue, adopting, holds, forgetting,
                   unpairs, leftover>>

(***************************************************************************)
(* The agent's frame thread                                                 *)
(***************************************************************************)

\* onText hands the frame over.
Receive ==
    /\ on # 0 /\ wire[on] # <<>>
    /\ wire' = [wire EXCEPT ![on] = Tail(@)] /\ queue' = Append(queue, Head(wire[on]))
    /\ UNCHANGED <<panelVars, dials, on, crossed, adopting, holds, paired, forgetting, unpairs,
                   leftover>>

\* onConfigSync: the images first, then the devices, under applyConfig's monitor.
AdoptImages ==
    /\ queue # <<>> /\ ~adopting /\ adopting' = TRUE
    /\ holds' = [holds EXCEPT !["images"] = Head(queue)["images"]]
    /\ UNCHANGED <<panelVars, dials, on, wire, crossed, queue, paired, forgetting, unpairs, leftover>>

AdoptDevices ==
    /\ adopting /\ adopting' = FALSE /\ queue' = Tail(queue)
    /\ holds' = [holds EXCEPT !["devices"] = Head(queue)["devices"]]
    /\ UNCHANGED <<panelVars, dials, on, wire, crossed, paired, forgetting, unpairs, leftover>>

ConfigNext ==
    \/ \E e \in Edits : Save(e) \/ FindLink(e)
    \/ \E p \in Pushes : ReadDevices(p) \/ ReadImages(p) \/ SendConfig(p)
    \/ Greet \/ Lose \/ Revoke \/ HearUnpaired \/ Unpair \/ ApplyEmpty \/ PairAgain
    \/ \E c \in Links : Closes(c)
    \/ Receive \/ AdoptImages \/ AdoptDevices

ConfigSpec == ConfigInit /\ [][ConfigNext]_configVars

(***************************************************************************)
(* Properties                                                               *)
(***************************************************************************)

\* Nothing about this agent's configuration is under way any more.
AtRest == /\ \A p \in Pushes : push[p].at \in {"idle", "over"}
          /\ \A c \in Links : wire[c] = <<>>
          /\ queue = <<>> /\ ~forgetting

\* "A change saved here and not pushed is the worst kind of bug in this system"
\* (device-service.ts:15): once nothing is under way, an agent that is connected
\* holds exactly what is saved, however edits, connections and adoptions fell;
\* and one that is unpaired drives no printer of the server it was cut off from
\* (FenPOSAgent.java:308-310).  Left out are two pushes on one connection, which
\* may arrive in the other order than they read, the older staying until the next,
\* and a snapshot still waiting for the frame thread when the empty one applied.
ConfigArrives ==
    /\ AtRest /\ slot # 0 /\ on = slot /\ sock[slot] = "open" /\ slot \notin crossed => holds = saved
    /\ ~paired /\ ~forgetting /\ queue = <<>> => holds["devices"] = 0 \/ leftover
=============================================================================
