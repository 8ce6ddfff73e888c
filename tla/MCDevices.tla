------------------------------ MODULE MCDevices ------------------------------
(***************************************************************************)
(* Driving an agent's printers and watching them, on small instances: the   *)
(* wait for the agent's answer to a command, the port the agent acts on, the *)
(* configuration it acts by, and the page that shows it all.  They meet only *)
(* where one part takes any outcome of another: what carrying a command out  *)
(* comes to, when settings are applied, what changes and when.  They share   *)
(* no variable, so a behaviour of one with the others at rest shows all      *)
(* there is to see.                                                         *)
(***************************************************************************)
EXTENDS LinkRequests, SerialPort, AgentConfig, LiveView

VARIABLE part   \* which part this behaviour is about

Init == /\ LinkInit /\ SerialInit /\ ConfigInit /\ LiveInit
        /\ part \in {"link", "port", "config", "live"}

OnLink == part = "link" /\ UNCHANGED <<serialVars, configVars, liveVars, part>> /\ LinkNext
OnPort == part = "port" /\ UNCHANGED <<linkVars, configVars, liveVars, part>> /\ SerialNext
OnConfig == part = "config" /\ UNCHANGED <<linkVars, serialVars, liveVars, part>> /\ ConfigNext
OnLive == part = "live" /\ UNCHANGED <<linkVars, serialVars, configVars, part>> /\ LiveNext

Next == OnLink \/ OnPort \/ OnConfig \/ OnLive

Spec == Init /\ [][Next]_<<linkVars, serialVars, configVars, liveVars, part>>

FairSpec == Spec /\ (part = "port" => SerialFairness)

TypeOK == LinkTypeOK /\ SerialTypeOK /\ ConfigTypeOK /\ LiveTypeOK
=============================================================================
