----------------------------- MODULE AgentProofs -----------------------------
(***************************************************************************)
(* Proofs about two machines of the agent that nothing else drives.         *)
(*                                                                         *)
(* LinkClient: until a start() overtakes an earlier one there is one chain  *)
(* of retries, dials and connections, and a client that nothing disturbs    *)
(* says CONNECTED only of a socket the server took.  TypeOK and the two      *)
(* properties do not carry themselves: a step must also know that only a    *)
(* connection can end, that nothing is under way before the first start(),  *)
(* and whose the socket is.                                                 *)
(*                                                                         *)
(* Markup: the agent's parser and the server's read one grammar, for        *)
(* documents of any length.  The invariant relates what each has open and    *)
(* has on the line, and bounds what the server has forgotten of the line at  *)
(* a break it dropped.                                                      *)
(***************************************************************************)
EXTENDS LinkClient, Markup, SequenceFacts, FiniteSetTheorems

\* A dial that is under way or a connection whose end was not told.
Busy(a) == dial[a] = "dialling" \/ Open(a)

\* Of retries, dials, connections and a start() about to dial there is one at most.
OneAtMost ==
    /\ timers <= 1
    /\ \A a, b \in Dials : Busy(a) /\ Busy(b) => a = b
    /\ timers = 1 \/ console = "starting" => \A a \in Dials : ~Busy(a)
    /\ ~(timers = 1 /\ console = "starting")

\* Only a connection can end, the registry has one that stands and said hello, and
\* none was lost while it was built unless "early" says so.
Ends ==
    /\ \A a \in Dials : dial[a] = "dialling" => ending[a] = "none"
    /\ registered # NoDial => Alive(registered) /\ registered \in greeted
    /\ ~early => \A a \in Dials : dial[a] = "opened" => ending[a] # "told"
    /\ starts >= 1

\* Before the first start() nothing is under way.
Unstarted ==
    identity = 0 /\ ~stopped => timers = 0 /\ console # "starting" /\ \A a \in Dials : dial[a] = "free"

\* The socket is that of the connection that stands, from when the build completes.
SocketIsSet ==
    Undisturbed /\ ~stopped /\ down = "no" =>
        \A a \in Dials : Open(a) /\ dial[a] \in {"set", "up"} => socket = a

\* The inductive invariant.
ClientInv ==
    /\ TypeOK /\ Ends /\ Unstarted
    /\ clean => OneAtMost
    /\ SocketIsSet /\ ReportsWhatItDoes

\* Counted, what OneAtMost says of the dials is what OneChain bounds.
LEMMA OneIsOne == TypeOK /\ OneAtMost => Chains <= 1
<1> SUFFICES ASSUME TypeOK, OneAtMost PROVE Chains <= 1
  OBVIOUS
<1> DEFINE Live == {a \in Dials : dial[a] = "dialling" \/ Open(a)}
<1>1. CASE Live = {}
  <2>1. Cardinality(Live) = 0
    BY <1>1, FS_EmptySet
  <2> QED
    BY <2>1 DEF Chains, OneAtMost, TypeOK
<1>2. CASE Live # {}
  <2>1. PICK a \in Live : TRUE
    BY <1>2
  <2>2. Live = {a}
    BY <2>1 DEF OneAtMost, Busy
  <2>3. Cardinality(Live) = 1
    BY <2>2, FS_Singleton
  <2>4. timers = 0 /\ console # "starting"
    BY <2>1 DEF OneAtMost, Busy, TypeOK
  <2> QED
    BY <2>3, <2>4 DEF Chains
<1> QED
  BY <1>1, <1>2

\* A count of none leaves no retry waiting and no start() about to dial.
LEMMA NoneIsNone ==
    ASSUME TypeOK, Chains = 0, dial = [a \in Dials |-> "free"]
    PROVE  timers = 0 /\ console # "starting"
<1>1. {a \in Dials : dial[a] = "dialling" \/ Open(a)} = {}
  BY DEF Open
<1>2. Cardinality({a \in Dials : dial[a] = "dialling" \/ Open(a)}) = 0
  BY <1>1, FS_EmptySet
<1> QED
  BY <1>2 DEF Chains, TypeOK

\* The agent begins in a state of the invariant.
LEMMA ClientInitInv == Init => ClientInv
<1> SUFFICES ASSUME Init PROVE ClientInv
  OBVIOUS
<1> USE DEF Init
<1>1. 1 \in 0 .. MaxStarts /\ 0 \in 0 .. MaxStarts /\ 0 \in 0 .. MaxCuts /\ 0 \in 0 .. MaxOutages
  BY BoundsAssumption
<1>2. TypeOK
  BY <1>1 DEF TypeOK, Phases, Endings
<1>3. Ends /\ Unstarted /\ OneAtMost
  BY DEF Ends, Unstarted, OneAtMost, Busy, Open
<1>4. SocketIsSet /\ ReportsWhatItDoes
  BY DEF SocketIsSet, ReportsWhatItDoes, Open
<1> QED
  BY <1>2, <1>3, <1>4 DEF ClientInv

\* What connect() makes of the dials.
LEMMA ConnectDials ==
    ASSUME TypeOK, Connect, ~(stopped \/ identity = 0)
    PROVE  \E a \in Dials : /\ dial[a] = "free" /\ socket # a
                            /\ state' = "CONNECTING"
                            /\ dial' = [dial EXCEPT ![a] = "dialling"]
                            /\ token' = [token EXCEPT ![a] = identity]
                            /\ ending' = [ending EXCEPT ![a] = "none"]
                            /\ greeted' = greeted \ {a}
<1>1. (CHOOSE b \in Dials : Unused(b)) \in Dials /\ Unused(CHOOSE b \in Dials : Unused(b))
  BY DEF Connect
<1>2. PICK a \in Dials : a = (CHOOSE b \in Dials : Unused(b)) /\ Unused(a)
  BY <1>1
<1> QED
  BY <1>2 DEF Connect, Unused

\* Every step of the client, the console, the network and the server keeps it.
LEMMA ClientNextInv == ClientInv /\ [Next]_vars => ClientInv'
<1> SUFFICES ASSUME ClientInv, [Next]_vars PROVE ClientInv'
  OBVIOUS
<1>0. /\ TypeOK /\ Ends /\ Unstarted /\ SocketIsSet /\ ReportsWhatItDoes
      /\ clean => OneAtMost
  BY DEF ClientInv
<1> USE <1>0
<1>1. ASSUME Retry
       PROVE  ClientInv'
  <2> USE <1>1 DEF Retry, users, bounds, history
  <2>1. CASE stopped \/ identity = 0
    <3>1. UNCHANGED <<state, dials, greeted>>
      BY <2>1 DEF Connect
    <3> USE <3>1 DEF dials
    <3>2. TypeOK'
      BY DEF TypeOK
    <3>3. Ends' /\ Unstarted'
      BY DEF TypeOK, Ends, Alive, Unstarted
    <3>4. clean' => OneAtMost'
      BY DEF TypeOK, OneAtMost, Busy, Open
    <3>5. SocketIsSet'
      BY DEF SocketIsSet, Undisturbed, Open
    <3>6. ReportsWhatItDoes'
      BY <2>1 DEF TypeOK, Unstarted, ReportsWhatItDoes, Undisturbed, Open
    <3> QED
      BY <3>2, <3>3, <3>4, <3>5, <3>6 DEF ClientInv
  <2>2. CASE ~(stopped \/ identity = 0)
    <3>1. PICK a \in Dials : /\ dial[a] = "free" /\ socket # a
                            /\ state' = "CONNECTING"
                            /\ dial' = [dial EXCEPT ![a] = "dialling"]
                            /\ token' = [token EXCEPT ![a] = identity]
                            /\ ending' = [ending EXCEPT ![a] = "none"]
                            /\ greeted' = greeted \ {a}
      BY <2>2, ConnectDials
    <3>2. /\ dial'[a] = "dialling" /\ ending'[a] = "none"
          /\ \A b \in Dials : b # a => dial'[b] = dial[b] /\ ending'[b] = ending[b]
      BY <3>1 DEF TypeOK
    <3>3. ~Open(a) /\ ~Alive(a) /\ ~Open(a)' /\ Busy(a)'
      BY <3>1, <3>2 DEF Open, Alive, Busy
    <3>4. \A b \in Dials : b # a => (Open(b)' <=> Open(b)) /\ (Busy(b)' <=> Busy(b)) /\ (Alive(b)' <=> Alive(b))
      BY <3>2 DEF Open, Alive, Busy
    <3>5. TypeOK'
      BY <3>1 DEF TypeOK, Phases, Endings
    <3>6. Ends'
      <4>1. registered # a
        BY <3>3, DialsAssumption DEF Ends
      <4>2. registered # NoDial => Alive(registered)' /\ registered \in greeted'
        BY <3>1, <3>4, <4>1 DEF Ends, TypeOK
      <4> QED
        BY <3>2, <4>2 DEF Ends
    <3>7. Unstarted'
      BY <2>2 DEF Unstarted
    <3>8. clean => \A b \in Dials : ~Busy(b)
      BY DEF OneAtMost, TypeOK
    <3>9. clean' => OneAtMost'
      BY <3>2, <3>3, <3>4, <3>8 DEF OneAtMost, TypeOK
    <3>10. SocketIsSet'
      BY <3>2, <3>3, <3>4 DEF SocketIsSet, Undisturbed
    <3>11. ReportsWhatItDoes'
      BY <3>1, <3>2, <3>3, <3>4, <3>8 DEF ReportsWhatItDoes, Undisturbed, Busy
    <3> QED
      BY <3>5, <3>6, <3>7, <3>9, <3>10, <3>11 DEF ClientInv
  <2> QED
    BY <2>1, <2>2
<1>2. ASSUME Redeem
       PROVE  ClientInv'
  <2> USE <1>2 DEF Redeem, client, dials, history
  <2>1. TypeOK'
    BY BoundsAssumption DEF TypeOK, Phases, Endings
  <2>2. Ends'
    BY DEF TypeOK, Ends, Alive
  <2>3. Unstarted'
    BY DEF TypeOK, Unstarted, Open
  <2>4. clean' => OneAtMost'
    BY DEF TypeOK, OneAtMost, Busy, Open, Alive, Ends
  <2>5. SocketIsSet'
    BY DEF TypeOK, SocketIsSet, Undisturbed, Open, Alive, OneAtMost, Busy
  <2>6. ReportsWhatItDoes'
    BY DEF TypeOK, SocketIsSet, ReportsWhatItDoes, Undisturbed, Open, Alive, OneAtMost, Busy, Ends
  <2> QED
    BY <2>1, <2>2, <2>3, <2>4, <2>5, <2>6 DEF ClientInv
<1>3. ASSUME Start
       PROVE  ClientInv'
  <2> USE <1>3 DEF Start, dials, server, bounds
  <2>1. TypeOK'
    BY BoundsAssumption DEF TypeOK, Phases, Endings
  <2>2. Ends'
    BY DEF TypeOK, Ends, Alive
  <2>3. Unstarted'
    BY DEF TypeOK, Unstarted, Ends
  <2>4. clean' => OneAtMost'
    <3>1. ASSUME clean'
          PROVE  OneAtMost'
      <4>1. timers = 0 /\ dial = [a \in Dials |-> "free"]
        BY <3>1, NoneIsNone
      <4> QED
        BY <4>1 DEF OneAtMost, Busy, Open
    <3> QED
      BY <3>1
  <2>5. SocketIsSet'
    BY DEF TypeOK, SocketIsSet, Undisturbed, Open, Alive, OneAtMost, Busy
  <2>6. ReportsWhatItDoes'
    BY DEF TypeOK, SocketIsSet, ReportsWhatItDoes, Undisturbed, Open, Alive, OneAtMost, Busy, Ends
  <2> QED
    BY <2>1, <2>2, <2>3, <2>4, <2>5, <2>6 DEF ClientInv
<1>4. ASSUME StartConnects
       PROVE  ClientInv'
  <2> USE <1>4 DEF StartConnects, users, bounds, history
  <2>1. CASE stopped \/ identity = 0
    <3>1. UNCHANGED <<state, dials, greeted>>
      BY <2>1 DEF Connect
    <3> USE <3>1 DEF dials
    <3>2. TypeOK'
      BY DEF TypeOK
    <3>3. Ends' /\ Unstarted'
      BY DEF TypeOK, Ends, Alive, Unstarted
    <3>4. clean' => OneAtMost'
      BY DEF TypeOK, OneAtMost, Busy, Open
    <3>5. SocketIsSet'
      BY DEF SocketIsSet, Undisturbed, Open
    <3>6. ReportsWhatItDoes'
      BY <2>1 DEF TypeOK, Unstarted, ReportsWhatItDoes, Undisturbed, Open
    <3> QED
      BY <3>2, <3>3, <3>4, <3>5, <3>6 DEF ClientInv
  <2>2. CASE ~(stopped \/ identity = 0)
    <3>1. PICK a \in Dials : /\ dial[a] = "free" /\ socket # a
                            /\ state' = "CONNECTING"
                            /\ dial' = [dial EXCEPT ![a] = "dialling"]
                            /\ token' = [token EXCEPT ![a] = identity]
                            /\ ending' = [ending EXCEPT ![a] = "none"]
                            /\ greeted' = greeted \ {a}
      BY <2>2, ConnectDials
    <3>2. /\ dial'[a] = "dialling" /\ ending'[a] = "none"
          /\ \A b \in Dials : b # a => dial'[b] = dial[b] /\ ending'[b] = ending[b]
      BY <3>1 DEF TypeOK
    <3>3. ~Open(a) /\ ~Alive(a) /\ ~Open(a)' /\ Busy(a)'
      BY <3>1, <3>2 DEF Open, Alive, Busy
    <3>4. \A b \in Dials : b # a => (Open(b)' <=> Open(b)) /\ (Busy(b)' <=> Busy(b)) /\ (Alive(b)' <=> Alive(b))
      BY <3>2 DEF Open, Alive, Busy
    <3>5. TypeOK'
      BY <3>1 DEF TypeOK, Phases, Endings
    <3>6. Ends'
      <4>1. registered # a
        BY <3>3, DialsAssumption DEF Ends
      <4>2. registered # NoDial => Alive(registered)' /\ registered \in greeted'
        BY <3>1, <3>4, <4>1 DEF Ends, TypeOK
      <4> QED
        BY <3>2, <4>2 DEF Ends
    <3>7. Unstarted'
      BY <2>2 DEF Unstarted
    <3>8. clean => \A b \in Dials : ~Busy(b)
      BY DEF OneAtMost, TypeOK
    <3>9. clean' => OneAtMost'
      BY <3>2, <3>3, <3>4, <3>8 DEF OneAtMost, TypeOK
    <3>10. SocketIsSet'
      BY <3>2, <3>3, <3>4 DEF SocketIsSet, Undisturbed
    <3>11. ReportsWhatItDoes'
      BY <3>1, <3>2, <3>3, <3>4, <3>8 DEF ReportsWhatItDoes, Undisturbed, Busy
    <3> QED
      BY <3>5, <3>6, <3>7, <3>9, <3>10, <3>11 DEF ClientInv
  <2> QED
    BY <2>1, <2>2
<1>5. ASSUME Unpair
       PROVE  ClientInv'
  <2> USE <1>5 DEF Unpair, client, dials, server, bounds, history
  <2>1. TypeOK'
    BY BoundsAssumption DEF TypeOK, Phases, Endings
  <2>2. Ends'
    BY DEF TypeOK, Ends, Alive
  <2>3. Unstarted'
    BY DEF TypeOK, Unstarted, Open
  <2>4. clean' => OneAtMost'
    BY DEF TypeOK, OneAtMost, Busy, Open, Alive, Ends
  <2>5. SocketIsSet'
    BY DEF TypeOK, SocketIsSet, Undisturbed, Open, Alive, OneAtMost, Busy
  <2>6. ReportsWhatItDoes'
    BY DEF TypeOK, SocketIsSet, ReportsWhatItDoes, Undisturbed, Open, Alive, OneAtMost, Busy, Ends
  <2> QED
    BY <2>1, <2>2, <2>3, <2>4, <2>5, <2>6 DEF ClientInv
<1>6. ASSUME UnpairStops
       PROVE  ClientInv'
  <2> USE <1>6 DEF UnpairStops, Stop, Gone, bounds, history
  <2>1. TypeOK'
    <3>1. [ending EXCEPT ![socket] = "closed"] \in [Dials -> Endings]
      BY DEF TypeOK, Endings
    <3>2. ending' \in [Dials -> Endings] /\ registered' \in Dials \cup {NoDial}
      BY <3>1 DEF TypeOK
    <3> QED
      BY <3>2, BoundsAssumption DEF TypeOK
  <2>2. Ends'
    BY DEF TypeOK, Ends, Alive
  <2>3. Unstarted'
    BY DEF TypeOK, Unstarted, Open
  <2>4. clean' => OneAtMost'
    BY DEF TypeOK, OneAtMost, Busy, Open, Alive, Ends
  <2>5. SocketIsSet'
    BY DEF TypeOK, SocketIsSet, Undisturbed, Open, Alive, OneAtMost, Busy
  <2>6. ReportsWhatItDoes'
    BY DEF TypeOK, SocketIsSet, ReportsWhatItDoes, Undisturbed, Open, Alive, OneAtMost, Busy, Ends
  <2> QED
    BY <2>1, <2>2, <2>3, <2>4, <2>5, <2>6 DEF ClientInv
<1>7. ASSUME ForgetPairing
       PROVE  ClientInv'
  <2> USE <1>7 DEF ForgetPairing, client, dials, server, bounds, history
  <2>1. TypeOK'
    <3>1. stored' \in 0 .. MaxStarts
      BY BoundsAssumption
    <3>2. forgetting' \in BOOLEAN
      OBVIOUS
    <3> QED
      BY <3>1, <3>2 DEF TypeOK
  <2>2. Ends'
    BY DEF TypeOK, Ends, Alive
  <2>3. Unstarted'
    BY DEF TypeOK, Unstarted, Open
  <2>4. clean' => OneAtMost'
    BY DEF TypeOK, OneAtMost, Busy, Open, Alive, Ends
  <2>5. SocketIsSet'
    BY DEF TypeOK, SocketIsSet, Undisturbed, Open, Alive, OneAtMost, Busy
  <2>6. ReportsWhatItDoes'
    BY DEF TypeOK, SocketIsSet, ReportsWhatItDoes, Undisturbed, Open, Alive, OneAtMost, Busy, Ends
  <2> QED
    BY <2>1, <2>2, <2>3, <2>4, <2>5, <2>6 DEF ClientInv
<1>8. ASSUME ShutDown
       PROVE  ClientInv'
  <2> USE <1>8 DEF ShutDown, Stop, Gone, bounds, history
  <2>1. TypeOK'
    <3>1. [ending EXCEPT ![socket] = "closed"] \in [Dials -> Endings]
      BY DEF TypeOK, Endings
    <3>2. ending' \in [Dials -> Endings] /\ registered' \in Dials \cup {NoDial}
      BY <3>1 DEF TypeOK
    <3> QED
      BY <3>2, BoundsAssumption DEF TypeOK
  <2>2. Ends'
    BY DEF TypeOK, Ends, Alive
  <2>3. Unstarted'
    BY DEF TypeOK, Unstarted, Open
  <2>4. clean' => OneAtMost'
    BY DEF TypeOK, OneAtMost, Busy, Open, Alive, Ends
  <2>5. SocketIsSet'
    BY DEF TypeOK, SocketIsSet, Undisturbed, Open, Alive, OneAtMost, Busy
  <2>6. ReportsWhatItDoes'
    BY DEF TypeOK, SocketIsSet, ReportsWhatItDoes, Undisturbed, Open, Alive, OneAtMost, Busy, Ends
  <2> QED
    BY <2>1, <2>2, <2>3, <2>4, <2>5, <2>6 DEF ClientInv
<1>9. ASSUME ShutDownScheduler
       PROVE  ClientInv'
  <2> USE <1>9 DEF ShutDownScheduler, dials, server, bounds, history
  <2>1. TypeOK'
    BY DEF TypeOK, Phases, Endings
  <2>2. Ends'
    BY DEF TypeOK, Ends, Alive
  <2>3. Unstarted'
    BY DEF TypeOK, Unstarted, Open
  <2>4. clean' => OneAtMost'
    BY DEF TypeOK, OneAtMost, Busy, Open, Alive, Ends
  <2>5. SocketIsSet'
    BY DEF TypeOK, SocketIsSet, Undisturbed, Open, Alive, OneAtMost, Busy
  <2>6. ReportsWhatItDoes'
    BY DEF TypeOK, SocketIsSet, ReportsWhatItDoes, Undisturbed, Open, Alive, OneAtMost, Busy, Ends
  <2> QED
    BY <2>1, <2>2, <2>3, <2>4, <2>5, <2>6 DEF ClientInv
<1>10. ASSUME Revoke
        PROVE  ClientInv'
  <2> USE <1>10 DEF Revoke, client, users, bounds, history
  <2>1. TypeOK'
    BY BoundsAssumption DEF TypeOK, Phases, Endings
  <2>2. Ends'
    BY DEF TypeOK, Ends, Alive
  <2>3. Unstarted'
    BY DEF TypeOK, Unstarted, Open
  <2>4. clean' => OneAtMost'
    BY DEF TypeOK, OneAtMost, Busy, Open, Alive, Ends
  <2>5. SocketIsSet'
    <3>1. \A b \in Dials : Open(b)' => Open(b)
      BY DEF TypeOK, Open, Ends, Alive
    <3> QED
      BY <3>1 DEF SocketIsSet, Undisturbed
  <2>6. ReportsWhatItDoes'
    BY DEF TypeOK, SocketIsSet, ReportsWhatItDoes, Undisturbed, Open, Alive, OneAtMost, Busy, Ends
  <2> QED
    BY <2>1, <2>2, <2>3, <2>4, <2>5, <2>6 DEF ClientInv
<1>11. ASSUME Outage
        PROVE  ClientInv'
  <2> USE <1>11 DEF Outage, client, dials, users, history
  <2>1. TypeOK'
    <3>1. outages' \in 0 .. MaxOutages
      BY BoundsAssumption DEF TypeOK
    <3>2. reachable' \in BOOLEAN
      OBVIOUS
    <3> QED
      BY <3>1, <3>2 DEF TypeOK
  <2>2. Ends'
    BY DEF TypeOK, Ends, Alive
  <2>3. Unstarted'
    BY DEF TypeOK, Unstarted, Open
  <2>4. clean' => OneAtMost'
    BY DEF TypeOK, OneAtMost, Busy, Open, Alive, Ends
  <2>5. SocketIsSet'
    BY DEF TypeOK, SocketIsSet, Undisturbed, Open, Alive, OneAtMost, Busy
  <2>6. ReportsWhatItDoes'
    BY DEF TypeOK, SocketIsSet, ReportsWhatItDoes, Undisturbed, Open, Alive, OneAtMost, Busy, Ends
  <2> QED
    BY <2>1, <2>2, <2>3, <2>4, <2>5, <2>6 DEF ClientInv
<1>12. ASSUME BackInReach
        PROVE  ClientInv'
  <2> USE <1>12 DEF BackInReach, client, dials, users, bounds, history
  <2>1. TypeOK'
    BY DEF TypeOK, Phases, Endings
  <2>2. Ends'
    BY DEF TypeOK, Ends, Alive
  <2>3. Unstarted'
    BY DEF TypeOK, Unstarted, Open
  <2>4. clean' => OneAtMost'
    BY DEF TypeOK, OneAtMost, Busy, Open, Alive, Ends
  <2>5. SocketIsSet'
    BY DEF TypeOK, SocketIsSet, Undisturbed, Open, Alive, OneAtMost, Busy
  <2>6. ReportsWhatItDoes'
    BY DEF TypeOK, SocketIsSet, ReportsWhatItDoes, Undisturbed, Open, Alive, OneAtMost, Busy, Ends
  <2> QED
    BY <2>1, <2>2, <2>3, <2>4, <2>5, <2>6 DEF ClientInv
<1>13. ASSUME NEW a \in Dials, Opened(a)
        PROVE  ClientInv'
  <2> USE <1>13 DEF Opened, users, server, bounds, history
  <2>1. TypeOK'
    BY DEF TypeOK, Phases, Endings
  <2>2. Ends'
    BY DEF TypeOK, Ends, Alive
  <2>3. Unstarted'
    BY DEF TypeOK, Unstarted, Open
  <2>4. clean' => OneAtMost'
    BY DEF TypeOK, OneAtMost, Busy, Open, Alive, Ends
  <2>5. SocketIsSet'
    BY DEF TypeOK, SocketIsSet, Undisturbed, Open, Alive, OneAtMost, Busy
  <2>6. ReportsWhatItDoes'
    BY DEF TypeOK, SocketIsSet, ReportsWhatItDoes, Undisturbed, Open, Alive, OneAtMost, Busy, Ends
  <2> QED
    BY <2>1, <2>2, <2>3, <2>4, <2>5, <2>6 DEF ClientInv
<1>14. ASSUME NEW a \in Dials, DialFails(a)
        PROVE  ClientInv'
  <2> USE <1>14 DEF DialFails, ScheduleReconnect, users, server, bounds, history
  <2>1. TypeOK'
    BY DEF TypeOK, Phases, Endings
  <2>2. Ends'
    BY DEF TypeOK, Ends, Alive
  <2>3. Unstarted'
    BY DEF TypeOK, Unstarted, Open
  <2>4. clean' => OneAtMost'
    BY DEF TypeOK, OneAtMost, Busy, Open, Alive, Ends
  <2>5. SocketIsSet'
    BY DEF TypeOK, SocketIsSet, Undisturbed, Open, Alive, OneAtMost, Busy
  <2>6. ReportsWhatItDoes'
    BY DEF TypeOK, SocketIsSet, ReportsWhatItDoes, Undisturbed, Open, Alive, OneAtMost, Busy, Ends
  <2> QED
    BY <2>1, <2>2, <2>3, <2>4, <2>5, <2>6 DEF ClientInv
<1>15. ASSUME NEW a \in Dials, Establish(a)
        PROVE  ClientInv'
  <2> USE <1>15 DEF Establish, users, server, bounds, history
  <2>1. TypeOK'
    BY DEF TypeOK, Phases, Endings
  <2>2. Ends'
    BY DEF TypeOK, Ends, Alive
  <2>3. Unstarted'
    BY DEF TypeOK, Unstarted, Open
  <2>4. clean' => OneAtMost'
    BY DEF TypeOK, OneAtMost, Busy, Open, Alive, Ends
  <2>5. SocketIsSet'
    <3>1. \A b \in Dials : Open(b)' <=> Open(b)
      BY DEF TypeOK, Open
    <3>2. Undisturbed => \A b \in Dials : Open(b) /\ b # a => ~Open(a)
      BY DEF OneAtMost, Undisturbed, Busy
    <3>3. ASSUME Undisturbed, ~stopped, down = "no", NEW b \in Dials, Open(b)', dial'[b] \in {"set", "up"}
          PROVE  socket' = b
      <4>1. CASE b = a
        BY <4>1
      <4>2. CASE b # a
        <5>1. dial'[b] = dial[b] /\ ~Open(a)
          BY <3>1, <3>2, <3>3, <4>2 DEF TypeOK
        <5>2. dial[a] = "opened" /\ ending[a] = "told"
          BY <5>1 DEF Open
        <5> QED
          BY <3>3, <5>2 DEF Ends, Undisturbed
      <4> QED
        BY <4>1, <4>2
    <3> QED
      BY <3>3 DEF SocketIsSet, Undisturbed
  <2>6. ReportsWhatItDoes'
    BY DEF TypeOK, SocketIsSet, ReportsWhatItDoes, Undisturbed, Open, Alive, OneAtMost, Busy, Ends
  <2> QED
    BY <2>1, <2>2, <2>3, <2>4, <2>5, <2>6 DEF ClientInv
<1>16. ASSUME NEW a \in Dials, SayHello(a)
        PROVE  ClientInv'
  <2> USE <1>16 DEF SayHello, Greet, client, users, bounds, history
  <2>1. TypeOK'
    BY DEF TypeOK, Phases, Endings
  <2>2. Ends'
    <3>1. \A b \in Dials : dial'[b] = "dialling" => dial[b] = "dialling"
      BY DEF TypeOK
    <3>2. \A b \in Dials : ending'[b] = ending[b] \/ (b = registered /\ ending'[b] = "closed")
      BY DEF TypeOK
    <3>3. \A b \in Dials : dial'[b] = "opened" => dial[b] = "opened"
      BY DEF TypeOK
    <3>4. \A b \in Dials : Alive(b) /\ ending'[b] = ending[b] => Alive(b)'
      BY DEF TypeOK, Alive
    <3>5. CASE UNCHANGED <<greeted, registered, ending>>
      BY <3>1, <3>3, <3>4, <3>5 DEF Ends, TypeOK
    <3>6. CASE socket # NoDial /\ Alive(socket) /\ socket \notin greeted
      <4>1. socket \in Dials /\ socket # registered /\ registered' = socket /\ greeted' = greeted \cup {socket}
        BY <3>6 DEF Ends, TypeOK
      <4>2. ending'[socket] = ending[socket]
        BY <3>2, <4>1
      <4>3. registered # NoDial => Alive(registered) /\ registered \in Dials
        BY DEF Ends, TypeOK
      <4>4. \A b \in Dials : dial[b] = "dialling" => b # registered
        BY <4>3, DialsAssumption DEF Alive
      <4>5. \A b \in Dials : dial'[b] = "dialling" => ending'[b] = "none"
        BY <3>1, <3>2, <4>4 DEF Ends
      <4>6. ~early => \A b \in Dials : dial'[b] = "opened" => ending'[b] # "told"
        BY <3>2, <3>3 DEF Ends
      <4> QED
        BY <3>4, <3>6, <4>1, <4>2, <4>5, <4>6 DEF Ends
    <3> QED
      BY <3>5, <3>6
  <2>3. Unstarted'
    BY DEF TypeOK, Unstarted, Open
  <2>4. clean' => OneAtMost'
    BY DEF TypeOK, OneAtMost, Busy, Open, Alive, Ends
  <2>5. SocketIsSet'
    <3>1. \A b \in Dials : Open(b)' => Open(b)
      <4>1. \A b \in Dials : ending'[b] = ending[b] \/ (b = registered /\ ending[b] = "none")
        BY DEF TypeOK, Ends, Alive
      <4> QED
        BY <4>1 DEF TypeOK, Open
    <3>2. \A b \in Dials : Open(b)' /\ dial'[b] \in {"set", "up"} => dial[b] \in {"set", "up"}
      BY DEF TypeOK, Open
    <3> QED
      BY <3>1, <3>2 DEF SocketIsSet, Undisturbed
  <2>6. ReportsWhatItDoes'
    BY DEF TypeOK, SocketIsSet, ReportsWhatItDoes, Undisturbed, Open, Alive, OneAtMost, Busy, Ends
  <2> QED
    BY <2>1, <2>2, <2>3, <2>4, <2>5, <2>6 DEF ClientInv
<1>17. ASSUME NEW a \in Dials, OnDisconnected(a)
        PROVE  ClientInv'
  <2> USE <1>17 DEF OnDisconnected, ScheduleReconnect, Heard, AlreadyHandled, users, server, bounds
  <2>1. TypeOK'
    BY DEF TypeOK, Phases, Endings
  <2>2. Ends'
    BY DEF TypeOK, Ends, Alive
  <2>3. Unstarted'
    BY DEF TypeOK, Unstarted, Open
  <2>4. clean' => OneAtMost'
    BY DEF TypeOK, OneAtMost, Busy, Open, Alive, Ends
  <2>5. SocketIsSet'
    BY DEF TypeOK, SocketIsSet, Undisturbed, Open, Alive, OneAtMost, Busy
  <2>6. ReportsWhatItDoes'
    <3>1. /\ dial[a] \in {"opened", "set", "up"} /\ dial'[a] # "dialling"
          /\ dial'[a] = "free" \/ ending'[a] = "told"
          /\ \A b \in Dials : b # a => dial'[b] = dial[b] /\ ending'[b] = ending[b]
      BY DEF Open, TypeOK
    <3>2. ~Open(a)' /\ \A b \in Dials : b # a => (Open(b)' <=> Open(b)) /\ (Busy(b)' <=> Busy(b))
      BY <3>1 DEF Open, Busy
    <3>3. ASSUME Undisturbed', ~stopped', down' = "no", console' # "starting"
          PROVE  state' = "CONNECTING" /\ timers' > 0 /\ \A b \in Dials : ~Open(b)'
      <4>1. Undisturbed /\ dial[a] # "opened"
        BY <3>3 DEF Undisturbed
      <4>2. socket = a /\ socket # NoDial
        BY <3>1, <3>3, <4>1, DialsAssumption DEF SocketIsSet
      <4>3. state' = "CONNECTING" /\ timers' = timers + 1
        BY <3>3, <4>2
      <4>4. \A b \in Dials : Open(b) => b = a
        BY <4>1 DEF Undisturbed, OneAtMost, Busy
      <4> QED
        BY <3>2, <4>3, <4>4 DEF TypeOK
    <3> QED
      BY <3>3 DEF ReportsWhatItDoes
  <2> QED
    BY <2>1, <2>2, <2>3, <2>4, <2>5, <2>6 DEF ClientInv
<1>18. ASSUME NEW a \in Dials, OnUnpairedByServer(a)
        PROVE  ClientInv'
  <2> USE <1>18 DEF OnUnpairedByServer, Heard, server, bounds
  <2>1. TypeOK'
    BY BoundsAssumption DEF TypeOK, Phases, Endings
  <2>2. Ends'
    BY DEF TypeOK, Ends, Alive
  <2>3. Unstarted'
    BY DEF TypeOK, Unstarted, Open
  <2>4. clean' => OneAtMost'
    BY DEF TypeOK, OneAtMost, Busy, Open, Alive, Ends
  <2>5. SocketIsSet'
    BY DEF TypeOK, SocketIsSet, Undisturbed, Open, Alive, OneAtMost, Busy
  <2>6. ReportsWhatItDoes'
    BY DEF TypeOK, SocketIsSet, ReportsWhatItDoes, Undisturbed, Open, Alive, OneAtMost, Busy, Ends
  <2> QED
    BY <2>1, <2>2, <2>3, <2>4, <2>5, <2>6 DEF ClientInv
<1>19. ASSUME NEW a \in Dials, HandshakeTimeout(a)
        PROVE  ClientInv'
  <2> USE <1>19 DEF HandshakeTimeout, client, users, server, bounds, history
  <2>1. TypeOK'
    BY DEF TypeOK, Phases, Endings
  <2>2. Ends'
    BY DEF TypeOK, Ends, Alive
  <2>3. Unstarted'
    BY DEF TypeOK, Unstarted, Open
  <2>4. clean' => OneAtMost'
    BY DEF TypeOK, OneAtMost, Busy, Open, Alive, Ends
  <2>5. SocketIsSet'
    BY DEF TypeOK, SocketIsSet, Undisturbed, Open, Alive, OneAtMost, Busy
  <2>6. ReportsWhatItDoes'
    BY DEF TypeOK, SocketIsSet, ReportsWhatItDoes, Undisturbed, Open, Alive, OneAtMost, Busy, Ends
  <2> QED
    BY <2>1, <2>2, <2>3, <2>4, <2>5, <2>6 DEF ClientInv
<1>20. ASSUME NEW a \in Dials, Cut(a)
        PROVE  ClientInv'
  <2> USE <1>20 DEF Cut, Gone, client, users, history
  <2>1. TypeOK'
    BY BoundsAssumption DEF TypeOK, Phases, Endings
  <2>2. Ends'
    BY DEF TypeOK, Ends, Alive
  <2>3. Unstarted'
    BY DEF TypeOK, Unstarted, Open
  <2>4. clean' => OneAtMost'
    BY DEF TypeOK, OneAtMost, Busy, Open, Alive, Ends
  <2>5. SocketIsSet'
    BY DEF TypeOK, SocketIsSet, Undisturbed, Open, Alive, OneAtMost, Busy
  <2>6. ReportsWhatItDoes'
    BY DEF TypeOK, SocketIsSet, ReportsWhatItDoes, Undisturbed, Open, Alive, OneAtMost, Busy, Ends
  <2> QED
    BY <2>1, <2>2, <2>3, <2>4, <2>5, <2>6 DEF ClientInv
<1>21. CASE UNCHANGED vars
  BY <1>21 DEF ClientInv, TypeOK, Ends, Unstarted, SocketIsSet, ReportsWhatItDoes, OneAtMost,
               Busy, Open, Alive, Undisturbed, vars, client, dials, users, server, bounds, history
<1> QED
  BY <1>1, <1>2, <1>3, <1>4, <1>5, <1>6, <1>7, <1>8, <1>9, <1>10, <1>11,
     <1>12, <1>13, <1>14, <1>15, <1>16, <1>17, <1>18, <1>19, <1>20, <1>21 DEF Next

\* The fields of the client and the dials stay as the invariant says, in every run.
THEOREM ClientStaysSound == Spec => []ClientInv
<1> QED
  BY ClientInitInv, ClientNextInv, PTL DEF Spec

\* Until a start() finds an earlier dial or retry alive, LinkClient never has two
\* of a waiting retry, a dial and a connection whose loss it would act on.
THEOREM ChainStaysOne == Spec => []OneChain
<1>1. ClientInv => OneChain
  BY OneIsOne DEF ClientInv, OneChain
<1> QED
  BY <1>1, ClientStaysSound, PTL

\* A client nothing disturbs says CONNECTED exactly while a connection stands, and
\* CONNECTING exactly while a dial or a retry is under way.
THEOREM ReportsStayTrue == Spec => []ReportsWhatItDoes
<1>1. ClientInv => ReportsWhatItDoes
  BY DEF ClientInv
<1> QED
  BY <1>1, ClientStaysSound, PTL

-----------------------------------------------------------------------------
(* The grammar: what both parsers know of a document half read.             *)

\* What may be open, and what may stand on a printed line.
Tags         == Scopes \cup Symbols \cup Regions
TagStyles    == [bold : BOOLEAN, size : {"normal", "wide", "tall"}]
PrintedCells == [what : {"space", "text", "fill"}, style : TagStyles]
\* What may stand beside the cells of a printed line.
Printable    == Symbols \cup {"hr", "cut", "drawer", "bar"} \cup (Regions \ SharesALine)
\* What the server keeps of a line being written, and the printed line itself.
LineStates ==
    [content : BOOLEAN, textSeen : BOOLEAN, fills : BOOLEAN, printing : {0, 1, 2}, alignSeen : BOOLEAN,
     wrapSeen : BOOLEAN, sole : BOOLEAN, closed : {"no", "align", "wrap", "block"}, spaceOnly : BOOLEAN,
     blockSeen : BOOLEAN]
PrintedLines ==
    [align : Aligns \cup {"none"}, wrap : Wraps \cup {"none"}, cells : Seq(PrintedCells),
     directives : Seq(Printable), hushed : BOOLEAN, late : BOOLEAN]
Trees == [frames : Seq(Tags), owners : Seq(LineStates), line : PrintedLines]

\* The innermost of the open tags, and those that are regions.
TopOf(tags)  == IF tags = <<>> THEN "none" ELSE Last(tags)
RegsOf(tags) == {i \in DOMAIN tags : tags[i] \in Regions}

\* As many line states as regions, and what needs a parent has one; what is open above
\* a region of the printed line was opened beside spaces only, and nothing in a symbol.
Nested(t) ==
    /\ Len(t.owners) = Cardinality(RegsOf(t.frames)) + 1
    /\ \A i \in DOMAIN t.frames : t.frames[i] \in SharesALine => \E j \in RegsOf(t.frames) : j < i
    /\ Len(t.owners) > 1 => t.owners[1].spaceOnly
    /\ \A i \in DOMAIN t.frames : t.frames[i] \in Symbols =>
          i = Len(t.frames) /\ Len(t.owners) = 1 /\ t.owners[1].sole /\ t.owners[1].closed = "no"

\* What the server remembers of the printed line.
Pairs(line) == \E i, j \in DOMAIN line.directives :
                  i # j /\ line.directives[i] # "drawer" /\ line.directives[j] # "drawer"
Has(line, kinds) == \E i \in DOMAIN line.directives : line.directives[i] \in kinds
Recalls(p, line) ==
    /\ line.cells # <<>> => p.textSeen \/ p.fills
    /\ line.cells # <<>> \/ line.directives # <<>> => p.content
    /\ p.printing = 0 => ~Has(line, Printable \ {"drawer"})
    /\ p.printing < 2 => ~Pairs(line)
    /\ Has(line, Symbols \cup {"hr"}) => p.sole
    /\ p.spaceOnly => line.directives = <<>> /\ Blank(line)
    /\ Has(line, Regions) => p.closed # "no" /\ Blank(line) /\ ~Pairs(line)
\* Unless a dropped break hushed it, that is the whole of the line.
LineKept(t) == ~t.line.hushed => Recalls(t.owners[1], t.line) /\ ~t.line.late

\* The console's half.
Consoles ==
    [known : BOOLEAN, open : Seq([tag : Scopes \cup Symbols, style : TagStyles]), style : TagStyles,
     align : Aligns \cup {"none"}, wrap : Wraps \cup {"none"}, alignSeen : BOOLEAN, wrapSeen : BOOLEAN,
     resetAlign : BOOLEAN, resetWrap : BOOLEAN, closed : BOOLEAN, block : BOOLEAN, sole : BOOLEAN,
     cells : Seq(PrintedCells), pending : Seq(PrintedCells), directives : Seq({"hr", "cut"} \cup Symbols)]

\* The same tags are open, line owners outermost and a symbol innermost, and each was
\* opened in the style of those around it.
SameTags(t, c) ==
    /\ RegsOf(t.frames) = {}
    /\ Len(c.open) = Len(t.frames)
    /\ \A i \in DOMAIN t.frames :
          /\ c.open[i].tag = t.frames[i]
          /\ c.open[i].style = StyleOf(SubSeq(t.frames, 1, i - 1))
          /\ t.frames[i] \in Aligns \cup Wraps => \A j \in 1 .. i - 1 : t.frames[j] \in Aligns \cup Wraps
    /\ c.style = StyleOf(t.frames)
    /\ c.block <=> TopOf(t.frames) \in Symbols

\* The same line is in hand.
SameLine(t, c) ==
    /\ t.line.align = c.align /\ t.line.wrap = c.wrap
    /\ t.line.cells = c.cells \o c.pending /\ t.line.directives = c.directives
    /\ \A i \in DOMAIN c.pending : c.pending[i].style = c.style

\* A property of the whole line, its tag and whether it ends with the line.
Scoped(tags, kinds, seen, value, reset, closed) ==
    /\ seen <=> \E i \in DOMAIN tags : tags[i] \in kinds
    /\ \A i \in DOMAIN tags : tags[i] \in kinds => tags[i] = value
    /\ \A i, j \in DOMAIN tags : tags[i] \in kinds /\ tags[j] \in kinds => i = j
    /\ reset => closed /\ ~seen
    /\ ~seen /\ ~reset => value = "none"

\* The server remembers nothing of the line that the console does not see.
Trails(p, line, c) ==
    /\ p.closed # "no" => c.closed /\ p.closed # "block"
    /\ p.alignSeen => c.alignSeen \/ c.closed
    /\ p.wrapSeen => c.wrapSeen \/ c.closed
    /\ p.textSeen \/ p.fills => line.cells # <<>>
    /\ p.content => line.cells # <<>> \/ line.directives # <<>>
    /\ p.printing > 0 => line.directives # <<>>
    /\ p.printing > 1 => Len(line.directives) > 1
    /\ p.sole => c.block \/ (c.sole /\ p.printing > 0)
    /\ c.sole => Has(line, Symbols \cup {"hr"})
\* Nothing follows a scope of the whole line, which the server may have forgotten at a
\* break it dropped; then the next tag closes another.
Closed(t, c, last, next) ==
    c.closed =>
        /\ last # "open" /\ \A i \in DOMAIN t.frames : t.frames[i] \in Aligns \cup Wraps
        /\ t.owners[1].closed = "no" => t.line.hushed \/ (next = "close" /\ t.frames # <<>>)

\* All of it, where the console has known every token; and the invariant of a reading.
KnownInv(t, c, last, next) ==
    /\ SameTags(t, c) /\ SameLine(t, c)
    /\ Scoped(t.frames, Aligns, c.alignSeen, c.align, c.resetAlign, c.closed)
    /\ Scoped(t.frames, Wraps, c.wrapSeen, c.wrap, c.resetWrap, c.closed)
    /\ Trails(t.owners[1], t.line, c) /\ Closed(t, c, last, next)
ServerInv(t) == t \in Trees /\ t.owners # <<>> /\ Nested(t) /\ LineKept(t)
ReadInv ==
    /\ words \in DOMAIN Vocabularies
    /\ ServerInv(tree) /\ (before = "open" => Top \in Scopes)
    /\ parser \in Consoles /\ (parser.known => KnownInv(tree, parser, before, due))

\* The verdicts, as OneGrammar states them.
AloneIn(c) == c.sole => c.cells \o c.pending = <<>> /\ Len(c.directives) = 1
Verdicts ==
    /\ ruled.server = "refused" /\ ruled.agent = "taken" => FillsOnly(tree.line) \/ ~AloneIn(parser)
    /\ ruled.server = "taken" /\ ruled.agent = "refused" => tree.line.hushed \/ ended.hushed
    /\ ended.shared /\ ruled.server # "refused" => ended.hushed
\* The invariant is asked for only while the document is read.
GrammarInv == (Reading => ReadInv) /\ Verdicts

\* The style of a text is that of the tags around it, taken one by one.
LEMMA StyleRuns ==
    ASSUME NEW s \in Seq(Tags)
    PROVE  \E c \in [0 .. Len(s) -> TagStyles] :
              /\ c[0] = Plainly /\ StyleOf(s) = c[Len(s)]
              /\ \A k \in 1 .. Len(s) : c[k] = IF s[k] \in Styles THEN Patch(c[k - 1], s[k]) ELSE c[k - 1]
<1> DEFINE X == TagStyles
           Step(x, k) == IF s[k] \in Styles THEN Patch(x, s[k]) ELSE x
           G == [p \in (1 .. Len(s)) \X X |-> Step(p[2], p[1])]
<1>1. Len(s) \in Nat
  BY LenProperties
<1>2. G \in [(1 .. Len(s)) \X X -> X]
  <2>1. ASSUME NEW k \in 1 .. Len(s), NEW x \in X PROVE Step(x, k) \in X
    BY DEF Styles, Patch, TagStyles
  <2> HIDE DEF Step, X
  <2> QED
    BY <1>1, <2>1
<1>3. Plainly \in X
  BY DEF Plainly, TagStyles
<1>4. PICK c : IsRun(c, X, Plainly, Len(s), G)
  <2> HIDE DEF G, X
  <2> QED
    BY <1>1, <1>2, <1>3, RunExists
<1>5. c \in [0 .. Len(s) -> X] /\ c[0] = Plainly /\ \A k \in 1 .. Len(s) : c[k] = G[<<k, c[k - 1]>>]
  BY <1>4 DEF IsRun
<1> HIDE DEF X, Step
<1>6. ASSUME NEW k \in 1 .. Len(s)
      PROVE  c[k] = Step(c[k - 1], k)
  <2>1. k - 1 \in 0 .. Len(s)
    BY <1>1
  <2>2. <<k, c[k - 1]>> \in (1 .. Len(s)) \X X
    BY <1>5, <2>1
  <2>3. G[<<k, c[k - 1]>>] = Step(c[k - 1], k)
    BY <2>2
  <2> HIDE DEF G
  <2> QED
    BY <1>5, <2>3
<1> HIDE DEF G
<1> DEFINE Run(g) == g = [n \in 0 .. Len(s) |-> IF n = 0 THEN Plainly ELSE Step(g[n - 1], n)]
<1>7. Run(c)
  <2>1. \A n \in 0 .. Len(s) : c[n] = IF n = 0 THEN Plainly ELSE Step(c[n - 1], n)
    <3> SUFFICES ASSUME NEW n \in 0 .. Len(s)
                 PROVE  c[n] = IF n = 0 THEN Plainly ELSE Step(c[n - 1], n)
      OBVIOUS
    <3>1. n = 0 \/ (n \in 1 .. Len(s) /\ n # 0)
      BY <1>1
    <3> QED
      BY <1>5, <1>6, <3>1
  <2>2. c = [n \in 0 .. Len(s) |-> c[n]]
    BY <1>5
  <2> QED
    BY <2>1, <2>2
<1> DEFINE u == CHOOSE g : Run(g)
<1>8. Run(u)
  <2> HIDE DEF Run
  <2> QED
    BY <1>7
<1>9. StyleOf(s) = u[Len(s)]
  BY DEF StyleOf, Step
<1> HIDE DEF u
<1>10. u[0] = Plainly /\ \A k \in 1 .. Len(s) : u[k] = Step(u[k - 1], k)
  <2>1. ASSUME NEW n \in 0 .. Len(s)
        PROVE  u[n] = IF n = 0 THEN Plainly ELSE Step(u[n - 1], n)
    BY <1>8, Zenon
  <2>2. 0 \in 0 .. Len(s) /\ \A k \in 1 .. Len(s) : k \in 0 .. Len(s) /\ k # 0
    BY <1>1
  <2> HIDE DEF Run
  <2> QED
    BY ONLY <2>1, <2>2, Zenon
<1> HIDE DEF Run
<1>11. Alike(c, u, Len(s))
  <2>1. GoAlike(c, u, Len(s))
    BY <1>5, <1>6, <1>10 DEF GoAlike
  <2> QED
    BY <1>1, <2>1, RunsAgree
<1>12. c[Len(s)] = u[Len(s)]
  <2>1. Len(s) \in 0 .. Len(s)
    BY <1>1
  <2> QED
    BY ONLY <2>1, <1>11 DEF Alike
<1> QED
  BY <1>5, <1>6, <1>9, <1>12 DEF X, Step

\* One tag more patches the style, if it is one of style.
LEMMA StyleGrows ==
    ASSUME NEW s \in Seq(Tags), NEW tag \in Tags
    PROVE  /\ StyleOf(<<>>) = Plainly /\ StyleOf(s) \in TagStyles
           /\ StyleOf(Append(s, tag)) = IF tag \in Styles THEN Patch(StyleOf(s), tag) ELSE StyleOf(s)
<1>1. StyleOf(<<>>) = Plainly
  <2>1. <<>> \in Seq(Tags) /\ Len(<<>>) = 0
    OBVIOUS
  <2>2. PICK c \in [0 .. Len(<<>>) -> TagStyles] : c[0] = Plainly /\ StyleOf(<<>>) = c[Len(<<>>)]
    BY <2>1, StyleRuns
  <2> QED
    BY <2>1, <2>2
<1> DEFINE t == Append(s, tag)
<1>2. /\ t \in Seq(Tags) /\ Len(t) = Len(s) + 1 /\ Len(s) \in Nat /\ t[Len(s) + 1] = tag
      /\ \A k \in 1 .. Len(s) : t[k] = s[k]
  BY AppendProperties, LenProperties
<1> HIDE DEF t
<1> DEFINE Step(x, e) == IF e \in Styles THEN Patch(x, e) ELSE x
<1>3. PICK c \in [0 .. Len(s) -> TagStyles] :
          /\ c[0] = Plainly /\ StyleOf(s) = c[Len(s)]
          /\ \A k \in 1 .. Len(s) : c[k] = Step(c[k - 1], s[k])
  BY StyleRuns
<1>4. PICK d \in [0 .. Len(t) -> TagStyles] :
          /\ d[0] = Plainly /\ StyleOf(t) = d[Len(t)]
          /\ \A k \in 1 .. Len(t) : d[k] = Step(d[k - 1], t[k])
  BY <1>2, StyleRuns
<1> HIDE DEF Step
<1>5. Alike(c, d, Len(s))
  <2>1. GoAlike(c, d, Len(s))
    <3> SUFFICES ASSUME NEW k \in 1 .. Len(s), c[k - 1] = d[k - 1] PROVE c[k] = d[k]
      BY <1>3, <1>4 DEF GoAlike
    <3>1. k \in 1 .. Len(t) /\ t[k] = s[k]
      BY <1>2
    <3> QED
      BY <1>3, <1>4, <3>1
  <2> QED
    BY <1>2, <2>1, RunsAgree
<1>6. Len(s) \in 0 .. Len(s)
  BY <1>2
<1>7. c[Len(s)] = d[Len(s)]
  BY ONLY <1>6, <1>5 DEF Alike
<1>8. d[Len(s) + 1] = Step(d[Len(s)], tag)
  <2>1. Len(s) + 1 \in 1 .. Len(t) /\ Len(s) + 1 - 1 = Len(s)
    BY <1>2
  <2> QED
    BY <1>2, <1>4, <2>1
<1>9. StyleOf(s) \in TagStyles
  BY <1>3, <1>6
<1> QED
  BY <1>1, <1>2, <1>3, <1>4, <1>7, <1>8, <1>9 DEF t, Step

\* One more at the end.
LEMMA Grown ==
    ASSUME NEW S, NEW s \in Seq(S), NEW x \in S
    PROVE  LET t == Append(s, x)
           IN  /\ t \in Seq(S) /\ t # <<>> /\ Len(t) = Len(s) + 1 /\ t[Len(t)] = x /\ Len(s) \in Nat
               /\ DOMAIN t = 1 .. Len(s) + 1 /\ DOMAIN s = 1 .. Len(s)
               /\ \A i \in 1 .. Len(s) : t[i] = s[i]
               /\ \A i \in DOMAIN t : i \in DOMAIN s \/ i = Len(s) + 1
               /\ \A i \in DOMAIN s : i \in DOMAIN t /\ t[i] = s[i] /\ i # Len(s) + 1
               /\ Len(s) + 1 \in DOMAIN t /\ t[Len(s) + 1] = x
BY AppendProperties, LenProperties

\* One less at the end.
LEMMA Shrunk ==
    ASSUME NEW S, NEW s \in Seq(S), s # <<>>
    PROVE  /\ Front(s) \in Seq(S) /\ Len(Front(s)) = Len(s) - 1 /\ Len(s) \in Nat \ {0}
           /\ DOMAIN Front(s) = 1 .. Len(s) - 1 /\ DOMAIN s = 1 .. Len(s)
           /\ \A i \in DOMAIN Front(s) : i \in DOMAIN s /\ Front(s)[i] = s[i] /\ i # Len(s)
           /\ \A i \in DOMAIN s : i \in DOMAIN Front(s) \/ i = Len(s)
           /\ Last(s) = s[Len(s)] /\ Last(s) \in S /\ Len(s) \in DOMAIN s
           /\ s = Append(Front(s), Last(s))
<1>1. Len(s) \in Nat \ {0} /\ DOMAIN s = 1 .. Len(s)
  BY LenProperties
<1>2. Len(s) - 1 \in 0 .. Len(s)
  BY <1>1
<1> DEFINE f == SubSeq(s, 1, Len(s) - 1)
<1>3. f \in Seq(S) /\ Len(f) = Len(s) - 1 /\ \A i \in 1 .. Len(s) - 1 : f[i] = s[i]
  BY <1>2, PrefixIs
<1>4. DOMAIN f = 1 .. Len(s) - 1
  BY <1>3, LenProperties
<1>5. s = Append(f, s[Len(s)])
  <2>1. Len(s) \in 1 .. Len(s)
    BY <1>1
  <2>2. SubSeq(s, 1, Len(s)) = Append(f, s[Len(s)])
    BY <2>1, PrefixGrows
  <2> QED
    BY <2>2, WholeIs
<1> HIDE DEF f
<1>6. /\ \A i \in 1 .. Len(s) - 1 : i \in 1 .. Len(s) /\ i # Len(s)
      /\ \A i \in 1 .. Len(s) : i \in 1 .. Len(s) - 1 \/ i = Len(s)
      /\ Len(s) \in 1 .. Len(s)
  <2>1. \A n \in Nat \ {0} : /\ \A i \in 1 .. n - 1 : i \in 1 .. n /\ i # n
                             /\ \A i \in 1 .. n : i \in 1 .. n - 1 \/ i = n
                             /\ n \in 1 .. n
    OBVIOUS
  <2>2. Len(s) \in Nat \ {0}
    BY <1>1
  <2> QED
    BY ONLY <2>1, <2>2
<1>7. s[Len(s)] \in S
  <2>1. \A i \in 1 .. Len(s) : s[i] \in S
    BY LenProperties
  <2> QED
    BY <1>6, <2>1
<1> DEFINE e == s[Len(s)]
<1>8. Front(s) = f /\ Last(s) = e
  BY DEF f, Front, Last
<1>9. /\ \A i \in DOMAIN f : i \in DOMAIN s /\ f[i] = s[i] /\ i # Len(s)
      /\ \A i \in DOMAIN s : i \in DOMAIN f \/ i = Len(s)
  BY <1>1, <1>3, <1>4, <1>6
<1> QED
  BY <1>1, <1>3, <1>4, <1>5, <1>6, <1>7, <1>8, <1>9

\* Opening and closing, of a region or not.
LEMMA RegsGrow ==
    ASSUME NEW s \in Seq(Tags), NEW tag \in Tags
    PROVE  LET t == Append(s, tag)
           IN  /\ RegsOf(t) = IF tag \in Regions THEN RegsOf(s) \cup {Len(s) + 1} ELSE RegsOf(s)
               /\ Cardinality(RegsOf(s)) \in Nat /\ (Cardinality(RegsOf(s)) = 0 <=> RegsOf(s) = {})
               /\ Cardinality(RegsOf(t)) = Cardinality(RegsOf(s)) + (IF tag \in Regions THEN 1 ELSE 0)
<1> DEFINE t == Append(s, tag)
<1>1. /\ DOMAIN s = 1 .. Len(s) /\ Len(s) \in Nat /\ Len(s) + 1 \in DOMAIN t /\ t[Len(s) + 1] = tag
      /\ \A i \in DOMAIN t : i \in DOMAIN s \/ i = Len(s) + 1
      /\ \A i \in DOMAIN s : i \in DOMAIN t /\ t[i] = s[i] /\ i # Len(s) + 1
  BY Grown
<1> HIDE DEF t
<1>2. RegsOf(t) = IF tag \in Regions THEN RegsOf(s) \cup {Len(s) + 1} ELSE RegsOf(s)
  BY <1>1 DEF RegsOf
<1>3. IsFiniteSet(RegsOf(s))
  <2>1. IsFiniteSet(1 .. Len(s))
    BY <1>1, FS_Interval
  <2>2. RegsOf(s) \subseteq 1 .. Len(s)
    BY <1>1 DEF RegsOf
  <2> QED
    BY <2>1, <2>2, FS_Subset
<1>4. Cardinality(RegsOf(s)) \in Nat /\ (Cardinality(RegsOf(s)) = 0 <=> RegsOf(s) = {})
  BY <1>3, FS_CardinalityType, FS_EmptySet
<1>5. Len(s) + 1 \notin RegsOf(s)
  BY <1>1 DEF RegsOf
<1>6. Cardinality(RegsOf(t)) = Cardinality(RegsOf(s)) + (IF tag \in Regions THEN 1 ELSE 0)
  <2>1. CASE tag \in Regions
    <3>1. Cardinality(RegsOf(s) \cup {Len(s) + 1}) = Cardinality(RegsOf(s)) + 1
      BY <1>3, <1>5, FS_AddElement
    <3> QED
      BY <1>2, <2>1, <3>1
  <2>2. CASE tag \notin Regions
    BY <1>2, <1>4, <2>2
  <2> QED
    BY <2>1, <2>2
<1> QED
  BY <1>2, <1>4, <1>6 DEF t

\* Nothing open, no region open.
LEMMA NoRegs ==
    RegsOf(<<>>) = {} /\ Cardinality(RegsOf(<<>>)) = 0
<1>1. RegsOf(<<>>) = {}
  BY DEF RegsOf
<1> QED
  BY <1>1, FS_EmptySet

\* Whether there is anything on a line.
LEMMA ThingsAre ==
    ASSUME NEW line \in PrintedLines
    PROVE  Things(line) \in Nat /\ (Things(line) > 0 <=> line.cells # <<>> \/ line.directives # <<>>)
<1>1. line.cells \in Seq(PrintedCells) /\ line.directives \in Seq(Printable)
  BY DEF PrintedLines
<1>2. Len(line.cells) \in Nat /\ Len(line.directives) \in Nat
  BY <1>1, LenProperties
<1>3. (Len(line.cells) = 0 <=> line.cells = <<>>) /\ (Len(line.directives) = 0 <=> line.directives = <<>>)
  BY <1>1, EmptySeq
<1>4. \A a, b \in Nat : a + b \in Nat /\ (a + b > 0 <=> a # 0 \/ b # 0)
  OBVIOUS
<1>5. LET n == Len(line.cells) + Len(line.directives)
      IN  n \in Nat /\ (n > 0 <=> Len(line.cells) # 0 \/ Len(line.directives) # 0)
  BY ONLY <1>2, <1>4
<1> QED
  BY <1>3, <1>5 DEF Things

\* What a directive more changes.
LEMMA OneMark ==
    ASSUME NEW line \in PrintedLines, NEW then \in PrintedLines, NEW d \in Printable,
           then.directives = Append(line.directives, d)
    PROVE  /\ \A kinds : Has(then, kinds) <=> Has(line, kinds) \/ d \in kinds
           /\ Pairs(then) <=> Pairs(line) \/ (d # "drawer" /\ Has(line, Printable \ {"drawer"}))
           /\ then.directives # <<>>
<1> DEFINE s == line.directives
           t == then.directives
<1>1. /\ s \in Seq(Printable)
      /\ \A i \in DOMAIN t : i \in DOMAIN s \/ i = Len(s) + 1
      /\ \A i \in DOMAIN s : i \in DOMAIN t /\ t[i] = s[i] /\ i # Len(s) + 1
      /\ Len(s) + 1 \in DOMAIN t /\ t[Len(s) + 1] = d /\ t # <<>>
  BY Grown DEF PrintedLines
<1>2. \A i \in DOMAIN s : s[i] \in Printable
  BY <1>1
<1> HIDE DEF s, t
<1>3. \A kinds : Has(then, kinds) <=> Has(line, kinds) \/ d \in kinds
  BY <1>1 DEF Has, s, t
<1>4. Pairs(then) <=> Pairs(line) \/ (d # "drawer" /\ Has(line, Printable \ {"drawer"}))
  <2>1. Pairs(then) => Pairs(line) \/ (d # "drawer" /\ Has(line, Printable \ {"drawer"}))
    <3> SUFFICES ASSUME NEW i \in DOMAIN t, NEW j \in DOMAIN t, i # j, t[i] # "drawer", t[j] # "drawer"
                 PROVE  Pairs(line) \/ (d # "drawer" /\ Has(line, Printable \ {"drawer"}))
      BY DEF Pairs, t
    <3>1. CASE i \in DOMAIN s /\ j \in DOMAIN s
      BY <1>1, <3>1 DEF Pairs, s
    <3>2. CASE i \in DOMAIN s /\ j = Len(s) + 1
      BY <1>1, <1>2, <3>2 DEF Has, s
    <3>3. CASE j \in DOMAIN s /\ i = Len(s) + 1
      BY <1>1, <1>2, <3>3 DEF Has, s
    <3> QED
      BY <1>1, <3>1, <3>2, <3>3
  <2>2. Pairs(line) => Pairs(then)
    BY <1>1 DEF Pairs, s, t
  <2>3. d # "drawer" /\ Has(line, Printable \ {"drawer"}) => Pairs(then)
    BY <1>1 DEF Pairs, Has, s, t
  <2> QED
    BY <2>1, <2>2, <2>3
<1> QED
  BY <1>1, <1>3, <1>4 DEF t

\* And a cell more.
LEMMA OneCell ==
    ASSUME NEW line \in PrintedLines, NEW then \in PrintedLines, NEW c \in PrintedCells,
           then.cells = Append(line.cells, c)
    PROVE  (Blank(then) <=> Blank(line) /\ c.what = "space") /\ then.cells # <<>>
<1>1. /\ \A i \in DOMAIN then.cells : i \in DOMAIN line.cells \/ i = Len(line.cells) + 1
      /\ \A i \in DOMAIN line.cells : i \in DOMAIN then.cells /\ then.cells[i] = line.cells[i]
      /\ Len(line.cells) + 1 \in DOMAIN then.cells /\ then.cells[Len(line.cells) + 1] = c /\ then.cells # <<>>
  BY Grown DEF PrintedLines
<1> QED
  BY <1>1 DEF Blank

\* What the line holds decides what is to be remembered of it.
LEMMA SameThings ==
    ASSUME NEW line, NEW then, then.cells = line.cells, then.directives = line.directives
    PROVE  /\ \A kinds : Has(then, kinds) <=> Has(line, kinds)
           /\ Pairs(then) <=> Pairs(line)
           /\ Blank(then) <=> Blank(line)
           /\ \A p : Recalls(p, line) => Recalls(p, then)
<1>1. \A kinds : Has(then, kinds) <=> Has(line, kinds)
  BY DEF Has
<1>2. Pairs(then) <=> Pairs(line)
  BY DEF Pairs
<1>3. Blank(then) <=> Blank(line)
  BY DEF Blank
<1> QED
  BY <1>1, <1>2, <1>3 DEF Recalls

\* Of a line with nothing on it there is nothing to remember.
LEMMA NothingRecalled ==
    ASSUME NEW p, NEW line, line.cells = <<>>, line.directives = <<>>
    PROVE  Recalls(p, line)
<1>1. \A kinds : ~Has(line, kinds)
  BY DEF Has
<1>2. ~Pairs(line)
  BY DEF Pairs
<1>3. Blank(line)
  BY DEF Blank
<1> QED
  BY <1>1, <1>2, <1>3 DEF Recalls

\* Text is remembered.
LEMMA TextRecalled ==
    ASSUME NEW p \in LineStates, NEW line \in PrintedLines, NEW then \in PrintedLines, Recalls(p, line),
           NEW blank \in BOOLEAN, p.closed = "no" \/ (blank /\ p.closed = "block"), NEW style,
           then.cells = Append(line.cells, [what |-> IF blank THEN "space" ELSE "text", style |-> style]),
           style \in TagStyles, then.directives = line.directives,
           NEW q, q = [p EXCEPT !.content = TRUE, !.textSeen = TRUE, !.spaceOnly = @ /\ blank]
    PROVE  Recalls(q, then)
<1> DEFINE c == [what |-> IF blank THEN "space" ELSE "text", style |-> style]
<1>1. c \in PrintedCells /\ c.what = (IF blank THEN "space" ELSE "text")
  BY DEF PrintedCells
<1>2. (Blank(then) <=> Blank(line) /\ c.what = "space") /\ then.cells # <<>>
  <2>1. then.cells = Append(line.cells, c)
    OBVIOUS
  <2> HIDE DEF c
  <2> QED
    BY <1>1, <2>1, OneCell
<1>3. (\A kinds : Has(then, kinds) <=> Has(line, kinds)) /\ (Pairs(then) <=> Pairs(line))
  BY DEF Has, Pairs
<1>4. /\ q.content /\ q.textSeen /\ q.printing = p.printing /\ q.sole = p.sole /\ q.closed = p.closed
      /\ q.spaceOnly => p.spaceOnly /\ blank
  BY DEF LineStates
<1> QED
  BY <1>1, <1>2, <1>3, <1>4 DEF Recalls

\* So is a fill.
LEMMA FillRecalled ==
    ASSUME NEW p \in LineStates, NEW line \in PrintedLines, NEW then \in PrintedLines, Recalls(p, line),
           p.closed = "no", NEW style \in TagStyles,
           then.cells = Append(line.cells, [what |-> "fill", style |-> style]),
           then.directives = line.directives,
           NEW q, q = [Placed(p, FALSE) EXCEPT !.fills = TRUE]
    PROVE  Recalls(q, then)
<1> DEFINE c == [what |-> "fill", style |-> style]
<1>1. c \in PrintedCells
  BY DEF PrintedCells
<1>2. then.cells # <<>>
  BY <1>1, OneCell
<1>3. (\A kinds : Has(then, kinds) <=> Has(line, kinds)) /\ (Pairs(then) <=> Pairs(line))
  BY DEF Has, Pairs
<1>4. q.content /\ q.fills /\ q.printing = p.printing /\ q.sole = p.sole /\ ~q.spaceOnly
  BY DEF LineStates, Placed
<1> QED
  BY <1>2, <1>3, <1>4 DEF Recalls

\* And what stands beside the text, of whatever kind.
LEMMA MarkRecalled ==
    ASSUME NEW p \in LineStates, NEW line \in PrintedLines, NEW then \in PrintedLines, Recalls(p, line),
           NEW d \in Printable, then.cells = line.cells, then.directives = Append(line.directives, d),
           NEW q \in LineStates,
           /\ q.content /\ ~q.spaceOnly /\ q.textSeen = p.textSeen /\ q.fills = p.fills
           /\ q.printing = IF d # "drawer" /\ p.printing < 2 THEN p.printing + 1 ELSE p.printing
           /\ p.sole \/ d \in Symbols \cup {"hr"} => q.sole
           /\ d \notin Regions => p.closed = "no"
           /\ d \in Regions => p.spaceOnly /\ q.closed # "no"
    PROVE  Recalls(q, then)
<1>1. /\ \A kinds : Has(then, kinds) <=> Has(line, kinds) \/ d \in kinds
      /\ Pairs(then) <=> Pairs(line) \/ (d # "drawer" /\ Has(line, Printable \ {"drawer"}))
  BY OneMark
<1>2. Blank(then) <=> Blank(line)
  BY DEF Blank
<1>3. p.printing \in {0, 1, 2}
  BY DEF LineStates
<1>4. q.printing = 0 => p.printing = 0 /\ d = "drawer"
  BY <1>3
<1>5. q.printing < 2 => p.printing < 2 /\ (d = "drawer" \/ p.printing = 0)
  BY <1>3
<1>6. q.printing = 0 => ~Has(then, Printable \ {"drawer"})
  BY <1>1, <1>4 DEF Recalls
<1>7. q.printing < 2 => ~Pairs(then)
  BY <1>1, <1>5 DEF Recalls
<1>8. Has(then, Regions) => q.closed # "no" /\ Blank(then) /\ ~Pairs(then)
  <2> SUFFICES ASSUME Has(then, Regions) PROVE q.closed # "no" /\ Blank(then) /\ ~Pairs(then)
    OBVIOUS
  <2>1. d \in Regions
    BY <1>1 DEF Recalls
  <2>2. line.directives = <<>> /\ Blank(line)
    BY <2>1 DEF Recalls
  <2>3. ~Pairs(line) /\ ~Has(line, Printable \ {"drawer"})
    BY <2>2 DEF Pairs, Has
  <2> QED
    BY <1>1, <1>2, <2>1, <2>2, <2>3
<1>9. Has(then, Symbols \cup {"hr"}) => q.sole
  BY <1>1 DEF Recalls
<1>10. then.cells # <<>> => q.textSeen \/ q.fills
  BY DEF Recalls
<1> QED
  BY <1>6, <1>7, <1>8, <1>9, <1>10 DEF Recalls

\* What is remembered beside the things on the line changes nothing in that.
LEMMA StillRecalled ==
    ASSUME NEW p, NEW line, Recalls(p, line), NEW q,
           /\ q.content = p.content /\ q.textSeen = p.textSeen /\ q.fills = p.fills
           /\ q.printing = p.printing /\ (p.sole => q.sole) /\ q.spaceOnly = p.spaceOnly
           /\ (p.closed # "no" => q.closed # "no")
    PROVE  Recalls(q, line)
BY DEF Recalls

\* All of a line but what is on it.
Like(line, then) ==
    then.align = line.align /\ then.wrap = line.wrap /\ then.hushed = line.hushed /\ then.late = line.late

\* The line being written belongs to the innermost region, or is the printed one.
LEMMA OwnerIs ==
    ASSUME tree \in Trees, tree.owners # <<>>
    PROVE  /\ tree.owners \in Seq(LineStates) /\ tree.frames \in Seq(Tags) /\ tree.line \in PrintedLines
           /\ tree = [frames |-> tree.frames, owners |-> tree.owners, line |-> tree.line]
           /\ Depth = Len(tree.owners) /\ Depth \in Nat \ {0} /\ (OnPaper <=> Depth = 1)
           /\ Owner = tree.owners[Depth] /\ Owner \in LineStates /\ tree.owners[1] \in LineStates
           /\ 1 \in 1 .. Depth /\ Depth \in 1 .. Depth /\ (OnPaper => Owner = tree.owners[1])
           /\ Frames = tree.frames /\ Frames \in Seq(Tags)
<1> DEFINE o == tree.owners
<1>1. /\ o \in Seq(LineStates) /\ tree.frames \in Seq(Tags) /\ tree.line \in PrintedLines
      /\ tree = [frames |-> tree.frames, owners |-> o, line |-> tree.line]
  BY DEF Trees
<1>2. Len(o) \in Nat \ {0}
  BY <1>1, EmptySeq
<1>3. 1 \in 1 .. Len(o) /\ Len(o) \in 1 .. Len(o)
  BY <1>2
<1>4. o[1] \in LineStates /\ o[Len(o)] \in LineStates
  BY <1>1, <1>3, ElementOfSeq
<1>5. Owner = o[Len(o)] /\ Depth = Len(o) /\ (OnPaper <=> 1 = Len(o)) /\ Frames = tree.frames
  BY <1>2 DEF Owner, Last, Depth, OnPaper, Frames
<1> QED
  BY <1>1, <1>2, <1>3, <1>4, <1>5

\* What the server remembers of the line being written changes, and nothing else.
LEMMA OwningIs ==
    ASSUME tree \in Trees, tree.owners # <<>>, NEW q \in LineStates
    PROVE  LET u == Owning(q)
           IN  /\ u \in Trees /\ u.frames = tree.frames /\ u.line = tree.line
               /\ Len(u.owners) = Len(tree.owners) /\ u.owners # <<>>
               /\ u.owners[1] = IF OnPaper THEN q ELSE tree.owners[1]
<1> DEFINE o == tree.owners
           w == [o EXCEPT ![Depth] = q]
           u == [tree EXCEPT !.owners = w]
<1>1. w \in Seq(LineStates) /\ Len(w) = Len(o) /\ w[1] = IF 1 = Depth THEN q ELSE o[1]
  BY OwnerIs, ExceptSeq
<1>2. w # <<>>
  BY OwnerIs, <1>1
<1>3. Owning(q) = u
  BY DEF Owning
<1> HIDE DEF w
<1>4. u = [frames |-> tree.frames, owners |-> w, line |-> tree.line]
  BY OwnerIs
<1>5. u \in Trees /\ u.frames = tree.frames /\ u.owners = w /\ u.line = tree.line
  BY OwnerIs, <1>1, <1>4 DEF Trees
<1> HIDE DEF u
<1> QED
  BY OwnerIs, <1>1, <1>2, <1>3, <1>5

\* What is printed lengthens the printed line, and nothing else.
LEMMA PrintingIs ==
    ASSUME tree \in Trees, NEW t \in Trees, NEW what \in Printable \cup {"space", "text", "fill"}
    PROVE  LET u == Printing(t, what)
           IN  /\ u \in Trees /\ u.frames = t.frames /\ u.owners = t.owners /\ Like(t.line, u.line)
               /\ ~OnPaper => u = t
               /\ OnPaper /\ what \in Printable =>
                      u.line.cells = t.line.cells /\ u.line.directives = Append(t.line.directives, what)
               /\ OnPaper /\ what \notin Printable =>
                      /\ u.line.cells = Append(t.line.cells, [what |-> what, style |-> StyleHere])
                      /\ u.line.directives = t.line.directives
<1>1. /\ t.frames \in Seq(Tags) /\ t.owners \in Seq(LineStates) /\ t.line \in PrintedLines
      /\ t = [frames |-> t.frames, owners |-> t.owners, line |-> t.line]
  BY DEF Trees
<1>2. /\ t.line.cells \in Seq(PrintedCells) /\ t.line.directives \in Seq(Printable)
      /\ t.line.align \in Aligns \cup {"none"} /\ t.line.wrap \in Wraps \cup {"none"}
      /\ t.line.hushed \in BOOLEAN /\ t.line.late \in BOOLEAN
      /\ t.line = [align |-> t.line.align, wrap |-> t.line.wrap, cells |-> t.line.cells,
                   directives |-> t.line.directives, hushed |-> t.line.hushed, late |-> t.line.late]
  BY <1>1 DEF PrintedLines
<1>3. WholeLine \cup {"cut", "drawer", "bar"} = Printable
  BY DEF WholeLine, Printable
<1>4. CASE ~OnPaper
  BY <1>4 DEF Printing, Like
<1>5. CASE OnPaper /\ what \in Printable
  <2> DEFINE d == Append(t.line.directives, what)
             l == [align |-> t.line.align, wrap |-> t.line.wrap, cells |-> t.line.cells, directives |-> d,
                   hushed |-> t.line.hushed, late |-> t.line.late]
             u == [frames |-> t.frames, owners |-> t.owners, line |-> l]
  <2>1. d \in Seq(Printable)
    BY <1>2, <1>5, AppendProperties
  <2>2. Printing(t, what) = [t EXCEPT !.line.directives = Append(@, what)]
    BY <1>3, <1>5 DEF Printing
  <2> HIDE DEF d
  <2>3. [t EXCEPT !.line.directives = d] = u
    <3>1. [t.line EXCEPT !.directives = d] = l
      BY <1>2
    <3> HIDE DEF l
    <3>2. [t EXCEPT !.line = l] = u
      BY <1>1
    <3> QED
      BY <3>1, <3>2
  <2>4. l \in PrintedLines
    BY <1>2, <2>1 DEF PrintedLines
  <2>5. u \in Trees
    BY <1>1, <2>4 DEF Trees
  <2>6. Printing(t, what) = u
    BY <2>2, <2>3 DEF d
  <2> QED
    BY <1>5, <2>5, <2>6 DEF d, Like
<1>6. CASE OnPaper /\ what \notin Printable
  <2> DEFINE e == [what |-> what, style |-> StyleHere]
             c == Append(t.line.cells, e)
             l == [align |-> t.line.align, wrap |-> t.line.wrap, cells |-> c, directives |-> t.line.directives,
                   hushed |-> t.line.hushed, late |-> t.line.late]
             u == [frames |-> t.frames, owners |-> t.owners, line |-> l]
  <2>1. StyleHere \in TagStyles
    <3>1. tree.frames \in Seq(Tags) /\ "bold" \in Tags
      BY DEF Trees, Tags, Scopes, Styles
    <3> QED
      BY <3>1, StyleGrows DEF StyleHere, Frames
  <2>2. what \in {"space", "text", "fill"}
    BY <1>6
  <2>3. e \in PrintedCells
    BY <2>1, <2>2 DEF PrintedCells
  <2>4. c \in Seq(PrintedCells)
    BY <1>2, <2>3, AppendProperties
  <2>5. Printing(t, what) = [t EXCEPT !.line.cells = c]
    BY <1>3, <1>6 DEF Printing
  <2> HIDE DEF c, e
  <2>6. [t EXCEPT !.line.cells = c] = u
    <3>1. [t.line EXCEPT !.cells = c] = l
      BY <1>2
    <3> HIDE DEF l
    <3>2. [t EXCEPT !.line = l] = u
      BY <1>1
    <3> QED
      BY <3>1, <3>2
  <2>7. l \in PrintedLines
    BY <1>2, <2>4 DEF PrintedLines
  <2>8. u \in Trees
    BY <1>1, <2>7 DEF Trees
  <2> QED
    BY <1>6, <2>5, <2>6, <2>8 DEF c, e, Like
<1> QED
  BY <1>4, <1>5, <1>6

\* A region is open if and only if one encloses what comes next.
LEMMA InsideIs ==
    ASSUME tree \in Trees
    PROVE  (Inside = "none" <=> RegsOf(Frames) = {}) /\ Inside \in Regions \cup {"none"}
<1>1. Frames \in Seq(Tags)
  BY DEF Trees, Frames
<1>2. DOMAIN Frames = 1 .. Len(Frames) /\ Len(Frames) \in Nat
  BY <1>1, LenProperties
<1> DEFINE at == {i \in DOMAIN Frames : Frames[i] \in Regions}
<1>3. at = RegsOf(Frames)
  BY DEF RegsOf
<1>4. CASE at = {}
  BY <1>3, <1>4 DEF Inside
<1>5. CASE at # {}
  <2> DEFINE N == Len(Frames)
             D == {n \in Nat : n <= N /\ N - n \in at}
  <2>1. PICK k \in at : TRUE
    BY <1>5
  <2>2. k \in 1 .. N /\ at \subseteq 1 .. N
    BY <1>2
  <2>3. \A i \in 1 .. N : N - i \in Nat /\ N - i <= N /\ N - (N - i) = i
    BY <1>2
  <2>4. N - k \in D
    BY <2>2, <2>3
  <2>5. D \in SUBSET Nat /\ D # {}
    BY <2>4
  <2>6. PICK m \in D : \A n \in D : m <= n
    BY <2>5, SmallestOf
  <2>7. N - m \in at
    BY <2>6
  <2> HIDE DEF at
  <2>8. \A j \in at : N - j \in D
    BY <2>2, <2>3
  <2>9. \A j \in at : j <= N - m
    <3> SUFFICES ASSUME NEW j \in at PROVE j <= N - m
      OBVIOUS
    <3>1. m <= N - j /\ m \in Nat /\ j \in 1 .. N /\ N \in Nat
      BY <1>2, <2>2, <2>6, <2>8
    <3>2. \A a, b, c \in Int : a <= b - c => c <= b - a
      OBVIOUS
    <3>3. m \in Int /\ j \in Int /\ N \in Int
      BY <3>1
    <3> HIDE DEF N
    <3> QED
      BY ONLY <3>1, <3>2, <3>3
  <2>10. \E i \in at : \A j \in at : j <= i
    BY <2>7, <2>9
  <2> DEFINE last == CHOOSE i \in at : \A j \in at : j <= i
  <2>11. last \in at
    BY <2>10
  <2>12. Inside = Frames[last]
    BY <1>5 DEF Inside, at
  <2> HIDE DEF last
  <2>13. Frames[last] \in Regions
    BY <2>11 DEF at
  <2>14. "none" \notin Regions
    BY DEF Regions, Blocks, Data
  <2> QED
    BY <1>3, <1>5, <2>12, <2>13, <2>14
<1> QED
  BY <1>4, <1>5

\* Outside a symbol and its data there is no symbol open.
LEMMA NoSymbols ==
    ASSUME ServerInv(tree), ~InData
    PROVE  \A i \in DOMAIN Frames : Frames[i] \notin Symbols
<1> SUFFICES ASSUME NEW i \in DOMAIN Frames, Frames[i] \in Symbols PROVE FALSE
  OBVIOUS
<1>1. i = Len(Frames)
  BY DEF ServerInv, Nested, Frames
<1>2. Frames # <<>>
  OBVIOUS
<1> QED
  BY <1>1, <1>2 DEF InData, Top, Last

\* How the tags nest does not depend on what is between them.
LEMMA NestedStays ==
    ASSUME NEW t, NEW u, Nested(t), u.frames = t.frames, Len(u.owners) = Len(t.owners),
           \/ u.owners[1] = t.owners[1]
           \/ Len(t.owners) = 1 /\ \A i \in DOMAIN t.frames : t.frames[i] \notin Symbols
    PROVE  Nested(u)
<1>1. CASE u.owners[1] = t.owners[1]
  BY <1>1 DEF Nested
<1>2. CASE Len(t.owners) = 1 /\ \A i \in DOMAIN t.frames : t.frames[i] \notin Symbols
  BY <1>2 DEF Nested
<1> QED
  BY <1>1, <1>2

\* What is placed on a line keeps what the server knows of its tree, if it is remembered.
LEMMA PlacedServed ==
    ASSUME ServerInv(tree), ~InData, NEW q \in LineStates, NEW what \in Printable \cup {"space", "text", "fill"},
           \A then \in PrintedLines :
               /\ Recalls(tree.owners[1], tree.line) /\ Owner = tree.owners[1]
               /\ what \in Printable => then.cells = tree.line.cells
                                        /\ then.directives = Append(tree.line.directives, what)
               /\ what \notin Printable => /\ then.cells = Append(tree.line.cells, [what |-> what, style |-> StyleHere])
                                           /\ then.directives = tree.line.directives
               => Recalls(q, then)
    PROVE  LET u == Printing(Owning(q), what)
           IN  /\ ServerInv(u) /\ u.frames = Frames /\ Like(tree.line, u.line)
               /\ OnPaper => u.owners[1] = q
               /\ OnPaper /\ what \in Printable =>
                      u.line.cells = tree.line.cells /\ u.line.directives = Append(tree.line.directives, what)
               /\ OnPaper /\ what \notin Printable =>
                      /\ u.line.cells = Append(tree.line.cells, [what |-> what, style |-> StyleHere])
                      /\ u.line.directives = tree.line.directives
<1> DEFINE t == Owning(q)
           u == Printing(t, what)
<1>1. tree \in Trees /\ tree.owners # <<>> /\ Nested(tree) /\ LineKept(tree)
  BY DEF ServerInv
<1>2. /\ t \in Trees /\ t.frames = tree.frames /\ t.line = tree.line
      /\ Len(t.owners) = Len(tree.owners) /\ t.owners # <<>>
      /\ t.owners[1] = IF OnPaper THEN q ELSE tree.owners[1]
  BY <1>1, OwningIs
<1> HIDE DEF t
<1>3. /\ u \in Trees /\ u.frames = t.frames /\ u.owners = t.owners /\ Like(t.line, u.line)
      /\ ~OnPaper => u = t
      /\ OnPaper /\ what \in Printable =>
             u.line.cells = t.line.cells /\ u.line.directives = Append(t.line.directives, what)
      /\ OnPaper /\ what \notin Printable =>
             /\ u.line.cells = Append(t.line.cells, [what |-> what, style |-> StyleHere])
             /\ u.line.directives = t.line.directives
  BY <1>1, <1>2, PrintingIs
<1> HIDE DEF u
<1>4. Frames = tree.frames /\ (OnPaper <=> Len(tree.owners) = 1) /\ (OnPaper => Owner = tree.owners[1])
  BY <1>1, OwnerIs DEF OnPaper
<1>5. Nested(u)
  <2>1. \A i \in DOMAIN tree.frames : tree.frames[i] \notin Symbols
    BY <1>4, NoSymbols
  <2>2. u.frames = tree.frames /\ Len(u.owners) = Len(tree.owners)
    BY <1>2, <1>3
  <2>3. u.owners[1] = tree.owners[1] \/ Len(tree.owners) = 1
    BY <1>2, <1>3, <1>4
  <2> HIDE DEF ServerInv
  <2> QED
    BY <1>1, <2>1, <2>2, <2>3, NestedStays
<1>6. LineKept(u)
  <2>1. CASE ~OnPaper
    <3>1. u.owners[1] = tree.owners[1] /\ u.line = tree.line
      BY <1>2, <1>3, <2>1
    <3> QED
      BY <1>1, <3>1 DEF LineKept
  <2>2. CASE OnPaper
    <3> SUFFICES ASSUME ~u.line.hushed PROVE Recalls(u.owners[1], u.line) /\ ~u.line.late
      BY DEF LineKept
    <3>1. u.line.hushed = tree.line.hushed /\ u.line.late = tree.line.late
      BY <1>2, <1>3 DEF Like
    <3>2. Recalls(tree.owners[1], tree.line) /\ ~tree.line.late
      BY <1>1, <3>1 DEF LineKept
    <3>3. u.line \in PrintedLines
      BY <1>3 DEF Trees
    <3>4. Recalls(q, u.line)
      BY <1>2, <1>3, <1>4, <2>2, <3>2, <3>3
    <3> QED
      BY <1>2, <1>3, <2>2, <3>1, <3>2, <3>4
  <2> QED
    BY <2>1, <2>2
<1> HIDE DEF ServerInv
<1>7. ServerInv(u)
  BY <1>2, <1>3, <1>5, <1>6 DEF ServerInv
<1> QED
  BY <1>2, <1>3, <1>4, <1>7 DEF u, t

\* Text keeps what the server knows of its tree.
LEMMA TextServed ==
    ASSUME ServerInv(tree), NEW blank \in BOOLEAN, ServerTakesText(blank)
    PROVE  LET u == ServerText(blank)
           IN  /\ ServerInv(u) /\ u.frames = Frames /\ Like(tree.line, u.line)
               /\ InData => u = tree
               /\ ~InData /\ OnPaper =>
                      /\ u.owners[1] = [tree.owners[1] EXCEPT !.content = TRUE, !.textSeen = TRUE,
                                                              !.spaceOnly = @ /\ blank]
                      /\ u.line.cells = Append(tree.line.cells, [what |-> IF blank THEN "space" ELSE "text",
                                                                 style |-> StyleHere])
                      /\ u.line.directives = tree.line.directives
<1>1. tree \in Trees /\ tree.owners # <<>>
  BY DEF ServerInv
<1>2. CASE InData
  BY <1>2 DEF ServerText, Frames, Like
<1>3. CASE ~InData
  <2> DEFINE q == [Owner EXCEPT !.content = TRUE, !.textSeen = TRUE, !.spaceOnly = @ /\ blank]
             what == IF blank THEN "space" ELSE "text"
             u == Printing(Owning(q), what)
  <2>1. Owner \in LineStates /\ (OnPaper => Owner = tree.owners[1]) /\ tree.line \in PrintedLines
    BY <1>1, OwnerIs
  <2>2. q \in LineStates
    BY <2>1 DEF LineStates
  <2>3. what \in Printable \cup {"space", "text", "fill"} /\ what \notin Printable
    BY DEF Printable, Symbols, Regions, SharesALine, Blocks, Data
  <2>4. StyleHere \in TagStyles
    <3>1. Frames \in Seq(Tags) /\ "bold" \in Tags
      BY <1>1, OwnerIs DEF Tags, Scopes, Styles
    <3> QED
      BY <3>1, StyleGrows DEF StyleHere
  <2>5. ASSUME NEW then \in PrintedLines, Recalls(tree.owners[1], tree.line), Owner = tree.owners[1],
               then.cells = Append(tree.line.cells, [what |-> what, style |-> StyleHere]),
               then.directives = tree.line.directives
        PROVE  Recalls(q, then)
    <3>1. Owner.closed = "no" \/ (blank /\ Owner.closed = "block")
      BY DEF ServerTakesText
    <3>2. then.cells = Append(tree.line.cells, [what |-> IF blank THEN "space" ELSE "text", style |-> StyleHere])
      BY <2>5
    <3> HIDE DEF what
    <3> QED
      BY <2>1, <2>4, <2>5, <3>1, <3>2, TextRecalled
  <2>6. ServerText(blank) = u
    BY <1>3 DEF ServerText
  <2> HIDE DEF q, what
  <2>7. /\ ServerInv(u) /\ u.frames = Frames /\ Like(tree.line, u.line)
        /\ OnPaper => u.owners[1] = q
        /\ OnPaper /\ what \notin Printable =>
               /\ u.line.cells = Append(tree.line.cells, [what |-> what, style |-> StyleHere])
               /\ u.line.directives = tree.line.directives
    BY <1>3, <2>2, <2>3, <2>5, PlacedServed
  <2> HIDE DEF u
  <2> QED
    BY <1>3, <2>1, <2>3, <2>6, <2>7 DEF q, what
<1> QED
  BY <1>2, <1>3

\* What is placed counts, and what prints twice.
LEMMA PlacedIs ==
    ASSUME NEW p \in LineStates, NEW prints \in BOOLEAN
    PROVE  LET q == Placed(p, prints)
           IN  /\ q \in LineStates /\ q.content /\ ~q.spaceOnly /\ q.textSeen = p.textSeen /\ q.closed = p.closed
               /\ q.alignSeen = p.alignSeen /\ q.wrapSeen = p.wrapSeen /\ q.fills = p.fills /\ q.sole = p.sole
               /\ q.printing = IF prints /\ p.printing < 2 THEN p.printing + 1 ELSE p.printing
<1> DEFINE n == IF prints /\ p.printing < 2 THEN p.printing + 1 ELSE p.printing
           q == [p EXCEPT !.content = TRUE, !.spaceOnly = FALSE, !.printing = n]
<1>1. p.printing \in {0, 1, 2}
  BY DEF LineStates
<1>2. n \in {0, 1, 2}
  BY <1>1
<1>3. Placed(p, prints) = q
  BY DEF Placed
<1> HIDE DEF n
<1>4. q \in LineStates
  BY <1>2 DEF LineStates
<1>5. /\ q.content /\ ~q.spaceOnly /\ q.textSeen = p.textSeen /\ q.closed = p.closed
      /\ q.alignSeen = p.alignSeen /\ q.wrapSeen = p.wrapSeen /\ q.fills = p.fills /\ q.sole = p.sole
      /\ q.printing = n
  BY DEF LineStates
<1> HIDE DEF q
<1> QED
  BY <1>3, <1>4, <1>5 DEF n

\* A fill is text that the server counts apart, and the other voids stand beside it.
LEMMA VoidServed ==
    ASSUME ServerInv(tree), NEW tag \in Voids, ServerTakesOpen(tag)
    PROVE  LET u == ServerVoid(tag)
               p == tree.owners[1]
               q == u.owners[1]
           IN  /\ ServerInv(u) /\ u.frames = Frames /\ Like(tree.line, u.line)
               /\ OnPaper =>
                      /\ q.content /\ q.textSeen = p.textSeen /\ q.closed = p.closed
                      /\ q.alignSeen = p.alignSeen /\ q.wrapSeen = p.wrapSeen
                      /\ q.fills = (p.fills \/ tag = "fill") /\ q.sole = (p.sole \/ tag = "hr")
                      /\ q.printing = IF tag \in {"hr", "cut", "bar"} /\ p.printing < 2 THEN p.printing + 1
                                      ELSE p.printing
               /\ OnPaper /\ tag = "fill" =>
                      /\ u.line.cells = Append(tree.line.cells, [what |-> tag, style |-> StyleHere])
                      /\ u.line.directives = tree.line.directives
               /\ OnPaper /\ tag # "fill" =>
                      u.line.cells = tree.line.cells /\ u.line.directives = Append(tree.line.directives, tag)
<1>1. tree \in Trees /\ tree.owners # <<>>
  BY DEF ServerInv
<1>2. ~InData /\ Owner.closed = "no"
  BY DEF ServerTakesOpen
<1>3. Owner \in LineStates /\ (OnPaper => Owner = tree.owners[1]) /\ tree.line \in PrintedLines
  BY <1>1, OwnerIs
<1>4. StyleHere \in TagStyles
  <2>1. Frames \in Seq(Tags) /\ "bold" \in Tags
    BY <1>1, OwnerIs DEF Tags, Scopes, Styles
  <2> QED
    BY <2>1, StyleGrows DEF StyleHere
<1>5. "fill" \notin Printable
  BY DEF Printable, Symbols, Regions, SharesALine, Blocks, Data
<1>6. CASE tag = "fill"
  <2> DEFINE q == [Placed(Owner, FALSE) EXCEPT !.fills = TRUE]
             u == Printing(Owning(q), "fill")
  <2>1. q \in LineStates
    BY <1>3 DEF LineStates, Placed
  <2>2. ASSUME NEW then \in PrintedLines, Recalls(tree.owners[1], tree.line), Owner = tree.owners[1],
               then.cells = Append(tree.line.cells, [what |-> "fill", style |-> StyleHere]),
               then.directives = tree.line.directives
        PROVE  Recalls(q, then)
    BY <1>2, <1>3, <1>4, <2>2, FillRecalled
  <2>3. ServerVoid(tag) = u
    BY <1>6 DEF ServerVoid
  <2>4. OnPaper => LET p == tree.owners[1]
                   IN  /\ q.content /\ q.textSeen = p.textSeen /\ q.closed = p.closed
                       /\ q.alignSeen = p.alignSeen /\ q.wrapSeen = p.wrapSeen
                       /\ q.fills = TRUE /\ q.sole = p.sole /\ q.printing = p.printing /\ p.sole \in BOOLEAN
    BY <1>3 DEF LineStates, Placed
  <2> HIDE DEF q
  <2>5. /\ ServerInv(u) /\ u.frames = Frames /\ Like(tree.line, u.line)
        /\ OnPaper => u.owners[1] = q
        /\ OnPaper =>
               /\ u.line.cells = Append(tree.line.cells, [what |-> "fill", style |-> StyleHere])
               /\ u.line.directives = tree.line.directives
    BY <1>2, <1>5, <2>1, <2>2, PlacedServed
  <2> HIDE DEF u
  <2> QED
    BY <1>6, <2>3, <2>4, <2>5
<1>7. CASE tag # "fill"
  <2> DEFINE q == CASE tag = "hr"     -> [Placed(Owner, TRUE) EXCEPT !.sole = TRUE]
                    [] tag = "bar"    -> PlacedBlock(Owner, tag)
                    [] tag = "cut"    -> Placed(Owner, TRUE)
                    [] tag = "drawer" -> Placed(Owner, FALSE)
             u == Printing(Owning(q), tag)
  <2>1. tag \in {"hr", "bar", "cut", "drawer"}
    BY <1>7 DEF Voids
  <2>2. tag \in Printable /\ tag \notin Symbols /\ tag \notin Regions
    BY <2>1 DEF Printable, Symbols, Regions, Blocks, Data
  <2>3. /\ q \in LineStates /\ q.content /\ ~q.spaceOnly /\ q.textSeen = Owner.textSeen /\ q.closed = Owner.closed
        /\ q.alignSeen = Owner.alignSeen /\ q.wrapSeen = Owner.wrapSeen /\ q.fills = Owner.fills
        /\ q.sole = (Owner.sole \/ tag = "hr")
        /\ q.printing = IF tag # "drawer" /\ Owner.printing < 2 THEN Owner.printing + 1 ELSE Owner.printing
    <3> DEFINE r(prints) == Placed(Owner, prints)
    <3>0. \A prints \in BOOLEAN :
             /\ r(prints) \in LineStates /\ r(prints).content /\ ~r(prints).spaceOnly
             /\ r(prints).textSeen = Owner.textSeen /\ r(prints).closed = Owner.closed
             /\ r(prints).alignSeen = Owner.alignSeen /\ r(prints).wrapSeen = Owner.wrapSeen
             /\ r(prints).fills = Owner.fills /\ r(prints).sole = Owner.sole
             /\ r(prints).printing = IF prints /\ Owner.printing < 2 THEN Owner.printing + 1 ELSE Owner.printing
      BY <1>3, PlacedIs
    <3>1. CASE tag = "hr"
      <4> DEFINE z == r(TRUE)
                 y == [z EXCEPT !.sole = TRUE]
      <4>1. q = y
        BY <3>1
      <4> HIDE DEF q, z
      <4>2. z \in LineStates
        BY <3>0 DEF z
      <4>3. /\ y \in LineStates /\ y.content = z.content /\ y.spaceOnly = z.spaceOnly /\ y.textSeen = z.textSeen
            /\ y.closed = z.closed /\ y.alignSeen = z.alignSeen /\ y.wrapSeen = z.wrapSeen
            /\ y.fills = z.fills /\ y.sole = TRUE /\ y.printing = z.printing
        BY <4>2 DEF LineStates
      <4> HIDE DEF y, r
      <4> QED
        BY <3>0, <3>1, <4>1, <4>3 DEF z
    <3>2. CASE tag = "bar"
      <4> DEFINE z == r(TRUE)
                 y == [z EXCEPT !.blockSeen = TRUE]
      <4>1. z \in LineStates /\ z = [z EXCEPT !.closed = @]
        BY <3>0 DEF LineStates
      <4>2. q = y
        <5>1. q = PlacedBlock(Owner, "bar")
          BY <3>2
        <5>2. "bar" \in SharesALine
          BY DEF SharesALine
        <5>3. PlacedBlock(Owner, "bar") = [z EXCEPT !.blockSeen = TRUE, !.closed = @]
          BY <5>2 DEF PlacedBlock
        <5> HIDE DEF q, z
        <5> QED
          BY <4>1, <5>1, <5>3 DEF LineStates
      <4> HIDE DEF q, z
      <4>3. /\ y \in LineStates /\ y.content = z.content /\ y.spaceOnly = z.spaceOnly /\ y.textSeen = z.textSeen
            /\ y.closed = z.closed /\ y.alignSeen = z.alignSeen /\ y.wrapSeen = z.wrapSeen
            /\ y.fills = z.fills /\ y.sole = z.sole /\ y.printing = z.printing
        BY <4>1 DEF LineStates
      <4> HIDE DEF y, r
      <4>4. Owner.sole \in BOOLEAN
        BY <1>3 DEF LineStates
      <4> QED
        BY <3>0, <3>2, <4>2, <4>3, <4>4 DEF z
    <3>3. CASE tag = "cut"
      <4>1. q = r(TRUE)
        BY <3>3
      <4>2. Owner.sole \in BOOLEAN
        BY <1>3 DEF LineStates
      <4> HIDE DEF q, r
      <4> QED
        BY <3>0, <3>3, <4>1, <4>2
    <3>4. CASE tag = "drawer"
      <4>1. q = r(FALSE)
        BY <3>4
      <4>2. Owner.sole \in BOOLEAN
        BY <1>3 DEF LineStates
      <4> HIDE DEF q, r
      <4> QED
        BY <3>0, <3>4, <4>1, <4>2
    <3> QED
      BY <2>1, <3>1, <3>2, <3>3, <3>4
  <2>4. ServerVoid(tag) = u
    <3> DEFINE v == CASE tag = "fill"   -> [Placed(Owner, FALSE) EXCEPT !.fills = TRUE]
                      [] tag = "hr"     -> [Placed(Owner, TRUE) EXCEPT !.sole = TRUE]
                      [] tag = "bar"    -> PlacedBlock(Owner, tag)
                      [] tag = "cut"    -> Placed(Owner, TRUE)
                      [] tag = "drawer" -> Placed(Owner, FALSE)
    <3>1. ServerVoid(tag) = Printing(Owning(v), tag)
      BY DEF ServerVoid
    <3>2. v = q
      BY <2>1
    <3> HIDE DEF v, q
    <3> QED
      BY <3>1, <3>2
  <2> HIDE DEF q
  <2>5. ASSUME NEW then \in PrintedLines, Recalls(tree.owners[1], tree.line), Owner = tree.owners[1],
               then.cells = tree.line.cells, then.directives = Append(tree.line.directives, tag)
        PROVE  Recalls(q, then)
    <3> DEFINE p == Owner
    <3>1. p \in LineStates /\ Recalls(p, tree.line) /\ p.closed = "no"
      BY <1>2, <1>3, <2>5
    <3>2. /\ q.content /\ ~q.spaceOnly /\ q.textSeen = p.textSeen /\ q.fills = p.fills
          /\ q.printing = IF tag # "drawer" /\ p.printing < 2 THEN p.printing + 1 ELSE p.printing
          /\ p.sole \/ tag \in Symbols \cup {"hr"} => q.sole
          /\ tag \notin Regions => p.closed = "no"
          /\ tag \in Regions => p.spaceOnly /\ q.closed # "no"
      BY <2>2, <2>3, <3>1
    <3> HIDE DEF p
    <3> QED
      BY <1>3, <2>2, <2>3, <2>5, <3>1, <3>2, MarkRecalled
  <2>8. \A then \in PrintedLines :
           /\ Recalls(tree.owners[1], tree.line) /\ Owner = tree.owners[1]
           /\ tag \in Printable => then.cells = tree.line.cells
                                   /\ then.directives = Append(tree.line.directives, tag)
           /\ tag \notin Printable => /\ then.cells = Append(tree.line.cells, [what |-> tag, style |-> StyleHere])
                                      /\ then.directives = tree.line.directives
           => Recalls(q, then)
    BY <2>2, <2>5
  <2>6. /\ ServerInv(u) /\ u.frames = Frames /\ Like(tree.line, u.line)
        /\ OnPaper => u.owners[1] = q
        /\ OnPaper /\ tag \in Printable =>
               u.line.cells = tree.line.cells /\ u.line.directives = Append(tree.line.directives, tag)
    BY <1>2, <2>2, <2>3, <2>8, PlacedServed
  <2> HIDE DEF u
  <2>7. OnPaper => Owner = tree.owners[1] /\ tree.owners[1].fills \in BOOLEAN
    BY <1>3 DEF LineStates
  <2> QED
    BY <1>7, <2>1, <2>2, <2>3, <2>4, <2>6, <2>7
<1> QED
  BY <1>6, <1>7

\* A tag is opened inside what is open.
LEMMA NestedOpens ==
    ASSUME NEW t \in Trees, NEW u \in Trees, Nested(t), NEW tag \in Tags,
           \A i \in DOMAIN t.frames : t.frames[i] \notin Symbols,
           u.frames = Append(t.frames, tag),
           Len(u.owners) = Len(t.owners) + (IF tag \in Regions THEN 1 ELSE 0), Len(t.owners) \in Nat \ {0},
           Len(u.owners) > 1 => u.owners[1].spaceOnly,
           tag \in SharesALine => RegsOf(t.frames) # {},
           tag \in Symbols => Len(t.owners) = 1 /\ u.owners[1].sole /\ u.owners[1].closed = "no"
    PROVE  Nested(u)
<1> DEFINE f == t.frames
           g == u.frames
<1>1. f \in Seq(Tags)
  BY DEF Trees
<1>2. /\ DOMAIN f = 1 .. Len(f) /\ Len(f) \in Nat /\ Len(f) + 1 \in DOMAIN g /\ g[Len(f) + 1] = tag
      /\ \A i \in DOMAIN g : i \in DOMAIN f \/ i = Len(f) + 1
      /\ \A i \in DOMAIN f : i \in DOMAIN g /\ g[i] = f[i] /\ i # Len(f) + 1
      /\ Len(g) = Len(f) + 1
  BY <1>1, Grown
<1>3. /\ RegsOf(g) = IF tag \in Regions THEN RegsOf(f) \cup {Len(f) + 1} ELSE RegsOf(f)
      /\ Cardinality(RegsOf(f)) \in Nat
      /\ Cardinality(RegsOf(g)) = Cardinality(RegsOf(f)) + (IF tag \in Regions THEN 1 ELSE 0)
  <2>1. g = Append(f, tag)
    OBVIOUS
  <2> HIDE DEF f, g
  <2> QED
    BY <1>1, <2>1, RegsGrow
<1> HIDE DEF f, g
<1>4. Len(u.owners) = Cardinality(RegsOf(g)) + 1
  <2>1. Len(t.owners) = Cardinality(RegsOf(f)) + 1
    BY DEF Nested, f
  <2> QED
    BY <1>3, <2>1
<1>5. \A i \in DOMAIN g : g[i] \in SharesALine => \E j \in RegsOf(g) : j < i
  <2> SUFFICES ASSUME NEW i \in DOMAIN g, g[i] \in SharesALine PROVE \E j \in RegsOf(g) : j < i
    OBVIOUS
  <2>1. RegsOf(f) \subseteq RegsOf(g)
    BY <1>3
  <2>2. CASE i \in DOMAIN f
    <3>1. f[i] \in SharesALine
      BY <1>2, <2>2
    <3> QED
      BY <2>1, <2>2, <3>1 DEF Nested, f
  <2>3. CASE i = Len(f) + 1
    <3>1. PICK j \in RegsOf(f) : TRUE
      BY <1>2, <2>3 DEF f
    <3>2. j \in 1 .. Len(f)
      BY <1>2 DEF RegsOf
    <3> QED
      BY <1>2, <2>1, <2>3, <3>2
  <2> QED
    BY <1>2, <2>2, <2>3
<1>6. \A i \in DOMAIN g : g[i] \in Symbols =>
         i = Len(g) /\ Len(u.owners) = 1 /\ u.owners[1].sole /\ u.owners[1].closed = "no"
  <2> SUFFICES ASSUME NEW i \in DOMAIN g, g[i] \in Symbols
               PROVE  i = Len(g) /\ Len(u.owners) = 1 /\ u.owners[1].sole /\ u.owners[1].closed = "no"
    OBVIOUS
  <2>1. i = Len(f) + 1 /\ tag \in Symbols
    BY <1>2 DEF f
  <2>2. tag \notin Regions
    BY <2>1 DEF Symbols, Regions, Blocks, Data
  <2> QED
    BY <1>2, <2>1, <2>2
<1> QED
  BY <1>4, <1>5, <1>6 DEF Nested, g

\* An opened tag keeps what the server knows of its tree.
LEMMA OpenServed ==
    ASSUME ServerInv(tree), NEW tag \in Tags, ServerTakesOpen(tag)
    PROVE  LET u == ServerOpen(tag)
               p == tree.owners[1]
               q == u.owners[1]
           IN  /\ ServerInv(u) /\ u.frames = Append(Frames, tag) /\ u.line.hushed = tree.line.hushed
               /\ u.line.cells = tree.line.cells /\ u.line.directives = tree.line.directives
               /\ OnPaper /\ tag \notin Regions =>
                      /\ q.content = p.content /\ q.textSeen = p.textSeen /\ q.fills = p.fills
                      /\ q.printing = p.printing /\ q.closed = p.closed
                      /\ q.alignSeen = (p.alignSeen \/ tag \in Aligns)
                      /\ q.wrapSeen = (p.wrapSeen \/ tag \in Wraps) /\ q.sole = (p.sole \/ tag \in Symbols)
                      /\ u.line.align = (IF tag \in Aligns THEN tag ELSE tree.line.align)
                      /\ u.line.wrap = (IF tag \in Wraps THEN tag ELSE tree.line.wrap)
<1> DEFINE p == tree.owners[1]
           new == IF tag = "item" THEN FreshLine ELSE BlockLine
           grown == Append(tree.owners, new)
           q == IF tag \in Aligns THEN [Owner EXCEPT !.alignSeen = TRUE]
                ELSE IF tag \in Wraps THEN [Owner EXCEPT !.wrapSeen = TRUE]
                ELSE IF tag \in Symbols THEN [Owner EXCEPT !.sole = TRUE] ELSE Owner
           t == IF tag \in Regions THEN [tree EXCEPT !.owners = grown] ELSE Owning(q)
           frames == Append(Frames, tag)
           own == OnPaper /\ tag \in Aligns \cup Wraps
           line == [align |-> IF own /\ tag \in Aligns THEN tag ELSE tree.line.align,
                    wrap |-> IF own /\ tag \in Wraps THEN tag ELSE tree.line.wrap,
                    cells |-> tree.line.cells, directives |-> tree.line.directives,
                    hushed |-> tree.line.hushed,
                    late |-> tree.line.late \/ (own /\ Things(tree.line) > 0)]
           u == [frames |-> frames, owners |-> t.owners, line |-> line]
<1>1. tree \in Trees /\ tree.owners # <<>> /\ Nested(tree) /\ LineKept(tree)
  BY DEF ServerInv
<1>2. /\ tree.owners \in Seq(LineStates) /\ tree.frames \in Seq(Tags) /\ tree.line \in PrintedLines
      /\ tree = [frames |-> tree.frames, owners |-> tree.owners, line |-> tree.line]
      /\ Depth = Len(tree.owners) /\ Depth \in Nat \ {0} /\ (OnPaper <=> Depth = 1)
      /\ Owner \in LineStates /\ p \in LineStates /\ (OnPaper => Owner = p)
      /\ Frames = tree.frames /\ Frames \in Seq(Tags)
  BY <1>1, OwnerIs
<1>3. /\ tree.line.cells \in Seq(PrintedCells) /\ tree.line.directives \in Seq(Printable)
      /\ tree.line.align \in Aligns \cup {"none"} /\ tree.line.wrap \in Wraps \cup {"none"}
      /\ tree.line.hushed \in BOOLEAN /\ tree.line.late \in BOOLEAN
      /\ tree.line = [align |-> tree.line.align, wrap |-> tree.line.wrap, cells |-> tree.line.cells,
                      directives |-> tree.line.directives, hushed |-> tree.line.hushed,
                      late |-> tree.line.late]
  BY <1>2 DEF PrintedLines
<1>4. /\ tag \in Aligns => tag \notin Wraps \cup Symbols \cup Regions
      /\ tag \in Wraps => tag \notin Symbols \cup Regions
      /\ tag \in Symbols => tag \notin Regions /\ tag \notin Aligns /\ tag \notin Wraps
      /\ tag \in Styles => tag \notin Aligns \cup Wraps \cup Symbols \cup Regions
      /\ tag \in Aligns \cup Wraps \cup Symbols \cup Regions \cup Styles
  BY DEF Aligns, Wraps, Symbols, Regions, Blocks, Data, Styles, Tags, Scopes
<1>5. /\ q \in LineStates /\ q.content = Owner.content /\ q.textSeen = Owner.textSeen /\ q.fills = Owner.fills
      /\ q.printing = Owner.printing /\ q.closed = Owner.closed /\ q.spaceOnly = Owner.spaceOnly
      /\ q.alignSeen = (Owner.alignSeen \/ tag \in Aligns)
      /\ q.wrapSeen = (Owner.wrapSeen \/ tag \in Wraps) /\ q.sole = (Owner.sole \/ tag \in Symbols)
  <2>1. CASE tag \in Aligns
    <3>1. q = [Owner EXCEPT !.alignSeen = TRUE]
      BY <2>1
    <3> HIDE DEF q
    <3> QED
      BY <1>2, <1>4, <2>1, <3>1 DEF LineStates
  <2>2. CASE tag \in Wraps
    <3>1. q = [Owner EXCEPT !.wrapSeen = TRUE]
      BY <1>4, <2>2
    <3> HIDE DEF q
    <3> QED
      BY <1>2, <1>4, <2>2, <3>1 DEF LineStates
  <2>3. CASE tag \in Symbols
    <3>1. q = [Owner EXCEPT !.sole = TRUE]
      BY <1>4, <2>3
    <3> HIDE DEF q
    <3> QED
      BY <1>2, <1>4, <2>3, <3>1 DEF LineStates
  <2>4. CASE tag \notin Aligns \cup Wraps \cup Symbols
    <3>1. q = Owner
      BY <2>4
    <3> HIDE DEF q
    <3> QED
      BY <1>2, <2>4, <3>1 DEF LineStates
  <2> QED
    BY <2>1, <2>2, <2>3, <2>4
<1>6. new \in LineStates
  BY DEF FreshLine, BlockLine, LineStates
<1> HIDE DEF q, new
<1>7. /\ Owning(q) \in Trees /\ Owning(q).frames = Frames /\ Owning(q).line = tree.line
      /\ Len(Owning(q).owners) = Depth /\ Owning(q).owners # <<>>
      /\ Owning(q).owners[1] = IF OnPaper THEN q ELSE p
  BY <1>1, <1>2, <1>5, OwningIs
<1>8. /\ grown \in Seq(LineStates) /\ grown # <<>> /\ Len(grown) = Depth + 1 /\ grown[1] = p
  <2>1. 1 \in 1 .. Len(tree.owners)
    BY <1>2
  <2> QED
    BY <1>2, <1>6, <2>1, AppendProperties
<1> HIDE DEF grown
<1>9. /\ t \in Trees /\ t.frames = Frames /\ t.line = tree.line /\ t.owners \in Seq(LineStates)
      /\ Len(t.owners) = Depth + (IF tag \in Regions THEN 1 ELSE 0) /\ t.owners # <<>>
      /\ t.owners[1] = IF OnPaper /\ tag \notin Regions THEN q ELSE p
      /\ t = [frames |-> Frames, owners |-> t.owners, line |-> tree.line]
  <2>1. CASE tag \in Regions
    <3>1. t = [tree EXCEPT !.owners = grown]
      BY <2>1
    <3>2. [tree EXCEPT !.owners = grown] = [frames |-> Frames, owners |-> grown, line |-> tree.line]
      BY <1>2
    <3> HIDE DEF t
    <3> QED
      BY <1>2, <1>8, <2>1, <3>1, <3>2 DEF Trees
  <2>2. CASE tag \notin Regions
    <3>1. t = Owning(q)
      BY <2>2
    <3> HIDE DEF t
    <3> QED
      BY <1>2, <1>7, <2>2, <3>1 DEF Trees
  <2> QED
    BY <2>1, <2>2
<1>10. frames \in Seq(Tags)
  BY <1>2, AppendProperties
<1>11. line \in PrintedLines
  BY <1>3 DEF PrintedLines
<1>12. ServerOpen(tag) = u
  <2> DEFINE v == CASE tag \in Aligns  -> Owning([Owner EXCEPT !.alignSeen = TRUE])
               [] tag \in Wraps   -> Owning([Owner EXCEPT !.wrapSeen = TRUE])
               [] tag \in Symbols -> Owning([Owner EXCEPT !.sole = TRUE])
               [] tag \in Regions ->
                      [tree EXCEPT !.owners = Append(@, IF tag = "item" THEN FreshLine ELSE BlockLine)]
               [] OTHER -> tree
             w == [v EXCEPT !.frames = Append(@, tag)]
             z == [w EXCEPT !.line.late = @ \/ Things(tree.line) > 0,
                       !.line.align = IF tag \in Aligns THEN tag ELSE @,
                       !.line.wrap = IF tag \in Wraps THEN tag ELSE @]
  <2>1. ServerOpen(tag) = IF ~OnPaper \/ tag \notin Aligns \cup Wraps THEN w ELSE z
    BY DEF ServerOpen
  <2>2. v = t
    <3>1. CASE tag \in Aligns
      BY <1>4, <3>1 DEF q
    <3>2. CASE tag \in Wraps
      BY <1>4, <3>2 DEF q
    <3>3. CASE tag \in Symbols
      BY <1>4, <3>3 DEF q
    <3>4. CASE tag \in Regions
      BY <1>4, <3>4 DEF grown, new
    <3>5. CASE tag \in Styles
      <4>1. v = tree /\ t = Owning(q)
        BY <1>4, <3>5
      <4>2. q = Owner
        BY <1>4, <3>5 DEF q
      <4>3. Owning(Owner) = tree
        <5>1. [tree.owners EXCEPT ![Depth] = Owner] = tree.owners
          <6>1. Owner = tree.owners[Depth]
            BY <1>1, OwnerIs
          <6>2. tree.owners \in [1 .. Len(tree.owners) -> LineStates]
            BY <1>2, LenProperties
          <6> QED
            BY <6>1, <6>2
        <5>2. Owning(Owner) = [tree EXCEPT !.owners = [tree.owners EXCEPT ![Depth] = Owner]]
          BY DEF Owning
        <5> QED
          BY <1>2, <5>1, <5>2
      <4> HIDE DEF v, t
      <4> QED
        BY <4>1, <4>2, <4>3
    <3> HIDE DEF v, t
    <3> QED
      BY <1>4, <3>1, <3>2, <3>3, <3>4, <3>5
  <2> HIDE DEF v, t
  <2>3. w = [frames |-> frames, owners |-> t.owners, line |-> tree.line]
    <3>1. Append(v.frames, tag) = frames
      BY <1>9, <2>2
    <3> HIDE DEF frames
    <3>2. w = [t EXCEPT !.frames = frames]
      BY <2>2, <3>1
    <3> HIDE DEF w, line, u, own, z
    <3> QED
      BY <1>9, <3>2
  <2>4. CASE ~own
    <3>1. line = tree.line
      BY <1>3, <2>4
    <3> HIDE DEF w, line
    <3> QED
      BY <2>1, <2>3, <2>4, <3>1
  <2>5. CASE own
    <3>1. ServerOpen(tag) = z
      BY <2>1, <2>5
    <3> DEFINE y == [tree.line EXCEPT !.late = @ \/ Things(tree.line) > 0,
                                    !.align = IF tag \in Aligns THEN tag ELSE @,
                                    !.wrap = IF tag \in Wraps THEN tag ELSE @]
    <3> DEFINE a == IF tag \in Aligns THEN tag ELSE tree.line.align
               b == IF tag \in Wraps THEN tag ELSE tree.line.wrap
               l == tree.line.late \/ Things(tree.line) > 0
               x == [align |-> a, wrap |-> b, cells |-> tree.line.cells, directives |-> tree.line.directives,
                     hushed |-> tree.line.hushed, late |-> l]
    <3>2. y = line
      <4>1. y = [tree.line EXCEPT !.late = l, !.align = a, !.wrap = b]
        OBVIOUS
      <4>2. line = x
        <5>1. /\ (IF own /\ tag \in Aligns THEN tag ELSE tree.line.align) = a
              /\ (IF own /\ tag \in Wraps THEN tag ELSE tree.line.wrap) = b
              /\ (tree.line.late \/ (own /\ Things(tree.line) > 0)) = l
          BY <2>5
        <5> HIDE DEF own, a, b, l
        <5> QED
          BY <5>1
      <4> HIDE DEF y, line, a, b, l, w, z, u
      <4> DEFINE k == tree.line
      <4>3. k = [align |-> k.align, wrap |-> k.wrap, cells |-> k.cells, directives |-> k.directives,
                 hushed |-> k.hushed, late |-> k.late]
        BY <1>3
      <4> HIDE DEF k
      <4> DEFINE k1 == [k EXCEPT !.late = l]
                 k2 == [k1 EXCEPT !.align = a]
                 k3 == [k2 EXCEPT !.wrap = b]
      <4>4. [k EXCEPT !.late = l, !.align = a, !.wrap = b] = k3
        OBVIOUS
      <4>5. k1 = [align |-> k.align, wrap |-> k.wrap, cells |-> k.cells, directives |-> k.directives,
                  hushed |-> k.hushed, late |-> l]
        BY ONLY <4>3
      <4> HIDE DEF k1
      <4>6. k2 = [align |-> a, wrap |-> k.wrap, cells |-> k.cells, directives |-> k.directives,
                  hushed |-> k.hushed, late |-> l]
        BY ONLY <4>5
      <4> HIDE DEF k2
      <4>7. k3 = [align |-> a, wrap |-> b, cells |-> k.cells, directives |-> k.directives,
                  hushed |-> k.hushed, late |-> l]
        BY ONLY <4>6
      <4> HIDE DEF k3
      <4>8. k3 = x
        BY ONLY <4>7 DEF k, x
      <4> HIDE DEF x
      <4> QED
        BY <4>1, <4>2, <4>4, <4>8 DEF k
    <3>3. z = [frames |-> frames, owners |-> t.owners, line |-> y]
      <4> DEFINE r == w.line
      <4>1. z = [w EXCEPT !.line = [r EXCEPT !.late = @ \/ Things(tree.line) > 0,
                                    !.align = IF tag \in Aligns THEN tag ELSE @,
                                    !.wrap = IF tag \in Wraps THEN tag ELSE @]]
        OBVIOUS
      <4>2. r = tree.line
        BY <2>3
      <4> HIDE DEF z, w, r
      <4>3. z = [w EXCEPT !.line = y]
        BY <4>1, <4>2
      <4> HIDE DEF y
      <4> QED
        BY <2>3, <4>3
    <3> HIDE DEF z, line, y
    <3> QED
      BY <3>1, <3>2, <3>3
  <2> QED
    BY <2>4, <2>5
<1> HIDE DEF t
<1>13. u \in Trees
  <2> HIDE DEF line, frames
  <2> QED
    BY <1>9, <1>10, <1>11 DEF Trees
<1>14. \A i \in DOMAIN tree.frames : tree.frames[i] \notin Symbols
  BY <1>2, NoSymbols DEF ServerTakesOpen
<1>15. Nested(u)
  <2>0. u.frames = frames /\ u.owners = t.owners
    OBVIOUS
  <2> HIDE DEF u, line, own
  <2>1. Inside # "none" => tag \notin Symbols
    BY DEF ServerTakesOpen, MayStand, PrinterDrawn
  <2>2. tag \in SharesALine /\ tag \in Regions => RegsOf(tree.frames) # {}
    <3> SUFFICES ASSUME tag \in SharesALine, tag \in Regions PROVE RegsOf(tree.frames) # {}
      OBVIOUS
    <3>1. tag \in DOMAIN RequiredParent
      BY DEF SharesALine, Regions, Blocks, Data, RequiredParent
    <3>2. Inside = RequiredParent[tag]
      BY <3>1 DEF ServerTakesOpen, MayStand
    <3>3. Inside # "none"
      BY <3>1, <3>2 DEF RequiredParent
    <3> QED
      BY <1>1, <1>2, <3>3, InsideIs
  <2>3. tag \in SharesALine => tag \in Regions
    BY <1>4 DEF SharesALine, Regions, Blocks, Data, Aligns, Wraps, Symbols, Styles
  <2>4. (Inside = "none" <=> RegsOf(tree.frames) = {})
    BY <1>1, <1>2, InsideIs
  <2>5. Cardinality(RegsOf(tree.frames)) \in Nat /\ (Cardinality(RegsOf(tree.frames)) = 0 <=> RegsOf(tree.frames) = {})
    BY <1>2, RegsGrow
  <2>6. Depth = Cardinality(RegsOf(tree.frames)) + 1
    BY <1>1, <1>2 DEF Nested
  <2>7. Depth = 1 <=> RegsOf(tree.frames) = {}
    BY <2>5, <2>6
  <2>8. tag \in Symbols => Depth = 1 /\ u.owners[1].sole /\ u.owners[1].closed = "no"
    <3> SUFFICES ASSUME tag \in Symbols PROVE Depth = 1 /\ u.owners[1].sole /\ u.owners[1].closed = "no"
      OBVIOUS
    <3>1. Depth = 1
      BY <2>1, <2>4, <2>7
    <3>2. Owner.closed = "no"
      BY DEF ServerTakesOpen
    <3>3. u.owners[1] = q
      BY <1>2, <1>4, <1>9, <2>0, <3>1
    <3> QED
      BY <1>5, <3>1, <3>2, <3>3
  <2>9. Len(u.owners) > 1 => u.owners[1].spaceOnly
    <3> SUFFICES ASSUME Len(u.owners) > 1 PROVE u.owners[1].spaceOnly
      OBVIOUS
    <3>0. \A n \in Nat \ {0} : (n = 1 \/ n > 1) /\ ~(n = 1 /\ n > 1) /\ n + 0 = n
      OBVIOUS
    <3>1. CASE Depth > 1
      <4>0. Depth # 1
        BY <1>2, <3>0, <3>1
      <4>1. u.owners[1] = p
        BY <1>2, <1>9, <2>0, <4>0
      <4> QED
        BY <1>1, <1>2, <3>1, <4>1 DEF Nested
    <3>2. CASE Depth = 1
      <4>1. tag \in Regions
        <5> SUFFICES ASSUME tag \notin Regions PROVE FALSE
          OBVIOUS
        <5>1. Len(u.owners) = Depth + 0
          BY <1>9, <2>0
        <5> QED
          BY <1>2, <3>0, <3>2, <5>1
      <4>2. tag \notin SharesALine
        BY <2>2, <2>7, <3>2, <4>1
      <4>3. Owner.spaceOnly
        BY <4>1, <4>2 DEF ServerTakesOpen, BlockCanOpen
      <4> QED
        BY <1>2, <1>9, <2>0, <3>2, <4>1, <4>3
    <3> QED
      BY <1>2, <3>0, <3>1, <3>2
  <2>10. /\ u.frames = Append(tree.frames, tag)
         /\ Len(u.owners) = Len(tree.owners) + (IF tag \in Regions THEN 1 ELSE 0)
         /\ Len(tree.owners) \in Nat \ {0}
    BY <1>2, <1>9, <2>0
  <2> QED
    BY <1>1, <1>2, <1>13, <1>14, <2>2, <2>3, <2>8, <2>9, <2>10, NestedOpens
<1>16. LineKept(u)
  <2> SUFFICES ASSUME ~u.line.hushed PROVE Recalls(u.owners[1], u.line) /\ ~u.line.late
    BY DEF LineKept
  <2>1. Recalls(p, tree.line) /\ ~tree.line.late
    BY <1>1 DEF LineKept
  <2>2. Recalls(u.owners[1], tree.line)
    <3>1. CASE OnPaper /\ tag \notin Regions
      <4>1. u.owners[1] = q
        BY <1>9, <3>1
      <4>2. q.closed = p.closed /\ q.content = p.content /\ q.textSeen = p.textSeen /\ q.fills = p.fills
            /\ q.printing = p.printing /\ (p.sole => q.sole) /\ q.spaceOnly = p.spaceOnly
        BY <1>2, <1>5, <3>1
      <4> QED
        BY <2>1, <4>1, <4>2, StillRecalled
    <3>2. CASE ~(OnPaper /\ tag \notin Regions)
      BY <1>9, <2>1, <3>2
    <3> QED
      BY <3>1, <3>2
  <2>3. Recalls(u.owners[1], u.line)
    <3>1. u.line.cells = tree.line.cells /\ u.line.directives = tree.line.directives
      OBVIOUS
    <3> HIDE DEF u
    <3> QED
      BY <2>2, <3>1, SameThings
  <2>4. own => ~(Things(tree.line) > 0)
    <3> SUFFICES ASSUME own PROVE ~(Things(tree.line) > 0)
      OBVIOUS
    <3>1. ~Owner.content
      BY DEF ServerTakesOpen, OwnerCanOpen
    <3>2. ~p.content
      BY <1>2, <3>1
    <3>3. tree.line.cells = <<>> /\ tree.line.directives = <<>>
      BY <2>1, <3>2 DEF Recalls
    <3> QED
      BY <1>2, <3>3, ThingsAre
  <2>5. ~u.line.late
    <3>1. u.line.late = (tree.line.late \/ (own /\ Things(tree.line) > 0))
      OBVIOUS
    <3> HIDE DEF u, line, own
    <3> QED
      BY <2>1, <2>4, <3>1
  <2> QED
    BY <2>3, <2>5
<1>17. ServerInv(u)
  <2> HIDE DEF u
  <2>1. u.owners = t.owners
    BY DEF u
  <2> QED
    BY <1>9, <1>13, <1>15, <1>16, <2>1 DEF ServerInv
<1>18. /\ u.frames = Append(Frames, tag) /\ u.line.hushed = tree.line.hushed
       /\ u.line.cells = tree.line.cells /\ u.line.directives = tree.line.directives
       /\ u.owners[1] = t.owners[1]
       /\ OnPaper => /\ u.line.align = (IF tag \in Aligns THEN tag ELSE tree.line.align)
                     /\ u.line.wrap = (IF tag \in Wraps THEN tag ELSE tree.line.wrap)
  OBVIOUS
<1> HIDE DEF u
<1>19. OnPaper /\ tag \notin Regions => u.owners[1] = q /\ Owner = p
  BY <1>2, <1>9, <1>18
<1> QED
  BY <1>5, <1>12, <1>17, <1>18, <1>19

\* And closed before what it is inside of; a region of the printed line has no other around it.
LEMMA NestedCloses ==
    ASSUME NEW t \in Trees, Nested(t), NEW f, f = t.frames, f # <<>>, NEW tag, tag = Last(f), NEW g, g = Front(f)
    PROVE  /\ Len(t.owners) \in Nat \ {0} /\ \A i \in DOMAIN g : g[i] \notin Symbols
           /\ tag \in Regions => Len(t.owners) > 1
           /\ tag \in Regions /\ Len(t.owners) = 2 => tag \notin SharesALine
           /\ tag \in Symbols => Len(t.owners) = 1 /\ t.owners[1].sole /\ t.owners[1].closed = "no"
           /\ \A u : /\ u.frames = g
                     /\ Len(u.owners) = IF tag \in Regions THEN Len(t.owners) - 1 ELSE Len(t.owners)
                     /\ Len(u.owners) > 1 => u.owners[1].spaceOnly
                     => Nested(u)
<1>1. f \in Seq(Tags)
  BY DEF Trees
<1>2. /\ g \in Seq(Tags) /\ Len(g) = Len(f) - 1 /\ Len(f) \in Nat \ {0}
      /\ \A i \in DOMAIN g : i \in DOMAIN f /\ g[i] = f[i] /\ i # Len(f)
      /\ \A i \in DOMAIN f : i \in DOMAIN g \/ i = Len(f)
      /\ tag = f[Len(f)] /\ tag \in Tags /\ Len(f) \in DOMAIN f
      /\ f = Append(g, tag) /\ DOMAIN f = 1 .. Len(f)
  BY <1>1, Shrunk
<1>3. /\ RegsOf(f) = IF tag \in Regions THEN RegsOf(g) \cup {Len(g) + 1} ELSE RegsOf(g)
      /\ Cardinality(RegsOf(g)) \in Nat /\ (Cardinality(RegsOf(g)) = 0 <=> RegsOf(g) = {})
      /\ Cardinality(RegsOf(f)) = Cardinality(RegsOf(g)) + (IF tag \in Regions THEN 1 ELSE 0)
  <2>1. g \in Seq(Tags) /\ tag \in Tags /\ f = Append(g, tag)
    BY <1>2
  <2> QED
    BY ONLY <2>1, RegsGrow
<1>4. Len(t.owners) = Cardinality(RegsOf(f)) + 1
  BY DEF Nested
<1> DEFINE n == Cardinality(RegsOf(g))
           m == Len(t.owners)
<1>5. n \in Nat /\ m = (IF tag \in Regions THEN n + 1 ELSE n) + 1
  BY <1>3, <1>4
<1>6. \A i \in DOMAIN f : f[i] \in SharesALine => \E j \in RegsOf(f) : j < i
  BY DEF Nested
<1>7. \A i \in DOMAIN g : g[i] \in SharesALine => \E j \in RegsOf(g) : j < i
  <2> SUFFICES ASSUME NEW i \in DOMAIN g, g[i] \in SharesALine PROVE \E j \in RegsOf(g) : j < i
    OBVIOUS
  <2>1. i \in DOMAIN f /\ f[i] \in SharesALine /\ i # Len(f)
    BY <1>2
  <2>2. PICK j \in RegsOf(f) : j < i
    BY <1>6, <2>1
  <2>3. j # Len(f)
    BY <1>2, <2>1, <2>2
  <2>4. j \in RegsOf(g)
    <3>1. j \in DOMAIN f /\ f[j] \in Regions
      BY DEF RegsOf
    <3>2. j \in DOMAIN g
      BY <1>2, <2>3, <3>1
    <3>3. g[j] = f[j]
      BY <1>2, <3>2
    <3> QED
      BY <3>1, <3>2, <3>3 DEF RegsOf
  <2> QED
    BY <2>2, <2>4
<1>8. \A i \in DOMAIN f : f[i] \in Symbols =>
         i = Len(f) /\ Len(t.owners) = 1 /\ t.owners[1].sole /\ t.owners[1].closed = "no"
  BY DEF Nested
<1>9. \A i \in DOMAIN g : g[i] \notin Symbols
  BY <1>2, <1>8
<1>10. ASSUME NEW u, u.frames = g, Len(u.owners) = IF tag \in Regions THEN m - 1 ELSE m,
              Len(u.owners) > 1 => u.owners[1].spaceOnly
       PROVE  Nested(u)
  <2>1. Len(u.owners) = n + 1
    <3> HIDE DEF n, m
    <3> QED
      BY <1>5, <1>10
  <2> QED
    BY <1>7, <1>9, <1>10, <2>1 DEF Nested
<1>11. tag \in Regions => m > 1
  <2> HIDE DEF n, m
  <2> QED
    BY <1>5
<1>12. tag \in Regions /\ m = 2 => tag \notin SharesALine
  <2> SUFFICES ASSUME tag \in Regions, m = 2, tag \in SharesALine PROVE FALSE
    OBVIOUS
  <2>1. n = 0
    <3> HIDE DEF n, m
    <3> QED
      BY <1>5
  <2>2. RegsOf(f) = {Len(g) + 1}
    BY <1>3, <2>1
  <2>3. Len(f) \in DOMAIN f /\ f[Len(f)] \in SharesALine
    BY <1>2
  <2>4. PICK j \in RegsOf(f) : j < Len(f)
    BY <1>6, <2>3
  <2>5. j = Len(g) + 1 /\ Len(g) = Len(f) - 1 /\ Len(f) \in Nat
    BY <1>2, <2>2
  <2> QED
    BY ONLY <2>4, <2>5
<1>13. m \in Nat \ {0}
  <2> HIDE DEF n, m
  <2> QED
    BY <1>5
<1>14. tag \in Symbols => m = 1 /\ t.owners[1].sole /\ t.owners[1].closed = "no"
  BY <1>2, <1>8
<1> QED
  BY <1>9, <1>10, <1>11, <1>12, <1>13, <1>14

\* A closed tag keeps what the server knows of its tree.
LEMMA CloseServed ==
    ASSUME ServerInv(tree), NEW tag \in Tags, ServerTakesClose(tag)
    PROVE  LET u == ServerClose(tag)
               p == tree.owners[1]
               q == u.owners[1]
           IN  /\ ServerInv(u) /\ Frames # <<>> /\ u.frames = Front(Frames) /\ Like(tree.line, u.line)
               /\ tag = Last(Frames) /\ \A i \in DOMAIN u.frames : u.frames[i] \notin Symbols
               /\ OnPaper =>
                      /\ u.line.cells = tree.line.cells
                      /\ u.line.directives = IF tag \in Symbols THEN Append(tree.line.directives, tag)
                                             ELSE tree.line.directives
                      /\ q.content = (p.content \/ tag \in Symbols) /\ q.textSeen = p.textSeen
                      /\ q.fills = p.fills /\ q.alignSeen = p.alignSeen /\ q.wrapSeen = p.wrapSeen
                      /\ q.sole = p.sole
                      /\ q.printing = IF tag \in Symbols /\ p.printing < 2 THEN p.printing + 1 ELSE p.printing
                      /\ q.closed = IF tag \in Aligns THEN "align" ELSE IF tag \in Wraps THEN "wrap" ELSE p.closed
<1> DEFINE p == tree.owners[1]
           t == [tree EXCEPT !.frames = Front(@)]
           u == ServerClose(tag)
<1>1. tree \in Trees /\ tree.owners # <<>> /\ Nested(tree) /\ LineKept(tree)
  BY DEF ServerInv
<1>2. /\ tree.owners \in Seq(LineStates) /\ tree.frames \in Seq(Tags) /\ tree.line \in PrintedLines
      /\ tree = [frames |-> tree.frames, owners |-> tree.owners, line |-> tree.line]
      /\ Depth = Len(tree.owners) /\ Depth \in Nat \ {0} /\ (OnPaper <=> Depth = 1)
      /\ Owner = tree.owners[Depth] /\ Owner \in LineStates /\ p \in LineStates /\ (OnPaper => Owner = p)
      /\ 1 \in 1 .. Depth /\ Depth \in 1 .. Depth /\ Frames = tree.frames
  BY <1>1, OwnerIs
<1>3. Frames # <<>> /\ tag = Last(Frames)
  <2>1. Top = tag
    BY DEF ServerTakesClose
  <2>2. "none" \notin Tags
    BY DEF Tags, Scopes, Styles, Aligns, Wraps, Symbols, Regions, Blocks, Data
  <2> QED
    BY <2>1, <2>2 DEF Top
<1>4. Front(Frames) \in Seq(Tags)
  BY <1>2, <1>3, Shrunk
<1>5. t \in Trees /\ t.frames = Front(Frames) /\ t.owners = tree.owners /\ t.line = tree.line
      /\ t = [frames |-> Front(Frames), owners |-> tree.owners, line |-> tree.line]
  <2>1. t = [frames |-> Front(Frames), owners |-> tree.owners, line |-> tree.line]
    BY <1>2
  <2> HIDE DEF t
  <2> QED
    BY <1>2, <1>4, <2>1 DEF Trees
<1>6. /\ tag \in Aligns => tag \notin Wraps \cup Symbols \cup Regions
      /\ tag \in Wraps => tag \notin Symbols \cup Regions
      /\ tag \in Symbols => tag \notin Regions /\ tag \notin Aligns /\ tag \notin Wraps
      /\ tag \in Styles => tag \notin Aligns \cup Wraps \cup Symbols \cup Regions
      /\ tag \in Aligns \cup Wraps \cup Symbols \cup Regions \cup Styles
  BY DEF Aligns, Wraps, Symbols, Regions, Blocks, Data, Styles, Tags, Scopes
<1> HIDE DEF t
<1> DEFINE front == Front(Frames)
<1>20. /\ \A i \in DOMAIN front : front[i] \notin Symbols
       /\ tag \in Regions => Depth > 1
       /\ tag \in Regions /\ Depth = 2 => tag \notin SharesALine
       /\ tag \in Symbols => Depth = 1 /\ p.sole /\ p.closed = "no"
       /\ \A v : /\ v.frames = front
                 /\ Len(v.owners) = IF tag \in Regions THEN Depth - 1 ELSE Depth
                 /\ Len(v.owners) > 1 => v.owners[1].spaceOnly
                 => Nested(v)
  BY <1>1, <1>2, <1>3, NestedCloses
<1>7. CASE tag \in Symbols
  <2> DEFINE q == Placed(Owner, TRUE)
             w == [t EXCEPT !.owners[Depth] = Placed(@, TRUE)]
  <2>1. u = Printing(w, tag)
    BY <1>6, <1>7 DEF ServerClose, t
  <2>2. /\ q \in LineStates /\ q.content /\ ~q.spaceOnly /\ q.textSeen = Owner.textSeen /\ q.closed = Owner.closed
        /\ q.alignSeen = Owner.alignSeen /\ q.wrapSeen = Owner.wrapSeen /\ q.fills = Owner.fills
        /\ q.sole = Owner.sole /\ q.printing = IF Owner.printing < 2 THEN Owner.printing + 1 ELSE Owner.printing
    BY <1>2, PlacedIs
  <2> DEFINE o == [tree.owners EXCEPT ![Depth] = q]
  <2>3. w = [t EXCEPT !.owners = o]
    BY <1>2, <1>5
  <2> HIDE DEF q, u
  <2>4. o \in Seq(LineStates) /\ Len(o) = Depth /\ o[1] = IF 1 = Depth THEN q ELSE p
    BY <1>2, <2>2, ExceptSeq
  <2> HIDE DEF o
  <2>5. w = [frames |-> Front(Frames), owners |-> o, line |-> tree.line]
    BY <1>5, <2>3
  <2> HIDE DEF w
  <2>6. w \in Trees /\ w.frames = Front(Frames) /\ w.owners = o /\ w.line = tree.line
    BY <1>2, <1>4, <2>4, <2>5 DEF Trees
  <2>7. tag \in Printable
    BY <1>7 DEF Printable
  <2>8. /\ u \in Trees /\ u.frames = Front(Frames) /\ u.owners = o /\ Like(tree.line, u.line)
        /\ OnPaper => u.line.cells = tree.line.cells /\ u.line.directives = Append(tree.line.directives, tag)
    <3> DEFINE v == Printing(w, tag)
    <3>1. /\ v \in Trees /\ v.frames = w.frames /\ v.owners = w.owners /\ Like(w.line, v.line)
          /\ OnPaper => v.line.cells = w.line.cells /\ v.line.directives = Append(w.line.directives, tag)
      <4>1. tag \in Printable \cup {"space", "text", "fill"}
        BY <2>7
      <4>2. w \in Trees
        BY <2>6
      <4> QED
        BY <1>1, <2>7, <4>1, <4>2, PrintingIs
    <3> HIDE DEF v
    <3>2. u = v
      BY <2>1 DEF v
    <3> QED
      BY <2>6, <3>1, <3>2
  <2>9. Depth = 1 /\ p.sole /\ p.closed = "no"
    BY <1>2, <1>7, <1>20
  <2>10. OnPaper /\ Owner = p /\ u.owners[1] = q /\ Len(u.owners) = 1 /\ u.owners # <<>>
    <3>1. OnPaper /\ Owner = p /\ u.owners[1] = q /\ Len(u.owners) = 1
      BY <1>2, <2>4, <2>8, <2>9
    <3> QED
      BY <3>1
  <2>11. Nested(u) /\ \A i \in DOMAIN u.frames : u.frames[i] \notin Symbols
    <3>1. u.frames = front /\ Len(u.owners) = 1 /\ tag \notin Regions /\ Depth = 1 /\ ~(1 > 1)
      BY <1>6, <1>7, <2>8, <2>9, <2>10
    <3> HIDE DEF front
    <3> QED
      BY <1>20, <3>1
  <2>12. LineKept(u)
    <3> SUFFICES ASSUME ~u.line.hushed PROVE Recalls(q, u.line) /\ ~u.line.late
      BY <2>10 DEF LineKept
    <3>1. Recalls(p, tree.line) /\ ~u.line.late
      BY <1>1, <2>8 DEF LineKept, Like
    <3>2. u.line \in PrintedLines
      BY <2>8 DEF Trees
    <3>3. /\ q.content /\ ~q.spaceOnly /\ q.textSeen = p.textSeen /\ q.fills = p.fills
          /\ q.printing = IF tag # "drawer" /\ p.printing < 2 THEN p.printing + 1 ELSE p.printing
          /\ p.sole \/ tag \in Symbols \cup {"hr"} => q.sole
          /\ tag \notin Regions => p.closed = "no"
          /\ tag \in Regions => p.spaceOnly /\ q.closed # "no"
      BY <1>6, <1>7, <2>2, <2>9, <2>10 DEF Symbols
    <3>4. Recalls(q, u.line)
      BY <1>2, <2>2, <2>7, <2>8, <2>10, <3>1, <3>2, <3>3, MarkRecalled
    <3> QED
      BY <3>1, <3>4
  <2>13. ServerInv(u)
    BY <2>8, <2>10, <2>11, <2>12 DEF ServerInv
  <2> QED
    BY <1>3, <1>6, <1>7, <2>2, <2>8, <2>10, <2>11, <2>13 DEF u
<1>8. CASE tag \in Regions
  <2> DEFINE o == Front(tree.owners)
             n == Depth - 1
             q == PlacedBlock(o[n], tag)
             r == [o EXCEPT ![n] = q]
             d == IF Depth = 2 THEN Append(tree.line.directives, tag) ELSE tree.line.directives
             line == [tree.line EXCEPT !.directives = d]
             w == [frames |-> front, owners |-> r, line |-> line]
  <2>1. Depth > 1 /\ ~OnPaper /\ (Depth = 2 => tag \notin SharesALine) /\ Depth \in Nat
    <3>1. Depth > 1 /\ (Depth = 2 => tag \notin SharesALine) /\ Depth \in Nat /\ ~(1 > 1)
      BY <1>2, <1>8, <1>20
    <3> QED
      BY <1>2, <3>1
  <2>2. /\ o \in Seq(LineStates) /\ Len(o) = n /\ n \in 1 .. n /\ 1 \in 1 .. n /\ n \in Nat \ {0}
        /\ o[1] = p /\ o[n] \in LineStates /\ (n = 1 <=> Depth = 2)
    <3>1. /\ o \in Seq(LineStates) /\ Len(o) = Len(tree.owners) - 1 /\ DOMAIN o = 1 .. Len(tree.owners) - 1
          /\ \A i \in DOMAIN o : o[i] = tree.owners[i]
      BY <1>1, <1>2, Shrunk
    <3>2. \A k \in Nat : k > 1 => /\ k - 1 \in 1 .. k - 1 /\ 1 \in 1 .. k - 1 /\ k - 1 \in Nat \ {0}
                                  /\ (k - 1 = 1 <=> k = 2)
      OBVIOUS
    <3>3. n \in 1 .. n /\ 1 \in 1 .. n /\ n \in Nat \ {0} /\ (n = 1 <=> Depth = 2)
      BY <2>1, <3>2
    <3>4. Len(o) = n /\ DOMAIN o = 1 .. n
      BY <1>2, <3>1
    <3>5. o[1] = p
      BY <3>1, <3>3, <3>4
    <3>6. o[n] \in LineStates
      <4> HIDE DEF o, n
      <4> QED
        BY <3>1, <3>3, <3>4, ElementOfSeq
    <3> HIDE DEF o, n
    <3> QED
      BY <3>1, <3>3, <3>4, <3>5, <3>6
  <2> HIDE DEF o, n
  <2>3. /\ q \in LineStates /\ q.content /\ ~q.spaceOnly /\ q.textSeen = o[n].textSeen /\ q.fills = o[n].fills
        /\ q.sole = o[n].sole /\ q.printing = IF o[n].printing < 2 THEN o[n].printing + 1 ELSE o[n].printing
        /\ tag \notin SharesALine => q.closed = "block"
    <3> DEFINE z == Placed(o[n], TRUE)
               c == IF tag \in SharesALine THEN z.closed ELSE "block"
    <3>1. /\ z \in LineStates /\ z.content /\ ~z.spaceOnly /\ z.textSeen = o[n].textSeen /\ z.fills = o[n].fills
          /\ z.sole = o[n].sole /\ z.printing = IF o[n].printing < 2 THEN o[n].printing + 1 ELSE o[n].printing
      BY <2>2, PlacedIs
    <3>2. q = [z EXCEPT !.blockSeen = TRUE, !.closed = c]
      BY DEF PlacedBlock
    <3> HIDE DEF q, z
    <3>3. c \in {"no", "align", "wrap", "block"}
      BY <3>1 DEF LineStates
    <3>4. q \in LineStates
      <4> HIDE DEF c
      <4> QED
        BY <3>1, <3>2, <3>3 DEF LineStates
    <3>5. /\ q.content = z.content /\ q.spaceOnly = z.spaceOnly /\ q.textSeen = z.textSeen /\ q.fills = z.fills
          /\ q.sole = z.sole /\ q.printing = z.printing /\ q.closed = c
      <4> HIDE DEF c
      <4> QED
        BY <3>1, <3>2 DEF LineStates
    <3> QED
      BY <3>1, <3>4, <3>5
  <2> HIDE DEF q
  <2>4. r \in Seq(LineStates) /\ Len(r) = n /\ r[1] = IF n = 1 THEN q ELSE p
    BY <2>2, <2>3, ExceptSeq
  <2> HIDE DEF r
  <2>5. r # <<>>
    BY <2>2, <2>4
  <2>6. tag \in Printable \/ Depth # 2
    BY <1>8, <2>1 DEF Printable
  <2>7. line \in PrintedLines /\ line.directives = d /\ line.cells = tree.line.cells /\ Like(tree.line, line)
    <3>1. d \in Seq(Printable)
      BY <1>2, <2>6, AppendProperties DEF PrintedLines
    <3> HIDE DEF d
    <3> QED
      BY <1>2, <3>1 DEF PrintedLines, Like
  <2>8. ServerClose(tag) = w
    <3> DEFINE u1 == [t EXCEPT !.owners = Front(@)]
               v == [u1 EXCEPT !.owners[Depth - 1] = PlacedBlock(@, tag)]
    <3>1. ServerClose(tag) = IF Depth = 2 THEN [v EXCEPT !.line.directives = Append(@, tag)] ELSE v
      BY <1>6, <1>8 DEF ServerClose, t
    <3>2. u1 = [frames |-> front, owners |-> o, line |-> tree.line]
      BY <1>5 DEF o
    <3>3. v = [u1 EXCEPT !.owners = [u1.owners EXCEPT ![n] = PlacedBlock(u1.owners[n], tag)]]
      BY DEF n
    <3> HIDE DEF v, u1
    <3>4. u1.owners = o
      BY <3>2
    <3>5. [u1.owners EXCEPT ![n] = PlacedBlock(u1.owners[n], tag)] = r
      BY <3>4 DEF r, q
    <3>6. v = [u1 EXCEPT !.owners = r]
      BY <3>3, <3>5
    <3>7. v = [frames |-> front, owners |-> r, line |-> tree.line]
      BY <3>2, <3>6
    <3>8. CASE Depth = 2
      <4>1. ServerClose(tag) = [v EXCEPT !.line = [v.line EXCEPT !.directives = Append(v.line.directives, tag)]]
        BY <3>1, <3>8
      <4>2. v.line = tree.line
        BY <3>7
      <4>3. [v.line EXCEPT !.directives = Append(v.line.directives, tag)] = line
        BY <3>8, <4>2
      <4> HIDE DEF line, front
      <4>4. ServerClose(tag) = [v EXCEPT !.line = line]
        BY <4>1, <4>3
      <4> QED
        BY <3>7, <4>4
    <3>9. CASE Depth # 2
      <4>1. line = tree.line
        BY <1>2, <3>9 DEF PrintedLines
      <4> HIDE DEF line, front
      <4> QED
        BY <3>1, <3>7, <3>9, <4>1
    <3> QED
      BY <3>8, <3>9
  <2> HIDE DEF d, line
  <2>9. w \in Trees /\ w.frames = front /\ w.owners = r /\ w.line = line
    BY <1>4, <2>4, <2>7 DEF Trees
  <2> HIDE DEF w
  <2>10. Nested(w)
    <3>1. Len(w.owners) > 1 => w.owners[1].spaceOnly
      <4> SUFFICES ASSUME n > 1 PROVE p.spaceOnly /\ n # 1
        BY <2>4, <2>9
      <4>1. n # 1
        BY <2>2
      <4>2. p.spaceOnly
        BY <1>1, <1>2, <2>1 DEF Nested
      <4> QED
        BY <4>1, <4>2
    <3>2. Len(w.owners) = IF tag \in Regions THEN Depth - 1 ELSE Depth
      BY <1>8, <2>4, <2>9 DEF n
    <3> HIDE DEF front
    <3> QED
      BY <1>20, <2>9, <3>1, <3>2
  <2>11. LineKept(w)
    <3> SUFFICES ASSUME ~w.line.hushed PROVE Recalls(w.owners[1], w.line) /\ ~w.line.late
      BY DEF LineKept
    <3>1. Recalls(p, tree.line) /\ ~w.line.late
      BY <1>1, <2>7, <2>9 DEF LineKept, Like
    <3>2. CASE n = 1
      <4>1. Depth = 2 /\ tag \notin SharesALine /\ tag \in Printable /\ o[n] = p
        BY <2>1, <2>2, <2>6, <3>2
      <4>2. line.directives = Append(tree.line.directives, tag) /\ line.cells = tree.line.cells
        BY <2>7, <4>1 DEF d
      <4>3. p.spaceOnly
        BY <1>1, <1>2, <2>1 DEF Nested
      <4>4. tag # "drawer" /\ tag \notin Symbols \cup {"hr"}
        BY <1>8 DEF Regions, Blocks, Data, Symbols
      <4>5. /\ q.content /\ ~q.spaceOnly /\ q.textSeen = p.textSeen /\ q.fills = p.fills
            /\ q.printing = IF tag # "drawer" /\ p.printing < 2 THEN p.printing + 1 ELSE p.printing
            /\ p.sole \/ tag \in Symbols \cup {"hr"} => q.sole
            /\ tag \notin Regions => p.closed = "no"
            /\ tag \in Regions => p.spaceOnly /\ q.closed # "no"
        BY <1>8, <2>3, <4>1, <4>3, <4>4
      <4>6. Recalls(q, line)
        BY <1>2, <2>3, <2>7, <3>1, <4>1, <4>2, <4>5, MarkRecalled
      <4> QED
        BY <2>4, <2>9, <3>1, <3>2, <4>6
    <3>3. CASE n # 1
      <4>1. Depth # 2 /\ w.owners[1] = p
        BY <2>2, <2>4, <2>9, <3>3
      <4>2. w.line.cells = tree.line.cells /\ w.line.directives = tree.line.directives
        BY <2>7, <2>9, <4>1 DEF d
      <4>3. Recalls(p, w.line)
        BY <3>1, <4>2, SameThings
      <4> QED
        BY <3>1, <4>1, <4>3
    <3> QED
      BY <3>2, <3>3
  <2>12. ServerInv(w)
    BY <2>5, <2>9, <2>10, <2>11 DEF ServerInv
  <2>13. Like(tree.line, w.line) /\ \A i \in DOMAIN w.frames : w.frames[i] \notin Symbols
    BY <1>20, <2>7, <2>9
  <2> QED
    BY <1>3, <2>1, <2>8, <2>9, <2>12, <2>13
<1>9. CASE tag \in Aligns \cup Wraps \cup Styles
  <2> DEFINE c == IF tag \in Aligns THEN "align" ELSE IF tag \in Wraps THEN "wrap" ELSE Owner.closed
             q == [Owner EXCEPT !.closed = c]
             o == [tree.owners EXCEPT ![Depth] = q]
             w == [frames |-> front, owners |-> o, line |-> tree.line]
  <2>0. tag \notin Symbols /\ tag \notin Regions
    BY <1>6, <1>9
  <2>1. /\ q \in LineStates /\ q.content = Owner.content /\ q.textSeen = Owner.textSeen /\ q.fills = Owner.fills
        /\ q.alignSeen = Owner.alignSeen /\ q.wrapSeen = Owner.wrapSeen /\ q.sole = Owner.sole
        /\ q.printing = Owner.printing /\ q.closed = c /\ q.spaceOnly = Owner.spaceOnly
    <3>1. c \in {"no", "align", "wrap", "block"}
      BY <1>2 DEF LineStates
    <3> HIDE DEF c
    <3> QED
      BY <1>2, <3>1 DEF LineStates
  <2>2. u = w
    <3> DEFINE oa == [tree.owners EXCEPT ![Depth] = [Owner EXCEPT !.closed = "align"]]
               ow == [tree.owners EXCEPT ![Depth] = [Owner EXCEPT !.closed = "wrap"]]
    <3>1. CASE tag \in Aligns
      <4>1. u = [t EXCEPT !.owners[Depth].closed = "align"]
        BY <1>6, <3>1 DEF ServerClose, t
      <4>2. u = [t EXCEPT !.owners = [t.owners EXCEPT ![Depth] = [t.owners[Depth] EXCEPT !.closed = "align"]]]
        BY <4>1
      <4>3. [t.owners EXCEPT ![Depth] = [t.owners[Depth] EXCEPT !.closed = "align"]] = o
        BY <1>2, <1>5, <3>1
      <4> HIDE DEF o, u, front
      <4>4. u = [t EXCEPT !.owners = o]
        BY <4>2, <4>3
      <4> QED
        BY <1>5, <4>4 DEF front
    <3>2. CASE tag \in Wraps
      <4>1. u = [t EXCEPT !.owners[Depth].closed = "wrap"]
        BY <1>6, <3>2 DEF ServerClose, t
      <4>2. u = [t EXCEPT !.owners = [t.owners EXCEPT ![Depth] = [t.owners[Depth] EXCEPT !.closed = "wrap"]]]
        BY <4>1
      <4>3. [t.owners EXCEPT ![Depth] = [t.owners[Depth] EXCEPT !.closed = "wrap"]] = o
        BY <1>2, <1>5, <1>6, <3>2
      <4> HIDE DEF o, u, front
      <4>4. u = [t EXCEPT !.owners = o]
        BY <4>2, <4>3
      <4> QED
        BY <1>5, <4>4 DEF front
    <3>3. CASE tag \in Styles
      <4>1. u = t
        BY <1>6, <3>3 DEF ServerClose, t
      <4>2. c = Owner.closed
        BY <1>6, <3>3
      <4>3. q = Owner
        BY <1>2, <4>2 DEF LineStates
      <4>4. tree.owners \in [1 .. Len(tree.owners) -> LineStates]
        BY <1>2, LenProperties
      <4>5. o = tree.owners
        BY <1>2, <4>3, <4>4
      <4> HIDE DEF o, u
      <4> QED
        BY <1>5, <4>1, <4>5
    <3> QED
      BY <1>9, <3>1, <3>2, <3>3
  <2> HIDE DEF q, u
  <2>3. o \in Seq(LineStates) /\ Len(o) = Depth /\ o[1] = IF 1 = Depth THEN q ELSE p
    BY <1>2, <2>1, ExceptSeq
  <2> HIDE DEF o
  <2>4. o # <<>>
    BY <1>2, <2>3
  <2>5. w \in Trees /\ w.frames = front /\ w.owners = o /\ w.line = tree.line
    BY <1>2, <1>4, <2>3 DEF Trees
  <2> HIDE DEF w
  <2>6. Nested(w)
    <3>1. Len(w.owners) > 1 => w.owners[1].spaceOnly
      <4> SUFFICES ASSUME Depth > 1 PROVE w.owners[1].spaceOnly
        BY <2>3, <2>5
      <4>1. Depth # 1
        BY <1>2
      <4>2. p.spaceOnly
        BY <1>1, <1>2 DEF Nested
      <4> QED
        BY <2>3, <2>5, <4>1, <4>2
    <3>2. Len(w.owners) = IF tag \in Regions THEN Depth - 1 ELSE Depth
      BY <2>0, <2>3, <2>5
    <3> HIDE DEF front
    <3> QED
      BY <1>20, <2>5, <3>1, <3>2
  <2>7. LineKept(w)
    <3> SUFFICES ASSUME ~w.line.hushed PROVE Recalls(w.owners[1], w.line) /\ ~w.line.late
      BY DEF LineKept
    <3>1. Recalls(p, tree.line) /\ ~w.line.late
      BY <1>1, <2>5 DEF LineKept
    <3>2. CASE Depth = 1
      <4>1. Owner = p /\ w.owners[1] = q
        BY <1>2, <2>3, <2>5, <3>2
      <4>2. p.closed # "no" => q.closed # "no"
        BY <2>1, <4>1
      <4>3. Recalls(q, tree.line)
        BY <2>1, <3>1, <4>1, <4>2, StillRecalled
      <4> QED
        BY <2>5, <3>1, <4>1, <4>3
    <3>3. CASE Depth # 1
      BY <2>3, <2>5, <3>1, <3>3
    <3> QED
      BY <3>2, <3>3
  <2>8. ServerInv(w)
    BY <2>4, <2>5, <2>6, <2>7 DEF ServerInv
  <2>9. OnPaper => Owner = p /\ w.owners[1] = q /\ p.content \in BOOLEAN
    BY <1>2, <2>3, <2>5 DEF LineStates
  <2>10. Like(tree.line, w.line) /\ \A i \in DOMAIN w.frames : w.frames[i] \notin Symbols
    BY <1>20, <2>5 DEF Like
  <2> QED
    BY <1>3, <2>0, <2>1, <2>2, <2>5, <2>8, <2>9, <2>10 DEF u
<1> QED
  BY <1>6, <1>7, <1>8, <1>9

\* What spans the next line is what is open of its kind.
LEMMA NextLineIs ==
    ASSUME tree \in Trees
    PROVE  /\ NextLine \in PrintedLines /\ NextLine.cells = <<>> /\ NextLine.directives = <<>>
           /\ ~NextLine.hushed /\ ~NextLine.late
           /\ NextLine.align = OwnerOf(Aligns) /\ NextLine.wrap = OwnerOf(Wraps)
<1>1. \A kinds : OwnerOf(kinds) \in kinds \cup {"none"}
  <2> SUFFICES ASSUME NEW kinds PROVE OwnerOf(kinds) \in kinds \cup {"none"}
    OBVIOUS
  <2>1. CASE \E i \in DOMAIN Frames : Frames[i] \in kinds
    <3> DEFINE j == CHOOSE i \in DOMAIN Frames : Frames[i] \in kinds
    <3>1. Frames[j] \in kinds
      BY <2>1
    <3>2. OwnerOf(kinds) = Frames[j]
      BY <2>1 DEF OwnerOf
    <3> HIDE DEF j
    <3> QED
      BY <3>1, <3>2
  <2>2. CASE ~\E i \in DOMAIN Frames : Frames[i] \in kinds
    BY <2>2 DEF OwnerOf
  <2> QED
    BY <2>1, <2>2
<1>2. OwnerOf(Aligns) \in Aligns \cup {"none"} /\ OwnerOf(Wraps) \in Wraps \cup {"none"}
  BY <1>1
<1>3. <<>> \in Seq(PrintedCells) /\ <<>> \in Seq(Printable)
  OBVIOUS
<1> QED
  BY <1>2, <1>3 DEF NextLine, PrintedLines

\* A break ends what the server remembers of a line; if it is dropped the line goes on.
LEMMA BreakServed ==
    ASSUME ServerInv(tree), ~InData
    PROVE  LET over == Owning(FreshLine)
               same == [over EXCEPT !.line.hushed = @ \/ Things(tree.line) > 0]
               next == [over EXCEPT !.line = NextLine]
           IN  /\ ~OnPaper => ServerInv(over) /\ over.frames = Frames /\ over.line = tree.line
               /\ OnPaper =>
                      /\ ServerInv(same) /\ same.frames = Frames /\ same.owners[1] = FreshLine
                      /\ same.line.cells = tree.line.cells /\ same.line.directives = tree.line.directives
                      /\ same.line.align = tree.line.align /\ same.line.wrap = tree.line.wrap
                      /\ same.line.hushed = (tree.line.hushed \/ Things(tree.line) > 0)
                      /\ ServerInv(next) /\ next.frames = Frames /\ next.owners[1] = FreshLine
                      /\ next.line = NextLine
<1> DEFINE p == tree.owners[1]
           over == Owning(FreshLine)
           h == tree.line.hushed \/ Things(tree.line) > 0
           line == [tree.line EXCEPT !.hushed = h]
           same == [over EXCEPT !.line.hushed = @ \/ Things(tree.line) > 0]
           next == [over EXCEPT !.line = NextLine]
<1>1. tree \in Trees /\ tree.owners # <<>> /\ Nested(tree) /\ LineKept(tree)
  BY DEF ServerInv
<1>2. /\ tree.line \in PrintedLines /\ Depth = Len(tree.owners) /\ Depth \in Nat \ {0}
      /\ (OnPaper <=> Depth = 1) /\ Frames = tree.frames
  BY <1>1, OwnerIs
<1>3. FreshLine \in LineStates
  BY DEF FreshLine, LineStates
<1>4. /\ over \in Trees /\ over.frames = tree.frames /\ over.line = tree.line
      /\ Len(over.owners) = Len(tree.owners) /\ over.owners # <<>>
      /\ over.owners[1] = IF OnPaper THEN FreshLine ELSE p
  BY <1>1, <1>3, OwningIs
<1> HIDE DEF over
<1>5. \A i \in DOMAIN tree.frames : tree.frames[i] \notin Symbols
  BY <1>2, NoSymbols
<1>6. Nested(over)
  <2>1. over.owners[1] = p \/ Len(tree.owners) = 1
    BY <1>2, <1>4
  <2> QED
    BY <1>1, <1>4, <1>5, <2>1, NestedStays
<1>7. ~OnPaper => ServerInv(over)
  <2> SUFFICES ASSUME ~OnPaper PROVE ServerInv(over)
    OBVIOUS
  <2>1. over.owners[1] = p
    BY <1>4
  <2>2. LineKept(over)
    BY <1>1, <1>4, <2>1 DEF LineKept
  <2> QED
    BY <1>4, <1>6, <2>2 DEF ServerInv
<1>8. /\ over = [frames |-> over.frames, owners |-> over.owners, line |-> over.line]
      /\ over.frames \in Seq(Tags) /\ over.owners \in Seq(LineStates)
  BY <1>4 DEF Trees
<1>9. same = [frames |-> over.frames, owners |-> over.owners, line |-> line]
  <2>1. same = [over EXCEPT !.line = [over.line EXCEPT !.hushed = over.line.hushed \/ Things(tree.line) > 0]]
    OBVIOUS
  <2>2. [over.line EXCEPT !.hushed = over.line.hushed \/ Things(tree.line) > 0] = line
    BY <1>4
  <2> HIDE DEF line, same
  <2> QED
    BY <1>8, <2>1, <2>2
<1>10. next = [frames |-> over.frames, owners |-> over.owners, line |-> NextLine]
  BY <1>8
<1>11. /\ line \in PrintedLines /\ line.cells = tree.line.cells /\ line.directives = tree.line.directives
       /\ line.align = tree.line.align /\ line.wrap = tree.line.wrap /\ line.late = tree.line.late
       /\ line.hushed = h
  <2>1. h \in BOOLEAN
    OBVIOUS
  <2> HIDE DEF h
  <2> QED
    BY <1>2, <2>1 DEF PrintedLines
<1> HIDE DEF line, same, next
<1>12. /\ same \in Trees /\ same.frames = tree.frames /\ same.owners = over.owners /\ same.line = line
       /\ next \in Trees /\ next.frames = tree.frames /\ next.owners = over.owners /\ next.line = NextLine
  BY <1>1, <1>4, <1>8, <1>9, <1>10, <1>11, NextLineIs DEF Trees
<1>13. Nested(same) /\ Nested(next)
  BY <1>4, <1>6, <1>12 DEF Nested
<1>14. OnPaper => LineKept(same) /\ LineKept(next)
  <2> SUFFICES ASSUME OnPaper PROVE LineKept(same) /\ LineKept(next)
    OBVIOUS
  <2>1. LineKept(next)
    <3>1. Recalls(next.owners[1], NextLine)
      BY <1>1, NextLineIs, NothingRecalled
    <3> QED
      BY <1>1, <1>12, <3>1, NextLineIs DEF LineKept
  <2>2. LineKept(same)
    <3> SUFFICES ASSUME ~line.hushed PROVE Recalls(same.owners[1], line) /\ ~line.late
      BY <1>12 DEF LineKept
    <3>1. ~tree.line.hushed /\ ~(Things(tree.line) > 0)
      BY <1>11
    <3>2. tree.line.cells = <<>> /\ tree.line.directives = <<>>
      BY <1>2, <3>1, ThingsAre
    <3>3. Recalls(same.owners[1], line)
      BY <1>11, <3>2, NothingRecalled
    <3> QED
      BY <1>1, <1>11, <3>1, <3>3 DEF LineKept
  <2> QED
    BY <2>1, <2>2
<1>15. OnPaper => ServerInv(same) /\ ServerInv(next)
  BY <1>4, <1>12, <1>13, <1>14 DEF ServerInv
<1> QED
  BY <1>2, <1>4, <1>7, <1>11, <1>12, <1>15 DEF over, same, next

\* A line the server remembers, and passes, is shared by nothing that must be alone on it.
LEMMA NothingShared ==
    ASSUME ServerInv(tree), OnPaper, AloneOn(Owner), ~tree.line.hushed
    PROVE  ~Shares(tree.line)
<1> DEFINE p == tree.owners[1]
           line == tree.line
<1>1. p \in LineStates /\ line \in PrintedLines /\ Owner = p
  BY OwnerIs DEF ServerInv
<1>2. Recalls(p, line) /\ ~line.late
  BY DEF ServerInv, LineKept
<1>3. p.sole => ~p.textSeen /\ ~p.fills /\ p.printing = 1
  BY <1>1 DEF AloneOn
<1>4. p.sole => line.cells = <<>> /\ ~Pairs(line)
  BY <1>2, <1>3 DEF Recalls
<1>5. Has(line, Regions) => Blank(line) /\ ~Pairs(line)
  BY <1>2 DEF Recalls
<1>6. Has(line, Symbols \cup {"hr"}) => p.sole
  BY <1>2 DEF Recalls
<1> SUFFICES ASSUME Shares(line) PROVE FALSE
  OBVIOUS
<1>7. /\ \E i \in DOMAIN line.directives : line.directives[i] \in WholeLine
      /\ \/ Pairs(line)
         \/ IF \E i \in DOMAIN line.directives : line.directives[i] \in Regions \cup {"bar"}
            THEN ~Blank(line) ELSE line.cells # <<>>
  BY <1>2 DEF Shares, Pairs
<1>8. Has(line, Symbols \cup {"hr"}) \/ Has(line, Regions)
  BY <1>7 DEF Has, WholeLine
<1>9. ~Pairs(line)
  BY <1>4, <1>5, <1>6, <1>8
<1>10. line.cells = <<>> => Blank(line)
  BY DEF Blank
<1>11. CASE Has(line, Regions)
  BY <1>5, <1>7, <1>9, <1>11 DEF Has
<1>12. CASE Has(line, Symbols \cup {"hr"})
  BY <1>4, <1>6, <1>7, <1>9, <1>10, <1>12
<1> QED
  BY <1>8, <1>11, <1>12

\* While the console has refused no tag there are no regions, and the server writes the printed line.
LEMMA KnownPaper ==
    ASSUME ReadInv, parser.known
    PROVE  /\ OnPaper /\ tree \in Trees /\ tree.owners # <<>> /\ Owner = tree.owners[1] /\ Owner \in LineStates
           /\ Frames = tree.frames /\ Frames \in Seq(Tags) /\ tree.line \in PrintedLines
           /\ parser \in Consoles /\ KnownInv(tree, parser, before, due)
           /\ (InData <=> parser.block) /\ Inside = "none"
           /\ \A kinds : Within(kinds) <=> \E i \in DOMAIN Frames : Frames[i] \in kinds
<1>1. /\ ServerInv(tree) /\ parser \in Consoles /\ KnownInv(tree, parser, before, due)
      /\ SameTags(tree, parser)
  BY DEF ReadInv, KnownInv
<1>2. tree \in Trees /\ tree.owners # <<>> /\ Nested(tree)
  BY <1>1 DEF ServerInv
<1>3. /\ Frames = tree.frames /\ Frames \in Seq(Tags) /\ tree.line \in PrintedLines /\ Owner \in LineStates
      /\ Depth = Len(tree.owners) /\ (OnPaper <=> Depth = 1) /\ (OnPaper => Owner = tree.owners[1])
  BY <1>2, OwnerIs
<1>4. RegsOf(Frames) = {}
  BY <1>1, <1>3 DEF SameTags
<1>5. OnPaper
  <2>1. Cardinality(RegsOf(Frames)) = 0
    BY <1>4, NoRegs
  <2>2. Len(tree.owners) = Cardinality(RegsOf(Frames)) + 1
    BY <1>2, <1>3 DEF Nested
  <2> QED
    BY <1>3, <2>1, <2>2
<1>6. Inside = "none"
  BY <1>2, <1>4, InsideIs
<1>7. \A i \in DOMAIN Frames : Frames[i] \notin Regions
  BY <1>4 DEF RegsOf
<1>8. DOMAIN Frames = 1 .. Len(Frames) /\ Len(Frames) \in Nat
  BY <1>3, LenProperties
<1>9. InData <=> parser.block
  <2>1. TopOf(Frames) = Top
    BY DEF TopOf, Top
  <2>2. Top \notin Data
    <3>1. Frames # <<>> => Len(Frames) \in DOMAIN Frames /\ Last(Frames) = Frames[Len(Frames)]
      BY <1>3, Shrunk
    <3>2. "none" \notin Data /\ Data \subseteq Regions
      BY DEF Data, Regions, Blocks
    <3> QED
      BY <1>7, <3>1, <3>2 DEF Top
  <2> QED
    BY <1>1, <1>3, <2>1, <2>2 DEF InData, SameTags
<1>10. \A kinds : Within(kinds) <=> \E i \in DOMAIN Frames : Frames[i] \in kinds
  <2>1. \A i \in DOMAIN Frames : \A j \in i .. Len(Frames) : j \in DOMAIN Frames
    BY <1>8
  <2>2. Blocks \subseteq Regions
    BY DEF Regions
  <2>3. InBlock = DOMAIN Frames
    BY <1>7, <2>1, <2>2 DEF InBlock
  <2> QED
    BY <2>3 DEF Within
<1> QED
  BY <1>1, <1>2, <1>3, <1>5, <1>6, <1>9, <1>10

\* What was collected is in the style of now already.
LEMMA FlushedIs ==
    ASSUME parser \in Consoles, \A i \in DOMAIN parser.pending : parser.pending[i].style = parser.style
    PROVE  /\ Flushed \in Consoles /\ Flushed.cells = parser.cells \o parser.pending /\ Flushed.pending = <<>>
           /\ Flushed.known = parser.known /\ Flushed.open = parser.open /\ Flushed.style = parser.style
           /\ Flushed.align = parser.align /\ Flushed.wrap = parser.wrap
           /\ Flushed.alignSeen = parser.alignSeen /\ Flushed.wrapSeen = parser.wrapSeen
           /\ Flushed.resetAlign = parser.resetAlign /\ Flushed.resetWrap = parser.resetWrap
           /\ Flushed.closed = parser.closed /\ Flushed.block = parser.block /\ Flushed.sole = parser.sole
           /\ Flushed.directives = parser.directives
<1> DEFINE s == parser.pending
           r == [i \in DOMAIN s |-> [s[i] EXCEPT !.style = parser.style]]
<1>1. /\ s \in Seq(PrintedCells) /\ parser.cells \in Seq(PrintedCells) /\ parser.style \in TagStyles
  BY DEF Consoles
<1>2. s = r
  <2>1. \A i \in DOMAIN s : s[i] \in PrintedCells
    BY <1>1
  <2>2. \A i \in DOMAIN s : [s[i] EXCEPT !.style = parser.style] = s[i]
    BY <2>1 DEF PrintedCells
  <2>3. s = [i \in DOMAIN s |-> s[i]]
    BY <1>1
  <2> QED
    BY <2>2, <2>3
<1> DEFINE k == parser.cells \o s
<1>3. k \in Seq(PrintedCells) /\ <<>> \in Seq(PrintedCells)
  BY <1>1, ConcatProperties
<1>4. Flushed = [parser EXCEPT !.cells = k, !.pending = <<>>]
  BY <1>2 DEF Flushed
<1> HIDE DEF k
<1>5. Flushed \in Consoles
  BY <1>3, <1>4 DEF Consoles
<1>6. /\ Flushed.cells = k /\ Flushed.pending = <<>>
      /\ Flushed.known = parser.known /\ Flushed.open = parser.open /\ Flushed.style = parser.style
      /\ Flushed.align = parser.align /\ Flushed.wrap = parser.wrap
      /\ Flushed.alignSeen = parser.alignSeen /\ Flushed.wrapSeen = parser.wrapSeen
      /\ Flushed.resetAlign = parser.resetAlign /\ Flushed.resetWrap = parser.resetWrap
      /\ Flushed.closed = parser.closed /\ Flushed.block = parser.block /\ Flushed.sole = parser.sole
      /\ Flushed.directives = parser.directives
  BY <1>4 DEF Consoles
<1> QED
  BY <1>5, <1>6 DEF k

\* Text is collected.
LEMMA TextHeard ==
    ASSUME parser \in Consoles, NEW blank \in BOOLEAN
    PROVE  LET d == AgentText(blank)
           IN  /\ d \in Consoles
               /\ d.pending = IF parser.block THEN parser.pending
                              ELSE Append(parser.pending, [what |-> IF blank THEN "space" ELSE "text",
                                                            style |-> parser.style])
               /\ d.known = parser.known /\ d.open = parser.open /\ d.style = parser.style
               /\ d.align = parser.align /\ d.wrap = parser.wrap
               /\ d.alignSeen = parser.alignSeen /\ d.wrapSeen = parser.wrapSeen
               /\ d.resetAlign = parser.resetAlign /\ d.resetWrap = parser.resetWrap
               /\ d.closed = parser.closed /\ d.block = parser.block /\ d.sole = parser.sole
               /\ d.cells = parser.cells /\ d.directives = parser.directives
<1>1. CASE parser.block
  BY <1>1 DEF AgentText
<1>2. CASE ~parser.block
  <2> DEFINE s == Append(parser.pending, [what |-> IF blank THEN "space" ELSE "text", style |-> parser.style])
             d == [parser EXCEPT !.pending = s]
  <2>1. s \in Seq(PrintedCells)
    <3>1. parser.pending \in Seq(PrintedCells) /\ parser.style \in TagStyles
      BY DEF Consoles
    <3>2. [what |-> IF blank THEN "space" ELSE "text", style |-> parser.style] \in PrintedCells
      BY <3>1 DEF PrintedCells
    <3> QED
      BY <3>1, <3>2, AppendProperties
  <2>2. AgentText(blank) = d
    BY <1>2 DEF AgentText
  <2> HIDE DEF s
  <2>3. d \in Consoles
    BY <2>1 DEF Consoles
  <2>4. /\ d.pending = s
        /\ d.known = parser.known /\ d.open = parser.open /\ d.style = parser.style
        /\ d.align = parser.align /\ d.wrap = parser.wrap
        /\ d.alignSeen = parser.alignSeen /\ d.wrapSeen = parser.wrapSeen
        /\ d.resetAlign = parser.resetAlign /\ d.resetWrap = parser.resetWrap
        /\ d.closed = parser.closed /\ d.block = parser.block /\ d.sole = parser.sole
        /\ d.cells = parser.cells /\ d.directives = parser.directives
    BY DEF Consoles
  <2> HIDE DEF d
  <2> QED
    BY <1>2, <2>2, <2>3, <2>4 DEF s
<1> QED
  BY <1>1, <1>2

\* A fill is flushed with what came before it; a rule or a cut leaves it where it is.
LEMMA VoidHeard ==
    ASSUME parser \in Consoles, \A i \in DOMAIN parser.pending : parser.pending[i].style = parser.style,
           NEW tag \in {"fill", "hr", "cut"}
    PROVE  LET d == AgentVoid(tag)
           IN  /\ d \in Consoles
               /\ tag = "fill" =>
                      /\ d.pending = <<>> /\ d.directives = parser.directives
                      /\ d.cells = Append(parser.cells \o parser.pending,
                                          [what |-> tag, style |-> parser.style])
               /\ tag # "fill" =>
                      /\ d.pending = parser.pending /\ d.cells = parser.cells
                      /\ d.directives = Append(parser.directives, tag)
               /\ d.sole = (parser.sole \/ tag = "hr")
               /\ d.known = parser.known /\ d.open = parser.open /\ d.style = parser.style
               /\ d.align = parser.align /\ d.wrap = parser.wrap
               /\ d.alignSeen = parser.alignSeen /\ d.wrapSeen = parser.wrapSeen
               /\ d.resetAlign = parser.resetAlign /\ d.resetWrap = parser.resetWrap
               /\ d.closed = parser.closed /\ d.block = parser.block
<1>0. parser.sole \in BOOLEAN /\ parser.style \in TagStyles /\ parser.directives \in Seq({"hr", "cut"} \cup Symbols)
  BY DEF Consoles
<1>1. CASE tag = "fill"
  <2> DEFINE e == [what |-> tag, style |-> parser.style]
             s == Append(Flushed.cells, e)
             d == [Flushed EXCEPT !.cells = s]
  <2>1. AgentVoid(tag) = d
    BY <1>1 DEF AgentVoid
  <2>2. /\ Flushed \in Consoles /\ Flushed.cells = parser.cells \o parser.pending /\ Flushed.pending = <<>>
        /\ Flushed.known = parser.known /\ Flushed.open = parser.open /\ Flushed.style = parser.style
        /\ Flushed.align = parser.align /\ Flushed.wrap = parser.wrap
        /\ Flushed.alignSeen = parser.alignSeen /\ Flushed.wrapSeen = parser.wrapSeen
        /\ Flushed.resetAlign = parser.resetAlign /\ Flushed.resetWrap = parser.resetWrap
        /\ Flushed.closed = parser.closed /\ Flushed.block = parser.block /\ Flushed.sole = parser.sole
        /\ Flushed.directives = parser.directives
    BY FlushedIs
  <2>3. s \in Seq(PrintedCells)
    <3>1. e \in PrintedCells
      BY <1>0, <1>1 DEF PrintedCells
    <3>2. Flushed.cells \in Seq(PrintedCells)
      BY <2>2 DEF Consoles
    <3> QED
      BY <3>1, <3>2, AppendProperties
  <2> HIDE DEF s
  <2>4. d \in Consoles
    BY <2>2, <2>3 DEF Consoles
  <2>5. /\ d.cells = s /\ d.pending = Flushed.pending
        /\ d.known = Flushed.known /\ d.open = Flushed.open /\ d.style = Flushed.style
        /\ d.align = Flushed.align /\ d.wrap = Flushed.wrap
        /\ d.alignSeen = Flushed.alignSeen /\ d.wrapSeen = Flushed.wrapSeen
        /\ d.resetAlign = Flushed.resetAlign /\ d.resetWrap = Flushed.resetWrap
        /\ d.closed = Flushed.closed /\ d.block = Flushed.block /\ d.sole = Flushed.sole
        /\ d.directives = Flushed.directives
    BY <2>2 DEF Consoles
  <2> HIDE DEF d
  <2>6. s = Append(parser.cells \o parser.pending, e)
    BY <2>2 DEF s
  <2> QED
    BY <1>0, <1>1, <2>1, <2>2, <2>4, <2>5, <2>6
<1>2. CASE tag # "fill"
  <2> DEFINE s == Append(parser.directives, tag)
             b == parser.sole \/ tag = "hr"
             d == [parser EXCEPT !.directives = s, !.sole = b]
  <2>1. AgentVoid(tag) = d
    BY <1>2 DEF AgentVoid
  <2>2. s \in Seq({"hr", "cut"} \cup Symbols) /\ b \in BOOLEAN
    BY <1>0, <1>2, AppendProperties
  <2> HIDE DEF s, b
  <2>3. d \in Consoles
    BY <2>2 DEF Consoles
  <2>4. /\ d.directives = s /\ d.sole = b /\ d.cells = parser.cells /\ d.pending = parser.pending
        /\ d.known = parser.known /\ d.open = parser.open /\ d.style = parser.style
        /\ d.align = parser.align /\ d.wrap = parser.wrap
        /\ d.alignSeen = parser.alignSeen /\ d.wrapSeen = parser.wrapSeen
        /\ d.resetAlign = parser.resetAlign /\ d.resetWrap = parser.resetWrap
        /\ d.closed = parser.closed /\ d.block = parser.block
    BY DEF Consoles
  <2> HIDE DEF d
  <2> QED
    BY <1>2, <2>1, <2>3, <2>4 DEF s, b
<1> QED
  BY <1>1, <1>2

\* An opened tag is written down with the style around it.
LEMMA OpenHeard ==
    ASSUME parser \in Consoles, \A i \in DOMAIN parser.pending : parser.pending[i].style = parser.style,
           NEW tag \in Scopes \cup Symbols
    PROVE  LET d == AgentOpen(tag)
           IN  /\ d \in Consoles /\ d.open = Append(parser.open, [tag |-> tag, style |-> parser.style])
               /\ d.cells = parser.cells \o parser.pending /\ d.pending = <<>>
               /\ d.directives = parser.directives /\ d.sole = parser.sole
               /\ d.known = parser.known /\ d.closed = parser.closed
               /\ d.style = (IF tag \in Styles THEN Patch(parser.style, tag) ELSE parser.style)
               /\ d.align = (IF tag \in Aligns THEN tag ELSE parser.align)
               /\ d.wrap = (IF tag \in Wraps THEN tag ELSE parser.wrap)
               /\ d.alignSeen = (parser.alignSeen \/ tag \in Aligns)
               /\ d.wrapSeen = (parser.wrapSeen \/ tag \in Wraps)
               /\ d.resetAlign = parser.resetAlign /\ d.resetWrap = parser.resetWrap
               /\ d.block = (parser.block \/ tag \in Symbols)
<1> DEFINE e == [tag |-> tag, style |-> parser.style]
           s == Append(Flushed.open, e)
           c == [Flushed EXCEPT !.open = s]
<1>0. /\ parser.style \in TagStyles /\ parser.alignSeen \in BOOLEAN /\ parser.wrapSeen \in BOOLEAN
      /\ parser.block \in BOOLEAN
  BY DEF Consoles
<1>1. /\ Flushed \in Consoles /\ Flushed.cells = parser.cells \o parser.pending /\ Flushed.pending = <<>>
      /\ Flushed.known = parser.known /\ Flushed.open = parser.open /\ Flushed.style = parser.style
      /\ Flushed.align = parser.align /\ Flushed.wrap = parser.wrap
      /\ Flushed.alignSeen = parser.alignSeen /\ Flushed.wrapSeen = parser.wrapSeen
      /\ Flushed.resetAlign = parser.resetAlign /\ Flushed.resetWrap = parser.resetWrap
      /\ Flushed.closed = parser.closed /\ Flushed.block = parser.block /\ Flushed.sole = parser.sole
      /\ Flushed.directives = parser.directives
  BY FlushedIs
<1>2. s \in Seq([tag : Scopes \cup Symbols, style : TagStyles])
  <2>1. e \in [tag : Scopes \cup Symbols, style : TagStyles]
    BY <1>0
  <2>2. Flushed.open \in Seq([tag : Scopes \cup Symbols, style : TagStyles])
    BY <1>1 DEF Consoles
  <2> HIDE DEF e
  <2> QED
    BY <2>1, <2>2, AppendProperties
<1>3. s = Append(parser.open, e)
  BY <1>1
<1> HIDE DEF s
<1>4. c \in Consoles
  BY <1>1, <1>2 DEF Consoles
<1>5. /\ c.open = s /\ c.cells = Flushed.cells /\ c.pending = Flushed.pending
      /\ c.known = Flushed.known /\ c.style = Flushed.style
      /\ c.align = Flushed.align /\ c.wrap = Flushed.wrap
      /\ c.alignSeen = Flushed.alignSeen /\ c.wrapSeen = Flushed.wrapSeen
      /\ c.resetAlign = Flushed.resetAlign /\ c.resetWrap = Flushed.resetWrap
      /\ c.closed = Flushed.closed /\ c.block = Flushed.block /\ c.sole = Flushed.sole
      /\ c.directives = Flushed.directives
  BY <1>1 DEF Consoles
<1>6. /\ tag \in Aligns => tag \notin Wraps /\ tag \notin Symbols /\ tag \notin Styles
      /\ tag \in Wraps => tag \notin Symbols /\ tag \notin Styles
      /\ tag \in Symbols => tag \notin Styles
      /\ tag \in Aligns \/ tag \in Wraps \/ tag \in Symbols \/ tag \in Styles
  BY DEF Aligns, Wraps, Symbols, Styles, Scopes
<1>7. AgentOpen(tag) = CASE tag \in Aligns  -> [c EXCEPT !.align = tag, !.alignSeen = TRUE]
                         [] tag \in Wraps   -> [c EXCEPT !.wrap = tag, !.wrapSeen = TRUE]
                         [] tag \in Symbols -> [c EXCEPT !.block = TRUE]
                         [] tag \in Styles  -> [c EXCEPT !.style = Patch(@, tag)]
  <2>1. c = [Flushed EXCEPT !.open = Append(@, [tag |-> tag, style |-> parser.style])]
    BY DEF s
  <2> HIDE DEF c
  <2> QED
    BY <2>1 DEF AgentOpen
<1> HIDE DEF c, e
<1>8. CASE tag \in Aligns
  <2> DEFINE d == [c EXCEPT !.align = tag, !.alignSeen = TRUE]
  <2>1. AgentOpen(tag) = d
    BY <1>6, <1>7, <1>8
  <2>2. d \in Consoles
    BY <1>4, <1>8 DEF Consoles
  <2>3. /\ d.open = c.open /\ d.cells = c.cells /\ d.pending = c.pending
        /\ d.known = c.known /\ d.style = c.style /\ d.align = tag /\ d.wrap = c.wrap
        /\ d.alignSeen = TRUE /\ d.wrapSeen = c.wrapSeen
        /\ d.resetAlign = c.resetAlign /\ d.resetWrap = c.resetWrap
        /\ d.closed = c.closed /\ d.block = c.block /\ d.sole = c.sole /\ d.directives = c.directives
    BY <1>4 DEF Consoles
  <2> HIDE DEF d
  <2>4. /\ (IF tag \in Styles THEN Patch(parser.style, tag) ELSE parser.style) = parser.style
        /\ (IF tag \in Aligns THEN tag ELSE parser.align) = tag
        /\ (IF tag \in Wraps THEN tag ELSE parser.wrap) = parser.wrap
    BY <1>6, <1>8
  <2>5. /\ (parser.alignSeen \/ tag \in Aligns) = TRUE
        /\ (parser.wrapSeen \/ tag \in Wraps) = parser.wrapSeen /\ (parser.block \/ tag \in Symbols) = parser.block
    BY <1>0, <1>6, <1>8
  <2>6. d.alignSeen = (parser.alignSeen \/ tag \in Aligns)
    BY <1>1, <1>5, <2>3, <2>5
  <2>7. d.wrapSeen = (parser.wrapSeen \/ tag \in Wraps)
    BY <1>1, <1>5, <2>3, <2>5
  <2>8. d.block = (parser.block \/ tag \in Symbols)
    BY <1>1, <1>5, <2>3, <2>5
  <2>9. /\ d.style = (IF tag \in Styles THEN Patch(parser.style, tag) ELSE parser.style)
        /\ d.align = (IF tag \in Aligns THEN tag ELSE parser.align)
        /\ d.wrap = (IF tag \in Wraps THEN tag ELSE parser.wrap)
    BY <1>1, <1>5, <2>3, <2>4
  <2>10. /\ d.open = Append(parser.open, [tag |-> tag, style |-> parser.style])
         /\ d.cells = parser.cells \o parser.pending /\ d.pending = <<>>
         /\ d.directives = parser.directives /\ d.sole = parser.sole
         /\ d.known = parser.known /\ d.closed = parser.closed
         /\ d.resetAlign = parser.resetAlign /\ d.resetWrap = parser.resetWrap
    BY <1>1, <1>3, <1>5, <2>3 DEF e
  <2> QED
    BY <2>1, <2>2, <2>6, <2>7, <2>8, <2>9, <2>10
<1>9. CASE tag \in Wraps
  <2> DEFINE d == [c EXCEPT !.wrap = tag, !.wrapSeen = TRUE]
  <2>1. AgentOpen(tag) = d
    BY <1>6, <1>7, <1>9
  <2>2. d \in Consoles
    BY <1>4, <1>9 DEF Consoles
  <2>3. /\ d.open = c.open /\ d.cells = c.cells /\ d.pending = c.pending
        /\ d.known = c.known /\ d.style = c.style /\ d.align = c.align /\ d.wrap = tag
        /\ d.alignSeen = c.alignSeen /\ d.wrapSeen = TRUE
        /\ d.resetAlign = c.resetAlign /\ d.resetWrap = c.resetWrap
        /\ d.closed = c.closed /\ d.block = c.block /\ d.sole = c.sole /\ d.directives = c.directives
    BY <1>4 DEF Consoles
  <2> HIDE DEF d
  <2>4. /\ (IF tag \in Styles THEN Patch(parser.style, tag) ELSE parser.style) = parser.style
        /\ (IF tag \in Aligns THEN tag ELSE parser.align) = parser.align
        /\ (IF tag \in Wraps THEN tag ELSE parser.wrap) = tag
    BY <1>6, <1>9
  <2>5. /\ (parser.alignSeen \/ tag \in Aligns) = parser.alignSeen
        /\ (parser.wrapSeen \/ tag \in Wraps) = TRUE /\ (parser.block \/ tag \in Symbols) = parser.block
    BY <1>0, <1>6, <1>9
  <2>6. d.alignSeen = (parser.alignSeen \/ tag \in Aligns)
    BY <1>1, <1>5, <2>3, <2>5
  <2>7. d.wrapSeen = (parser.wrapSeen \/ tag \in Wraps)
    BY <1>1, <1>5, <2>3, <2>5
  <2>8. d.block = (parser.block \/ tag \in Symbols)
    BY <1>1, <1>5, <2>3, <2>5
  <2>9. /\ d.style = (IF tag \in Styles THEN Patch(parser.style, tag) ELSE parser.style)
        /\ d.align = (IF tag \in Aligns THEN tag ELSE parser.align)
        /\ d.wrap = (IF tag \in Wraps THEN tag ELSE parser.wrap)
    BY <1>1, <1>5, <2>3, <2>4
  <2>10. /\ d.open = Append(parser.open, [tag |-> tag, style |-> parser.style])
         /\ d.cells = parser.cells \o parser.pending /\ d.pending = <<>>
         /\ d.directives = parser.directives /\ d.sole = parser.sole
         /\ d.known = parser.known /\ d.closed = parser.closed
         /\ d.resetAlign = parser.resetAlign /\ d.resetWrap = parser.resetWrap
    BY <1>1, <1>3, <1>5, <2>3 DEF e
  <2> QED
    BY <2>1, <2>2, <2>6, <2>7, <2>8, <2>9, <2>10
<1>10. CASE tag \in Symbols
  <2> DEFINE d == [c EXCEPT !.block = TRUE]
  <2>1. AgentOpen(tag) = d
    BY <1>6, <1>7, <1>10
  <2>2. d \in Consoles
    BY <1>4 DEF Consoles
  <2>3. /\ d.open = c.open /\ d.cells = c.cells /\ d.pending = c.pending
        /\ d.known = c.known /\ d.style = c.style /\ d.align = c.align /\ d.wrap = c.wrap
        /\ d.alignSeen = c.alignSeen /\ d.wrapSeen = c.wrapSeen
        /\ d.resetAlign = c.resetAlign /\ d.resetWrap = c.resetWrap
        /\ d.closed = c.closed /\ d.block = TRUE /\ d.sole = c.sole /\ d.directives = c.directives
    BY <1>4 DEF Consoles
  <2> HIDE DEF d
  <2>4. /\ (IF tag \in Styles THEN Patch(parser.style, tag) ELSE parser.style) = parser.style
        /\ (IF tag \in Aligns THEN tag ELSE parser.align) = parser.align
        /\ (IF tag \in Wraps THEN tag ELSE parser.wrap) = parser.wrap
    BY <1>6, <1>10
  <2>5. /\ (parser.alignSeen \/ tag \in Aligns) = parser.alignSeen
        /\ (parser.wrapSeen \/ tag \in Wraps) = parser.wrapSeen /\ (parser.block \/ tag \in Symbols) = TRUE
    BY <1>0, <1>6, <1>10
  <2>6. d.alignSeen = (parser.alignSeen \/ tag \in Aligns)
    BY <1>1, <1>5, <2>3, <2>5
  <2>7. d.wrapSeen = (parser.wrapSeen \/ tag \in Wraps)
    BY <1>1, <1>5, <2>3, <2>5
  <2>8. d.block = (parser.block \/ tag \in Symbols)
    BY <1>1, <1>5, <2>3, <2>5
  <2>9. /\ d.style = (IF tag \in Styles THEN Patch(parser.style, tag) ELSE parser.style)
        /\ d.align = (IF tag \in Aligns THEN tag ELSE parser.align)
        /\ d.wrap = (IF tag \in Wraps THEN tag ELSE parser.wrap)
    BY <1>1, <1>5, <2>3, <2>4
  <2>10. /\ d.open = Append(parser.open, [tag |-> tag, style |-> parser.style])
         /\ d.cells = parser.cells \o parser.pending /\ d.pending = <<>>
         /\ d.directives = parser.directives /\ d.sole = parser.sole
         /\ d.known = parser.known /\ d.closed = parser.closed
         /\ d.resetAlign = parser.resetAlign /\ d.resetWrap = parser.resetWrap
    BY <1>1, <1>3, <1>5, <2>3 DEF e
  <2> QED
    BY <2>1, <2>2, <2>6, <2>7, <2>8, <2>9, <2>10
<1>11. CASE tag \in Styles
  <2> DEFINE x == Patch(c.style, tag)
             d == [c EXCEPT !.style = x]
  <2>1. AgentOpen(tag) = d
    BY <1>6, <1>7, <1>11
  <2>2. x \in TagStyles
    <3>1. c.style \in TagStyles
      BY <1>4 DEF Consoles
    <3> QED
      BY <1>11, <3>1 DEF Patch, TagStyles, Styles
  <2>3. x = Patch(parser.style, tag)
    BY <1>1, <1>5
  <2> HIDE DEF x
  <2>4. d \in Consoles
    BY <1>4, <2>2 DEF Consoles
  <2>5. /\ d.open = c.open /\ d.cells = c.cells /\ d.pending = c.pending
        /\ d.known = c.known /\ d.style = x /\ d.align = c.align /\ d.wrap = c.wrap
        /\ d.alignSeen = c.alignSeen /\ d.wrapSeen = c.wrapSeen
        /\ d.resetAlign = c.resetAlign /\ d.resetWrap = c.resetWrap
        /\ d.closed = c.closed /\ d.block = c.block /\ d.sole = c.sole /\ d.directives = c.directives
    BY <1>4 DEF Consoles
  <2> HIDE DEF d
  <2> QED
    BY <1>0, <1>1, <1>3, <1>5, <1>6, <1>11, <2>1, <2>3, <2>4, <2>5 DEF e
<1> QED
  BY <1>6, <1>8, <1>9, <1>10, <1>11

\* A closed tag takes back the style around it; what spans the line is taken back when that ends.
LEMMA CloseHeard ==
    ASSUME parser \in Consoles, \A i \in DOMAIN parser.pending : parser.pending[i].style = parser.style,
           NEW tag \in Scopes \cup Symbols, parser.open # <<>>
    PROVE  LET d == AgentClose(tag)
           IN  /\ d \in Consoles /\ d.open = Front(parser.open) /\ d.style = Last(parser.open).style
               /\ d.cells = parser.cells \o parser.pending /\ d.pending = <<>>
               /\ d.known = parser.known /\ d.align = parser.align /\ d.wrap = parser.wrap
               /\ tag \in Aligns => ~d.alignSeen /\ d.resetAlign
               /\ tag \notin Aligns => d.alignSeen = parser.alignSeen /\ d.resetAlign = parser.resetAlign
               /\ tag \in Wraps => ~d.wrapSeen /\ d.resetWrap
               /\ tag \notin Wraps => d.wrapSeen = parser.wrapSeen /\ d.resetWrap = parser.resetWrap
               /\ tag \in Aligns \cup Wraps => d.closed
               /\ tag \notin Aligns \cup Wraps => d.closed = parser.closed
               /\ tag \in Symbols => /\ ~d.block /\ d.sole /\ d.directives = Append(parser.directives, tag)
               /\ tag \notin Symbols => /\ d.block = parser.block /\ d.sole = parser.sole
                                        /\ d.directives = parser.directives
<1> DEFINE s == Front(parser.open)
           x == Last(parser.open).style
           c == [Flushed EXCEPT !.open = s, !.style = x]
           cells == parser.cells \o parser.pending
           marks == Append(parser.directives, tag)
           Result(d) ==
               /\ d \in Consoles /\ d.open = s /\ d.style = x
               /\ d.cells = cells /\ d.pending = <<>>
               /\ d.known = parser.known /\ d.align = parser.align /\ d.wrap = parser.wrap
               /\ tag \in Aligns => ~d.alignSeen /\ d.resetAlign
               /\ tag \notin Aligns => d.alignSeen = parser.alignSeen /\ d.resetAlign = parser.resetAlign
               /\ tag \in Wraps => ~d.wrapSeen /\ d.resetWrap
               /\ tag \notin Wraps => d.wrapSeen = parser.wrapSeen /\ d.resetWrap = parser.resetWrap
               /\ tag \in Aligns \cup Wraps => d.closed
               /\ tag \notin Aligns \cup Wraps => d.closed = parser.closed
               /\ tag \in Symbols => ~d.block /\ d.sole /\ d.directives = marks
               /\ tag \notin Symbols => /\ d.block = parser.block /\ d.sole = parser.sole
                                        /\ d.directives = parser.directives
<1>1. /\ Flushed \in Consoles /\ Flushed.cells = parser.cells \o parser.pending /\ Flushed.pending = <<>>
      /\ Flushed.known = parser.known /\ Flushed.open = parser.open /\ Flushed.style = parser.style
      /\ Flushed.align = parser.align /\ Flushed.wrap = parser.wrap
      /\ Flushed.alignSeen = parser.alignSeen /\ Flushed.wrapSeen = parser.wrapSeen
      /\ Flushed.resetAlign = parser.resetAlign /\ Flushed.resetWrap = parser.resetWrap
      /\ Flushed.closed = parser.closed /\ Flushed.block = parser.block /\ Flushed.sole = parser.sole
      /\ Flushed.directives = parser.directives
  BY FlushedIs
<1>2. s \in Seq([tag : Scopes \cup Symbols, style : TagStyles]) /\ x \in TagStyles
  <2>1. parser.open \in Seq([tag : Scopes \cup Symbols, style : TagStyles])
    BY DEF Consoles
  <2>2. /\ s \in Seq([tag : Scopes \cup Symbols, style : TagStyles])
        /\ Last(parser.open) \in [tag : Scopes \cup Symbols, style : TagStyles]
    BY <2>1, Shrunk
  <2> QED
    BY <2>2
<1>3. AgentClose(tag) =
          CASE tag \in Aligns  -> [c EXCEPT !.closed = TRUE, !.alignSeen = FALSE, !.resetAlign = TRUE]
            [] tag \in Wraps   -> [c EXCEPT !.closed = TRUE, !.wrapSeen = FALSE, !.resetWrap = TRUE]
            [] tag \in Symbols -> [c EXCEPT !.block = FALSE, !.sole = TRUE, !.directives = Append(@, tag)]
            [] tag \in Styles  -> c
  <2>1. c = [Flushed EXCEPT !.open = Front(@), !.style = Last(parser.open).style]
    BY <1>1
  <2> HIDE DEF c
  <2> QED
    BY <2>1 DEF AgentClose
<1> HIDE DEF s, x
<1>4. c \in Consoles
  BY <1>1, <1>2 DEF Consoles
<1>5. /\ c.open = s /\ c.style = x /\ c.cells = Flushed.cells /\ c.pending = Flushed.pending
      /\ c.known = Flushed.known /\ c.align = Flushed.align /\ c.wrap = Flushed.wrap
      /\ c.alignSeen = Flushed.alignSeen /\ c.wrapSeen = Flushed.wrapSeen
      /\ c.resetAlign = Flushed.resetAlign /\ c.resetWrap = Flushed.resetWrap
      /\ c.closed = Flushed.closed /\ c.block = Flushed.block /\ c.sole = Flushed.sole
      /\ c.directives = Flushed.directives
  BY <1>1 DEF Consoles
<1>6. /\ tag \in Aligns => tag \notin Wraps /\ tag \notin Symbols /\ tag \notin Styles
      /\ tag \in Wraps => tag \notin Aligns /\ tag \notin Symbols /\ tag \notin Styles
      /\ tag \in Symbols => tag \notin Styles /\ tag \notin Aligns /\ tag \notin Wraps
      /\ tag \in Styles => tag \notin Symbols /\ tag \notin Aligns /\ tag \notin Wraps
      /\ tag \in Aligns \/ tag \in Wraps \/ tag \in Symbols \/ tag \in Styles
  BY DEF Aligns, Wraps, Symbols, Styles, Scopes
<1>7. /\ c.open = s /\ c.style = x /\ c.cells = cells /\ c.pending = <<>>
      /\ c.known = parser.known /\ c.align = parser.align /\ c.wrap = parser.wrap
      /\ c.alignSeen = parser.alignSeen /\ c.wrapSeen = parser.wrapSeen
      /\ c.resetAlign = parser.resetAlign /\ c.resetWrap = parser.resetWrap
      /\ c.closed = parser.closed /\ c.block = parser.block /\ c.sole = parser.sole
      /\ c.directives = parser.directives
  <2>1. Flushed.cells = cells
    BY <1>1
  <2> HIDE DEF c, cells
  <2> QED
    BY <1>1, <1>5, <2>1
<1> HIDE DEF c, cells, marks
<1>8. ASSUME tag \in Aligns PROVE Result(AgentClose(tag))
  <2> DEFINE d == [c EXCEPT !.closed = TRUE, !.alignSeen = FALSE, !.resetAlign = TRUE]
  <2>1. AgentClose(tag) = d
    BY <1>3, <1>6, <1>8
  <2>2. d \in Consoles
    BY <1>4 DEF Consoles
  <2>3. /\ d.open = c.open /\ d.style = c.style /\ d.cells = c.cells /\ d.pending = c.pending
        /\ d.known = c.known /\ d.align = c.align /\ d.wrap = c.wrap
        /\ ~d.alignSeen /\ d.wrapSeen = c.wrapSeen /\ d.resetAlign /\ d.resetWrap = c.resetWrap
        /\ d.closed /\ d.block = c.block /\ d.sole = c.sole /\ d.directives = c.directives
    BY <1>4 DEF Consoles
  <2> HIDE DEF d
  <2> QED
    BY <1>6, <1>7, <1>8, <2>1, <2>2, <2>3
<1>9. ASSUME tag \in Wraps PROVE Result(AgentClose(tag))
  <2> DEFINE d == [c EXCEPT !.closed = TRUE, !.wrapSeen = FALSE, !.resetWrap = TRUE]
  <2>1. AgentClose(tag) = d
    BY <1>3, <1>6, <1>9
  <2>2. d \in Consoles
    BY <1>4 DEF Consoles
  <2>3. /\ d.open = c.open /\ d.style = c.style /\ d.cells = c.cells /\ d.pending = c.pending
        /\ d.known = c.known /\ d.align = c.align /\ d.wrap = c.wrap
        /\ d.alignSeen = c.alignSeen /\ ~d.wrapSeen /\ d.resetAlign = c.resetAlign /\ d.resetWrap
        /\ d.closed /\ d.block = c.block /\ d.sole = c.sole /\ d.directives = c.directives
    BY <1>4 DEF Consoles
  <2> HIDE DEF d
  <2> QED
    BY <1>6, <1>7, <1>9, <2>1, <2>2, <2>3
<1>10. ASSUME tag \in Symbols PROVE Result(AgentClose(tag))
  <2> DEFINE n == Append(c.directives, tag)
             d == [c EXCEPT !.block = FALSE, !.sole = TRUE, !.directives = n]
  <2>1. AgentClose(tag) = d
    BY <1>3, <1>6, <1>10
  <2>2. n \in Seq({"hr", "cut"} \cup Symbols)
    <3>1. c.directives \in Seq({"hr", "cut"} \cup Symbols)
      BY <1>4 DEF Consoles
    <3>2. tag \in {"hr", "cut"} \cup Symbols
      BY <1>10
    <3> QED
      BY <3>1, <3>2, AppendProperties
  <2>3. n = marks
    BY <1>1, <1>5 DEF marks
  <2> HIDE DEF n
  <2>4. d \in Consoles
    BY <1>4, <2>2 DEF Consoles
  <2>5. /\ d.open = c.open /\ d.style = c.style /\ d.cells = c.cells /\ d.pending = c.pending
        /\ d.known = c.known /\ d.align = c.align /\ d.wrap = c.wrap
        /\ d.alignSeen = c.alignSeen /\ d.wrapSeen = c.wrapSeen
        /\ d.resetAlign = c.resetAlign /\ d.resetWrap = c.resetWrap
        /\ d.closed = c.closed /\ ~d.block /\ d.sole /\ d.directives = n
    BY <1>4 DEF Consoles
  <2> HIDE DEF d
  <2> QED
    BY <1>6, <1>7, <1>10, <2>1, <2>3, <2>4, <2>5
<1>11. ASSUME tag \in Styles PROVE Result(AgentClose(tag))
  <2>1. AgentClose(tag) = c
    BY <1>3, <1>6, <1>11
  <2> QED
    BY <1>4, <1>6, <1>7, <1>11, <2>1
<1>12. Result(AgentClose(tag))
  BY <1>6, <1>8, <1>9, <1>10, <1>11
<1> QED
  BY <1>12 DEF s, x, cells, marks

\* A line that ends leaves what is open.
LEMMA EndHeard ==
    ASSUME parser \in Consoles
    PROVE  LET d == AgentEnds
           IN  /\ d \in Consoles /\ d.open = parser.open /\ d.style = parser.style
               /\ d.cells = <<>> /\ d.pending = <<>> /\ d.directives = <<>>
               /\ d.known = parser.known /\ d.block = parser.block
               /\ d.align = (IF parser.resetAlign THEN "none" ELSE parser.align)
               /\ d.wrap = (IF parser.resetWrap THEN "none" ELSE parser.wrap)
               /\ d.alignSeen = parser.alignSeen /\ d.wrapSeen = parser.wrapSeen
               /\ ~d.resetAlign /\ ~d.resetWrap /\ ~d.closed /\ ~d.sole
<1> DEFINE a == IF parser.resetAlign THEN "none" ELSE parser.align
           w == IF parser.resetWrap THEN "none" ELSE parser.wrap
           d == [parser EXCEPT !.cells = <<>>, !.pending = <<>>, !.directives = <<>>, !.sole = FALSE,
                                !.closed = FALSE, !.align = a, !.resetAlign = FALSE, !.wrap = w,
                                !.resetWrap = FALSE]
<1>1. AgentEnds = d
  BY DEF AgentEnds
<1>2. a \in Aligns \cup {"none"} /\ w \in Wraps \cup {"none"}
  BY DEF Consoles
<1> HIDE DEF a, w
<1>3. <<>> \in Seq(PrintedCells) /\ <<>> \in Seq({"hr", "cut"} \cup Symbols)
  OBVIOUS
<1>4. d \in Consoles
  BY <1>2, <1>3 DEF Consoles
<1>5. /\ d.open = parser.open /\ d.style = parser.style
      /\ d.cells = <<>> /\ d.pending = <<>> /\ d.directives = <<>>
      /\ d.known = parser.known /\ d.block = parser.block /\ d.align = a /\ d.wrap = w
      /\ d.alignSeen = parser.alignSeen /\ d.wrapSeen = parser.wrapSeen
      /\ ~d.resetAlign /\ ~d.resetWrap /\ ~d.closed /\ ~d.sole
  BY DEF Consoles
<1> HIDE DEF d
<1> QED
  BY <1>1, <1>4, <1>5 DEF a, w

\* A document with a tag of the server's alone is not compared any further.
LEMMA NotHeard ==
    ASSUME parser \in Consoles
    PROVE  Unheard \in Consoles /\ ~Unheard.known
<1>1. /\ <<>> \in Seq(PrintedCells) /\ <<>> \in Seq({"hr", "cut"} \cup Symbols)
      /\ <<>> \in Seq([tag : Scopes \cup Symbols, style : TagStyles])
  OBVIOUS
<1>2. Unheard \in Consoles
  BY <1>1 DEF Consoles, Unheard
<1> QED
  BY <1>2 DEF Consoles, Unheard

\* Where the console hears all there is, they take the same text.
LEMMA TextAgreed ==
    ASSUME ReadInv, parser.known, due # "close", NEW blank \in BOOLEAN
    PROVE  /\ AgentTakesText => ServerTakesText(blank)
           /\ ServerTakesText(blank) /\ ~AgentTakesText => tree.line.hushed
<1>1. /\ Owner = tree.owners[1] /\ Inside = "none" /\ KnownInv(tree, parser, before, due)
  BY KnownPaper
<1>2. /\ Owner.closed # "no" => parser.closed /\ Owner.closed # "block"
      /\ parser.closed /\ Owner.closed = "no" => tree.line.hushed
  BY <1>1 DEF KnownInv, Trails, Closed
<1>3. Inside \notin DOMAIN HoldsOnly
  BY <1>1 DEF HoldsOnly
<1> QED
  BY <1>2, <1>3 DEF AgentTakesText, ServerTakesText

\* The same voids.
LEMMA VoidAgreed ==
    ASSUME ReadInv, parser.known, due # "close", NEW tag \in {"fill", "hr", "cut"}
    PROVE  /\ AgentTakesOpen(tag) => ServerTakesOpen(tag)
           /\ ServerTakesOpen(tag) /\ ~AgentTakesOpen(tag) => tree.line.hushed
<1>1. /\ Owner = tree.owners[1] /\ Inside = "none" /\ KnownInv(tree, parser, before, due)
      /\ (InData <=> parser.block)
  BY KnownPaper
<1>2. /\ Owner.closed # "no" => parser.closed /\ Owner.closed # "block"
      /\ parser.closed /\ Owner.closed = "no" => tree.line.hushed
  BY <1>1 DEF KnownInv, Trails, Closed
<1>3. MayStand(tag)
  BY <1>1 DEF MayStand, RequiredParent, HoldsOnly
<1>4. tag \notin Aligns /\ tag \notin Wraps /\ tag \notin Regions /\ tag # "bar"
  BY DEF Aligns, Wraps, Regions, Blocks, Data
<1> QED
  BY <1>1, <1>2, <1>3, <1>4 DEF AgentTakesOpen, ServerTakesOpen

\* The same tags, but for what spans the line: before that the server takes no fill.
LEMMA OpenAgreed ==
    ASSUME ReadInv, parser.known, due # "close", NEW tag \in Scopes \cup Symbols
    PROVE  /\ AgentTakesOpen(tag) /\ ~ServerTakesOpen(tag) => FillsOnly(tree.line)
           /\ ServerTakesOpen(tag) /\ ~AgentTakesOpen(tag) => tree.line.hushed
<1> DEFINE p == tree.owners[1]
           line == tree.line
<1>1. /\ Owner = p /\ Inside = "none" /\ KnownInv(tree, parser, before, due) /\ parser \in Consoles
      /\ (InData <=> parser.block) /\ Frames = tree.frames /\ Frames \in Seq(Tags)
      /\ \A kinds : Within(kinds) <=> \E i \in DOMAIN Frames : Frames[i] \in kinds
  BY KnownPaper
<1>2. /\ p.closed # "no" => parser.closed /\ p.closed # "block"
      /\ parser.closed /\ p.closed = "no" => line.hushed
      /\ p.alignSeen => parser.alignSeen \/ parser.closed
      /\ p.wrapSeen => parser.wrapSeen \/ parser.closed
      /\ p.content => line.cells # <<>> \/ line.directives # <<>>
  BY <1>1 DEF KnownInv, Trails, Closed
<1>3. /\ line.cells = parser.cells \o parser.pending /\ line.directives = parser.directives
      /\ parser.alignSeen <=> \E i \in DOMAIN Frames : Frames[i] \in Aligns
      /\ parser.wrapSeen <=> \E i \in DOMAIN Frames : Frames[i] \in Wraps
      /\ Len(parser.open) = Len(Frames)
      /\ \A i \in DOMAIN Frames : parser.open[i].tag = Frames[i]
  BY <1>1 DEF KnownInv, SameLine, Scoped, SameTags
<1>4. /\ parser.cells \in Seq(PrintedCells) /\ parser.pending \in Seq(PrintedCells)
      /\ parser.open \in Seq([tag : Scopes \cup Symbols, style : TagStyles])
  BY <1>1 DEF Consoles
<1>5. DOMAIN parser.open = DOMAIN Frames
  BY <1>1, <1>3, <1>4, LenProperties
<1>6. MayStand(tag)
  BY <1>1 DEF MayStand, RequiredParent, HoldsOnly, Scopes, Styles, Aligns, Wraps, Symbols
<1>7. tag \notin Regions /\ tag # "bar"
  BY DEF Scopes, Styles, Aligns, Wraps, Symbols, Regions, Blocks, Data
<1>8. ASSUME AgentTakesOpen(tag), ~ServerTakesOpen(tag)
      PROVE  FillsOnly(line)
  <2>1. ~InData /\ ~parser.closed /\ p.closed = "no"
    BY <1>1, <1>2, <1>8 DEF AgentTakesOpen
  <2>2. /\ tag \in Aligns => ~parser.alignSeen /\ ~p.alignSeen /\ ~Within(Aligns)
        /\ tag \in Wraps => ~parser.wrapSeen /\ ~p.wrapSeen /\ ~Within(Wraps)
    BY <1>1, <1>2, <1>3, <1>8, <2>1 DEF AgentTakesOpen
  <2>3. tag \in Aligns \cup Wraps /\ ~OwnerCanOpen
    BY <1>1, <1>6, <1>7, <1>8, <2>1, <2>2 DEF ServerTakesOpen
  <2>4. /\ parser.pending = <<>> /\ \A i \in DOMAIN parser.cells : parser.cells[i].what = "fill"
        /\ parser.directives = <<>>
        /\ \A i \in DOMAIN parser.open : parser.open[i].tag \in Aligns \cup Wraps
    BY <1>8, <2>3 DEF AgentTakesOpen
  <2>5. ~Within(Styles)
    <3>1. \A i \in DOMAIN Frames : Frames[i] \in Aligns \cup Wraps
      BY <1>3, <1>5, <2>4
    <3>2. (Aligns \cup Wraps) \cap Styles = {}
      BY DEF Aligns, Wraps, Styles
    <3> QED
      BY <1>1, <3>1, <3>2
  <2>6. line.cells # <<>>
    BY <1>1, <1>2, <1>3, <2>3, <2>4, <2>5 DEF OwnerCanOpen
  <2>7. line.cells = parser.cells
    <3>1. parser.cells \o <<>> = parser.cells
      BY <1>4, ConcatEmptySeq
    <3>2. line.cells = parser.cells \o parser.pending
      BY <1>3
    <3>3. parser.pending = <<>>
      BY <2>4
    <3> DEFINE a == parser.cells
               b == parser.pending
    <3> HIDE DEF line, a, b
    <3>4. line.cells = a \o b /\ b = <<>> /\ a \o <<>> = a
      BY <3>1, <3>2, <3>3 DEF a, b
    <3>5. line.cells = a
      BY ONLY <3>4
    <3> QED
      BY ONLY <3>5 DEF a
  <2> QED
    BY <2>4, <2>6, <2>7 DEF FillsOnly
<1>9. ASSUME ServerTakesOpen(tag), ~AgentTakesOpen(tag), ~line.hushed
      PROVE  FALSE
  <2>1. ~parser.block /\ p.closed = "no" /\ ~parser.closed
    BY <1>1, <1>2, <1>9 DEF ServerTakesOpen
  <2>2. /\ tag \in Aligns => ~parser.alignSeen
        /\ tag \in Wraps => ~parser.wrapSeen
    BY <1>1, <1>3, <1>9 DEF ServerTakesOpen
  <2>3. tag \in Aligns \cup Wraps
    BY <1>9, <2>1, <2>2 DEF AgentTakesOpen
  <2>4. ~p.content /\ ~Within(Styles) /\ ~InData
    BY <1>1, <1>9, <2>3 DEF ServerTakesOpen, OwnerCanOpen
  <2>5. line.cells = <<>> /\ line.directives = <<>>
    <3>1. Recalls(p, line)
      BY <1>9 DEF ReadInv, ServerInv, LineKept
    <3> QED
      BY <2>4, <3>1 DEF Recalls
  <2>6. parser.cells = <<>> /\ parser.pending = <<>> /\ parser.directives = <<>>
    <3> DEFINE a == parser.cells
               b == parser.pending
    <3>1. a \in Seq(PrintedCells) /\ b \in Seq(PrintedCells)
      BY <1>4
    <3>2. a \o b = <<>>
      BY <1>3, <2>5
    <3> HIDE DEF a, b
    <3>3. a = <<>> /\ b = <<>>
      BY ONLY <3>1, <3>2, ConcatEqualIffEmpty
    <3> QED
      BY <1>3, <2>5, <3>3 DEF a, b
  <2>7. \A i \in DOMAIN parser.open : parser.open[i].tag \in Aligns \cup Wraps
    <3>1. \A i \in DOMAIN Frames : Frames[i] \notin Styles
      BY <1>1, <2>4
    <3>2. \A i \in DOMAIN Frames : Frames[i] \notin Symbols
      BY <2>4, NoSymbols DEF ReadInv
    <3>3. \A i \in DOMAIN Frames : parser.open[i].tag \in Scopes \cup Symbols
      <4>1. \A i \in 1 .. Len(parser.open) : parser.open[i] \in [tag : Scopes \cup Symbols, style : TagStyles]
        BY <1>4, ElementOfSeq
      <4>2. DOMAIN parser.open = 1 .. Len(parser.open)
        BY <1>4, LenProperties
      <4> QED
        BY <1>5, <4>1, <4>2
    <3> QED
      BY <1>3, <1>5, <3>1, <3>2, <3>3 DEF Scopes
  <2> QED
    BY <1>9, <2>1, <2>2, <2>6, <2>7 DEF AgentTakesOpen
<1> QED
  BY <1>8, <1>9

\* The same closing tags.
LEMMA CloseAgreed ==
    ASSUME ReadInv, parser.known, NEW tag \in Scopes \cup Symbols
    PROVE  /\ ServerTakesClose(tag) <=> AgentTakesClose(tag)
           /\ AgentTakesClose(tag) => tag = Last(Frames)
<1>1. /\ Frames = tree.frames /\ Frames \in Seq(Tags) /\ parser \in Consoles
      /\ KnownInv(tree, parser, before, due)
  BY KnownPaper
<1>2. /\ Len(parser.open) = Len(Frames) /\ \A i \in DOMAIN Frames : parser.open[i].tag = Frames[i]
  BY <1>1 DEF KnownInv, SameTags
<1>3. parser.open \in Seq([tag : Scopes \cup Symbols, style : TagStyles])
  BY <1>1 DEF Consoles
<1>4. (Frames = <<>> <=> Len(Frames) = 0) /\ (parser.open = <<>> <=> Len(parser.open) = 0)
  BY <1>1, <1>3, EmptySeq
<1>5. tag \notin Regions /\ tag # "none"
  BY DEF Scopes, Styles, Aligns, Wraps, Symbols, Regions, Blocks, Data
<1>6. CASE Frames = <<>>
  BY <1>2, <1>4, <1>5, <1>6 DEF ServerTakesClose, AgentTakesClose, Top
<1>7. CASE Frames # <<>>
  <2>1. Last(Frames) = Frames[Len(Frames)] /\ Len(Frames) \in DOMAIN Frames
    BY <1>1, <1>7, Shrunk
  <2>2. parser.open # <<>>
    BY <1>2, <1>4, <1>7
  <2>3. Last(parser.open).tag = Last(Frames)
    BY <1>2, <2>1 DEF Last
  <2> QED
    BY <1>5, <1>7, <2>2, <2>3 DEF ServerTakesClose, AgentTakesClose, Top
<1> QED
  BY <1>6, <1>7

\* And at a break, and at the end, what must be alone on its line.
LEMMA AloneAgreed ==
    ASSUME ReadInv, parser.known, ~InData
    PROVE  /\ AgentAlone => AloneOn(Owner)
           /\ AloneOn(Owner) /\ ~AgentAlone => tree.line.hushed
<1> DEFINE p == tree.owners[1]
           line == tree.line
<1>1. /\ Owner = p /\ Owner \in LineStates /\ KnownInv(tree, parser, before, due) /\ parser \in Consoles
      /\ ~parser.block /\ line \in PrintedLines
  BY KnownPaper
<1>2. /\ p.textSeen \/ p.fills => line.cells # <<>>
      /\ p.printing > 0 => line.directives # <<>>
      /\ p.printing > 1 => Len(line.directives) > 1
      /\ p.sole => parser.sole /\ p.printing > 0
      /\ parser.sole => Has(line, Symbols \cup {"hr"})
      /\ line.cells = parser.cells \o parser.pending /\ line.directives = parser.directives
  BY <1>1 DEF KnownInv, Trails, SameLine
<1>3. AgentAlone <=> (parser.sole => line.cells = <<>> /\ Len(line.directives) = 1)
  BY <1>2 DEF AgentAlone, ConsoleLine
<1>4. p.printing \in {0, 1, 2}
  BY <1>1 DEF LineStates
<1>5. AgentAlone => AloneOn(Owner)
  <2> SUFFICES ASSUME AgentAlone, p.sole PROVE ~p.textSeen /\ ~p.fills /\ p.printing = 1
    BY <1>1 DEF AloneOn
  <2>1. line.cells = <<>> /\ Len(line.directives) = 1 /\ p.printing > 0
    BY <1>2, <1>3
  <2>2. ~(p.printing > 1)
    BY <1>2, <2>1
  <2> QED
    BY <1>2, <1>4, <2>1, <2>2
<1>6. ASSUME AloneOn(Owner), ~AgentAlone, ~line.hushed
      PROVE  FALSE
  <2>1. Recalls(p, line)
    BY <1>6 DEF ReadInv, ServerInv, LineKept
  <2>2. parser.sole
    BY <1>3, <1>6
  <2>3. p.sole
    BY <1>2, <2>1, <2>2 DEF Recalls
  <2>4. ~p.textSeen /\ ~p.fills /\ p.printing = 1
    BY <1>1, <1>6, <2>3 DEF AloneOn
  <2>5. line.cells = <<>> /\ ~Pairs(line)
    BY <2>1, <2>4 DEF Recalls
  <2>6. Len(line.directives) = 1
    <3> DEFINE s == line.directives
    <3>1. s \in Seq({"hr", "cut"} \cup Symbols)
      BY <1>1, <1>2 DEF Consoles
    <3>2. Len(s) \in Nat /\ DOMAIN s = 1 .. Len(s)
      BY <3>1, LenProperties
    <3>3. \A i \in DOMAIN s : s[i] # "drawer"
      <4>1. \A i \in DOMAIN s : s[i] \in {"hr", "cut"} \cup Symbols
        BY <3>1
      <4> QED
        BY <4>1 DEF Symbols
    <3>4. \A i, j \in DOMAIN s : i = j
      BY <2>5, <3>3 DEF Pairs
    <3>5. DOMAIN s # {}
      BY <1>2, <2>2 DEF Has
    <3> HIDE DEF s
    <3>6. \A n \in Nat : 1 .. n # {} /\ n # 1 => 1 \in 1 .. n /\ 2 \in 1 .. n
      OBVIOUS
    <3>7. Len(s) = 1
      <4> SUFFICES ASSUME Len(s) # 1 PROVE FALSE
        OBVIOUS
      <4>1. 1 \in DOMAIN s /\ 2 \in DOMAIN s
        BY <3>2, <3>5, <3>6
      <4> QED
        BY <3>4, <4>1
    <3> QED
      BY <3>7 DEF s
  <2> QED
    BY <1>3, <1>6, <2>5, <2>6
<1> QED
  BY <1>5, <1>6

\* Joining s and t first, or lengthening t first.
JoinsOn(s, t, x) == Append(s \o t, x) = s \o Append(t, x)

\* Joining and lengthening are one.
LEMMA JoinGrows ==
    ASSUME NEW S, NEW s \in Seq(S), NEW t \in Seq(S), NEW x \in S
    PROVE  JoinsOn(s, t, x)
<1>1. s \o t \in Seq(S) /\ <<x>> \in Seq(S)
  BY ConcatProperties
<1>2. Append(s \o t, x) = (s \o t) \o <<x>>
  BY <1>1, AppendIsConcat
<1>3. (s \o t) \o <<x>> = s \o (t \o <<x>>)
  BY <1>1, ConcatAssociative
<1>4. Append(t, x) = t \o <<x>>
  BY AppendIsConcat
<1> QED
  BY <1>2, <1>3, <1>4 DEF JoinsOn

\* The same tags stay open.
LEMMA TagsStay ==
    ASSUME NEW t, NEW u, NEW c, NEW d, SameTags(t, c), u.frames = t.frames,
           d.open = c.open, d.style = c.style, d.block = c.block
    PROVE  SameTags(u, d)
BY DEF SameTags

\* They read text alike.
LEMMA TextKnown ==
    ASSUME ReadInv, parser.known, NEW blank \in BOOLEAN, ServerTakesText(blank), AgentTakesText, NEW next
    PROVE  AgentText(blank) \in Consoles /\ KnownInv(ServerText(blank), AgentText(blank), "text", next)
<1> DEFINE u == ServerText(blank)
           d == AgentText(blank)
           p == tree.owners[1]
           line == tree.line
           e == [what |-> IF blank THEN "space" ELSE "text", style |-> parser.style]
<1>1. /\ OnPaper /\ KnownInv(tree, parser, before, due) /\ parser \in Consoles /\ ServerInv(tree)
      /\ (InData <=> parser.block) /\ Frames = tree.frames /\ p \in LineStates /\ ~parser.closed
  BY KnownPaper, OwnerIs DEF ReadInv, AgentTakesText
<1>2. /\ SameTags(tree, parser) /\ SameLine(tree, parser) /\ Trails(p, line, parser)
      /\ Scoped(tree.frames, Aligns, parser.alignSeen, parser.align, parser.resetAlign, parser.closed)
      /\ Scoped(tree.frames, Wraps, parser.wrapSeen, parser.wrap, parser.resetWrap, parser.closed)
  BY <1>1 DEF KnownInv
<1>3. /\ ServerInv(u) /\ u.frames = Frames /\ Like(line, u.line)
      /\ InData => u = tree
      /\ ~InData => /\ u.owners[1] = [p EXCEPT !.content = TRUE, !.textSeen = TRUE, !.spaceOnly = @ /\ blank]
                    /\ u.line.cells = Append(line.cells, [what |-> IF blank THEN "space" ELSE "text",
                                                          style |-> StyleHere])
                    /\ u.line.directives = line.directives
  BY <1>1, TextServed
<1>4. /\ d \in Consoles
      /\ d.pending = IF parser.block THEN parser.pending ELSE Append(parser.pending, e)
      /\ d.known = parser.known /\ d.open = parser.open /\ d.style = parser.style
      /\ d.align = parser.align /\ d.wrap = parser.wrap
      /\ d.alignSeen = parser.alignSeen /\ d.wrapSeen = parser.wrapSeen
      /\ d.resetAlign = parser.resetAlign /\ d.resetWrap = parser.resetWrap
      /\ d.closed = parser.closed /\ d.block = parser.block /\ d.sole = parser.sole
      /\ d.cells = parser.cells /\ d.directives = parser.directives
  BY <1>1, TextHeard
<1>5. StyleHere = parser.style
  BY <1>1, <1>2 DEF SameTags, StyleHere
<1> HIDE DEF u, d
<1>6. SameTags(u, d)
  BY <1>1, <1>2, <1>3, <1>4, TagsStay
<1>7. /\ Scoped(u.frames, Aligns, d.alignSeen, d.align, d.resetAlign, d.closed)
      /\ Scoped(u.frames, Wraps, d.wrapSeen, d.wrap, d.resetWrap, d.closed)
  BY <1>1, <1>2, <1>3, <1>4
<1>8. Closed(u, d, "text", next)
  BY <1>1, <1>4 DEF Closed
<1>9. CASE InData
  <2>1. u = tree /\ d.pending = parser.pending
    BY <1>1, <1>3, <1>4, <1>9
  <2>2. SameLine(u, d)
    BY <1>2, <1>4, <2>1 DEF SameLine
  <2>3. Trails(u.owners[1], u.line, d)
    BY <1>2, <1>4, <2>1 DEF Trails
  <2> QED
    BY <1>4, <1>6, <1>7, <1>8, <2>2, <2>3 DEF KnownInv, u, d
<1>10. CASE ~InData
  <2>0. u.line.cells = Append(line.cells, e) /\ u.line.directives = line.directives
        /\ d.pending = Append(parser.pending, e)
    BY <1>1, <1>3, <1>4, <1>5, <1>10
  <2>1. e \in PrintedCells /\ parser.cells \in Seq(PrintedCells) /\ parser.pending \in Seq(PrintedCells)
    <3>1. parser.style \in TagStyles
      BY <1>1 DEF Consoles
    <3> QED
      BY <1>1, <3>1 DEF Consoles, PrintedCells
  <2>2. e.style = parser.style
    OBVIOUS
  <2> HIDE DEF e
  <2>3. u.line.cells = d.cells \o d.pending
    <3>1. line.cells = parser.cells \o parser.pending
      BY <1>2 DEF SameLine
    <3> DEFINE a == parser.cells
               b == parser.pending
    <3>4. a \in Seq(PrintedCells) /\ b \in Seq(PrintedCells) /\ e \in PrintedCells
      BY <2>1
    <3> HIDE DEF a, b
    <3>2. JoinsOn(a, b, e)
      BY ONLY <3>4, JoinGrows
    <3>3. d.cells = a
      BY <1>4 DEF a
    <3>5. d.pending = Append(b, e)
      BY <2>0 DEF b
    <3>6. line.cells = a \o b
      BY <3>1 DEF a, b
    <3>7. u.line.cells = Append(line.cells, e)
      BY <2>0
    <3> HIDE DEF line
    <3> QED
      BY ONLY <3>2, <3>3, <3>5, <3>6, <3>7 DEF JoinsOn
  <2>4. \A i \in DOMAIN d.pending : d.pending[i].style = d.style
    <3>1. /\ \A i \in DOMAIN d.pending : i \in DOMAIN parser.pending \/ i = Len(parser.pending) + 1
          /\ \A i \in DOMAIN parser.pending : d.pending[i] = parser.pending[i]
          /\ d.pending[Len(parser.pending) + 1] = e
      BY <2>0, <2>1, Grown
    <3>2. \A i \in DOMAIN parser.pending : parser.pending[i].style = parser.style
      BY <1>2 DEF SameLine
    <3> QED
      BY <1>4, <2>2, <3>1, <3>2
  <2>5. SameLine(u, d)
    BY <1>2, <1>3, <1>4, <2>0, <2>3, <2>4 DEF SameLine, Like
  <2>6. u.line.cells # <<>>
    <3>1. line.cells \in Seq(PrintedCells)
      BY <1>1 DEF ServerInv, Trees, PrintedLines
    <3> QED
      BY <2>0, <2>1, <3>1, AppendProperties
  <2> DEFINE q == u.owners[1]
  <2>7. /\ q.content /\ q.textSeen /\ q.fills = p.fills /\ q.printing = p.printing /\ q.alignSeen = p.alignSeen
        /\ q.wrapSeen = p.wrapSeen /\ q.sole = p.sole /\ q.closed = p.closed
    BY <1>1, <1>3, <1>10 DEF LineStates
  <2> HIDE DEF q
  <2>8. Trails(q, u.line, d)
    <3>1. Has(line, Symbols \cup {"hr"}) => Has(u.line, Symbols \cup {"hr"})
      BY <2>0 DEF Has
    <3> QED
      BY <1>2, <1>4, <2>0, <2>6, <2>7, <3>1 DEF Trails
  <2> QED
    BY <1>4, <1>6, <1>7, <1>8, <2>5, <2>8 DEF KnownInv, u, d, q
<1> QED
  BY <1>9, <1>10

\* And voids.
LEMMA VoidKnown ==
    ASSUME ReadInv, parser.known, NEW tag \in {"fill", "hr", "cut"}, ServerTakesOpen(tag), AgentTakesOpen(tag),
           NEW next
    PROVE  AgentVoid(tag) \in Consoles /\ KnownInv(ServerVoid(tag), AgentVoid(tag), "tag", next)
<1> DEFINE u == ServerVoid(tag)
           d == AgentVoid(tag)
           p == tree.owners[1]
           q == u.owners[1]
           line == tree.line
           e == [what |-> tag, style |-> parser.style]
<1>1. /\ OnPaper /\ KnownInv(tree, parser, before, due) /\ parser \in Consoles /\ ServerInv(tree)
      /\ Frames = tree.frames /\ p \in LineStates /\ ~parser.closed /\ tag \in Voids
      /\ line \in PrintedLines
  BY KnownPaper, OwnerIs DEF ReadInv, AgentTakesOpen, Voids
<1>2. /\ SameTags(tree, parser) /\ SameLine(tree, parser) /\ Trails(p, line, parser)
      /\ Scoped(tree.frames, Aligns, parser.alignSeen, parser.align, parser.resetAlign, parser.closed)
      /\ Scoped(tree.frames, Wraps, parser.wrapSeen, parser.wrap, parser.resetWrap, parser.closed)
  BY <1>1 DEF KnownInv
<1>3. /\ ServerInv(u) /\ u.frames = Frames /\ Like(line, u.line)
      /\ q.content /\ q.textSeen = p.textSeen /\ q.closed = p.closed
      /\ q.alignSeen = p.alignSeen /\ q.wrapSeen = p.wrapSeen
      /\ q.fills = (p.fills \/ tag = "fill") /\ q.sole = (p.sole \/ tag = "hr")
      /\ q.printing = IF tag \in {"hr", "cut", "bar"} /\ p.printing < 2 THEN p.printing + 1 ELSE p.printing
      /\ tag = "fill" => /\ u.line.cells = Append(line.cells, [what |-> tag, style |-> StyleHere])
                         /\ u.line.directives = line.directives
      /\ tag # "fill" => u.line.cells = line.cells /\ u.line.directives = Append(line.directives, tag)
  BY <1>1, VoidServed
<1>4. \A i \in DOMAIN parser.pending : parser.pending[i].style = parser.style
  BY <1>2 DEF SameLine
<1>5. /\ d \in Consoles
      /\ tag = "fill" => /\ d.pending = <<>> /\ d.directives = parser.directives
                         /\ d.cells = Append(parser.cells \o parser.pending, e)
      /\ tag # "fill" => /\ d.pending = parser.pending /\ d.cells = parser.cells
                         /\ d.directives = Append(parser.directives, tag)
      /\ d.sole = (parser.sole \/ tag = "hr")
      /\ d.known = parser.known /\ d.open = parser.open /\ d.style = parser.style
      /\ d.align = parser.align /\ d.wrap = parser.wrap
      /\ d.alignSeen = parser.alignSeen /\ d.wrapSeen = parser.wrapSeen
      /\ d.resetAlign = parser.resetAlign /\ d.resetWrap = parser.resetWrap
      /\ d.closed = parser.closed /\ d.block = parser.block
  BY <1>1, <1>4, VoidHeard
<1>6. StyleHere = parser.style
  BY <1>1, <1>2 DEF SameTags, StyleHere
<1> HIDE DEF u, d
<1>7. SameTags(u, d)
  BY <1>1, <1>2, <1>3, <1>5, TagsStay
<1>8. /\ Scoped(u.frames, Aligns, d.alignSeen, d.align, d.resetAlign, d.closed)
      /\ Scoped(u.frames, Wraps, d.wrapSeen, d.wrap, d.resetWrap, d.closed)
  BY <1>1, <1>2, <1>3, <1>5
<1>9. Closed(u, d, "tag", next)
  BY <1>1, <1>5 DEF Closed
<1>10. /\ line.cells = parser.cells \o parser.pending /\ line.directives = parser.directives
       /\ line.align = parser.align /\ line.wrap = parser.wrap
       /\ line.cells \in Seq(PrintedCells) /\ line.directives \in Seq(Printable)
  BY <1>1, <1>2 DEF SameLine, PrintedLines
<1> HIDE DEF q
<1>11. CASE tag = "fill"
  <2>1. u.line.cells = Append(line.cells, e) /\ u.line.directives = line.directives
    BY <1>3, <1>6, <1>11
  <2>2. e \in PrintedCells
    <3>1. parser.style \in TagStyles
      BY <1>1 DEF Consoles
    <3> QED
      BY <1>11, <3>1 DEF PrintedCells
  <2> HIDE DEF e
  <2>3. u.line.cells # <<>>
    <3>1. line.cells \in Seq(PrintedCells)
      BY <1>10
    <3> QED
      BY <2>1, <2>2, <3>1, AppendProperties
  <2>4. u.line.cells = d.cells \o d.pending
    <3>1. d.cells = Append(line.cells, e) /\ d.pending = <<>> /\ Append(line.cells, e) \in Seq(PrintedCells)
      BY <1>5, <1>10, <1>11, <2>2, AppendProperties
    <3>2. d.cells \o <<>> = d.cells
      BY <3>1, ConcatEmptySeq
    <3>3. u.line.cells = Append(line.cells, e)
      BY <2>1
    <3> DEFINE a == d.cells
               b == d.pending
    <3>4. u.line.cells = Append(line.cells, e) /\ a = Append(line.cells, e) /\ b = <<>> /\ a \o <<>> = a
      BY <3>1, <3>2, <3>3
    <3> HIDE DEF a, b, line
    <3>5. u.line.cells = a \o b
      BY ONLY <3>4
    <3> QED
      BY ONLY <3>5 DEF a, b
  <2>5. SameLine(u, d)
    <3>1. d.pending = <<>> /\ d.directives = parser.directives
      BY <1>5, <1>11
    <3>2. u.line.align = line.align /\ u.line.wrap = line.wrap
      BY <1>3 DEF Like
    <3> QED
      BY <1>5, <1>10, <2>1, <2>4, <3>1, <3>2 DEF SameLine
  <2>6. Trails(q, u.line, d)
    <3>1. Has(line, Symbols \cup {"hr"}) => Has(u.line, Symbols \cup {"hr"})
      BY <2>1 DEF Has
    <3>2. q.printing = p.printing /\ (q.sole <=> p.sole) /\ (d.sole <=> parser.sole)
      BY <1>3, <1>5, <1>11
    <3> QED
      BY <1>2, <1>3, <1>5, <2>1, <2>3, <3>1, <3>2 DEF Trails
  <2> QED
    BY <1>5, <1>7, <1>8, <1>9, <2>5, <2>6 DEF KnownInv, u, d, q
<1>12. CASE tag # "fill"
  <2>1. /\ u.line.cells = line.cells /\ u.line.directives = Append(line.directives, tag)
        /\ d.pending = parser.pending /\ d.cells = parser.cells
        /\ d.directives = Append(parser.directives, tag)
    BY <1>3, <1>5, <1>12
  <2>2. tag \in Printable
    BY <1>12 DEF Printable
  <2>3. SameLine(u, d)
    <3>1. u.line.align = line.align /\ u.line.wrap = line.wrap
      BY <1>3 DEF Like
    <3> QED
      BY <1>4, <1>5, <1>10, <2>1, <3>1 DEF SameLine
  <2>4. u.line \in PrintedLines
    BY <1>3 DEF ServerInv, Trees
  <2>5. /\ \A kinds : Has(u.line, kinds) <=> Has(line, kinds) \/ tag \in kinds
        /\ u.line.directives # <<>>
    BY <1>1, <2>1, <2>2, <2>4, OneMark
  <2>6. Len(u.line.directives) = Len(line.directives) + 1 /\ Len(line.directives) \in Nat
    BY <1>10, <2>1, <2>2, AppendProperties, LenProperties
  <2>7. line.directives # <<>> => Len(line.directives) # 0
    BY <1>10, EmptySeq
  <2>8. p.printing \in {0, 1, 2} /\ q.printing = IF p.printing < 2 THEN p.printing + 1 ELSE p.printing
    BY <1>1, <1>3, <1>12 DEF LineStates
  <2>9. q.printing > 0
    BY <2>8
  <2>10. q.printing > 1 => Len(u.line.directives) > 1
    <3> SUFFICES ASSUME q.printing > 1 PROVE Len(u.line.directives) > 1
      OBVIOUS
    <3>1. p.printing > 0
      BY <2>8
    <3>2. line.directives # <<>>
      BY <1>2, <3>1 DEF Trails
    <3> QED
      BY <2>6, <2>7, <3>2
  <2>11. (q.fills <=> p.fills) /\ (q.sole <=> p.sole \/ tag = "hr") /\ (d.sole <=> parser.sole \/ tag = "hr")
    BY <1>3, <1>5, <1>12
  <2>12. Trails(q, u.line, d)
    BY <1>2, <1>3, <1>5, <2>1, <2>5, <2>9, <2>10, <2>11 DEF Trails
  <2> QED
    BY <1>5, <1>7, <1>8, <1>9, <2>3, <2>12 DEF KnownInv, u, d, q
<1> QED
  BY <1>11, <1>12

\* A tag both open is open in both.
LEMMA TagsOpened ==
    ASSUME NEW t, NEW u, NEW c, NEW d, SameTags(t, c), t.frames \in Seq(Tags),
           c.open \in Seq([tag : Scopes \cup Symbols, style : TagStyles]), c.style \in TagStyles, ~c.block,
           NEW tag \in Scopes \cup Symbols, u.frames = Append(t.frames, tag),
           d.open = Append(c.open, [tag |-> tag, style |-> c.style]),
           d.style = (IF tag \in Styles THEN Patch(c.style, tag) ELSE c.style),
           d.block <=> tag \in Symbols,
           tag \in Aligns \cup Wraps => \A i \in DOMAIN c.open : c.open[i].tag \in Aligns \cup Wraps
    PROVE  SameTags(u, d)
<1> DEFINE f == t.frames
           g == u.frames
           o == c.open
           w == d.open
           e == [tag |-> tag, style |-> c.style]
           n == Len(f) + 1
<1>1. /\ RegsOf(f) = {} /\ Len(o) = Len(f) /\ c.style = StyleOf(f)
      /\ \A i \in DOMAIN f :
            /\ o[i].tag = f[i] /\ o[i].style = StyleOf(SubSeq(f, 1, i - 1))
            /\ f[i] \in Aligns \cup Wraps => \A j \in 1 .. i - 1 : f[j] \in Aligns \cup Wraps
  BY DEF SameTags
<1>2. tag \in Tags /\ tag \notin Regions
  BY DEF Tags, Scopes, Styles, Aligns, Wraps, Symbols, Regions, Blocks, Data
<1>3. e \in [tag : Scopes \cup Symbols, style : TagStyles] /\ e.tag = tag /\ e.style = c.style
  OBVIOUS
<1> HIDE DEF e
<1>4. w = Append(o, e) /\ g = Append(f, tag)
  BY DEF e
<1>5. /\ g # <<>> /\ Len(g) = n /\ g[n] = tag /\ Len(f) \in Nat /\ DOMAIN f = 1 .. Len(f)
      /\ \A i \in DOMAIN g : i \in DOMAIN f \/ i = n
      /\ \A i \in DOMAIN f : i \in DOMAIN g /\ g[i] = f[i] /\ i # n
      /\ \A i \in 1 .. Len(f) : g[i] = f[i]
  BY <1>2, <1>4, Grown
<1>6. /\ Len(w) = Len(o) + 1 /\ w[Len(o) + 1] = e /\ DOMAIN o = 1 .. Len(o)
      /\ \A i \in DOMAIN o : w[i] = o[i]
  BY <1>3, <1>4, Grown
<1>7. DOMAIN o = DOMAIN f /\ w[n] = e /\ Len(w) = n
  BY <1>1, <1>5, <1>6
<1>8. RegsOf(g) = {}
  BY <1>1, <1>2, <1>4, RegsGrow
<1>9. \A k \in 0 .. Len(f) : SubSeq(g, 1, k) = SubSeq(f, 1, k)
  BY <1>2, <1>4, PrefixOfAppend
<1>10. SubSeq(g, 1, Len(f)) = f
  BY <1>5, <1>9, WholeIs
<1>11. d.style = StyleOf(g)
  BY <1>1, <1>2, <1>4, StyleGrows
<1>12. d.block <=> TopOf(g) \in Symbols
  BY <1>5 DEF TopOf, Last
<1> HIDE DEF f, g, o, w
<1>13. ASSUME NEW i \in DOMAIN g
       PROVE  /\ w[i].tag = g[i] /\ w[i].style = StyleOf(SubSeq(g, 1, i - 1))
              /\ g[i] \in Aligns \cup Wraps => \A j \in 1 .. i - 1 : g[j] \in Aligns \cup Wraps
  <2>1. CASE i \in DOMAIN f
    <3>1. i \in 1 .. Len(f) /\ i - 1 \in 0 .. Len(f) /\ \A j \in 1 .. i - 1 : j \in 1 .. Len(f)
      BY <1>5, <2>1
    <3> HIDE DEF n
    <3>2. SubSeq(g, 1, i - 1) = SubSeq(f, 1, i - 1) /\ g[i] = f[i] /\ w[i] = o[i]
      BY <1>5, <1>6, <1>7, <1>9, <2>1, <3>1
    <3>3. \A j \in 1 .. i - 1 : g[j] = f[j]
      BY <1>5, <3>1
    <3> QED
      BY <1>1, <2>1, <3>2, <3>3
  <2>2. CASE i = n
    <3>1. i - 1 = Len(f) /\ g[i] = tag /\ w[i] = e
      BY <1>5, <1>7, <2>2
    <3>2. tag \in Aligns \cup Wraps => \A j \in DOMAIN f : g[j] \in Aligns \cup Wraps
      BY <1>1, <1>5, <1>7 DEF o
    <3> QED
      BY <1>1, <1>3, <1>5, <1>10, <3>1, <3>2
  <2> QED
    BY <1>5, <2>1, <2>2
<1> QED
  BY <1>5, <1>7, <1>8, <1>11, <1>12, <1>13 DEF SameTags, g, w

\* t is s with x after it.
Longer(s, x, t) == t = Append(s, x)

\* What an <align> or <wrap> of the line becomes when a tag is opened on it.
LEMMA ScopeOpened ==
    ASSUME NEW f \in Seq(Tags), NEW tag \in Tags, NEW kinds, NEW seen, NEW value, NEW reset, NEW closed,
           Scoped(f, kinds, seen, value, reset, closed), ~closed, tag \in kinds => ~seen,
           NEW g, Longer(f, tag, g), NEW then, then <=> seen \/ tag \in kinds,
           NEW now, tag \in kinds => now = tag, tag \notin kinds => now = value
    PROVE  Scoped(g, kinds, then, now, reset, closed)
<1> DEFINE n == Len(f) + 1
<1>1. /\ \A i \in DOMAIN g : i \in DOMAIN f \/ i = n
      /\ \A i \in DOMAIN f : i \in DOMAIN g /\ g[i] = f[i] /\ i # n
      /\ n \in DOMAIN g /\ g[n] = tag
  BY Grown DEF Longer
<1> HIDE DEF n
<1>2. CASE tag \in kinds
  <2>1. \A i \in DOMAIN f : f[i] \notin kinds
    BY <1>2 DEF Scoped
  <2> QED
    BY <1>1, <1>2, <2>1 DEF Scoped
<1>3. CASE tag \notin kinds
  <2>1. \A i \in DOMAIN g : g[i] \in kinds => i \in DOMAIN f /\ g[i] = f[i]
    BY <1>1, <1>3
  <2>2. (\E i \in DOMAIN g : g[i] \in kinds) <=> (\E i \in DOMAIN f : f[i] \in kinds)
    BY <1>1, <2>1
  <2> QED
    BY <1>1, <1>3, <2>1, <2>2 DEF Scoped
<1> QED
  BY <1>2, <1>3

\* And when the innermost is closed.
LEMMA ScopeClosed ==
    ASSUME NEW f \in Seq(Tags), f # <<>>, NEW kinds, NEW seen, NEW value, NEW reset, NEW closed,
           Scoped(f, kinds, seen, value, reset, closed), NEW g, g = Front(f),
           NEW then, NEW over, NEW shut, closed => shut,
           Last(f) \in kinds => ~then /\ over /\ shut,
           Last(f) \notin kinds => (then <=> seen) /\ (over <=> reset)
    PROVE  Scoped(g, kinds, then, value, over, shut)
<1>1. /\ \A i \in DOMAIN g : i \in DOMAIN f /\ g[i] = f[i] /\ i # Len(f)
      /\ \A i \in DOMAIN f : i \in DOMAIN g \/ i = Len(f)
      /\ Last(f) = f[Len(f)] /\ Len(f) \in DOMAIN f
  BY Shrunk
<1>2. CASE Last(f) \in kinds
  <2>1. \A i \in DOMAIN g : g[i] \notin kinds
    BY <1>1, <1>2 DEF Scoped
  <2> QED
    BY <1>2, <2>1 DEF Scoped
<1>3. CASE Last(f) \notin kinds
  <2>1. (\E i \in DOMAIN g : g[i] \in kinds) <=> (\E i \in DOMAIN f : f[i] \in kinds)
    BY <1>1, <1>3
  <2> QED
    BY <1>1, <1>3, <2>1 DEF Scoped
<1> QED
  BY <1>2, <1>3

\* A tag both close is closed in both.
LEMMA TagsClosed ==
    ASSUME NEW t, NEW u, NEW c, NEW d, SameTags(t, c), t.frames \in Seq(Tags), t.frames # <<>>,
           c.open \in Seq([tag : Scopes \cup Symbols, style : TagStyles]),
           u.frames = Front(t.frames), d.open = Front(c.open), d.style = Last(c.open).style, ~d.block,
           \A i \in DOMAIN u.frames : u.frames[i] \notin Symbols
    PROVE  SameTags(u, d)
<1> DEFINE f == t.frames
           g == u.frames
           o == c.open
           w == d.open
           n == Len(f)
           R == [tag : Scopes \cup Symbols, style : TagStyles]
<1>1. /\ RegsOf(f) = {} /\ Len(o) = Len(f)
      /\ \A i \in DOMAIN f :
            /\ o[i].tag = f[i] /\ o[i].style = StyleOf(SubSeq(f, 1, i - 1))
            /\ f[i] \in Aligns \cup Wraps => \A j \in 1 .. i - 1 : f[j] \in Aligns \cup Wraps
  BY DEF SameTags
<1>2. /\ f \in Seq(Tags) /\ f # <<>> /\ g = Front(f) /\ w = Front(o)
      /\ o \in Seq(R)
  OBVIOUS
<1> HIDE DEF f, g, o, w, R
<1>3. /\ Front(f) \in Seq(Tags) /\ Len(Front(f)) = Len(f) - 1 /\ Len(f) \in Nat \ {0}
      /\ DOMAIN Front(f) = 1 .. Len(f) - 1
      /\ \A i \in DOMAIN Front(f) : i \in DOMAIN f /\ Front(f)[i] = f[i]
      /\ Len(f) \in DOMAIN f /\ Last(f) \in Tags /\ f = Append(Front(f), Last(f))
  BY <1>2, Shrunk
<1>4. /\ g \in Seq(Tags) /\ Len(g) = n - 1 /\ n \in Nat \ {0} /\ DOMAIN g = 1 .. n - 1
      /\ \A i \in DOMAIN g : i \in DOMAIN f /\ g[i] = f[i]
      /\ n \in DOMAIN f /\ Last(f) \in Tags /\ f = Append(g, Last(f))
  BY <1>2, <1>3
<1>5. o # <<>>
  <2>1. Len(o) # 0
    BY <1>1, <1>4
  <2> QED
    BY <1>2, <2>1, EmptySeq
<1>6. /\ Len(w) = n - 1 /\ DOMAIN w = 1 .. n - 1 /\ \A i \in DOMAIN w : w[i] = o[i]
      /\ Last(o) = o[n]
  <2>1. /\ Len(Front(o)) = Len(o) - 1 /\ DOMAIN Front(o) = 1 .. Len(o) - 1
        /\ \A i \in DOMAIN Front(o) : Front(o)[i] = o[i]
        /\ Last(o) = o[Len(o)]
    BY <1>2, <1>5, Shrunk
  <2> QED
    BY <1>1, <1>2, <2>1
<1>7. RegsOf(g) = {}
  BY <1>1, <1>4 DEF RegsOf
<1>8. \A k \in 0 .. Len(g) : SubSeq(f, 1, k) = SubSeq(g, 1, k)
  <2> DEFINE x == Last(f)
  <2>1. g \in Seq(Tags) /\ x \in Tags /\ f = Append(g, x)
    BY <1>4
  <2> HIDE DEF x
  <2>2. \A k \in 0 .. Len(g) : SubSeq(Append(g, x), 1, k) = SubSeq(g, 1, k)
    BY <2>1, PrefixOfAppend
  <2> QED
    BY <2>1, <2>2
<1>9. SubSeq(g, 1, Len(g)) = g
  BY <1>4, WholeIs
<1>10. d.style = StyleOf(g)
  <2>1. d.style = StyleOf(SubSeq(f, 1, n - 1))
    BY <1>1, <1>4, <1>6 DEF o
  <2>2. Len(g) \in 0 .. Len(g)
    BY <1>4
  <2> QED
    BY <1>4, <1>8, <1>9, <2>1, <2>2
<1>11. d.block <=> TopOf(g) \in Symbols
  <2>1. g # <<>> => Len(g) \in DOMAIN g
    BY <1>4, EmptySeq
  <2> QED
    BY <2>1 DEF TopOf, Last, Symbols, g
<1>12. ASSUME NEW i \in DOMAIN g
       PROVE  /\ w[i].tag = g[i] /\ w[i].style = StyleOf(SubSeq(g, 1, i - 1))
              /\ g[i] \in Aligns \cup Wraps => \A j \in 1 .. i - 1 : g[j] \in Aligns \cup Wraps
  <2>1. i \in DOMAIN f /\ i \in DOMAIN w /\ g[i] = f[i] /\ w[i] = o[i]
    BY <1>4, <1>6
  <2>2. i - 1 \in 0 .. Len(g) /\ \A j \in 1 .. i - 1 : j \in DOMAIN g
    BY <1>4
  <2>3. SubSeq(g, 1, i - 1) = SubSeq(f, 1, i - 1)
    BY <1>8, <2>2
  <2>4. \A j \in 1 .. i - 1 : g[j] = f[j]
    BY <1>4, <2>2
  <2> QED
    BY <1>1, <2>1, <2>3, <2>4
<1> QED
  BY <1>1, <1>4, <1>6, <1>7, <1>10, <1>11, <1>12 DEF SameTags, g, w

\* They open a tag alike.
LEMMA OpenKnown ==
    ASSUME ReadInv, parser.known, NEW tag \in Scopes \cup Symbols, ServerTakesOpen(tag), AgentTakesOpen(tag),
           NEW last, NEW next
    PROVE  AgentOpen(tag) \in Consoles /\ KnownInv(ServerOpen(tag), AgentOpen(tag), last, next)
<1> DEFINE u == ServerOpen(tag)
           d == AgentOpen(tag)
           p == tree.owners[1]
           q == u.owners[1]
           line == tree.line
<1>1. /\ OnPaper /\ KnownInv(tree, parser, before, due) /\ parser \in Consoles /\ ServerInv(tree)
      /\ Frames = tree.frames /\ tree.frames \in Seq(Tags) /\ ~parser.closed /\ ~parser.block
  BY KnownPaper DEF ReadInv, AgentTakesOpen
<1>2. /\ SameTags(tree, parser) /\ SameLine(tree, parser) /\ Trails(p, line, parser)
      /\ Scoped(tree.frames, Aligns, parser.alignSeen, parser.align, parser.resetAlign, parser.closed)
      /\ Scoped(tree.frames, Wraps, parser.wrapSeen, parser.wrap, parser.resetWrap, parser.closed)
  BY <1>1 DEF KnownInv
<1>3. /\ tag \in Tags /\ tag \notin Regions
  BY DEF Tags, Scopes, Styles, Aligns, Wraps, Symbols, Regions, Blocks, Data
<1>4. /\ u.frames = Append(tree.frames, tag)
      /\ u.line.cells = line.cells /\ u.line.directives = line.directives
      /\ q.content = p.content /\ q.textSeen = p.textSeen /\ q.fills = p.fills
      /\ q.printing = p.printing /\ q.closed = p.closed
      /\ q.alignSeen = (p.alignSeen \/ tag \in Aligns)
      /\ q.wrapSeen = (p.wrapSeen \/ tag \in Wraps) /\ q.sole = (p.sole \/ tag \in Symbols)
      /\ u.line.align = (IF tag \in Aligns THEN tag ELSE line.align)
      /\ u.line.wrap = (IF tag \in Wraps THEN tag ELSE line.wrap)
  BY <1>1, <1>3, OpenServed
<1>5. \A i \in DOMAIN parser.pending : parser.pending[i].style = parser.style
  BY <1>2 DEF SameLine
<1>6. /\ d \in Consoles /\ d.open = Append(parser.open, [tag |-> tag, style |-> parser.style])
      /\ d.cells = parser.cells \o parser.pending /\ d.pending = <<>>
      /\ d.directives = parser.directives /\ d.sole = parser.sole
      /\ d.known = parser.known /\ d.closed = parser.closed
      /\ d.style = (IF tag \in Styles THEN Patch(parser.style, tag) ELSE parser.style)
      /\ d.align = (IF tag \in Aligns THEN tag ELSE parser.align)
      /\ d.wrap = (IF tag \in Wraps THEN tag ELSE parser.wrap)
      /\ d.alignSeen = (parser.alignSeen \/ tag \in Aligns)
      /\ d.wrapSeen = (parser.wrapSeen \/ tag \in Wraps)
      /\ d.resetAlign = parser.resetAlign /\ d.resetWrap = parser.resetWrap
      /\ d.block = (parser.block \/ tag \in Symbols)
  BY <1>1, <1>5, OpenHeard
<1> HIDE DEF u, d
<1>7. SameTags(u, d)
  <2>1. parser.open \in Seq([tag : Scopes \cup Symbols, style : TagStyles]) /\ parser.style \in TagStyles
    BY <1>1 DEF Consoles
  <2>2. tag \in Aligns \cup Wraps => \A i \in DOMAIN parser.open : parser.open[i].tag \in Aligns \cup Wraps
    BY DEF AgentTakesOpen
  <2>3. d.block <=> tag \in Symbols
    BY <1>1, <1>6
  <2> QED
    BY <1>1, <1>2, <1>4, <1>6, <2>1, <2>2, <2>3, TagsOpened
<1>8. /\ tag \in Aligns => ~parser.alignSeen
      /\ tag \in Wraps => ~parser.wrapSeen
      /\ d.alignSeen <=> parser.alignSeen \/ tag \in Aligns
      /\ d.wrapSeen <=> parser.wrapSeen \/ tag \in Wraps
  BY <1>6 DEF AgentTakesOpen
<1>9. Scoped(u.frames, Aligns, d.alignSeen, d.align, d.resetAlign, d.closed)
  <2>1. /\ Scoped(tree.frames, Aligns, parser.alignSeen, parser.align, parser.resetAlign, parser.closed)
        /\ tree.frames \in Seq(Tags) /\ tag \in Tags /\ ~parser.closed /\ u.frames = Append(tree.frames, tag)
        /\ d.align = (IF tag \in Aligns THEN tag ELSE parser.align)
    BY <1>1, <1>2, <1>3, <1>4, <1>6
  <2>2. /\ tag \in Aligns => ~parser.alignSeen
        /\ d.alignSeen <=> parser.alignSeen \/ tag \in Aligns
    BY <1>8
  <2> DEFINE f == tree.frames
             g == u.frames
             now == d.align
             then == d.alignSeen
             seen == parser.alignSeen
             value == parser.align
             reset == parser.resetAlign
             closed == parser.closed
  <2> HIDE DEF f, g, now, then, seen, value, reset, closed
  <2>3. Scoped(g, Aligns, then, now, reset, closed)
    <3>1. Scoped(f, Aligns, seen, value, reset, closed) /\ f \in Seq(Tags) /\ ~closed /\ Longer(f, tag, g)
      BY <2>1 DEF Longer, f, g, seen, value, reset, closed
    <3>2. (tag \in Aligns => ~seen) /\ (then <=> seen \/ tag \in Aligns) /\ (tag \in Aligns => now = tag) /\ (tag \notin Aligns => now = value)
      BY <2>1, <2>2 DEF seen, value, then, now
    <3> QED
      BY ONLY <2>1, <3>1, <3>2, ScopeOpened
  <2> QED
    BY <1>6, <2>3 DEF f, g, now, then, reset, closed
<1>10. Scoped(u.frames, Wraps, d.wrapSeen, d.wrap, d.resetWrap, d.closed)
  <2>1. /\ Scoped(tree.frames, Wraps, parser.wrapSeen, parser.wrap, parser.resetWrap, parser.closed)
        /\ tree.frames \in Seq(Tags) /\ tag \in Tags /\ ~parser.closed /\ u.frames = Append(tree.frames, tag)
        /\ d.wrap = (IF tag \in Wraps THEN tag ELSE parser.wrap)
    BY <1>1, <1>2, <1>3, <1>4, <1>6
  <2>2. /\ tag \in Wraps => ~parser.wrapSeen
        /\ d.wrapSeen <=> parser.wrapSeen \/ tag \in Wraps
    BY <1>8
  <2> DEFINE f == tree.frames
             g == u.frames
             now == d.wrap
             then == d.wrapSeen
             seen == parser.wrapSeen
             value == parser.wrap
             reset == parser.resetWrap
             closed == parser.closed
  <2> HIDE DEF f, g, now, then, seen, value, reset, closed
  <2>3. Scoped(g, Wraps, then, now, reset, closed)
    <3>1. Scoped(f, Wraps, seen, value, reset, closed) /\ f \in Seq(Tags) /\ ~closed /\ Longer(f, tag, g)
      BY <2>1 DEF Longer, f, g, seen, value, reset, closed
    <3>2. (tag \in Wraps => ~seen) /\ (then <=> seen \/ tag \in Wraps) /\ (tag \in Wraps => now = tag) /\ (tag \notin Wraps => now = value)
      BY <2>1, <2>2 DEF seen, value, then, now
    <3> QED
      BY ONLY <2>1, <3>1, <3>2, ScopeOpened
  <2> QED
    BY <1>6, <2>3 DEF f, g, now, then, reset, closed
<1>11. Closed(u, d, last, next)
  BY <1>1, <1>6 DEF Closed
<1>12. SameLine(u, d)
  <2>1. line.cells = parser.cells \o parser.pending /\ line.directives = parser.directives
        /\ line.align = parser.align /\ line.wrap = parser.wrap
    BY <1>2 DEF SameLine
  <2>2. line.cells \in Seq(PrintedCells)
    BY <1>1 DEF ServerInv, Trees, PrintedLines
  <2>3. u.line.cells = d.cells \o d.pending
    <3>1. line.cells \o <<>> = line.cells
      BY <2>2, ConcatEmptySeq
    <3>2. d.cells = line.cells
      BY <1>6, <2>1
    <3> DEFINE a == d.cells
               b == d.pending
    <3>3. u.line.cells = line.cells /\ a = line.cells /\ b = <<>>
      BY <1>4, <1>6, <3>2
    <3> HIDE DEF a, b, line
    <3>4. u.line.cells = a \o b
      BY ONLY <3>1, <3>3
    <3> QED
      BY ONLY <3>4 DEF a, b
  <2> QED
    BY <1>4, <1>6, <2>1, <2>3 DEF SameLine
<1> HIDE DEF q
<1>13. Trails(q, u.line, d)
  <2>1. Has(line, Symbols \cup {"hr"}) => Has(u.line, Symbols \cup {"hr"})
    BY <1>4 DEF Has
  <2>2. /\ q.alignSeen <=> p.alignSeen \/ tag \in Aligns
        /\ q.wrapSeen <=> p.wrapSeen \/ tag \in Wraps
        /\ q.sole <=> p.sole \/ tag \in Symbols
        /\ d.block <=> parser.block \/ tag \in Symbols
    BY <1>4, <1>6
  <2> QED
    BY <1>2, <1>4, <1>6, <1>8, <2>1, <2>2 DEF Trails
<1> QED
  BY <1>6, <1>7, <1>9, <1>10, <1>11, <1>12, <1>13 DEF KnownInv, u, d, q

\* And close it alike.
LEMMA CloseKnown ==
    ASSUME ReadInv, parser.known, NEW tag \in Scopes \cup Symbols, ServerTakesClose(tag), AgentTakesClose(tag),
           NEW next
    PROVE  AgentClose(tag) \in Consoles /\ KnownInv(ServerClose(tag), AgentClose(tag), "tag", next)
<1> DEFINE u == ServerClose(tag)
           d == AgentClose(tag)
           p == tree.owners[1]
           q == u.owners[1]
           line == tree.line
<1>1. /\ OnPaper /\ KnownInv(tree, parser, before, due) /\ parser \in Consoles /\ ServerInv(tree)
      /\ Frames = tree.frames /\ tree.frames \in Seq(Tags) /\ parser.open # <<>>
      /\ line \in PrintedLines /\ p \in LineStates
  BY KnownPaper, OwnerIs DEF ReadInv, AgentTakesClose
<1>2. /\ SameTags(tree, parser) /\ SameLine(tree, parser) /\ Trails(p, line, parser)
      /\ Scoped(tree.frames, Aligns, parser.alignSeen, parser.align, parser.resetAlign, parser.closed)
      /\ Scoped(tree.frames, Wraps, parser.wrapSeen, parser.wrap, parser.resetWrap, parser.closed)
      /\ Closed(tree, parser, before, due)
  BY <1>1 DEF KnownInv
<1>3. /\ tag \in Tags /\ tag \notin Regions /\ (tag \in Aligns => tag \notin Wraps)
      /\ (tag \in Symbols => tag \notin Aligns \cup Wraps)
  BY DEF Tags, Scopes, Styles, Aligns, Wraps, Symbols, Regions, Blocks, Data
<1>4. /\ tree.frames # <<>> /\ u.frames = Front(tree.frames) /\ Like(line, u.line) /\ ServerInv(u)
      /\ tag = Last(tree.frames) /\ \A i \in DOMAIN u.frames : u.frames[i] \notin Symbols
      /\ u.line.cells = line.cells
      /\ u.line.directives = IF tag \in Symbols THEN Append(line.directives, tag) ELSE line.directives
      /\ q.content = (p.content \/ tag \in Symbols) /\ q.textSeen = p.textSeen
      /\ q.fills = p.fills /\ q.alignSeen = p.alignSeen /\ q.wrapSeen = p.wrapSeen
      /\ q.sole = p.sole
      /\ q.printing = IF tag \in Symbols /\ p.printing < 2 THEN p.printing + 1 ELSE p.printing
      /\ q.closed = IF tag \in Aligns THEN "align" ELSE IF tag \in Wraps THEN "wrap" ELSE p.closed
  BY <1>1, <1>3, CloseServed
<1>5. \A i \in DOMAIN parser.pending : parser.pending[i].style = parser.style
  BY <1>2 DEF SameLine
<1>6. /\ d \in Consoles /\ d.open = Front(parser.open) /\ d.style = Last(parser.open).style
      /\ d.cells = parser.cells \o parser.pending /\ d.pending = <<>>
      /\ d.known = parser.known /\ d.align = parser.align /\ d.wrap = parser.wrap
      /\ tag \in Aligns => ~d.alignSeen /\ d.resetAlign
      /\ tag \notin Aligns => d.alignSeen = parser.alignSeen /\ d.resetAlign = parser.resetAlign
      /\ tag \in Wraps => ~d.wrapSeen /\ d.resetWrap
      /\ tag \notin Wraps => d.wrapSeen = parser.wrapSeen /\ d.resetWrap = parser.resetWrap
      /\ tag \in Aligns \cup Wraps => d.closed
      /\ tag \notin Aligns \cup Wraps => d.closed = parser.closed
      /\ tag \in Symbols => /\ ~d.block /\ d.sole /\ d.directives = Append(parser.directives, tag)
      /\ tag \notin Symbols => /\ d.block = parser.block /\ d.sole = parser.sole
                               /\ d.directives = parser.directives
  BY <1>1, <1>5, CloseHeard
<1> HIDE DEF u, d
<1>7. parser.block <=> tag \in Symbols
  BY <1>2, <1>4 DEF SameTags, TopOf
<1>8. SameTags(u, d)
  <2>1. parser.open \in Seq([tag : Scopes \cup Symbols, style : TagStyles])
    BY <1>1 DEF Consoles
  <2>2. ~d.block
    BY <1>6, <1>7
  <2> QED
    BY <1>1, <1>2, <1>4, <1>6, <2>1, <2>2, TagsClosed
<1>9. parser.closed => d.closed
  BY <1>6
<1>10. Scoped(u.frames, Aligns, d.alignSeen, d.align, d.resetAlign, d.closed)
  BY <1>1, <1>2, <1>4, <1>6, <1>9, ScopeClosed
<1>11. Scoped(u.frames, Wraps, d.wrapSeen, d.wrap, d.resetWrap, d.closed)
  BY <1>1, <1>2, <1>4, <1>6, <1>9, ScopeClosed
<1>12. /\ \A i \in DOMAIN u.frames : i \in DOMAIN tree.frames /\ u.frames[i] = tree.frames[i]
                                     /\ i \in 1 .. Len(tree.frames) - 1
       /\ Len(tree.frames) \in DOMAIN tree.frames /\ tag = tree.frames[Len(tree.frames)]
  BY <1>1, <1>4, Shrunk
<1>13. Closed(u, d, "tag", next)
  <2>1. CASE tag \in Aligns \cup Wraps
    <3>1. \A j \in 1 .. Len(tree.frames) - 1 : tree.frames[j] \in Aligns \cup Wraps
      BY <1>2, <1>12, <2>1 DEF SameTags
    <3>2. q.closed # "no"
      BY <1>4, <2>1
    <3> QED
      BY <1>12, <3>1, <3>2 DEF Closed
  <2>2. CASE tag \notin Aligns \cup Wraps
    BY <1>2, <1>6, <1>12, <2>2 DEF Closed
  <2> QED
    BY <2>1, <2>2
<1>14. SameLine(u, d)
  <2>1. line.cells = parser.cells \o parser.pending /\ line.directives = parser.directives
        /\ line.align = parser.align /\ line.wrap = parser.wrap
    BY <1>2 DEF SameLine
  <2>2. line.cells \in Seq(PrintedCells)
    BY <1>1 DEF PrintedLines
  <2>3. u.line.cells = d.cells \o d.pending
    <3>1. line.cells \o <<>> = line.cells
      BY <2>2, ConcatEmptySeq
    <3>2. d.cells = line.cells
      BY <1>6, <2>1
    <3> DEFINE a == d.cells
               b == d.pending
    <3>3. u.line.cells = line.cells /\ a = line.cells /\ b = <<>>
      BY <1>4, <1>6, <3>2
    <3> HIDE DEF a, b, line
    <3>4. u.line.cells = a \o b
      BY ONLY <3>1, <3>3
    <3> QED
      BY ONLY <3>4 DEF a, b
  <2>4. u.line.directives = d.directives
    BY <1>4, <1>6, <2>1
  <2>5. u.line.align = d.align /\ u.line.wrap = d.wrap
    BY <1>4, <1>6, <2>1 DEF Like
  <2> QED
    BY <1>6, <2>3, <2>4, <2>5 DEF SameLine
<1> HIDE DEF q
<1>15. q.closed # "no" => d.closed /\ q.closed # "block"
  BY <1>2, <1>4, <1>6 DEF Trails
<1>16. /\ q.alignSeen => d.alignSeen \/ d.closed
       /\ q.wrapSeen => d.wrapSeen \/ d.closed
  BY <1>2, <1>4, <1>6 DEF Trails
<1>17. CASE tag \in Symbols
  <2>1. u.line.directives = Append(line.directives, tag) /\ u.line.cells = line.cells
    BY <1>4, <1>17
  <2>2. tag \in Printable /\ u.line \in PrintedLines
    BY <1>4, <1>17 DEF Printable, ServerInv, Trees
  <2>3. /\ \A kinds : Has(u.line, kinds) <=> Has(line, kinds) \/ tag \in kinds
        /\ u.line.directives # <<>>
    BY <1>1, <2>1, <2>2, OneMark
  <2>4. line.directives \in Seq(Printable)
    BY <1>1 DEF PrintedLines
  <2>5. Len(u.line.directives) = Len(line.directives) + 1 /\ Len(line.directives) \in Nat
    BY <2>1, <2>2, <2>4, AppendProperties, LenProperties
  <2>6. line.directives # <<>> => Len(line.directives) # 0
    BY <2>4, EmptySeq
  <2>7. p.printing \in {0, 1, 2} /\ q.printing = IF p.printing < 2 THEN p.printing + 1 ELSE p.printing
    BY <1>1, <1>4, <1>17 DEF LineStates
  <2>8. q.printing > 0
    BY <2>7
  <2>9. q.printing > 1 => Len(u.line.directives) > 1
    <3> SUFFICES ASSUME q.printing > 1 PROVE Len(u.line.directives) > 1
      OBVIOUS
    <3>1. p.printing > 0
      BY <2>7
    <3>2. line.directives # <<>>
      BY <1>2, <3>1 DEF Trails
    <3> QED
      BY <2>5, <2>6, <3>2
  <2>10. d.sole /\ Has(u.line, Symbols \cup {"hr"})
    BY <1>6, <1>17, <2>3
  <2>11. q.textSeen \/ q.fills => u.line.cells # <<>>
    BY <1>2, <1>4, <2>1 DEF Trails
  <2>12. Trails(q, u.line, d)
    BY <1>15, <1>16, <2>3, <2>8, <2>9, <2>10, <2>11 DEF Trails
  <2> QED
    BY <1>6, <1>8, <1>10, <1>11, <1>13, <1>14, <2>12 DEF KnownInv, u, d, q
<1>18. CASE tag \notin Symbols
  <2>1. u.line.directives = line.directives /\ u.line.cells = line.cells /\ q.printing = p.printing
        /\ (q.content <=> p.content) /\ d.block = parser.block /\ d.sole = parser.sole
    BY <1>4, <1>6, <1>18
  <2>2. Has(line, Symbols \cup {"hr"}) => Has(u.line, Symbols \cup {"hr"})
    BY <2>1 DEF Has
  <2>3. Trails(q, u.line, d)
    BY <1>2, <1>4, <1>15, <1>16, <2>1, <2>2 DEF Trails
  <2> QED
    BY <1>6, <1>8, <1>10, <1>11, <1>13, <1>14, <2>3 DEF KnownInv, u, d, q
<1> QED
  BY <1>17, <1>18

\* In a symbol a break is data to both.
LEMMA BreakInData ==
    ASSUME ReadInv, parser.known, InData, NEW last, NEW next
    PROVE  KnownInv(tree, parser, last, next)
<1>1. KnownInv(tree, parser, before, due) /\ parser.block /\ Frames = tree.frames /\ Frames \in Seq(Tags)
  BY KnownPaper
<1>2. SameTags(tree, parser) /\ Closed(tree, parser, before, due)
  BY <1>1 DEF KnownInv
<1>3. TopOf(tree.frames) \in Symbols
  BY <1>1, <1>2 DEF SameTags
<1>4. tree.frames # <<>> /\ Last(tree.frames) \in Symbols
  BY <1>3 DEF TopOf, Symbols
<1>5. Len(tree.frames) \in DOMAIN tree.frames /\ tree.frames[Len(tree.frames)] \in Symbols
  <2> DEFINE f == tree.frames
  <2>1. f \in Seq(Tags) /\ f # <<>>
    BY <1>1, <1>4
  <2>2. Last(f) \in Symbols
    BY <1>4
  <2> HIDE DEF f
  <2>3. Len(f) \in DOMAIN f /\ Last(f) = f[Len(f)]
    BY <2>1, Shrunk
  <2> QED
    BY <2>2, <2>3 DEF f
<1>6. ~parser.closed
  <2> SUFFICES ASSUME parser.closed PROVE FALSE
    OBVIOUS
  <2> DEFINE n == Len(tree.frames)
  <2>1. n \in DOMAIN tree.frames /\ tree.frames[n] \in Symbols
    BY <1>5
  <2> HIDE DEF n
  <2>2. \A i \in DOMAIN tree.frames : tree.frames[i] \in Aligns \cup Wraps
    BY <1>2 DEF Closed
  <2>3. tree.frames[n] \in Aligns \cup Wraps
    BY <2>1, <2>2
  <2> QED
    BY <2>1, <2>3 DEF Symbols, Aligns, Wraps
<1>7. Closed(tree, parser, last, next)
  BY <1>6 DEF Closed
<1> QED
  BY <1>1, <1>7 DEF KnownInv

\* A break that only lays a scope out leaves the console as it is, and only the server's
\* memory of the line is lost.
LEMMA BreakTrimmed ==
    ASSUME ReadInv, parser.known, ~InData, NEW next, Trimmed(next), due # "close", NEW u,
           u.frames = Frames, u.owners[1] = FreshLine,
           u.line.cells = tree.line.cells, u.line.directives = tree.line.directives,
           u.line.align = tree.line.align, u.line.wrap = tree.line.wrap,
           u.line.hushed <=> tree.line.hushed \/ Things(tree.line) > 0
    PROVE  KnownInv(u, parser, "break", next)
<1> DEFINE p == tree.owners[1]
           q == u.owners[1]
           line == tree.line
<1>1. /\ KnownInv(tree, parser, before, due) /\ Frames = tree.frames /\ line \in PrintedLines
  BY KnownPaper
<1>2. /\ SameTags(tree, parser) /\ SameLine(tree, parser) /\ Trails(p, line, parser)
      /\ Scoped(tree.frames, Aligns, parser.alignSeen, parser.align, parser.resetAlign, parser.closed)
      /\ Scoped(tree.frames, Wraps, parser.wrapSeen, parser.wrap, parser.resetWrap, parser.closed)
      /\ Closed(tree, parser, before, due)
  BY <1>1 DEF KnownInv
<1>3. SameTags(u, parser)
  BY <1>1, <1>2, TagsStay
<1>4. SameLine(u, parser)
  BY <1>2 DEF SameLine
<1>5. /\ ~q.content /\ ~q.textSeen /\ ~q.fills /\ q.printing = 0 /\ ~q.alignSeen /\ ~q.wrapSeen /\ ~q.sole
      /\ q.closed = "no"
  BY DEF FreshLine
<1>6. Trails(q, u.line, parser)
  <2>1. Has(line, Symbols \cup {"hr"}) => Has(u.line, Symbols \cup {"hr"})
    BY DEF Has
  <2>2. parser.sole => Has(line, Symbols \cup {"hr"})
    BY <1>2 DEF Trails
  <2> HIDE DEF q
  <2> QED
    BY <1>5, <2>1, <2>2 DEF Trails
<1>7. Closed(u, parser, "break", next)
  <2> SUFFICES ASSUME parser.closed
               PROVE  u.line.hushed \/ (next = "close" /\ u.frames # <<>>)
    BY <1>1, <1>2 DEF Closed
  <2>1. CASE p.closed = "no"
    BY <1>2, <2>1 DEF Closed
  <2>2. CASE p.closed # "no"
    <3>1. before # "open"
      BY <1>2 DEF Closed
    <3>2. next = "close" /\ Top \in Scopes
      BY <3>1 DEF Trimmed
    <3> QED
      BY <1>1, <3>2 DEF Top, Scopes, Styles, Aligns, Wraps
  <2> QED
    BY <2>1, <2>2
<1> QED
  BY <1>1, <1>2, <1>3, <1>4, <1>6, <1>7 DEF KnownInv

\* The <align> or <wrap> of the next line is the one still open.
LEMMA ScopeGoesOn ==
    ASSUME NEW kinds, NEW seen, NEW value, NEW reset, NEW closed,
           Scoped(Frames, kinds, seen, value, reset, closed),
           NEW now, reset => now = "none", ~reset => now = value, NEW over, ~over, NEW shut
    PROVE  OwnerOf(kinds) = now /\ Scoped(Frames, kinds, seen, now, over, shut)
<1>1. CASE \E i \in DOMAIN Frames : Frames[i] \in kinds
  <2> DEFINE i == CHOOSE i \in DOMAIN Frames : Frames[i] \in kinds
  <2>1. i \in DOMAIN Frames /\ Frames[i] \in kinds
    BY <1>1
  <2>2. OwnerOf(kinds) = Frames[i]
    BY <1>1 DEF OwnerOf
  <2> HIDE DEF i
  <2>3. seen /\ ~reset /\ value = Frames[i]
    BY <1>1, <2>1 DEF Scoped
  <2> QED
    BY <2>2, <2>3 DEF Scoped
<1>2. CASE ~\E i \in DOMAIN Frames : Frames[i] \in kinds
  <2>1. OwnerOf(kinds) = "none"
    BY <1>2 DEF OwnerOf
  <2>2. ~seen /\ now = "none"
    BY <1>2 DEF Scoped
  <2> QED
    BY <1>2, <2>1, <2>2 DEF Scoped
<1> QED
  BY <1>1, <1>2

\* Any other break begins the next line in both.
LEMMA BreakKnown ==
    ASSUME ReadInv, parser.known, NEW next, NEW u, u.frames = Frames, u.owners[1] = FreshLine,
           u.line = NextLine
    PROVE  AgentEnds \in Consoles /\ KnownInv(u, AgentEnds, "break", next)
<1> DEFINE q == u.owners[1]
           d == AgentEnds
<1>1. /\ KnownInv(tree, parser, before, due) /\ Frames = tree.frames /\ tree \in Trees /\ parser \in Consoles
  BY KnownPaper
<1>2. /\ SameTags(tree, parser)
      /\ Scoped(Frames, Aligns, parser.alignSeen, parser.align, parser.resetAlign, parser.closed)
      /\ Scoped(Frames, Wraps, parser.wrapSeen, parser.wrap, parser.resetWrap, parser.closed)
  BY <1>1 DEF KnownInv
<1>3. /\ d \in Consoles /\ d.open = parser.open /\ d.style = parser.style
      /\ d.cells = <<>> /\ d.pending = <<>> /\ d.directives = <<>>
      /\ d.block = parser.block
      /\ d.align = (IF parser.resetAlign THEN "none" ELSE parser.align)
      /\ d.wrap = (IF parser.resetWrap THEN "none" ELSE parser.wrap)
      /\ d.alignSeen = parser.alignSeen /\ d.wrapSeen = parser.wrapSeen
      /\ ~d.resetAlign /\ ~d.resetWrap /\ ~d.closed /\ ~d.sole
  BY <1>1, EndHeard
<1>4. /\ NextLine.cells = <<>> /\ NextLine.directives = <<>>
      /\ NextLine.align = OwnerOf(Aligns) /\ NextLine.wrap = OwnerOf(Wraps)
  BY <1>1, NextLineIs
<1> HIDE DEF d
<1>5. SameTags(u, d)
  BY <1>1, <1>2, <1>3, TagsStay
<1>6. OwnerOf(Aligns) = d.align /\ Scoped(Frames, Aligns, d.alignSeen, d.align, d.resetAlign, d.closed)
  <2>1. (parser.resetAlign => d.align = "none") /\ (~parser.resetAlign => d.align = parser.align)
    BY <1>3
  <2>2. OwnerOf(Aligns) = d.align /\ Scoped(Frames, Aligns, parser.alignSeen, d.align, d.resetAlign, d.closed)
    BY <1>2, <1>3, <2>1, ScopeGoesOn
  <2> QED
    BY <1>3, <2>2
<1>7. OwnerOf(Wraps) = d.wrap /\ Scoped(Frames, Wraps, d.wrapSeen, d.wrap, d.resetWrap, d.closed)
  <2>1. (parser.resetWrap => d.wrap = "none") /\ (~parser.resetWrap => d.wrap = parser.wrap)
    BY <1>3
  <2>2. OwnerOf(Wraps) = d.wrap /\ Scoped(Frames, Wraps, parser.wrapSeen, d.wrap, d.resetWrap, d.closed)
    BY <1>2, <1>3, <2>1, ScopeGoesOn
  <2> QED
    BY <1>3, <2>2
<1>8. SameLine(u, d)
  <2>1. u.line.cells = d.cells \o d.pending
    BY <1>3, <1>4
  <2>2. \A i \in DOMAIN d.pending : d.pending[i].style = d.style
    BY <1>3
  <2> QED
    BY <1>3, <1>4, <1>6, <1>7, <2>1, <2>2 DEF SameLine
<1>9. /\ ~q.content /\ ~q.textSeen /\ ~q.fills /\ q.printing = 0 /\ ~q.alignSeen /\ ~q.wrapSeen /\ ~q.sole
      /\ q.closed = "no"
  BY DEF FreshLine
<1>10. Trails(q, u.line, d)
  <2> HIDE DEF q
  <2> QED
    BY <1>3, <1>9 DEF Trails
<1>11. Closed(u, d, "break", next)
  BY <1>3 DEF Closed
<1> QED
  BY <1>3, <1>5, <1>6, <1>7, <1>8, <1>10, <1>11 DEF KnownInv, d

\* What the next state must be for the reading to go on.
LEMMA ReadOn ==
    ASSUME ReadInv, words' = words, ServerInv(tree'), before' = "open" => TopOf(tree'.frames) \in Scopes,
           parser' \in Consoles, parser'.known => KnownInv(tree', parser', before', due')
    PROVE  ReadInv'
BY DEF ReadInv, Top, TopOf, Frames

\* A token only one of them refuses.
LEMMA RuledIs ==
    ASSUME Reading, NEW byServer \in BOOLEAN, NEW byAgent \in BOOLEAN, Ruled(byServer, byAgent),
           parser' \in Consoles
    PROVE  /\ Reading' => byServer /\ (byAgent \/ ~parser'.known)
           /\ byServer /\ (byAgent \/ ~parser'.known) => ruled' = ruled
           /\ ruled'.server = "refused" => ~byServer
           /\ ruled'.server = "taken" => byServer
           /\ ruled'.server = "refused" /\ ruled'.agent = "taken" => byAgent /\ parser'.known
           /\ ruled'.server = "taken" /\ ruled'.agent = "refused" => ~byAgent /\ parser'.known
<1>1. CASE byServer /\ (byAgent \/ ~parser'.known)
  BY <1>1 DEF Ruled, Reading
<1>2. CASE ~(byServer /\ (byAgent \/ ~parser'.known))
  <2>1. ruled' = [server |-> IF byServer THEN "taken" ELSE "refused",
                  agent |-> IF ~parser'.known THEN "reading" ELSE IF byAgent THEN "taken" ELSE "refused"]
    BY <1>2 DEF Ruled
  <2> QED
    BY <1>2, <2>1 DEF Reading
<1> QED
  BY <1>1, <1>2

\* Text keeps the invariant, read by both or refused by one.
LEMMA AfterText ==
    ASSUME Reading, ReadInv, words' = words, NEW blank \in BOOLEAN, ReadText(blank)
    PROVE  GrammarInv'
<1> DEFINE S == ServerTakesText(blank)
           A == AgentTakesText
<1>1. /\ due # "close" /\ before' = "text" /\ ~ended'.shared
      /\ S => tree' = ServerText(blank)
      /\ ~S => tree' = tree
      /\ parser.known /\ A => parser' = AgentText(blank)
      /\ ~(parser.known /\ A) => parser' = parser
      /\ Ruled(S, A) /\ ended' = [shared |-> FALSE, hushed |-> FALSE]
  BY DEF ReadText, Nothing
<1>2. ServerInv(tree) /\ parser \in Consoles
  BY DEF ReadInv
<1>3. S => ServerInv(tree') /\ tree'.line.hushed = tree.line.hushed
  BY <1>1, <1>2, TextServed DEF Like
<1>4. parser' \in Consoles /\ parser'.known = parser.known
  BY <1>1, <1>2, TextHeard
<1>5. parser.known => (A => S) /\ (S /\ ~A => tree.line.hushed)
  BY <1>1, TextAgreed
<1>6. S \in BOOLEAN /\ A \in BOOLEAN
  BY DEF ServerTakesText, AgentTakesText
<1>7. S /\ A /\ parser.known => KnownInv(tree', parser', before', due')
  BY <1>1, TextKnown
<1> HIDE DEF S, A
<1>8. /\ Reading' => S /\ (A \/ ~parser'.known)
      /\ ruled'.server = "refused" => ~S
      /\ ruled'.server = "taken" => S
      /\ ruled'.server = "refused" /\ ruled'.agent = "taken" => A /\ parser'.known
      /\ ruled'.server = "taken" /\ ruled'.agent = "refused" => ~A /\ parser'.known
  BY <1>1, <1>4, <1>6, RuledIs
<1>9. Reading' => ReadInv'
  BY <1>1, <1>3, <1>4, <1>7, <1>8, ReadOn
<1>10. Verdicts'
  BY <1>1, <1>3, <1>4, <1>5, <1>8 DEF Verdicts
<1> QED
  BY <1>9, <1>10 DEF GrammarInv

\* So does a void.
LEMMA AfterVoid ==
    ASSUME Reading, ReadInv, words' = words, NEW tag \in Voids, ReadVoid(tag)
    PROVE  GrammarInv'
<1> DEFINE S == ServerTakesOpen(tag)
           A == AgentTakesOpen(tag)
           H == AgentHears(tag)
<1>1. /\ due # "close" /\ before' = "tag" /\ ~ended'.shared
      /\ S => tree' = ServerVoid(tag)
      /\ ~S => tree' = tree
      /\ ~H => parser' = Unheard
      /\ H /\ A => parser' = AgentVoid(tag)
      /\ H /\ ~A => parser' = parser
      /\ Ruled(S, A)
  BY DEF ReadVoid, Nothing
<1>2. ServerInv(tree) /\ parser \in Consoles
  BY DEF ReadInv
<1>3. S => ServerInv(tree') /\ tree'.line.hushed = tree.line.hushed
  BY <1>1, <1>2, VoidServed DEF Like
<1>4. H => parser.known /\ tag \in {"fill", "hr", "cut"}
  BY DEF AgentHears, ServerTags, Voids
<1>5. H => \A i \in DOMAIN parser.pending : parser.pending[i].style = parser.style
  BY <1>4 DEF ReadInv, KnownInv, SameLine
<1>6. parser' \in Consoles /\ (parser'.known <=> H)
  <2>1. CASE ~H
    BY <1>1, <1>2, <2>1, NotHeard
  <2>2. CASE H /\ A
    <3>1. AgentVoid(tag) \in Consoles /\ AgentVoid(tag).known = parser.known
      BY <1>2, <1>4, <1>5, <2>2, VoidHeard
    <3> QED
      BY <1>1, <1>4, <2>2, <3>1
  <2>3. CASE H /\ ~A
    BY <1>1, <1>2, <1>4, <2>3
  <2> QED
    BY <2>1, <2>2, <2>3
<1>7. H => (A => S) /\ (S /\ ~A => tree.line.hushed)
  BY <1>1, <1>4, VoidAgreed
<1>8. S \in BOOLEAN /\ A \in BOOLEAN
  BY DEF ServerTakesOpen, AgentTakesOpen
<1>9. S /\ A /\ H => KnownInv(tree', parser', before', due')
  BY <1>1, <1>4, VoidKnown
<1> HIDE DEF S, A, H
<1>10. /\ Reading' => S /\ (A \/ ~parser'.known)
       /\ ruled'.server = "refused" => ~S
       /\ ruled'.server = "taken" => S
       /\ ruled'.server = "refused" /\ ruled'.agent = "taken" => A /\ parser'.known
       /\ ruled'.server = "taken" /\ ruled'.agent = "refused" => ~A /\ parser'.known
  BY <1>1, <1>6, <1>8, RuledIs
<1>11. Reading' => ReadInv'
  BY <1>1, <1>3, <1>6, <1>9, <1>10, ReadOn
<1>12. Verdicts'
  BY <1>1, <1>3, <1>6, <1>7, <1>10 DEF Verdicts
<1> QED
  BY <1>11, <1>12 DEF GrammarInv

\* An opening tag.
LEMMA AfterOpen ==
    ASSUME Reading, ReadInv, words' = words, NEW tag \in Tags, ReadOpen(tag)
    PROVE  GrammarInv'
<1> DEFINE S == ServerTakesOpen(tag)
           A == AgentTakesOpen(tag)
           H == AgentHears(tag)
<1>1. /\ due # "close" /\ (before' = "open" => tag \in Scopes) /\ ~ended'.shared
      /\ S => tree' = ServerOpen(tag)
      /\ ~S => tree' = tree
      /\ ~H => parser' = Unheard
      /\ H /\ A => parser' = AgentOpen(tag)
      /\ H /\ ~A => parser' = parser
      /\ Ruled(S, A)
  BY DEF ReadOpen, Nothing
<1>2. ServerInv(tree) /\ parser \in Consoles /\ Frames \in Seq(Tags)
  BY OwnerIs DEF ReadInv, ServerInv
<1>3. S => ServerInv(tree') /\ tree'.line.hushed = tree.line.hushed /\ TopOf(tree'.frames) = tag
  <2> SUFFICES ASSUME S PROVE ServerInv(tree') /\ tree'.line.hushed = tree.line.hushed /\ TopOf(tree'.frames) = tag
    OBVIOUS
  <2>1. ServerInv(tree') /\ tree'.line.hushed = tree.line.hushed /\ tree'.frames = Append(Frames, tag)
    BY <1>1, <1>2, OpenServed
  <2> DEFINE g == tree'.frames
             f == Frames
  <2>2. f \in Seq(Tags) /\ g = Append(f, tag)
    BY <1>2, <2>1
  <2> HIDE DEF f, g
  <2>3. g # <<>> /\ g[Len(g)] = tag
    BY <2>2, Grown
  <2>4. TopOf(g) = tag
    BY <2>3 DEF TopOf, Last
  <2> QED
    BY <2>1, <2>4 DEF g
<1>4. H => parser.known /\ tag \in Scopes \cup Symbols
  BY DEF AgentHears, ServerTags, Tags
<1>5. H => \A i \in DOMAIN parser.pending : parser.pending[i].style = parser.style
  BY <1>4 DEF ReadInv, KnownInv, SameLine
<1>6. parser' \in Consoles /\ (parser'.known <=> H)
  <2>1. CASE ~H
    BY <1>1, <1>2, <2>1, NotHeard
  <2>2. CASE H /\ A
    <3>1. AgentOpen(tag) \in Consoles /\ AgentOpen(tag).known = parser.known
      BY <1>2, <1>4, <1>5, <2>2, OpenHeard
    <3> QED
      BY <1>1, <1>4, <2>2, <3>1
  <2>3. CASE H /\ ~A
    BY <1>1, <1>2, <1>4, <2>3
  <2> QED
    BY <2>1, <2>2, <2>3
<1>7. H => (A /\ ~S => FillsOnly(tree.line)) /\ (S /\ ~A => tree.line.hushed)
  BY <1>1, <1>4, OpenAgreed
<1>8. S \in BOOLEAN /\ A \in BOOLEAN
  BY DEF ServerTakesOpen, AgentTakesOpen
<1>9. S /\ A /\ H => KnownInv(tree', parser', before', due')
  BY <1>1, <1>4, OpenKnown
<1> HIDE DEF S, A, H
<1>10. /\ Reading' => S /\ (A \/ ~parser'.known)
       /\ ruled'.server = "refused" => ~S
       /\ ruled'.server = "taken" => S
       /\ ruled'.server = "refused" /\ ruled'.agent = "taken" => A /\ parser'.known
       /\ ruled'.server = "taken" /\ ruled'.agent = "refused" => ~A /\ parser'.known
  BY <1>1, <1>6, <1>8, RuledIs
<1>11. Reading' => ReadInv'
  BY <1>1, <1>3, <1>6, <1>9, <1>10, ReadOn
<1>12. Verdicts'
  BY <1>1, <1>3, <1>6, <1>7, <1>10 DEF Verdicts
<1> QED
  BY <1>11, <1>12 DEF GrammarInv

\* A closing tag.
LEMMA AfterClose ==
    ASSUME Reading, ReadInv, words' = words, NEW tag \in Tags, ReadClose(tag)
    PROVE  GrammarInv'
<1> DEFINE S == ServerTakesClose(tag)
           A == AgentTakesClose(tag)
           H == AgentHears(tag)
<1>1. /\ before' = "tag" /\ ~ended'.shared
      /\ S => tree' = ServerClose(tag)
      /\ ~S => tree' = tree
      /\ ~H => parser' = Unheard
      /\ H /\ A => parser' = AgentClose(tag)
      /\ H /\ ~A => parser' = parser
      /\ Ruled(S, A)
  BY DEF ReadClose, Nothing
<1>2. ServerInv(tree) /\ parser \in Consoles
  BY DEF ReadInv
<1>3. S => ServerInv(tree')
  BY <1>1, <1>2, CloseServed
<1>4. H => parser.known /\ tag \in Scopes \cup Symbols
  BY DEF AgentHears, ServerTags, Tags
<1>5. H => \A i \in DOMAIN parser.pending : parser.pending[i].style = parser.style
  BY <1>4 DEF ReadInv, KnownInv, SameLine
<1>6. parser' \in Consoles /\ (parser'.known <=> H)
  <2>1. CASE ~H
    BY <1>1, <1>2, <2>1, NotHeard
  <2>2. CASE H /\ A
    <3>1. parser.open # <<>>
      BY <2>2 DEF AgentTakesClose
    <3>2. AgentClose(tag) \in Consoles /\ AgentClose(tag).known = parser.known
      BY <1>2, <1>4, <1>5, <2>2, <3>1, CloseHeard
    <3> QED
      BY <1>1, <1>4, <2>2, <3>2
  <2>3. CASE H /\ ~A
    BY <1>1, <1>2, <1>4, <2>3
  <2> QED
    BY <2>1, <2>2, <2>3
<1>7. H => (A <=> S)
  BY <1>4, CloseAgreed
<1>8. S \in BOOLEAN /\ A \in BOOLEAN
  BY DEF ServerTakesClose, AgentTakesClose
<1>9. S /\ A /\ H => KnownInv(tree', parser', before', due')
  BY <1>1, <1>4, CloseKnown
<1> HIDE DEF S, A, H
<1>10. /\ Reading' => S /\ (A \/ ~parser'.known)
       /\ ruled'.server = "refused" => ~S
       /\ ruled'.server = "taken" => S
       /\ ruled'.server = "refused" /\ ruled'.agent = "taken" => A /\ parser'.known
       /\ ruled'.server = "taken" /\ ruled'.agent = "refused" => ~A /\ parser'.known
  BY <1>1, <1>6, <1>8, RuledIs
<1>11. Reading' => ReadInv'
  BY <1>1, <1>3, <1>6, <1>9, <1>10, ReadOn
<1>12. Verdicts'
  BY <1>1, <1>6, <1>7, <1>10 DEF Verdicts
<1> QED
  BY <1>11, <1>12 DEF GrammarInv

\* A break.
\* A break.
LEMMA AfterBreak ==
    ASSUME Reading, ReadInv, words' = words, NEW next \in {"close", "not close"}, ReadBreak(next)
    PROVE  GrammarInv'
<1> DEFINE S == InData \/ AloneOn(Owner)
           A == parser.block \/ LaysOut(next) \/ AgentAlone
           over == Owning(FreshLine)
           same == [over EXCEPT !.line.hushed = @ \/ Things(tree.line) > 0]
           then == [over EXCEPT !.line = NextLine]
<1>1. /\ due # "close" /\ before' = "break" /\ (next = "close" => Top \in Scopes)
      /\ IF InData THEN UNCHANGED tree /\ Nothing
         ELSE IF ~S THEN UNCHANGED tree /\ Nothing
         ELSE IF ~OnPaper THEN tree' = over /\ Nothing
         ELSE IF Trimmed(next) THEN tree' = same /\ Nothing
         ELSE tree' = then /\ LineEnds
      /\ parser' = IF ~parser.known \/ parser.block \/ LaysOut(next) \/ ~AgentAlone THEN parser
                    ELSE AgentEnds
      /\ Ruled(S, A)
  BY DEF ReadBreak
<1>2. ServerInv(tree) /\ parser \in Consoles /\ (before = "open" => Top \in Scopes)
  BY DEF ReadInv
<1>3. Trimmed(next) <=> LaysOut(next)
  BY <1>1, <1>2 DEF Trimmed, LaysOut
<1>4. parser.known => OnPaper /\ (InData <=> parser.block)
  BY KnownPaper
<1>5. ~InData =>
        /\ ~OnPaper => ServerInv(over)
        /\ OnPaper =>
              /\ ServerInv(same) /\ same.frames = Frames /\ same.owners[1] = FreshLine
              /\ same.line.cells = tree.line.cells /\ same.line.directives = tree.line.directives
              /\ same.line.align = tree.line.align /\ same.line.wrap = tree.line.wrap
              /\ same.line.hushed = (tree.line.hushed \/ Things(tree.line) > 0)
              /\ ServerInv(then) /\ then.frames = Frames /\ then.owners[1] = FreshLine
              /\ then.line = NextLine
  BY <1>2, BreakServed
<1>6. S \in BOOLEAN /\ A \in BOOLEAN /\ (parser.block \in BOOLEAN)
  BY <1>2 DEF LaysOut, AgentAlone, AloneOn, Consoles
<1>7. parser' \in Consoles /\ parser'.known = parser.known
  BY <1>1, <1>2, EndHeard
<1>8. parser.known /\ ~InData => (AgentAlone => AloneOn(Owner)) /\ (AloneOn(Owner) /\ ~AgentAlone => tree.line.hushed)
  BY AloneAgreed
<1>9. /\ Reading' => S /\ (A \/ ~parser'.known)
      /\ ruled'.server = "refused" => ~S
      /\ ruled'.server = "taken" => S
      /\ ruled'.server = "refused" /\ ruled'.agent = "taken" => A /\ parser'.known
      /\ ruled'.server = "taken" /\ ruled'.agent = "refused" => ~A /\ parser'.known
  BY <1>1, <1>6, <1>7, RuledIs
<1> HIDE DEF over, same, then
<1>10. S => ServerInv(tree')
  BY <1>1, <1>2, <1>5
<1>11. S /\ A /\ parser.known => KnownInv(tree', parser', before', due')
  <2> SUFFICES ASSUME S, A, parser.known PROVE KnownInv(tree', parser', before', due')
    OBVIOUS
  <2>1. CASE InData
    <3>1. tree' = tree /\ parser' = parser
      BY <1>1, <1>4, <2>1
    <3> QED
      BY <2>1, <3>1, BreakInData
  <2>2. CASE ~InData /\ Trimmed(next)
    <3>1. tree' = same /\ parser' = parser /\ before' = "break" /\ due' = next
      BY <1>1, <1>3, <1>4, <2>2 DEF ReadBreak
    <3>2. /\ same.frames = Frames /\ same.owners[1] = FreshLine
          /\ same.line.cells = tree.line.cells /\ same.line.directives = tree.line.directives
          /\ same.line.align = tree.line.align /\ same.line.wrap = tree.line.wrap
          /\ same.line.hushed <=> tree.line.hushed \/ Things(tree.line) > 0
      BY <1>4, <1>5, <2>2
    <3>3. KnownInv(same, parser, "break", next)
      BY <1>1, <2>2, <3>2, BreakTrimmed
    <3> QED
      BY <3>1, <3>3
  <2>3. CASE ~InData /\ ~Trimmed(next)
    <3>1. ~LaysOut(next) /\ ~parser.block /\ AgentAlone
      BY <1>3, <1>4, <2>3
    <3>2. tree' = then /\ parser' = AgentEnds /\ before' = "break" /\ due' = next
      BY <1>1, <1>4, <2>3, <3>1 DEF ReadBreak
    <3>3. then.frames = Frames /\ then.owners[1] = FreshLine /\ then.line = NextLine
      BY <1>4, <1>5, <2>3
    <3>4. KnownInv(then, AgentEnds, "break", next)
      BY <3>3, BreakKnown
    <3> QED
      BY <3>2, <3>4
  <2> QED
    BY <2>1, <2>2, <2>3
<1>12. Reading' => ReadInv'
  BY <1>1, <1>7, <1>9, <1>10, <1>11, ReadOn
<1>13. ruled'.server = "refused" /\ ruled'.agent = "taken" => FillsOnly(tree'.line) \/ ~AloneIn(parser')
  <2> SUFFICES ASSUME ~S, A, parser.known PROVE ~AloneIn(parser')
    BY <1>7, <1>9
  <2>1. ~InData /\ ~AgentAlone
    BY <1>8
  <2>2. parser' = parser
    BY <1>1, <2>1
  <2> QED
    BY <2>1, <2>2 DEF AloneIn, AgentAlone, ConsoleLine
<1>14. ruled'.server = "taken" /\ ruled'.agent = "refused" => ended'.hushed
  <2> SUFFICES ASSUME S, ~A, parser.known PROVE ended'.hushed
    BY <1>7, <1>9
  <2>1. ~InData /\ ~Trimmed(next) /\ OnPaper /\ tree.line.hushed
    BY <1>3, <1>4, <1>8
  <2>2. LineEnds
    BY <1>1, <2>1
  <2>3. ended'.hushed = tree.line.hushed
    BY <2>2 DEF LineEnds
  <2> QED
    BY <2>1, <2>3
<1>15. ended'.shared /\ ruled'.server # "refused" => ended'.hushed
  <2>1. (ended' = [shared |-> FALSE, hushed |-> FALSE]) \/ (OnPaper /\ ~InData /\ AloneOn(Owner) /\ LineEnds)
    BY <1>1 DEF Nothing
  <2>2. CASE ended' = [shared |-> FALSE, hushed |-> FALSE]
    BY <2>2
  <2>3. CASE OnPaper /\ AloneOn(Owner) /\ LineEnds
    <3>1. ended' = [shared |-> Shares(tree.line), hushed |-> tree.line.hushed]
      BY <2>3 DEF LineEnds
    <3> QED
      BY <1>2, <2>3, <3>1, NothingShared
  <2> QED
    BY <2>1, <2>2, <2>3
<1>16. Verdicts'
  BY <1>13, <1>14, <1>15 DEF Verdicts
<1> QED
  BY <1>12, <1>16 DEF GrammarInv

\* And the end of the document.
LEMMA AfterAll ==
    ASSUME Reading, ReadInv, Finish
    PROVE  GrammarInv'
<1> DEFINE S == Frames = <<>> /\ AloneOn(Owner)
           A == parser.open = <<>> /\ AgentAlone
<1>1. /\ tree' = tree /\ parser' = parser
      /\ ended' = [shared |-> Shares(tree.line), hushed |-> tree.line.hushed]
      /\ ruled' = [server |-> IF S THEN "taken" ELSE "refused",
                   agent |-> IF ~parser.known THEN "reading" ELSE IF A THEN "taken" ELSE "refused"]
  BY DEF Finish, LineEnds
<1>2. ServerInv(tree) /\ parser \in Consoles /\ tree.frames \in Seq(Tags)
  BY OwnerIs DEF ReadInv, ServerInv
<1>3. ~Reading'
  BY <1>1 DEF Reading
<1>4. Frames = <<>> => ~InData /\ OnPaper
  <2> SUFFICES ASSUME Frames = <<>> PROVE ~InData /\ OnPaper
    OBVIOUS
  <2>1. ~InData
    BY DEF InData, Top, Symbols, Data
  <2>2. Cardinality(RegsOf(tree.frames)) = 0
    BY NoRegs DEF Frames
  <2>3. Len(tree.owners) = Cardinality(RegsOf(tree.frames)) + 1
    BY <1>2 DEF ServerInv, Nested
  <2> QED
    BY <2>1, <2>2, <2>3 DEF OnPaper
<1>5. parser.known => (parser.open = <<>> <=> Frames = <<>>)
  <2> SUFFICES ASSUME parser.known PROVE parser.open = <<>> <=> Frames = <<>>
    OBVIOUS
  <2>1. SameTags(tree, parser)
    BY DEF ReadInv, KnownInv
  <2> DEFINE f == tree.frames
             o == parser.open
             R == [tag : Scopes \cup Symbols, style : TagStyles]
  <2>2. Len(o) = Len(f) /\ f \in Seq(Tags) /\ o \in Seq(R)
    BY <1>2, <2>1 DEF SameTags, Consoles
  <2> HIDE DEF f, o, R
  <2>3. o = <<>> <=> f = <<>>
    BY <2>2, EmptySeq
  <2> QED
    BY <2>3 DEF f, o, Frames
<1>6. parser.known /\ ~InData => (AgentAlone => AloneOn(Owner)) /\ (AloneOn(Owner) /\ ~AgentAlone => tree.line.hushed)
  BY AloneAgreed
<1>7. ruled'.server = "refused" /\ ruled'.agent = "taken" => FALSE
  BY <1>1, <1>4, <1>5, <1>6
<1>8. ruled'.server = "taken" /\ ruled'.agent = "refused" => tree'.line.hushed
  BY <1>1, <1>4, <1>5, <1>6
<1>9. ended'.shared /\ ruled'.server # "refused" => ended'.hushed
  BY <1>1, <1>2, <1>4, NothingShared
<1> QED
  BY <1>3, <1>7, <1>8, <1>9 DEF GrammarInv, Verdicts

\* As the document begins both have an empty line and nothing open.
LEMMA GrammarBegins ==
    ASSUME MarkupInit
    PROVE  GrammarInv
<1> DEFINE line == [align |-> "none", wrap |-> "none", cells |-> <<>>, directives |-> <<>>,
                    hushed |-> FALSE, late |-> FALSE]
<1>1. /\ words \in DOMAIN Vocabularies /\ before = "break"
      /\ tree = [frames |-> <<>>, owners |-> <<FreshLine>>, line |-> line]
      /\ parser = [known |-> TRUE, open |-> <<>>, style |-> Plainly, align |-> "none", wrap |-> "none",
                    alignSeen |-> FALSE, wrapSeen |-> FALSE, resetAlign |-> FALSE, resetWrap |-> FALSE,
                    closed |-> FALSE, block |-> FALSE, sole |-> FALSE,
                    cells |-> <<>>, pending |-> <<>>, directives |-> <<>>]
      /\ ruled = [server |-> "reading", agent |-> "reading"]
      /\ ended = [shared |-> FALSE, hushed |-> FALSE]
  BY DEF MarkupInit
<1>2. FreshLine \in LineStates
  BY DEF FreshLine, LineStates
<1>3. line \in PrintedLines
  BY EmptySeq DEF PrintedLines
<1>4. tree.frames = <<>> /\ tree.owners = <<FreshLine>> /\ tree.line = line
  BY <1>1
<1>5. /\ line.cells = <<>> /\ line.directives = <<>> /\ ~line.hushed /\ ~line.late
      /\ line.align = "none" /\ line.wrap = "none"
  OBVIOUS
<1> HIDE DEF line
<1>6. <<FreshLine>> \in Seq(LineStates) /\ <<FreshLine>> # <<>> /\ Len(<<FreshLine>>) = 1
      /\ <<FreshLine>>[1] = FreshLine
  BY <1>2
<1>7. tree \in Trees
  BY <1>1, <1>3, <1>6, EmptySeq DEF Trees
<1>8. Nested(tree)
  BY <1>4, <1>6, NoRegs DEF Nested
<1>9. Recalls(tree.owners[1], tree.line)
  BY <1>4, <1>5, NothingRecalled
<1>10. ServerInv(tree)
  BY <1>4, <1>5, <1>6, <1>7, <1>8, <1>9 DEF ServerInv, LineKept
<1>11. Plainly \in TagStyles /\ Plainly = StyleOf(<<>>)
  <2>1. "bold" \in Tags
    BY DEF Tags, Scopes, Styles
  <2>2. <<>> \in Seq(Tags)
    BY EmptySeq
  <2> QED
    BY <2>1, <2>2, StyleGrows DEF Plainly, TagStyles
<1>12. parser \in Consoles
  BY <1>1, <1>11, EmptySeq DEF Consoles
<1>13. /\ parser.open = <<>> /\ parser.style = Plainly /\ parser.align = "none" /\ parser.wrap = "none"
       /\ ~parser.alignSeen /\ ~parser.wrapSeen /\ ~parser.resetAlign /\ ~parser.resetWrap
       /\ ~parser.closed /\ ~parser.block /\ ~parser.sole /\ parser.cells = <<>> /\ parser.pending = <<>>
       /\ parser.directives = <<>>
  BY <1>1
<1>14. SameTags(tree, parser)
  BY <1>4, <1>11, <1>13, NoRegs DEF SameTags, TopOf, Symbols
<1>15. SameLine(tree, parser)
  BY <1>4, <1>5, <1>13 DEF SameLine
<1>16. /\ Scoped(tree.frames, Aligns, parser.alignSeen, parser.align, parser.resetAlign, parser.closed)
       /\ Scoped(tree.frames, Wraps, parser.wrapSeen, parser.wrap, parser.resetWrap, parser.closed)
  BY <1>4, <1>13 DEF Scoped
<1>17. Trails(tree.owners[1], tree.line, parser)
  BY <1>4, <1>6, <1>13 DEF Trails, FreshLine
<1>18. Closed(tree, parser, before, due)
  BY <1>13 DEF Closed
<1>19. ReadInv
  BY <1>1, <1>10, <1>12, <1>14, <1>15, <1>16, <1>17, <1>18 DEF ReadInv, KnownInv
<1>20. Verdicts
  BY <1>1 DEF Verdicts
<1> QED
  BY <1>19, <1>20 DEF GrammarInv

\* Every step keeps it.
LEMMA GrammarHolds ==
    ASSUME GrammarInv, [MarkupNext]_markupVars
    PROVE  GrammarInv'
<1>1. CASE UNCHANGED markupVars
  BY <1>1 DEF GrammarInv, Verdicts, ReadInv, Reading, AloneIn, Top, Frames, markupVars
<1>2. CASE MarkupNext
  <2>1. words' = words
    BY <1>2 DEF MarkupNext
  <2>2. ASSUME Reading, ReadInv, NEW tag \in Vocabularies[words] \ Voids
        PROVE  tag \in Tags
    BY <2>2, VocabulariesAssumption DEF ReadInv, Tags
  <2>3. ASSUME Reading PROVE ReadInv
    BY <2>3 DEF GrammarInv
  <2>4. ASSUME NEW blank \in BOOLEAN, ReadText(blank) PROVE GrammarInv'
    BY <2>1, <2>3, <2>4, AfterText DEF ReadText
  <2>5. ASSUME NEW tag \in Vocabularies[words] \cap Voids, ReadVoid(tag) PROVE GrammarInv'
    BY <2>1, <2>3, <2>5, AfterVoid DEF ReadVoid
  <2>6. ASSUME NEW tag \in Vocabularies[words] \ Voids, ReadOpen(tag) PROVE GrammarInv'
    BY <2>1, <2>2, <2>3, <2>6, AfterOpen DEF ReadOpen
  <2>7. ASSUME NEW tag \in Vocabularies[words] \ Voids, ReadClose(tag) PROVE GrammarInv'
    BY <2>1, <2>2, <2>3, <2>7, AfterClose DEF ReadClose
  <2>8. ASSUME NEW next \in {"close", "not close"}, ReadBreak(next) PROVE GrammarInv'
    <3>1. Reading
      BY <2>8 DEF ReadBreak
    <3> QED
      BY <2>1, <2>3, <2>8, <3>1, AfterBreak
  <2>9. CASE Finish
    <3>1. Reading
      BY <2>9 DEF Finish
    <3> QED
      BY <2>3, <2>9, <3>1, AfterAll
  <2> QED
    BY <1>2, <2>4, <2>5, <2>6, <2>7, <2>8, <2>9 DEF MarkupNext
<1> QED
  BY <1>1, <1>2

\* Whatever the length and nesting of a document, and whatever vocabulary it uses,
\* tree.ts and MarkupParser.java agree on it: while both read on they hold the same
\* line, cell for cell and style for style, the agent takes nothing the server refuses
\* but a fill before a line's <align> or <wrap>, refuses nothing the server takes but on
\* a line whose break the server dropped, and what must have its line to itself has.
THEOREM GrammarIsOne == MarkupSpec => []OneGrammar
<1>1. MarkupInit => GrammarInv
  BY GrammarBegins
<1>2. GrammarInv /\ [MarkupNext]_markupVars => GrammarInv'
  BY GrammarHolds
<1>3. GrammarInv => OneGrammar
  <2> SUFFICES ASSUME GrammarInv PROVE OneGrammar
    OBVIOUS
  <2>1. ASSUME Reading, parser.known
        PROVE  [align |-> tree.line.align, wrap |-> tree.line.wrap, cells |-> tree.line.cells,
                directives |-> tree.line.directives] = ConsoleLine
    <3>1. SameLine(tree, parser)
      BY <2>1 DEF GrammarInv, ReadInv, KnownInv
    <3>2. /\ tree.line.align = parser.align /\ tree.line.wrap = parser.wrap
          /\ tree.line.directives = parser.directives
      BY <3>1 DEF SameLine
    <3>3. tree.line.cells = parser.cells \o parser.pending
      BY <3>1 DEF SameLine
    <3> DEFINE cells == parser.cells \o parser.pending
    <3>4. tree.line.cells = cells
      BY <3>3
    <3>5. ConsoleLine = [align |-> parser.align, wrap |-> parser.wrap, cells |-> cells,
                         directives |-> parser.directives]
      BY Zenon DEF ConsoleLine
    <3> HIDE DEF cells
    <3> QED
      BY <3>2, <3>4, <3>5
  <2>2. AgentAlone <=> AloneIn(parser)
    BY DEF AgentAlone, AloneIn, ConsoleLine
  <2> QED
    BY <2>1, <2>2 DEF OneGrammar, GrammarInv, Verdicts
<1> QED
  BY <1>1, <1>2, <1>3, PTL DEF MarkupSpec
=============================================================================
