--------------------------- MODULE JobLinkProofs ---------------------------
(***************************************************************************)
(* Proofs about JobLink.                                                   *)
(***************************************************************************)
EXTENDS JobLink, SequenceTheorems, TLAPS

LEMMA NoConnIsNone == NoConn \notin Conns
BY DEF Conns, NoConn

(* What the helpers do to the variables they write, for any set of frames. *)

LEMMA SpendType ==
    ASSUME spent \in [Budget -> Nat], NEW b \in Budget, NEW max, Spend(b, max)
    PROVE  spent' \in [Budget -> Nat]
BY DEF Spend

LEMMA SendToAgentType ==
    ASSUME NEW S, toAgent \in [Conns -> Seq(S)], NEW c, NEW frame \in S, SendToAgent(c, frame)
    PROVE  toAgent' \in [Conns -> Seq(S)]
<1>1. CASE c \in Conns
  <2>1. Append(toAgent[c], frame) \in Seq(S)
    BY <1>1
  <2> QED
    BY <2>1 DEF SendToAgent
<1>2. CASE c \notin Conns
  BY <1>2 DEF SendToAgent
<1> QED
  BY <1>1, <1>2

LEMMA SendToServerType ==
    ASSUME NEW S, toServer \in [Conns -> Seq(S)], NEW frame \in S, SendToServer(frame)
    PROVE  toServer' \in [Conns -> Seq(S)]
<1>1. CASE sock \in Conns
  <2>1. Append(toServer[sock], frame) \in Seq(S)
    BY <1>1
  <2> QED
    BY <2>1 DEF SendToServer
<1>2. CASE sock \notin Conns
  BY <1>2 DEF SendToServer
<1> QED
  BY <1>1, <1>2

LEMMA ArrivesType ==
    ASSUME NEW S, toServer \in [Conns -> Seq(S)], NEW c \in Conns, NEW type, Arrives(c, type)
    PROVE  /\ Head(toServer[c]) \in S
           /\ Head(toServer[c]).type = type
           /\ toServer' \in [Conns -> Seq(S)]
<1>1. toServer[c] \in Seq(S) /\ toServer[c] # <<>>
  BY DEF Arrives
<1>2. Head(toServer[c]) \in S /\ Tail(toServer[c]) \in Seq(S)
  BY <1>1
<1> QED
  BY <1>2 DEF Arrives

LEMMA HandlesType ==
    ASSUME NEW S, backlog \in Seq(S), NEW frame, Handles(frame)
    PROVE  frame \in S /\ backlog' \in Seq(S)
BY DEF Handles

LEMMA HangUpType ==
    ASSUME NEW S, toAgent \in [Conns -> Seq(S)],
           wire \in [Conns -> {"none", "up", "ended", "cut"}], NEW C, HangUp(C)
    PROVE  /\ toAgent' \in [Conns -> Seq(S)]
           /\ wire' \in [Conns -> {"none", "up", "ended", "cut"}]
<1>1. \A c \in Conns : (IF c \in C THEN <<>> ELSE toAgent[c]) \in Seq(S)
  OBVIOUS
<1> QED
  BY <1>1 DEF HangUp

LEMMA AnnouncedType ==
    ASSUME dispatched \subseteq Jobs, reports \subseteq UpdateFrame,
           NEW j \in Jobs, NEW s \in Status \ {"none", "QUEUED"}, Announced(j, s)
    PROVE  dispatched' \subseteq Jobs /\ reports' \subseteq UpdateFrame
<1>1. Update(j, s) \in UpdateFrame
  BY DEF Update, UpdateFrame
<1> QED
  BY <1>1 DEF Announced

LEMMA InitType == Init => TypeOK
<1> SUFFICES ASSUME Init PROVE TypeOK
  OBVIOUS
<1> USE ConnsAssumption, BoundsAssumption DEF Init
<1>1. row \in [Jobs -> Status] /\ err \in [Jobs -> ErrorCode] /\ job \in [Jobs -> Status]
  BY DEF Status, ErrorCode
<1>2. hook \in [Jobs -> Told]
  BY DEF Told, Untold, ErrorCode, Status
<1>3. spent \in [Budget -> Nat]
  OBVIOUS
<1>4. toAgent \in [Conns -> Seq(AgentBound)] /\ toServer \in [Conns -> Seq(ServerBound)] /\ backlog \in Seq(AgentBound)
  OBVIOUS
<1> QED
  BY <1>1, <1>2, <1>3, <1>4 DEF TypeOK

LEMMA StepType == TypeOK /\ [Next]_vars => TypeOK'
<1> SUFFICES ASSUME TypeOK, [Next]_vars PROVE TypeOK'
  OBVIOUS
<1> USE ConnsAssumption, BoundsAssumption DEF TypeOK, rowVars, submitVars, helloVars, unpairVars, netVars, linkVars, printVars
<1>1. ASSUME NEW j \in Jobs, ReadLink(j) PROVE TypeOK'
  BY <1>1 DEF ReadLink
<1>2. ASSUME NEW j \in Jobs, CreateRow(j) PROVE TypeOK'
  BY <1>2 DEF CreateRow, Status, Unfinished
<1>3. ASSUME NEW j \in Jobs, CompileFails(j) PROVE TypeOK'
  BY <1>3 DEF CompileFails, FailJob, Status, Terminal, ErrorCode
<1>4. ASSUME NEW j \in Jobs, SendDispatch(j) PROVE TypeOK'
  <2>1. Dispatch(j) \in AgentBound
    BY DEF Dispatch, AgentBound
  <2>2. CASE SendToAgent(submitLink[j], Dispatch(j)) /\ UNCHANGED <<rowVars, unspoken>>
    <3>1. toAgent' \in [Conns -> Seq(AgentBound)]
      BY <2>1, <2>2, SendToAgentType
    <3> QED
      BY <1>4, <2>2, <3>1 DEF SendDispatch
  <2>3. CASE FailJob(j, "agent_offline") /\ UNCHANGED toAgent
    BY <1>4, <2>3 DEF SendDispatch, FailJob, Status, Terminal, ErrorCode
  <2> QED
    BY <1>4, <2>2, <2>3 DEF SendDispatch
<1>5. ASSUME NEW j \in Jobs, CancelJob(j) PROVE TypeOK'
  <2>1. Cancel(j) \in AgentBound
    BY DEF Cancel, AgentBound
  <2>2. toAgent' \in [Conns -> Seq(AgentBound)]
    BY <1>5, <2>1, SendToAgentType DEF CancelJob
  <2>3. spent' \in [Budget -> Nat]
    BY <1>5, SpendType DEF CancelJob, Budget
  <2> QED
    BY <1>5, <2>2, <2>3 DEF CancelJob
<1>6. ASSUME NEW j \in Jobs, QueueJobSettled(j) PROVE TypeOK'
  <2>1. [status |-> row[j], err |-> err[j]] \in Told
    BY DEF Told
  <2> QED
    BY <1>6, <2>1 DEF QueueJobSettled
<1>7. ASSUME NEW c \in Conns, HandshakeTimeout(c) PROVE TypeOK'
  BY <1>7 DEF HandshakeTimeout
<1>8. ASSUME NEW c \in Conns, ReceiveHello(c) PROVE TypeOK'
  <2>1. /\ Head(toServer[c]) \in ServerBound
        /\ Head(toServer[c]).type = "hello"
        /\ toServer' \in [Conns -> Seq(ServerBound)]
    BY <1>8, ArrivesType DEF ReceiveHello
  <2>2. Head(toServer[c]).held \in SUBSET Jobs
    BY <2>1 DEF ServerBound, UpdateFrame
  <2> QED
    BY <1>8, <2>1, <2>2 DEF ReceiveHello, CloseRegistered
<1>9. ASSUME NEW c \in Conns, ReceiveUpdate(c) PROVE TypeOK'
  <2>1. /\ Head(toServer[c]) \in ServerBound
        /\ Head(toServer[c]).type = "update"
        /\ toServer' \in [Conns -> Seq(ServerBound)]
    BY <1>9, ArrivesType DEF ReceiveUpdate
  <2>2. Head(toServer[c]) \in UpdateFrame
    BY <2>1 DEF ServerBound
  <2> QED
    BY <1>9, <2>1, <2>2, SMTT(30) DEF ReceiveUpdate
<1>10. ASSUME NEW c \in Conns, SelectLostJobs(c) PROVE TypeOK'
  BY <1>10 DEF SelectLostJobs, LostJobs
<1>11. ASSUME NEW c \in Conns, SettleLostJobs(c) PROVE TypeOK'
  BY <1>11 DEF SettleLostJobs, SettleUnfinished, Status, Terminal, ErrorCode
<1>12. ASSUME NEW c \in Conns, OnClose(c) PROVE TypeOK'
  BY <1>12 DEF OnClose
<1>13. ASSUME NEW u \in UpdateFrame, OnJobUpdate(u) PROVE TypeOK'
  <2>1. u.job \in Jobs /\ u.status \in Status
    BY DEF UpdateFrame
  <2> QED
    <3>1. row' \in [Jobs -> Status] /\ err' \in [Jobs -> ErrorCode] /\ unspoken' \subseteq Jobs
      <4>1. CASE CanStillChange(u.job)
        <5>1. row' = [row EXCEPT ![u.job] = u.status]
          BY <1>13, <4>1 DEF OnJobUpdate
        <5>2. err' \in [Jobs -> ErrorCode]
          <6>1. \E code \in ErrorCode : err' = [err EXCEPT ![u.job] = code]
            BY <1>13, <2>1, <4>1 DEF OnJobUpdate, ErrorCode
          <6> QED
            BY <6>1
        <5> QED
          BY <1>13, <2>1, <4>1, <5>1, <5>2 DEF OnJobUpdate
      <4>2. CASE ~CanStillChange(u.job)
        BY <1>13, <4>2 DEF OnJobUpdate
      <4> QED
        BY <4>1, <4>2
    <3> QED
      BY <1>13, <3>1 DEF OnJobUpdate
<1>14. ASSUME ClearToken PROVE TypeOK'
  BY <1>14, SpendType DEF ClearToken, Budget
<1>15. ASSUME SelectStranded PROVE TypeOK'
  BY <1>15 DEF SelectStranded, UnfinishedJobs
<1>16. ASSUME SettleStranded PROVE TypeOK'
  BY <1>16 DEF SettleStranded, SettleUnfinished, Status, Terminal, ErrorCode
<1>17. ASSUME CloseUnpaired PROVE TypeOK'
  BY <1>17 DEF CloseUnpaired, CloseRegistered
<1>18. ASSUME NEW c \in Conns, Upgrade(c) PROVE TypeOK'
  BY <1>18 DEF Upgrade
<1>19. ASSUME NEW c \in Conns, OnText(c) PROVE TypeOK'
  BY <1>19 DEF OnText
<1>20. ASSUME Opened PROVE TypeOK'
  BY <1>20 DEF Opened
<1>21. ASSUME DialFails PROVE TypeOK'
  BY <1>21 DEF DialFails
<1>22. ASSUME SayHello PROVE TypeOK'
  <2>1. Hello(dispatched) \in ServerBound
    BY DEF Hello, ServerBound
  <2>2. toServer' \in [Conns -> Seq(ServerBound)]
    BY <1>22, <2>1, SendToServerType DEF SayHello
  <2> QED
    BY <1>22, <2>2 DEF SayHello
<1>23. ASSUME OnDisconnected PROVE TypeOK'
  BY <1>23, HangUpType DEF OnDisconnected
<1>24. ASSUME OnUnpaired PROVE TypeOK'
  BY <1>24, HangUpType DEF OnUnpaired, Status, Terminal
<1>25. ASSUME PairAgain PROVE TypeOK'
  BY <1>25 DEF PairAgain
<1>26. ASSUME NEW j \in Jobs, OnDispatch(j) PROVE TypeOK'
  BY <1>26 DEF OnDispatch, AgentAlone, Handles, Status, Unfinished
<1>27. ASSUME NEW j \in Jobs, RefuseDispatch(j) PROVE TypeOK'
  BY <1>27 DEF RefuseDispatch, AgentAlone, Handles, Update, UpdateFrame, Status, Terminal
<1>28. ASSUME NEW j \in Jobs, OnCancel(j) PROVE TypeOK'
  <2>1. backlog' \in Seq(AgentBound)
    BY <1>28, HandlesType DEF OnCancel
  <2>2. CASE Announced(j, "CANCELLED") /\ job' = [job EXCEPT ![j] = "CANCELLED"]
    <3>1. "CANCELLED" \in Status \ {"none", "QUEUED"}
      BY DEF Status, Terminal
    <3>2. dispatched' \subseteq Jobs /\ reports' \subseteq UpdateFrame
      BY <2>2, <3>1, AnnouncedType
    <3> QED
      BY <1>28, <2>1, <2>2, <3>1, <3>2 DEF OnCancel, AgentAlone
  <2>3. CASE UNCHANGED <<job, reports, dispatched>>
    BY <1>28, <2>1, <2>3 DEF OnCancel, AgentAlone
  <2> QED
    BY <1>28, <2>2, <2>3 DEF OnCancel
<1>29. ASSUME NEW j \in Jobs, BeginPrinting(j) PROVE TypeOK'
  BY <1>29, AnnouncedType DEF BeginPrinting, AgentAlone, Status, Unfinished
<1>30. ASSUME NEW j \in Jobs, FinishPrinting(j) PROVE TypeOK'
  <2>1. "COMPLETED" \in Status \ {"none", "QUEUED"} /\ "FAILED" \in Status \ {"none", "QUEUED"}
    BY DEF Status, Terminal
  <2>2. dispatched' \subseteq Jobs /\ reports' \subseteq UpdateFrame
    BY <1>30, <2>1, AnnouncedType DEF FinishPrinting
  <2> QED
    <3>1. job' \in [Jobs -> Status] /\ paper' \subseteq Jobs
      <4>1. \E s \in {"COMPLETED", "FAILED"} : job' = [job EXCEPT ![j] = s]
        BY <1>30 DEF FinishPrinting
      <4>2. paper' \subseteq Jobs
        BY <1>30 DEF FinishPrinting
      <4> QED
        BY <2>1, <4>1, <4>2
    <3> QED
      BY <1>30, <2>2, <3>1 DEF FinishPrinting, AgentAlone
<1>31. ASSUME NEW u \in UpdateFrame, SendReport(u) PROVE TypeOK'
  <2>1. toServer' \in [Conns -> Seq(ServerBound)]
    BY <1>31, SendToServerType DEF SendReport, ServerBound
  <2> QED
    BY <1>31, <2>1 DEF SendReport
<1>32. ASSUME AgentRestart PROVE TypeOK'
  <2>1. /\ toAgent' \in [Conns -> Seq(AgentBound)]
        /\ wire' \in [Conns -> {"none", "up", "ended", "cut"}]
    BY <1>32, HangUpType DEF AgentRestart
  <2>2. spent' \in [Budget -> Nat]
    BY <1>32, SpendType DEF AgentRestart, Budget
  <2>3. job' \in [Jobs -> Status] /\ backlog' \in Seq(AgentBound)
    BY <1>32 DEF AgentRestart, Status
  <2> QED
    BY <1>32, <2>1, <2>2, <2>3 DEF AgentRestart
<1>33. ASSUME ServerRestart PROVE TypeOK'
  <2>1. toAgent' \in [Conns -> Seq(AgentBound)] /\ toServer' \in [Conns -> Seq(ServerBound)]
    BY <1>33 DEF ServerRestart
  <2>2. spent' \in [Budget -> Nat]
    BY <1>33, SpendType DEF ServerRestart, Budget
  <2> QED
    BY <1>33, <2>1, <2>2 DEF ServerRestart
<1>34. ASSUME NEW c \in Conns, Cut(c) PROVE TypeOK'
  <2>1. toAgent' \in [Conns -> Seq(AgentBound)] /\ toServer' \in [Conns -> Seq(ServerBound)]
    BY <1>34 DEF Cut
  <2>2. spent' \in [Budget -> Nat]
    BY <1>34, SpendType DEF Cut, Budget
  <2> QED
    BY <1>34, <2>1, <2>2 DEF Cut
<1>35. CASE UNCHANGED vars
  BY <1>35 DEF vars
<1> QED
  BY <1>1, <1>2, <1>3, <1>4, <1>5, <1>6, <1>7, <1>8, <1>9, <1>10, <1>11, <1>12, <1>13, <1>14, <1>15, <1>16, <1>17, <1>18, <1>19, <1>20, <1>21, <1>22, <1>23, <1>24, <1>25, <1>26, <1>27, <1>28, <1>29, <1>30, <1>31, <1>32, <1>33, <1>34, <1>35
  DEF Next, ServerNext, AgentNext, FailureNext

\* Every variable keeps its type, whatever the bounds.
THEOREM TypeCorrect == Spec => []TypeOK
BY InitType, StepType, PTL DEF Spec

-----------------------------------------------------------------------------
(* The inductive invariant *)

\* A job nobody sent yet is in no frame, and the agent has never heard of it.
SentOrder  == {f \in AgentBound : f.type = "dispatch" => submit[f.job] = "done"}
SentReport == {u \in UpdateFrame : /\ submit[u.job] = "done"
                                   /\ u.status = "COMPLETED" => u.job \in paper}
SentHello  == ServerBound \ UpdateFrame

OnlySentWork ==
    /\ toAgent \in [Conns -> Seq(SentOrder)]
    /\ backlog \in Seq(SentOrder)
    /\ toServer \in [Conns -> Seq(SentReport \cup SentHello)]
    /\ updates \subseteq SentReport
    /\ reports \subseteq SentReport
    /\ \A j \in Jobs : submit[j] # "done" => job[j] = "none" /\ j \notin dispatched

\* Until it is sent, a row exists only as its submission made it, or settled.
RowFollowsSubmit ==
    \A j \in Jobs : /\ submit[j] \in {"idle", "linked"} => row[j] = "none"
                    /\ submit[j] = "rowed" => row[j] \in {"QUEUED", "FAILED"}

\* Whoever is still to be told is told an ending, and whoever was told it
\* was told the one that stands.
AnswersAreFinal ==
    \A j \in Jobs : /\ j \in unspoken => row[j] \in Terminal
                    /\ \/ hook[j] = Untold
                       \/ hook[j].status = row[j] /\ row[j] \in Terminal

\* A connection in the registry, or in a submission's hand, has been opened.
KnownConns ==
    /\ registered # NoConn => srv[registered] # "none"
    /\ \A j \in Jobs : submitLink[j] # NoConn => srv[submitLink[j]] # "none"

\* What a reconciliation works on is older than its connection.
HelloInOrder ==
    \A c \in Conns :
        /\ srv[c] \in {"none", "open"} => rec[c] = "none"
        /\ \A j \in older[c] : row[j] # "none" /\ submitLink[j] # c
        /\ lost[c] \subseteq older[c]
        /\ rec[c] = "selected" =>
               \A j \in older[c] : row[j] \in Terminal \/ j \in held[c] \/ j \in lost[c]

IInv ==
    /\ TypeOK
    /\ OnlySentWork
    /\ RowFollowsSubmit
    /\ AnswersAreFinal
    /\ KnownConns
    /\ HelloInOrder
    /\ HelloReconciles
    /\ CompletedIsOnPaper
    /\ HeldWorkIsNamed

-----------------------------------------------------------------------------
(* Only work that was sent is in flight *)

\* A submission that ended stays ended, and paper cannot be unprinted.
LEMMA SentStays ==
    ASSUME TypeOK, [Next]_vars
    PROVE  /\ \A j \in Jobs : submit[j] = "done" => submit'[j] = "done"
           /\ paper \subseteq paper'
<1> USE DEF TypeOK, submitVars, printVars
<1>1. ASSUME NEW j \in Jobs,
             ReadLink(j) \/ CreateRow(j) \/ CompileFails(j) \/ SendDispatch(j)
      PROVE  UNCHANGED paper /\ \A k \in Jobs : submit[k] = "done" => submit'[k] = "done"
  BY <1>1 DEF ReadLink, CreateRow, CompileFails, SendDispatch
<1>2. ASSUME NEW j \in Jobs, CancelJob(j) \/ QueueJobSettled(j) \/ OnDispatch(j)
             \/ RefuseDispatch(j) \/ OnCancel(j) \/ BeginPrinting(j)
      PROVE  UNCHANGED <<submit, paper>>
  BY <1>2 DEF CancelJob, QueueJobSettled, OnDispatch, RefuseDispatch, OnCancel, BeginPrinting, AgentAlone
<1>3. ASSUME NEW j \in Jobs, FinishPrinting(j)
      PROVE  UNCHANGED submit /\ paper \subseteq paper'
  BY <1>3 DEF FinishPrinting, AgentAlone
<1>4. ASSUME NEW c \in Conns, HandshakeTimeout(c) \/ ReceiveHello(c) \/ ReceiveUpdate(c)
             \/ SelectLostJobs(c) \/ SettleLostJobs(c) \/ OnClose(c) \/ Upgrade(c)
             \/ OnText(c) \/ Cut(c)
      PROVE  UNCHANGED <<submit, paper>>
  BY <1>4 DEF HandshakeTimeout, ReceiveHello, ReceiveUpdate, SelectLostJobs, SettleLostJobs,
              OnClose, Upgrade, OnText, Cut
<1>5. ASSUME NEW u \in UpdateFrame, OnJobUpdate(u) \/ SendReport(u)
      PROVE  UNCHANGED <<submit, paper>>
  BY <1>5 DEF OnJobUpdate, SendReport
<1>6. ASSUME \/ ClearToken \/ SelectStranded \/ SettleStranded \/ CloseUnpaired
             \/ Opened \/ DialFails \/ SayHello \/ OnDisconnected \/ OnUnpaired \/ PairAgain
             \/ AgentRestart \/ UNCHANGED vars
      PROVE  UNCHANGED <<submit, paper>>
  BY <1>6 DEF ClearToken, SelectStranded, SettleStranded, CloseUnpaired, Opened, DialFails,
              SayHello, OnDisconnected, OnUnpaired, PairAgain, AgentRestart, vars
<1>7. ASSUME ServerRestart
      PROVE  UNCHANGED paper /\ \A k \in Jobs : submit[k] = "done" => submit'[k] = "done"
  BY <1>7 DEF ServerRestart
<1> QED
  BY <1>1, <1>2, <1>3, <1>4, <1>5, <1>6, <1>7 DEF Next, ServerNext, AgentNext, FailureNext

LEMMA InitSent == Init => OnlySentWork /\ RowFollowsSubmit
<1> SUFFICES ASSUME Init PROVE OnlySentWork /\ RowFollowsSubmit
  OBVIOUS
<1>1. OnlySentWork
  BY DEF Init, OnlySentWork
<1>2. RowFollowsSubmit
  BY DEF Init, RowFollowsSubmit
<1> QED
  BY <1>1, <1>2

LEMMA StepSent ==
    ASSUME TypeOK, OnlySentWork, [Next]_vars
    PROVE  OnlySentWork'
<1> DEFINE Idle == \A j \in Jobs : submit[j] # "done" => job[j] = "none" /\ j \notin dispatched
           ReportFrame == SentReport \cup SentHello
<1>1. /\ \A j \in Jobs : submit[j] = "done" => submit'[j] = "done"
      /\ paper \subseteq paper'
  BY SentStays
<1>2. SentOrder \subseteq SentOrder' /\ SentReport \subseteq SentReport'
  BY <1>1 DEF SentOrder, SentReport, AgentBound, UpdateFrame
<1>3. /\ toAgent \in [Conns -> Seq(SentOrder')]
      /\ backlog \in Seq(SentOrder')
      /\ updates \subseteq SentReport'
      /\ reports \subseteq SentReport'
  BY <1>2, SeqMonotonic DEF OnlySentWork
<1>4. toServer \in [Conns -> Seq(ReportFrame')]
  <2>1. ReportFrame \subseteq ReportFrame'
    BY <1>2 DEF SentHello
  <2> QED
    BY <2>1, SeqMonotonic DEF OnlySentWork
<1>5. Idle
  BY DEF OnlySentWork
<1>6. ASSUME UNCHANGED <<job, dispatched>> PROVE Idle'
  BY <1>1, <1>5, <1>6
<1>7. ASSUME UNCHANGED <<toAgent, backlog, toServer, updates, reports>>, Idle'
      PROVE  OnlySentWork'
  BY <1>3, <1>4, <1>7 DEF OnlySentWork
<1> USE DEF submitVars, netVars, printVars, linkVars
<1>8. ASSUME NEW j \in Jobs,
             ReadLink(j) \/ CreateRow(j) \/ CompileFails(j) \/ QueueJobSettled(j)
      PROVE  OnlySentWork'
  <2>1. UNCHANGED <<toAgent, backlog, toServer, updates, reports, job, dispatched>>
    BY <1>8 DEF ReadLink, CreateRow, CompileFails, QueueJobSettled
  <2> QED
    BY <2>1, <1>6, <1>7
<1>9. ASSUME NEW c \in Conns,
              \/ HandshakeTimeout(c) \/ SelectLostJobs(c) \/ SettleLostJobs(c) \/ OnClose(c)
              \/ Upgrade(c)
       PROVE  OnlySentWork'
  <2>1. UNCHANGED <<toAgent, backlog, toServer, updates, reports, job, dispatched>>
    BY <1>9 DEF HandshakeTimeout, SelectLostJobs, SettleLostJobs, OnClose, Upgrade
  <2> QED
    BY <2>1, <1>6, <1>7
<1>10. ASSUME \/ ClearToken \/ SelectStranded \/ SettleStranded \/ CloseUnpaired
             \/ Opened \/ DialFails \/ PairAgain \/ UNCHANGED vars
      PROVE  OnlySentWork'
  <2>1. UNCHANGED <<toAgent, backlog, toServer, updates, reports, job, dispatched>>
    BY <1>10 DEF ClearToken, SelectStranded, SettleStranded, CloseUnpaired, Opened, DialFails,
                PairAgain, vars
  <2> QED
    BY <2>1, <1>6, <1>7
<1>11. ASSUME NEW j \in Jobs, SendDispatch(j) PROVE OnlySentWork'
  <2>1. Dispatch(j) \in SentOrder'
    BY <1>11 DEF SendDispatch, Dispatch, SentOrder, AgentBound, TypeOK
  <2>2. toAgent' \in [Conns -> Seq(SentOrder')]
    BY <1>3, <1>11, <2>1, SendToAgentType DEF SendDispatch
  <2>3. UNCHANGED <<backlog, toServer, updates, reports, job, dispatched>>
    BY <1>11 DEF SendDispatch
  <2> QED
    BY <1>3, <1>4, <1>6, <2>2, <2>3 DEF OnlySentWork
<1>12. ASSUME NEW j \in Jobs, CancelJob(j) PROVE OnlySentWork'
  <2>1. Cancel(j) \in SentOrder'
    BY DEF Cancel, SentOrder, AgentBound
  <2>2. toAgent' \in [Conns -> Seq(SentOrder')]
    BY <1>3, <1>12, <2>1, SendToAgentType DEF CancelJob
  <2>3. UNCHANGED <<backlog, toServer, updates, reports, job, dispatched>>
    BY <1>12 DEF CancelJob
  <2> QED
    BY <1>3, <1>4, <1>6, <2>2, <2>3 DEF OnlySentWork
<1>13. ASSUME NEW c \in Conns, ReceiveHello(c) PROVE OnlySentWork'
  <2>1. toServer' \in [Conns -> Seq(ReportFrame')]
    BY <1>4, <1>13, ArrivesType DEF ReceiveHello
  <2>2. UNCHANGED <<toAgent, backlog, updates, reports, job, dispatched>>
    BY <1>13 DEF ReceiveHello
  <2> QED
    BY <1>3, <1>6, <2>1, <2>2 DEF OnlySentWork
<1>14. ASSUME NEW c \in Conns, ReceiveUpdate(c) PROVE OnlySentWork'
  <2>1. /\ Head(toServer[c]) \in ReportFrame'
        /\ Head(toServer[c]).type = "update"
        /\ toServer' \in [Conns -> Seq(ReportFrame')]
    BY <1>4, <1>14, ArrivesType DEF ReceiveUpdate
  <2>2. Head(toServer[c]) \in SentReport'
    BY <2>1 DEF SentHello, ServerBound
  <2>3. updates' \subseteq SentReport'
    BY <1>3, <1>14, <2>2 DEF ReceiveUpdate
  <2>4. UNCHANGED <<toAgent, backlog, reports, job, dispatched>>
    BY <1>14 DEF ReceiveUpdate
  <2> QED
    BY <1>3, <1>6, <2>1, <2>3, <2>4 DEF OnlySentWork
<1>15. ASSUME NEW u \in UpdateFrame, OnJobUpdate(u) PROVE OnlySentWork'
  <2>1. updates' \subseteq updates /\ UNCHANGED <<toAgent, backlog, toServer, reports, job, dispatched>>
    BY <1>15 DEF OnJobUpdate
  <2> QED
    BY <1>3, <1>4, <1>6, <2>1 DEF OnlySentWork
<1>16. ASSUME NEW c \in Conns, OnText(c) PROVE OnlySentWork'
  <2>1. toAgent[c] \in Seq(SentOrder') /\ toAgent[c] # <<>>
    BY <1>3, <1>16 DEF OnText
  <2>2. Head(toAgent[c]) \in SentOrder' /\ Tail(toAgent[c]) \in Seq(SentOrder')
    BY <2>1
  <2>3. backlog' \in Seq(SentOrder') /\ toAgent' \in [Conns -> Seq(SentOrder')]
    BY <1>3, <1>16, <2>2 DEF OnText
  <2>4. UNCHANGED <<toServer, updates, reports, job, dispatched>>
    BY <1>16 DEF OnText
  <2> QED
    BY <1>3, <1>4, <1>6, <2>3, <2>4 DEF OnlySentWork
<1>17. ASSUME SayHello PROVE OnlySentWork'
  <2>1. Hello(dispatched) \in ReportFrame'
    BY DEF Hello, SentHello, ServerBound, UpdateFrame, TypeOK
  <2>2. toServer' \in [Conns -> Seq(ReportFrame')]
    BY <1>4, <1>17, <2>1, SendToServerType DEF SayHello
  <2>3. UNCHANGED <<toAgent, backlog, updates, reports, job, dispatched>>
    BY <1>17 DEF SayHello
  <2> QED
    BY <1>3, <1>6, <2>2, <2>3 DEF OnlySentWork
<1>18. ASSUME OnDisconnected \/ OnUnpaired PROVE OnlySentWork'
  <2>1. toAgent' \in [Conns -> Seq(SentOrder')]
    BY <1>3, <1>18, HangUpType DEF OnDisconnected, OnUnpaired, TypeOK
  <2>2. UNCHANGED <<backlog, toServer, updates, reports, submit>>
    BY <1>18 DEF OnDisconnected, OnUnpaired
  <2>3. Idle'
    BY <1>5, <1>18, <2>2 DEF OnDisconnected, OnUnpaired
  <2> QED
    BY <1>3, <1>4, <2>1, <2>2, <2>3 DEF OnlySentWork
<1>19. ASSUME NEW j \in Jobs, OnDispatch(j) \/ RefuseDispatch(j) PROVE OnlySentWork'
  <2>1. Dispatch(j) \in SentOrder /\ backlog' \in Seq(SentOrder')
    BY <1>3, <1>19, HandlesType DEF OnDispatch, RefuseDispatch, OnlySentWork
  <2>2. submit[j] = "done" /\ submit'[j] = "done"
    BY <1>1, <2>1 DEF SentOrder, Dispatch
  <2>3. Update(j, "FAILED") \in SentReport'
    BY <2>2 DEF Update, SentReport, UpdateFrame, Status, Terminal
  <2>4. Idle' /\ reports' \subseteq SentReport' /\ UNCHANGED <<toAgent, toServer, updates>>
    BY <1>3, <1>5, <1>19, <2>2, <2>3 DEF OnDispatch, RefuseDispatch, AgentAlone, TypeOK
  <2> QED
    BY <1>3, <1>4, <2>1, <2>4 DEF OnlySentWork
<1>20. ASSUME NEW j \in Jobs, NEW s \in Status \ {"none", "QUEUED"},
              submit[j] = "done", Announced(j, s), s = "COMPLETED" => j \in paper'
       PROVE  reports' \subseteq SentReport' /\ dispatched' \subseteq dispatched
  <2>1. Update(j, s) \in SentReport'
    BY <1>1, <1>20 DEF Update, SentReport, UpdateFrame
  <2> QED
    BY <1>3, <1>20, <2>1 DEF Announced
<1>21. "CANCELLED" \in Status \ {"none", "QUEUED"} /\ "PRINTING" \in Status \ {"none", "QUEUED"}
       /\ "COMPLETED" \in Status \ {"none", "QUEUED"} /\ "FAILED" \in Status \ {"none", "QUEUED"}
  BY DEF Status, Unfinished, Terminal
<1>22. ASSUME NEW j \in Jobs, OnCancel(j) PROVE OnlySentWork'
  <2>1. backlog' \in Seq(SentOrder')
    BY <1>3, <1>22, HandlesType DEF OnCancel
  <2>2. reports' \subseteq SentReport' /\ Idle'
    <3>1. CASE job[j] = "QUEUED" /\ job' = [job EXCEPT ![j] = "CANCELLED"]
               /\ Announced(j, "CANCELLED")
      <4>1. submit[j] = "done"
        BY <1>5, <3>1
      <4>2. reports' \subseteq SentReport' /\ dispatched' \subseteq dispatched
        BY <1>20, <1>21, <3>1, <4>1
      <4> QED
        BY <1>1, <1>5, <3>1, <4>1, <4>2
    <3>2. CASE UNCHANGED <<job, reports, dispatched>>
      BY <1>3, <1>6, <3>2
    <3> QED
      BY <1>22, <3>1, <3>2 DEF OnCancel
  <2>3. UNCHANGED <<toAgent, toServer, updates>>
    BY <1>22 DEF OnCancel, AgentAlone
  <2> QED
    BY <1>3, <1>4, <2>1, <2>2, <2>3 DEF OnlySentWork
<1>23. ASSUME NEW j \in Jobs, BeginPrinting(j) \/ FinishPrinting(j) PROVE OnlySentWork'
  <2>1. submit[j] = "done"
    BY <1>5, <1>23 DEF BeginPrinting, FinishPrinting
  <2>2. reports' \subseteq SentReport' /\ dispatched' \subseteq dispatched
    BY <1>20, <1>21, <1>23, <2>1 DEF BeginPrinting, FinishPrinting, TypeOK
  <2>3. \E s \in Status : job' = [job EXCEPT ![j] = s]
    BY <1>21, <1>23 DEF BeginPrinting, FinishPrinting
  <2>4. Idle'
    BY <1>1, <1>5, <2>1, <2>2, <2>3
  <2>5. UNCHANGED <<toAgent, backlog, toServer, updates>>
    BY <1>23 DEF BeginPrinting, FinishPrinting, AgentAlone
  <2> QED
    BY <1>3, <1>4, <2>2, <2>4, <2>5 DEF OnlySentWork
<1>24. ASSUME NEW u \in UpdateFrame, SendReport(u) PROVE OnlySentWork'
  <2>1. u \in ReportFrame'
    BY <1>3, <1>24 DEF SendReport
  <2>2. toServer' \in [Conns -> Seq(ReportFrame')]
    BY <1>4, <1>24, <2>1, SendToServerType DEF SendReport
  <2>3. reports' \subseteq reports /\ UNCHANGED <<toAgent, backlog, updates, job, dispatched>>
    BY <1>24 DEF SendReport
  <2> QED
    BY <1>3, <1>6, <2>2, <2>3 DEF OnlySentWork
<1>25. CASE AgentRestart
  <2>1. toAgent' \in [Conns -> Seq(SentOrder')]
    BY <1>3, <1>25, HangUpType DEF AgentRestart, TypeOK
  <2>2. /\ backlog' = <<>> /\ reports' = {} /\ Idle'
        /\ UNCHANGED <<toServer, updates>>
    BY <1>25 DEF AgentRestart
  <2> QED
    BY <1>3, <1>4, <2>1, <2>2 DEF OnlySentWork
<1>26. CASE ServerRestart
  <2>1. toAgent' \in [Conns -> Seq(SentOrder')] /\ toServer' \in [Conns -> Seq(ReportFrame')]
    BY <1>26 DEF ServerRestart
  <2>2. updates' = {} /\ UNCHANGED <<backlog, reports, job, dispatched>>
    BY <1>26 DEF ServerRestart
  <2> QED
    BY <1>3, <1>6, <2>1, <2>2 DEF OnlySentWork
<1>27. ASSUME NEW c \in Conns, Cut(c) PROVE OnlySentWork'
  <2>1. toAgent' \in [Conns -> Seq(SentOrder')] /\ toServer' \in [Conns -> Seq(ReportFrame')]
    BY <1>3, <1>4, <1>27 DEF Cut
  <2>2. UNCHANGED <<backlog, updates, reports, job, dispatched>>
    BY <1>27 DEF Cut
  <2> QED
    BY <1>3, <1>6, <2>1, <2>2 DEF OnlySentWork
<1>28. CASE ServerNext
  BY <1>8, <1>9, <1>10, <1>11, <1>12, <1>13, <1>14, <1>15, <1>28 DEF ServerNext
<1>29. CASE AgentNext
  BY <1>9, <1>10, <1>16, <1>17, <1>18, <1>19, <1>22, <1>23, <1>24, <1>29 DEF AgentNext
<1> QED
  BY <1>10, <1>25, <1>26, <1>27, <1>28, <1>29 DEF Next, FailureNext

-----------------------------------------------------------------------------
(* Rows: what writes them, and that every write is a step of the ledger *)

\* The steps that touch a row, its delivery or its submission.
RowStep ==
    \/ \E j \in Jobs : \/ ReadLink(j) \/ CreateRow(j) \/ CompileFails(j) \/ SendDispatch(j)
                       \/ QueueJobSettled(j)
    \/ \E c \in Conns : SettleLostJobs(c)
    \/ \E u \in UpdateFrame : OnJobUpdate(u)
    \/ SettleStranded
    \/ ServerRestart

LEMMA RowWriters ==
    ASSUME [Next]_vars
    PROVE  RowStep \/ UNCHANGED <<rowVars, submitVars, unspoken>>
<1> USE DEF rowVars, submitVars
<1>1. ASSUME NEW j \in Jobs, CancelJob(j) \/ OnDispatch(j) \/ RefuseDispatch(j) \/ OnCancel(j)
                             \/ BeginPrinting(j) \/ FinishPrinting(j)
      PROVE  UNCHANGED <<rowVars, submitVars, unspoken>>
  BY <1>1 DEF CancelJob, OnDispatch, RefuseDispatch, OnCancel, BeginPrinting, FinishPrinting, AgentAlone
<1>2. ASSUME NEW c \in Conns, HandshakeTimeout(c) \/ ReceiveHello(c) \/ ReceiveUpdate(c)
             \/ SelectLostJobs(c) \/ OnClose(c) \/ Upgrade(c) \/ OnText(c) \/ Cut(c)
      PROVE  UNCHANGED <<rowVars, submitVars, unspoken>>
  BY <1>2 DEF HandshakeTimeout, ReceiveHello, ReceiveUpdate, SelectLostJobs, OnClose, Upgrade, OnText, Cut
<1>3. ASSUME NEW u \in UpdateFrame, SendReport(u)
      PROVE  UNCHANGED <<rowVars, submitVars, unspoken>>
  BY <1>3 DEF SendReport
<1>4. ASSUME \/ ClearToken \/ SelectStranded \/ CloseUnpaired \/ Opened \/ DialFails \/ SayHello
             \/ OnDisconnected \/ OnUnpaired \/ PairAgain \/ AgentRestart \/ UNCHANGED vars
      PROVE  UNCHANGED <<rowVars, submitVars, unspoken>>
  BY <1>4 DEF ClearToken, SelectStranded, CloseUnpaired, Opened, DialFails, SayHello,
              OnDisconnected, OnUnpaired, PairAgain, AgentRestart, vars
<1> QED
  BY <1>1, <1>2, <1>3, <1>4 DEF Next, ServerNext, AgentNext, FailureNext, RowStep

LEMMA StepRowFollows ==
    ASSUME TypeOK, OnlySentWork, RowFollowsSubmit, [Next]_vars
    PROVE  RowFollowsSubmit'
<1> USE DEF TypeOK, RowFollowsSubmit, rowVars, submitVars
<1>1. ASSUME NEW j \in Jobs,
             ReadLink(j) \/ CreateRow(j) \/ CompileFails(j) \/ SendDispatch(j) \/ QueueJobSettled(j)
      PROVE  RowFollowsSubmit'
  BY <1>1 DEF ReadLink, CreateRow, CompileFails, SendDispatch, QueueJobSettled, FailJob
<1>2. ASSUME NEW S, NEW code, SettleUnfinished(S, code), UNCHANGED submitVars
      PROVE  RowFollowsSubmit'
  BY <1>2 DEF SettleUnfinished, CanStillChange, Unfinished
<1>3. ASSUME NEW u \in UpdateFrame, OnJobUpdate(u)
      PROVE  RowFollowsSubmit'
  <2>1. submit[u.job] = "done" /\ u.job \in Jobs
    BY <1>3 DEF OnJobUpdate, OnlySentWork, SentReport, UpdateFrame
  <2>2. UNCHANGED submit /\ \A j \in Jobs : j # u.job => row'[j] = row[j]
    BY <1>3 DEF OnJobUpdate
  <2> QED
    BY <2>1, <2>2
<1>4. CASE ServerRestart
  BY <1>4 DEF ServerRestart
<1>5. CASE UNCHANGED <<rowVars, submitVars, unspoken>>
  BY <1>5
<1> QED
  BY <1>1, <1>2, <1>3, <1>4, <1>5, RowWriters DEF RowStep, SettleLostJobs, SettleStranded

LEMMA InitAnswers == Init => AnswersAreFinal
BY DEF Init, AnswersAreFinal

LEMMA InitLedger == Init => Ledger!Init
BY DEF Init, Ledger!Init, Untold

\* A step is one of the ledger's, or none.
LEMMA StepLedger ==
    ASSUME TypeOK, OnlySentWork, RowFollowsSubmit, AnswersAreFinal, [Next]_vars
    PROVE  [Ledger!Next]_Ledger!vars
<1> DEFINE told == [j \in Jobs |-> hook[j].status]
<1> USE DEF TypeOK, rowVars, submitVars
<1>1. ASSUME UNCHANGED <<row, hook>> PROVE UNCHANGED Ledger!vars
  BY <1>1 DEF Ledger!vars
<1>2. ASSUME NEW S \in SUBSET Jobs, NEW s \in Terminal, \A j \in S : row[j] \in Unfinished,
             row' = [j \in Jobs |-> IF j \in S THEN s ELSE row[j]], UNCHANGED hook
      PROVE  [Ledger!Next]_Ledger!vars
  <2>1. CASE S = {}
    <3>1. row' = row
      BY <1>2, <2>1
    <3> QED
      BY <1>1, <1>2, <3>1
  <2>2. CASE S # {}
    <3>1. Ledger!Settle(S, s)
      BY <1>2, <2>2 DEF Ledger!Settle, Ledger!Open, Unfinished
    <3>2. s \in Ledger!Terminal
      BY DEF Terminal, Ledger!Terminal
    <3> QED
      BY <3>1, <3>2 DEF Ledger!Next
  <2> QED
    BY <2>1, <2>2
<1>3. ASSUME NEW S \in SUBSET Jobs, NEW code, SettleUnfinished(S, code)
      PROVE  [Ledger!Next]_Ledger!vars
  <2> DEFINE writing == {j \in S : CanStillChange(j)}
  <2>1. /\ writing \in SUBSET Jobs
        /\ \A j \in writing : row[j] \in Unfinished
        /\ row' = [j \in Jobs |-> IF j \in writing THEN "FAILED" ELSE row[j]]
        /\ UNCHANGED hook
    BY <1>3 DEF SettleUnfinished, CanStillChange
  <2>2. "FAILED" \in Terminal
    BY DEF Terminal
  <2> QED
    BY <1>2, <2>1, <2>2
<1>4. ASSUME NEW j \in Jobs, NEW code, submit[j] = "rowed", FailJob(j, code)
      PROVE  [Ledger!Next]_Ledger!vars
  <2>1. row[j] \in {"QUEUED", "FAILED"}
    BY <1>4 DEF RowFollowsSubmit
  <2>2. row' = [row EXCEPT ![j] = "FAILED"] /\ UNCHANGED hook
    BY <1>4 DEF FailJob
  <2>3. CASE row[j] = "FAILED"
    <3>1. row' = row
      BY <2>2, <2>3
    <3> QED
      BY <1>1, <2>2, <3>1
  <2>4. CASE row[j] = "QUEUED"
    <3> DEFINE one == {j}
    <3>1. row' = [k \in Jobs |-> IF k \in one THEN "FAILED" ELSE row[k]]
      BY <2>2
    <3>2. /\ one \in SUBSET Jobs
          /\ "FAILED" \in Terminal
          /\ \A k \in one : row[k] \in Unfinished
          /\ UNCHANGED hook
      BY <2>2, <2>4 DEF Unfinished, Terminal
    <3> HIDE DEF one
    <3> QED
      BY <1>2, <3>1, <3>2
  <2> QED
    BY <2>1, <2>3, <2>4
<1>5. ASSUME NEW j \in Jobs, ReadLink(j) PROVE [Ledger!Next]_Ledger!vars
  BY <1>1, <1>5 DEF ReadLink
<1>6. ASSUME NEW j \in Jobs, CreateRow(j) PROVE [Ledger!Next]_Ledger!vars
  <2>1. row[j] = "none"
    BY <1>6 DEF CreateRow, RowFollowsSubmit
  <2>2. Ledger!Record(j)
    BY <1>6, <2>1 DEF CreateRow, Ledger!Record
  <2> QED
    BY <2>2 DEF Ledger!Next
<1>7. ASSUME NEW j \in Jobs, CompileFails(j) \/ SendDispatch(j) PROVE [Ledger!Next]_Ledger!vars
  BY <1>1, <1>4, <1>7 DEF CompileFails, SendDispatch
<1>8. ASSUME NEW j \in Jobs, QueueJobSettled(j) PROVE [Ledger!Next]_Ledger!vars
  <2>1. CASE hook[j] = Untold
    <3>1. row[j] \in Terminal
      BY <1>8 DEF QueueJobSettled, AnswersAreFinal
    <3>2. /\ UNCHANGED row
          /\ hook' = [hook EXCEPT ![j] = [status |-> row[j], err |-> err[j]]]
      BY <1>8, <2>1 DEF QueueJobSettled
    <3>3. told[j] = "none"
      BY <2>1 DEF Untold
    <3>5. \A k \in Jobs : hook'[k].status = IF k = j THEN row[j] ELSE hook[k].status
      BY <3>2
    <3>6. told' = [told EXCEPT ![j] = row[j]]
      BY <3>5
    <3>4. Ledger!Tell(j)
      BY <3>1, <3>2, <3>3, <3>6 DEF Ledger!Tell, Ledger!Terminal, Terminal
    <3> QED
      BY <3>4 DEF Ledger!Next
  <2>2. CASE hook[j] # Untold
    <3>1. UNCHANGED <<row, hook>>
      BY <1>8, <2>2 DEF QueueJobSettled
    <3> QED
      BY <1>1, <3>1
  <2> QED
    BY <2>1, <2>2
<1>9. ASSUME NEW u \in UpdateFrame, OnJobUpdate(u) PROVE [Ledger!Next]_Ledger!vars
  <2>1. u.job \in Jobs /\ u.status \in {"PRINTING"} \cup Terminal
    BY DEF UpdateFrame, Status, Unfinished
  <2>2. CASE ~CanStillChange(u.job)
    BY <1>1, <1>9, <2>2 DEF OnJobUpdate
  <2>3. CASE CanStillChange(u.job)
    <3>1. row' = [row EXCEPT ![u.job] = u.status] /\ UNCHANGED hook /\ row[u.job] \in Unfinished
      BY <1>9, <2>3 DEF OnJobUpdate, CanStillChange
    <3>2. CASE u.status = "PRINTING"
      <4>1. Ledger!Start(u.job)
        BY <3>1, <3>2 DEF Ledger!Start, Ledger!Open, Unfinished
      <4> QED
        BY <2>1, <4>1 DEF Ledger!Next
    <3>3. CASE u.status \in Terminal
      <4> DEFINE one == {u.job}
      <4>1. row' = [k \in Jobs |-> IF k \in one THEN u.status ELSE row[k]]
        BY <3>1
      <4>2. one \in SUBSET Jobs /\ \A k \in one : row[k] \in Unfinished
        BY <2>1, <3>1
      <4> HIDE DEF one
      <4> QED
        BY <1>2, <3>1, <3>3, <4>1, <4>2, ZenonT(60)
    <3> QED
      BY <2>1, <3>2, <3>3
  <2> QED
    BY <2>2, <2>3
<1>10. ASSUME NEW c \in Conns, SettleLostJobs(c) PROVE [Ledger!Next]_Ledger!vars
  BY <1>3, <1>10 DEF SettleLostJobs
<1>11. CASE SettleStranded
  BY <1>3, <1>11 DEF SettleStranded
<1>12. CASE ServerRestart
  BY <1>1, <1>12 DEF ServerRestart
<1>13. CASE UNCHANGED <<rowVars, submitVars, unspoken>>
  BY <1>1, <1>13
<1> QED
  BY <1>5, <1>6, <1>7, <1>8, <1>9, <1>10, <1>11, <1>12, <1>13, RowWriters DEF RowStep

\* The ledger never takes an ending back, nor a row.
LEMMA LedgerKeeps ==
    ASSUME TypeOK, [Ledger!Next]_Ledger!vars, NEW j \in Jobs
    PROVE  /\ row[j] \in Terminal => row'[j] = row[j]
           /\ row[j] # "none" => row'[j] # "none"
<1> USE DEF TypeOK, Terminal
<1>1. ASSUME NEW k \in Jobs, Ledger!Record(k)
      PROVE  (row[j] \in Terminal => row'[j] = row[j]) /\ (row[j] # "none" => row'[j] # "none")
  BY <1>1 DEF Ledger!Record
<1>2. ASSUME NEW k \in Jobs, Ledger!Start(k)
      PROVE  (row[j] \in Terminal => row'[j] = row[j]) /\ (row[j] # "none" => row'[j] # "none")
  BY <1>2 DEF Ledger!Start, Ledger!Open
<1>3. ASSUME NEW S \in SUBSET Jobs, NEW s \in Ledger!Terminal, Ledger!Settle(S, s)
      PROVE  (row[j] \in Terminal => row'[j] = row[j]) /\ (row[j] # "none" => row'[j] # "none")
  BY <1>3 DEF Ledger!Settle, Ledger!Open, Ledger!Terminal
<1>4. ASSUME (\E k \in Jobs : Ledger!Tell(k)) \/ UNCHANGED Ledger!vars
      PROVE  (row[j] \in Terminal => row'[j] = row[j]) /\ (row[j] # "none" => row'[j] # "none")
  BY <1>4 DEF Ledger!Tell, Ledger!vars
<1> QED
  BY <1>1, <1>2, <1>3, <1>4 DEF Ledger!Next

LEMMA StepKeeps ==
    ASSUME TypeOK, OnlySentWork, RowFollowsSubmit, AnswersAreFinal, [Next]_vars, NEW j \in Jobs
    PROVE  /\ row[j] \in Terminal => row'[j] = row[j]
           /\ row[j] # "none" => row'[j] # "none"
BY StepLedger, LedgerKeeps

LEMMA StepAnswers ==
    ASSUME TypeOK, OnlySentWork, RowFollowsSubmit, AnswersAreFinal, [Next]_vars
    PROVE  AnswersAreFinal'
<1> USE DEF TypeOK, rowVars, submitVars
<1>1. \A j \in Jobs : row[j] \in Terminal => row'[j] = row[j]
  BY StepKeeps
<1>2. ASSUME UNCHANGED hook, \A j \in unspoken' : j \in unspoken \/ row'[j] \in Terminal
      PROVE  AnswersAreFinal'
  BY <1>1, <1>2 DEF AnswersAreFinal
<1>3. ASSUME NEW S \in SUBSET Jobs, NEW code, SettleUnfinished(S, code)
      PROVE  AnswersAreFinal'
  BY <1>2, <1>3 DEF SettleUnfinished, CanStillChange, Unfinished, Terminal
<1>4. ASSUME NEW j \in Jobs, NEW code, FailJob(j, code)
      PROVE  AnswersAreFinal'
  BY <1>2, <1>4 DEF FailJob, Terminal
<1>5. ASSUME NEW j \in Jobs, ReadLink(j) \/ CreateRow(j) \/ CompileFails(j) \/ SendDispatch(j)
      PROVE  AnswersAreFinal'
  BY <1>2, <1>4, <1>5 DEF ReadLink, CreateRow, CompileFails, SendDispatch
<1>6. ASSUME NEW j \in Jobs, QueueJobSettled(j) PROVE AnswersAreFinal'
  <2>1. row[j] \in Terminal /\ unspoken' \subseteq unspoken /\ UNCHANGED row
    BY <1>6 DEF QueueJobSettled, AnswersAreFinal
  <2>2. \A k \in Jobs : hook'[k] = hook[k] \/ (k = j /\ hook'[k].status = row[j])
    BY <1>6 DEF QueueJobSettled
  <2> QED
    BY <2>1, <2>2 DEF AnswersAreFinal
<1>7. ASSUME NEW u \in UpdateFrame, OnJobUpdate(u) PROVE AnswersAreFinal'
  <2>1. u.job \in Jobs
    BY DEF UpdateFrame
  <2> QED
    BY <1>2, <1>7, <2>1 DEF OnJobUpdate
<1>8. ASSUME NEW c \in Conns, SettleLostJobs(c) PROVE AnswersAreFinal'
  BY <1>3, <1>8 DEF SettleLostJobs
<1>9. CASE SettleStranded
  BY <1>3, <1>9 DEF SettleStranded
<1>10. CASE ServerRestart
  BY <1>2, <1>10 DEF ServerRestart
<1>11. CASE UNCHANGED <<rowVars, submitVars, unspoken>>
  BY <1>2, <1>11
<1> QED
  BY <1>5, <1>6, <1>7, <1>8, <1>9, <1>10, <1>11, RowWriters DEF RowStep

LEMMA InitPaper == Init => CompletedIsOnPaper
BY DEF Init, CompletedIsOnPaper

LEMMA StepPaper ==
    ASSUME TypeOK, OnlySentWork, CompletedIsOnPaper, [Next]_vars
    PROVE  CompletedIsOnPaper'
<1> USE DEF TypeOK, rowVars, submitVars, CompletedIsOnPaper
<1>1. paper \subseteq paper'
  BY SentStays
<1>2. ASSUME \A j \in Jobs : row'[j] = "COMPLETED" => row[j] = "COMPLETED"
      PROVE  CompletedIsOnPaper'
  BY <1>1, <1>2
<1>3. ASSUME NEW S, NEW code, SettleUnfinished(S, code)
      PROVE  CompletedIsOnPaper'
  BY <1>2, <1>3 DEF SettleUnfinished
<1>4. ASSUME NEW j \in Jobs, ReadLink(j) \/ CreateRow(j) \/ CompileFails(j) \/ SendDispatch(j)
                             \/ QueueJobSettled(j)
      PROVE  CompletedIsOnPaper'
  BY <1>2, <1>4 DEF ReadLink, CreateRow, CompileFails, SendDispatch, QueueJobSettled, FailJob
<1>5. ASSUME NEW u \in UpdateFrame, OnJobUpdate(u) PROVE CompletedIsOnPaper'
  <2>1. u.status = "COMPLETED" => u.job \in paper
    BY <1>5 DEF OnJobUpdate, OnlySentWork, SentReport
  <2> QED
    BY <1>1, <1>5, <2>1 DEF OnJobUpdate
<1>6. CASE ServerRestart
  BY <1>2, <1>6 DEF ServerRestart
<1>7. CASE UNCHANGED <<rowVars, submitVars, unspoken>>
  BY <1>2, <1>7
<1> QED
  BY <1>3, <1>4, <1>5, <1>6, <1>7, RowWriters DEF RowStep, SettleLostJobs, SettleStranded

-----------------------------------------------------------------------------
(* Connections and the reconciliation of their hellos *)

\* The steps that touch the registry, a handler or a reconciliation.
ConnStep ==
    \/ \E j \in Jobs : ReadLink(j)
    \/ \E c \in Conns : ReceiveHello(c) \/ SelectLostJobs(c) \/ SettleLostJobs(c) \/ OnClose(c)
                        \/ Upgrade(c)
    \/ ServerRestart

LEMMA ConnWriters ==
    ASSUME [Next]_vars
    PROVE  ConnStep \/ UNCHANGED <<srv, registered, submitLink, helloVars>>
<1> USE DEF helloVars, submitVars
<1>1. ASSUME NEW j \in Jobs, CreateRow(j) \/ CompileFails(j) \/ SendDispatch(j) \/ CancelJob(j)
             \/ QueueJobSettled(j) \/ OnDispatch(j) \/ RefuseDispatch(j) \/ OnCancel(j)
             \/ BeginPrinting(j) \/ FinishPrinting(j)
      PROVE  UNCHANGED <<srv, registered, submitLink, helloVars>>
  BY <1>1 DEF CreateRow, CompileFails, SendDispatch, CancelJob, QueueJobSettled, OnDispatch,
              RefuseDispatch, OnCancel, BeginPrinting, FinishPrinting, AgentAlone
<1>2. ASSUME NEW c \in Conns, HandshakeTimeout(c) \/ ReceiveUpdate(c) \/ OnText(c) \/ Cut(c)
      PROVE  UNCHANGED <<srv, registered, submitLink, helloVars>>
  BY <1>2 DEF HandshakeTimeout, ReceiveUpdate, OnText, Cut
<1>3. ASSUME NEW u \in UpdateFrame, OnJobUpdate(u) \/ SendReport(u)
      PROVE  UNCHANGED <<srv, registered, submitLink, helloVars>>
  BY <1>3 DEF OnJobUpdate, SendReport
<1>4. ASSUME \/ ClearToken \/ SelectStranded \/ SettleStranded \/ CloseUnpaired \/ Opened
             \/ DialFails \/ SayHello \/ OnDisconnected \/ OnUnpaired \/ PairAgain
             \/ AgentRestart \/ UNCHANGED vars
      PROVE  UNCHANGED <<srv, registered, submitLink, helloVars>>
  BY <1>4 DEF ClearToken, SelectStranded, SettleStranded, CloseUnpaired, Opened, DialFails,
              SayHello, OnDisconnected, OnUnpaired, PairAgain, AgentRestart, vars
<1> QED
  BY <1>1, <1>2, <1>3, <1>4 DEF Next, ServerNext, AgentNext, FailureNext, ConnStep

LEMMA InitConns == Init => KnownConns /\ HelloInOrder /\ HelloReconciles
BY DEF Init, KnownConns, HelloInOrder, HelloReconciles

LEMMA StepKnownConns ==
    ASSUME TypeOK, KnownConns, [Next]_vars
    PROVE  KnownConns'
<1> USE NoConnIsNone DEF TypeOK, KnownConns, submitVars, helloVars
<1>1. ASSUME NEW j \in Jobs, ReadLink(j) PROVE KnownConns'
  BY <1>1 DEF ReadLink
<1>2. ASSUME NEW c \in Conns, ReceiveHello(c) PROVE KnownConns'
  BY <1>2 DEF ReceiveHello
<1>3. ASSUME NEW c \in Conns, SelectLostJobs(c) \/ SettleLostJobs(c) PROVE KnownConns'
  BY <1>3 DEF SelectLostJobs, SettleLostJobs
<1>4. ASSUME NEW c \in Conns, OnClose(c) \/ Upgrade(c) PROVE KnownConns'
  BY <1>4 DEF OnClose, Upgrade
<1>5. CASE ServerRestart
  BY <1>5 DEF ServerRestart
<1>6. CASE UNCHANGED <<srv, registered, submitLink, helloVars>>
  BY <1>6
<1> QED
  BY <1>1, <1>2, <1>3, <1>4, <1>5, <1>6, ConnWriters DEF ConnStep

LEMMA StepHello ==
    ASSUME IInv, [Next]_vars
    PROVE  HelloInOrder' /\ HelloReconciles'
<1> USE DEF IInv, TypeOK, HelloInOrder, HelloReconciles, submitVars, helloVars, rowVars
<1> DEFINE Rowed(j) == row[j] # "none"
           Done(j)  == row[j] \in Terminal
           InOrder(c) ==
               /\ srv[c] \in {"none", "open"} => rec[c] = "none"
               /\ \A j \in older[c] : row[j] # "none" /\ submitLink[j] # c
               /\ lost[c] \subseteq older[c]
               /\ rec[c] = "selected" =>
                      \A j \in older[c] : row[j] \in Terminal \/ j \in held[c] \/ j \in lost[c]
               /\ rec[c] = "done" => \A j \in older[c] : row[j] \in Terminal \/ j \in held[c]
<1>1. \A j \in Jobs : (Done(j) => Done(j)') /\ (Rowed(j) => Rowed(j)')
  BY StepKeeps
<1>2. ASSUME UNCHANGED <<srv, submitLink, older, held, rec, lost>>
      PROVE  HelloInOrder' /\ HelloReconciles'
  BY <1>1, <1>2
<1>10. ASSUME \A d \in Conns : InOrder(d)' PROVE HelloInOrder' /\ HelloReconciles'
  BY <1>10
<1>3. ASSUME NEW j \in Jobs, ReadLink(j) PROVE HelloInOrder' /\ HelloReconciles'
  <2>1. ~Rowed(j)
    BY <1>3 DEF ReadLink, RowFollowsSubmit
  <2>2. UNCHANGED <<row, srv, older, held, rec, lost>>
    BY <1>3 DEF ReadLink
  <2>3. \A k \in Jobs : k # j => submitLink'[k] = submitLink[k]
    BY <1>3 DEF ReadLink
  <2> QED
    BY <2>1, <2>2, <2>3
<1>4. ASSUME NEW c \in Conns, ReceiveHello(c) PROVE HelloInOrder' /\ HelloReconciles'
  <2>1. rec[c] = "none" /\ rec'[c] \in {"registered", "skipped"} /\ srv'[c] = "ready"
    BY <1>4 DEF ReceiveHello
  <2>2. \A d \in Conns : d # c => rec'[d] = rec[d] /\ held'[d] = held[d] /\ srv'[d] = srv[d]
    BY <1>4 DEF ReceiveHello
  <2>3. UNCHANGED <<row, submitLink, older, lost>>
    BY <1>4 DEF ReceiveHello
  <2>4. InOrder(c)'
    BY <2>1, <2>3
  <2>5. \A d \in Conns : d # c => InOrder(d)'
    BY <2>2, <2>3
  <2> QED
    BY <1>10, <2>4, <2>5
<1>5. ASSUME NEW c \in Conns, SelectLostJobs(c) PROVE HelloInOrder' /\ HelloReconciles'
  <2>1. /\ rec[c] = "registered" /\ rec'[c] = "selected"
        /\ \A d \in Conns : d # c => rec'[d] = rec[d] /\ lost'[d] = lost[d]
        /\ lost'[c] = LostJobs(c)
        /\ UNCHANGED <<row, srv, submitLink, older, held>>
    BY <1>5 DEF SelectLostJobs
  <2>2. \A j \in older[c] : Done(j) \/ j \in held[c] \/ j \in LostJobs(c)
    BY DEF LostJobs, CanStillChange, Unfinished, Terminal, Status
  <2>3. LostJobs(c) \subseteq older[c]
    BY DEF LostJobs
  <2>4. InOrder(c)'
    BY <2>1, <2>2, <2>3
  <2>5. \A d \in Conns : d # c => InOrder(d)'
    BY <2>1
  <2> QED
    BY <1>10, <2>4, <2>5
<1>6. ASSUME NEW c \in Conns, SettleLostJobs(c) PROVE HelloInOrder' /\ HelloReconciles'
  <2>1. /\ rec[c] = "selected" /\ rec'[c] = "done" /\ lost'[c] = {}
        /\ \A d \in Conns : d # c => rec'[d] = rec[d] /\ lost'[d] = lost[d]
        /\ UNCHANGED <<srv, submitLink, older, held>>
    BY <1>6 DEF SettleLostJobs
  <2>2. \A j \in lost[c] : row'[j] \in Terminal
    BY <1>6 DEF SettleLostJobs, SettleUnfinished, CanStillChange, Unfinished, Terminal, Status,
                HelloInOrder, RowFollowsSubmit
  <2>3. InOrder(c)'
    BY <1>1, <2>1, <2>2
  <2>4. \A d \in Conns : d # c => InOrder(d)'
    BY <1>1, <2>1
  <2> QED
    BY <1>10, <2>3, <2>4
<1>7. ASSUME NEW c \in Conns, OnClose(c) PROVE HelloInOrder' /\ HelloReconciles'
  <2>1. /\ srv'[c] = "closed"
        /\ \A d \in Conns : d # c => srv'[d] = srv[d]
        /\ UNCHANGED <<row, submitLink, older, held, rec, lost>>
    BY <1>7 DEF OnClose
  <2> QED
    BY <2>1
<1>8. ASSUME NEW c \in Conns, Upgrade(c) PROVE HelloInOrder' /\ HelloReconciles'
  <2>1. /\ srv[c] = "none" /\ srv'[c] = "open" /\ older'[c] = {j \in Jobs : Rowed(j)}
        /\ \A d \in Conns : d # c => srv'[d] = srv[d] /\ older'[d] = older[d]
        /\ UNCHANGED <<row, submitLink, held, rec, lost>>
    BY <1>8 DEF Upgrade
  <2>2. \A j \in Jobs : submitLink[j] # c
    BY <2>1, NoConnIsNone DEF KnownConns
  <2>3. lost[c] \subseteq older[c] /\ older[c] \subseteq older'[c]
    BY <2>1
  <2>4. InOrder(c)'
    BY <2>1, <2>2, <2>3
  <2>5. \A d \in Conns : d # c => InOrder(d)'
    BY <2>1
  <2> QED
    BY <1>10, <2>4, <2>5
<1>9. CASE ServerRestart
  <2>1. /\ \A d \in Conns : /\ srv'[d] \in {"none", "open"} => srv[d] \in {"none", "open"}
                            /\ rec'[d] = "none" <=> rec[d] = "none"
                            /\ rec'[d] # "selected"
                            /\ rec'[d] = "done" => rec[d] = "done"
                            /\ lost'[d] = {}
        /\ UNCHANGED <<row, submitLink, older, held>>
    BY <1>9 DEF ServerRestart
  <2> QED
    BY <2>1
<1> QED
  BY <1>2, <1>3, <1>4, <1>5, <1>6, <1>7, <1>8, <1>9, ConnWriters DEF ConnStep

\* The slot is emptied only while its holder closes.
LEMMA StepSlot ==
    ASSUME TypeOK, KnownConns, [Next]_vars, registered # NoConn, registered' = NoConn
    PROVE  srv'[registered] = "closed"
<1> USE NoConnIsNone DEF TypeOK, KnownConns, submitVars, helloVars
<1>1. ASSUME NEW c \in Conns, OnClose(c) PROVE srv'[registered] = "closed"
  BY <1>1 DEF OnClose, StillRegistered
<1>2. CASE ServerRestart
  BY <1>2 DEF ServerRestart
<1>3. ASSUME NEW c \in Conns, ReceiveHello(c) \/ SelectLostJobs(c) \/ SettleLostJobs(c) \/ Upgrade(c)
      PROVE  FALSE
  BY <1>3 DEF ReceiveHello, SelectLostJobs, SettleLostJobs, Upgrade
<1>4. ASSUME (\E j \in Jobs : ReadLink(j)) \/ UNCHANGED registered PROVE FALSE
  BY <1>4 DEF ReadLink
<1> QED
  BY <1>1, <1>2, <1>3, <1>4, ConnWriters DEF ConnStep

-----------------------------------------------------------------------------
(* What the agent holds, its next hello names *)

LEMMA InitHeld == Init => HeldWorkIsNamed
BY DEF Init, HeldWorkIsNamed, Unfinished

LEMMA StepHeld ==
    ASSUME TypeOK, HeldWorkIsNamed, [Next]_vars
    PROVE  HeldWorkIsNamed'
<1> USE DEF TypeOK, HeldWorkIsNamed, Unfinished, printVars
<1>1. ASSUME NEW j \in Jobs, ReadLink(j) \/ CreateRow(j) \/ CompileFails(j) \/ SendDispatch(j)
             \/ CancelJob(j) \/ QueueJobSettled(j)
      PROVE  UNCHANGED <<job, dispatched>>
  BY <1>1 DEF ReadLink, CreateRow, CompileFails, SendDispatch, CancelJob, QueueJobSettled
<1>2. ASSUME NEW c \in Conns, HandshakeTimeout(c) \/ ReceiveHello(c) \/ ReceiveUpdate(c)
             \/ SelectLostJobs(c) \/ SettleLostJobs(c) \/ OnClose(c) \/ Upgrade(c)
             \/ OnText(c) \/ Cut(c)
      PROVE  UNCHANGED <<job, dispatched>>
  BY <1>2 DEF HandshakeTimeout, ReceiveHello, ReceiveUpdate, SelectLostJobs, SettleLostJobs,
              OnClose, Upgrade, OnText, Cut
<1>3. ASSUME NEW u \in UpdateFrame, OnJobUpdate(u) \/ SendReport(u)
      PROVE  UNCHANGED <<job, dispatched>>
  BY <1>3 DEF OnJobUpdate, SendReport
<1>4. ASSUME \/ ClearToken \/ SelectStranded \/ SettleStranded \/ CloseUnpaired \/ Opened
             \/ DialFails \/ SayHello \/ OnDisconnected \/ PairAgain \/ ServerRestart
             \/ UNCHANGED vars
      PROVE  UNCHANGED <<job, dispatched>>
  BY <1>4 DEF ClearToken, SelectStranded, SettleStranded, CloseUnpaired, Opened, DialFails,
              SayHello, OnDisconnected, PairAgain, ServerRestart, vars
<1>5. CASE OnUnpaired
  BY <1>5 DEF OnUnpaired
<1>6. CASE AgentRestart
  BY <1>6 DEF AgentRestart
<1>7. ASSUME NEW j \in Jobs, OnDispatch(j) PROVE HeldWorkIsNamed'
  BY <1>7 DEF OnDispatch
<1>8. ASSUME NEW j \in Jobs, RefuseDispatch(j) PROVE HeldWorkIsNamed'
  BY <1>8 DEF RefuseDispatch
<1>9. ASSUME NEW j \in Jobs, OnCancel(j) PROVE HeldWorkIsNamed'
  BY <1>9 DEF OnCancel, Announced
<1>10. ASSUME NEW j \in Jobs, BeginPrinting(j) PROVE HeldWorkIsNamed'
  BY <1>10 DEF BeginPrinting, Announced, Terminal
<1>11. ASSUME NEW j \in Jobs, FinishPrinting(j) PROVE HeldWorkIsNamed'
  BY <1>11 DEF FinishPrinting, Announced
<1> QED
  BY <1>1, <1>2, <1>3, <1>4, <1>5, <1>6, <1>7, <1>8, <1>9, <1>10, <1>11
  DEF Next, ServerNext, AgentNext, FailureNext

-----------------------------------------------------------------------------
(* The theorems *)

LEMMA Inductive == Spec => []IInv
<1>1. Init => IInv
  BY InitType, InitSent, InitAnswers, InitConns, InitPaper, InitHeld DEF IInv
<1>2. IInv /\ [Next]_vars => IInv'
  BY StepType, StepSent, StepRowFollows, StepAnswers, StepKnownConns, StepHello, StepPaper,
     StepHeld DEF IInv
<1> QED
  BY <1>1, <1>2, PTL DEF Spec

\* The server's rows and deliveries are those of a ledger in which jobs only
\* move forward and each is told once: JobLink implements JobLedger.
THEOREM Refinement == Spec => ImplementsLedger
<1>1. Init => Ledger!Init
  BY InitLedger
<1>2. IInv /\ [Next]_vars => [Ledger!Next]_Ledger!vars
  BY StepLedger DEF IInv
<1> QED
  BY <1>1, <1>2, Inductive, PTL DEF Spec, ImplementsLedger, Ledger!Spec

\* No report, late settle or failed submission changes how a job ended.
THEOREM TerminalJobStaysTerminal == Spec => TerminalStays
<1>1. IInv /\ [Next]_vars => [\A j \in Jobs : row[j] \in Terminal => row'[j] = row[j]]_vars
  BY StepKeeps DEF IInv
<1> QED
  BY <1>1, Inductive, PTL DEF Spec, TerminalStays

\* The subscriber's answer is the row's, for good.
THEOREM SubscriberKnowsTheRow == Spec => []HookTellsTheRow
<1>1. IInv => HookTellsTheRow
  BY DEF IInv, AnswersAreFinal, HookTellsTheRow
<1> QED
  BY <1>1, Inductive, PTL

\* A COMPLETED row has its bytes on paper.
THEOREM CompletedMeansPaper == Spec => []CompletedIsOnPaper
<1>1. IInv => CompletedIsOnPaper
  BY DEF IInv
<1> QED
  BY <1>1, Inductive, PTL

\* A reconciliation never picks a job submitted on its own connection.
THEOREM OwnJobsAreSafe == Spec => []NeverLosesItsOwn
<1>1. IInv => NeverLosesItsOwn
  BY DEF IInv, HelloInOrder, NeverLosesItsOwn, TypeOK
<1> QED
  BY <1>1, Inductive, PTL

\* A reconciled hello leaves no older job unaccounted for.
THEOREM HelloAccountsForAll == Spec => []HelloReconciles
<1>1. IInv => HelloReconciles
  BY DEF IInv
<1> QED
  BY <1>1, Inductive, PTL

\* What the agent holds is what its next hello names.
THEOREM HeldIsNamed == Spec => []HeldWorkIsNamed
<1>1. IInv => HeldWorkIsNamed
  BY DEF IInv
<1> QED
  BY <1>1, Inductive, PTL

\* A displaced connection's late close does not empty the slot.
THEOREM SlotIsItsHolders == Spec => SlotVacatedByHolder
<1>1. IInv /\ [Next]_vars
      => [registered # NoConn /\ registered' = NoConn => srv'[registered] = "closed"]_vars
  BY StepSlot DEF IInv
<1> QED
  BY <1>1, Inductive, PTL DEF Spec, SlotVacatedByHolder
=============================================================================
