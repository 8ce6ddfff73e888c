--------------------------- MODULE DevicesProofs ----------------------------
(***************************************************************************)
(* Proofs about what the server asks of an agent's devices: that an        *)
(* answer says what was done, that a handler that was shut down keeps off  *)
(* the port, and that an agent comes to hold what is saved for it; and     *)
(* that the panel's pages come to show what their tabs were told of it.    *)
(***************************************************************************)
EXTENDS LinkRequests, SerialPort, AgentConfig, LiveView, SequenceFacts, FiniteSetTheorems

-----------------------------------------------------------------------------
(* Requests and device commands. *)

Wired(c)   == Elems(toAgent[c])
Framed     == Elems(frames)
Replies(c) == Elems(toServer[c])
Replied(r) == \E c \in Conns : \E x \in Replies(c) : x.id = r
Travels(r) == (\E c \in Conns : r \in Wired(c)) \/ \E x \in Framed : x.id = r

\* A request is nowhere twice on its way.
Once ==
    /\ \A c \in Conns : NoRepeat(toAgent[c])
    /\ NoRepeat(frames)
    /\ \A x, y \in Framed : x.id = y.id => x = y
    /\ \A c, d \in Conns : c # d => Wired(c) \cap Wired(d) = {}
    /\ \A c \in Conns, x \in Framed : x.id \notin Wired(c)

\* What a request's answer and its replies say of what was done, and that it is
\* on its way only between being sent and being carried out.
Fits(r) ==
    /\ request[r].at \in {"new", "reading"} =>
          request[r].answer = "none" /\ done[r] = 0 /\ ~Travels(r) /\ ~Replied(r)
    /\ Travels(r) => done[r] = 0 /\ ~Replied(r)
    /\ request[r].answer = "ok" => done[r] = 1
    /\ request[r].answer = "refused" => done[r] = 0 /\ ~Travels(r)
    /\ request[r].answer = "unsent" => done[r] = 0 /\ ~Travels(r)
    /\ \A c \in Conns : \A x \in Replies(c) :
          x.id = r => IF x.ok THEN done[r] = 1 ELSE done[r] = 0

\* Who waits, and on which connection.
Waiting ==
    /\ \A c \in Conns : socket[c] = "open" => registered = c
    /\ registered # 0 => socket[registered] \in {"open", "closing"}
    /\ \A r \in Requests :
          /\ r \in pending <=> request[r].at = "waiting"
          /\ request[r].at = "reading" => request[r].link \in Conns
          /\ r \in pending =>
                registered \in Conns /\ registered = request[r].link /\ r \in named[registered]

LinkInv == LinkTypeOK /\ Once /\ (\A r \in Requests : Fits(r)) /\ Waiting

Request == [at : {"new", "reading", "waiting", "over"}, link : 0 .. MaxConns,
            answer : {"none", "ok", "refused", "unsent", "unknown"}]
Reply == [id : Requests, ok : BOOLEAN]
Frame == [from : Conns, id : Requests]

\* A server and an agent that never met satisfy the invariant.
LEMMA LinkInitInv == LinkInit => LinkInv
<1> SUFFICES ASSUME LinkInit PROVE LinkInv
  OBVIOUS
<1> USE DEF LinkInit
<1>1. 0 \in 0 .. MaxConns /\ 0 \in 0 .. 1
  BY MaxConnsAssumption
<1>2. <<>> \in Seq(Requests) /\ <<>> \in Seq(Reply) /\ <<>> \in Seq(Frame)
  OBVIOUS
<1>3. LinkTypeOK
  BY <1>1, <1>2 DEF LinkTypeOK, Reply, Frame
<1>4. Once
  BY ElemsOfEmpty DEF Once, Wired, Framed
<1>5. \A r \in Requests : Fits(r)
  BY ElemsOfEmpty DEF Fits, Travels, Replied, Wired, Framed, Replies
<1>6. Waiting
  BY DEF Waiting, Conns
<1> QED
  BY <1>3, <1>4, <1>5, <1>6 DEF LinkInv

\* What settling a set of waiting requests leaves.
LEMMA SettleEnds ==
    ASSUME LinkTypeOK, Waiting, NEW rs, NEW a \in {"ok", "refused", "unknown"}, Settle(rs, a)
    PROVE  /\ request' \in [Requests -> Request] /\ pending' \subseteq Requests
           /\ named' \in [Conns -> SUBSET Requests]
           /\ \A r \in Requests : r \notin rs \cap pending => request'[r] = request[r]
           /\ \A r \in rs \cap pending : /\ request'[r].at = "over" /\ request'[r].answer = a
                                         /\ request'[r].link = request[r].link
           /\ pending' = pending \ rs
           /\ \A c \in Conns : \A r \in pending' : r \in named[c] => r \in named'[c]
           /\ \A r \in Requests : r \in pending' <=> request'[r].at = "waiting"
<1>1. /\ request \in [Requests -> Request] /\ pending \subseteq Requests /\ named \in [Conns -> SUBSET Requests]
  BY DEF LinkTypeOK, Request
<1>2. /\ pending' = pending \ rs
      /\ request' = [r \in Requests |-> IF r \in rs \cap pending
                                        THEN [request[r] EXCEPT !.at = "over", !.answer = a] ELSE request[r]]
      /\ named' = [c \in Conns |-> named[c] \ (rs \cap pending)]
  BY DEF Settle
<1>3. \A r \in Requests : r \notin rs \cap pending => request'[r] = request[r]
  BY <1>2
<1>4. ASSUME NEW r \in rs \cap pending
      PROVE  /\ request'[r] \in Request /\ request'[r].at = "over" /\ request'[r].answer = a
             /\ request'[r].link = request[r].link
  <2>1. r \in Requests /\ request[r] \in Request
    BY <1>1
  <2>2. request'[r] = [[request[r] EXCEPT !.at = "over"] EXCEPT !.answer = a]
    BY <1>2, <2>1
  <2> QED
    BY <2>1, <2>2 DEF Request
<1>5. request' \in [Requests -> Request]
  BY <1>1, <1>2, <1>3, <1>4
<1>6. named' \in [Conns -> SUBSET Requests] /\ \A c \in Conns : \A r \in pending' : r \in named[c] => r \in named'[c]
  BY <1>1, <1>2
<1>7. \A r \in Requests : r \in pending' <=> request'[r].at = "waiting"
  BY <1>2, <1>3, <1>4 DEF Waiting
<1> QED
  BY <1>1, <1>2, <1>3, <1>4, <1>5, <1>6, <1>7

\* A request no worse on its way than before, answered "unknown" at most.
LEMMA FitsKept ==
    ASSUME LinkTypeOK, NEW r \in Requests, Fits(r), done'[r] = done[r], Travels(r)' => Travels(r),
           \A c \in Conns : \A x \in Replies(c)' : x.id = r => \E d \in Conns : x \in Replies(d),
           request'[r] = request[r] \/ (request'[r].at = "over" /\ request'[r].answer = "unknown")
    PROVE  Fits(r)'
<1>1. Replied(r)' => Replied(r)
  BY DEF Replied
<1>2. \A c \in Conns : \A x \in Replies(c)' : x.id = r => IF x.ok THEN done[r] = 1 ELSE done[r] = 0
  BY DEF Fits
<1> QED
  BY <1>1, <1>2 DEF Fits

\* What is on its way is a matter of the wires and the frames alone.
LEMMA WiresSame ==
    ASSUME UNCHANGED <<wires, frames>>
    PROVE  /\ \A r \in Requests : Travels(r)' <=> Travels(r)
           /\ \A c \in Conns : Replies(c)' = Replies(c) /\ Wired(c)' = Wired(c)
           /\ Once => Once'
BY DEF wires, Travels, Replies, Wired, Framed, Once

\* Steps that leave the agent and the frames alone, and settle at most "unknown".
LEMMA FitsThrough ==
    ASSUME LinkTypeOK, \A r \in Requests : Fits(r), UNCHANGED <<wires, agent>>,
           \A r \in Requests : request'[r] = request[r]
                               \/ (request'[r].at = "over" /\ request'[r].answer = "unknown")
    PROVE  \A r \in Requests : Fits(r)'
<1>1. UNCHANGED <<wires, frames>> /\ done' = done
  BY DEF agent
<1> QED
  BY <1>1, WiresSame, FitsKept

\* Every step of a request, the link it travels and the agent keeps the invariant.
LEMMA LinkNextInv == LinkInv /\ [LinkNext]_linkVars => LinkInv'
<1> SUFFICES ASSUME LinkInv, [LinkNext]_linkVars
             PROVE  LinkInv'
  OBVIOUS
<1>0. /\ LinkTypeOK /\ Once /\ (\A r \in Requests : Fits(r)) /\ Waiting
      /\ request \in [Requests -> Request] /\ registered \in 0 .. MaxConns
  BY DEF LinkInv, LinkTypeOK, Request
<1>1. ASSUME NEW r \in Requests, ReadLink(r)
      PROVE  LinkInv'
  <2>1. /\ request[r].at = "new" /\ UNCHANGED <<pending, named, conns, wires, agent>>
        /\ \/ registered = 0 /\ request' = [request EXCEPT ![r].at = "over", ![r].answer = "unsent"]
           \/ registered # 0 /\ request' = [request EXCEPT ![r].at = "reading", ![r].link = registered]
    BY <1>1 DEF ReadLink, Refuse
  <2>2. /\ request' \in [Requests -> Request] /\ \A q \in Requests \ {r} : request'[q] = request[q]
        /\ \/ request'[r].at = "over" /\ request'[r].answer = "unsent"
           \/ /\ request'[r].at = "reading" /\ request'[r].answer = request[r].answer
              /\ request'[r].link = registered /\ registered \in Conns
    <3>1. request[r] \in Request
      BY <1>0
    <3>2. CASE registered = 0 /\ request' = [request EXCEPT ![r].at = "over", ![r].answer = "unsent"]
      <4>1. request'[r] = [at |-> "over", link |-> request[r].link, answer |-> "unsent"]
            /\ request' = [request EXCEPT ![r] = request'[r]]
        BY <1>0, <3>1, <3>2 DEF Request
      <4> QED
        BY <1>0, <3>1, <4>1 DEF Request
    <3>3. CASE registered # 0 /\ request' = [request EXCEPT ![r].at = "reading", ![r].link = registered]
      <4>1. request'[r] = [at |-> "reading", link |-> registered, answer |-> request[r].answer]
            /\ request' = [request EXCEPT ![r] = request'[r]]
        BY <1>0, <3>1, <3>3 DEF Request
      <4>2. registered \in Conns
        BY <1>0, <3>3, MaxConnsAssumption DEF Conns
      <4> QED
        BY <1>0, <3>1, <4>1, <4>2 DEF Request
    <3> QED
      BY <2>1, <3>2, <3>3
  <2>3. LinkTypeOK'
    BY <1>0, <2>1, <2>2 DEF LinkTypeOK, Request, conns, wires, agent
  <2>4. UNCHANGED <<wires, frames>> /\ done' = done
    BY <2>1 DEF agent
  <2>5. Once' /\ (\A q \in Requests : Travels(q)' <=> Travels(q))
        /\ \A c \in Conns : Replies(c)' = Replies(c)
    BY <1>0, <2>4, WiresSame
  <2>6. \A q \in Requests : Replied(q)' <=> Replied(q)
    BY <2>5 DEF Replied
  <2>7. Fits(r) /\ \A q \in Requests \ {r} : Fits(q)'
    BY <1>0, <2>2, <2>4, <2>5, <2>6 DEF Fits
  <2>8. Fits(r)'
    BY <2>1, <2>2, <2>4, <2>5, <2>6, <2>7 DEF Fits
  <2>9. Waiting'
    BY <1>0, <2>1, <2>2 DEF Waiting, conns
  <2> QED
    BY <2>3, <2>5, <2>7, <2>8, <2>9 DEF LinkInv
<1>2. ASSUME NEW r \in Requests, Send(r)
      PROVE  LinkInv'
  <2>1. request[r].at = "reading" /\ UNCHANGED <<conns, toServer, agent>>
    BY <1>2 DEF Send
  <2>2. PICK c \in Conns : /\ c = request[r].link /\ request[r] \in Request /\ ~Travels(r) /\ ~Replied(r)
                           /\ done[r] = 0 /\ request[r].answer = "none"
    BY <1>0, <2>1 DEF Waiting, Fits
  <2>3. CASE socket[c] # "open"
    <3>1. /\ request' = [request EXCEPT ![r].at = "over", ![r].answer = "unsent"]
          /\ UNCHANGED <<pending, named, toAgent>>
      BY <1>2, <2>2, <2>3 DEF Send, Refuse
    <3>2. /\ request'[r] = [at |-> "over", link |-> request[r].link, answer |-> "unsent"]
          /\ request' = [request EXCEPT ![r] = request'[r]]
      BY <1>0, <2>2, <3>1 DEF Request
    <3>3. /\ request' \in [Requests -> Request] /\ \A q \in Requests \ {r} : request'[q] = request[q]
          /\ request'[r].at = "over" /\ request'[r].answer = "unsent"
      BY <1>0, <2>2, <3>2 DEF Request
    <3>4. LinkTypeOK'
      BY <1>0, <2>1, <3>1, <3>3 DEF LinkTypeOK, Request, conns, agent
    <3>5. UNCHANGED <<wires, frames>> /\ done' = done
      BY <2>1, <3>1 DEF agent, wires
    <3>6. Once' /\ (\A q \in Requests : Travels(q)' <=> Travels(q))
          /\ \A d \in Conns : Replies(d)' = Replies(d)
      BY <1>0, <3>5, WiresSame
    <3>7. \A q \in Requests : Replied(q)' <=> Replied(q)
      BY <3>6 DEF Replied
    <3>8. \A q \in Requests : Fits(q)'
      BY <1>0, <2>2, <3>3, <3>5, <3>6, <3>7 DEF Fits
    <3>9. Waiting'
      BY <1>0, <2>1, <3>1, <3>3 DEF Waiting, conns
    <3> QED
      BY <3>4, <3>6, <3>8, <3>9 DEF LinkInv
  <2>4. CASE socket[c] = "open"
    <3>1. /\ request' = [request EXCEPT ![r].at = "waiting"]
          /\ pending' = pending \cup {r} /\ named' = [named EXCEPT ![c] = @ \cup {r}]
          /\ toAgent' = IF line = c THEN [toAgent EXCEPT ![c] = Append(@, r)] ELSE toAgent
      BY <1>2, <2>2, <2>4 DEF Send
    <3>2. /\ request'[r] = [request[r] EXCEPT !.at = "waiting"]
          /\ request' = [request EXCEPT ![r] = request'[r]]
      BY <1>0, <2>2, <3>1
    <3>3. /\ request' \in [Requests -> Request] /\ \A q \in Requests \ {r} : request'[q] = request[q]
          /\ request'[r].at = "waiting" /\ request'[r].answer = "none" /\ request'[r].link = c
      BY <1>0, <2>2, <3>2 DEF Request
    <3>4. /\ named' \in [Conns -> SUBSET Requests] /\ pending' \subseteq Requests
          /\ r \in named'[c] /\ \A d \in Conns : named[d] \subseteq named'[d]
      BY <1>0, <2>2, <3>1 DEF LinkTypeOK
    <3>5. /\ toAgent[c] \in Seq(Requests) /\ r \notin Wired(c)
          /\ \A d \in Conns : r \notin Wired(d) /\ \A x \in Framed : x.id # r
      BY <1>0, <2>2 DEF LinkTypeOK, Travels
    <3>6. /\ Append(toAgent[c], r) \in Seq(Requests)
          /\ Elems(Append(toAgent[c], r)) = Wired(c) \cup {r}
          /\ NoRepeat(toAgent[c]) => NoRepeat(Append(toAgent[c], r))
      BY <3>5, ElemsOfAppend DEF Wired
    <3>7. /\ toAgent' \in [Conns -> Seq(Requests)]
          /\ \A d \in Conns \ {c} : toAgent'[d] = toAgent[d]
          /\ toAgent'[c] = toAgent[c] \/ toAgent'[c] = Append(toAgent[c], r)
      BY <1>0, <2>2, <3>1, <3>6 DEF LinkTypeOK
    <3>8. LinkTypeOK'
      BY <1>0, <2>1, <3>3, <3>4, <3>7 DEF LinkTypeOK, Request, conns, agent
    <3>9. /\ \A d \in Conns \ {c} : Wired(d)' = Wired(d)
          /\ Wired(c)' = Wired(c) \/ Wired(c)' = Wired(c) \cup {r}
          /\ \A d \in Conns : NoRepeat(toAgent[d]) => NoRepeat(toAgent'[d])
          /\ frames' = frames /\ Framed' = Framed /\ done' = done
          /\ \A d \in Conns : Replies(d)' = Replies(d)
      BY <2>1, <3>6, <3>7 DEF Wired, Framed, Replies, agent
    <3>10. Once'
      BY <1>0, <3>5, <3>9 DEF Once
    <3>11. \A q \in Requests : Replied(q)' <=> Replied(q)
      BY <3>9 DEF Replied
    <3>12. \A q \in Requests \ {r} : Travels(q)' <=> Travels(q)
      BY <3>9 DEF Travels
    <3>13. \A q \in Requests \ {r} : Fits(q)'
      BY <1>0, <3>3, <3>9, <3>11, <3>12 DEF Fits
    <3>14. Fits(r)'
      BY <1>0, <2>2, <3>3, <3>9, <3>11 DEF Fits
    <3>15. registered = c
      BY <1>0, <2>2, <2>4 DEF Waiting
    <3>16. Waiting'
      BY <1>0, <2>1, <2>2, <3>1, <3>3, <3>4, <3>15 DEF Waiting, conns
    <3> QED
      BY <3>8, <3>10, <3>13, <3>14, <3>16 DEF LinkInv
  <2> QED
    BY <2>3, <2>4
<1>3. ASSUME NEW r \in Requests, Timeout(r)
      PROVE  LinkInv'
  <2>1. Settle({r}, "unknown") /\ UNCHANGED <<conns, wires, agent>>
    BY <1>3 DEF Timeout
  <2>2. /\ request' \in [Requests -> Request] /\ pending' \subseteq Requests
        /\ named' \in [Conns -> SUBSET Requests]
        /\ \A q \in Requests : q \notin {r} \cap pending => request'[q] = request[q]
        /\ \A q \in {r} \cap pending : /\ request'[q].at = "over" /\ request'[q].answer = "unknown"
                                       /\ request'[q].link = request[q].link
        /\ pending' = pending \ {r}
        /\ \A d \in Conns : \A q \in pending' : q \in named[d] => q \in named'[d]
        /\ \A q \in Requests : q \in pending' <=> request'[q].at = "waiting"
    BY <1>0, <2>1, SettleEnds
  <2>3. LinkTypeOK'
    BY <1>0, <2>1, <2>2 DEF LinkTypeOK, Request, conns, wires, agent
  <2>4. Once' /\ \A q \in Requests : Fits(q)'
    <3>1. UNCHANGED <<wires, frames>>
      BY <2>1 DEF agent
    <3>2. Once'
      BY <1>0, <3>1, WiresSame
    <3> QED
      BY <1>0, <2>1, <2>2, <3>2, FitsThrough
  <2>5. Waiting'
    BY <1>0, <2>1, <2>2 DEF Waiting, conns
  <2> QED
    BY <2>3, <2>4, <2>5 DEF LinkInv
<1>4. ASSUME NEW c \in Conns, OnReply(c)
      PROVE  LinkInv'
  <2>1. /\ toServer[c] # <<>> /\ toServer' = [toServer EXCEPT ![c] = Tail(@)]
        /\ UNCHANGED <<conns, toAgent, agent>>
    BY <1>4 DEF OnReply
  <2>2. toServer[c] \in Seq(Reply)
    BY <1>0 DEF LinkTypeOK, Reply
  <2>3. PICK x \in Reply :
           /\ x = Head(toServer[c]) /\ Tail(toServer[c]) \in Seq(Reply) /\ x \in Replies(c)
           /\ Elems(Tail(toServer[c])) \subseteq Replies(c)
    BY <2>1, <2>2, ElemsOfTail DEF Replies
  <2> DEFINE a == IF x.ok THEN "ok" ELSE "refused"
  <2>0. Settle({x.id}, a)
    BY <1>4, <2>3 DEF OnReply
  <2>4. a \in {"ok", "refused", "unknown"} /\ x.id \in Requests /\ Replied(x.id)
    BY <2>3 DEF Reply, Replied
  <2>5. done[x.id] = (IF x.ok THEN 1 ELSE 0) /\ ~Travels(x.id)
    BY <1>0, <2>3, <2>4 DEF Fits
  <2>6. a = (IF done[x.id] = 1 THEN "ok" ELSE "refused")
    BY <2>5
  <2> HIDE DEF a
  <2>7. /\ request' \in [Requests -> Request] /\ pending' \subseteq Requests
        /\ named' \in [Conns -> SUBSET Requests]
        /\ \A q \in Requests : q \notin {x.id} \cap pending => request'[q] = request[q]
        /\ \A q \in {x.id} \cap pending : /\ request'[q].at = "over" /\ request'[q].answer = a
                                          /\ request'[q].link = request[q].link
        /\ pending' = pending \ {x.id}
        /\ \A d \in Conns : \A q \in pending' : q \in named[d] => q \in named'[d]
        /\ \A q \in Requests : q \in pending' <=> request'[q].at = "waiting"
    BY <1>0, <2>0, <2>4, SettleEnds
  <2>8. /\ toServer' \in [Conns -> Seq(Reply)] /\ \A d \in Conns : Replies(d)' \subseteq Replies(d)
    BY <1>0, <2>1, <2>2, <2>3 DEF LinkTypeOK, Reply, Replies
  <2>9. LinkTypeOK'
    BY <1>0, <2>1, <2>7, <2>8 DEF LinkTypeOK, Request, Reply, conns, agent
  <2>10. /\ \A d \in Conns : Wired(d)' = Wired(d)
         /\ Framed' = Framed /\ frames' = frames /\ toAgent' = toAgent /\ done' = done
         /\ \A q \in Requests : (Travels(q)' <=> Travels(q)) /\ (Replied(q)' => Replied(q))
    BY <2>1, <2>8 DEF Wired, Framed, Travels, Replied, agent
  <2>11. Once'
    BY <1>0, <2>10 DEF Once
  <2>12. ASSUME NEW q \in Requests, q \notin {x.id} \cap pending
         PROVE  Fits(q)'
    <3>1. request'[q] = request[q]
      BY <2>7, <2>12
    <3> QED
      BY <1>0, <2>8, <2>10, <3>1, FitsKept
  <2>13. ASSUME x.id \in pending
         PROVE  Fits(x.id)'
    <3>1. request'[x.id].at = "over" /\ request'[x.id].answer = a
      BY <2>7, <2>13
    <3>2. done'[x.id] = done[x.id] /\ done[x.id] \in 0 .. 1 /\ ~Travels(x.id)'
      BY <1>0, <2>4, <2>5, <2>10 DEF LinkTypeOK
    <3>3. \A d \in Conns : \A y \in Replies(d)' : y.id = x.id => IF y.ok THEN done'[x.id] = 1 ELSE done'[x.id] = 0
      BY <1>0, <2>4, <2>8, <3>2 DEF Fits
    <3>4. done[x.id] = 0 \/ done[x.id] = 1
      BY <3>2
    <3> QED
      BY <2>6, <3>1, <3>2, <3>3, <3>4 DEF Fits
  <2>14. Waiting'
    BY <1>0, <2>1, <2>7 DEF Waiting, conns
  <2> QED
    BY <2>9, <2>11, <2>12, <2>13, <2>14 DEF LinkInv
<1>5. CASE OnHello
  <2> DEFINE c == dialled + 1
  <2>1. /\ line = 0 /\ dialled < MaxConns /\ dialled' = c /\ line' = c /\ registered' = c
        /\ socket' = [k \in Conns |-> IF k = c THEN "open" ELSE IF k = registered THEN "closing" ELSE socket[k]]
        /\ UNCHANGED <<wires, agent>>
    BY <1>5 DEF OnHello
  <2>2. c \in Conns /\ c \in 0 .. MaxConns
    BY <1>0, <2>1, MaxConnsAssumption DEF LinkTypeOK, Conns
  <2>3. socket' \in [Conns -> {"none", "open", "closing", "closed"}]
    BY <1>0, <2>1 DEF LinkTypeOK
  <2>4. /\ request' \in [Requests -> Request] /\ pending' = {}
        /\ named' \in [Conns -> SUBSET Requests]
        /\ \A q \in Requests : request'[q] = request[q]
                \/ (request'[q].at = "over" /\ request'[q].answer = "unknown" /\ request'[q].link = request[q].link)
        /\ \A q \in Requests : q \in pending' <=> request'[q].at = "waiting"
    <3>1. CASE registered = 0
      <4>1. UNCHANGED <<request, pending, named>>
        BY <1>5, <3>1 DEF OnHello, waits
      <4>2. pending = {}
        BY <1>0, <3>1 DEF Waiting, LinkTypeOK, Conns
      <4> QED
        BY <1>0, <4>1, <4>2 DEF LinkTypeOK, Waiting
    <3>2. CASE registered # 0
      <4>1. Settle(named[registered], "unknown") /\ pending \subseteq named[registered]
        BY <1>0, <1>5, <3>2 DEF OnHello, Waiting, LinkTypeOK
      <4> QED
        BY <1>0, <4>1, SettleEnds
    <3> QED
      BY <3>1, <3>2
  <2>5. LinkTypeOK'
    BY <1>0, <2>1, <2>2, <2>3, <2>4 DEF LinkTypeOK, Request, wires, agent
  <2>6. Once' /\ \A q \in Requests : Fits(q)'
    <3>1. UNCHANGED <<wires, frames>>
      BY <2>1 DEF agent
    <3>2. Once'
      BY <1>0, <3>1, WiresSame
    <3> QED
      BY <1>0, <2>1, <2>4, <3>2, FitsThrough
  <2>7. Waiting'
    <3>1. \A k \in Conns : socket'[k] = "open" => k = c
      BY <1>0, <2>1 DEF Waiting
    <3>2. socket'[c] = "open"
      BY <2>1, <2>2
    <3>3. \A q \in Requests : request'[q].at = "reading" => request'[q].link \in Conns
      BY <1>0, <2>4 DEF Waiting
    <3> QED
      BY <2>1, <2>4, <3>1, <3>2, <3>3 DEF Waiting
  <2> QED
    BY <2>5, <2>6, <2>7 DEF LinkInv
<1>6. ASSUME NEW c \in Conns, CloseLink(c)
      PROVE  LinkInv'
  <2>1. /\ socket[c] = "open" /\ socket' = [socket EXCEPT ![c] = "closing"]
        /\ UNCHANGED <<waits, registered, dialled, line, wires, agent>>
    BY <1>6 DEF CloseLink
  <2>2. LinkTypeOK'
    BY <1>0, <2>1 DEF LinkTypeOK, waits, wires, agent
  <2>3. Once' /\ \A q \in Requests : Fits(q)'
    <3>1. UNCHANGED <<wires, frames>> /\ request' = request
      BY <2>1 DEF agent, waits
    <3>2. Once'
      BY <1>0, <3>1, WiresSame
    <3> QED
      BY <1>0, <2>1, <3>1, <3>2, FitsThrough
  <2>4. Waiting'
    <3>1. \A k \in Conns : socket'[k] = IF k = c THEN "closing" ELSE socket[k]
      BY <1>0, <2>1 DEF LinkTypeOK
    <3>2. registered = c
      BY <1>0, <2>1 DEF Waiting
    <3> QED
      BY <1>0, <2>1, <3>1, <3>2 DEF Waiting, waits
  <2> QED
    BY <2>2, <2>3, <2>4 DEF LinkInv
<1>7. ASSUME NEW c \in Conns, OnClose(c)
      PROVE  LinkInv'
  <2>1. /\ socket' = [socket EXCEPT ![c] = "closed"] /\ toServer' = [toServer EXCEPT ![c] = <<>>]
        /\ UNCHANGED <<dialled, line, toAgent, agent>>
    BY <1>7 DEF OnClose
  <2>2. /\ request' \in [Requests -> Request] /\ pending' \subseteq pending
        /\ named' \in [Conns -> SUBSET Requests]
        /\ \A q \in Requests : request'[q] = request[q]
                \/ (request'[q].at = "over" /\ request'[q].answer = "unknown" /\ request'[q].link = request[q].link)
        /\ \A q \in Requests : q \in pending' <=> request'[q].at = "waiting"
        /\ \/ registered = c /\ registered' = 0 /\ pending' = {}
           \/ registered # c /\ registered' = registered /\ named' = named /\ pending' = pending /\ request' = request
    <3>1. CASE registered = c
      <4>1. registered' = 0 /\ Settle(named[c], "unknown") /\ pending \subseteq named[c]
        BY <1>0, <1>7, <3>1 DEF OnClose, Waiting, LinkTypeOK
      <4> QED
        BY <1>0, <3>1, <4>1, SettleEnds
    <3>2. CASE registered # c
      BY <1>0, <1>7, <3>2 DEF OnClose, waits, LinkTypeOK, Waiting
    <3> QED
      BY <3>1, <3>2
  <2>3. <<>> \in Seq(Reply) /\ Elems(<<>>) = {}
    BY ElemsOfEmpty
  <2>4. toServer' \in [Conns -> Seq(Reply)] /\ \A d \in Conns : Replies(d)' \subseteq Replies(d)
    BY <1>0, <2>1, <2>3 DEF LinkTypeOK, Reply, Replies
  <2>5. LinkTypeOK'
    <3>1. registered' \in 0 .. MaxConns
      BY <1>0, <2>2, MaxConnsAssumption
    <3>2. pending' \subseteq Requests
      BY <1>0, <2>2 DEF LinkTypeOK
    <3>3. socket' \in [Conns -> {"none", "open", "closing", "closed"}]
      BY <1>0, <2>1 DEF LinkTypeOK
    <3>4. {registered', dialled', line'} \subseteq 0 .. MaxConns
      BY <1>0, <2>1, <3>1 DEF LinkTypeOK
    <3>5. /\ request' \in [Requests -> Request] /\ named' \in [Conns -> SUBSET Requests]
          /\ toServer' \in [Conns -> Seq(Reply)]
      BY <2>2, <2>4
    <3>6. toAgent' = toAgent /\ frames' = frames /\ done' = done
      BY <2>1 DEF agent
    <3> QED
      BY <1>0, <3>2, <3>3, <3>4, <3>5, <3>6 DEF LinkTypeOK, Request, Reply
  <2>6. /\ \A d \in Conns : Wired(d)' = Wired(d)
        /\ Framed' = Framed /\ frames' = frames /\ toAgent' = toAgent /\ done' = done
        /\ \A q \in Requests : Travels(q)' <=> Travels(q)
    BY <2>1 DEF Wired, Framed, Travels, agent
  <2>7. Once'
    BY <1>0, <2>6 DEF Once
  <2>8. \A q \in Requests : Fits(q)'
    BY <1>0, <2>2, <2>4, <2>6, FitsKept
  <2>9. Waiting'
    <3>1. \A k \in Conns : socket'[k] = IF k = c THEN "closed" ELSE socket[k]
      BY <1>0, <2>1 DEF LinkTypeOK
    <3>2. \A k \in Conns : socket'[k] = "open" => registered' = k
      BY <1>0, <2>2, <3>1 DEF Waiting
    <3>3. registered' # 0 => socket'[registered'] \in {"open", "closing"}
      BY <1>0, <2>2, <3>1, MaxConnsAssumption DEF Waiting, Conns
    <3>4. \A q \in Requests : request'[q].at = "reading" => request'[q].link \in Conns
      BY <1>0, <2>2 DEF Waiting
    <3>5. \A q \in pending' : registered' \in Conns /\ registered' = request'[q].link /\ q \in named'[registered']
      BY <1>0, <2>2 DEF Waiting, LinkTypeOK
    <3> QED
      BY <2>2, <3>2, <3>3, <3>4, <3>5 DEF Waiting
  <2> QED
    BY <2>5, <2>7, <2>8, <2>9 DEF LinkInv
<1>8. CASE Drop
  <2>1. /\ line # 0 /\ line' = 0 /\ toAgent' = [toAgent EXCEPT ![line] = <<>>]
        /\ UNCHANGED <<waits, registered, socket, dialled, toServer, agent>>
    BY <1>8 DEF Drop
  <2>2. <<>> \in Seq(Requests) /\ Elems(<<>>) = {} /\ NoRepeat(<<>>)
    BY ElemsOfEmpty
  <2>3. /\ toAgent' \in [Conns -> Seq(Requests)]
        /\ \A d \in Conns : toAgent'[d] = toAgent[d] \/ toAgent'[d] = <<>>
    BY <1>0, <2>1, <2>2 DEF LinkTypeOK
  <2>4. LinkTypeOK'
    <3>1. 0 \in 0 .. MaxConns
      BY MaxConnsAssumption
    <3> QED
      BY <1>0, <2>1, <2>3, <3>1 DEF LinkTypeOK, waits, agent
  <2>5. /\ \A d \in Conns : Wired(d)' \subseteq Wired(d)
        /\ \A d \in Conns : NoRepeat(toAgent[d]) => NoRepeat(toAgent'[d])
        /\ Framed' = Framed /\ frames' = frames /\ done' = done /\ request' = request
        /\ \A d \in Conns : Replies(d)' = Replies(d)
    BY <2>1, <2>2, <2>3 DEF Wired, Framed, Replies, agent, waits
  <2>6. Once'
    BY <1>0, <2>5 DEF Once
  <2>7. \A q \in Requests : Travels(q)' => Travels(q)
    BY <2>5 DEF Travels
  <2>8. \A q \in Requests : Fits(q)'
    BY <1>0, <2>5, <2>7, FitsKept
  <2>9. Waiting'
    BY <1>0, <2>1 DEF Waiting, waits
  <2> QED
    BY <2>4, <2>6, <2>8, <2>9 DEF LinkInv
<1>9. CASE OnText
  <2> DEFINE r == Head(toAgent[line])
             f == [from |-> line, id |-> r]
  <2>1. /\ line # 0 /\ toAgent[line] # <<>> /\ frames' = Append(frames, f)
        /\ toAgent' = [toAgent EXCEPT ![line] = Tail(@)]
        /\ UNCHANGED <<waits, conns, toServer, done>>
    BY <1>9 DEF OnText
  <2>2. line \in Conns /\ toAgent[line] \in Seq(Requests) /\ frames \in Seq(Frame)
    BY <1>0, <2>1, MaxConnsAssumption DEF LinkTypeOK, Conns, Frame
  <2>3. /\ r \in Requests /\ Tail(toAgent[line]) \in Seq(Requests) /\ r \in Wired(line)
        /\ NoRepeat(Tail(toAgent[line])) /\ Elems(Tail(toAgent[line])) = Wired(line) \ {r}
    BY <1>0, <2>1, <2>2, ElemsOfTail DEF Once, Wired
  <2>4. f \in Frame /\ f.id = r
    BY <2>2, <2>3 DEF Frame
  <2> HIDE DEF f, r
  <2>5. \A x \in Framed : x.id # r
    BY <1>0, <2>2, <2>3 DEF Once
  <2>6. /\ frames' \in Seq(Frame) /\ Framed' = Framed \cup {f} /\ NoRepeat(frames')
    <3>1. f \notin Framed /\ NoRepeat(frames)
      BY <1>0, <2>4, <2>5 DEF Once
    <3> QED
      BY <2>1, <2>2, <2>4, <3>1, ElemsOfAppend DEF Framed
  <2>7. /\ toAgent' \in [Conns -> Seq(Requests)] /\ toAgent'[line] = Tail(toAgent[line])
        /\ \A d \in Conns \ {line} : toAgent'[d] = toAgent[d]
    BY <1>0, <2>1, <2>2, <2>3 DEF LinkTypeOK
  <2>8. LinkTypeOK'
    BY <1>0, <2>1, <2>6, <2>7 DEF LinkTypeOK, Frame, waits, conns
  <2>9. /\ Wired(line)' = Wired(line) \ {r} /\ \A d \in Conns \ {line} : Wired(d)' = Wired(d)
        /\ \A d \in Conns : NoRepeat(toAgent'[d])
        /\ \A d \in Conns : Replies(d)' = Replies(d)
    <3>1. Wired(line)' = Elems(Tail(toAgent[line]))
      <4>1. line' = line
        BY <2>1 DEF conns
      <4> QED
        BY <2>7, <4>1 DEF Wired
    <3>2. \A d \in Conns \ {line} : Wired(d)' = Wired(d)
      BY <2>7 DEF Wired
    <3> QED
      BY <1>0, <2>1, <2>3, <2>7, <3>1, <3>2 DEF Once, Replies
  <2>10. line' = line /\ \A d \in Conns : Wired(d)' \subseteq Wired(d) /\ r \notin Wired(d)'
    <3>1. line' = line
      BY <2>1 DEF conns
    <3>2. \A d \in Conns \ {line} : r \notin Wired(d)
      BY <1>0, <2>2, <2>3 DEF Once
    <3> QED
      BY <2>9, <3>1, <3>2
  <2>11. Once'
    BY <1>0, <2>4, <2>5, <2>6, <2>9, <2>10 DEF Once
  <2>12. Travels(r) /\ \A q \in Requests : Travels(q)' => Travels(q)
    BY <2>2, <2>3, <2>4, <2>6, <2>10 DEF Travels
  <2>13. \A q \in Requests : Fits(q)'
    <3>1. request' = request /\ done' = done
      BY <2>1 DEF waits
    <3> QED
      BY <1>0, <2>9, <2>12, <3>1, FitsKept
  <2>14. Waiting'
    BY <1>0, <2>1 DEF Waiting, waits, conns
  <2> QED
    BY <2>8, <2>11, <2>13, <2>14 DEF LinkInv
<1>10. CASE CarryOut
  <2>2. frames # <<>> /\ frames' = Tail(frames) /\ UNCHANGED <<waits, conns, toAgent>>
    BY <1>10 DEF CarryOut
  <2>3. frames \in Seq(Frame) /\ NoRepeat(frames)
    BY <1>0 DEF LinkTypeOK, Frame, Once
  <2>4. PICK f \in Frame :
           /\ f = Head(frames) /\ frames' \in Seq(Frame) /\ f \in Framed
           /\ NoRepeat(frames') /\ Framed' = Framed \ {f}
    BY <2>2, <2>3, ElemsOfTail DEF Framed
  <2> DEFINE r == f.id
  <2>1. PICK ok \in BOOLEAN :
           /\ done' = IF ok THEN [done EXCEPT ![r] = @ + 1] ELSE done
           /\ toServer' = IF line = 0 THEN toServer
                          ELSE [toServer EXCEPT ![line] = Append(@, [id |-> r, ok |-> ok])]
    BY <1>10, <2>4 DEF CarryOut
  <2>5. r \in Requests /\ Travels(r)
    BY <2>4 DEF Frame, Travels
  <2>6. done[r] = 0 /\ ~Replied(r) /\ request[r].at \notin {"new", "reading"}
        /\ request[r].answer \notin {"ok", "refused", "unsent"}
    BY <1>0, <2>5 DEF Fits
  <2>7. (\A x \in Framed' : x.id # r) /\ \A d \in Conns : Wired(d)' = Wired(d) /\ r \notin Wired(d)
    BY <1>0, <2>2, <2>4 DEF Once, Wired
  <2> DEFINE y == [id |-> r, ok |-> ok]
  <2>8. y \in Reply /\ y.id = r /\ y.ok = ok
    BY <2>5 DEF Reply
  <2>9. done' \in [Requests -> 0 .. 1] /\ done'[r] = (IF ok THEN 1 ELSE 0)
        /\ \A q \in Requests \ {r} : done'[q] = done[q]
    <3>1. CASE ok
      BY <1>0, <2>1, <2>5, <2>6, <3>1 DEF LinkTypeOK
    <3>2. CASE ~ok
      BY <1>0, <2>1, <2>6, <3>2 DEF LinkTypeOK
    <3> QED
      BY <3>1, <3>2
  <2> HIDE DEF y, r
  <2>10. /\ toServer' \in [Conns -> Seq(Reply)]
         /\ \A d \in Conns : Replies(d)' = Replies(d) \/ Replies(d)' = Replies(d) \cup {y}
    <3>1. CASE line = 0
      BY <1>0, <2>1, <3>1 DEF LinkTypeOK, Reply, Replies
    <3>2. CASE line # 0
      <4>1. line \in Conns /\ toServer[line] \in Seq(Reply) /\ toServer' = [toServer EXCEPT ![line] = Append(@, y)]
        <5>1. line \in Conns
          BY <1>0, <3>2, MaxConnsAssumption DEF LinkTypeOK, Conns
        <5>2. toServer[line] \in Seq(Reply)
          BY <1>0, <5>1 DEF LinkTypeOK, Reply
        <5> QED
          BY <2>1, <3>2, <5>1, <5>2 DEF y
      <4>2. Append(toServer[line], y) \in Seq(Reply) /\ Elems(Append(toServer[line], y)) = Elems(toServer[line]) \cup {y}
        BY <2>8, <4>1, ElemsOfAppend
      <4> QED
        BY <1>0, <4>1, <4>2 DEF LinkTypeOK, Reply, Replies
    <3> QED
      BY <3>1, <3>2
  <2>11. LinkTypeOK'
    BY <1>0, <2>2, <2>4, <2>9, <2>10 DEF LinkTypeOK, Frame, Reply, waits, conns
  <2>12. Once'
    BY <1>0, <2>2, <2>4, <2>7 DEF Once
  <2>13. /\ \A q \in Requests : Travels(q)' => Travels(q) /\ q # r
         /\ \A q \in Requests : q # r => (Replied(q)' <=> Replied(q))
         /\ request' = request
    BY <2>2, <2>4, <2>7, <2>8, <2>10 DEF Travels, Replied, waits
  <2>14. ASSUME NEW q \in Requests, q # r
         PROVE  Fits(q)'
    <3>1. \A d \in Conns : \A x \in Replies(d)' : x.id = q => x \in Replies(d)
      BY <2>8, <2>10, <2>14
    <3> QED
      BY <1>0, <2>9, <2>13, <2>14, <3>1, FitsKept
  <2>15. Fits(r)'
    <3>1. \A d \in Conns : \A x \in Replies(d)' : x.id = r => x = y
      BY <2>6, <2>10 DEF Replied
    <3>2. \A d \in Conns : \A x \in Replies(d)' : x.id = r => IF x.ok THEN done'[r] = 1 ELSE done'[r] = 0
      BY <2>8, <2>9, <3>1
    <3> QED
      BY <2>5, <2>6, <2>13, <3>2 DEF Fits
  <2>16. Waiting'
    BY <1>0, <2>2 DEF Waiting, waits, conns
  <2> QED
    BY <2>11, <2>12, <2>14, <2>15, <2>16 DEF LinkInv
<1>11. CASE UNCHANGED linkVars
  <2>1. UNCHANGED <<wires, frames>> /\ UNCHANGED <<wires, agent>> /\ request' = request /\ UNCHANGED <<waits, conns>>
    BY <1>11 DEF linkVars, wires, agent, waits, conns
  <2>2. LinkTypeOK' /\ Waiting'
    BY <1>0, <2>1 DEF LinkTypeOK, Waiting, waits, conns, wires, agent
  <2>3. Once' /\ \A q \in Requests : Fits(q)'
    BY <1>0, <2>1, WiresSame, FitsThrough
  <2> QED
    BY <2>2, <2>3 DEF LinkInv
<1> QED
  BY <1>1, <1>2, <1>3, <1>4, <1>5, <1>6, <1>7, <1>8, <1>9, <1>10, <1>11 DEF LinkNext

\* However many requests and connections, an answer says what was done: "ok" only of
\* a command that ran, a refusal or "not sent" only of one that never will.
THEOREM AnswersStayTrue == LinkSpec => []AnswersAreTrue
<1>1. LinkInv => AnswersAreTrue
  <2> SUFFICES ASSUME LinkInv, NEW r \in Requests
               PROVE  /\ request[r].answer = "ok" => done[r] = 1
                      /\ request[r].answer = "refused" => done[r] = 0
                      /\ request[r].answer = "unsent" => done[r] = 0 /\ ~InFlight(r)
                      /\ r \in pending <=> request[r].at = "waiting"
                      /\ r \in pending => /\ registered = request[r].link
                                          /\ r \in named[registered]
                                          /\ socket[registered] \in {"open", "closing"}
    BY DEF AnswersAreTrue
  <2>1. InFlight(r) => Travels(r)
    BY DEF InFlight, Travels, Wired, Framed, Elems
  <2>2. Fits(r) /\ Waiting
    BY DEF LinkInv
  <2>3. r \in pending => registered # 0
    BY <2>2 DEF Waiting, Conns
  <2> QED
    BY <2>1, <2>2, <2>3 DEF Fits, Waiting
<1> QED
  BY <1>1, LinkInitInv, LinkNextInv, PTL DEF LinkSpec

-----------------------------------------------------------------------------
(* The serial port. *)

SerialHandler == [status : Statuses, fd : 0 .. MaxPlugs, loop : Loops,
                  known : Printers \cup {NoPrinter}, down : BOOLEAN]

\* Who may still be opened was not shut down; who was, and not under a connect,
\* is on no way to one: not its loop, and not a console command.
RetiredIsLeft ==
    /\ current # 0 => ~handler[current].down
    /\ \A h \in Handlers : h > made => ~handler[h].down
    /\ \A h \in Handlers \ overtaken :
          handler[h].down => handler[h].fd = 0 /\ handler[h].loop # "connecting" /\ console # h

SerialInv == SerialTypeOK /\ RetiredIsLeft

\* A process that opened nothing satisfies the invariant.
LEMMA SerialInitInv == SerialInit => SerialInv
<1> SUFFICES ASSUME SerialInit PROVE SerialInv
  OBVIOUS
<1> USE DEF SerialInit
<1>1. plugged \in Seq(Printers) /\ Len(plugged) = 1
  OBVIOUS
<1>2. 0 \in 0 .. MaxPlugs /\ 0 \in 0 .. MaxHandlers /\ 1 \in 1 .. MaxPlugs
  BY PortBoundsAssumption
<1>3. SerialTypeOK
  <2>1. handler \in [Handlers -> [status : Statuses, fd : 0 .. MaxPlugs, loop : Loops,
                                  known : Printers \cup {NoPrinter}, down : BOOLEAN]]
    BY <1>2 DEF Statuses, Loops
  <2>2. plugged \in Seq(Printers) /\ Len(plugged) \in 1 .. MaxPlugs
    BY <1>1, <1>2
  <2>3. present \in BOOLEAN /\ applying \in BOOLEAN
    OBVIOUS
  <2>4. {made, current, console} \subseteq 0 .. MaxHandlers /\ current <= made
    BY <1>2
  <2>5. overtaken \cup missed \subseteq Handlers
    OBVIOUS
  <2> HIDE DEF SerialInit
  <2> QED
    BY <2>1, <2>2, <2>3, <2>4, <2>5 DEF SerialTypeOK
<1>4. RetiredIsLeft
  BY DEF RetiredIsLeft
<1> QED
  BY <1>3, <1>4 DEF SerialInv

(* What the methods make of a handler. *)

\* A connect changes a handler's status and its port, never that it was shut down.
LEMMA ConnectedKeeps ==
    ASSUME SerialTypeOK, NEW h \in Handlers
    PROVE  /\ Connected(h) \in SerialHandler
           /\ Connected(h).down = handler[h].down /\ Connected(h).loop = handler[h].loop
<1>1. handler[h] \in SerialHandler
  BY DEF SerialTypeOK, SerialHandler
<1>2. Plug \in 0 .. MaxPlugs /\ plugged[Plug] \in Printers
  BY PortBoundsAssumption DEF SerialTypeOK, Plug
<1>3. \/ Connected(h) = handler[h]
      \/ Connected(h) = [handler[h] EXCEPT !.status = "NO_DEVICE"]
      \/ Connected(h) = [handler[h] EXCEPT !.status = "FAILED_TO_CONNECT"]
      \/ Connected(h) = [handler[h] EXCEPT !.status = "CONNECTED", !.fd = Plug, !.known = plugged[Plug]]
  BY DEF Connected
<1>4. CASE Connected(h) = handler[h]
  BY <1>1, <1>4
<1>5. CASE Connected(h) = [handler[h] EXCEPT !.status = "NO_DEVICE"]
  BY <1>1, <1>5 DEF SerialHandler, Statuses
<1>6. CASE Connected(h) = [handler[h] EXCEPT !.status = "FAILED_TO_CONNECT"]
  BY <1>1, <1>6 DEF SerialHandler, Statuses
<1>7. CASE Connected(h) = [handler[h] EXCEPT !.status = "CONNECTED", !.fd = Plug, !.known = plugged[Plug]]
  <2>1. Connected(h) = [status |-> "CONNECTED", fd |-> Plug, loop |-> handler[h].loop,
                        known |-> plugged[Plug], down |-> handler[h].down]
    BY <1>1, <1>7 DEF SerialHandler
  <2> QED
    BY <1>1, <1>2, <2>1 DEF SerialHandler, Statuses
<1> QED
  BY <1>3, <1>4, <1>5, <1>6, <1>7

\* A close lets go of the port.
LEMMA ClosedKeeps ==
    ASSUME NEW r \in SerialHandler, NEW status \in Statuses
    PROVE  /\ Closed(r, status) \in SerialHandler /\ Closed(r, status).fd = 0
           /\ Closed(r, status).down = r.down /\ Closed(r, status).loop = r.loop
<1>1. Closed(r, status) = [status |-> status, fd |-> 0, loop |-> r.loop, known |-> r.known, down |-> r.down]
  <2>1. Closed(r, status) = [[r EXCEPT !.fd = 0] EXCEPT !.status = status]
    BY DEF Closed
  <2>2. [r EXCEPT !.fd = 0] = [status |-> r.status, fd |-> 0, loop |-> r.loop, known |-> r.known, down |-> r.down]
    BY DEF SerialHandler
  <2> QED
    BY <2>1, <2>2
<1>2. 0 \in 0 .. MaxPlugs
  BY PortBoundsAssumption
<1> QED
  BY <1>1, <1>2 DEF SerialHandler

\* Starting the loop leaves the port alone.
LEMMA RetryingKeeps ==
    ASSUME NEW r \in SerialHandler
    PROVE  /\ Retrying(r) \in SerialHandler /\ Retrying(r).fd = r.fd /\ Retrying(r).down = r.down
           /\ Retrying(r).loop # "connecting" \/ Retrying(r).loop = r.loop
BY DEF Retrying, SerialHandler, Loops

\* An opened port is one that was plugged in.
LEMMA OpenedKeeps ==
    ASSUME SerialTypeOK, NEW h \in Handlers
    PROVE  Opened(h) \in SerialHandler /\ Opened(h).down = handler[h].down
<1>1. Connected(h) \in SerialHandler /\ Connected(h).down = handler[h].down
  BY ConnectedKeeps
<1>2. Retrying(Connected(h)) \in SerialHandler /\ Retrying(Connected(h)).down = handler[h].down
  BY <1>1, RetryingKeeps
<1> QED
  BY <1>1, <1>2 DEF Opened

\* A lost port is let go of.
LEMMA LostKeeps ==
    ASSUME SerialTypeOK, NEW h \in Handlers
    PROVE  /\ Lost(h) \in SerialHandler /\ Lost(h).fd = 0 /\ Lost(h).down = handler[h].down
           /\ Lost(h).loop # "connecting" \/ Lost(h).loop = handler[h].loop
<1>1. handler[h] \in SerialHandler /\ "NO_DEVICE" \in Statuses
  BY DEF SerialTypeOK, SerialHandler, Statuses
<1>2. /\ Closed(handler[h], "NO_DEVICE") \in SerialHandler /\ Closed(handler[h], "NO_DEVICE").fd = 0
      /\ Closed(handler[h], "NO_DEVICE").down = handler[h].down
      /\ Closed(handler[h], "NO_DEVICE").loop = handler[h].loop
  BY <1>1, ClosedKeeps
<1> QED
  BY <1>2, RetryingKeeps DEF Lost

\* A handler that was not shut down may become anything; one that was stays
\* shut, and off the way to a connect.
LEMMA BecomesInv ==
    ASSUME SerialInv, NEW h \in Handlers, NEW r \in SerialHandler,
           handler' = [handler EXCEPT ![h] = r], missed' \subseteq missed \cup {h},
           UNCHANGED <<device, made, current, applying, overtaken>>, console' \in {0, console},
           r.down = handler[h].down,
           h \notin overtaken /\ handler[h].down => r.fd = 0 /\ r.loop # "connecting"
    PROVE  SerialInv'
<1>1. SerialTypeOK /\ RetiredIsLeft /\ handler \in [Handlers -> SerialHandler]
  BY DEF SerialInv, SerialTypeOK, SerialHandler
<1>2. handler' \in [Handlers -> SerialHandler] /\ handler'[h] = r /\ \A k \in Handlers \ {h} : handler'[k] = handler[k]
  BY <1>1
<1>3. overtaken' \cup missed' \subseteq Handlers
  BY <1>1 DEF SerialTypeOK
<1>4. {made', current', console'} \subseteq 0 .. MaxHandlers
  BY <1>1, PortBoundsAssumption DEF SerialTypeOK
<1>5. SerialTypeOK'
  BY <1>1, <1>2, <1>3, <1>4 DEF SerialTypeOK, SerialHandler, device
<1>6. \A k \in Handlers : handler'[k].down = handler[k].down
  BY <1>2
<1>7. current # 0 => current \in Handlers
  BY <1>1, PortBoundsAssumption DEF SerialTypeOK, Handlers
<1>8. RetiredIsLeft'
  <2>1. current' # 0 => ~handler'[current'].down
    BY <1>1, <1>6, <1>7 DEF RetiredIsLeft
  <2>2. \A k \in Handlers : k > made' => ~handler'[k].down
    BY <1>1, <1>6 DEF RetiredIsLeft
  <2>3. ASSUME NEW k \in Handlers \ overtaken', handler'[k].down
        PROVE  handler'[k].fd = 0 /\ handler'[k].loop # "connecting" /\ console' # k
    <3>1. handler[k].down /\ k \notin overtaken /\ console # k /\ handler[k].fd = 0 /\ handler[k].loop # "connecting"
      BY <1>1, <1>6, <2>3 DEF RetiredIsLeft
    <3>2. k # 0
      BY DEF Handlers
    <3> QED
      BY <1>2, <3>1, <3>2
  <2> QED
    BY <2>1, <2>2, <2>3 DEF RetiredIsLeft
<1> QED
  BY <1>5, <1>8 DEF SerialInv

\* A step of one handler's loop, which shuts nobody down, keeps the invariant.
LEMMA LoopGoesInv ==
    ASSUME SerialInv, NEW h \in Handlers, NEW from, NEW to \in Loops, LoopGoes(h, from, to),
           handler[h].down => to # "connecting"
    PROVE  SerialInv'
<1>1. handler[h] \in SerialHandler /\ handler' = [handler EXCEPT ![h].loop = to]
  BY DEF SerialInv, SerialTypeOK, SerialHandler, LoopGoes
<1> DEFINE r == [handler[h] EXCEPT !.loop = to]
<1>2. r \in SerialHandler /\ r.down = handler[h].down /\ r.fd = handler[h].fd /\ r.loop = to
  BY <1>1 DEF SerialHandler
<1>3. handler' = [handler EXCEPT ![h] = r]
  BY <1>1
<1>4. h \notin overtaken /\ handler[h].down => handler[h].fd = 0
  BY DEF SerialInv, RetiredIsLeft
<1> HIDE DEF r
<1>5. missed' \subseteq missed \cup {h} /\ console' \in {0, console} /\ UNCHANGED <<device, made, current, applying, overtaken>>
  BY DEF LoopGoes
<1> QED
  BY <1>2, <1>3, <1>4, <1>5, BecomesInv

\* Every step of the handlers, their loops, the console and the plug keeps the
\* invariant.
LEMMA SerialNextInv == SerialInv /\ [SerialNext]_serialVars => SerialInv'
<1> SUFFICES ASSUME SerialInv, [SerialNext]_serialVars
             PROVE  SerialInv'
  OBVIOUS
<1>0. /\ SerialTypeOK /\ RetiredIsLeft /\ handler \in [Handlers -> SerialHandler]
      /\ current # 0 => current \in Handlers
      /\ console # 0 => console \in Handlers
  <2>1. /\ SerialTypeOK /\ RetiredIsLeft /\ handler \in [Handlers -> SerialHandler]
        /\ current \in 0 .. MaxHandlers /\ console \in 0 .. MaxHandlers
    BY DEF SerialInv, SerialTypeOK, SerialHandler
  <2>2. \A k \in 0 .. MaxHandlers : k # 0 => k \in Handlers
    BY PortBoundsAssumption DEF Handlers
  <2> QED
    BY <2>1, <2>2
<1>1. CASE current = 0 /\ Open /\ applying' = FALSE
  <2> DEFINE n == made + 1
  <2>1. /\ made < MaxHandlers /\ made' = n /\ current' = n
        /\ handler' = [handler EXCEPT ![n] = Opened(n)]
        /\ UNCHANGED <<device, console, overtaken, missed>>
    BY <1>1 DEF Open
  <2>2. n \in Handlers /\ made \in Nat /\ n \in 0 .. MaxHandlers /\ n > made
    BY <1>0, <2>1, PortBoundsAssumption DEF SerialTypeOK, Handlers
  <2>3. Opened(n) \in SerialHandler /\ Opened(n).down = handler[n].down /\ ~handler[n].down
    BY <1>0, <2>2, OpenedKeeps DEF RetiredIsLeft
  <2>4. /\ handler' \in [Handlers -> SerialHandler] /\ ~handler'[n].down
        /\ \A k \in Handlers \ {n} : handler'[k] = handler[k]
    BY <1>0, <2>1, <2>2, <2>3
  <2>5. SerialTypeOK'
    <3>1. applying' \in BOOLEAN
      BY <1>1
    <3>2. {made', current', console'} \subseteq 0 .. MaxHandlers /\ current' <= made'
      BY <1>0, <2>1, <2>2 DEF SerialTypeOK
    <3> QED
      BY <1>0, <2>1, <2>4, <3>1, <3>2 DEF SerialTypeOK, SerialHandler, device
  <2>6. RetiredIsLeft'
    <3>1. \A k \in Handlers : k > made' => ~handler'[k].down
      <4> SUFFICES ASSUME NEW k \in Handlers, k > made' PROVE ~handler'[k].down
        OBVIOUS
      <4>1. k # n /\ k > made
        BY <2>1, <2>2 DEF Handlers
      <4> QED
        BY <1>0, <2>4, <4>1 DEF RetiredIsLeft
    <3>2. \A k \in Handlers \ overtaken' : handler'[k].down =>
             handler'[k].fd = 0 /\ handler'[k].loop # "connecting" /\ console' # k
      BY <1>0, <2>1, <2>4 DEF RetiredIsLeft
    <3> QED
      BY <2>1, <2>4, <3>1, <3>2 DEF RetiredIsLeft
  <2> QED
    BY <2>5, <2>6 DEF SerialInv
<1>2. CASE Retire /\ applying' \in {FALSE, made < MaxHandlers}
  <2> DEFINE r == [Closed(handler[current], "DISCONNECTED") EXCEPT !.down = TRUE]
  <2>1. /\ current # 0 /\ handler' = [handler EXCEPT ![current] = r]
        /\ overtaken' = IF handler[current].loop = "connecting" \/ console = current
                        THEN overtaken \cup {current} ELSE overtaken
        /\ current' = 0 /\ UNCHANGED <<device, made, console, missed>>
    BY <1>2 DEF Retire
  <2>2. r \in SerialHandler /\ r.fd = 0 /\ r.down /\ r.loop = handler[current].loop
    <3>1. "DISCONNECTED" \in Statuses /\ handler[current] \in SerialHandler
      BY <1>0, <2>1 DEF Statuses
    <3>2. /\ Closed(handler[current], "DISCONNECTED") \in SerialHandler
          /\ Closed(handler[current], "DISCONNECTED").fd = 0
          /\ Closed(handler[current], "DISCONNECTED").loop = handler[current].loop
      BY <3>1, ClosedKeeps
    <3> QED
      BY <3>2 DEF SerialHandler
  <2> HIDE DEF r
  <2>3. /\ handler' \in [Handlers -> SerialHandler] /\ handler'[current] = r
        /\ \A k \in Handlers \ {current} : handler'[k] = handler[k]
    BY <1>0, <2>1, <2>2
  <2>4. SerialTypeOK'
    <3>1. applying' \in BOOLEAN
      <4>1. applying' = FALSE \/ applying' = (made < MaxHandlers)
        BY <1>2
      <4>2. (made < MaxHandlers) \in BOOLEAN
        OBVIOUS
      <4> QED
        BY <4>1, <4>2
    <3>2. {made', current', console'} \subseteq 0 .. MaxHandlers /\ current' <= made'
      BY <1>0, <2>1, PortBoundsAssumption DEF SerialTypeOK
    <3>3. overtaken' \cup missed' \subseteq Handlers
      BY <1>0, <2>1 DEF SerialTypeOK
    <3> QED
      BY <1>0, <2>1, <2>3, <3>1, <3>2, <3>3 DEF SerialTypeOK, SerialHandler, device
  <2>5. RetiredIsLeft'
    <3>1. \A k \in Handlers : k > made' => ~handler'[k].down
      <4>1. current <= made /\ current \in Nat /\ made \in Nat
        BY <1>0 DEF SerialTypeOK
      <4>2. \A k \in Handlers : k > made => k # current
        BY <4>1 DEF Handlers
      <4> QED
        BY <1>0, <2>1, <2>3, <4>2 DEF RetiredIsLeft
    <3>2. ASSUME NEW k \in Handlers \ overtaken', handler'[k].down
          PROVE  handler'[k].fd = 0 /\ handler'[k].loop # "connecting" /\ console' # k
      <4>1. CASE k = current
        BY <2>1, <2>2, <2>3, <3>2, <4>1
      <4>2. CASE k # current
        BY <1>0, <2>1, <2>3, <3>2, <4>2 DEF RetiredIsLeft
      <4> QED
        BY <4>1, <4>2
    <3> QED
      BY <2>1, <3>1, <3>2 DEF RetiredIsLeft
  <2> QED
    BY <2>4, <2>5 DEF SerialInv
<1>3. CASE Command
  <2>1. current \in Handlers /\ ~handler[current].down
    BY <1>0, <1>3 DEF Command, RetiredIsLeft
  <2>2. PICK r \in SerialHandler : Becomes(current, r) /\ r.down = handler[current].down
    <3>1. Opened(current) \in SerialHandler /\ Opened(current).down = handler[current].down
      BY <1>0, <2>1, OpenedKeeps
    <3>2. /\ Closed(handler[current], "DISCONNECTED") \in SerialHandler
          /\ Closed(handler[current], "DISCONNECTED").down = handler[current].down
      BY <1>0, <2>1, ClosedKeeps DEF Statuses
    <3> QED
      BY <1>3, <3>1, <3>2 DEF Command
  <2>3. /\ handler' = [handler EXCEPT ![current] = r] /\ missed' \subseteq missed \cup {current}
        /\ UNCHANGED <<device, made, current, applying, overtaken>> /\ console' \in {0, console}
    BY <1>3, <2>2 DEF Command, Becomes
  <2> QED
    BY <2>1, <2>2, <2>3, BecomesInv
<1>4. CASE Unplug \/ PlugIn
  <2>1. UNCHANGED port /\ present' \in BOOLEAN
    BY <1>4 DEF Unplug, PlugIn
  <2>2. plugged' \in Seq(Printers) /\ Len(plugged') \in 1 .. MaxPlugs
    <3>1. CASE Unplug
      BY <1>0, <3>1 DEF Unplug, SerialTypeOK
    <3>2. CASE PlugIn
      <4>1. PICK p \in Printers : plugged' = Append(plugged, p)
        BY <3>2 DEF PlugIn
      <4>2. plugged \in Seq(Printers) /\ Len(plugged) \in 1 .. MaxPlugs /\ Len(plugged) < MaxPlugs
        BY <1>0, <3>2 DEF PlugIn, Plug, SerialTypeOK
      <4>3. plugged' \in Seq(Printers) /\ Len(plugged') = Len(plugged) + 1
        BY <4>1, <4>2, AppendProperties
      <4> QED
        BY <4>2, <4>3, PortBoundsAssumption
    <3> QED
      BY <1>4, <3>1, <3>2
  <2> QED
    BY <1>0, <2>1, <2>2 DEF port, SerialInv, SerialTypeOK, RetiredIsLeft
<1>5. CASE ConsoleLooksUp
  <2>1. /\ current # 0 /\ console' = current
        /\ UNCHANGED <<device, handler, made, current, applying, overtaken, missed>>
    BY <1>5 DEF ConsoleLooksUp
  <2>2. SerialTypeOK'
    BY <1>0, <2>1 DEF SerialTypeOK, device
  <2>3. RetiredIsLeft'
    BY <1>0, <2>1 DEF RetiredIsLeft
  <2> QED
    BY <2>2, <2>3 DEF SerialInv
<1>6. CASE ConsoleActs
  <2>1. console \in Handlers /\ console' = 0 /\ UNCHANGED <<device, made, current, applying, overtaken>>
    BY <1>0, <1>6 DEF ConsoleActs
  <2>2. PICK r \in SerialHandler : /\ handler' = [handler EXCEPT ![console] = r] /\ r.down = handler[console].down
                                   /\ missed' \subseteq missed \cup {console}
    <3>1. Connected(console) \in SerialHandler /\ Connected(console).down = handler[console].down
      BY <1>0, <2>1, ConnectedKeeps
    <3>2. /\ Closed(handler[console], "DISCONNECTED") \in SerialHandler
          /\ Closed(handler[console], "DISCONNECTED").down = handler[console].down
      BY <1>0, <2>1, ClosedKeeps DEF Statuses
    <3> QED
      BY <1>6, <3>1, <3>2 DEF ConsoleActs
  <2>3. console \notin overtaken => ~handler[console].down
    BY <1>0, <2>1 DEF RetiredIsLeft
  <2> QED
    BY <2>1, <2>2, <2>3, BecomesInv
<1>7. ASSUME NEW h \in Handlers, Write(h)
      PROVE  SerialInv'
  <2>1. /\ Lost(h) \in SerialHandler /\ Lost(h).fd = 0 /\ Lost(h).down = handler[h].down
        /\ Lost(h).loop # "connecting" \/ Lost(h).loop = handler[h].loop
    BY <1>0, LostKeeps
  <2>2. /\ handler' = [handler EXCEPT ![h] = Lost(h)] /\ missed' \subseteq missed \cup {h}
        /\ UNCHANGED <<device, made, current, applying, overtaken>> /\ console' \in {0, console}
    BY <1>7 DEF Write, Becomes
  <2>3. h \notin overtaken /\ handler[h].down => handler[h].loop # "connecting"
    BY <1>0 DEF RetiredIsLeft
  <2> QED
    BY <2>1, <2>2, <2>3, BecomesInv
<1>8. ASSUME NEW h \in Handlers, Wake(h) \/ Test(h) \/ Return(h)
      PROVE  SerialInv'
  <2>1. CASE Wake(h)
    <3>1. PICK to \in Loops : LoopGoes(h, "sleeping", to) /\ (handler[h].down => to # "connecting")
      BY <2>1 DEF Wake, Over, Loops
    <3> QED
      BY <3>1, LoopGoesInv
  <2>2. CASE Test(h)
    <3>1. PICK to \in Loops : LoopGoes(h, "testing", to) /\ to # "connecting"
      BY <2>2 DEF Test, Loops
    <3> QED
      BY <3>1, LoopGoesInv
  <2>3. CASE Return(h)
    BY <2>3, LoopGoesInv DEF Return, Loops
  <2> QED
    BY <1>8, <2>1, <2>2, <2>3
<1>9. ASSUME NEW h \in Handlers, Reconnect(h)
      PROVE  SerialInv'
  <2>1. /\ handler[h].loop = "connecting"
        /\ UNCHANGED <<device, made, current, applying, console, overtaken, missed>>
    BY <1>9 DEF Reconnect
  <2>2. Connected(h) \in SerialHandler /\ Connected(h).down = handler[h].down
    BY <1>0, ConnectedKeeps
  <2>3. PICK to \in Loops : handler' = [handler EXCEPT ![h] = [Connected(h) EXCEPT !.loop = to]]
    BY <1>9 DEF Reconnect, Loops
  <2> DEFINE r == [Connected(h) EXCEPT !.loop = to]
  <2>4. r \in SerialHandler /\ r.down = handler[h].down
    BY <2>2 DEF SerialHandler
  <2>5. ~(h \notin overtaken /\ handler[h].down)
    BY <1>0, <2>1 DEF RetiredIsLeft
  <2> HIDE DEF r
  <2>6. handler' = [handler EXCEPT ![h] = r]
    BY <2>3 DEF r
  <2> QED
    BY <2>1, <2>4, <2>5, <2>6, BecomesInv
<1>10. CASE UNCHANGED serialVars
  BY <1>0, <1>10 DEF serialVars, device, port, SerialInv, SerialTypeOK, RetiredIsLeft
<1> QED
  BY <1>1, <1>2, <1>3, <1>4, <1>5, <1>6, <1>7, <1>8, <1>9, <1>10 DEF SerialNext, ApplyDevices, Loop

\* However many handlers and plugs, a handler that was shut down, and not under its
\* own connect, holds no port and never takes one again.
THEOREM RetiredKeepsOffThePort == SerialSpec => []RetiredStaysShut
<1>1. SerialInv => RetiredStaysShut
  BY DEF SerialInv, RetiredIsLeft, RetiredStaysShut
<1> QED
  BY <1>1, SerialInitInv, SerialNextInv, PTL DEF SerialSpec

-----------------------------------------------------------------------------
(* The agent's configuration. *)

Snapshot == [Tables -> Nat]
PushRecord == [at : {"idle", "saved", "devices", "images", "send", "over"},
               link : 0 .. MaxLinks, read : Snapshot]

\* The types, one by one.
ConfigTyped ==
    /\ saved \in Snapshot /\ holds \in Snapshot
    /\ push \in [Pushes -> PushRecord]
    /\ slot \in 0 .. MaxLinks /\ dials \in 0 .. MaxLinks /\ on \in 0 .. MaxLinks
    /\ sock \in [Links -> {"none", "open", "closing", "unpairing", "closed"}]
    /\ wire \in [Links -> Seq(Snapshot)] /\ queue \in Seq(Snapshot)
    /\ adopting \in BOOLEAN /\ paired \in BOOLEAN /\ forgetting \in BOOLEAN /\ leftover \in BOOLEAN
    /\ unpairs \in 0 .. MaxUnpairs /\ crossed \subseteq Links

\* The newest of a queue.
Latest(s) == s[Len(s)]

\* Pushes that have yet to read a table and send it on connection c.
Ahead(c, t) ==
    {p \in Pushes : \/ push[p].at = "saved"
                    \/ push[p].link = c /\ push[p].at = "devices"
                    \/ push[p].link = c /\ push[p].at = "images" /\ t = "images"}

\* What the frame thread comes to hold when nothing more is sent on connection c.
Comes(c, t) ==
    IF wire[c] # <<>> THEN Latest(wire[c])[t]
    ELSE IF queue # <<>> THEN Latest(queue)[t] ELSE holds[t]

\* A table nobody is about to read is as it is saved, in the push that read it
\* last or, once that is sent, in what the agent will hold.
Current(c) ==
    \A t \in Tables : Ahead(c, t) = {} =>
        /\ \A p \in Reading(c) : push[p].read[t] = saved[t]
        /\ Reading(c) = {} => Comes(c, t) = saved[t]

Attached == on # 0 /\ slot = on /\ sock[on] = "open" /\ on \notin crossed

\* Connections and pushes that are still to come, and those of today.
ToCome ==
    /\ \A c \in Links : c > dials => push[c].at = "idle" /\ wire[c] = <<>>
    /\ \A p \in Pushes : push[p].link <= dials
    /\ \A p \in Pushes : push[p].at \in {"devices", "images", "send"} => push[p].link # 0
    /\ on <= dials /\ slot <= dials

OneReads == \A c \in Links : c \notin crossed => \A p, q \in Reading(c) : p = q

\* An agent that was unpaired, or is about to be.
CutOff ==
    /\ forgetting => ~paired
    /\ ~paired => on = 0
    /\ ~paired /\ ~forgetting => leftover \/ (queue = <<>> /\ holds["devices"] = 0)

HalfAdopted == adopting => queue # <<>> /\ holds["images"] = queue[1]["images"]

ConfigInv == ConfigTyped /\ ToCome /\ OneReads /\ (Attached => Current(on)) /\ CutOff /\ HalfAdopted

\* They are what the type invariant says.
LEMMA ConfigTypes == ConfigTypeOK <=> ConfigTyped
BY DEF ConfigTypeOK, ConfigTyped, Snapshot, PushRecord

\* The newest of a queue, as it is added to and taken from.
LEMMA LatestOf ==
    ASSUME NEW S, NEW s \in Seq(S)
    PROVE  /\ \A x \in S : /\ Append(s, x) \in Seq(S) /\ Append(s, x) # <<>>
                           /\ Latest(Append(s, x)) = x
                           /\ s # <<>> => Append(s, x)[1] = s[1]
           /\ s # <<>> =>
                 /\ Head(s) = s[1] /\ s[1] \in S /\ Latest(s) \in S /\ Tail(s) \in Seq(S)
                 /\ IF Tail(s) = <<>> THEN Latest(s) = Head(s) ELSE Latest(Tail(s)) = Latest(s)
<1>1. ASSUME NEW x \in S
      PROVE  /\ Append(s, x) \in Seq(S) /\ Append(s, x) # <<>> /\ Latest(Append(s, x)) = x
             /\ s # <<>> => Append(s, x)[1] = s[1]
  <2>1. /\ Append(s, x) \in Seq(S) /\ Len(Append(s, x)) = Len(s) + 1 /\ Append(s, x)[Len(s) + 1] = x
        /\ \A i \in 1 .. Len(s) : Append(s, x)[i] = s[i]
    BY AppendProperties
  <2>2. Len(s) \in Nat /\ (s # <<>> => Len(s) > 0) /\ Append(s, x) # <<>>
    BY <2>1, EmptySeq, LenProperties
  <2> QED
    BY <2>1, <2>2 DEF Latest
<1>2. ASSUME s # <<>>
      PROVE  /\ Head(s) = s[1] /\ s[1] \in S /\ Latest(s) \in S /\ Tail(s) \in Seq(S)
             /\ IF Tail(s) = <<>> THEN Latest(s) = Head(s) ELSE Latest(Tail(s)) = Latest(s)
  <2>1. /\ Head(s) = s[1] /\ Tail(s) \in Seq(S) /\ Len(s) \in Nat \ {0} /\ DOMAIN s = 1 .. Len(s)
        /\ Len(Tail(s)) = Len(s) - 1 /\ \A i \in 1 .. Len(Tail(s)) : Tail(s)[i] = s[i + 1]
    BY <1>2, HeadTailProperties, LenProperties
  <2>2. s[1] \in S /\ Latest(s) \in S
    BY <2>1, ElementOfSeq DEF Latest
  <2>3. CASE Tail(s) = <<>>
    <3>1. Len(Tail(s)) = 0
      BY <2>3, EmptySeq
    <3>2. Len(s) = 1
      <4>1. Len(s) \in Nat /\ Len(Tail(s)) = Len(s) - 1
        BY <2>1
      <4> QED
        BY <3>1, <4>1
    <3> QED
      BY <2>1, <2>2, <2>3, <3>2 DEF Latest
  <2>4. CASE Tail(s) # <<>>
    <3>1. Len(Tail(s)) \in 1 .. Len(Tail(s))
      BY <2>1, <2>4, EmptySeq, LenProperties
    <3>2. Tail(s)[Len(Tail(s))] = s[Len(s)]
      BY <2>1, <3>1
    <3> QED
      BY <2>1, <2>2, <2>4, <3>2 DEF Latest
  <2> QED
    BY <2>3, <2>4
<1> QED
  BY <1>1, <1>2

\* An agent and a panel that never spoke satisfy the invariant.
LEMMA ConfigInitInv == ConfigInit => ConfigInv
<1> SUFFICES ASSUME ConfigInit PROVE ConfigInv
  OBVIOUS
<1>1. MaxLinks \in Nat /\ MaxUnpairs \in Nat
  BY ConfigBoundsAssumption
<1>2. ConfigTyped
  <2>1. Empty \in Snapshot /\ saved \in Snapshot /\ holds = Empty
    BY DEF ConfigInit, Empty, Snapshot
  <2>2. push \in [Pushes -> PushRecord]
    BY <1>1, <2>1 DEF ConfigInit, PushRecord
  <2>3. wire \in [Links -> Seq(Snapshot)] /\ queue \in Seq(Snapshot)
    BY EmptySeq DEF ConfigInit
  <2>4. sock \in [Links -> {"none", "open", "closing", "unpairing", "closed"}]
    BY DEF ConfigInit
  <2>5. /\ slot \in 0 .. MaxLinks /\ dials \in 0 .. MaxLinks /\ on \in 0 .. MaxLinks
        /\ unpairs \in 0 .. MaxUnpairs /\ crossed \subseteq Links
    BY <1>1 DEF ConfigInit
  <2>6. adopting \in BOOLEAN /\ paired \in BOOLEAN /\ forgetting \in BOOLEAN /\ leftover \in BOOLEAN
    BY DEF ConfigInit
  <2> QED
    BY <2>1, <2>2, <2>3, <2>4, <2>5, <2>6 DEF ConfigTyped
<1>3. ToCome
  BY <1>1 DEF ConfigInit, ToCome, Links, Pushes
<1>4. OneReads
  BY DEF ConfigInit, OneReads, Reading
<1>5. ~Attached /\ CutOff /\ HalfAdopted
  BY DEF ConfigInit, Attached, CutOff, HalfAdopted
<1> QED
  BY <1>2, <1>3, <1>4, <1>5 DEF ConfigInv

\* Saving and finding the link: a push that reads both tables is to come.
LEMMA SaveInv ==
    ASSUME ConfigInv, NEW e \in Edits, Save(e) \/ FindLink(e)
    PROVE  ConfigInv'
<1>0. /\ ConfigTyped /\ ToCome /\ OneReads /\ CutOff /\ HalfAdopted
      /\ MaxLinks \in Nat /\ e \in Pushes /\ e \notin Links
  BY ConfigBoundsAssumption, EditsAssumption DEF ConfigInv, Pushes, Links
<1>1. /\ UNCHANGED <<slot, sock, dials, on, wire, crossed>> /\ UNCHANGED agentVars
      /\ push[e].at \in {"idle", "saved"}
  BY DEF Save, FindLink
<1>a. UNCHANGED <<queue, adopting, holds, paired, forgetting, unpairs, leftover>>
  BY <1>1 DEF agentVars
<1>2. saved' \in Snapshot
  <2>1. CASE Save(e)
    <3>1. PICK t \in Tables : saved' = [saved EXCEPT ![t] = @ + 1]
      BY <2>1 DEF Save
    <3> QED
      BY <1>0, <3>1 DEF ConfigTyped, Snapshot
  <2>2. CASE FindLink(e)
    BY <1>0, <2>2 DEF FindLink, ConfigTyped
  <2> QED
    BY <2>1, <2>2
<1>3. PICK r \in PushRecord : /\ push' = [push EXCEPT ![e] = r] /\ r.at \in {"saved", "over", "devices"}
                              /\ r.link <= dials /\ (r.at = "devices" => r.link = slot /\ slot # 0)
                              /\ (r.at = "over" => slot = 0)
  <2>1. /\ push \in [Pushes -> PushRecord] /\ push[e] \in PushRecord /\ push[e].link <= dials
        /\ slot \in 0 .. MaxLinks /\ slot <= dials
    BY <1>0 DEF ConfigTyped, ToCome
  <2>2. CASE Save(e)
    <3>1. push' = [push EXCEPT ![e] = [push[e] EXCEPT !.at = "saved"]]
      BY <2>1, <2>2 DEF Save
    <3>2. [push[e] EXCEPT !.at = "saved"] \in PushRecord
      BY <2>1 DEF PushRecord
    <3>3. /\ [push[e] EXCEPT !.at = "saved"].link = push[e].link
          /\ [push[e] EXCEPT !.at = "saved"].at = "saved"
      BY <2>1 DEF PushRecord
    <3> QED
      BY <2>1, <3>1, <3>2, <3>3
  <2>3. CASE FindLink(e)
    <3> DEFINE r == [push[e] EXCEPT !.at = IF slot = 0 THEN "over" ELSE "devices", !.link = slot]
    <3>1. push' = [push EXCEPT ![e] = r]
      BY <2>1, <2>3 DEF FindLink
    <3>2. r \in PushRecord /\ r.link = slot /\ r.at = IF slot = 0 THEN "over" ELSE "devices"
      BY <2>1 DEF PushRecord
    <3> HIDE DEF r
    <3> QED
      BY <2>1, <3>1, <3>2
  <2> QED
    BY <2>2, <2>3
<1>4. ConfigTyped'
  BY <1>0, <1>1, <1>a, <1>2, <1>3 DEF ConfigTyped
<1>5. ToCome'
  BY <1>0, <1>1, <1>3 DEF ConfigTyped, ToCome
<1>6. \A c \in Links : Reading(c)' = Reading(c)
  BY <1>0, <1>1, <1>3 DEF Reading, ConfigTyped
<1>7. OneReads'
  BY <1>0, <1>1, <1>6 DEF OneReads
<1>8. Attached' => Current(on)'
  <2> SUFFICES ASSUME Attached' PROVE \A t \in Tables : Ahead(on, t)' # {}
    BY <1>1 DEF Current
  <2>1. slot = on /\ slot # 0
    BY <1>1 DEF Attached
  <2>2. push'[e] = r
    BY <1>0, <1>3 DEF ConfigTyped
  <2>3. r.at = "saved" \/ (r.at = "devices" /\ r.link = on)
    BY <1>3, <2>1
  <2>4. \A t \in Tables : e \in Ahead(on, t)'
    BY <1>0, <1>1, <2>2, <2>3 DEF Ahead
  <2> QED
    BY <2>4
<1>9. CutOff' /\ HalfAdopted'
  BY <1>0, <1>1, <1>a DEF CutOff, HalfAdopted
<1> QED
  BY <1>4, <1>5, <1>7, <1>8, <1>9 DEF ConfigInv

\* Reading a table: alone on its connection, or the connection is crossed.
LEMMA ReadInv ==
    ASSUME ConfigInv, NEW p \in Pushes, ReadDevices(p) \/ ReadImages(p)
    PROVE  ConfigInv'
<1> DEFINE r == IF push[p].at = "devices"
                THEN [push[p] EXCEPT !.at = "images", !.read = [@ EXCEPT !["devices"] = saved["devices"]]]
                ELSE [push[p] EXCEPT !.at = "send", !.read = [@ EXCEPT !["images"] = saved["images"]]]
<1>0. /\ ConfigTyped /\ ToCome /\ OneReads /\ (Attached => Current(on)) /\ CutOff /\ HalfAdopted
      /\ push \in [Pushes -> PushRecord] /\ push[p] \in PushRecord /\ saved \in Snapshot
      /\ push[p].read \in Snapshot
  BY DEF ConfigInv, ConfigTyped, PushRecord
<1>1. /\ UNCHANGED <<saved, slot, sock, dials, on, wire>> /\ UNCHANGED agentVars
      /\ push[p].at \in {"devices", "images"}
  BY DEF ReadDevices, ReadImages
<1>2. UNCHANGED <<queue, adopting, holds, paired, forgetting, unpairs, leftover>>
  BY <1>1 DEF agentVars
<1>3. push' = [push EXCEPT ![p] = r]
  <2>1. CASE ReadDevices(p)
    BY <1>0, <2>1 DEF ReadDevices
  <2>2. CASE ReadImages(p)
    BY <1>0, <2>2 DEF ReadImages
  <2> QED
    BY <2>1, <2>2
<1>4. /\ r \in PushRecord /\ r.link = push[p].link
      /\ push[p].at = "devices" => r.at = "images" /\ r.read["devices"] = saved["devices"]
      /\ push[p].at = "images" => r.at = "send" /\ r.read["images"] = saved["images"]
                                  /\ r.read["devices"] = push[p].read["devices"]
  <2>1. /\ [push[p].read EXCEPT !["devices"] = saved["devices"]] \in Snapshot
        /\ [push[p].read EXCEPT !["devices"] = saved["devices"]]["devices"] = saved["devices"]
        /\ [push[p].read EXCEPT !["images"] = saved["images"]] \in Snapshot
        /\ [push[p].read EXCEPT !["images"] = saved["images"]]["images"] = saved["images"]
        /\ [push[p].read EXCEPT !["images"] = saved["images"]]["devices"] = push[p].read["devices"]
    BY <1>0 DEF Snapshot, Tables
  <2> QED
    BY <1>0, <1>1, <2>1 DEF PushRecord
<1> HIDE DEF r
<1>5. /\ push'[p] = r /\ \A q \in Pushes : q # p => push'[q] = push[q]
      /\ push' \in [Pushes -> PushRecord]
  BY <1>0, <1>3, <1>4
<1>6. ConfigTyped'
  <2>1. crossed' \subseteq Links
    <3>1. push[p].at = "devices" => push[p].link \in Links
      BY <1>0 DEF ToCome, PushRecord, Links
    <3> QED
      BY <1>0, <1>1, <3>1 DEF ReadDevices, ReadImages, ConfigTyped
  <2> QED
    BY <1>0, <1>1, <1>2, <1>5, <2>1 DEF ConfigTyped
<1>7. ToCome'
  <2>1. \A q \in Pushes : push'[q].link = push[q].link
    BY <1>4, <1>5
  <2>2. r.at \in {"images", "send"} /\ push[p].link # 0
    BY <1>0, <1>1, <1>4 DEF ToCome
  <2>3. \A k \in Links : k > dials => k # p /\ push[k].at = "idle" /\ wire[k] = <<>> /\ k \in Pushes
    BY <1>0, <1>1 DEF ToCome, Pushes
  <2>4. \A k \in Links : k > dials' => push'[k].at = "idle" /\ wire'[k] = <<>>
    BY <1>1, <1>5, <2>3
  <2>5. \A q \in Pushes : push'[q].at \in {"devices", "images", "send"} => push'[q].link # 0
    BY <1>0, <1>5, <2>1, <2>2 DEF ToCome
  <2> QED
    BY <1>0, <1>1, <2>1, <2>4, <2>5 DEF ToCome
<1>8. /\ crossed \subseteq crossed'
      /\ \A c \in Links : c # push[p].link => Reading(c)' = Reading(c)
      /\ \A c \in Links : c = push[p].link /\ push[p].at = "images" => Reading(c)' = Reading(c)
      /\ \A c \in Links : c = push[p].link /\ push[p].at = "devices" /\ c \notin crossed' =>
            Reading(c) = {} /\ Reading(c)' = {p}
  <2>1. crossed \subseteq crossed'
    BY DEF ReadDevices, ReadImages
  <2>2. \A c \in Links : c # push[p].link => Reading(c)' = Reading(c)
    BY <1>4, <1>5 DEF Reading
  <2>3. ASSUME NEW c \in Links, c = push[p].link, push[p].at = "images"
        PROVE  Reading(c)' = Reading(c)
    BY <1>4, <1>5, <2>3 DEF Reading
  <2>4. ASSUME NEW c \in Links, c = push[p].link, push[p].at = "devices", c \notin crossed'
        PROVE  Reading(c) = {} /\ Reading(c)' = {p}
    <3>1. Reading(c) = {}
      BY <2>4 DEF ReadDevices, ReadImages
    <3> QED
      BY <1>4, <1>5, <2>4, <3>1 DEF Reading
  <2> QED
    BY <2>1, <2>2, <2>3, <2>4
<1>9. OneReads'
  BY <1>0, <1>1, <1>8 DEF OneReads
<1>10. ASSUME Attached' PROVE Current(on)'
  <2>1. /\ on' = on /\ on \in Links /\ on \notin crossed' /\ on \notin crossed /\ Attached
    BY <1>0, <1>1, <1>8, <1>10 DEF Attached, ConfigTyped, Links
  <2>2. \A t \in Tables : Comes(on, t)' = Comes(on, t)
    BY <1>1, <1>2 DEF Comes
  <2> SUFFICES ASSUME NEW t \in Tables, Ahead(on, t)' = {}
               PROVE  /\ \A q \in Reading(on)' : push'[q].read[t] = saved[t]
                      /\ Reading(on)' = {} => Comes(on, t) = saved[t]
    BY <1>1, <2>1, <2>2 DEF Current
  <2>3. CASE push[p].link # on
    <3>1. Ahead(on, t)' = Ahead(on, t)
      BY <1>1, <1>4, <1>5, <2>1, <2>3 DEF Ahead
    <3>2. p \notin Reading(on)
      BY <2>3 DEF Reading
    <3> QED
      BY <1>0, <1>5, <1>8, <2>1, <2>3, <3>1, <3>2 DEF Current, Reading
  <2>4. CASE push[p].link = on /\ push[p].at = "devices"
    <3>1. Reading(on)' = {p}
      BY <1>8, <2>1, <2>4
    <3>2. t = "devices"
      BY <1>4, <1>5, <2>1, <2>4 DEF Ahead, Tables
    <3> QED
      BY <1>4, <1>5, <2>4, <3>1, <3>2
  <2>5. CASE push[p].link = on /\ push[p].at = "images"
    <3>1. Reading(on)' = {p}
      BY <1>0, <1>8, <2>1, <2>5 DEF Reading, OneReads
    <3>2. CASE t = "images"
      BY <1>4, <1>5, <2>5, <3>1, <3>2
    <3>3. CASE t = "devices"
      <4>1. Ahead(on, t) = {} /\ p \in Reading(on)
        BY <1>1, <1>4, <1>5, <2>1, <2>5, <3>3 DEF Ahead, Reading
      <4> QED
        BY <1>0, <1>4, <1>5, <2>1, <2>5, <3>1, <3>3, <4>1 DEF Current
    <3> QED
      BY <3>2, <3>3 DEF Tables
  <2> QED
    BY <1>1, <2>3, <2>4, <2>5
<1>11. CutOff' /\ HalfAdopted'
  BY <1>0, <1>1, <1>2 DEF CutOff, HalfAdopted
<1> QED
  BY <1>6, <1>7, <1>9, <1>10, <1>11 DEF ConfigInv

\* Sending: the snapshot comes after all that are on their way.
LEMMA SendInv ==
    ASSUME ConfigInv, NEW p \in Pushes, SendConfig(p)
    PROVE  ConfigInv'
<1> DEFINE c == push[p].link
<1>0. /\ ConfigTyped /\ ToCome /\ OneReads /\ (Attached => Current(on)) /\ CutOff /\ HalfAdopted
      /\ push \in [Pushes -> PushRecord] /\ push[p].read \in Snapshot /\ push[p].at = "send"
      /\ c \in Links /\ wire[c] \in Seq(Snapshot)
  <2>1. ConfigTyped /\ ToCome /\ OneReads /\ (Attached => Current(on)) /\ CutOff /\ HalfAdopted
    BY DEF ConfigInv
  <2>2. push \in [Pushes -> PushRecord] /\ push[p] \in PushRecord /\ push[p].at = "send"
    BY <2>1 DEF SendConfig, ConfigTyped
  <2>3. push[p].read \in Snapshot /\ c \in Links
    BY <2>1, <2>2 DEF PushRecord, ToCome, Links
  <2> QED
    BY <2>1, <2>2, <2>3 DEF ConfigTyped
<1>1. /\ UNCHANGED <<saved, slot, sock, dials, on, crossed>> /\ UNCHANGED agentVars
      /\ push' = [push EXCEPT ![p].at = "over"]
      /\ wire' = IF sock[c] = "open" /\ on = c THEN [wire EXCEPT ![c] = Append(@, push[p].read)] ELSE wire
  BY DEF SendConfig
<1> HIDE DEF c
<1>2. UNCHANGED <<queue, adopting, holds, paired, forgetting, unpairs, leftover>>
  BY <1>1 DEF agentVars
<1>3. /\ push' \in [Pushes -> PushRecord] /\ push'[p].at = "over" /\ push'[p].link = c
      /\ \A q \in Pushes : q # p => push'[q] = push[q]
  <2>1. push[p] \in PushRecord /\ push[p].link = c
    BY <1>0 DEF c
  <2>2. [push[p] EXCEPT !.at = "over"] \in PushRecord
    BY <2>1 DEF PushRecord
  <2> QED
    BY <1>0, <1>1, <2>1, <2>2 DEF PushRecord
<1>4. /\ Append(wire[c], push[p].read) \in Seq(Snapshot) /\ Append(wire[c], push[p].read) # <<>>
      /\ Latest(Append(wire[c], push[p].read)) = push[p].read
  BY <1>0, LatestOf
<1>5. ConfigTyped'
  BY <1>0, <1>1, <1>2, <1>3, <1>4 DEF ConfigTyped
<1>6. ToCome'
  <2>1. c <= dials
    BY <1>0 DEF ToCome, c
  <2>2. \A k \in Links : k > dials => push'[k].at = "idle" /\ wire'[k] = <<>>
    <3> SUFFICES ASSUME NEW k \in Links, k > dials PROVE push'[k].at = "idle" /\ wire'[k] = <<>>
      OBVIOUS
    <3>1. push[k].at = "idle" /\ wire[k] = <<>> /\ k # p /\ k \in Pushes
      BY <1>0 DEF ToCome, Pushes
    <3>2. k # c
      BY <1>0, <2>1 DEF ConfigTyped, Links
    <3> QED
      BY <1>0, <1>1, <1>3, <3>1, <3>2 DEF ConfigTyped
  <2> QED
    BY <1>0, <1>1, <1>3, <2>1, <2>2 DEF ToCome
<1>7. \A k \in Links : Reading(k)' = Reading(k) \ {p}
  BY <1>3 DEF Reading
<1>8. OneReads'
  BY <1>0, <1>1, <1>7 DEF OneReads
<1>9. ASSUME Attached' PROVE Current(on)'
  <2>1. Attached /\ on \in Links
    BY <1>0, <1>1, <1>9 DEF Attached, ConfigTyped, Links
  <2>2. \A t \in Tables : Ahead(on, t)' = Ahead(on, t)
    BY <1>0, <1>1, <1>3 DEF Ahead
  <2>3. CASE c # on
    <3>1. wire' = wire /\ Reading(on)' = Reading(on) /\ p \notin Reading(on)
      BY <1>1, <1>7, <2>1, <2>3 DEF Reading, c
    <3>2. \A t \in Tables : Comes(on, t)' = Comes(on, t)
      BY <1>1, <1>2, <3>1 DEF Comes
    <3>3. \A q \in Reading(on) : push'[q] = push[q]
      BY <1>3, <3>1 DEF Reading
    <3> QED
      BY <1>0, <1>1, <2>1, <2>2, <3>1, <3>2, <3>3 DEF Current
  <2>4. CASE c = on
    <3>1. Reading(on) = {p} /\ Reading(on)' = {}
      <4>1. p \in Reading(on)
        BY <1>0, <2>4 DEF Reading, c
      <4>2. \A q \in Reading(on) : q = p
        BY <1>0, <2>1, <4>1 DEF OneReads, Attached
      <4> QED
        BY <1>1, <1>7, <2>1, <4>1, <4>2
    <3>2. wire'[on] = Append(wire[c], push[p].read)
      BY <1>0, <1>1, <2>1, <2>4 DEF Attached, ConfigTyped
    <3>3. \A t \in Tables : Comes(on, t)' = push[p].read[t]
      BY <1>1, <1>4, <3>2 DEF Comes
    <3> QED
      BY <1>0, <1>1, <2>1, <2>2, <3>1, <3>3 DEF Current
  <2> QED
    BY <2>3, <2>4
<1>10. CutOff' /\ HalfAdopted'
  BY <1>0, <1>1, <1>2 DEF CutOff, HalfAdopted
<1> QED
  BY <1>5, <1>6, <1>8, <1>9, <1>10 DEF ConfigInv

\* A hello brings a connection with a push of its own.
LEMMA GreetInv ==
    ASSUME ConfigInv, Greet
    PROVE  ConfigInv'
<1> DEFINE c == dials + 1
<1>0. /\ ConfigTyped /\ ToCome /\ OneReads /\ CutOff /\ HalfAdopted
      /\ push \in [Pushes -> PushRecord] /\ MaxLinks \in Nat /\ dials \in Nat /\ dials < MaxLinks
      /\ c \in Links /\ c \in Pushes
  BY ConfigBoundsAssumption DEF ConfigInv, ConfigTyped, Greet, Links, Pushes
<1>1. /\ dials' = c /\ on' = c /\ slot' = c /\ paired /\ ~forgetting
      /\ push' = [push EXCEPT ![c].at = "devices", ![c].link = c]
      /\ sock' = [k \in Links |-> IF k = c THEN "open" ELSE IF k = slot THEN "closing" ELSE sock[k]]
      /\ UNCHANGED <<saved, wire, crossed>> /\ UNCHANGED agentVars
  BY DEF Greet
<1> HIDE DEF c
<1>2. UNCHANGED <<queue, adopting, holds, paired, forgetting, unpairs, leftover>>
  BY <1>1 DEF agentVars
<1>3. /\ push' \in [Pushes -> PushRecord] /\ push'[c].at = "devices" /\ push'[c].link = c
      /\ \A q \in Pushes : q # c => push'[q] = push[q]
  <2>1. push[c] \in PushRecord /\ c \in 0 .. MaxLinks
    BY <1>0 DEF Links
  <2>2. /\ [push[c] EXCEPT !.at = "devices", !.link = c] \in PushRecord
        /\ [push[c] EXCEPT !.at = "devices", !.link = c].at = "devices"
        /\ [push[c] EXCEPT !.at = "devices", !.link = c].link = c
    BY <2>1 DEF PushRecord
  <2>3. push' = [push EXCEPT ![c] = [push[c] EXCEPT !.at = "devices", !.link = c]]
    BY <1>0, <1>1
  <2> QED
    BY <1>0, <2>2, <2>3
<1>4. ConfigTyped'
  <2>1. c \in 0 .. MaxLinks
    BY <1>0 DEF Links
  <2>2. sock' \in [Links -> {"none", "open", "closing", "unpairing", "closed"}]
    BY <1>0, <1>1 DEF ConfigTyped
  <2> QED
    BY <1>0, <1>1, <1>2, <1>3, <2>1, <2>2 DEF ConfigTyped
<1>5. ToCome'
  <2>1. \A q \in Pushes : q # c => push[q].link <= dials /\ push[q].link \in Nat
    BY <1>0 DEF ToCome, PushRecord
  <2>2. \A q \in Pushes : push'[q].link <= c
    BY <1>0, <1>3, <2>1 DEF c
  <2>3. \A k \in Links : k > c => k # c /\ k > dials /\ k \in Pushes
    BY <1>0 DEF c, Links, Pushes
  <2>4. \A k \in Links : k > dials' => push'[k].at = "idle" /\ wire'[k] = <<>>
    BY <1>0, <1>1, <1>3, <2>3 DEF ToCome
  <2>5. \A q \in Pushes : push'[q].at \in {"devices", "images", "send"} => push'[q].link # 0
    BY <1>0, <1>3 DEF ToCome, c
  <2>6. c <= c
    BY <1>0 DEF c
  <2> QED
    BY <1>1, <2>2, <2>4, <2>5, <2>6 DEF ToCome
<1>6. \A k \in Links : Reading(k)' = Reading(k)
  <2>1. push[c].at = "idle"
    BY <1>0 DEF ToCome, c
  <2> QED
    BY <1>0, <1>3, <2>1 DEF Reading
<1>7. OneReads'
  BY <1>0, <1>1, <1>6 DEF OneReads
<1>8. Current(on)'
  <2>1. \A t \in Tables : c \in Ahead(on, t)'
    BY <1>0, <1>1, <1>3 DEF Ahead
  <2> QED
    BY <2>1 DEF Current
<1>9. CutOff' /\ HalfAdopted'
  BY <1>0, <1>1, <1>2 DEF CutOff, HalfAdopted
<1> QED
  BY <1>4, <1>5, <1>7, <1>8, <1>9 DEF ConfigInv

\* A connection that is over on either side, or is about to be.
LEMMA OverInv ==
    ASSUME ConfigInv, (\E c \in Links : Closes(c)) \/ Lose \/ Revoke
    PROVE  ConfigInv'
<1>0. /\ ConfigTyped /\ ToCome /\ OneReads /\ (Attached => Current(on)) /\ CutOff /\ HalfAdopted
      /\ MaxLinks \in Nat /\ MaxUnpairs \in Nat
  BY ConfigBoundsAssumption DEF ConfigInv
<1>1. UNCHANGED <<saved, push, dials, crossed, queue, adopting, holds, paired, forgetting, leftover>>
  BY DEF Closes, Lose, Revoke, panelVars, agentVars
<1>2. ConfigTyped'
  <2>1. ASSUME NEW c \in Links, Closes(c)
        PROVE  ConfigTyped'
    BY <1>0, <1>1, <2>1 DEF Closes, ConfigTyped, agentVars
  <2>2. CASE Lose
    <3>1. wire' \in [Links -> Seq(Snapshot)]
      BY <1>0, <2>2, EmptySeq DEF Lose, ConfigTyped
    <3> QED
      BY <1>0, <1>1, <2>2, <3>1 DEF Lose, ConfigTyped, panelVars, agentVars
  <2>3. CASE Revoke
    <3>1. unpairs' \in 0 .. MaxUnpairs
      BY <1>0, <2>3 DEF Revoke, ConfigTyped
    <3>2. sock' \in [Links -> {"none", "open", "closing", "unpairing", "closed"}]
      BY <1>0, <2>3 DEF Revoke, ConfigTyped
    <3> QED
      BY <1>0, <1>1, <2>3, <3>1, <3>2 DEF Revoke, ConfigTyped
  <2> QED
    BY <2>1, <2>2, <2>3
<1>3. ToCome'
  <2>1. /\ on' \in {0, on} /\ slot' \in {0, slot} /\ dials \in 0 .. MaxLinks
        /\ \A k \in Links : wire[k] = <<>> => wire'[k] = <<>>
    BY <1>0 DEF Closes, Lose, Revoke, ConfigTyped, panelVars
  <2> QED
    BY <1>0, <1>1, <2>1 DEF ToCome
<1>4. OneReads'
  BY <1>0, <1>1 DEF OneReads, Reading
<1>5. ASSUME Attached' PROVE Current(on)'
  <2>1. PICK c \in Links : Closes(c)
    BY <1>0, <1>5 DEF Lose, Revoke, Attached, ConfigTyped, Links
  <2>2. Attached /\ UNCHANGED <<wire, on>>
    <3>1. /\ UNCHANGED <<wire, on, crossed>> /\ on # c /\ sock' = [sock EXCEPT ![c] = "closed"]
          /\ slot' \in {0, slot}
      BY <2>1 DEF Closes
    <3>2. on # 0 /\ slot = on /\ on \notin crossed /\ sock'[on] = "open"
      BY <1>5, <3>1 DEF Attached
    <3>3. on \in Links /\ sock'[on] = sock[on]
      BY <1>0, <3>1, <3>2 DEF ConfigTyped, Links
    <3> QED
      BY <3>1, <3>2, <3>3 DEF Attached
  <2> QED
    BY <1>0, <1>1, <2>2 DEF Current, Ahead, Reading, Comes
<1>6. CutOff' /\ HalfAdopted'
  <2>1. on' \in {0, on}
    BY DEF Closes, Lose, Revoke, panelVars
  <2> QED
    BY <1>0, <1>1, <2>1 DEF CutOff, HalfAdopted
<1> QED
  BY <1>2, <1>3, <1>4, <1>5, <1>6 DEF ConfigInv

\* Unpaired, and paired again: on no connection before and after.
LEMMA UnpairInv ==
    ASSUME ConfigInv, HearUnpaired \/ Unpair \/ ApplyEmpty \/ PairAgain
    PROVE  ConfigInv'
<1>0. /\ ConfigTyped /\ ToCome /\ OneReads /\ CutOff /\ HalfAdopted
      /\ MaxLinks \in Nat /\ MaxUnpairs \in Nat /\ holds \in Snapshot
  BY ConfigBoundsAssumption DEF ConfigInv, ConfigTyped
<1>1. UNCHANGED <<saved, push, slot, sock, dials, crossed, queue, adopting>> /\ on' = 0
  BY <1>0 DEF HearUnpaired, Unpair, ApplyEmpty, PairAgain, Forget, panelVars, CutOff
<1>2. \A k \in Links : wire[k] = <<>> => wire'[k] = <<>>
  BY <1>0 DEF HearUnpaired, Unpair, ApplyEmpty, PairAgain, Forget, ConfigTyped
<1>3. /\ holds' \in Snapshot /\ holds'["images"] = holds["images"]
      /\ ApplyEmpty => holds'["devices"] = 0 
      /\ ~ApplyEmpty => UNCHANGED <<holds, leftover>>
  <2>1. CASE ApplyEmpty
    BY <1>0, <2>1 DEF ApplyEmpty, Snapshot, Tables
  <2>2. CASE ~ApplyEmpty
    BY <1>0, <2>2 DEF HearUnpaired, Unpair, PairAgain
  <2> QED
    BY <2>1, <2>2
<1>4. ConfigTyped'
  <2>1. wire' \in [Links -> Seq(Snapshot)]
    BY <1>0, EmptySeq DEF HearUnpaired, Unpair, ApplyEmpty, PairAgain, Forget, ConfigTyped
  <2>2. paired' \in BOOLEAN /\ forgetting' \in BOOLEAN /\ leftover' \in BOOLEAN
    BY <1>0 DEF HearUnpaired, Unpair, ApplyEmpty, PairAgain, Forget, ConfigTyped
  <2>3. unpairs' \in 0 .. MaxUnpairs
    BY <1>0 DEF HearUnpaired, Unpair, ApplyEmpty, PairAgain, ConfigTyped
  <2> QED
    BY <1>0, <1>1, <1>3, <2>1, <2>2, <2>3 DEF ConfigTyped
<1>5. ToCome'
  <2>1. dials \in 0 .. MaxLinks
    BY <1>0 DEF ConfigTyped
  <2> QED
    BY <1>0, <1>1, <1>2, <2>1 DEF ToCome
<1>6. OneReads'
  BY <1>0, <1>1 DEF OneReads, Reading
<1>7. ~Attached'
  BY <1>1 DEF Attached
<1>8. CutOff'
  <2>1. CASE HearUnpaired \/ Unpair
    BY <1>1, <2>1 DEF HearUnpaired, Unpair, Forget, CutOff
  <2>2. CASE ApplyEmpty
    BY <1>0, <1>1, <1>3, <2>2 DEF ApplyEmpty, CutOff
  <2>3. CASE PairAgain
    BY <1>0, <1>1, <2>3 DEF PairAgain, CutOff
  <2> QED
    BY <2>1, <2>2, <2>3
<1>9. HalfAdopted'
  BY <1>0, <1>1, <1>3 DEF HalfAdopted
<1> QED
  BY <1>4, <1>5, <1>6, <1>7, <1>8, <1>9 DEF ConfigInv

\* The frame thread takes what came: what it comes to hold stays the same.
LEMMA AdoptInv ==
    ASSUME ConfigInv, Receive \/ AdoptImages \/ AdoptDevices
    PROVE  ConfigInv'
<1>0. /\ ConfigTyped /\ ToCome /\ OneReads /\ (Attached => Current(on)) /\ CutOff /\ HalfAdopted
      /\ queue \in Seq(Snapshot) /\ holds \in Snapshot /\ wire \in [Links -> Seq(Snapshot)]
  BY DEF ConfigInv, ConfigTyped
<1>1. /\ UNCHANGED <<saved, push, slot, sock, dials, on, crossed, paired, forgetting, unpairs, leftover>>
      /\ Receive \/ queue # <<>>
  BY <1>0 DEF Receive, AdoptImages, AdoptDevices, panelVars, HalfAdopted
<1>2. ASSUME Receive
      PROVE  /\ on \in Links /\ wire' \in [Links -> Seq(Snapshot)] /\ queue' \in Seq(Snapshot)
             /\ queue' # <<>> /\ (queue # <<>> => queue'[1] = queue[1])
             /\ \A k \in Links : k # on => wire'[k] = wire[k]
             /\ IF wire'[on] = <<>> THEN Latest(queue') = Latest(wire[on])
                ELSE Latest(wire'[on]) = Latest(wire[on])
             /\ wire[on] # <<>> /\ UNCHANGED <<adopting, holds>>
  <2>1. on \in Links /\ wire[on] \in Seq(Snapshot) /\ wire[on] # <<>>
    <3>1. on # 0 /\ wire[on] # <<>>
      BY <1>2 DEF Receive
    <3>2. on \in Links
      BY <1>0, <3>1 DEF ConfigTyped, Links
    <3> QED
      BY <1>0, <3>1, <3>2
  <2>2. /\ Head(wire[on]) \in Snapshot /\ Tail(wire[on]) \in Seq(Snapshot)
        /\ IF Tail(wire[on]) = <<>> THEN Latest(wire[on]) = Head(wire[on])
           ELSE Latest(Tail(wire[on])) = Latest(wire[on])
    BY <2>1, LatestOf
  <2>3. /\ queue' \in Seq(Snapshot) /\ queue' # <<>> /\ Latest(queue') = Head(wire[on])
        /\ queue # <<>> => queue'[1] = queue[1]
    BY <1>0, <1>2, <2>2, LatestOf DEF Receive
  <2>4. wire' = [wire EXCEPT ![on] = Tail(wire[on])] /\ UNCHANGED <<adopting, holds>>
    BY <1>2 DEF Receive
  <2> QED
    BY <1>0, <2>1, <2>2, <2>3, <2>4
<1>3. ASSUME ~Receive
      PROVE  /\ Head(queue) = queue[1] /\ queue[1] \in Snapshot /\ Tail(queue) \in Seq(Snapshot)
             /\ IF Tail(queue) = <<>> THEN Latest(queue) = queue[1] ELSE Latest(Tail(queue)) = Latest(queue)
             /\ wire' = wire /\ holds' \in Snapshot
             /\ AdoptImages => queue' = queue /\ adopting' = TRUE /\ holds'["images"] = queue[1]["images"]
             /\ AdoptDevices => /\ queue' = Tail(queue) /\ adopting' = FALSE /\ adopting
                                /\ holds'["devices"] = queue[1]["devices"] /\ holds'["images"] = holds["images"]
  <2>1. /\ Head(queue) = queue[1] /\ queue[1] \in Snapshot /\ Tail(queue) \in Seq(Snapshot)
        /\ IF Tail(queue) = <<>> THEN Latest(queue) = queue[1] ELSE Latest(Tail(queue)) = Latest(queue)
    BY <1>0, <1>1, <1>3, LatestOf
  <2>2. CASE AdoptImages
    BY <1>0, <2>1, <2>2 DEF AdoptImages, AdoptDevices, Snapshot, Tables
  <2>3. CASE AdoptDevices
    BY <1>0, <2>1, <2>3 DEF AdoptImages, AdoptDevices, Snapshot, Tables
  <2> QED
    BY <1>3, <2>1, <2>2, <2>3
<1>4. ConfigTyped'
  <2>1. CASE Receive
    BY <1>0, <1>1, <1>2, <2>1 DEF ConfigTyped
  <2>2. CASE ~Receive
    BY <1>0, <1>1, <1>3, <2>2 DEF ConfigTyped
  <2> QED
    BY <2>1, <2>2
<1>5. ToCome'
  <2>1. \A k \in Links : k > dials => wire'[k] = wire[k]
    <3>1. Receive => \A k \in Links : k > dials => k # on
      BY <1>0, <1>2 DEF ConfigTyped, ToCome, Links
    <3> QED
      BY <1>2, <1>3, <3>1
  <2> QED
    BY <1>0, <1>1, <2>1 DEF ToCome
<1>6. OneReads'
  BY <1>0, <1>1 DEF OneReads, Reading
<1>7. ASSUME Attached' PROVE Current(on)'
  <2>1. Attached /\ Current(on) /\ on \in Links
    BY <1>0, <1>1, <1>7 DEF Attached, ConfigTyped, Links
  <2>2. \A t \in Tables : Comes(on, t)' = Comes(on, t)
    <3>1. CASE Receive
      BY <1>1, <1>2, <3>1 DEF Comes
    <3>2. CASE ~Receive /\ AdoptImages
      BY <1>1, <1>3, <3>2 DEF Comes
    <3>3. CASE ~Receive /\ AdoptDevices
      <4>1. \A t \in Tables : holds'[t] = queue[1][t]
        BY <1>0, <1>3, <3>3 DEF HalfAdopted, Tables
      <4> QED
        BY <1>1, <1>3, <3>3, <4>1 DEF Comes
    <3> QED
      BY <3>1, <3>2, <3>3
  <2> QED
    BY <1>1, <2>1, <2>2 DEF Current, Ahead, Reading
<1>8. CutOff'
  <2>1. Receive => paired
    BY <1>0 DEF Receive, CutOff
  <2> QED
    BY <1>0, <1>1, <2>1 DEF CutOff
<1>9. HalfAdopted'
  <2>1. CASE Receive
    BY <1>0, <1>2, <2>1 DEF HalfAdopted
  <2>2. CASE ~Receive /\ AdoptImages
    BY <1>1, <1>3, <2>2 DEF HalfAdopted
  <2>3. CASE ~Receive /\ AdoptDevices
    BY <1>3, <2>3 DEF HalfAdopted
  <2> QED
    BY <2>1, <2>2, <2>3
<1> QED
  BY <1>4, <1>5, <1>6, <1>7, <1>8, <1>9 DEF ConfigInv

\* No step breaks the invariant.
LEMMA ConfigNextInv == ConfigInv /\ [ConfigNext]_configVars => ConfigInv'
<1> SUFFICES ASSUME ConfigInv, [ConfigNext]_configVars PROVE ConfigInv'
  OBVIOUS
<1>1. ASSUME NEW e \in Edits, Save(e) \/ FindLink(e) PROVE ConfigInv'
  BY <1>1, SaveInv
<1>2. ASSUME NEW p \in Pushes, ReadDevices(p) \/ ReadImages(p) PROVE ConfigInv'
  BY <1>2, ReadInv
<1>3. ASSUME NEW p \in Pushes, SendConfig(p) PROVE ConfigInv'
  BY <1>3, SendInv
<1>4. CASE Greet
  BY <1>4, GreetInv
<1>5. CASE (\E c \in Links : Closes(c)) \/ Lose \/ Revoke
  BY <1>5, OverInv
<1>6. CASE HearUnpaired \/ Unpair \/ ApplyEmpty \/ PairAgain
  BY <1>6, UnpairInv
<1>7. CASE Receive \/ AdoptImages \/ AdoptDevices
  BY <1>7, AdoptInv
<1>8. CASE UNCHANGED configVars
  <2>1. UNCHANGED <<saved, push, slot, sock, dials, on, wire, crossed, queue, adopting, holds, paired,
                    forgetting, unpairs, leftover>>
    BY <1>8 DEF configVars, panelVars, agentVars
  <2>2. ConfigTyped' /\ CutOff' /\ HalfAdopted'
    BY <2>1 DEF ConfigInv, ConfigTyped, CutOff, HalfAdopted
  <2>3. OneReads'
    BY <2>1 DEF ConfigInv, OneReads, Reading
  <2>4. ToCome'
    BY <2>1 DEF ConfigInv, ToCome
  <2>5. (Attached => Current(on))'
    BY <2>1 DEF ConfigInv, Attached, Current, Comes, Ahead, Reading
  <2> QED
    BY <2>2, <2>3, <2>4, <2>5 DEF ConfigInv
<1> QED
  BY <1>1, <1>2, <1>3, <1>4, <1>5, <1>6, <1>7, <1>8 DEF ConfigNext

\* For any edits and connections, and however they meet: once nothing is under way, a
\* connected agent holds what is saved, and an unpaired one no device.
THEOREM ConfigurationArrives == ConfigSpec => []ConfigArrives
<1>1. ConfigInv => ConfigArrives
  <2> SUFFICES ASSUME ConfigInv PROVE ConfigArrives
    OBVIOUS
  <2>1. /\ ConfigTyped /\ (Attached => Current(on)) /\ CutOff
        /\ saved \in Snapshot /\ holds \in Snapshot
    BY DEF ConfigInv, ConfigTyped
  <2>2. ASSUME AtRest, slot # 0, on = slot, sock[slot] = "open", slot \notin crossed
        PROVE  holds = saved
    <3>1. Attached /\ on \in Links
      BY <2>1, <2>2 DEF Attached, ConfigTyped, Links
    <3>2. wire[on] = <<>> /\ queue = <<>> /\ Reading(on) = {} /\ \A t \in Tables : Ahead(on, t) = {}
      BY <2>2, <3>1 DEF AtRest, Reading, Ahead
    <3>3. \A t \in Tables : holds[t] = saved[t]
      BY <2>1, <3>1, <3>2 DEF Current, Comes
    <3> QED
      BY <2>1, <3>3 DEF Snapshot
  <2>3. ~paired /\ ~forgetting /\ queue = <<>> => holds["devices"] = 0 \/ leftover
    BY <2>1 DEF CutOff
  <2> QED
    BY <2>2, <2>3 DEF ConfigArrives
<1> QED
  BY <1>1, ConfigInitInv, ConfigNextInv, PTL DEF ConfigSpec

-----------------------------------------------------------------------------
(* Live updates. *)

\* Streams that hold a slot.
Held == {s \in Streams : stream[s].at \in {"taken", "open"}}

StreamRecord == [at : {"none", "taken", "open", "closed", "refused"}, buf : Seq(Nat),
                 dropped : Nat, offered : Nat, released : BOOLEAN]
Actions == {"refresh", "navigate", "land", "arrive"}
PageRecord == [shows : Nat, timer : BOOLEAN, router : Seq(Actions), read : Nat]

LiveTyped ==
    /\ world \in Nat /\ unannounced \subseteq 1 .. world
    /\ stream \in [Streams -> StreamRecord] /\ slots \in Nat
    /\ source \in [at : {"connecting", "open", "off", "dead"}, on : Streams]
    /\ page \in PageRecord /\ told \in Nat /\ passed \in Nat

\* What a stream has been through, by where it is.
StreamFits(c) ==
    /\ c.released <=> c.at = "closed"
    /\ c.at \in {"none", "taken", "refused"} => c.buf = <<>> /\ c.dropped = 0 /\ c.offered = 0
    /\ c.offered <= world /\ \A x \in Elems(c.buf) : x <= world

\* What was offered to a stream is on its way, will be said to be missing, or was told.
Covered(c) ==
    \/ c.offered <= told \/ c.offered <= passed \/ c.dropped > 0
    \/ \E x \in Elems(c.buf) : x = Resync \/ x >= c.offered

\* A reading that is still to come, or to land, and shows what the tab was told.
First == page.router[1]
ToBeShown ==
    \/ told <= page.shows \/ page.timer
    \/ /\ page.router # <<>>
       /\ First \in {"refresh", "navigate"} \/ Len(page.router) > 1 \/ told <= page.read

RouterFits ==
    /\ Len(page.router) <= 2
    /\ \A i \in 2 .. Len(page.router) : page.router[i] = "refresh"
    /\ page.router # <<>> /\ First \in {"land", "arrive"} => page.shows <= page.read
    /\ page.router # <<>> /\ First = "arrive" => told <= page.read \/ Len(page.router) > 1
    /\ page.read <= world /\ page.shows <= world /\ told <= world

LiveInv ==
    /\ LiveTyped /\ SlotsAreCounted
    /\ \A s \in Streams : StreamFits(stream[s])
    /\ source.at = "open" /\ stream[source.on].at = "open" => Covered(stream[source.on])
    /\ RouterFits /\ ToBeShown

\* What a write does to a stream, and to what stands for what it was offered.
LEMMA OfferedFits ==
    ASSUME NEW c \in StreamRecord, StreamFits(c), world \in Nat, NEW v \in 1 .. world,
           told \in Nat, passed \in Nat
    PROVE  /\ Offered(c, v) \in StreamRecord /\ StreamFits(Offered(c, v))
           /\ Offered(c, v).at = c.at \/ (c.at = "open" /\ Offered(c, v).at = "closed")
           /\ Offered(c, v).at = "open" /\ Covered(c) => Covered(Offered(c, v))
<1> DEFINE top == Newer(c.offered, v)
           o   == [c EXCEPT !.offered = top]
           d   == [o EXCEPT !.dropped = @ + 1]
           gap == IF c.dropped > 0 THEN <<Resync>> ELSE <<>>
           b   == (c.buf \o gap) \o <<v>>
           e   == [o EXCEPT !.dropped = 0, !.buf = b]
<1>0. MaxDropped \in Nat /\ Room \in Nat /\ v \in Nat /\ v <= world
  BY LiveAssumption
<1>1. /\ c.buf \in Seq(Nat) /\ c.dropped \in Nat /\ c.offered \in Nat /\ c.released \in BOOLEAN
      /\ c.at \in {"none", "taken", "open", "closed", "refused"}
  BY DEF StreamRecord
<1>2. top \in Nat /\ top <= world /\ (top = v \/ top = c.offered) /\ top >= v
  BY <1>0, <1>1 DEF Newer, StreamFits
<1>3. /\ b \in Seq(Nat) /\ Elems(c.buf) \subseteq Elems(b) /\ v \in Elems(b)
      /\ Elems(b) \subseteq Elems(c.buf) \cup {Resync, v}
      /\ c.dropped > 0 => Resync \in Elems(b)
  <2>1. <<>> \in Seq(Nat) /\ Elems(<<>>) = {}
    BY EmptySeq, ElemsOfEmpty
  <2>2. <<Resync>> \in Seq(Nat) /\ Elems(<<Resync>>) = {Resync}
    BY ElemsOfOne DEF Resync
  <2>3. gap \in Seq(Nat) /\ Elems(gap) = IF c.dropped > 0 THEN {Resync} ELSE {}
    BY <2>1, <2>2
  <2>4. <<v>> \in Seq(Nat) /\ Elems(<<v>>) = {v}
    BY <1>0, ElemsOfOne
  <2> HIDE DEF gap
  <2>5. c.buf \o gap \in Seq(Nat) /\ Elems(c.buf \o gap) = Elems(c.buf) \cup Elems(gap)
    BY <1>1, <2>3, ElemsOfConcat
  <2>6. b \in Seq(Nat) /\ Elems(b) = Elems(c.buf \o gap) \cup Elems(<<v>>)
    <3>1. \A t \in Seq(Nat) : /\ (c.buf \o gap) \o t \in Seq(Nat)
                              /\ Elems((c.buf \o gap) \o t) = Elems(c.buf \o gap) \cup Elems(t)
      BY <2>5, ElemsOfConcat
    <3> QED
      BY <2>4, <3>1, Zenon
  <2> QED
    BY <2>3, <2>4, <2>5, <2>6
<1>4. Offered(c, v) = IF c.at # "open" THEN c
                      ELSE IF Len(c.buf) >= Room THEN (IF d.dropped >= MaxDropped THEN Shut(d) ELSE d)
                      ELSE e
  BY DEF Offered
<1> HIDE DEF top, b
<1>a. o \in StreamRecord /\ o = [c EXCEPT !.offered = top] /\ o.at = c.at /\ o.released = c.released
      /\ o.buf = c.buf /\ o.dropped = c.dropped /\ o.offered = top
  BY <1>1, <1>2 DEF StreamRecord
<1> HIDE DEF o
<1>5. /\ d \in StreamRecord /\ d.at = c.at /\ d.released = c.released /\ d.buf = c.buf
      /\ d.dropped = c.dropped + 1 /\ d.offered = top
  <2>1. c.dropped + 1 \in Nat /\ d = [o EXCEPT !.dropped = c.dropped + 1]
    BY <1>1, <1>a DEF StreamRecord
  <2> QED
    BY <1>a, <2>1 DEF StreamRecord
<1>6. /\ e \in StreamRecord /\ e.at = c.at /\ e.released = c.released /\ e.buf = b
      /\ e.dropped = 0 /\ e.offered = top
  BY <1>3, <1>a DEF StreamRecord
<1> HIDE DEF d, e
<1>7. /\ Shut(d) \in StreamRecord /\ Shut(d).at = "closed" /\ Shut(d).released /\ Shut(d).buf = c.buf
      /\ Shut(d).offered = top
  BY <1>5 DEF Shut, StreamRecord
<1>8. CASE c.at # "open"
  BY <1>4, <1>8
<1>9. CASE c.at = "open" /\ Offered(c, v) = Shut(d)
  BY <1>2, <1>7, <1>9 DEF StreamFits
<1>10. CASE c.at = "open" /\ Offered(c, v) = d
  BY <1>1, <1>2, <1>5, <1>10 DEF StreamFits, Covered
<1>11. CASE c.at = "open" /\ Offered(c, v) = e
  <2>1. StreamFits(e)
    BY <1>0, <1>2, <1>3, <1>6, <1>11 DEF StreamFits, Resync
  <2>2. Covered(c) => Covered(e)
    <3> SUFFICES ASSUME Covered(c) PROVE Covered(e)
      OBVIOUS
    <3>1. CASE top = v
      <4>1. v \in Elems(e.buf) /\ v >= e.offered
        BY <1>0, <1>3, <1>6, <3>1
      <4> QED
        BY <4>1 DEF Covered
    <3>2. CASE top = c.offered /\ c.dropped > 0
      BY <1>3, <1>6, <3>2 DEF Covered
    <3>3. CASE top = c.offered /\ ~(c.dropped > 0)
      BY <1>3, <1>6, <3>3 DEF Covered
    <3> QED
      BY <1>2, <3>1, <3>2, <3>3
  <2> QED
    BY <1>6, <1>11, <2>1, <2>2
<1> QED
  BY <1>4, <1>8, <1>9, <1>10, <1>11

\* The streams that hold a slot, before and after one of them changed.
LEMMA HeldIsFinite == IsFiniteSet(Held)
<1>1. IsFiniteSet(Streams)
  BY LiveAssumption, FS_Interval DEF Streams
<1> QED
  BY <1>1, FS_Subset DEF Held

\* One stream changes, and the count by as much.
LEMMA StreamStep ==
    ASSUME LiveInv, NEW s \in Streams, NEW d \in StreamRecord, StreamFits(d),
           stream' = [stream EXCEPT ![s] = d], UNCHANGED <<world, unannounced>>,
           slots' = IF s \in Held THEN IF d.at \in {"taken", "open"} THEN slots ELSE slots - 1
                    ELSE IF d.at \in {"taken", "open"} THEN slots + 1 ELSE slots
    PROVE  /\ slots' \in Nat /\ stream' \in [Streams -> StreamRecord]
           /\ SlotsAreCounted' /\ \A x \in Streams : StreamFits(stream[x])'
<1>1. /\ stream \in [Streams -> StreamRecord] /\ slots = Cardinality(Held)
      /\ \A x \in Streams : StreamFits(stream[x])
  BY DEF LiveInv, LiveTyped, SlotsAreCounted, Held
<1>2. stream' \in [Streams -> StreamRecord] /\ stream'[s] = d /\ \A x \in Streams : x # s => stream'[x] = stream[x]
  BY <1>1
<1>3. \A x \in Streams : StreamFits(stream[x])'
  BY <1>1, <1>2 DEF StreamFits
<1>4. Held' = IF d.at \in {"taken", "open"} THEN Held \cup {s} ELSE Held \ {s}
  BY <1>2 DEF Held
<1>5. IsFiniteSet(Held)
  BY HeldIsFinite
<1>6. /\ Cardinality(Held \cup {s}) = IF s \in Held THEN Cardinality(Held) ELSE Cardinality(Held) + 1
      /\ Cardinality(Held \ {s}) = IF s \in Held THEN Cardinality(Held) - 1 ELSE Cardinality(Held)
      /\ IsFiniteSet(Held \cup {s}) /\ IsFiniteSet(Held \ {s})
  BY <1>5, FS_AddElement, FS_RemoveElement
<1>7. slots' = Cardinality(Held')
  BY <1>1, <1>4, <1>6
<1>8. slots' \in Nat
  BY <1>4, <1>6, <1>7, FS_CardinalityType
<1>9. SlotsAreCounted'
  BY <1>7 DEF SlotsAreCounted, Held
<1> QED
  BY <1>2, <1>3, <1>8, <1>9

Source == [at : {"connecting", "open", "off", "dead"}, on : Streams]

\* One stream changes and the page does not.
LEMMA OneStreamInv ==
    ASSUME LiveInv, NEW s \in Streams, NEW d \in StreamRecord, StreamFits(d), d.at = "open" => Covered(d),
           stream' = [stream EXCEPT ![s] = d], UNCHANGED <<world, unannounced, page, told, passed>>,
           slots' = IF s \in Held THEN IF d.at \in {"taken", "open"} THEN slots ELSE slots - 1
                    ELSE IF d.at \in {"taken", "open"} THEN slots + 1 ELSE slots,
           source' \in Source, source'.on = source.on, source.on # s => source' = source
    PROVE  LiveInv'
<1>1. /\ slots' \in Nat /\ stream' \in [Streams -> StreamRecord]
      /\ SlotsAreCounted' /\ \A x \in Streams : StreamFits(stream[x])'
  BY StreamStep
<1>2. LiveTyped'
  BY <1>1 DEF LiveInv, LiveTyped, Source
<1>3. source'.at = "open" /\ stream'[source'.on].at = "open" => Covered(stream[source.on])'
  <2> SUFFICES ASSUME source'.at = "open", stream'[source'.on].at = "open"
               PROVE  Covered(stream[source.on])'
    OBVIOUS
  <2>1. stream \in [Streams -> StreamRecord] /\ source.on \in Streams
    BY DEF LiveInv, LiveTyped
  <2>2. CASE source.on = s
    <3>1. stream'[source'.on] = d /\ Covered(d)
      BY <2>1, <2>2
    <3> QED
      BY <3>1 DEF Covered
  <2>3. CASE source.on # s
    <3>1. stream'[source'.on] = stream[source.on] /\ Covered(stream[source.on])
      BY <2>1, <2>3 DEF LiveInv
    <3> QED
      BY <3>1 DEF Covered
  <2> QED
    BY <2>2, <2>3
<1>4. RouterFits' /\ ToBeShown'
  BY DEF LiveInv, RouterFits, ToBeShown, First
<1> QED
  BY <1>1, <1>2, <1>3, <1>4 DEF LiveInv

\* A stream with a slot is counted.
LEMMA HeldIsCounted ==
    ASSUME LiveInv, NEW s \in Held
    PROVE  slots > 0
<1>1. slots = Cardinality(Held) /\ slots \in Nat
  BY DEF LiveInv, LiveTyped, SlotsAreCounted, Held
<1>2. Cardinality(Held) # 0
  BY HeldIsFinite, FS_EmptySet
<1> QED
  BY <1>1, <1>2

\* What the server does with one stream.
LEMMA ServerInv ==
    ASSUME LiveInv, NEW s \in Streams, Keepalive(s) \/ Accept(s) \/ Start(s) \/ StartFails(s) \/ Ends(s)
    PROVE  LiveInv'
<1> DEFINE c == stream[s]
<1>0. /\ stream \in [Streams -> StreamRecord] /\ c \in StreamRecord /\ StreamFits(c) /\ slots \in Nat
      /\ source \in Source /\ told \in Nat /\ passed \in Nat /\ MaxDropped \in Nat /\ Room \in Nat
      /\ s \in Held <=> c.at \in {"taken", "open"}
      /\ s \in Held => slots > 0
      /\ world \in Nat
  BY LiveAssumption, HeldIsCounted DEF LiveInv, LiveTyped, Source, Held
<1>1. UNCHANGED <<world, unannounced, page, told, passed>>
  BY DEF Keepalive, Accept, Start, StartFails, Ends, tabVars
<1>2. /\ c.buf \in Seq(Nat) /\ c.dropped \in Nat /\ c.offered \in Nat /\ c.released \in BOOLEAN
      /\ c.at \in {"none", "taken", "open", "closed", "refused"}
  BY <1>0 DEF StreamRecord
<1>3. ASSUME Keepalive(s)
      PROVE  LiveInv'
  <2> DEFINE n == c.dropped + 1
             d == [c EXCEPT !.dropped = n]
             b == Append(c.buf, Resync)
             e == [[c EXCEPT !.dropped = 0] EXCEPT !.buf = b]
  <2>1. c.at = "open" /\ UNCHANGED source /\ slots' = IF stream'[s].released THEN Released(c, slots) ELSE slots
    BY <1>3 DEF Keepalive, tabVars
  <2>2. n \in Nat /\ n > 0 /\ b \in Seq(Nat) /\ Elems(b) = Elems(c.buf) \cup {Resync}
    BY <1>2, ElemsOfAppend DEF Resync
  <2>3. \/ stream' = [stream EXCEPT ![s] = d]
        \/ stream' = [stream EXCEPT ![s] = Shut(d)]
        \/ stream' = [stream EXCEPT ![s] = e]
    <3>1. CASE Len(c.buf) >= Room /\ stream' = [stream EXCEPT ![s] = IF d.dropped >= MaxDropped THEN Shut(d) ELSE d]
      BY <3>1
    <3>2. CASE stream' = [stream EXCEPT ![s].dropped = 0, ![s].buf = Append(@, Resync)]
      BY <1>0, <1>2, <3>2 DEF StreamRecord
    <3> QED
      BY <1>3, <3>1, <3>2 DEF Keepalive
  <2> HIDE DEF n, b
  <2>4. /\ d \in StreamRecord /\ d.at = "open" /\ d.released = c.released /\ d.buf = c.buf
        /\ d.dropped = n /\ d.offered = c.offered
    BY <1>2, <1>0, <2>1, <2>2 DEF StreamRecord
  <2>5. /\ e \in StreamRecord /\ e.at = "open" /\ e.released = c.released /\ e.buf = b
        /\ e.dropped = 0 /\ e.offered = c.offered
    BY <1>2, <1>0, <2>1, <2>2 DEF StreamRecord
  <2> HIDE DEF d, e
  <2>6. /\ Shut(d) \in StreamRecord /\ Shut(d).at = "closed" /\ Shut(d).released /\ Shut(d).buf = c.buf
        /\ Shut(d).offered = c.offered
    BY <2>4 DEF Shut, StreamRecord
  <2>7. StreamFits(d) /\ StreamFits(e) /\ StreamFits(Shut(d)) /\ ~c.released
    BY <1>0, <2>1, <2>2, <2>4, <2>5, <2>6 DEF StreamFits, Resync
  <2>8. Covered(d) /\ Covered(e)
    BY <2>2, <2>4, <2>5 DEF Covered
  <2>9. CASE stream' = [stream EXCEPT ![s] = d]
    <3>1. slots' = slots
      BY <1>0, <2>1, <2>4, <2>7, <2>9
    <3> QED
      BY <1>0, <1>1, <2>1, <2>4, <2>7, <2>8, <2>9, <3>1, OneStreamInv
  <2>10. CASE stream' = [stream EXCEPT ![s] = e]
    <3>1. slots' = slots
      BY <1>0, <2>1, <2>5, <2>7, <2>10
    <3> QED
      BY <1>0, <1>1, <2>1, <2>5, <2>7, <2>8, <2>10, <3>1, OneStreamInv
  <2>11. CASE stream' = [stream EXCEPT ![s] = Shut(d)]
    <3>1. slots' = slots - 1
      BY <1>0, <2>1, <2>6, <2>7, <2>11 DEF Released
    <3> QED
      BY <1>0, <1>1, <2>1, <2>6, <2>7, <2>11, <3>1, OneStreamInv
  <2> QED
    BY <2>3, <2>9, <2>10, <2>11
<1>4. ASSUME Accept(s)
      PROVE  LiveInv'
  <2>1. PICK at \in {"taken", "refused"} :
           /\ stream' = [stream EXCEPT ![s] = [c EXCEPT !.at = at]]
           /\ slots' = IF at = "taken" THEN slots + 1 ELSE slots
    BY <1>0, <1>4 DEF Accept
  <2>2. c.at = "none" /\ source' \in Source /\ source'.on = source.on /\ (source.on # s => source' = source)
    BY <1>0, <1>4 DEF Accept, Dialling, Source
  <2> DEFINE d == [c EXCEPT !.at = at]
  <2>3. d \in StreamRecord /\ d.at = at /\ StreamFits(d)
    BY <1>0, <1>2, <2>1, <2>2 DEF StreamRecord, StreamFits
  <2> HIDE DEF d
  <2>4. stream' = [stream EXCEPT ![s] = d]
    BY <2>1 DEF d
  <2> QED
    BY <1>0, <1>1, <2>1, <2>2, <2>3, <2>4, OneStreamInv
<1>5. ASSUME Start(s)
      PROVE  LiveInv'
  <2> DEFINE d == [c EXCEPT !.at = "open"]
  <2>1. /\ c.at = "taken" /\ stream' = [stream EXCEPT ![s] = d] /\ slots' = slots
        /\ source' \in Source /\ source'.on = source.on /\ (source.on # s => source' = source)
    BY <1>0, <1>5 DEF Start, Dialling, Source
  <2>2. d \in StreamRecord /\ d.at = "open" /\ StreamFits(d) /\ d.offered = 0
    BY <1>0, <1>2, <2>1 DEF StreamRecord, StreamFits
  <2>3. Covered(d)
    BY <1>0, <2>2 DEF Covered
  <2> HIDE DEF d
  <2> QED
    BY <1>0, <1>1, <2>1, <2>2, <2>3, OneStreamInv
<1>6. ASSUME StartFails(s) \/ Ends(s)
      PROVE  LiveInv'
  <2>1. PICK b \in Seq(Nat) : /\ stream' = [stream EXCEPT ![s] = Shut([c EXCEPT !.buf = b])]
                              /\ \A x \in Elems(b) : x <= world
    <3>1. CASE StartFails(s)
      <4>1. c = [c EXCEPT !.buf = c.buf]
        BY <1>0 DEF StreamRecord
      <4> QED
        BY <1>0, <1>2, <3>1, <4>1 DEF StartFails, StreamFits
    <3>2. CASE Ends(s)
      <4>1. <<>> \in Seq(Nat) /\ Elems(<<>>) = {}
        BY EmptySeq, ElemsOfEmpty
      <4> QED
        BY <3>2, <4>1 DEF Ends
    <3> QED
      BY <1>6, <3>1, <3>2
  <2> DEFINE d == Shut([c EXCEPT !.buf = b])
  <2>2. /\ c.at \in {"taken", "open", "closed"} /\ slots' = Released(c, slots)
        /\ source' \in Source /\ source'.on = source.on /\ (source.on # s => source' = source)
    BY <1>0, <1>6 DEF StartFails, Ends, Dialling, Source, tabVars
  <2>3. d \in StreamRecord /\ d.at = "closed" /\ StreamFits(d)
    BY <1>0, <1>2, <2>1 DEF Shut, StreamRecord, StreamFits
  <2> HIDE DEF d
  <2>4. slots' = IF s \in Held THEN slots - 1 ELSE slots
    BY <1>0, <1>2, <2>2 DEF Released, StreamFits
  <2>5. stream' = [stream EXCEPT ![s] = d]
    BY <2>1 DEF d
  <2> QED
    BY <1>0, <1>1, <2>2, <2>3, <2>4, <2>5, OneStreamInv
<1> QED
  BY <1>3, <1>4, <1>5, <1>6

\* A change, and its publication to all streams at once.
LEMMA PublishInv ==
    ASSUME LiveInv, Change \/ \E v \in unannounced : Publish(v)
    PROVE  LiveInv'
<1>0. /\ LiveTyped /\ SlotsAreCounted /\ RouterFits /\ ToBeShown
      /\ \A s \in Streams : StreamFits(stream[s])
      /\ source.at = "open" /\ stream[source.on].at = "open" => Covered(stream[source.on])
  BY DEF LiveInv
<1>1. CASE Change
  <2>1. /\ world' = world + 1 /\ unannounced' = unannounced \cup {world + 1}
        /\ UNCHANGED <<stream, slots, source, page, told, passed>>
    BY <1>1 DEF Change, tabVars
  <2>2. world \in Nat /\ world' \in Nat /\ unannounced' \subseteq 1 .. world'
    BY <1>0, <2>1 DEF LiveTyped
  <2>3. LiveTyped'
    BY <1>0, <2>1, <2>2 DEF LiveTyped
  <2>4. SlotsAreCounted' /\ ToBeShown'
    BY <1>0, <2>1 DEF SlotsAreCounted, ToBeShown, First
  <2>5. ASSUME NEW s \in Streams
        PROVE  StreamFits(stream[s])'
    <3>1. stream[s].offered \in Nat /\ stream[s].buf \in Seq(Nat) /\ Elems(stream[s].buf) \subseteq Nat
      BY <1>0, ElemsAreOf DEF LiveTyped, StreamRecord
    <3>2. StreamFits(stream[s]) /\ stream'[s] = stream[s]
      BY <1>0, <2>1
    <3>3. stream[s].offered <= world' /\ \A x \in Elems(stream[s].buf) : x <= world'
      <4>1. stream[s].offered <= world /\ \A x \in Elems(stream[s].buf) : x <= world /\ x \in Nat
        BY <3>1, <3>2 DEF StreamFits
      <4> QED
        BY <2>1, <2>2, <3>1, <4>1
    <3> QED
      BY <3>2, <3>3 DEF StreamFits
  <2>6. RouterFits'
    BY <1>0, <2>1, <2>2 DEF RouterFits, First, LiveTyped, PageRecord
  <2>7. source'.at = "open" /\ stream'[source'.on].at = "open" => Covered(stream[source.on])'
    BY <1>0, <2>1 DEF Covered
  <2> QED
    BY <2>3, <2>4, <2>5, <2>6, <2>7 DEF LiveInv
<1>2. CASE \E v \in unannounced : Publish(v)
  <2>1. PICK v \in unannounced : Publish(v)
    BY <1>2
  <2> DEFINE gone == {s \in Streams : stream'[s].released /\ ~stream[s].released}
  <2>2. /\ unannounced' = unannounced \ {v} /\ stream' = [s \in Streams |-> Offered(stream[s], v)]
        /\ slots' = slots - Cardinality(gone) /\ UNCHANGED <<world, source, page, told, passed>>
        /\ v \in 1 .. world /\ world \in Nat /\ told \in Nat /\ passed \in Nat
    BY <1>0, <2>1 DEF Publish, tabVars, LiveTyped
  <2>3. ASSUME NEW s \in Streams
        PROVE  /\ stream'[s] \in StreamRecord /\ StreamFits(stream'[s])
               /\ stream'[s].at = stream[s].at \/ (stream[s].at = "open" /\ stream'[s].at = "closed")
               /\ stream'[s].at = "open" /\ Covered(stream[s]) => Covered(stream'[s])
    <3>1. stream[s] \in StreamRecord /\ StreamFits(stream[s])
      BY <1>0 DEF LiveTyped
    <3> QED
      BY <2>2, <3>1, OfferedFits
  <2>4. gone = {s \in Held : stream'[s].at = "closed"} /\ Held' = Held \ gone
    <3>1. \A s \in Streams : /\ stream[s].released <=> stream[s].at = "closed"
                             /\ stream'[s].released <=> stream'[s].at = "closed"
      BY <1>0, <2>3 DEF StreamFits
    <3> QED
      BY <2>3, <3>1 DEF Held
  <2>5. slots' = Cardinality(Held') /\ slots' \in Nat
    <3>1. slots = Cardinality(Held)
      BY <1>0 DEF SlotsAreCounted, Held
    <3>2. Cardinality(Held \ gone) = Cardinality(Held) - Cardinality(Held \cap gone) /\ IsFiniteSet(Held \ gone)
      BY HeldIsFinite, FS_Difference
    <3>3. Held \cap gone = gone
      BY <2>4
    <3> QED
      <4> HIDE DEF gone
      <4>1. Cardinality(Held \ gone) \in Nat
        BY <3>2, FS_CardinalityType
      <4>2. slots' = Cardinality(Held \ gone)
        BY <2>2, <3>1, <3>2, <3>3
      <4> QED
        BY <2>4, <4>1, <4>2
  <2>6. SlotsAreCounted'
    BY <2>5 DEF SlotsAreCounted, Held
  <2>7. LiveTyped'
    <3>1. stream' \in [Streams -> StreamRecord]
      BY <2>2, <2>3
    <3> QED
      BY <1>0, <2>2, <2>5, <3>1 DEF LiveTyped
  <2>8. \A s \in Streams : StreamFits(stream[s])'
    BY <2>2, <2>3 DEF StreamFits
  <2>9. source'.at = "open" /\ stream'[source'.on].at = "open" => Covered(stream[source.on])'
    <3>1. source.on \in Streams
      BY <1>0 DEF LiveTyped
    <3>2. source.at = "open" /\ stream'[source.on].at = "open" => Covered(stream'[source.on])
      BY <1>0, <2>3, <3>1
    <3> QED
      BY <2>2, <3>2 DEF Covered
  <2>10. RouterFits' /\ ToBeShown'
    BY <1>0, <2>2 DEF RouterFits, ToBeShown, First
  <2> QED
    BY <2>6, <2>7, <2>8, <2>9, <2>10 DEF LiveInv
<1> QED
  BY <1>1, <1>2

\* Asking the router keeps what it does, and adds a refresh unless one waits.
LEMMA AskedFits ==
    ASSUME NEW p \in PageRecord, Len(p.router) <= 2, \A i \in 2 .. Len(p.router) : p.router[i] = "refresh"
    PROVE  /\ Asked(p) \in PageRecord /\ Asked(p).router # <<>>
           /\ Asked(p).shows = p.shows /\ Asked(p).read = p.read /\ Asked(p).timer = p.timer
           /\ Len(Asked(p).router) <= 2
           /\ \A i \in 2 .. Len(Asked(p).router) : Asked(p).router[i] = "refresh"
           /\ p.router = <<>> => Asked(p).router[1] = "refresh"
           /\ p.router # <<>> => Len(Asked(p).router) > 1 /\ Asked(p).router[1] = p.router[1]
<1>1. p.router \in Seq(Actions) /\ Len(p.router) \in Nat /\ "refresh" \in Actions
  BY LenProperties DEF PageRecord, Actions
<1>2. CASE Len(p.router) > 1
  <2>1. p.router # <<>>
    BY <1>2, EmptySeq
  <2>2. Asked(p) = p
    BY <1>2 DEF Asked
  <2> DEFINE q == Asked(p)
  <2> HIDE DEF q
  <2>3. q = p /\ \A i \in 2 .. Len(p.router) : p.router[i] = "refresh"
    BY <2>2 DEF q
  <2>4. \A i \in 2 .. Len(q.router) : q.router[i] = "refresh"
    BY <2>3
  <2>5. q \in PageRecord /\ q.router # <<>> /\ q.shows = p.shows /\ q.read = p.read /\ q.timer = p.timer
    BY <2>1, <2>3
  <2>6. Len(q.router) <= 2 /\ Len(q.router) > 1 /\ q.router[1] = p.router[1]
    BY <1>2, <2>3
  <2> QED
    BY <2>1, <2>4, <2>5, <2>6 DEF q
<1>3. CASE ~(Len(p.router) > 1)
  <2> DEFINE r == Append(p.router, "refresh")
  <2>1. /\ r \in Seq(Actions) /\ Len(r) = Len(p.router) + 1 /\ r[Len(p.router) + 1] = "refresh"
        /\ \A i \in 1 .. Len(p.router) : r[i] = p.router[i]
    BY <1>1, AppendProperties
  <2> HIDE DEF r
  <2>2. r # <<>> /\ (p.router = <<>> => Len(p.router) = 0) /\ (p.router # <<>> => Len(p.router) = 1)
    <3> DEFINE b == p.router
    <3>1. Len(r) # 0 /\ b \in Seq(Actions) /\ r \in Seq(Actions) /\ ~(Len(b) > 1)
      BY <1>1, <1>3, <2>1
    <3> HIDE DEF b
    <3>2. Len(<<>>) = 0 /\ (b # <<>> => Len(b) \in Nat \ {0})
      <4>1. Len(<<>>) = 0
        BY EmptySeq
      <4>2. b # <<>> => Len(b) \in Nat \ {0}
        BY <3>1, EmptySeq, Zenon
      <4> QED
        BY <4>1, <4>2
    <3>3. r # <<>> /\ (b = <<>> => Len(b) = 0)
      BY <3>1, <3>2
    <3>4. b # <<>> => Len(b) = 1
      <4> SUFFICES ASSUME b # <<>> PROVE Len(b) = 1
        OBVIOUS
      <4> DEFINE n == Len(b)
      <4>1. n \in Nat \ {0} /\ ~(n > 1)
        BY <3>1, <3>2
      <4> HIDE DEF n
      <4>2. n = 1
        BY <4>1
      <4> QED
        BY <4>2 DEF n
    <3> QED
      BY <3>3, <3>4 DEF b
  <2>3. Asked(p) = [p EXCEPT !.router = r]
    BY <1>3 DEF Asked, r
  <2>4. /\ Asked(p) \in PageRecord /\ Asked(p).router = r
        /\ Asked(p).shows = p.shows /\ Asked(p).read = p.read /\ Asked(p).timer = p.timer
    BY <2>1, <2>3 DEF PageRecord
  <2>5. /\ Len(r) <= 2 /\ \A i \in 2 .. Len(r) : r[i] = "refresh"
        /\ p.router = <<>> => r[1] = "refresh"
        /\ p.router # <<>> => Len(r) > 1 /\ r[1] = p.router[1]
    BY <1>1, <1>3, <2>1, <2>2
  <2> QED
    BY <2>2, <2>4, <2>5
<1> QED
  BY <1>2, <1>3

\* The tab's connection: it goes on to a stream it has not read yet.
LEMMA SourceInv ==
    ASSUME LiveInv, Redial \/ Pause \/ Resume
    PROVE  LiveInv'
<1>1. UNCHANGED <<world, unannounced, stream, slots, page, told, passed>> /\ source'.at # "open"
  BY DEF Redial, Pause, Resume, serverVars, LiveInv, LiveTyped
<1>2. source' \in Source
  BY LiveAssumption DEF Redial, Pause, Resume, NextStream, Source, LiveInv, LiveTyped, Streams
<1>3. LiveTyped'
  BY <1>1, <1>2 DEF LiveInv, LiveTyped, Source
<1> QED
  BY <1>1, <1>3 DEF LiveInv, SlotsAreCounted, StreamFits, RouterFits, ToBeShown, First

\* A message: what it told of is on its way to be shown, or counts as passed.
LEMMA HearInv ==
    ASSUME LiveInv, Hear
    PROVE  LiveInv'
<1> DEFINE s == source.on
           c == stream[s]
           m == Head(c.buf)
           v == IF m = Resync THEN c.offered ELSE m
           late == m # Resync /\ Navigating /\ page.router[1] = "arrive"
<1>0. /\ LiveTyped /\ SlotsAreCounted /\ RouterFits /\ ToBeShown
      /\ \A x \in Streams : StreamFits(stream[x])
      /\ s \in Streams /\ c \in StreamRecord /\ StreamFits(c) /\ source.at = "open"
      /\ c.at = "open" => Covered(c)
      /\ page \in PageRecord /\ world \in Nat /\ told \in Nat /\ passed \in Nat
      /\ c.buf \in Seq(Nat) /\ c.buf # <<>> /\ c.offered \in Nat /\ c.dropped \in Nat
  BY DEF LiveInv, LiveTyped, Hear, StreamRecord
<1>1. /\ stream' = [stream EXCEPT ![s].buf = Tail(@)]
      /\ page' = IF m = Resync THEN Asked(page) ELSE Scheduled(page)
      /\ IF late THEN passed' = Newer(passed, v) /\ UNCHANGED told
                 ELSE told' = Newer(told, v) /\ UNCHANGED passed
      /\ UNCHANGED <<world, unannounced, slots, source>>
  BY DEF Hear
<1>2. /\ m \in Nat /\ Tail(c.buf) \in Seq(Nat) /\ m \in Elems(c.buf) /\ Elems(Tail(c.buf)) \subseteq Elems(c.buf)
  BY <1>0, ElemsOfTail
<1>3. \A x \in Elems(c.buf) : x = m \/ x \in Elems(Tail(c.buf))
  <2> DEFINE b == c.buf
  <2> SUFFICES ASSUME NEW x \in Elems(b), x # Head(b) PROVE x \in Elems(Tail(b))
    OBVIOUS
  <2>1. /\ Head(b) = b[1] /\ Tail(b) \in Seq(Nat) /\ Len(b) \in Nat \ {0} /\ DOMAIN b = 1 .. Len(b)
        /\ Len(Tail(b)) = Len(b) - 1 /\ DOMAIN Tail(b) = 1 .. Len(Tail(b))
        /\ \A i \in 1 .. Len(Tail(b)) : Tail(b)[i] = b[i + 1]
    BY <1>0, HeadTailProperties, LenProperties
  <2>2. PICK i \in 1 .. Len(b) : x = b[i]
    BY <2>1 DEF Elems
  <2>3. i - 1 \in 1 .. Len(Tail(b)) /\ (i - 1) + 1 = i
    BY <2>1, <2>2
  <2>4. Tail(b)[i - 1] = x
    BY <2>1, <2>2, <2>3
  <2> QED
    BY <2>1, <2>3, <2>4 DEF Elems
<1>4. v \in Nat /\ v <= world /\ (m = Resync => v = c.offered) /\ (m # Resync => v = m)
  BY <1>0, <1>2 DEF StreamFits
<1> DEFINE d == [c EXCEPT !.buf = Tail(c.buf)]
<1>5. /\ stream' = [stream EXCEPT ![s] = d]
      /\ d \in StreamRecord /\ d.at = c.at /\ d.released = c.released /\ d.dropped = c.dropped
      /\ d.offered = c.offered /\ d.buf = Tail(c.buf)
  BY <1>0, <1>1, <1>2 DEF StreamRecord
<1>6. /\ stream'[s] = d /\ \A x \in Streams : x # s => stream'[x] = stream[x]
      /\ stream' \in [Streams -> StreamRecord]
  BY <1>0, <1>5 DEF LiveTyped
<1>7. /\ told' \in Nat /\ passed' \in Nat /\ told' >= told /\ passed' >= passed /\ told' <= world
      /\ told' >= v \/ passed' >= v
      /\ late => told' = told
      /\ told' = told \/ told' = v
  <2>1. /\ told \in Nat /\ passed \in Nat /\ v \in Nat /\ v <= world /\ world \in Nat /\ told <= world
        /\ IF late THEN passed' = Newer(passed, v) /\ UNCHANGED told
                   ELSE told' = Newer(told, v) /\ UNCHANGED passed
    BY <1>0, <1>1, <1>4 DEF RouterFits
  <2> HIDE DEF v, late
  <2>2. CASE late
    BY <2>1, <2>2 DEF Newer
  <2>3. CASE ~late
    BY <2>1, <2>3 DEF Newer
  <2> QED
    BY <2>2, <2>3
<1> HIDE DEF s, c, m, v, late, d
<1>8. SlotsAreCounted'
  <2>1. \A x \in Streams : stream'[x].at = stream[x].at
    BY <1>5, <1>6 DEF c
  <2> QED
    BY <1>0, <1>1, <2>1 DEF SlotsAreCounted
<1>9. \A x \in Streams : StreamFits(stream[x])'
  <2>1. StreamFits(d)
    <3>1. c.at = "open" \/ c.at = "closed"
      BY <1>0 DEF StreamFits, StreamRecord
    <3> QED
      BY <1>0, <1>2, <1>5, <3>1 DEF StreamFits
  <2> QED
    BY <1>0, <1>1, <1>6, <2>1 DEF StreamFits
<1>10. source'.at = "open" /\ stream'[source'.on].at = "open" => Covered(stream[source.on])'
  <2> SUFFICES ASSUME c.at = "open"
               PROVE  \/ d.offered <= told' \/ d.offered <= passed' \/ d.dropped > 0
                      \/ \E x \in Elems(d.buf) : x = Resync \/ x >= d.offered
    BY <1>1, <1>5, <1>6 DEF Covered, s
  <2>1. Covered(c)
    BY <1>0
  <2>2. CASE \E x \in Elems(c.buf) : x = Resync \/ x >= c.offered
    <3>1. PICK x \in Elems(c.buf) : x = Resync \/ x >= c.offered
      BY <2>2
    <3>2. CASE x = m
      BY <1>0, <1>2, <1>4, <1>5, <1>7, <3>1, <3>2
    <3>3. CASE x \in Elems(Tail(c.buf))
      BY <1>5, <3>1, <3>3
    <3> QED
      BY <1>3, <3>1, <3>2, <3>3
  <2> QED
    BY <1>0, <1>5, <1>7, <2>1, <2>2 DEF Covered
<1>11. page' \in PageRecord /\ RouterFits' /\ ToBeShown'
  <2>1. CASE m = Resync
    <3>1. page' = Asked(page) /\ ~late
      BY <1>1, <2>1 DEF late
    <3>2. /\ page' \in PageRecord /\ page'.router # <<>>
          /\ page'.shows = page.shows /\ page'.read = page.read /\ page'.timer = page.timer
          /\ Len(page'.router) <= 2
          /\ \A i \in 2 .. Len(page'.router) : page'.router[i] = "refresh"
          /\ page.router = <<>> => page'.router[1] = "refresh"
          /\ page.router # <<>> => Len(page'.router) > 1 /\ page'.router[1] = page.router[1]
      BY <1>0, <3>1, AskedFits DEF RouterFits
    <3>3. RouterFits'
      BY <1>0, <1>1, <1>7, <3>2 DEF RouterFits, First
    <3>4. ToBeShown'
      BY <3>2 DEF ToBeShown, First
    <3> QED
      BY <3>2, <3>3, <3>4
  <2>2. CASE m # Resync
    <3>1. /\ page' \in PageRecord /\ page'.router = page.router /\ page'.shows = page.shows
          /\ page'.read = page.read /\ page'.timer = TRUE
      BY <1>0, <1>1, <2>2 DEF Scheduled, Pending, PageRecord
    <3>2. page.router # <<>> /\ First = "arrive" => told' = told
      BY <1>7, <2>2 DEF late, Navigating, First
    <3>3. RouterFits'
      BY <1>0, <1>1, <1>7, <3>1, <3>2 DEF RouterFits, First
    <3>4. ToBeShown'
      BY <3>1 DEF ToBeShown
    <3> QED
      BY <3>1, <3>3, <3>4
  <2> QED
    BY <2>1, <2>2
<1>12. LiveTyped'
  BY <1>0, <1>1, <1>6, <1>7, <1>11 DEF LiveTyped
<1> QED
  BY <1>8, <1>9, <1>10, <1>11, <1>12 DEF LiveInv

\* What the page does by itself.
LEMMA PageInv ==
    ASSUME LiveInv, TimerFires \/ Render \/ Land \/ Navigate
    PROVE  LiveInv'
<1>0. /\ LiveTyped /\ RouterFits /\ ToBeShown /\ page \in PageRecord /\ world \in Nat /\ told \in Nat
      /\ page.router \in Seq(Actions) /\ Len(page.router) \in Nat /\ page.shows \in Nat /\ page.read \in Nat
      /\ page.timer \in BOOLEAN
      /\ page.router # <<>> => Len(page.router) > 0 /\ Head(page.router) = First /\ First \in Actions
  <2>1. LiveTyped /\ RouterFits /\ ToBeShown /\ page \in PageRecord /\ world \in Nat /\ told \in Nat
    BY DEF LiveInv, LiveTyped
  <2>2. /\ page.router \in Seq(Actions) /\ Len(page.router) \in Nat /\ page.shows \in Nat
        /\ page.read \in Nat /\ page.timer \in BOOLEAN
    BY <2>1, LenProperties DEF PageRecord
  <2>3. page.router # <<>> => Len(page.router) > 0 /\ Head(page.router) = First /\ First \in Actions
    BY <2>2, LatestOf DEF First
  <2> QED
    BY <2>1, <2>2, <2>3
<1>1. UNCHANGED <<world, unannounced, stream, slots, source, told, passed>>
  BY DEF TimerFires, Render, Land, Navigate, serverVars
<1>2. page' \in PageRecord /\ RouterFits' /\ ToBeShown'
  <2>1. CASE TimerFires
    <3> DEFINE p == [page EXCEPT !.timer = FALSE]
    <3>1. /\ p \in PageRecord /\ p.router = page.router /\ p.shows = page.shows /\ p.read = page.read
          /\ page' = Asked(p)
      BY <1>0, <2>1 DEF TimerFires, PageRecord
    <3> HIDE DEF p
    <3>2. /\ page' \in PageRecord /\ page'.router # <<>>
          /\ page'.shows = page.shows /\ page'.read = page.read
          /\ Len(page'.router) <= 2
          /\ \A i \in 2 .. Len(page'.router) : page'.router[i] = "refresh"
          /\ page.router = <<>> => page'.router[1] = "refresh"
          /\ page.router # <<>> => Len(page'.router) > 1 /\ page'.router[1] = page.router[1]
      BY <1>0, <3>1, AskedFits DEF RouterFits
    <3>3. RouterFits'
      BY <1>0, <1>1, <3>2 DEF RouterFits, First
    <3>4. ToBeShown'
      BY <3>2 DEF ToBeShown, First
    <3> QED
      BY <3>2, <3>3, <3>4
  <2>2. CASE Render
    <3> DEFINE a == IF First = "navigate" THEN "arrive" ELSE "land"
               r == [page.router EXCEPT ![1] = a]
    <3>1. page.router # <<>> /\ First \in {"refresh", "navigate"} /\ 1 \in 1 .. Len(page.router) /\ a \in Actions
      BY <1>0, <2>2 DEF Render, Actions
    <3>2. /\ r \in Seq(Actions) /\ Len(r) = Len(page.router)
          /\ \A j \in 1 .. Len(page.router) : r[j] = IF j = 1 THEN a ELSE page.router[j]
      BY <1>0, <3>1, ExceptSeq
    <3>3. page' = [[page EXCEPT !.read = world] EXCEPT !.router = r]
      BY <1>0, <2>2 DEF Render, PageRecord, First
    <3> HIDE DEF r
    <3>4. /\ page' \in PageRecord /\ page'.router = r /\ page'.read = world /\ page'.shows = page.shows
      BY <1>0, <3>2, <3>3 DEF PageRecord
    <3>5. RouterFits'
      BY <1>0, <1>1, <3>1, <3>2, <3>4 DEF RouterFits, First
    <3>6. ToBeShown'
      BY <1>0, <1>1, <3>1, <3>2, <3>4, EmptySeq DEF RouterFits, ToBeShown
    <3> QED
      BY <3>4, <3>5, <3>6
  <2>3. CASE Land
    <3> DEFINE r == Tail(page.router)
               t == page.timer /\ First = "land"
    <3>1. page.router # <<>> /\ First \in {"land", "arrive"}
      BY <1>0, <2>3 DEF Land
    <3>2. /\ r \in Seq(Actions) /\ Len(r) = Len(page.router) - 1
          /\ \A i \in 1 .. Len(r) : r[i] = page.router[i + 1]
      BY <1>0, <3>1, HeadTailProperties
    <3>3. page' = [[[[page EXCEPT !.shows = page.read] EXCEPT !.read = 0] EXCEPT !.router = r] EXCEPT !.timer = t]
      BY <1>0, <2>3 DEF Land, PageRecord, First
    <3>4. t \in BOOLEAN
      OBVIOUS
    <3> HIDE DEF r, t
    <3>5. /\ page' \in PageRecord /\ page'.router = r /\ page'.read = 0 /\ page'.shows = page.read
          /\ page'.timer = t
      BY <1>0, <3>2, <3>3, <3>4 DEF PageRecord
    <3>6. /\ Len(r) <= 1 /\ \A i \in 1 .. Len(r) : r[i] = "refresh"
      BY <1>0, <3>2 DEF RouterFits
    <3>7. r # <<>> => Len(r) > 0 /\ r[1] = "refresh"
      BY <3>2, <3>6, EmptySeq
    <3>8. Len(page.router) > 1 => r # <<>>
      BY <1>0, <3>2, EmptySeq
    <3>9. RouterFits'
      BY <1>0, <1>1, <3>2, <3>5, <3>6, <3>7 DEF RouterFits, First
    <3>10. ToBeShown'
      <4>1. CASE r # <<>>
        BY <3>5, <3>7, <4>1 DEF ToBeShown, First
      <4>2. CASE r = <<>> /\ First = "arrive"
        BY <1>0, <1>1, <3>1, <3>5, <3>8, <4>2 DEF RouterFits, ToBeShown
      <4>3. CASE r = <<>> /\ First = "land"
        BY <1>0, <1>1, <3>1, <3>5, <3>8, <4>3 DEF RouterFits, ToBeShown, t
      <4> QED
        BY <3>1, <4>1, <4>2, <4>3
    <3> QED
      BY <3>5, <3>9, <3>10
  <2>4. CASE Navigate
    <3> DEFINE q == IF page.router = <<>> THEN <<>> ELSE Tail(page.router)
               r == <<"navigate">> \o q
    <3>1. q \in Seq(Actions) /\ Len(q) <= 1 /\ \A i \in 1 .. Len(q) : q[i] = "refresh"
      <4>1. CASE page.router = <<>>
        BY <4>1, EmptySeq
      <4>2. CASE page.router # <<>>
        <5>1. /\ Tail(page.router) \in Seq(Actions) /\ Len(Tail(page.router)) = Len(page.router) - 1
              /\ \A i \in 1 .. Len(Tail(page.router)) : Tail(page.router)[i] = page.router[i + 1]
          BY <1>0, <4>2, HeadTailProperties
        <5> QED
          BY <1>0, <4>2, <5>1 DEF RouterFits
      <4> QED
        BY <4>1, <4>2
    <3> HIDE DEF q
    <3>2. <<"navigate">> \in Seq(Actions) /\ Len(<<"navigate">>) = 1 /\ <<"navigate">>[1] = "navigate"
      BY DEF Actions
    <3>3. /\ r \in Seq(Actions) /\ Len(r) = 1 + Len(q) /\ r[1] = "navigate"
          /\ \A i \in 2 .. Len(r) : r[i] = q[i - 1]
      <4>1. /\ r \in Seq(Actions) /\ Len(r) = Len(<<"navigate">>) + Len(q)
            /\ \A i \in 1 .. Len(<<"navigate">>) + Len(q) : r[i] =
                  IF i <= Len(<<"navigate">>) THEN <<"navigate">>[i] ELSE q[i - Len(<<"navigate">>)]
        BY <3>1, <3>2, ConcatProperties
      <4>2. Len(q) \in Nat
        BY <3>1, LenProperties
      <4> QED
        BY <3>2, <4>1, <4>2
    <3>4. page' = [[page EXCEPT !.read = 0] EXCEPT !.router = r]
      BY <1>0, <2>4 DEF Navigate, PageRecord, q
    <3> HIDE DEF r
    <3>5. page' \in PageRecord /\ page'.router = r /\ page'.read = 0 /\ page'.shows = page.shows
      BY <1>0, <3>3, <3>4 DEF PageRecord
    <3>6. Len(r) <= 2 /\ \A i \in 2 .. Len(r) : r[i] = "refresh"
      <4>1. Len(q) \in Nat
        BY <3>1, LenProperties
      <4> QED
        BY <3>1, <3>3, <4>1
    <3>7. r # <<>>
      BY <3>1, <3>3, EmptySeq, LenProperties
    <3>8. RouterFits'
      BY <1>0, <1>1, <3>3, <3>5, <3>6 DEF RouterFits, First
    <3>9. ToBeShown'
      BY <3>3, <3>5, <3>7 DEF ToBeShown, First
    <3> QED
      BY <3>5, <3>8, <3>9
  <2> QED
    BY <2>1, <2>2, <2>3, <2>4
<1>3. LiveTyped'
  BY <1>0, <1>1, <1>2 DEF LiveTyped
<1>4. /\ SlotsAreCounted' /\ \A s \in Streams : StreamFits(stream[s])'
      /\ source'.at = "open" /\ stream'[source'.on].at = "open" => Covered(stream[source.on])'
  BY <1>1 DEF LiveInv, SlotsAreCounted, StreamFits, Covered
<1> QED
  BY <1>2, <1>3, <1>4 DEF LiveInv

\* A tab that just opened, and a server without streams.
LEMMA LiveInitInv == LiveInit => LiveInv
<1> SUFFICES ASSUME LiveInit PROVE LiveInv
  OBVIOUS
<1>1. NoStream \in StreamRecord /\ StreamFits(NoStream) /\ NoStream.at = "none" /\ 1 \in Streams
  BY LiveAssumption, EmptySeq, ElemsOfEmpty DEF LiveInit, NoStream, StreamRecord, StreamFits, Streams
<1>2. page \in PageRecord /\ page.router = <<>> /\ page.shows = 0 /\ page.read = 0
  BY EmptySeq DEF LiveInit, PageRecord
<1>3. LiveTyped
  BY <1>1, <1>2 DEF LiveInit, LiveTyped
<1>4. SlotsAreCounted
  <2>1. {s \in Streams : stream[s].at \in {"taken", "open"}} = {}
    BY <1>1 DEF LiveInit
  <2> QED
    BY <2>1, FS_EmptySet DEF LiveInit, SlotsAreCounted
<1>5. RouterFits /\ ToBeShown
  BY <1>2, EmptySeq DEF LiveInit, RouterFits, ToBeShown
<1> QED
  BY <1>1, <1>3, <1>4, <1>5 DEF LiveInit, LiveInv

\* No step breaks it.
LEMMA LiveNextInv == LiveInv /\ [LiveNext]_liveVars => LiveInv'
<1> SUFFICES ASSUME LiveInv, [LiveNext]_liveVars PROVE LiveInv'
  OBVIOUS
<1>1. CASE Change \/ \E v \in unannounced : Publish(v)
  BY <1>1, PublishInv
<1>2. ASSUME NEW s \in Streams, Keepalive(s) \/ Accept(s) \/ Start(s) \/ StartFails(s) \/ Ends(s)
      PROVE  LiveInv'
  BY <1>2, ServerInv
<1>3. CASE Redial \/ Pause \/ Resume
  BY <1>3, SourceInv
<1>4. CASE Hear
  BY <1>4, HearInv
<1>5. CASE TimerFires \/ Render \/ Land \/ Navigate
  BY <1>5, PageInv
<1>6. CASE UNCHANGED liveVars
  <2>1. UNCHANGED <<world, unannounced, stream, slots, source, page, told, passed>>
    BY <1>6 DEF liveVars, serverVars, tabVars
  <2> QED
    BY <2>1 DEF LiveInv, LiveTyped, SlotsAreCounted, StreamFits, Covered, RouterFits, ToBeShown, First
<1> QED
  BY <1>1, <1>2, <1>3, <1>4, <1>5, <1>6 DEF LiveNext

\* However many changes, streams and endings: a tab that has read its stream was told of
\* all it was offered, its page shows what it was told, and the slots counted are those held.
THEOREM ViewsAreKept == LiveSpec => []LiveViewIsKept
<1>1. LiveInv => LiveViewIsKept
  <2> SUFFICES ASSUME LiveInv PROVE LiveViewIsKept
    OBVIOUS
  <2>1. /\ SlotsAreCounted /\ ToBeShown /\ told \in Nat /\ passed \in Nat /\ page \in PageRecord
        /\ source.at = "open" /\ stream[source.on].at = "open" => Covered(stream[source.on])
        /\ stream[source.on] \in StreamRecord
    BY DEF LiveInv, LiveTyped
  <2>2. ASSUME Settled
        PROVE  page.shows >= told
    BY <2>1, <2>2 DEF Settled, ToBeShown, PageRecord
  <2>3. ASSUME source.at = "open", stream[source.on].at = "open", stream[source.on].buf = <<>>,
               stream[source.on].dropped = 0
        PROVE  Newer(told, passed) >= stream[source.on].offered
    BY <2>1, <2>3, ElemsOfEmpty DEF Covered, Newer, StreamRecord
  <2> QED
    BY <2>1, <2>2, <2>3 DEF LiveViewIsKept, ViewCatchesUp
<1> QED
  BY <1>1, LiveInitInv, LiveNextInv, PTL DEF LiveSpec
=============================================================================
