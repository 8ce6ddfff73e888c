------------------------------- MODULE LiveView -------------------------------
(***************************************************************************)
(* Keeping an open page of the panel current: the bus (lib/events/bus.ts),   *)
(* the streams of one session (app/api/events/route.ts), and the browser's  *)
(* side (components/panel/event-stream.tsx, live-refresh.tsx).              *)
(*                                                                         *)
(* What pages show is counted in changes: whoever makes one writes it and    *)
(* publishes it later.  A stream queues events while it has room, counts    *)
(* those it has none for, and says so when it has room again.  The page     *)
(* reads everything anew at most once an interval.  The browser's            *)
(* EventSource and Next's router (one action at a time, the rest queued, a  *)
(* navigation ahead of them) are modelled from how the code uses them.      *)
(*                                                                         *)
(* Left out: kinds of events, which only choose among pages, and keepalives *)
(* but for what they do to a stream with no room, or that had none.         *)
(***************************************************************************)
EXTENDS Naturals, Sequences, FiniteSets

CONSTANTS
    MaxChanges,   \* bound: changes to what pages show
    MaxStreams,   \* bound: times a tab connects
    StreamLimit,  \* MAX_STREAMS_PER_SESSION
    Room,         \* STREAM_BUFFER_BYTES, in events
    MaxDropped    \* MAX_DROPPED_BEFORE_CLOSE

ASSUME LiveAssumption == {MaxStreams, StreamLimit, Room, MaxDropped} \subseteq Nat \ {0}

VARIABLES
    world,        \* changes made
    unannounced,  \* changes not yet published
    stream,       \* the server's end of each connection
    slots,        \* openStreams, of this session
    source,       \* the tab's EventSource, and the stream it reads
    page,         \* what the tab shows, and which refreshes it has under way
    told,         \* history: the newest change the tab was told of and has to show
    passed        \* history: the same, told when the next page had been read already

serverVars == <<world, unannounced, stream, slots>>
tabVars    == <<source, page, told, passed>>
liveVars   == <<serverVars, tabVars>>

Streams == 1 .. MaxStreams
Resync  == 0

\* buf holds changes and Resync; offered is history: what was queued or dropped.
NoStream == [at |-> "none", buf |-> <<>>, dropped |-> 0, offered |-> 0, released |-> FALSE]

LiveInit ==
    /\ world = 0 /\ unannounced = {} /\ stream = [s \in Streams |-> NoStream] /\ slots = 0
    /\ source = [at |-> "connecting", on |-> 1]
    /\ page = [shows |-> 0, timer |-> FALSE, router |-> <<>>, read |-> 0]
    /\ told = 0 /\ passed = 0

Newer(a, b) == IF a > b THEN a ELSE b

(***************************************************************************)
(* The server: streams and the bus                                          *)
(***************************************************************************)

\* release: this connection's slot, given back once.
Released(c, n) == IF c.released THEN n ELSE IF n > 0 THEN n - 1 ELSE 0

\* close(), by whichever ending comes first; what was queued is still read.
Shut(c) == [c EXCEPT !.at = "closed", !.released = TRUE]

\* write(): queued when there is room, after the word that events are missing.
Offered(c, v) ==
    LET o == [c EXCEPT !.offered = Newer(@, v)] IN
    CASE c.at # "open" -> c
      [] c.at = "open" /\ Len(c.buf) >= Room ->
            LET d == [o EXCEPT !.dropped = @ + 1] IN
            IF d.dropped >= MaxDropped THEN Shut(d) ELSE d
      [] OTHER ->
            [o EXCEPT !.dropped = 0,
                      !.buf = @ \o (IF c.dropped > 0 THEN <<Resync>> ELSE <<>>) \o <<v>>]

Change ==
    /\ world < MaxChanges /\ world' = world + 1 /\ unannounced' = unannounced \cup {world + 1}
    /\ UNCHANGED <<stream, slots, tabVars>>

\* publish: to every stream in one go; one that is closed by it leaves its slot.
Publish(v) ==
    /\ v \in unannounced /\ unannounced' = unannounced \ {v}
    /\ stream' = [s \in Streams |-> Offered(stream[s], v)]
    /\ slots' = slots - Cardinality({s \in Streams : stream'[s].released /\ ~stream[s].released})
    /\ UNCHANGED <<world, tabVars>>

\* The interval's write, where it changes anything: a stream with no room counts
\* it as dropped, one that dropped events and has room again says so.
Keepalive(s) ==
    LET c == stream[s]
        d == [c EXCEPT !.dropped = @ + 1] IN
    /\ c.at = "open"
    /\ \/ /\ Len(c.buf) >= Room
          /\ stream' = [stream EXCEPT ![s] = IF d.dropped >= MaxDropped THEN Shut(d) ELSE d]
       \/ /\ Len(c.buf) < Room /\ c.dropped > 0
          /\ stream' = [stream EXCEPT ![s].dropped = 0, ![s].buf = Append(@, Resync)]
    /\ slots' = IF stream'[s].released THEN Released(c, slots) ELSE slots
    /\ UNCHANGED <<world, unannounced, tabVars>>

Dialling(s) == source = [at |-> "connecting", on |-> s]

\* GET up to its await, the tab still waiting for it or not: a slot is taken or
\* refused.  An answer that is no stream ends an EventSource for good.
Accept(s) ==
    /\ stream[s].at = "none" /\ (Dialling(s) \/ s < source.on)
    /\ \/ /\ slots < StreamLimit /\ slots' = slots + 1
          /\ stream' = [stream EXCEPT ![s].at = "taken"] /\ UNCHANGED source
       \/ \* The gate's 401, at any time; the 429 only at the limit.
          /\ stream' = [stream EXCEPT ![s].at = "refused"]
          /\ source' = IF Dialling(s) THEN [source EXCEPT !.at = "dead"] ELSE source
          /\ UNCHANGED slots
    /\ UNCHANGED <<world, unannounced, page, told, passed>>

\* The setting is read: start() subscribes, and the browser sees the stream open.
Start(s) ==
    /\ stream[s].at = "taken" /\ stream' = [stream EXCEPT ![s].at = "open"]
    /\ source' = IF Dialling(s) THEN [source EXCEPT !.at = "open"] ELSE source
    /\ UNCHANGED <<world, unannounced, slots, page, told, passed>>

\* The setting could not be read: the slot is released and the request fails.
StartFails(s) ==
    /\ stream[s].at = "taken" /\ stream' = [stream EXCEPT ![s] = Shut(@)]
    /\ slots' = Released(stream[s], slots)
    /\ source' = IF Dialling(s) THEN [source EXCEPT !.at = "dead"] ELSE source
    /\ UNCHANGED <<world, unannounced, page, told, passed>>

\* abort, cancel, or a write that finds the controller closed: each may come,
\* in any order, once the tab no longer reads the stream.
Ends(s) ==
    /\ stream[s].at \in {"open", "closed"} /\ source.on # s
    /\ stream' = [stream EXCEPT ![s] = Shut([@ EXCEPT !.buf = <<>>])]
    /\ slots' = Released(stream[s], slots)
    /\ UNCHANGED <<world, unannounced, tabVars>>

(***************************************************************************)
(* The tab: its EventSource                                                 *)
(***************************************************************************)

NextStream == source.on + 1

\* The connection is lost, or ended by the server and read to its end: the
\* browser connects again.
Redial ==
    /\ \/ source.at = "open"
       \/ source.at = "connecting" /\ stream[source.on].at # "none"
    /\ source.on < MaxStreams /\ source' = [at |-> "connecting", on |-> NextStream]
    /\ UNCHANGED <<serverVars, page, told, passed>>

\* setLive: the header's chip closes the source, or opens a new one.
Pause ==
    /\ source.at \in {"open", "connecting"} /\ source.on < MaxStreams
    /\ source' = [at |-> "off", on |-> NextStream]
    /\ UNCHANGED <<serverVars, page, told, passed>>

Resume ==
    /\ source.at = "off" /\ source' = [source EXCEPT !.at = "connecting"]
    /\ UNCHANGED <<serverVars, page, told, passed>>

(***************************************************************************)
(* The tab: its page                                                        *)
(***************************************************************************)

\* The router's actions, in order: "refresh" and "navigate", the first under
\* way, its page "read" or not.
Navigating == page.router # <<>> /\ page.router[1] \in {"navigate", "arrive"}

\* The mutant of Pending: one under way covers an event too.
MistakePending(p) == p.timer \/ p.router # <<>>

\* useCoalescedRefresh: an event that finds a refresh pending is covered by it.
Pending(p) == p.timer

Scheduled(p) == IF Pending(p) THEN p ELSE [p EXCEPT !.timer = TRUE]

\* router.refresh(): behind what the router is doing.  One more waiting is the
\* same as the last waiting.
Asked(p) ==
    IF Len(p.router) > 1 THEN p ELSE [p EXCEPT !.router = Append(@, "refresh")]

\* A message: an event, or the word that some are missing, after which all is
\* read again.
Hear ==
    LET s == source.on
        m == Head(stream[s].buf)
        v == IF m = Resync THEN stream[s].offered ELSE m IN
    /\ source.at = "open" /\ stream[s].buf # <<>>
    /\ stream' = [stream EXCEPT ![s].buf = Tail(@)]
    /\ page' = IF m = Resync THEN Asked(page) ELSE Scheduled(page)
    /\ IF m # Resync /\ Navigating /\ page.router[1] = "arrive"
       THEN passed' = Newer(passed, v) /\ UNCHANGED told
       ELSE told' = Newer(told, v) /\ UNCHANGED passed
    /\ UNCHANGED <<world, unannounced, slots, source>>

\* The interval is over.
TimerFires ==
    /\ page.timer /\ page' = Asked([page EXCEPT !.timer = FALSE])
    /\ UNCHANGED <<serverVars, source, told, passed>>

\* The server renders what the router's first action asked for.
Render ==
    /\ page.router # <<>> /\ Head(page.router) \in {"refresh", "navigate"}
    /\ page' = [page EXCEPT !.read = world,
                            !.router[1] = IF @ = "navigate" THEN "arrive" ELSE "land"]
    /\ UNCHANGED <<serverVars, source, told, passed>>

\* The rendering lands.  A new page takes the old one's LiveRefresh away, which
\* clears its timer.
Land ==
    /\ page.router # <<>> /\ Head(page.router) \in {"land", "arrive"}
    /\ page' = [page EXCEPT !.shows = page.read, !.read = 0, !.router = Tail(@),
                            !.timer = @ /\ page.router[1] = "land"]
    /\ UNCHANGED <<serverVars, source, told, passed>>

\* The operator opens another page: what the router was doing is dropped, what
\* waits stays.
Navigate ==
    /\ ~Navigating
    /\ page' = [page EXCEPT !.read = 0,
                            !.router = <<"navigate">> \o (IF @ = <<>> THEN <<>> ELSE Tail(@))]
    /\ UNCHANGED <<serverVars, source, told, passed>>

LiveNext ==
    \/ Change \/ \E v \in unannounced : Publish(v)
    \/ \E s \in Streams : Keepalive(s) \/ Accept(s) \/ Start(s) \/ StartFails(s) \/ Ends(s)
    \/ Redial \/ Pause \/ Resume
    \/ Hear \/ TimerFires \/ Render \/ Land \/ Navigate

LiveSpec == LiveInit /\ [][LiveNext]_liveVars

(***************************************************************************)
(* Properties                                                               *)
(***************************************************************************)

LiveTypeOK ==
    /\ world \in 0 .. MaxChanges /\ unannounced \subseteq 1 .. MaxChanges
    /\ slots \in 0 .. MaxStreams
    /\ \A s \in Streams :
          /\ stream[s].at \in {"none", "taken", "open", "closed", "refused"}
          /\ stream[s].buf \in Seq(0 .. MaxChanges) /\ stream[s].dropped \in 0 .. MaxDropped
    /\ source.at \in {"connecting", "open", "off", "dead"} /\ source.on \in Streams
    /\ page.shows \in 0 .. MaxChanges /\ page.timer \in BOOLEAN
    /\ page.router \in Seq({"refresh", "navigate", "land", "arrive"}) /\ Len(page.router) <= 2

Settled == ~page.timer /\ page.router = <<>>

\* A tab that is attached and has read all its stream holds was told of every
\* change published since it attached, dropped events included; and once its
\* refreshes are over, the page shows every change it was told of.  What a tab
\* is told while a new page, read earlier, is on its way is not shown.
ViewCatchesUp ==
    Settled =>
        /\ page.shows >= told
        /\ LET c == stream[source.on] IN
           source.at = "open" /\ c.at = "open" /\ c.buf = <<>> /\ c.dropped = 0
              => Newer(told, passed) >= c.offered

\* The count that refuses a session's streams is the number of those there are,
\* however many endings each of them met.
SlotsAreCounted == slots = Cardinality({s \in Streams : stream[s].at \in {"taken", "open"}})

LiveViewIsKept == ViewCatchesUp /\ SlotsAreCounted
=============================================================================
