----------------------------- MODULE EventStream -----------------------------
(***************************************************************************)
(* How a device learns of events: the hub, the websocket handler, and the  *)
(* client's reconnect loop.                                                *)
(*                                                                         *)
(* A websocket message is only a hint.  The device fetches what is new     *)
(* over HTTP, from its stored cursor, page by page; a hint that arrives    *)
(* while it fetches is remembered in a one-place channel.  The hub gives   *)
(* every subscriber a bounded buffer and drops a subscriber that is full.  *)
(* What has to hold is that no event is left without a hint on its way to  *)
(* a device that would otherwise sit still.                                *)
(*                                                                         *)
(* Messages are counted, not named: their content is never used.  Nothing  *)
(* is pruned here, so a fetch is never answered with 410, and what a       *)
(* device does with an event is left to other modules: it is consumed.     *)
(***************************************************************************)
EXTENDS Integers, FiniteSets

CONSTANTS
  Device,    \* devices of one workspace
  Conn,      \* connections that may exist, closed half-way or open
  None,
  MaxSeq,    \* bound: events submitted
  Limit,     \* hub: subscribers per workspace (WSClientsPerWorkspace)
  Buffer,    \* hub: capacity of a subscriber's channel (32)
  Wire,      \* bound: messages in the network between the two ends
  Page       \* events per fetch (1000)

ASSUME StreamAssumption ==
  /\ MaxSeq \in Nat
  /\ {Limit, Buffer, Wire, Page} \subseteq Nat \ {0}
  /\ None \notin Conn /\ IsFiniteSet(Conn)

VARIABLES
  \* server
  head,       \* workspaces.current_seq
  fresh,      \* the event whose handler is between commit and publish, or 0
  published,  \* last event handed to the hub
  slow,       \* Publish's local list of subscribers found full
  subs,       \* hub.subscribers of the workspace
  buf,        \* messages in each subscriber's channel
  serving,    \* connections whose handleWS has not returned
  \* network
  wire,       \* messages written and not read yet
  \* devices
  phase,      \* where reconnectLoop is
  using,      \* the connection of this round
  cursor,     \* last_server_seq
  reply,      \* fetched page not consumed yet
  notify,     \* websocketStream.notify holds a token
  opened      \* connections whose client end is open

server == <<head, fresh, published, slow, subs, buf, serving>>
device == <<phase, using, cursor, reply, notify, opened>>
vars   == <<server, wire, device>>

Seqs  == 0 .. MaxSeq
Phase == {"offline", "dialing", "first", "second", "live", "woken"}
NoReply == [to |-> 0, head |-> 0]
Reply   == [to : Seqs, head : Seqs]

TypeOK ==
  /\ head \in Seqs /\ fresh \in Seqs /\ published \in Seqs
  /\ slow \subseteq subs /\ subs \subseteq serving /\ serving \subseteq Conn
  /\ Cardinality(subs) <= Limit
  /\ buf \in [Conn -> 0 .. Buffer]
  /\ wire \in [Conn -> 0 .. Wire]
  /\ phase \in [Device -> Phase]
  /\ using \in [Device -> Conn \cup {None}]
  /\ cursor \in [Device -> Seqs]
  /\ reply \in [Device -> Reply]
  /\ notify \in [Device -> BOOLEAN]
  /\ opened \subseteq Conn

Init ==
  /\ head = 0 /\ fresh = 0 /\ published = 0
  /\ slow = {} /\ subs = {} /\ serving = {}
  /\ buf = [c \in Conn |-> 0]
  /\ wire = [c \in Conn |-> 0]
  /\ phase = [d \in Device |-> "offline"]
  /\ using = [d \in Device |-> None]
  /\ cursor = [d \in Device |-> 0]
  /\ reply = [d \in Device |-> NoReply]
  /\ notify = [d \in Device |-> FALSE]
  /\ opened = {}

-----------------------------------------------------------------------------
(***************************************************************************)
(* Server: submitting.  eventMu is held from the commit to the end of      *)
(* Publish, so there is at most one fresh event (ServerLog).               *)
(***************************************************************************)
Commit ==
  /\ fresh = 0 /\ slow = {}
  /\ head < MaxSeq
  /\ head' = head + 1
  /\ fresh' = head + 1
  /\ UNCHANGED <<published, slow, subs, buf, serving, wire, device>>

Full_unchecked == {}

Full == {c \in subs : buf[c] >= Buffer}

\* One pass over the subscribers under the hub's read lock: a full channel is
\* skipped and its subscriber noted.
Publish ==
  /\ fresh # 0
  /\ published' = fresh
  /\ fresh' = 0
  /\ buf' = [c \in Conn |-> IF c \in subs \ Full THEN buf[c] + 1 ELSE buf[c]]
  /\ slow' = Full
  /\ UNCHANGED <<head, subs, serving, wire, device>>

\* The event is committed, its handler fails before it publishes.
PublishSkipped ==
  /\ fresh # 0
  /\ fresh' = 0
  /\ UNCHANGED <<head, published, slow, subs, buf, serving, wire, device>>

\* Afterwards the full ones are unsubscribed: no more messages, and the
\* handler returns when it has drained the channel.
DropSlow(c) ==
  /\ c \in slow
  /\ slow' = slow \ {c}
  /\ subs' = subs \ {c}
  /\ UNCHANGED <<head, fresh, published, buf, serving, wire, device>>

(***************************************************************************)
(* Server: handleWS.                                                       *)
(***************************************************************************)
\* Send the next message; the channel of a dropped subscriber still holds
\* what was buffered.
Send(c) ==
  /\ c \in serving /\ buf[c] > 0
  /\ wire[c] < Wire
  /\ buf' = [buf EXCEPT ![c] = @ - 1]
  /\ wire' = [wire EXCEPT ![c] = @ + 1]
  /\ UNCHANGED <<head, fresh, published, slow, subs, serving, device>>

HandlerReturns_keepsSlot(c) ==
  /\ c \in serving
  /\ serving' = serving \ {c}
  /\ slow' = slow \ {c}
  /\ buf' = [buf EXCEPT ![c] = 0]
  /\ UNCHANGED <<head, fresh, published, subs, wire, device>>

\* The handler returns: the channel is closed and empty, a write or a ping
\* fails, or the reader sees the client's end closed.
HandlerReturns(c) ==
  /\ c \in serving
  /\ serving' = serving \ {c}
  /\ subs' = subs \ {c}
  /\ slow' = slow \ {c}
  /\ buf' = [buf EXCEPT ![c] = 0]
  /\ UNCHANGED <<head, fresh, published, wire, device>>

\* It must return in these cases.
Done(c) ==
  \/ c \notin subs /\ buf[c] = 0
  \/ c \notin opened /\ \A d \in Device : ~(using[d] = c /\ phase[d] = "dialing")

ServerCrash ==
  /\ fresh' = 0
  /\ slow' = {} /\ subs' = {} /\ serving' = {}
  /\ buf' = [c \in Conn |-> 0]
  /\ UNCHANGED <<head, published, wire, device>>

-----------------------------------------------------------------------------
(***************************************************************************)
(* Device: syncAndStream.                                                  *)
(***************************************************************************)
\* The server subscribes the connection before it completes the upgrade.
Dial(d, c) ==
  /\ phase[d] = "offline"
  /\ c \notin serving \cup opened /\ \A e \in Device : using[e] # c
  /\ Cardinality(subs) < Limit
  /\ subs' = subs \cup {c}
  /\ serving' = serving \cup {c}
  /\ buf' = [buf EXCEPT ![c] = 0]
  /\ wire' = [wire EXCEPT ![c] = 0]
  /\ phase' = [phase EXCEPT ![d] = "dialing"]
  /\ using' = [using EXCEPT ![d] = c]
  /\ UNCHANGED <<head, fresh, published, slow, cursor, reply, notify, opened>>

Dialed(d) ==
  /\ phase[d] = "dialing"
  /\ using[d] \in serving
  /\ opened' = opened \cup {using[d]}
  /\ phase' = [phase EXCEPT ![d] = "first"]
  /\ UNCHANGED <<server, wire, using, cursor, reply, notify>>

\* The goroutine that reads the connection leaves at most one token.
Read_onlyWhenLive(d) ==
  /\ using[d] \in opened /\ wire[using[d]] > 0
  /\ wire' = [wire EXCEPT ![using[d]] = @ - 1]
  /\ notify' = [notify EXCEPT ![d] = phase[d] = "live" \/ @]
  /\ UNCHANGED <<server, phase, using, cursor, reply, opened>>

Read(d) ==
  /\ using[d] \in opened /\ wire[using[d]] > 0
  /\ wire' = [wire EXCEPT ![using[d]] = @ - 1]
  /\ notify' = [notify EXCEPT ![d] = TRUE]
  /\ UNCHANGED <<server, phase, using, cursor, reply, opened>>

Catching(d) == phase[d] \in {"first", "second", "woken"}

SmallerOf(a, b) == IF a < b THEN a ELSE b

\* GET /v1/events: the page and the head are read in one transaction.
Fetch(d) ==
  /\ Catching(d) /\ reply[d] = NoReply
  /\ cursor[d] < head
  /\ reply' = [reply EXCEPT ![d] =
                 [to |-> SmallerOf(cursor[d] + Page, head), head |-> head]]
  /\ UNCHANGED <<server, wire, phase, using, cursor, notify, opened>>

NextPhase(p) == IF p = "first" THEN "second" ELSE "live"

\* An empty page ends the catch-up ...
FetchNothing(d) ==
  /\ Catching(d) /\ reply[d] = NoReply
  /\ cursor[d] = head
  /\ phase' = [phase EXCEPT ![d] = NextPhase(@)]
  /\ UNCHANGED <<server, wire, using, cursor, reply, notify, opened>>

LastPage_short(r, at) == at >= r.to

LastPage(r, at) == at >= r.head

\* ... and so does a page that reaches the head it came with.  Each event is
\* consumed and the cursor stored before the next.
Consume(d) ==
  /\ Catching(d) /\ reply[d] # NoReply
  /\ LET at == cursor[d] + 1 IN
     /\ cursor' = [cursor EXCEPT ![d] = at]
     /\ IF at < reply[d].to
        THEN UNCHANGED <<reply, phase>>
        ELSE /\ reply' = [reply EXCEPT ![d] = NoReply]
             /\ phase' = [phase EXCEPT ![d] =
                            IF LastPage(reply[d], at) THEN NextPhase(@) ELSE @]
  /\ UNCHANGED <<server, wire, using, notify, opened>>

\* consumeWebsocketStream: the token is taken first, then the fetch begins.
Wake(d) ==
  /\ phase[d] = "live"
  /\ notify[d]
  /\ notify' = [notify EXCEPT ![d] = FALSE]
  /\ phase' = [phase EXCEPT ![d] = "woken"]
  /\ UNCHANGED <<server, wire, using, cursor, reply, opened>>

\* The round ends: an HTTP error, a stream error, the session renewal timer, a
\* daemon that dies.  Its connection closes; the cursor is in the database.
Leave(d) ==
  /\ phase[d] # "offline"
  /\ phase' = [phase EXCEPT ![d] = "offline"]
  /\ opened' = opened \ {using[d]}
  /\ using' = [using EXCEPT ![d] = None]
  /\ reply' = [reply EXCEPT ![d] = NoReply]
  /\ notify' = [notify EXCEPT ![d] = FALSE]
  /\ UNCHANGED <<server, wire, cursor>>

\* The reader has read everything the server wrote before it hung up.
StreamEnded(d) ==
  /\ phase[d] # "offline"
  /\ using[d] \notin serving
  /\ wire[using[d]] = 0 \/ using[d] \notin opened

-----------------------------------------------------------------------------
ServerNext ==
  \/ Commit
  \/ Publish
  \/ PublishSkipped
  \/ \E c \in Conn : DropSlow(c) \/ Send(c) \/ HandlerReturns(c)
  \/ ServerCrash

DeviceNext(d) ==
  \/ \E c \in Conn : Dial(d, c)
  \/ Dialed(d)
  \/ Read(d)
  \/ Fetch(d)
  \/ FetchNothing(d)
  \/ Consume(d)
  \/ Wake(d)
  \/ Leave(d)

Next == ServerNext \/ \E d \in Device : DeviceNext(d)

(***************************************************************************)
(* Fairness.  A goroutine that can run runs; a handler whose connection is *)
(* gone returns (pings and write deadlines); a request made again and      *)
(* again is answered in the end.  Nothing here ends a live round.          *)
(***************************************************************************)
Fairness ==
  /\ WF_vars(Publish \/ PublishSkipped)
  /\ \A c \in Conn :
       /\ WF_vars(DropSlow(c))
       /\ WF_vars(Send(c))
       /\ WF_vars(Done(c) /\ HandlerReturns(c))
  /\ \A d \in Device :
       /\ SF_vars(\E c \in Conn : Dial(d, c))
       /\ SF_vars(Dialed(d))
       /\ WF_vars(Read(d))
       /\ SF_vars(Fetch(d))
       /\ SF_vars(FetchNothing(d))
       /\ SF_vars(Consume(d))
       /\ SF_vars(Wake(d))
       /\ WF_vars(StreamEnded(d) /\ Leave(d))

Spec     == Init /\ [][Next]_vars
FairSpec == Spec /\ Fairness
-----------------------------------------------------------------------------
(***************************************************************************)
(* Properties.                                                             *)
(***************************************************************************)

\* A hint is on its way to the device, or its round is bound to end.
HintUnderWay(d) ==
  LET c == using[d] IN
  \/ notify[d]
  \/ wire[c] > 0
  \/ buf[c] > 0
  \/ c \in slow
  \/ c \notin subs

\* No lost wake-up: a live device that sits still has everything that was
\* published, whatever was published while it dialled or fetched, and
\* however full its buffer was.  hub/hub.go:68-85, daemon.go:1325-1356,
\* 1479-1488.
NoLostWakeup ==
  \A d \in Device :
    phase[d] = "live" /\ cursor[d] < published => HintUnderWay(d)

\* The hints suffice: what was published reaches every device, although the
\* device may stay live for ever.  hub/hub.go:68-85, daemon.go:1459-1491.
HintsSuffice ==
  \A d \in Device, n \in 1 .. MaxSeq : (published >= n) ~> (cursor[d] >= n)

\* An event whose handler failed after the commit was never published.  It
\* still reaches every device, because no round is live for ever: the
\* session's renewal timer ends it (daemon.go:1313, 1466-1467).
RenewalTimer == \A d \in Device : WF_vars(phase[d] = "live" /\ Leave(d))

EventuallyKnown ==
  RenewalTimer =>
    \A d \in Device, n \in 1 .. MaxSeq : (head >= n) ~> (cursor[d] >= n)
=============================================================================
