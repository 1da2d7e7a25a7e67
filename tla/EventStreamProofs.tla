-------------------------- MODULE EventStreamProofs --------------------------
(***************************************************************************)
(* For any devices, connections, buffers, limits and pages: the state is   *)
(* well typed and no wake-up is lost.                                      *)
(***************************************************************************)
EXTENDS EventStream, FiniteSetTheorems, TLAPS

USE StreamAssumption DEF Seqs, NoReply, Reply

StateType ==
  /\ head \in Seqs /\ fresh \in Seqs /\ published \in Seqs
  /\ slow \subseteq subs /\ subs \subseteq serving /\ serving \subseteq Conn
  /\ buf \in [Conn -> 0 .. Buffer]
  /\ wire \in [Conn -> 0 .. Wire]
  /\ phase \in [Device -> Phase]
  /\ using \in [Device -> Conn \cup {None}]
  /\ cursor \in [Device -> Seqs]
  /\ reply \in [Device -> Reply]
  /\ notify \in [Device -> BOOLEAN]
  /\ opened \subseteq Conn

WithinLimit == Cardinality(subs) <= Limit

\* What was fetched existed, and is ahead of what was consumed.
FetchedExists ==
  /\ fresh <= head /\ published <= head
  /\ \A d \in Device :
       /\ cursor[d] <= head
       /\ reply[d].head <= head /\ reply[d].to <= reply[d].head
       /\ reply[d] # NoReply => cursor[d] < reply[d].to

\* A connection has one device, and a device on line has a connection.
ConnOfOne ==
  /\ \A d \in Device : phase[d] # "offline" => using[d] \in Conn
  /\ \A d, e \in Device : using[d] = using[e] /\ using[d] # None => d = e

\* A device that is live, or about to be on the strength of what it fetched,
\* has a hint under way for anything published beyond that.
HintedBeyond ==
  \A d \in Device :
    /\ phase[d] = "live" /\ cursor[d] < published => HintUnderWay(d)
    /\ reply[d] # NoReply /\ reply[d].head < published => HintUnderWay(d)
    /\ reply[d] # NoReply => Catching(d)

StreamInv == StateType /\ FetchedExists /\ ConnOfOne /\ HintedBeyond

-----------------------------------------------------------------------------
\* Types hold initially.
LEMMA TypesInit == Init => StateType /\ WithinLimit
<1> SUFFICES ASSUME Init PROVE StateType /\ WithinLimit
  OBVIOUS
<1>1. Cardinality(subs) = 0
  BY FS_EmptySet DEF Init
<1> QED
  BY <1>1 DEF Init, StateType, WithinLimit, Phase

\* Every step keeps them.
LEMMA TypesNext == StateType /\ FetchedExists /\ [Next]_vars => StateType'
<1> SUFFICES ASSUME StateType, FetchedExists, [Next]_vars PROVE StateType'
  OBVIOUS
<1> USE DEF StateType, device, server
<1>1. CASE ServerNext
  <2>1. CASE Commit \/ PublishSkipped \/ ServerCrash
    BY <2>1 DEF Commit, PublishSkipped, ServerCrash
  <2>2. CASE Publish
    BY <2>2 DEF Publish, Full
  <2>3. ASSUME NEW c \in Conn, DropSlow(c) PROVE StateType'
    BY <2>3 DEF DropSlow
  <2>4. ASSUME NEW c \in Conn, Send(c) PROVE StateType'
    BY <2>4 DEF Send
  <2>5. ASSUME NEW c \in Conn, HandlerReturns(c) PROVE StateType'
    BY <2>5 DEF HandlerReturns
  <2> QED
    BY <1>1, <2>1, <2>2, <2>3, <2>4, <2>5 DEF ServerNext
<1>2. ASSUME NEW d \in Device, DeviceNext(d) PROVE StateType'
  <2>1. ASSUME NEW c \in Conn, Dial(d, c) PROVE StateType'
    BY <2>1 DEF Dial, Phase
  <2>2. CASE Dialed(d)
    BY <2>2 DEF Dialed, Phase
  <2>3. CASE Read(d)
    BY <2>3 DEF Read
  <2>4. CASE Fetch(d)
    BY <2>4 DEF Fetch, SmallerOf
  <2>5. CASE FetchNothing(d) \/ Wake(d)
    BY <2>5 DEF FetchNothing, Wake, Phase, NextPhase
  <2>6. CASE Consume(d)
    <3> DEFINE at == cursor[d] + 1
    <3>1. at \in Seqs
      BY <2>6 DEF Consume, FetchedExists
    <3>2. \A p \in Phase : NextPhase(p) \in Phase
      BY DEF Phase, NextPhase
    <3>3. \/ UNCHANGED <<reply, phase>>
          \/ /\ reply' = [reply EXCEPT ![d] = NoReply]
             /\ \/ phase' = [phase EXCEPT ![d] = NextPhase(@)]
                \/ phase' = [phase EXCEPT ![d] = @]
      BY <2>6 DEF Consume
    <3>4. phase' \in [Device -> Phase] /\ reply' \in [Device -> Reply]
      BY <3>2, <3>3
    <3> QED
      BY <2>6, <3>1, <3>4 DEF Consume
  <2>7. CASE Leave(d)
    BY <2>7 DEF Leave, Phase
  <2> QED
    BY <1>2, <2>1, <2>2, <2>3, <2>4, <2>5, <2>6, <2>7 DEF DeviceNext
<1>3. CASE UNCHANGED vars
  BY <1>3 DEF vars
<1> QED
  BY <1>1, <1>2, <1>3 DEF Next

\* The hub's limit holds, in every step.
LEMMA LimitNext == StateType /\ WithinLimit /\ [Next]_vars => WithinLimit'
<1> SUFFICES ASSUME StateType, WithinLimit, [Next]_vars PROVE WithinLimit'
  OBVIOUS
<1>1. IsFiniteSet(subs)
  BY FS_Subset DEF StateType
<1>2. CASE subs' \subseteq subs
  <2>1. Cardinality(subs') <= Cardinality(subs)
    BY <1>1, <1>2, FS_Subset
  <2>2. IsFiniteSet(subs') /\ Cardinality(subs') \in Nat /\ Cardinality(subs) \in Nat
    BY <1>1, <1>2, FS_Subset, FS_CardinalityType
  <2> QED
    BY <2>1, <2>2 DEF WithinLimit
<1>3. ASSUME NEW d \in Device, NEW c \in Conn, Dial(d, c) PROVE WithinLimit'
  <2>1. c \notin subs /\ subs' = subs \cup {c} /\ Cardinality(subs) < Limit
    BY <1>3 DEF Dial, StateType
  <2>2. Cardinality(subs') = Cardinality(subs) + 1 /\ Cardinality(subs) \in Nat
    BY <1>1, <2>1, FS_AddElement, FS_CardinalityType
  <2> QED
    BY <2>1, <2>2 DEF WithinLimit
<1>4. subs' \subseteq subs \/ \E d \in Device, c \in Conn : Dial(d, c)
  BY DEF Next, ServerNext, DeviceNext, vars, server, device, Commit, Publish,
         PublishSkipped, DropSlow, Send, HandlerReturns, ServerCrash, Dialed, Read, Fetch,
         FetchNothing, Consume, Wake, Leave
<1> QED
  BY <1>2, <1>3, <1>4

\* Nothing is fetched or consumed before it is committed.
LEMMA FetchedExistsNext ==
  StateType /\ FetchedExists /\ [Next]_vars => FetchedExists'
<1> SUFFICES ASSUME StateType, FetchedExists, [Next]_vars PROVE FetchedExists'
  OBVIOUS
<1> USE DEF StateType, FetchedExists, device, server
<1>1. CASE Commit \/ Publish \/ PublishSkipped \/ ServerCrash
  BY <1>1 DEF Commit, Publish, PublishSkipped, ServerCrash
<1>2. ASSUME NEW c \in Conn, DropSlow(c) \/ Send(c) \/ HandlerReturns(c)
      PROVE  FetchedExists'
  BY <1>2 DEF DropSlow, Send, HandlerReturns
<1>3. ASSUME NEW d \in Device, DeviceNext(d) PROVE FetchedExists'
  <2>1. CASE UNCHANGED <<server, cursor, reply>>
    BY <2>1
  <2>2. ASSUME NEW c \in Conn, Dial(d, c) PROVE FetchedExists'
    BY <2>2 DEF Dial
  <2>3. CASE Fetch(d)
    BY <2>3 DEF Fetch, SmallerOf
  <2>4. CASE Consume(d)
    BY <2>4 DEF Consume
  <2>5. CASE Leave(d)
    BY <2>5 DEF Leave
  <2> QED
    BY <1>3, <2>1, <2>2, <2>3, <2>4, <2>5
    DEF DeviceNext, Dialed, Read, FetchNothing, Wake
<1>4. CASE UNCHANGED vars
  BY <1>4 DEF vars
<1> QED
  BY <1>1, <1>2, <1>3, <1>4 DEF Next, ServerNext

\* Connections are not shared.
LEMMA ConnOfOneNext == StateType /\ ConnOfOne /\ [Next]_vars => ConnOfOne'
<1> SUFFICES ASSUME StateType, ConnOfOne, [Next]_vars PROVE ConnOfOne'
  OBVIOUS
<1> USE DEF StateType, ConnOfOne, device, server
<1>1. CASE ServerNext \/ UNCHANGED vars
  BY <1>1 DEF ServerNext, vars, Commit, Publish, PublishSkipped, ServerCrash, DropSlow, Send,
              HandlerReturns
<1>2. ASSUME NEW d \in Device, DeviceNext(d) PROVE ConnOfOne'
  <2>1. ASSUME NEW c \in Conn, Dial(d, c) PROVE ConnOfOne'
    BY <2>1 DEF Dial
  <2>2. CASE Leave(d)
    BY <2>2 DEF Leave
  <2>3. CASE Dialed(d) \/ Read(d) \/ Fetch(d) \/ FetchNothing(d) \/ Consume(d) \/ Wake(d)
    BY <2>3 DEF Dialed, Read, Fetch, FetchNothing, Consume, Wake, Catching, NextPhase
  <2> QED
    BY <1>2, <2>1, <2>2, <2>3 DEF DeviceNext
<1> QED
  BY <1>1, <1>2 DEF Next

\* A step that leaves the devices alone keeps a hint, or moves it on.
LEMMA HintKept ==
  ASSUME StateType, ConnOfOne, NEW d \in Device, phase[d] # "offline", HintUnderWay(d),
         ServerNext, UNCHANGED device
  PROVE  HintUnderWay(d)'
<1> DEFINE c == using[d]
<1>1. c \in Conn
  BY DEF ConnOfOne
<1> USE <1>1 DEF StateType, HintUnderWay, device
<1>2. CASE Commit \/ PublishSkipped \/ ServerCrash
  BY <1>2 DEF Commit, PublishSkipped, ServerCrash
<1>3. CASE Publish
  BY <1>3 DEF Publish, Full
<1>4. ASSUME NEW b \in Conn, DropSlow(b) PROVE HintUnderWay(d)'
  BY <1>4 DEF DropSlow
<1>5. ASSUME NEW b \in Conn, Send(b) PROVE HintUnderWay(d)'
  BY <1>5 DEF Send
<1>6. ASSUME NEW b \in Conn, HandlerReturns(b) PROVE HintUnderWay(d)'
  BY <1>6 DEF HandlerReturns
<1> QED
  BY <1>2, <1>3, <1>4, <1>5, <1>6 DEF ServerNext

\* Publishing leaves a hint for every device that is on line.
LEMMA PublishHints ==
  ASSUME StateType, ConnOfOne, Publish, NEW d \in Device, phase[d] # "offline"
  PROVE  HintUnderWay(d)'
<1> DEFINE c == using[d]
<1>1. c \in Conn
  BY DEF ConnOfOne
<1>2. CASE c \in subs \ Full
  BY <1>1, <1>2 DEF Publish, StateType, HintUnderWay, device
<1>3. CASE c \in Full
  BY <1>1, <1>3 DEF Publish, HintUnderWay, device
<1>4. CASE c \notin subs
  BY <1>1, <1>4 DEF Publish, HintUnderWay, device
<1> QED
  BY <1>2, <1>3, <1>4

\* No step loses the hint a device needs.
LEMMA HintedBeyondNext == StreamInv /\ [Next]_vars => HintedBeyond'
<1> SUFFICES ASSUME StreamInv, [Next]_vars PROVE HintedBeyond'
  OBVIOUS
<1> USE DEF StreamInv
<1>1. CASE ServerNext
  <2>1. UNCHANGED device
    BY <1>1 DEF ServerNext, Commit, Publish, PublishSkipped, ServerCrash, DropSlow, Send,
                HandlerReturns
  <2>2. \A d \in Device : reply[d] # NoReply => phase[d] # "offline"
    BY DEF HintedBeyond, Catching
  <2>3. CASE Publish
    BY <2>1, <2>2, <2>3, PublishHints DEF HintedBeyond, Catching, device
  <2>4. CASE UNCHANGED published
    BY <1>1, <2>1, <2>2, <2>4, HintKept DEF HintedBeyond, Catching, device
  <2> QED
    BY <1>1, <2>3, <2>4
    DEF ServerNext, Commit, PublishSkipped, ServerCrash, DropSlow, Send, HandlerReturns
<1>2. ASSUME NEW d \in Device, DeviceNext(d) PROVE HintedBeyond'
  <2> USE DEF StateType, HintedBeyond, server
  <2>1. ASSUME NEW e \in Device \ {d}
        PROVE  /\ phase'[e] = phase[e] /\ cursor'[e] = cursor[e] /\ reply'[e] = reply[e]
               /\ phase[e] # "offline" /\ HintUnderWay(e) => HintUnderWay(e)'
    <3>1. ASSUME NEW c \in Conn, Dial(d, c)
          PROVE  phase[e] # "offline" /\ HintUnderWay(e) => HintUnderWay(e)'
      BY <3>1 DEF Dial, HintUnderWay, ConnOfOne
    <3>2. CASE Read(d)
      BY <3>2 DEF Read, HintUnderWay, ConnOfOne
    <3>3. CASE Dialed(d) \/ Fetch(d) \/ FetchNothing(d) \/ Consume(d) \/ Wake(d) \/ Leave(d)
      BY <3>3 DEF Dialed, Fetch, FetchNothing, Consume, Wake, Leave, HintUnderWay
    <3>4. phase'[e] = phase[e] /\ cursor'[e] = cursor[e] /\ reply'[e] = reply[e]
      BY <1>2 DEF DeviceNext, Dial, Dialed, Read, Fetch, FetchNothing, Consume, Wake, Leave
    <3> QED
      BY <1>2, <3>1, <3>2, <3>3, <3>4 DEF DeviceNext
  <2> DEFINE Mine == /\ phase[d] = "live" /\ cursor[d] < published => HintUnderWay(d)
                     /\ reply[d] # NoReply /\ reply[d].head < published => HintUnderWay(d)
                     /\ reply[d] # NoReply => Catching(d)
  <2>2. Mine'
    <3>1. ASSUME NEW c \in Conn, Dial(d, c) PROVE Mine'
      BY <3>1 DEF Dial, Catching
    <3>2. CASE Dialed(d)
      BY <3>2 DEF Dialed, Catching
    <3>3. CASE Read(d)
      BY <3>3 DEF Read, HintUnderWay, Catching
    <3>4. CASE Fetch(d)
      BY <3>4 DEF Fetch, Catching, FetchedExists
    <3>5. CASE FetchNothing(d)
      BY <3>5 DEF FetchNothing, Catching, FetchedExists
    <3>6. CASE Consume(d)
      <4>1. HintUnderWay(d) => HintUnderWay(d)'
        BY <3>6 DEF Consume, HintUnderWay
      <4>2. UNCHANGED published /\ reply[d] # NoReply /\ Catching(d)
        BY <3>6 DEF Consume
      <4>3. CASE UNCHANGED <<reply, phase>>
        BY <4>1, <4>2, <4>3 DEF Catching
      <4>4. CASE ~UNCHANGED <<reply, phase>>
        <5>1. reply'[d] = NoReply /\ cursor'[d] = cursor[d] + 1
          BY <3>6, <4>4 DEF Consume
        <5>2. phase'[d] = "live" => cursor'[d] >= reply[d].head
          BY <3>6, <4>2, <4>4 DEF Consume, LastPage, Catching
        <5> QED
          BY <4>1, <4>2, <5>1, <5>2
      <4> QED
        BY <4>3, <4>4
    <3>7. CASE Wake(d)
      BY <3>7 DEF Wake, Catching
    <3>8. CASE Leave(d)
      BY <3>8 DEF Leave
    <3> QED
      BY <1>2, <3>1, <3>2, <3>3, <3>4, <3>5, <3>6, <3>7, <3>8 DEF DeviceNext
  <2>3. published' = published
    BY <1>2 DEF DeviceNext, Dial, Dialed, Read, Fetch, FetchNothing, Consume, Wake, Leave
  <2>4. ASSUME NEW e \in Device
        PROVE  /\ phase'[e] = "live" /\ cursor'[e] < published' => HintUnderWay(e)'
               /\ reply'[e] # NoReply /\ reply'[e].head < published' => HintUnderWay(e)'
               /\ reply'[e] # NoReply => Catching(e)'
    <3>1. CASE e = d
      BY <2>2, <3>1
    <3>2. CASE e # d
      BY <2>1, <2>3, <3>2 DEF Catching
    <3> QED
      BY <3>1, <3>2
  <2> QED
    BY <2>4
<1>3. CASE UNCHANGED vars
  BY <1>3 DEF vars, server, device, HintedBeyond, HintUnderWay, Catching
<1> QED
  BY <1>1, <1>2, <1>3 DEF Next

\* The invariant holds in every state.
LEMMA StreamInvariant == Spec => [](StreamInv /\ WithinLimit)
<1>1. Init => StreamInv /\ WithinLimit
  BY TypesInit DEF Init, StreamInv, FetchedExists, ConnOfOne, HintedBeyond
<1>2. StreamInv /\ WithinLimit /\ [Next]_vars => (StreamInv /\ WithinLimit)'
  BY TypesNext, LimitNext, FetchedExistsNext, ConnOfOneNext, HintedBeyondNext DEF StreamInv
<1> QED
  BY <1>1, <1>2, PTL DEF Spec

\* Types, and no more subscribers than the hub's limit.
THEOREM StreamTypes == Spec => []TypeOK
<1>1. StreamInv /\ WithinLimit => TypeOK
  BY DEF StreamInv, StateType, WithinLimit, TypeOK
<1> QED
  BY <1>1, StreamInvariant, PTL

\* A live device that sits still has everything that was published, or a
\* message that will tell it is on its way.
THEOREM WakeupsKept == Spec => []NoLostWakeup
<1>1. StreamInv => NoLostWakeup
  BY DEF StreamInv, HintedBeyond, NoLostWakeup
<1> QED
  BY <1>1, StreamInvariant, PTL
=============================================================================
