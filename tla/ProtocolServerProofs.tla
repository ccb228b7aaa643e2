------------------------ MODULE ProtocolServerProofs ------------------------
(***************************************************************************)
(* The safety theorems of ProtocolServer, for every set of connections and *)
(* services, every channel capacity, session limit and bound.  First the   *)
(* variables keep their types.  Then the event channel keeps its order: of *)
(* the events of one connection NewConnection comes first and Disconnected *)
(* last, and what the actor knows of the connection fits what is still in  *)
(* the channel.  Every step keeps the two halves of every route together.  *)
(* Next come the watch tables, what process_disconnect forgets, and the    *)
(* inductive invariant; last, that a message the actor decided to send     *)
(* reaches the client's socket or the connection fails, so that no watch   *)
(* is lost.                                                                *)
(***************************************************************************)
EXTENDS ProtocolServer, TLAPS

-----------------------------------------------------------------------------
(* Types of the constructors and of what the actor takes off its channel.  *)

(* A session below the limit is a session id. *)
LEMMA SessionsNat == Sessions \subseteq Nat /\ 1 \in Sessions
BY ConstantsAssumption DEF Sessions

(* What Send and the message constructors build is well typed. *)
LEMMA ServerMsgTypes ==
    /\ \A c \in Conns, m \in ServerMsg : Send(c, m) \in [to : Conns, msg : ServerMsg]
    /\ \A s \in Sessions, r \in Route : Accepted(s, r) \in ServerMsg
    /\ \A s \in Sessions, r \in Route : Service(s, r) \in ServerMsg
    /\ \A s \in Sessions : Teardown(s) \in ServerMsg
    /\ \A t \in Conns : Exited(t) \in ServerMsg
    /\ Declined \in ServerMsg
BY Zenon DEF Send, Accepted, Service, Teardown, Exited, Declined, ServerMsg

(* The same for the frames of clients and the events of readers. *)
LEMMA EventTypes ==
    /\ \A s \in Services : Declare(s) \in ClientMsg
    /\ \A s \in Sessions : Revoke(s) \in ClientMsg
    /\ \A s \in Sessions, r \in Route : Service(s, r) \in ClientMsg
    /\ \A t \in Conns : Watch(t) \in ClientMsg /\ Unwatch(t) \in ClientMsg
    /\ Ignored \in ClientMsg
    /\ \A c \in Conns, p \in SUBSET Services : NewConnection(c, p) \in Event
    /\ \A c \in Conns, m \in ClientMsg : Frame(c, m) \in Event
    /\ \A c \in Conns : Disconnected(c) \in Event
BY DEF Declare, Revoke, Service, Watch, Unwatch, Ignored, ClientMsg,
       NewConnection, Frame, Disconnected, Event

(* An event names a connection, and carries what its kind says. *)
LEMMA EventFields ==
    ASSUME NEW e \in Event
    PROVE  /\ e.conn \in Conns
           /\ e.kind = "NewConnection" => e.provides \in SUBSET Services
           /\ e.kind = "Frame" => e.msg \in ClientMsg
BY Zenon DEF Event

(* A frame carries what its kind says. *)
LEMMA FrameFields ==
    ASSUME NEW m \in ClientMsg
    PROVE  /\ m.kind = "Declare" => m.service \in Services
           /\ m.kind = "Revoke" => m.session \in Sessions
           /\ m.kind = "Service" => m.session \in Sessions /\ m.via \in Route
           /\ m.kind = "Watch" => m.target \in Conns
           /\ m.kind = "Unwatch" => m.target \in Conns
BY Zenon DEF ClientMsg

(* A server message carries what its kind says. *)
LEMMA ServerMsgFields ==
    ASSUME NEW m \in ServerMsg
    PROVE  /\ m.kind = "Accepted" => m.session \in Sessions /\ m.route \in Route
           /\ m.kind = "Teardown" => m.session \in Sessions
           /\ m.kind = "Exited" => m.target \in Conns
BY Zenon DEF ServerMsg

(* Both ends of a route are connections with session ids. *)
LEMMA RouteEnds ==
    ASSUME NEW r \in Route, NEW c
    PROVE  /\ PeerConn(r, c) \in Conns
           /\ PeerSession(r, c) \in Sessions
           /\ OwnSession(r, c) \in Sessions
BY Zenon DEF Route, PeerConn, PeerSession, OwnSession

(* The head of the actor's channel is an event and the rest a channel. *)
LEMMA HeadEvent ==
    ASSUME TypeOK, events # <<>>
    PROVE  /\ Head(events) \in Event
           /\ Tail(events) \in Seq(Event)
BY DEF TypeOK, EventsType

-----------------------------------------------------------------------------
(* Type correctness.                                                       *)

(* A step that leaves the provider index and the writer handles alone keeps their type. *)
LEMMA RegistryKept == TypeOK /\ UNCHANGED <<provider_index, arrivals, writers>> => RegistryType'
BY Zenon DEF TypeOK, RegistryType

(* A step that leaves the routing table and its counters alone keeps their type. *)
LEMMA RoutesKept == TypeOK /\ UNCHANGED <<routing_table, next_session, issued>> => RoutesType'
BY Zenon DEF TypeOK, RoutesType

(* A step that leaves the watch tables alone keeps their type. *)
LEMMA WatchKept == TypeOK /\ UNCHANGED <<conn_addresses, watch_table, watcher_reverse>> => WatchType'
BY Zenon DEF TypeOK, WatchType

(* A step that leaves the clients' intents alone keeps their type. *)
LEMMA IntentKept == TypeOK /\ UNCHANGED intent => IntentType'
BY Zenon DEF TypeOK, IntentType

(* A step that leaves where the actor is alone keeps their type. *)
LEMMA ControlKept == TypeOK /\ UNCHANGED <<overflow_teardown, phase, closing, draining, torn, gone>> => ControlType'
BY Zenon DEF TypeOK, ControlType

(* A step that leaves its pending sends alone keeps their type. *)
LEMMA OutboxKept == TypeOK /\ UNCHANGED outbox => OutboxType'
BY Zenon DEF TypeOK, OutboxType

(* A step that leaves the event channel and its readers alone keeps their type. *)
LEMMA EventsKept == TypeOK /\ UNCHANGED <<events, reader>> => EventsType'
BY Zenon DEF TypeOK, EventsType

(* A step that leaves the writer channels alone keeps their type. *)
LEMMA ChannelKept == TypeOK /\ UNCHANGED <<chan, writer>> => ChannelType'
BY Zenon DEF TypeOK, ChannelType

(* A step that leaves the clients alone keeps their type. *)
LEMMA ClientsKept == TypeOK /\ UNCHANGED <<up, sent, learned, open>> => ClientsType'
BY Zenon DEF TypeOK, ClientsType

(* A step that leaves the actor's own state alone. *)
LEMMA TypeEnvironmentKept ==
    ASSUME TypeOK, UNCHANGED <<tables, control, torn, gone, issued>>,
           IntentType', EventsType', ChannelType', ClientsType'
    PROVE  TypeOK'
<1>1. RegistryType' /\ RoutesType' /\ WatchType' /\ ControlType' /\ OutboxType'
  BY RegistryKept, RoutesKept, WatchKept, ControlKept, OutboxKept, Zenon DEF tables, control
<1>. QED
  BY <1>1, Zenon DEF TypeOK

(* A step of the environment keeps every value in its type. *)
LEMMA TypeEnvironment ==
    ASSUME TypeOK, NEW c \in Conns
    PROVE  /\ \A p \in SUBSET Services : Accept(c, p) => TypeOK'
           /\ \A m \in ClientMsg : Post(c, m) => TypeOK'
           /\ ReaderExit(c) => TypeOK'
           /\ ClientVanish(c) => TypeOK'
           /\ WriterFail(c) => TypeOK'
           /\ WriterWrite(c) => TypeOK'
<1> USE DEF threads, clients, ghosts
<1>1. ASSUME NEW p \in SUBSET Services, Accept(c, p) PROVE TypeOK'
  <2>1. EventsType'
    BY <1>1, EventTypes DEF TypeOK, EventsType, Accept
  <2>2. ChannelType'
    BY <1>1, Zenon DEF TypeOK, ChannelType, Accept
  <2>3. ClientsType'
    BY <1>1, Zenon DEF TypeOK, ClientsType, Accept
  <2>. QED
    BY <1>1, <2>1, <2>2, <2>3, IntentKept, TypeEnvironmentKept, Zenon DEF Accept
<1>2. ASSUME NEW m \in ClientMsg, Post(c, m) PROVE TypeOK'
  <2>1. EventsType'
    BY <1>2, EventTypes DEF TypeOK, EventsType, Post
  <2>2. ClientsType'
    BY <1>2, ConstantsAssumption DEF TypeOK, ClientsType, Post
  <2>. QED
    BY <1>2, <2>1, <2>2, IntentKept, ChannelKept, TypeEnvironmentKept, Zenon DEF Post
<1>3. ASSUME ReaderExit(c) PROVE TypeOK'
  <2>1. EventsType'
    BY <1>3, EventTypes DEF TypeOK, EventsType, ReaderExit
  <2>. QED
    BY <1>3, <2>1, IntentKept, ChannelKept, ClientsKept, TypeEnvironmentKept, Zenon DEF ReaderExit
<1>4. ASSUME ClientVanish(c) PROVE TypeOK'
  <2>1. ClientsType'
    BY <1>4, Zenon DEF TypeOK, ClientsType, ClientVanish
  <2>. QED
    BY <1>4, <2>1, IntentKept, EventsKept, ChannelKept, TypeEnvironmentKept, Zenon DEF ClientVanish
<1>5. ASSUME WriterFail(c) PROVE TypeOK'
  <2>1. ChannelType'
    BY <1>5 DEF TypeOK, ChannelType, WriterFail
  <2>. QED
    BY <1>5, <2>1, IntentKept, EventsKept, ClientsKept, TypeEnvironmentKept, Zenon DEF WriterFail
<1>6. ASSUME WriterWrite(c) PROVE TypeOK'
  <2> DEFINE m == Head(chan[c])
  <2>1. m \in ServerMsg /\ Tail(chan[c]) \in Seq(ServerMsg)
    BY <1>6 DEF TypeOK, ChannelType, WriterWrite
  <2>2. ChannelType'
    BY <1>6, <2>1, Zenon DEF TypeOK, ChannelType, WriterWrite
  <2>3. ClientReceive(c, m) /\ UNCHANGED <<up, sent>>
    BY <1>6, Zenon DEF WriterWrite
  <2> HIDE DEF m
  <2>4. ClientsType'
    <3>1. learned' \in [Conns -> SUBSET Route]
      BY <2>1, <2>3, ServerMsgFields, Zenon DEF TypeOK, ClientsType, ClientReceive
    <3>2. open' \in [Conns -> SUBSET Sessions]
      BY <2>1, <2>3, ServerMsgFields, Zenon DEF TypeOK, ClientsType, ClientReceive
    <3>. QED
      BY <2>3, <3>1, <3>2, Zenon DEF TypeOK, ClientsType
  <2>5. IntentType'
    BY <2>1, <2>3, Zenon DEF TypeOK, IntentType, ClientReceive
  <2>. QED
    BY <1>6, <2>2, <2>4, <2>5, EventsKept, TypeEnvironmentKept, Zenon DEF WriterWrite
<1>. QED
  BY <1>1, <1>2, <1>3, <1>4, <1>5, <1>6, Zenon

(* Every frame a client sends is one of the frames it may send. *)
LEMMA ClientFrames ==
    ASSUME TypeOK, NEW c \in Conns, Client(c)
    PROVE  ClientVanish(c) \/ \E m \in ClientMsg : Post(c, m)
<1>1. CASE ClientDeclare(c)
  BY <1>1, EventTypes, Zenon DEF ClientDeclare
<1>2. CASE ClientRevoke(c)
  <2>1. PICK r \in learned[c] : Post(c, Revoke(OwnSession(r, c)))
    BY <1>2, Zenon DEF ClientRevoke
  <2>2. r \in Route
    BY Zenon DEF TypeOK, ClientsType
  <2>. QED
    BY <2>1, <2>2, EventTypes, RouteEnds, Zenon
<1>3. CASE ClientService(c)
  <2>1. PICK r \in learned[c] : Post(c, Service(OwnSession(r, c), r))
    BY <1>3, Zenon DEF ClientService
  <2>2. r \in Route
    BY Zenon DEF TypeOK, ClientsType
  <2>. QED
    BY <2>1, <2>2, EventTypes, RouteEnds, Zenon
<1>4. CASE ClientWatch(c) \/ ClientUnwatch(c)
  BY <1>4, EventTypes, Zenon DEF ClientWatch, ClientUnwatch
<1>5. CASE ClientIgnored(c)
  BY <1>5, EventTypes, Zenon DEF ClientIgnored
<1>. QED
  BY <1>1, <1>2, <1>3, <1>4, <1>5, Zenon DEF Client

(* One enqueue: the target of a pending send is a connection. *)
LEMMA TypeTryEnqueue == TypeOK /\ TryEnqueue => TypeOK'
<1> SUFFICES ASSUME TypeOK, TryEnqueue PROVE TypeOK'
  BY Zenon
<1>1. PICK m \in outbox :
        /\ outbox' = outbox \ {m}
        /\ \/ UNCHANGED <<chan, overflow_teardown>>
           \/ /\ chan' = [chan EXCEPT ![m.to] = Append(@, m.msg)]
              /\ UNCHANGED overflow_teardown
           \/ /\ overflow_teardown' = overflow_teardown \cup {m.to}
              /\ UNCHANGED chan
        /\ UNCHANGED <<tables, phase, closing, draining, events, reader,
                       writer, clients, ghosts>>
  BY Zenon DEF TryEnqueue
<1>2. m.to \in Conns /\ m.msg \in ServerMsg
  BY Zenon DEF TypeOK, OutboxType
<1>3. ChannelType'
  <2>1. Append(chan[m.to], m.msg) \in Seq(ServerMsg)
    BY <1>2 DEF TypeOK, ChannelType
  <2>. QED
    BY <1>1, <1>2, <2>1, Zenon DEF TypeOK, ChannelType
<1>4. OutboxType'
  BY <1>1, Zenon DEF TypeOK, OutboxType
<1>5. ControlType'
  BY <1>1, <1>2, Zenon DEF TypeOK, ControlType, ghosts
<1>6. RegistryType' /\ RoutesType' /\ WatchType' /\ IntentType' /\ EventsType' /\ ClientsType'
  BY <1>1, RegistryKept, RoutesKept, WatchKept, IntentKept, EventsKept, ClientsKept, Zenon DEF tables, clients, ghosts
<1>. QED
  BY <1>3, <1>4, <1>5, <1>6, Zenon DEF TypeOK

(* Taking an event: what every handler leaves alone. *)
LEMMA TypeTake ==
    ASSUME TypeOK, NEW kind, TakeEvent(kind), closing' \in Conns \cup {NoConn},
           UNCHANGED <<torn, gone>>,
           RegistryType', RoutesType', WatchType', IntentType', OutboxType'
    PROVE  TypeOK'
<1>1. EventsType'
  BY HeadEvent, Zenon DEF TypeOK, EventsType, TakeEvent
<1>2. ControlType'
  BY Zenon DEF TypeOK, ControlType, TakeEvent
<1>3. ChannelType' /\ ClientsType'
  BY ChannelKept, ClientsKept, Zenon DEF TakeEvent, clients
<1>. QED
  BY <1>1, <1>2, <1>3, Zenon DEF TypeOK

(* The answers to DeclareInterest: counters stay within the limit. *)
LEMMA TypeDeclareInterest ==
    ASSUME TypeOK, NEW c \in Conns, NEW m \in ClientMsg, ProcessDeclareInterest(c, m)
    PROVE  RegistryType' /\ RoutesType' /\ WatchType' /\ IntentType' /\ OutboxType'
<1>0. m.service \in Services
  BY FrameFields, Zenon DEF ProcessDeclareInterest
<1>1. \A d \in Conns : /\ NextId(d) \in 1..SessionLimit
                       /\ ~Exhausted(d) => NextId(d) \in Sessions
  BY ConstantsAssumption DEF TypeOK, RoutesType, NextId, Exhausted, Sessions
<1>2. RoutesType' /\ OutboxType'
  <2>1. CASE DeclineUnprovided(c, m.service)
    <3>1. OutboxType'
      BY <2>1, ServerMsgTypes, Zenon DEF OutboxType, DeclineUnprovided
    <3>. QED
      BY <2>1, <3>1, RoutesKept, Zenon DEF DeclineUnprovided
  <2>2. CASE DeclineExhausted(c, m.service)
    <3>1. /\ \/ /\ Exhausted(c)
                /\ next_session' = [next_session EXCEPT ![c] = NextId(c)]
                /\ UNCHANGED issued
             \/ /\ ~Exhausted(c)
                /\ next_session' = [next_session EXCEPT ![c] = NextId(c) + 1]
                /\ issued' = issued \cup {<<c, NextId(c)>>}
          /\ outbox' = {Send(c, Declined)}
          /\ UNCHANGED routing_table
      BY <2>2, Zenon DEF DeclineExhausted
    <3>2. /\ NextId(c) \in 0..SessionLimit
          /\ ~Exhausted(c) => NextId(c) + 1 \in 0..SessionLimit
          /\ ~Exhausted(c) => <<c, NextId(c)>> \in Conns \X Sessions
      BY <1>1, ConstantsAssumption DEF Sessions
    <3>3. next_session' \in [Conns -> 0..SessionLimit]
      <4>1. PICK n \in 0..SessionLimit :
               next_session' = [next_session EXCEPT ![c] = n]
        BY <3>1, <3>2, Zenon
      <4>. QED
        BY <4>1, Zenon DEF TypeOK, RoutesType
    <3>4. issued' \in SUBSET (Conns \X Sessions)
      BY <3>1, <3>2, Zenon DEF TypeOK, RoutesType
    <3>5. OutboxType'
      BY <3>1, ServerMsgTypes, Zenon DEF OutboxType
    <3>. QED
      BY <3>1, <3>3, <3>4, <3>5, Zenon DEF TypeOK, RoutesType
  <2>3. CASE AcceptInterest(c, m.service)
    <3> DEFINE R(p) == [consumer_conn |-> c, consumer_session |-> NextId(c),
                        provider_conn |-> p, provider_session |-> NextId(p)]
    <3>1. PICK p \in Conns \ {c} :
             /\ ~Exhausted(c) /\ ~Exhausted(p)
             /\ next_session' = [next_session EXCEPT ![c] = NextId(c) + 1,
                                                     ![p] = NextId(p) + 1]
             /\ routing_table' = [routing_table EXCEPT ![c][NextId(c)] = R(p),
                                                       ![p][NextId(p)] = R(p)]
             /\ outbox' = AcceptNotices(R(p))
             /\ issued' = issued \cup {<<c, NextId(c)>>, <<p, NextId(p)>>}
      BY <2>3, Zenon DEF AcceptInterest
    <3> DEFINE cs == NextId(c)
               ps == NextId(p)
               r == R(p)
    <3>2. cs \in Sessions /\ ps \in Sessions
      BY <3>1, <1>1, Zenon
    <3>3. /\ r \in Route
          /\ r.consumer_conn = c /\ r.consumer_session = cs
          /\ r.provider_conn = p /\ r.provider_session = ps
      BY <3>2, Zenon DEF Route
    <3>4. /\ next_session' = [next_session EXCEPT ![c] = cs + 1, ![p] = ps + 1]
          /\ routing_table' = [routing_table EXCEPT ![c][cs] = r, ![p][ps] = r]
          /\ outbox' = AcceptNotices(r)
          /\ issued' = issued \cup {<<c, cs>>, <<p, ps>>}
      BY <3>1, Zenon
    <3> HIDE DEF cs, ps, r, R
    <3>5. OutboxType'
      BY <3>2, <3>3, <3>4, ServerMsgTypes DEF AcceptNotices, OutboxType
    <3>6. next_session' \in [Conns -> 0..SessionLimit]
      <4>1. cs + 1 \in 0..SessionLimit /\ ps + 1 \in 0..SessionLimit
        BY <3>2, ConstantsAssumption DEF Sessions
      <4>. QED
        BY <3>4, <4>1, Zenon DEF TypeOK, RoutesType
    <3>7. issued' \in SUBSET (Conns \X Sessions)
      BY <3>2, <3>4 DEF TypeOK, RoutesType
    <3>8. routing_table' \in [Conns -> [Sessions -> Route \cup {NoRoute}]]
      <4>1. routing_table \in [Conns -> [Sessions -> Route \cup {NoRoute}]]
        BY Zenon DEF TypeOK, RoutesType
      <4>. QED
        BY <3>2, <3>3, <3>4, <4>1, Zenon
    <3>. QED
      BY <3>5, <3>6, <3>7, <3>8, Zenon DEF RoutesType
  <2>. QED
    BY <2>1, <2>2, <2>3, Zenon DEF ProcessDeclareInterest
<1>3. RegistryType' /\ WatchType' /\ IntentType'
  BY RegistryKept, WatchKept, IntentKept, Zenon DEF ProcessDeclareInterest
<1>. QED
  BY <1>2, <1>3, Zenon

(* The other frame handlers. *)
LEMMA TypeOtherFrames ==
    ASSUME TypeOK, NEW c \in Conns, NEW m \in ClientMsg,
           \/ ProcessRevokeInterest(c, m) \/ ProcessService(c, m)
           \/ ProcessWatch(c, m) \/ ProcessUnwatch(c, m) \/ ProcessIgnored(c, m)
    PROVE  RegistryType' /\ RoutesType' /\ WatchType' /\ IntentType' /\ OutboxType'
<1>1. CASE ProcessRevokeInterest(c, m)
  <2> DEFINE r == routing_table[c][m.session]
  <2>0. m.session \in Sessions
    BY <1>1, FrameFields, Zenon DEF ProcessRevokeInterest
  <2>1. m.session \in Sessions /\ r \in Route \cup {NoRoute}
    BY <2>0, Zenon DEF TypeOK, RoutesType
  <2>2. RoutesType' /\ OutboxType'
    <3>1. CASE r = NoRoute
      BY <1>1, <3>1, RoutesKept, OutboxKept, Zenon DEF ProcessRevokeInterest
    <3>2. CASE r # NoRoute
      <4> DEFINE e == PeerConn(r, c)
                 t == PeerSession(r, c)
      <4>1. e \in Conns /\ t \in Sessions
        BY <2>1, <3>2, RouteEnds, Zenon
      <4>2. /\ routing_table' = [routing_table EXCEPT ![c][m.session] = NoRoute,
                                                      ![e][t] = NoRoute]
            /\ outbox' = RevokeNotices(c, m.session, r)
            /\ UNCHANGED <<next_session, issued>>
        BY <1>1, <3>2, Zenon DEF ProcessRevokeInterest
      <4>3. OutboxType'
        BY <2>1, <4>1, <4>2, ServerMsgTypes DEF RevokeNotices, OutboxType
      <4> HIDE DEF r, e, t
      <4>4. routing_table' \in [Conns -> [Sessions -> Route \cup {NoRoute}]]
        <5>1. routing_table \in [Conns -> [Sessions -> Route \cup {NoRoute}]]
          BY Zenon DEF TypeOK, RoutesType
        <5>. QED
          BY <2>1, <4>1, <4>2, <5>1, Zenon
      <4>. QED
        BY <4>2, <4>3, <4>4, Zenon DEF TypeOK, RoutesType
    <3>. QED
      BY <3>1, <3>2, Zenon
  <2>3. RegistryType' /\ WatchType' /\ IntentType'
    BY <1>1, RegistryKept, WatchKept, IntentKept, Zenon DEF ProcessRevokeInterest
  <2>. QED
    BY <2>2, <2>3, Zenon
<1>2. CASE ProcessService(c, m)
  <2> DEFINE r == routing_table[c][m.session]
  <2>0. m.session \in Sessions /\ m.via \in Route
    BY <1>2, FrameFields, Zenon DEF ProcessService
  <2>1. r \in Route \cup {NoRoute}
    BY <2>0, Zenon DEF TypeOK, RoutesType
  <2>2. r # NoRoute => PeerConn(r, c) \in Conns /\ PeerSession(r, c) \in Sessions
    BY <2>1, RouteEnds, Zenon
  <2> DEFINE e == PeerConn(r, c)
             t == PeerSession(r, c)
  <2>3. OutboxType'
    <3>1. outbox' = IF r = NoRoute THEN {} ELSE {Send(e, Service(t, m.via))}
      BY <1>2, Zenon DEF ProcessService
    <3> HIDE DEF r, e, t
    <3>2. r # NoRoute => Send(e, Service(t, m.via)) \in [to : Conns, msg : ServerMsg]
      BY <2>0, <2>2, ServerMsgTypes, Zenon DEF e, t
    <3>. QED
      BY <3>1, <3>2, Zenon DEF OutboxType
  <2>4. RegistryType' /\ RoutesType' /\ WatchType' /\ IntentType'
    BY <1>2, RegistryKept, RoutesKept, WatchKept, IntentKept, Zenon DEF ProcessService, tables
  <2>. QED
    BY <2>3, <2>4, Zenon
<1>3. CASE ProcessWatch(c, m)
  <2>1. m.target \in Conns
    BY <1>3, FrameFields, Zenon DEF ProcessWatch
  <2>2. WatchType'
    BY <1>3, <2>1 DEF ProcessWatch, TypeOK, WatchType
  <2>3. IntentType'
    BY <1>3, <2>1, Zenon DEF ProcessWatch, TypeOK, IntentType
  <2>4. OutboxType'
    <3>1. {Send(c, Exited(m.target))} \subseteq [to : Conns, msg : ServerMsg]
      BY <2>1, ServerMsgTypes, Zenon
    <3>. QED
      BY <1>3, <3>1, Zenon DEF ProcessWatch, UnknownTargetNotice, TypeOK, OutboxType
  <2>5. RegistryType' /\ RoutesType'
    BY <1>3, RegistryKept, RoutesKept, Zenon DEF ProcessWatch
  <2>. QED
    BY <2>2, <2>3, <2>4, <2>5, Zenon
<1>4. CASE ProcessUnwatch(c, m)
  <2>1. WatchType'
    BY <1>4 DEF ProcessUnwatch, TypeOK, WatchType
  <2>2. IntentType'
    BY <1>4, Zenon DEF ProcessUnwatch, TypeOK, IntentType
  <2>3. RegistryType' /\ RoutesType' /\ OutboxType'
    BY <1>4, RegistryKept, RoutesKept, OutboxKept, Zenon DEF ProcessUnwatch
  <2>. QED
    BY <2>1, <2>2, <2>3, Zenon
<1>5. CASE ProcessIgnored(c, m)
  BY <1>5, RegistryKept, RoutesKept, WatchKept, IntentKept, OutboxKept, Zenon DEF ProcessIgnored, tables
<1>. QED
  BY <1>1, <1>2, <1>3, <1>4, <1>5, Zenon

(* The first half of process_disconnect. *)
LEMMA TypeStartDisconnect ==
    ASSUME TypeOK, NEW c \in Conns, StartDisconnect(c)
    PROVE  /\ closing' \in Conns
           /\ RegistryType' /\ RoutesType' /\ WatchType' /\ IntentType' /\ OutboxType'
<1>1. OutboxType'
  <2>1. {Send(w, Exited(c)) : w \in watch_table[c]} \subseteq [to : Conns, msg : ServerMsg]
    BY ServerMsgTypes, Zenon DEF TypeOK, WatchType
  <2>. QED
    BY <2>1, Zenon DEF TypeOK, OutboxType, StartDisconnect
<1>2. WatchType'
  <2>1. ReverseWithoutWatched(c) \in [Conns -> SUBSET Conns]
    BY Zenon DEF ReverseWithoutWatched, TypeOK, WatchType
  <2>2. watcher_reverse' \in [Conns -> SUBSET Conns]
    BY <2>1, Zenon DEF TypeOK, WatchType, StartDisconnect
  <2>3. watch_table' \in [Conns -> SUBSET Conns]
    BY Zenon DEF TypeOK, WatchType, StartDisconnect
  <2>. QED
    BY <2>2, <2>3, Zenon DEF TypeOK, WatchType, StartDisconnect
<1>3. RegistryType' /\ RoutesType' /\ IntentType'
  BY RegistryKept, RoutesKept, IntentKept, Zenon DEF StartDisconnect, ghosts
<1>. QED
  BY <1>1, <1>2, <1>3, Zenon DEF StartDisconnect

(* The ends remove_connection notifies are connections with session ids. *)
LEMMA PeersType ==
    ASSUME TypeOK, NEW c \in Conns
    PROVE  PeersToNotify(c) \subseteq Conns \X Sessions
<1>1. ASSUME NEW s \in Sessions, routing_table[c][s] # NoRoute
      PROVE  /\ PeerConn(routing_table[c][s], c) \in Conns
             /\ PeerSession(routing_table[c][s], c) \in Sessions
  <2>1. routing_table[c][s] \in Route
    BY <1>1, Zenon DEF TypeOK, RoutesType
  <2>. QED
    BY <2>1, RouteEnds, Zenon
<1>. QED
  BY <1>1 DEF PeersToNotify

(* The second half of process_disconnect. *)
LEMMA TypeFinishDisconnect ==
    ASSUME TypeOK, FinishDisconnect
    PROVE  TypeOK'
<1>1. closing \in Conns
  BY Zenon DEF FinishDisconnect, TypeOK, ControlType
<1>2. OutboxType'
  <2>1. \A p \in PeersToNotify(closing) : p[1] \in Conns /\ p[2] \in Sessions
    BY <1>1, PeersType, Zenon
  <2>2. \A p \in PeersToNotify(closing) :
           Send(p[1], Teardown(p[2])) \in [to : Conns, msg : ServerMsg]
    BY <2>1, ServerMsgTypes, Zenon
  <2>. QED
    BY <2>2, Zenon DEF FinishDisconnect, OutboxType
<1>3. RoutesType'
  <2>1. RoutesWithout(closing) \in [Conns -> [Sessions -> Route \cup {NoRoute}]]
    BY Zenon DEF RoutesWithout, TypeOK, RoutesType
  <2>2. next_session' \in [Conns -> 0..SessionLimit]
    BY <1>1, ConstantsAssumption DEF FinishDisconnect, TypeOK, RoutesType
  <2>. QED
    BY <2>1, <2>2, Zenon DEF FinishDisconnect, TypeOK, RoutesType
<1>4. WatchType'
  BY <1>1, Zenon DEF FinishDisconnect, WatchesWithout, TypeOK, WatchType
<1>5. RegistryType'
  BY Zenon DEF FinishDisconnect, ProvidersWithout, TypeOK, RegistryType
<1>6. ControlType'
  BY <1>1, Zenon DEF FinishDisconnect, TypeOK, ControlType
<1>7. IntentType' /\ EventsType' /\ ChannelType' /\ ClientsType'
  BY IntentKept, EventsKept, ChannelKept, ClientsKept, Zenon DEF FinishDisconnect, threads, clients
<1>. QED
  BY <1>2, <1>3, <1>4, <1>5, <1>6, <1>7, Zenon DEF TypeOK

(* A step of the actor keeps every value in its type. *)
LEMMA TypeActor == TypeOK /\ Actor => TypeOK'
<1> SUFFICES ASSUME TypeOK, Actor PROVE TypeOK'
  BY Zenon
<1>1. CASE TryEnqueue
  BY <1>1, TypeTryEnqueue, Zenon
<1>2. CASE ProcessNewConnection
  <2>1. /\ Head(events).conn \in Conns
        /\ Head(events).provides \in SUBSET Services
    BY <1>2, HeadEvent, EventFields, Zenon DEF ProcessNewConnection, TakeEvent
  <2>2. RegistryType'
    BY <1>2, <2>1 DEF TypeOK, RegistryType, ProcessNewConnection
  <2>3. RoutesType'
    <3>1. 1 \in 0..SessionLimit
      BY ConstantsAssumption
    <3>. QED
      BY <1>2, <3>1, Zenon DEF TypeOK, RoutesType, ProcessNewConnection, ghosts
  <2>4. WatchType'
    BY <1>2, <2>1, Zenon DEF TypeOK, WatchType, ProcessNewConnection
  <2>5. IntentType' /\ OutboxType' /\ UNCHANGED <<torn, gone>>
    BY <1>2, IntentKept, OutboxKept, Zenon DEF ProcessNewConnection, ghosts
  <2>6. closing' \in Conns \cup {NoConn} /\ TakeEvent("NewConnection")
    BY <1>2, Zenon DEF ProcessNewConnection, TypeOK, ControlType
  <2>. QED
    BY <2>2, <2>3, <2>4, <2>5, <2>6, TypeTake, Zenon
<1>3. CASE ProcessFrame
  <2>1. Head(events).conn \in Conns /\ Head(events).msg \in ClientMsg
    BY <1>3, HeadEvent, EventFields, Zenon DEF ProcessFrame, TakeEvent
  <2>2. /\ TakeEvent("Frame") /\ UNCHANGED <<torn, gone>>
        /\ closing' \in Conns \cup {NoConn}
    BY <1>3, Zenon DEF ProcessFrame, TypeOK, ControlType
  <2>3. RegistryType' /\ RoutesType' /\ WatchType' /\ IntentType' /\ OutboxType'
    <3> DEFINE c == Head(events).conn
               m == Head(events).msg
    <3>1. \/ ProcessDeclareInterest(c, m)
          \/ \/ ProcessRevokeInterest(c, m) \/ ProcessService(c, m)
             \/ ProcessWatch(c, m) \/ ProcessUnwatch(c, m) \/ ProcessIgnored(c, m)
      BY <1>3, Zenon DEF ProcessFrame
    <3> HIDE DEF c, m
    <3>2. c \in Conns /\ m \in ClientMsg
      BY <2>1, Zenon DEF c, m
    <3>. QED
      BY <3>1, <3>2, TypeDeclareInterest, TypeOtherFrames, Zenon
  <2>. QED
    BY <2>2, <2>3, TypeTake, Zenon
<1>4. CASE ProcessDisconnect
  <2>1. Head(events).conn \in Conns
    BY <1>4, HeadEvent, EventFields, Zenon DEF ProcessDisconnect, TakeEvent
  <2>2. StartDisconnect(Head(events).conn) /\ TakeEvent("Disconnected")
    BY <1>4, Zenon DEF ProcessDisconnect
  <2>3. UNCHANGED <<torn, gone>>
    BY <2>2, Zenon DEF StartDisconnect, ghosts
  <2>. QED
    BY <2>1, <2>2, <2>3, TypeStartDisconnect, TypeTake, Zenon
<1>5. CASE FinishDisconnect
  BY <1>5, TypeFinishDisconnect, Zenon
<1>6. CASE EndEvent \/ EndDrain
  <2>1. ControlType'
    BY <1>6, Zenon DEF TypeOK, ControlType, EndEvent, EndDrain, ghosts
  <2>2. /\ RegistryType' /\ RoutesType' /\ WatchType' /\ IntentType' /\ OutboxType'
        /\ EventsType' /\ ChannelType' /\ ClientsType'
    BY <1>6, RegistryKept, RoutesKept, WatchKept, IntentKept, OutboxKept, EventsKept, ChannelKept, ClientsKept, Zenon DEF EndEvent, EndDrain, tables, threads, clients, ghosts
  <2>. QED
    BY <2>1, <2>2, Zenon DEF TypeOK
<1>7. CASE DrainOne
  <2>1. PICK c \in draining : draining' = draining \ {c} /\ StartDisconnect(c)
    BY <1>7, Zenon DEF DrainOne
  <2>2. c \in Conns
    BY Zenon DEF TypeOK, ControlType
  <2>3. /\ closing' \in Conns
        /\ RegistryType' /\ RoutesType' /\ WatchType' /\ IntentType' /\ OutboxType'
    BY <2>1, <2>2, TypeStartDisconnect, Zenon
  <2>4. ControlType'
    BY <1>7, <2>1, <2>3, Zenon DEF TypeOK, ControlType, DrainOne, StartDisconnect, ghosts
  <2>5. EventsType' /\ ChannelType' /\ ClientsType'
    BY <1>7, EventsKept, ChannelKept, ClientsKept, Zenon DEF DrainOne, threads, clients
  <2>. QED
    BY <2>3, <2>4, <2>5, Zenon DEF TypeOK
<1>. QED
  BY <1>1, <1>2, <1>3, <1>4, <1>5, <1>6, <1>7, Zenon DEF Actor

(* Every step, and none, keeps every value in its type. *)
LEMMA TypeStep == TypeOK /\ [Next]_vars => TypeOK'
<1> SUFFICES ASSUME TypeOK, [Next]_vars PROVE TypeOK'
  BY Zenon
<1>1. CASE Actor
  BY <1>1, TypeActor, Zenon
<1>2. ASSUME NEW c \in Conns,
             \/ \E p \in SUBSET Services : Accept(c, p)
             \/ Client(c) \/ ReaderExit(c) \/ WriterWrite(c) \/ WriterFail(c)
      PROVE  TypeOK'
  BY <1>2, TypeEnvironment, ClientFrames, Zenon
<1>3. CASE UNCHANGED vars
  <2>1. /\ RegistryType' /\ RoutesType' /\ WatchType' /\ IntentType' /\ ControlType'
        /\ OutboxType' /\ EventsType' /\ ChannelType' /\ ClientsType'
    BY <1>3, RegistryKept, RoutesKept, WatchKept, IntentKept, ControlKept, OutboxKept, EventsKept, ChannelKept, ClientsKept, Zenon DEF vars, tables, control, threads, clients, ghosts
  <2>. QED
    BY <2>1, Zenon DEF TypeOK
<1>. QED
  BY <1>1, <1>2, <1>3, Zenon DEF Next

(* The empty tables the server starts with are well typed. *)
LEMMA TypeInit == Init => TypeOK
<1> SUFFICES ASSUME Init PROVE TypeOK
  BY Zenon
<1>1. RegistryType /\ WatchType /\ IntentType
  BY DEF Init, RegistryType, WatchType, IntentType
<1>2. RoutesType
  BY ConstantsAssumption DEF Init, RoutesType
<1>3. ControlType /\ OutboxType
  BY Zenon DEF Init, ControlType, OutboxType
<1>4. EventsType /\ ChannelType
  BY DEF Init, EventsType, ChannelType
<1>5. ClientsType
  BY ConstantsAssumption DEF Init, ClientsType
<1>. QED
  BY <1>1, <1>2, <1>3, <1>4, <1>5, Zenon DEF TypeOK

(* The tables, channels and ghosts of the server are always well typed:    *)
(* in particular no counter passes the session limit and no message names  *)
(* the reserved session id.                                                *)
THEOREM TypeCorrect == Spec => []TypeOK
BY TypeInit, TypeStep, PTL DEF Spec

-----------------------------------------------------------------------------
(* The event channel and the routes.  *)

(* The id alloc_session returns is one that does not route. *)
LEMMA NextIdUnused ==
    ASSUME TypeOK, RouteEndsLive, NEW c \in Conns, ~Exhausted(c)
    PROVE  /\ NextId(c) \in Sessions
           /\ routing_table[c][NextId(c)] = NoRoute
           /\ next_session[c] <= NextId(c)
<1>1. /\ next_session[c] \in 0..SessionLimit
      /\ \A s \in Sessions : routing_table[c][s] # NoRoute => s < next_session[c]
  BY Zenon DEF TypeOK, RoutesType, RouteEndsLive
<1>. QED
  BY <1>1, ConstantsAssumption DEF NextId, Exhausted, Sessions

(* Taking the head off the channel, index by index. *)
LEMMA TailEvents ==
    ASSUME TypeOK, events # <<>>, events' = Tail(events)
    PROVE  /\ 1 \in DOMAIN events /\ events[1] = Head(events)
           /\ \A i \in DOMAIN events' :
                 /\ i \in Nat /\ i + 1 \in DOMAIN events /\ i + 1 > 1
                 /\ events'[i] = events[i + 1]
           /\ \A i \in DOMAIN events :
                 i # 1 => i \in Nat /\ i - 1 \in DOMAIN events'
                                    /\ events[i] = events'[i - 1]
BY DEF TypeOK, EventsType

(* Posting an event, index by index. *)
LEMMA AppendEvents ==
    ASSUME TypeOK, NEW e \in Event, events' = Append(events, e)
    PROVE  /\ \A i \in DOMAIN events :
                 i \in DOMAIN events' /\ events'[i] = events[i]
           /\ \E n \in DOMAIN events' :
                 /\ events'[n] = e
                 /\ \A i \in DOMAIN events' :
                       i = n \/ (i \in DOMAIN events /\ i < n)
<1>1. /\ DOMAIN events = 1..Len(events) /\ Len(events) \in Nat
      /\ DOMAIN events' = 1..(Len(events) + 1)
      /\ events'[Len(events) + 1] = e
      /\ \A i \in 1..Len(events) : events'[i] = events[i]
  BY DEF TypeOK, EventsType
<1>2. Len(events) + 1 \in DOMAIN events'
  BY <1>1
<1>. QED
  BY <1>1, <1>2

(* The head of the channel: NewConnection finds the connection unknown,    *)
(* any other event finds it registered and with no NewConnection to come,  *)
(* and Disconnected is its last.                                           *)
LEMMA HeadOrder ==
    ASSUME TypeOK, QueueOrder, events # <<>>, events' = Tail(events)
    PROVE  LET c == Head(events).conn
               kind == Head(events).kind
           IN  /\ c \in Conns /\ reader[c] # "none" /\ ~Leaving(c)
               /\ kind = "NewConnection" => Unknown(c)
               /\ kind # "NewConnection" => Registered(c)
               /\ \A i \in DOMAIN events' :
                     events'[i].conn = c => events'[i].kind # "NewConnection"
               /\ kind = "Disconnected" =>
                     /\ reader[c] = "done"
                     /\ \A i \in DOMAIN events' : events'[i].conn # c
<1> DEFINE c == Head(events).conn
           kind == Head(events).kind
<1>1. c \in Conns
  BY HeadEvent, EventFields, Zenon
<1>2. 1 \in DOMAIN events /\ events[1] = Head(events)
  BY TailEvents, Zenon
<1>3. ASSUME NEW i \in DOMAIN events'
      PROVE  /\ events'[i].conn = c => events'[i].kind # "NewConnection"
             /\ events'[i].conn = c => kind # "Disconnected"
  <2>1. i + 1 \in DOMAIN events /\ 1 < i + 1 /\ events'[i] = events[i + 1]
    BY TailEvents, Zenon
  <2>. QED
    BY <1>2, <2>1, Zenon DEF QueueOrder
<1>4. Awaited(c) => kind = "NewConnection"
  <2> SUFFICES ASSUME NEW i \in DOMAIN events, events[i].kind = "NewConnection",
                      events[i].conn = c
               PROVE  kind = "NewConnection"
    BY Zenon DEF Awaited
  <2>1. CASE i = 1
    BY <2>1, <1>2, Zenon
  <2>2. CASE i # 1
    BY <2>2, <1>3, TailEvents, Zenon
  <2>. QED
    BY <2>1, <2>2, Zenon
<1>5. kind = "NewConnection" => Awaited(c)
  BY <1>2, Zenon DEF Awaited
<1>. QED
  BY <1>1, <1>2, <1>3, <1>4, <1>5, Zenon DEF QueueOrder

(* Steps of clients, readers and writers. *)
Environment ==
    \E c \in Conns :
        \/ \E p \in SUBSET Services : Accept(c, p)
        \/ Client(c) \/ ReaderExit(c) \/ WriterWrite(c) \/ WriterFail(c)

(* The environment never touches the actor's state. *)
LEMMA EnvironmentFrame ==
    ASSUME TypeOK, Environment
    PROVE  UNCHANGED <<tables, control, torn, gone>>
<1>1. PICK c \in Conns :
        \/ \E p \in SUBSET Services : Accept(c, p)
        \/ Client(c) \/ ReaderExit(c) \/ WriterWrite(c) \/ WriterFail(c)
  BY Zenon DEF Environment
<1>2. CASE Client(c)
  BY <1>2, ClientFrames, Zenon DEF ClientVanish, Post, ghosts
<1>3. CASE ~Client(c)
  BY <1>1, <1>3, Zenon DEF Accept, ReaderExit, WriterWrite, WriterFail, ghosts
<1>. QED
  BY <1>2, <1>3, Zenon

(* The order of the event channel survives a step that neither posts nor   *)
(* takes an event.                                                         *)
LEMMA QueueKept ==
    ASSUME TypeOK, QueueOrder, UNCHANGED <<events, reader>>,
           \A d \in Conns : /\ Leaving(d)' => Leaving(d)
                            /\ Unknown(d) => Unknown(d)'
                            /\ Registered(d) => Registered(d)' \/ Leaving(d)
    PROVE  QueueOrder'
<1>1. \A d : Awaited(d)' <=> Awaited(d)
  BY Zenon DEF Awaited
<1>2. \A i \in DOMAIN events : events[i] \in Event
  BY DEF TypeOK, EventsType
<1>3. \A i \in DOMAIN events : events[i].conn \in Conns
  BY <1>2, EventFields, Zenon
<1>. QED
  BY <1>1, <1>3, Zenon DEF QueueOrder

(* ... and one that takes an event off its head. *)
LEMMA QueueTaken ==
    ASSUME TypeOK, QueueOrder, events # <<>>, events' = Tail(events), UNCHANGED reader,
           NEW c, c = Head(events).conn, Registered(c)',
           \A d \in Conns :
              /\ Leaving(d)' => \/ Leaving(d)
                                \/ d = c /\ Head(events).kind = "Disconnected"
              /\ Unknown(d) => Unknown(d)' \/ d = c
              /\ Registered(d) => Registered(d)'
    PROVE  QueueOrder'
<1>1. /\ c \in Conns /\ reader[c] # "none"
      /\ \A i \in DOMAIN events' : events'[i].conn = c => events'[i].kind # "NewConnection"
      /\ Head(events).kind = "Disconnected" =>
            reader[c] = "done" /\ \A i \in DOMAIN events' : events'[i].conn # c
  BY HeadOrder, Zenon
<1>2. ~Awaited(c)'
  BY <1>1, Zenon DEF Awaited
<1>3. \A d : d # c => (Awaited(d)' <=> Awaited(d))
  <2> SUFFICES ASSUME NEW d, d # c PROVE Awaited(d)' <=> Awaited(d)
    BY Zenon
  <2>1. ASSUME Awaited(d)' PROVE Awaited(d)
    <3>1. PICK i \in DOMAIN events' : events'[i].kind = "NewConnection" /\ events'[i].conn = d
      BY <2>1, Zenon DEF Awaited
    <3>. QED
      BY <3>1, TailEvents DEF Awaited
  <2>2. ASSUME Awaited(d) PROVE Awaited(d)'
    <3>1. PICK i \in DOMAIN events : events[i].kind = "NewConnection" /\ events[i].conn = d
      BY <2>2, Zenon DEF Awaited
    <3>2. i # 1
      BY <3>1, TailEvents, Zenon
    <3>3. i - 1 \in DOMAIN events' /\ events[i] = events'[i - 1]
      BY <3>2, TailEvents, Zenon
    <3>. QED
      BY <3>1, <3>3, Zenon DEF Awaited
  <2>. QED
    BY <2>1, <2>2, Zenon
<1>4. \A i \in DOMAIN events' : events'[i].conn \in Conns
  <2>1. \A i \in DOMAIN events : events[i] \in Event
    BY DEF TypeOK, EventsType
  <2>. QED
    BY <2>1, TailEvents, EventFields, Zenon
<1>5. \A i, j \in DOMAIN events' :
         i < j /\ events'[i].conn = events'[j].conn =>
             /\ events'[i].kind # "Disconnected"
             /\ events'[j].kind # "NewConnection"
  <2> SUFFICES ASSUME NEW i \in DOMAIN events', NEW j \in DOMAIN events',
                      i < j, events'[i].conn = events'[j].conn
               PROVE  /\ events'[i].kind # "Disconnected"
                      /\ events'[j].kind # "NewConnection"
    BY Zenon
  <2>1. /\ i \in Nat /\ i + 1 \in DOMAIN events /\ events'[i] = events[i + 1]
        /\ j \in Nat /\ j + 1 \in DOMAIN events /\ events'[j] = events[j + 1]
    BY TailEvents, Zenon
  <2>2. i + 1 < j + 1
    BY <2>1
  <2>. QED
    BY <2>1, <2>2, Zenon DEF QueueOrder
<1>6. \A i \in DOMAIN events' : \A d \in Conns : events'[i].conn = d =>
         /\ reader'[d] # "none"
         /\ events'[i].kind = "Disconnected" => reader'[d] = "done"
         /\ Awaited(d)' \/ Registered(d)'
         /\ ~Leaving(d)'
  <2> SUFFICES ASSUME NEW i \in DOMAIN events', NEW d \in Conns, events'[i].conn = d
               PROVE  /\ reader'[d] # "none"
                      /\ events'[i].kind = "Disconnected" => reader'[d] = "done"
                      /\ Awaited(d)' \/ Registered(d)'
                      /\ ~Leaving(d)'
    BY Zenon
  <2>1. i + 1 \in DOMAIN events /\ events'[i] = events[i + 1]
    BY TailEvents, Zenon
  <2>2. /\ reader[d] # "none"
        /\ events'[i].kind = "Disconnected" => reader[d] = "done"
        /\ Awaited(d) \/ Registered(d)
        /\ ~Leaving(d)
    BY <2>1, Zenon DEF QueueOrder
  <2>. QED
    BY <2>2, <1>1, <1>3, Zenon
<1>7. \A d \in Conns :
         /\ reader'[d] = "none" \/ Awaited(d)' => Unknown(d)'
         /\ reader'[d] = "run" => Awaited(d)' \/ Registered(d)'
         /\ Leaving(d)' => reader'[d] = "done"
  BY <1>1, <1>2, <1>3, Zenon DEF QueueOrder
<1>. QED
  BY <1>4, <1>5, <1>6, <1>7, Zenon DEF QueueOrder

(* ... and one that posts an event. *)
LEMMA QueuePosted ==
    ASSUME TypeOK, QueueOrder, UNCHANGED <<tables, control, torn, gone>>,
           NEW e \in Event, events' = Append(events, e),
           \A d \in Conns \ {e.conn} : reader'[d] = reader[d],
           \/ /\ e.kind = "NewConnection"
              /\ reader[e.conn] = "none" /\ reader'[e.conn] = "run"
           \/ /\ e.kind # "NewConnection"
              /\ reader[e.conn] = "run"
              /\ \/ reader'[e.conn] = "done"
                 \/ reader'[e.conn] = "run" /\ e.kind = "Frame"
    PROVE  QueueOrder'
<1>1. e.conn \in Conns /\ \A i \in DOMAIN events : events[i].conn \in Conns
  <2>1. \A i \in DOMAIN events : events[i] \in Event
    BY DEF TypeOK, EventsType
  <2>. QED
    BY <2>1, EventFields, Zenon
<1>2. \A d : /\ Leaving(d)' <=> Leaving(d)
             /\ Registered(d)' <=> Registered(d)
             /\ Unknown(d)' <=> Unknown(d)
  BY Zenon DEF Leaving, Registered, Unknown, tables, control
<1>3. PICK n \in DOMAIN events' :
         /\ events'[n] = e
         /\ \A i \in DOMAIN events' : i = n \/ (i \in DOMAIN events /\ i < n)
  BY AppendEvents, Zenon
<1>4. \A i \in DOMAIN events : i \in DOMAIN events' /\ events'[i] = events[i]
  BY AppendEvents, Zenon
<1>5. \A d : Awaited(d)' <=> Awaited(d) \/ (e.kind = "NewConnection" /\ d = e.conn)
  BY <1>3, <1>4, Zenon DEF Awaited
<1>6. \A i \in DOMAIN events : events[i].conn = e.conn =>
         events[i].kind # "Disconnected" /\ e.kind # "NewConnection"
  BY Zenon DEF QueueOrder
<1>7. ~Leaving(e.conn)
  BY <1>1, Zenon DEF QueueOrder
<1>8. \A i, j \in DOMAIN events' :
         i < j /\ events'[i].conn = events'[j].conn =>
             /\ events'[i].kind # "Disconnected"
             /\ events'[j].kind # "NewConnection"
  <2> SUFFICES ASSUME NEW i \in DOMAIN events', NEW j \in DOMAIN events',
                      i < j, events'[i].conn = events'[j].conn
               PROVE  /\ events'[i].kind # "Disconnected"
                      /\ events'[j].kind # "NewConnection"
    BY Zenon
  <2>1. i \in Nat /\ j \in Nat /\ n \in Nat
    BY SMTT(30) DEF TypeOK, EventsType
  <2>2. i # n
    BY <1>3, <2>1
  <2>3. CASE j = n
    BY <1>3, <1>4, <1>6, <2>2, <2>3, Zenon
  <2>4. CASE j # n
    BY <1>3, <1>4, <2>2, <2>4 DEF QueueOrder
  <2>. QED
    BY <2>3, <2>4, Zenon
<1>9. \A i \in DOMAIN events' : \A d \in Conns : events'[i].conn = d =>
         /\ reader'[d] # "none"
         /\ events'[i].kind = "Disconnected" => reader'[d] = "done"
         /\ Awaited(d)' \/ Registered(d)'
         /\ ~Leaving(d)'
  <2> SUFFICES ASSUME NEW i \in DOMAIN events', NEW d \in Conns, events'[i].conn = d
               PROVE  /\ reader'[d] # "none"
                      /\ events'[i].kind = "Disconnected" => reader'[d] = "done"
                      /\ Awaited(d)' \/ Registered(d)'
                      /\ ~Leaving(d)'
    BY Zenon
  <2>1. CASE i = n
    BY <2>1, <1>1, <1>2, <1>3, <1>5, <1>7, Zenon DEF QueueOrder
  <2>2. CASE i # n
    BY <2>2, <1>1, <1>2, <1>3, <1>4, <1>5 DEF QueueOrder
  <2>. QED
    BY <2>1, <2>2, Zenon
<1>10. \A d \in Conns :
         /\ reader'[d] = "none" \/ Awaited(d)' => Unknown(d)'
         /\ reader'[d] = "run" => Awaited(d)' \/ Registered(d)'
         /\ Leaving(d)' => reader'[d] = "done"
  BY <1>1, <1>2, <1>5, <1>7, Zenon DEF QueueOrder
<1>11. \A i \in DOMAIN events' : events'[i].conn \in Conns
  BY <1>1, <1>3, <1>4, Zenon
<1>. QED
  BY <1>8, <1>9, <1>10, <1>11, Zenon DEF QueueOrder

(* The connections a step of process_frame may give a route or a counter   *)
(* are the sender and a provider; routes of others only go away.           *)
LEMMA FrameRoutes ==
    ASSUME TypeOK, RouteEndsLive, TablesTidy, NEW c \in Conns, NEW m \in ClientMsg,
           \/ ProcessDeclareInterest(c, m) \/ ProcessRevokeInterest(c, m)
           \/ ProcessService(c, m) \/ ProcessWatch(c, m)
           \/ ProcessUnwatch(c, m) \/ ProcessIgnored(c, m)
    PROVE  /\ UNCHANGED <<provider_index, writers, conn_addresses>>
           /\ \A d \in Conns : d # c /\ d \notin writers => next_session'[d] = next_session[d]
           /\ \A d \in Conns, s \in Sessions :
                 \/ routing_table'[d][s] = routing_table[d][s]
                 \/ routing_table'[d][s] = NoRoute
                 \/ /\ d \in {c} \cup writers
                    /\ routing_table'[d][s].consumer_conn = c
                    /\ routing_table'[d][s].provider_conn \in writers
<1> USE DEF tables
<1>1. CASE ProcessDeclareInterest(c, m)
  <2>1. UNCHANGED <<provider_index, writers, conn_addresses>>
    BY <1>1, Zenon DEF ProcessDeclareInterest
  <2>2. CASE DeclineUnprovided(c, m.service)
    BY <2>1, <2>2, Zenon DEF DeclineUnprovided
  <2>3. CASE DeclineExhausted(c, m.service)
    <3>1. routing_table' = routing_table
      BY <2>3, Zenon DEF DeclineExhausted
    <3>2. \/ next_session' = [next_session EXCEPT ![c] = NextId(c)]
          \/ next_session' = [next_session EXCEPT ![c] = NextId(c) + 1]
      BY <2>3, Zenon DEF DeclineExhausted
    <3>3. \A d \in Conns : d # c => next_session'[d] = next_session[d]
      BY <3>2, Zenon DEF TypeOK, RoutesType
    <3>. QED
      BY <2>1, <3>1, <3>3, Zenon
  <2>4. CASE AcceptInterest(c, m.service)
    <3> DEFINE r(p) == [consumer_conn |-> c, consumer_session |-> NextId(c),
                        provider_conn |-> p, provider_session |-> NextId(p)]
    <3>1. PICK p \in Conns \ {c} :
            /\ p \in provider_index[m.service]
            /\ ~Exhausted(c) /\ ~Exhausted(p)
            /\ next_session' = [next_session EXCEPT ![c] = NextId(c) + 1,
                                                    ![p] = NextId(p) + 1]
            /\ routing_table' = [routing_table EXCEPT ![c][NextId(c)] = r(p),
                                                      ![p][NextId(p)] = r(p)]
      BY <2>4, Zenon DEF AcceptInterest, FirstProvider
    <3>2. m.service \in Services
      BY <1>1, FrameFields, Zenon DEF ProcessDeclareInterest
    <3>3. p \in writers
      BY <3>1, <3>2, Zenon DEF TablesTidy
    <3>6. r(p).consumer_conn = c /\ r(p).provider_conn = p
      BY Zenon
    <3> HIDE DEF r
    <3>4. \A d \in Conns : d # c /\ d # p => next_session'[d] = next_session[d]
      BY <3>1, Zenon DEF TypeOK, RoutesType
    <3>5. \A d \in Conns, s \in Sessions :
             \/ routing_table'[d][s] = routing_table[d][s]
             \/ (d = c \/ d = p) /\ routing_table'[d][s] = r(p)
      <4>1. routing_table \in [Conns -> [Sessions -> Route \cup {NoRoute}]]
        BY Zenon DEF TypeOK, RoutesType
      <4> DEFINE rp == r(p)
                 cs == NextId(c)
                 ps == NextId(p)
      <4>2. routing_table' = [routing_table EXCEPT ![c][cs] = rp, ![p][ps] = rp]
        BY <3>1, Zenon
      <4>3. cs \in Sessions /\ ps \in Sessions
        BY <3>1, NextIdUnused, Zenon
      <4> HIDE DEF rp, cs, ps
      <4>4. \A d \in Conns, s \in Sessions :
               routing_table'[d][s] = IF (d = c /\ s = cs) \/ (d = p /\ s = ps)
                                        THEN rp ELSE routing_table[d][s]
        BY <4>1, <4>2, <4>3, Zenon
      <4>. QED
        BY <4>4, Zenon DEF rp
    <3>. QED
      BY <2>1, <3>3, <3>4, <3>5, <3>6
  <2>. QED
    BY <1>1, <2>2, <2>3, <2>4, Zenon DEF ProcessDeclareInterest
<1>2. CASE ProcessRevokeInterest(c, m)
  <2> DEFINE r == routing_table[c][m.session]
  <2>1. m.session \in Sessions
    BY <1>2, FrameFields, Zenon DEF ProcessRevokeInterest
  <2>2. UNCHANGED <<provider_index, writers, conn_addresses, next_session>>
    BY <1>2, Zenon DEF ProcessRevokeInterest
  <2>3. CASE r = NoRoute
    BY <1>2, <2>2, <2>3, Zenon DEF ProcessRevokeInterest
  <2>4. CASE r # NoRoute
    <3> DEFINE e == PeerConn(r, c)
               t == PeerSession(r, c)
    <3>1. routing_table' = [routing_table EXCEPT ![c][m.session] = NoRoute,
                                                 ![e][t] = NoRoute]
      BY <1>2, <2>4, Zenon DEF ProcessRevokeInterest
    <3>2. e \in Conns /\ t \in Sessions
      <4>1. r \in Route
        BY <2>1, <2>4, Zenon DEF TypeOK, RoutesType
      <4>. QED
        BY <4>1, RouteEnds, Zenon
    <3> HIDE DEF e, t, r
    <3>3. \A d \in Conns, s \in Sessions :
             \/ routing_table'[d][s] = routing_table[d][s]
             \/ routing_table'[d][s] = NoRoute
      <4>1. routing_table \in [Conns -> [Sessions -> Route \cup {NoRoute}]]
        BY Zenon DEF TypeOK, RoutesType
      <4>2. \A d \in Conns, s \in Sessions :
               routing_table'[d][s] = IF (d = c /\ s = m.session) \/ (d = e /\ s = t)
                                        THEN NoRoute ELSE routing_table[d][s]
        BY <2>1, <3>1, <3>2, <4>1, Zenon
      <4>. QED
        BY <4>2, Zenon
    <3>. QED
      BY <2>2, <3>3, Zenon
  <2>. QED
    BY <2>3, <2>4, Zenon
<1>3. CASE ~ProcessDeclareInterest(c, m) /\ ~ProcessRevokeInterest(c, m)
  <2>1. UNCHANGED <<provider_index, writers, conn_addresses, next_session, routing_table>>
    BY <1>3, Zenon DEF ProcessService, ProcessWatch, ProcessUnwatch, ProcessIgnored
  <2>. QED
    BY <2>1, Zenon
<1>. QED
  BY <1>1, <1>2, <1>3, Zenon

(* The event channel keeps its order, and the actor's knowledge of a       *)
(* connection keeps fitting it.                                            *)
LEMMA QueueStep ==
    ASSUME IInv, TypeOK', [Next]_vars
    PROVE  QueueOrder'
<1> USE DEF tables, control, ghosts, threads, clients, IInv
<1>1. CASE Environment
  <2>1. PICK c \in Conns :
          \/ \E p \in SUBSET Services : Accept(c, p)
          \/ Client(c) \/ ReaderExit(c) \/ WriterWrite(c) \/ WriterFail(c)
    BY <1>1, Zenon DEF Environment
  <2>2. UNCHANGED <<tables, control, torn, gone>>
    BY <1>1, EnvironmentFrame, Zenon
  <2>3. CASE \E p \in SUBSET Services : Accept(c, p)
    <3>1. PICK p \in SUBSET Services : Accept(c, p)
      BY <2>3, Zenon
    <3>2. NewConnection(c, p) \in Event
      BY EventTypes, Zenon
    <3>3. NewConnection(c, p).kind = "NewConnection" /\ NewConnection(c, p).conn = c
      BY Zenon DEF NewConnection
    <3>4. /\ reader[c] = "none" /\ reader'[c] = "run"
          /\ \A d \in Conns \ {c} : reader'[d] = reader[d]
          /\ events' = Append(events, NewConnection(c, p))
      BY <3>1, Zenon DEF Accept, TypeOK, EventsType
    <3> HIDE DEF tables, control, ghosts, threads, clients
    <3>. QED
      BY <2>2, <3>2, <3>3, <3>4, QueuePosted, Zenon
  <2>4. CASE Client(c) /\ ~ClientVanish(c)
    <3>1. PICK m \in ClientMsg : Post(c, m)
      BY <2>4, ClientFrames, Zenon
    <3>2. Frame(c, m) \in Event
      BY EventTypes, Zenon
    <3>3. Frame(c, m).kind = "Frame" /\ Frame(c, m).conn = c
      BY Zenon DEF Frame
    <3>4. /\ reader[c] = "run" /\ reader' = reader
          /\ events' = Append(events, Frame(c, m))
      BY <3>1, Zenon DEF Post
    <3> HIDE DEF tables, control, ghosts, threads, clients
    <3>. QED
      BY <2>2, <3>2, <3>3, <3>4, QueuePosted, Zenon
  <2>5. CASE ReaderExit(c)
    <3>2. Disconnected(c) \in Event
      BY EventTypes, Zenon
    <3>3. Disconnected(c).kind = "Disconnected" /\ Disconnected(c).conn = c
      BY Zenon DEF Disconnected
    <3>4. /\ reader[c] = "run" /\ reader'[c] = "done"
          /\ \A d \in Conns \ {c} : reader'[d] = reader[d]
          /\ events' = Append(events, Disconnected(c))
      BY <2>5, Zenon DEF ReaderExit, TypeOK, EventsType
    <3> HIDE DEF tables, control, ghosts, threads, clients
    <3>. QED
      BY <2>2, <3>2, <3>3, <3>4, QueuePosted, Zenon
  <2>6. CASE ClientVanish(c) \/ WriterWrite(c) \/ WriterFail(c)
    <3>1. UNCHANGED <<events, reader>>
      BY <2>6, Zenon DEF ClientVanish, WriterWrite, WriterFail
    <3>. QED
      BY <2>2, <3>1, QueueKept, Zenon DEF Leaving, Unknown, Registered
  <2>. QED
    BY <2>1, <2>3, <2>4, <2>5, <2>6, Zenon
<1>2. CASE TryEnqueue
  BY <1>2, QueueKept, Zenon DEF TryEnqueue, Leaving, Unknown, Registered
<1>3. CASE EndEvent \/ EndDrain
  BY <1>3, QueueKept, ConstantsAssumption, Zenon DEF EndEvent, EndDrain, Leaving, Unknown, Registered
<1>4. CASE DrainOne
  BY <1>4, QueueKept, Zenon DEF DrainOne, StartDisconnect, Leaving, Unknown, Registered
<1>5. CASE FinishDisconnect
  <2>1. \A d \in Conns : Unknown(d) => \A s \in Sessions : RoutesWithout(closing)[d][s] = NoRoute
    BY Zenon DEF Unknown, RoutesWithout
  <2>2. \A d \in Conns, s \in Services :
           d \notin provider_index[s] => d \notin ProvidersWithout(closing)[s]
    BY Zenon DEF ProvidersWithout
  <2>3. closing' = NoConn /\ NoConn \notin Conns
    BY <1>5, ConstantsAssumption, Zenon DEF FinishDisconnect
  <2>4. \A d \in Conns : Unknown(d) => Unknown(d)'
    BY <1>5, <2>1, <2>2, <2>3, Zenon DEF FinishDisconnect, Unknown
  <2>5. \A d \in Conns : Leaving(d)' => Leaving(d)
    BY <1>5, <2>3, Zenon DEF FinishDisconnect, Leaving
  <2>6. \A d \in Conns : Registered(d) => Registered(d)' \/ Leaving(d)
    BY <1>5, Zenon DEF FinishDisconnect, Leaving, Registered
  <2>7. UNCHANGED <<events, reader>>
    BY <1>5, Zenon DEF FinishDisconnect
  <2>. QED
    BY <2>4, <2>5, <2>6, <2>7, QueueKept, Zenon
<1>6. CASE ProcessNewConnection \/ ProcessFrame \/ ProcessDisconnect
  <2>1. PICK c : c = Head(events).conn
    BY Zenon
  <2>2. /\ phase = "idle" /\ phase' = "event" /\ events # <<>> /\ events' = Tail(events)
        /\ UNCHANGED <<reader, overflow_teardown, draining>>
    BY <1>6, Zenon DEF ProcessNewConnection, ProcessFrame, ProcessDisconnect, TakeEvent
  <2>3. closing = NoConn /\ NoConn \notin Conns
    BY <2>2, ConstantsAssumption, Zenon DEF TablesTidy
  <2>4. /\ c \in Conns
        /\ Head(events).kind # "NewConnection" => Registered(c)
    BY <2>1, <2>2, HeadOrder, Zenon
  <2>5. CASE ProcessNewConnection
    <3>1. /\ writers' = writers \cup {c}
          /\ UNCHANGED <<closing, torn, gone, routing_table>>
          /\ \A s \in Services, d \in Conns :
                d # c /\ d \notin provider_index[s] => d \notin provider_index'[s]
      BY <2>1, <2>5, Zenon DEF ProcessNewConnection
    <3>. QED
      BY <2>1, <2>2, <2>3, <2>4, <3>1, QueueTaken, Zenon DEF Leaving, Unknown, Registered
  <2>6. CASE ProcessDisconnect
    <3>1. /\ closing' = c /\ Head(events).kind = "Disconnected"
          /\ UNCHANGED <<writers, torn, gone, provider_index, routing_table>>
      BY <2>1, <2>6, Zenon DEF ProcessDisconnect, StartDisconnect, TakeEvent
    <3>. QED
      BY <2>1, <2>2, <2>3, <2>4, <3>1, QueueTaken, Zenon DEF Leaving, Unknown, Registered
  <2>7. CASE ProcessFrame
    <3>1. Head(events).kind = "Frame" /\ UNCHANGED <<closing, torn, gone>>
      BY <2>7, Zenon DEF ProcessFrame, TakeEvent
    <3>2. PICK m \in ClientMsg :
            \/ ProcessDeclareInterest(c, m) \/ ProcessRevokeInterest(c, m)
            \/ ProcessService(c, m) \/ ProcessWatch(c, m)
            \/ ProcessUnwatch(c, m) \/ ProcessIgnored(c, m)
      BY <2>1, <2>2, <2>7, <3>1, HeadEvent, EventFields, Zenon DEF ProcessFrame
    <3>3. /\ UNCHANGED <<provider_index, writers>>
          /\ \A d \in Conns, s \in Sessions :
                \/ routing_table'[d][s] = routing_table[d][s]
                \/ routing_table'[d][s] = NoRoute
                \/ d = c \/ d \in writers
      BY <2>4, <3>2, FrameRoutes, Zenon
    <3>4. \A d \in Conns : Unknown(d) => Unknown(d)' \/ d = c
      BY <2>2, <3>1, <3>3, Zenon DEF Unknown
    <3>5. \A d \in Conns : (Leaving(d)' => Leaving(d)) /\ (Registered(d) => Registered(d)')
      BY <2>3, <3>1, <3>3, Zenon DEF Leaving, Registered
    <3>6. Registered(c)'
      BY <2>4, <3>1, <3>5, Zenon
    <3>. QED
      BY <2>1, <2>2, <3>4, <3>5, <3>6, QueueTaken, Zenon
  <2>. QED
    BY <1>6, <2>5, <2>6, <2>7, Zenon
<1>7. CASE UNCHANGED vars
  BY <1>7, QueueKept, Zenon DEF vars, Leaving, Unknown, Registered
<1>. QED
  BY <1>1, <1>2, <1>3, <1>4, <1>5, <1>6, <1>7, Zenon DEF Next, Actor, Environment

-----------------------------------------------------------------------------
(* Routes.                                                                 *)

(* Every route that names c is stored under c, so its other key is among   *)
(* the ends remove_connection visits.                                      *)
LEMMA PeersComplete ==
    ASSUME TypeOK, RoutingSymmetric, NEW c \in Conns, NEW d \in Conns,
           NEW s \in Sessions, routing_table[d][s] # NoRoute, d # c,
           \/ routing_table[d][s].consumer_conn = c
           \/ routing_table[d][s].provider_conn = c
    PROVE  <<d, s>> \in PeersToNotify(c)
<1> DEFINE r == routing_table[d][s]
           t == PeerSession(r, d)
<1>1. /\ r \in Route
      /\ r.consumer_conn # r.provider_conn
      /\ d \in {r.consumer_conn, r.provider_conn}
      /\ s = OwnSession(r, d)
      /\ routing_table[PeerConn(r, d)][t] = r
  BY DEF RoutingSymmetric, TypeOK, RoutesType
<1>2. t \in Sessions
  BY <1>1, RouteEnds, Zenon
<1>3. PeerConn(r, d) = c /\ PeerConn(r, c) = d /\ PeerSession(r, c) = s
  BY <1>1 DEF PeerConn, PeerSession, OwnSession
<1>. QED
  BY <1>1, <1>2, <1>3, NoRouteAssumption, Zenon DEF PeersToNotify

(* After remove_connection a route that is still stored was stored before  *)
(* and does not name c, and neither of its keys was removed.               *)
LEMMA RemovedRoutes ==
    ASSUME TypeOK, RoutingSymmetric, NEW c \in Conns,
           NEW d \in Conns, NEW s \in Sessions, RoutesWithout(c)[d][s] # NoRoute
    PROVE  /\ d # c
           /\ RoutesWithout(c)[d][s] = routing_table[d][s]
           /\ routing_table[d][s].consumer_conn # c
           /\ routing_table[d][s].provider_conn # c
           /\ LET r == routing_table[d][s]
              IN  RoutesWithout(c)[PeerConn(r, d)][PeerSession(r, d)] = r
<1> DEFINE r == routing_table[d][s]
           e == PeerConn(r, d)
           u == PeerSession(r, d)
<1>1. d # c /\ <<d, s>> \notin PeersToNotify(c) /\ RoutesWithout(c)[d][s] = r
  BY Zenon DEF RoutesWithout
<1>2. r.consumer_conn # c /\ r.provider_conn # c
  BY <1>1, PeersComplete, Zenon
<1>3. r \in Route /\ routing_table[e][u] = r /\ e \in Conns /\ u \in Sessions
  BY <1>1, RouteEnds DEF TypeOK, RoutesType, RoutingSymmetric
<1>4. e # c
  BY <1>2, Zenon DEF PeerConn
<1>5. <<e, u>> \notin PeersToNotify(c)
  <2>1. SUFFICES ASSUME NEW x \in Sessions, routing_table[c][x] # NoRoute,
                        e = PeerConn(routing_table[c][x], c),
                        u = PeerSession(routing_table[c][x], c)
                 PROVE  FALSE
    BY Zenon DEF PeersToNotify
  <2>2. /\ routing_table[e][u] = routing_table[c][x]
        /\ c \in {routing_table[c][x].consumer_conn, routing_table[c][x].provider_conn}
    BY <2>1 DEF RoutingSymmetric
  <2>. QED
    BY <1>2, <1>3, <2>2, Zenon
<1>. QED
  BY <1>1, <1>2, <1>3, <1>4, <1>5, Zenon DEF RoutesWithout

(* AcceptInterest adds both halves of a route under unused keys. *)
LEMMA RoutingAccept ==
    ASSUME TypeOK, RoutingSymmetric, RouteEndsLive, TablesTidy,
           NEW c \in Conns, NEW s \in Services, Registered(c),
           AcceptInterest(c, s), UNCHANGED <<writers, torn>>
    PROVE  RoutingSymmetric' /\ RouteEndsLive'
<1> DEFINE R(p) == [consumer_conn |-> c, consumer_session |-> NextId(c),
                    provider_conn |-> p, provider_session |-> NextId(p)]
<1>1. PICK p \in Conns \ {c} :
         /\ p \in provider_index[s]
         /\ ~Exhausted(c) /\ ~Exhausted(p)
         /\ next_session' = [next_session EXCEPT ![c] = NextId(c) + 1,
                                                 ![p] = NextId(p) + 1]
         /\ routing_table' = [routing_table EXCEPT ![c][NextId(c)] = R(p),
                                                   ![p][NextId(p)] = R(p)]
  BY Zenon DEF AcceptInterest, FirstProvider
<1> DEFINE r == R(p)
           cs == NextId(c)
           ps == NextId(p)
<1>2. /\ cs \in Sessions /\ routing_table[c][cs] = NoRoute /\ next_session[c] <= cs
      /\ ps \in Sessions /\ routing_table[p][ps] = NoRoute /\ next_session[p] <= ps
  BY <1>1, NextIdUnused, Zenon
<1>3. /\ r.consumer_conn = c /\ r.consumer_session = cs
      /\ r.provider_conn = p /\ r.provider_session = ps
      /\ r \in Route
  BY <1>2, Zenon DEF Route
<1> HIDE DEF R
<1>4. \A d \in Conns, u \in Sessions :
         routing_table'[d][u] = IF (d = c /\ u = cs) \/ (d = p /\ u = ps)
                                  THEN r ELSE routing_table[d][u]
  <2>1. routing_table \in [Conns -> [Sessions -> Route \cup {NoRoute}]]
    BY Zenon DEF TypeOK, RoutesType
  <2>2. routing_table' = [routing_table EXCEPT ![c][cs] = r, ![p][ps] = r]
    BY <1>1, Zenon
  <2>3. cs \in Sessions /\ ps \in Sessions
    BY <1>2, Zenon
  <2> HIDE DEF r, cs, ps
  <2>. QED
    BY <2>1, <2>2, <2>3, Zenon
<1>5. \A d \in Conns :
         next_session'[d] = IF d = c THEN cs + 1
                            ELSE IF d = p THEN ps + 1 ELSE next_session[d]
  BY <1>1, Zenon DEF TypeOK, RoutesType
<1> HIDE DEF r, cs, ps
<1>8. /\ r.consumer_conn # r.provider_conn
      /\ OwnSession(r, c) = cs /\ PeerConn(r, c) = p /\ PeerSession(r, c) = ps
      /\ OwnSession(r, p) = ps /\ PeerConn(r, p) = c /\ PeerSession(r, p) = cs
  BY <1>3, Zenon DEF OwnSession, PeerConn, PeerSession
<1>6. RoutingSymmetric'
  <2> SUFFICES ASSUME NEW d \in Conns, NEW u \in Sessions,
                      routing_table'[d][u] # NoRoute
               PROVE  LET q == routing_table'[d][u]
                      IN  /\ q.consumer_conn # q.provider_conn
                          /\ d \in {q.consumer_conn, q.provider_conn}
                          /\ u = OwnSession(q, d)
                          /\ routing_table'[PeerConn(q, d)][PeerSession(q, d)] = q
    BY Zenon DEF RoutingSymmetric
  <2>1. CASE (d = c /\ u = cs) \/ (d = p /\ u = ps)
    BY <2>1, <1>2, <1>3, <1>4, <1>8, SMTT(30)
  <2>2. CASE ~((d = c /\ u = cs) \/ (d = p /\ u = ps))
    <3> DEFINE q == routing_table[d][u]
    <3>1. routing_table'[d][u] = q /\ q # NoRoute
      BY <2>2, <1>4, Zenon
    <3>2. /\ q \in Route
          /\ q.consumer_conn # q.provider_conn
          /\ d \in {q.consumer_conn, q.provider_conn}
          /\ u = OwnSession(q, d)
          /\ routing_table[PeerConn(q, d)][PeerSession(q, d)] = q
      BY <3>1 DEF RoutingSymmetric, TypeOK, RoutesType
    <3>3. PeerConn(q, d) \in Conns /\ PeerSession(q, d) \in Sessions
      BY <3>2, RouteEnds, Zenon
    <3>. QED
      BY <3>1, <3>2, <3>3, <1>2, <1>4
  <2>. QED
    BY <2>1, <2>2, Zenon
<1>7. RouteEndsLive'
  <2> SUFFICES ASSUME NEW d \in Conns, NEW u \in Sessions,
                      routing_table'[d][u] # NoRoute
               PROVE  /\ u < next_session'[d]
                      /\ routing_table'[d][u].provider_conn \in writers
                      /\ d \in writers \cup torn
    BY Zenon DEF RouteEndsLive
  <2>0. p \in writers /\ c \in writers \cup torn
    BY <1>1, Zenon DEF TablesTidy, Registered
  <2>1. CASE (d = c /\ u = cs) \/ (d = p /\ u = ps)
    <3>1. cs \in Nat /\ ps \in Nat
      BY <1>2, SessionsNat, Zenon
    <3>2. u < next_session'[d]
      BY <2>1, <3>1, <1>5
    <3>. QED
      BY <2>0, <2>1, <3>2, <1>3, <1>4, ZenonT(30)
  <2>2. CASE ~((d = c /\ u = cs) \/ (d = p /\ u = ps))
    <3>1. /\ routing_table'[d][u] = routing_table[d][u]
          /\ u < next_session[d]
          /\ routing_table[d][u].provider_conn \in writers
          /\ d \in writers \cup torn
      BY <2>2, <1>4, Zenon DEF RouteEndsLive
    <3>2. u < next_session'[d]
      <4>0. next_session[d] \in Nat
        BY DEF TypeOK, RoutesType
      <4>1. next_session[d] \in Nat /\ u \in Nat /\ cs \in Nat /\ ps \in Nat
        BY <4>0, <1>2, SessionsNat, Zenon
      <4>. QED
        BY <3>1, <4>1, <1>2, <1>5, SMTT(30)
    <3>. QED
      BY <3>1, <3>2, Zenon
  <2>. QED
    BY <2>1, <2>2, Zenon
<1>. QED
  BY <1>6, <1>7, Zenon

(* RevokeInterest removes both halves of one route. *)
LEMMA RoutingRevoke ==
    ASSUME TypeOK, RoutingSymmetric, RouteEndsLive, NEW c \in Conns,
           NEW s \in Sessions, routing_table[c][s] # NoRoute,
           NEW e, e = PeerConn(routing_table[c][s], c),
           NEW t, t = PeerSession(routing_table[c][s], c),
           \A d \in Conns, u \in Sessions :
              routing_table'[d][u] = IF (d = c /\ u = s) \/ (d = e /\ u = t)
                                       THEN NoRoute ELSE routing_table[d][u],
           UNCHANGED <<next_session, writers, torn>>
    PROVE  RoutingSymmetric' /\ RouteEndsLive'
<1> DEFINE r == routing_table[c][s]
<1>1. /\ r \in Route
      /\ r.consumer_conn # r.provider_conn
      /\ c \in {r.consumer_conn, r.provider_conn}
      /\ s = OwnSession(r, c)
      /\ routing_table[e][t] = r
  BY DEF RoutingSymmetric, TypeOK, RoutesType
<1>2. e \in Conns /\ t \in Sessions
  BY <1>1, RouteEnds, Zenon
<1>3. PeerConn(r, e) = c /\ PeerSession(r, e) = s
  BY <1>1, Zenon DEF PeerConn, PeerSession, OwnSession
<1>6. RoutingSymmetric'
  <2> SUFFICES ASSUME NEW d \in Conns, NEW u \in Sessions,
                      routing_table'[d][u] # NoRoute
               PROVE  LET q == routing_table'[d][u]
                      IN  /\ q.consumer_conn # q.provider_conn
                          /\ d \in {q.consumer_conn, q.provider_conn}
                          /\ u = OwnSession(q, d)
                          /\ routing_table'[PeerConn(q, d)][PeerSession(q, d)] = q
    BY Zenon DEF RoutingSymmetric
  <2> DEFINE q == routing_table[d][u]
  <2>1. /\ ~((d = c /\ u = s) \/ (d = e /\ u = t))
        /\ routing_table'[d][u] = q /\ q # NoRoute
    BY Zenon
  <2>2. /\ q \in Route
        /\ q.consumer_conn # q.provider_conn
        /\ d \in {q.consumer_conn, q.provider_conn}
        /\ u = OwnSession(q, d)
        /\ routing_table[PeerConn(q, d)][PeerSession(q, d)] = q
    BY <2>1 DEF RoutingSymmetric, TypeOK, RoutesType
  <2>3. PeerConn(q, d) \in Conns /\ PeerSession(q, d) \in Sessions
    BY <2>2, RouteEnds, Zenon
  <2>4. /\ PeerConn(q, PeerConn(q, d)) = d
        /\ PeerSession(q, PeerConn(q, d)) = u
    BY <2>2, Zenon DEF PeerConn, PeerSession, OwnSession
  <2>5. ~(PeerConn(q, d) = c /\ PeerSession(q, d) = s)
    BY <2>1, <2>2, <2>4, Zenon
  <2>6. ~(PeerConn(q, d) = e /\ PeerSession(q, d) = t)
    BY <2>1, <2>2, <2>4, <1>1, <1>3, Zenon
  <2>. QED
    BY <2>1, <2>2, <2>3, <2>5, <2>6
<1>7. RouteEndsLive'
  BY Zenon DEF RouteEndsLive
<1>. QED
  BY <1>6, <1>7, Zenon

(* remove_connection removes both halves of every route of c. *)
LEMMA RoutingRemove ==
    ASSUME TypeOK, RoutingSymmetric, RouteEndsLive, NEW c \in Conns,
           routing_table' = RoutesWithout(c),
           next_session' = [next_session EXCEPT ![c] = 0],
           writers' = writers \ {c}, torn \subseteq torn'
    PROVE  RoutingSymmetric' /\ RouteEndsLive'
<1>1. RoutingSymmetric'
  <2> SUFFICES ASSUME NEW d \in Conns, NEW u \in Sessions,
                      routing_table'[d][u] # NoRoute
               PROVE  LET q == routing_table'[d][u]
                      IN  /\ q.consumer_conn # q.provider_conn
                          /\ d \in {q.consumer_conn, q.provider_conn}
                          /\ u = OwnSession(q, d)
                          /\ routing_table'[PeerConn(q, d)][PeerSession(q, d)] = q
    BY Zenon DEF RoutingSymmetric
  <2> DEFINE q == routing_table[d][u]
  <2>1. /\ routing_table'[d][u] = q
        /\ routing_table'[PeerConn(q, d)][PeerSession(q, d)] = q
    BY RemovedRoutes
  <2>2. /\ q.consumer_conn # q.provider_conn
        /\ d \in {q.consumer_conn, q.provider_conn}
        /\ u = OwnSession(q, d)
    BY <2>1, Zenon DEF RoutingSymmetric
  <2>. QED
    BY <2>1, <2>2, Zenon
<1>2. RouteEndsLive'
  <2> SUFFICES ASSUME NEW d \in Conns, NEW u \in Sessions,
                      routing_table'[d][u] # NoRoute
               PROVE  /\ u < next_session'[d]
                      /\ routing_table'[d][u].provider_conn \in writers'
                      /\ d \in writers' \cup torn'
    BY Zenon DEF RouteEndsLive
  <2>1. /\ d # c
        /\ routing_table'[d][u] = routing_table[d][u]
        /\ routing_table[d][u].provider_conn # c
    BY RemovedRoutes
  <2>2. /\ u < next_session[d]
        /\ routing_table[d][u].provider_conn \in writers
        /\ d \in writers \cup torn
    BY <2>1, Zenon DEF RouteEndsLive
  <2>3. next_session'[d] = next_session[d]
    BY <2>1, Zenon DEF TypeOK, RoutesType
  <2>. QED
    BY <2>1, <2>2, <2>3, Zenon
<1>. QED
  BY <1>1, <1>2, Zenon

(* A step that leaves the routes alone and takes no handle away. *)
LEMMA RoutingSame ==
    ASSUME RoutingSymmetric, RouteEndsLive, TypeOK,
           UNCHANGED routing_table, writers \subseteq writers',
           torn \subseteq torn',
           \A c \in Conns : \/ next_session[c] <= next_session'[c]
                            \/ \A s \in Sessions : routing_table[c][s] = NoRoute,
           TypeOK'
    PROVE  RoutingSymmetric' /\ RouteEndsLive'
<1>1. RoutingSymmetric'
  BY Zenon DEF RoutingSymmetric
<1>2. ASSUME NEW c \in Conns, NEW s \in Sessions, routing_table[c][s] # NoRoute
      PROVE  s < next_session'[c]
  <2>1. s < next_session[c] /\ next_session[c] <= next_session'[c]
    BY <1>2, Zenon DEF RouteEndsLive
  <2>2. s \in Nat /\ next_session[c] \in Nat /\ next_session'[c] \in Nat
    BY SessionsNat DEF TypeOK, RoutesType
  <2>. QED
    BY <2>1, <2>2
<1>3. RouteEndsLive'
  BY <1>2, Zenon DEF RouteEndsLive
<1>. QED
  BY <1>1, <1>3, Zenon

(* Routes stay symmetric and their ends live. *)
LEMMA RoutingStep ==
    ASSUME IInv, TypeOK', [Next]_vars
    PROVE  RoutingSymmetric' /\ RouteEndsLive'
<1> USE DEF tables, ghosts, IInv
<1>a. \A c \in Conns : next_session[c] \in Nat
  BY DEF TypeOK, RoutesType
<1>b. ASSUME UNCHANGED <<routing_table, next_session, writers, torn>>
      PROVE  RoutingSymmetric' /\ RouteEndsLive'
  BY <1>b, <1>a, RoutingSame
<1>1. CASE Environment
  BY <1>1, <1>b, EnvironmentFrame, Zenon
<1>2. CASE TryEnqueue \/ EndEvent \/ EndDrain
  BY <1>2, <1>b, Zenon DEF TryEnqueue, EndEvent, EndDrain
<1>3. CASE ProcessDisconnect \/ DrainOne
  BY <1>3, <1>b, Zenon DEF ProcessDisconnect, DrainOne, StartDisconnect
<1>4. CASE ProcessNewConnection
  <2> DEFINE c == Head(events).conn
  <2>1. events # <<>> /\ events' = Tail(events) /\ Head(events).kind = "NewConnection"
    BY <1>4, Zenon DEF ProcessNewConnection, TakeEvent
  <2>2. c \in Conns /\ Unknown(c)
    BY <2>1, HeadOrder, Zenon
  <2>3. /\ next_session' = [next_session EXCEPT ![c] = 1]
        /\ UNCHANGED <<routing_table, torn>> /\ writers \subseteq writers'
    BY <1>4, Zenon DEF ProcessNewConnection
  <2> HIDE DEF c
  <2>4. \A d \in Conns : \/ next_session[d] <= next_session'[d]
                         \/ \A s \in Sessions : routing_table[d][s] = NoRoute
    <3> SUFFICES ASSUME NEW d \in Conns, d # c PROVE next_session[d] <= next_session'[d]
      BY <2>2, Zenon DEF Unknown
    <3>1. next_session'[d] = next_session[d]
      BY <2>3, Zenon DEF TypeOK, RoutesType
    <3>. QED
      BY <3>1, <1>a
  <2>. QED
    BY <2>3, <2>4, RoutingSame, Zenon
<1>5. CASE ProcessFrame
  <2> DEFINE c == Head(events).conn
             m == Head(events).msg
  <2>1. /\ events # <<>> /\ events' = Tail(events) /\ Head(events).kind = "Frame"
        /\ UNCHANGED <<closing, torn, gone>>
    BY <1>5, Zenon DEF ProcessFrame, TakeEvent
  <2>2. c \in Conns /\ m \in ClientMsg /\ Registered(c)
    BY <2>1, HeadOrder, HeadEvent, EventFields, Zenon
  <2>3. CASE ProcessDeclareInterest(c, m)
    <3>1. m.service \in Services /\ UNCHANGED <<writers, torn>>
      BY <2>1, <2>2, <2>3, FrameFields, Zenon DEF ProcessDeclareInterest
    <3>2. CASE DeclineUnprovided(c, m.service)
      BY <3>1, <3>2, <1>b, Zenon DEF DeclineUnprovided
    <3>3. CASE DeclineExhausted(c, m.service)
      <4> DEFINE n == IF Exhausted(c) THEN NextId(c) ELSE NextId(c) + 1
      <4>1. next_session' = [next_session EXCEPT ![c] = n] /\ UNCHANGED routing_table
        BY <3>3, Zenon DEF DeclineExhausted
      <4>2. next_session[c] <= n
        BY <1>a, <2>2 DEF NextId
      <4> HIDE DEF n
      <4>3. \A d \in Conns : next_session'[d] = IF d = c THEN n ELSE next_session[d]
        BY <4>1, Zenon DEF TypeOK, RoutesType
      <4>4. \A d \in Conns : next_session[d] <= next_session'[d]
        BY <4>2, <4>3, <1>a
      <4>. QED
        BY <3>1, <4>1, <4>4, RoutingSame, Zenon
    <3>4. CASE AcceptInterest(c, m.service)
      BY <2>2, <3>1, <3>4, RoutingAccept, Zenon
    <3>. QED
      BY <2>3, <3>2, <3>3, <3>4, Zenon DEF ProcessDeclareInterest
  <2>4. CASE ProcessRevokeInterest(c, m)
    <3> DEFINE s == m.session
               r == routing_table[c][s]
               e == PeerConn(r, c)
               t == PeerSession(r, c)
    <3>1. s \in Sessions /\ UNCHANGED <<next_session, writers, torn>>
      BY <2>1, <2>2, <2>4, FrameFields, Zenon DEF ProcessRevokeInterest
    <3>2. CASE r = NoRoute
      BY <2>4, <3>1, <3>2, <1>b, Zenon DEF ProcessRevokeInterest
    <3>3. CASE r # NoRoute
      <4>1. routing_table' = [routing_table EXCEPT ![c][s] = NoRoute, ![e][t] = NoRoute]
        BY <2>4, <3>3, Zenon DEF ProcessRevokeInterest
      <4>2. r \in Route
        BY <2>2, <3>1, <3>3, Zenon DEF TypeOK, RoutesType
      <4>3. e \in Conns /\ t \in Sessions
        BY <4>2, RouteEnds, Zenon
      <4>4. routing_table \in [Conns -> [Sessions -> Route \cup {NoRoute}]]
        BY Zenon DEF TypeOK, RoutesType
      <4> HIDE DEF s, r, e, t, c, m
      <4>5. \A d \in Conns, u \in Sessions :
               routing_table'[d][u] = IF (d = c /\ u = s) \/ (d = e /\ u = t)
                                        THEN NoRoute ELSE routing_table[d][u]
        BY <2>2, <3>1, <4>1, <4>3, <4>4, Zenon
      <4>. QED
        BY <2>2, <3>1, <3>3, <4>5, RoutingRevoke, SMTT(30) DEF r, e, t
    <3>. QED
      BY <3>2, <3>3, Zenon
  <2>5. CASE \/ ProcessService(c, m) \/ ProcessWatch(c, m)
             \/ ProcessUnwatch(c, m) \/ ProcessIgnored(c, m)
    BY <2>1, <2>5, <1>b, Zenon
       DEF ProcessService, ProcessWatch, ProcessUnwatch, ProcessIgnored
  <2>. QED
    BY <1>5, <2>3, <2>4, <2>5, Zenon DEF ProcessFrame
<1>6. CASE FinishDisconnect
  <2>1. closing \in Conns
    BY <1>6, Zenon DEF FinishDisconnect, TypeOK, ControlType
  <2>2. /\ routing_table' = RoutesWithout(closing)
        /\ next_session' = [next_session EXCEPT ![closing] = 0]
        /\ writers' = writers \ {closing} /\ torn \subseteq torn'
    BY <1>6, Zenon DEF FinishDisconnect
  <2>. QED
    BY <2>1, <2>2, RoutingRemove, Zenon
<1>7. CASE UNCHANGED vars
  BY <1>7, <1>b, Zenon DEF vars
<1>. QED
  BY <1>1, <1>2, <1>3, <1>4, <1>5, <1>6, <1>7, Zenon DEF Next, Actor, Environment

-----------------------------------------------------------------------------
(* StartDisconnect leaves the connection without watchers. *)
LEMMA WatchStart ==
    ASSUME TypeOK, WatchSymmetric, NEW c \in Conns, StartDisconnect(c)
    PROVE  WatchSymmetric' /\ watch_table'[c] = {}
<1>1. \A t \in Conns : watch_table'[t] = IF t = c THEN {} ELSE watch_table[t]
  BY Zenon DEF StartDisconnect, TypeOK, WatchType
<1>2. c \notin conn_addresses => watch_table[c] = {}
  BY Zenon DEF WatchSymmetric, TypeOK, WatchType
<1>3. \A w \in Conns : watcher_reverse'[w] = watcher_reverse[w] \ {c}
  <2>1. CASE c \in conn_addresses
    <3>1. watcher_reverse' = ReverseWithoutWatched(c)
      BY <2>1, Zenon DEF StartDisconnect
    <3>2. \A w \in Conns : w \notin watch_table[c] => c \notin watcher_reverse[w]
      BY Zenon DEF WatchSymmetric
    <3>. QED
      BY <3>1, <3>2, Zenon DEF ReverseWithoutWatched
  <2>2. CASE c \notin conn_addresses
    BY <1>2, <2>2, Zenon DEF StartDisconnect, WatchSymmetric
  <2>. QED
    BY <2>1, <2>2, Zenon
<1>4. UNCHANGED conn_addresses
  BY Zenon DEF StartDisconnect
<1>. QED
  BY <1>1, <1>3, <1>4 DEF WatchSymmetric

(* The two watch indexes stay one relation over panes with an address; no  *)
(* table points at a connection without a handle.                          *)
LEMMA WatchStep ==
    ASSUME IInv, TypeOK', [Next]_vars
    PROVE  WatchSymmetric' /\ TablesTidy'
<1> USE DEF tables, ghosts, IInv
<1>a. ASSUME UNCHANGED <<watch_table, watcher_reverse>>,
             conn_addresses \subseteq conn_addresses'
      PROVE  WatchSymmetric'
  BY <1>a, Zenon DEF WatchSymmetric
<1>b. ASSUME UNCHANGED <<provider_index, writers, closing, watch_table>>,
             closing # NoConn => phase' # "idle"
      PROVE  TablesTidy'
  BY <1>b, Zenon DEF TablesTidy
<1>1. CASE Environment
  <2>1. UNCHANGED <<tables, closing, phase>>
    BY <1>1, EnvironmentFrame, Zenon DEF control
  <2>. QED
    BY <2>1, <1>a, <1>b, Zenon DEF TablesTidy
<1>2. CASE TryEnqueue \/ EndEvent \/ EndDrain
  BY <1>2, <1>a, <1>b, Zenon DEF TryEnqueue, EndEvent, EndDrain, TablesTidy
<1>3. CASE ProcessDisconnect \/ DrainOne
  <2>1. PICK c \in Conns : StartDisconnect(c)
    <3>1. CASE ProcessDisconnect
      BY <3>1, HeadEvent, EventFields, Zenon DEF ProcessDisconnect, TakeEvent
    <3>2. CASE DrainOne
      BY <3>2, Zenon DEF DrainOne, TypeOK, ControlType
    <3>. QED
      BY <1>3, <3>1, <3>2, Zenon
  <2>2. phase' # "idle"
    BY <1>3, Zenon DEF ProcessDisconnect, TakeEvent, DrainOne
  <2>3. closing' = c /\ UNCHANGED <<provider_index, writers>>
    BY <2>1, Zenon DEF StartDisconnect
  <2>. QED
    BY <2>1, <2>2, <2>3, WatchStart, Zenon DEF TablesTidy
<1>4. CASE ProcessNewConnection
  <2>1. /\ events # <<>> /\ phase = "idle" /\ phase' = "event"
        /\ UNCHANGED <<closing, watch_table, watcher_reverse>>
        /\ writers' = writers \cup {Head(events).conn}
        /\ conn_addresses \subseteq conn_addresses'
        /\ \A s \in Services :
              provider_index'[s] \subseteq provider_index[s] \cup {Head(events).conn}
    BY <1>4, Zenon DEF ProcessNewConnection, TakeEvent
  <2>. QED
    BY <2>1, <1>a, Zenon DEF TablesTidy
<1>5. CASE ProcessFrame
  <2> DEFINE c == Head(events).conn
             m == Head(events).msg
  <2>1. /\ events # <<>> /\ phase = "idle" /\ phase' = "event"
        /\ Head(events).kind = "Frame" /\ UNCHANGED closing
    BY <1>5, Zenon DEF ProcessFrame, TakeEvent
  <2>2. c \in Conns /\ m \in ClientMsg /\ closing = NoConn
    BY <2>1, HeadEvent, EventFields, Zenon DEF TablesTidy
  <2>3. CASE \/ ProcessDeclareInterest(c, m) \/ ProcessRevokeInterest(c, m)
             \/ ProcessService(c, m) \/ ProcessIgnored(c, m)
    BY <2>1, <2>3, <1>a, <1>b, Zenon
       DEF ProcessDeclareInterest, ProcessRevokeInterest, ProcessService, ProcessIgnored
  <2>4. CASE ProcessWatch(c, m)
    <3>1. m.target \in Conns /\ UNCHANGED <<conn_addresses, provider_index, writers>>
      BY <2>2, <2>4, FrameFields, Zenon DEF ProcessWatch
    <3>2. CASE m.target \in conn_addresses
      <4>1. /\ watch_table' = [watch_table EXCEPT ![m.target] = @ \cup {c}]
            /\ watcher_reverse' = [watcher_reverse EXCEPT ![c] = @ \cup {m.target}]
        BY <2>4, <3>2, Zenon DEF ProcessWatch
      <4> HIDE DEF c, m
      <4>2. \A t, w \in Conns :
               /\ w \in watch_table'[t] <=> w \in watch_table[t] \/ (t = m.target /\ w = c)
               /\ t \in watcher_reverse'[w] <=> t \in watcher_reverse[w] \/ (t = m.target /\ w = c)
        <5>1. \A t \in Conns : watch_table'[t] =
                 watch_table[t] \cup (IF t = m.target THEN {c} ELSE {})
          BY <3>1, <4>1, Zenon DEF TypeOK, WatchType
        <5>2. \A w \in Conns : watcher_reverse'[w] =
                 watcher_reverse[w] \cup (IF w = c THEN {m.target} ELSE {})
          BY <2>2, <4>1, Zenon DEF TypeOK, WatchType
        <5>. QED
          BY <5>1, <5>2
      <4>. QED
        BY <2>1, <2>2, <3>1, <3>2, <4>2, Zenon DEF WatchSymmetric, TablesTidy
    <3>3. CASE m.target \notin conn_addresses
      BY <2>1, <2>2, <2>4, <3>1, <3>3, <1>a, <1>b, Zenon DEF ProcessWatch
    <3>. QED
      BY <3>2, <3>3, Zenon
  <2>5. CASE ProcessUnwatch(c, m)
    <3>1. m.target \in Conns /\ UNCHANGED <<conn_addresses, provider_index, writers>>
      BY <2>2, <2>5, FrameFields, Zenon DEF ProcessUnwatch
    <3>2. CASE m.target \in conn_addresses
      <4>1. /\ watch_table' = [watch_table EXCEPT ![m.target] = @ \ {c}]
            /\ watcher_reverse' = [watcher_reverse EXCEPT ![c] = @ \ {m.target}]
        BY <2>5, <3>2, Zenon DEF ProcessUnwatch
      <4> HIDE DEF c, m
      <4>2. \A t, w \in Conns :
               /\ w \in watch_table'[t] <=> w \in watch_table[t] /\ ~(t = m.target /\ w = c)
               /\ t \in watcher_reverse'[w] <=> t \in watcher_reverse[w] /\ ~(t = m.target /\ w = c)
        BY <2>2, <3>1, <4>1, Zenon DEF TypeOK, WatchType
      <4>. QED
        BY <2>1, <2>2, <3>1, <4>2, Zenon DEF WatchSymmetric, TablesTidy
    <3>3. CASE m.target \notin conn_addresses
      BY <2>1, <2>2, <2>5, <3>1, <3>3, <1>a, <1>b, Zenon DEF ProcessUnwatch
    <3>. QED
      BY <3>2, <3>3, Zenon
  <2>. QED
    BY <1>5, <2>3, <2>4, <2>5, Zenon DEF ProcessFrame
<1>6. CASE FinishDisconnect
  <2>1. closing \in Conns /\ watch_table[closing] = {} /\ closing' = NoConn
    BY <1>6, Zenon DEF FinishDisconnect, TypeOK, WatchType, ControlType, TablesTidy
  <2>2. \A t, w \in Conns :
           /\ w \in watch_table'[t] <=> w \in watch_table[t] /\ w # closing
           /\ t \in watcher_reverse'[w] <=> t \in watcher_reverse[w] /\ w # closing
    <3>1. \A t \in Conns : watch_table'[t] = watch_table[t] \ {closing}
      BY <1>6, <2>1, Zenon DEF FinishDisconnect, WatchesWithout, WatchSymmetric
    <3>2. \A w \in Conns : watcher_reverse'[w] = IF w = closing THEN {}
                                                 ELSE watcher_reverse[w]
      BY <1>6, <2>1, Zenon DEF FinishDisconnect, TypeOK, WatchType, ControlType
    <3>. QED
      BY <3>1, <3>2, Zenon
  <2>3. conn_addresses' = conn_addresses \ {closing}
    BY <1>6, Zenon DEF FinishDisconnect
  <2>4. WatchSymmetric'
    BY <2>1, <2>2, <2>3, Zenon DEF WatchSymmetric
  <2>5. \A s \in Services : provider_index'[s] \subseteq writers'
    BY <1>6, Zenon DEF FinishDisconnect, ProvidersWithout, TablesTidy
  <2>. QED
    BY <2>1, <2>4, <2>5, Zenon DEF TablesTidy
<1>7. CASE UNCHANGED vars
  BY <1>7, <1>a, <1>b, Zenon DEF vars, control, TablesTidy
<1>. QED
  BY <1>1, <1>2, <1>3, <1>4, <1>5, <1>6, <1>7, Zenon DEF Next, Actor, Environment

(* Forgotten survives a step that adds nothing of c to any table. *)
LEMMA ForgottenKept ==
    ASSUME TypeOK, NEW c \in Conns, Forgotten(c),
           \A s \in Services : c \notin provider_index'[s],
           \A d \in Conns, s \in Sessions :
              \/ routing_table'[d][s] \in {routing_table[d][s], NoRoute}
              \/ /\ d # c /\ routing_table'[d][s].consumer_conn # c
                 /\ routing_table'[d][s].provider_conn # c,
           next_session'[c] = 0, c \notin writers' \cup conn_addresses',
           watch_table'[c] \subseteq watch_table[c],
           watcher_reverse'[c] \subseteq watcher_reverse[c],
           \A t \in Conns : c \in watch_table'[t] => c \in watch_table[t],
           \A t \in Conns : c \in watcher_reverse'[t] => c \in watcher_reverse[t]
    PROVE  Forgotten(c)'
BY DEF Forgotten

(* process_disconnect leaves nothing of the connection it closes, and no   *)
(* other step brings back one whose Disconnected event was processed.      *)
LEMMA ForgottenStep ==
    ASSUME IInv, TypeOK', [Next]_vars
    PROVE  ClosedForgotten'
<1> USE DEF tables, ghosts, IInv
<1>1. ASSUME UNCHANGED <<tables, gone>> PROVE ClosedForgotten'
  BY <1>1 DEF ClosedForgotten, Forgotten
<1>2. ASSUME NEW c \in gone PROVE c \in Conns /\ Forgotten(c) /\ Leaving(c)
  BY <1>2, Zenon DEF ClosedForgotten, Leaving, TypeOK, ControlType
<1>3. CASE Environment \/ TryEnqueue \/ EndEvent \/ EndDrain \/ UNCHANGED vars
  <2>1. UNCHANGED <<tables, gone>>
    BY <1>3, EnvironmentFrame, Zenon DEF TryEnqueue, EndEvent, EndDrain, vars
  <2> HIDE DEF tables
  <2>. QED
    BY <1>1, <2>1, Zenon
<1>4. CASE ProcessDisconnect \/ DrainOne
  <2>1. PICK x \in Conns : StartDisconnect(x)
    <3>1. CASE ProcessDisconnect
      BY <3>1, HeadEvent, EventFields, Zenon DEF ProcessDisconnect, TakeEvent
    <3>2. CASE DrainOne
      BY <3>2, Zenon DEF DrainOne, TypeOK, ControlType
    <3>. QED
      BY <1>4, <3>1, <3>2, Zenon
  <2>2. UNCHANGED <<provider_index, routing_table, next_session, writers, conn_addresses, gone>>
    BY <2>1, Zenon DEF StartDisconnect
  <2>3. \A t \in Conns : watch_table'[t] \subseteq watch_table[t]
    BY <2>1, Zenon DEF StartDisconnect, TypeOK, WatchType
  <2>4. \A t \in Conns : watcher_reverse'[t] \subseteq watcher_reverse[t]
    BY <2>1, Zenon DEF StartDisconnect, ReverseWithoutWatched
  <2>5. ASSUME NEW c \in gone PROVE Forgotten(c)'
    BY <1>2, <2>2, <2>3, <2>4, ForgottenKept, Zenon DEF Forgotten
  <2>. QED
    BY <2>2, <2>5, Zenon DEF ClosedForgotten
<1>5. CASE ProcessNewConnection
  <2>1. PICK h : h = Head(events).conn
    BY Zenon
  <2>2. h \in Conns /\ ~Leaving(h)
    BY <1>5, <2>1, HeadOrder, Zenon DEF ProcessNewConnection, TakeEvent
  <2>3. /\ UNCHANGED <<routing_table, watch_table, watcher_reverse, gone>>
        /\ writers' = writers \cup {h} /\ conn_addresses' = conn_addresses \cup {h}
        /\ \A d \in Conns : d # h => next_session'[d] = next_session[d]
        /\ \A s \in Services : provider_index'[s] \subseteq provider_index[s] \cup {h}
    BY <1>5, <2>1, Zenon DEF ProcessNewConnection, TypeOK, RegistryType, RoutesType, WatchType, ControlType
  <2>4. ASSUME NEW c \in gone PROVE Forgotten(c)'
    <3>1. c # h /\ c \in Conns /\ Forgotten(c)
      BY <1>2, <2>2, Zenon
    <3>2. /\ c \notin writers' \cup conn_addresses' /\ next_session'[c] = 0
          /\ \A s \in Services : c \notin provider_index'[s]
      BY <2>3, <3>1, Zenon DEF Forgotten
    <3>3. \A d \in Conns, s \in Sessions :
             routing_table'[d][s] \in {routing_table[d][s], NoRoute}
      BY <2>3, Zenon
    <3>. QED
      BY <2>3, <3>1, <3>2, <3>3, ForgottenKept, Zenon
  <2>. QED
    BY <2>3, <2>4, Zenon DEF ClosedForgotten
<1>6. CASE ProcessFrame
  <2>1. PICK h : h = Head(events).conn
    BY Zenon
  <2>2. h \in Conns /\ ~Leaving(h)
    BY <1>6, <2>1, HeadOrder, Zenon DEF ProcessFrame, TakeEvent
  <2>3. PICK m \in ClientMsg :
          \/ ProcessDeclareInterest(h, m) \/ ProcessRevokeInterest(h, m)
          \/ ProcessService(h, m) \/ ProcessWatch(h, m)
          \/ ProcessUnwatch(h, m) \/ ProcessIgnored(h, m)
    BY <1>6, <2>1, HeadEvent, EventFields, Zenon DEF ProcessFrame, TakeEvent
  <2>4. /\ UNCHANGED <<provider_index, writers, conn_addresses>>
        /\ \A d \in Conns : d # h /\ d \notin writers => next_session'[d] = next_session[d]
        /\ \A d \in Conns, s \in Sessions :
              \/ routing_table'[d][s] = routing_table[d][s]
              \/ routing_table'[d][s] = NoRoute
              \/ /\ d \in {h} \cup writers
                 /\ routing_table'[d][s].consumer_conn = h
                 /\ routing_table'[d][s].provider_conn \in writers
    BY <2>2, <2>3, FrameRoutes, Zenon
  <2>5. UNCHANGED gone
    BY <1>6, Zenon DEF ProcessFrame
  <2>6. \A t \in Conns :
           /\ watch_table'[t] \subseteq watch_table[t]
              \/ (t \in conn_addresses /\ watch_table'[t] = watch_table[t] \cup {h})
           /\ watcher_reverse'[t] \subseteq watcher_reverse[t]
              \/ (t = h /\ \E u \in conn_addresses : watcher_reverse'[t] = watcher_reverse[t] \cup {u})
    <3>1. CASE ProcessWatch(h, m)
      <4>1. m.target \in Conns
        BY <3>1, FrameFields, Zenon DEF ProcessWatch
      <4>2. CASE m.target \in conn_addresses
        <5>1. /\ watch_table' = [watch_table EXCEPT ![m.target] = @ \cup {h}]
              /\ watcher_reverse' = [watcher_reverse EXCEPT ![h] = @ \cup {m.target}]
          BY <3>1, <4>2, Zenon DEF ProcessWatch
        <5>2. \A t \in Conns : watch_table'[t] = watch_table[t] \cup
                                  (IF t = m.target THEN {h} ELSE {})
          BY <4>1, <5>1, Zenon DEF TypeOK, WatchType
        <5>3. \A t \in Conns : watcher_reverse'[t] = watcher_reverse[t] \cup
                                  (IF t = h THEN {m.target} ELSE {})
          BY <2>2, <5>1, Zenon DEF TypeOK, WatchType
        <5>. QED
          BY <4>2, <5>2, <5>3, Zenon
      <4>3. CASE m.target \notin conn_addresses
        BY <3>1, <4>3, Zenon DEF ProcessWatch
      <4>. QED
        BY <4>2, <4>3, Zenon
    <3>2. CASE ProcessUnwatch(h, m)
      <4>1. /\ \/ watch_table' = watch_table
               \/ watch_table' = [watch_table EXCEPT ![m.target] = @ \ {h}]
            /\ \/ watcher_reverse' = watcher_reverse
               \/ watcher_reverse' = [watcher_reverse EXCEPT ![h] = @ \ {m.target}]
        BY <3>2, Zenon DEF ProcessUnwatch
      <4>2. /\ watch_table \in [Conns -> SUBSET Conns]
            /\ watcher_reverse \in [Conns -> SUBSET Conns]
        BY Zenon DEF TypeOK, WatchType
      <4>3. \A t \in Conns : watch_table'[t] \subseteq watch_table[t]
        BY <4>1, <4>2
      <4>4. \A t \in Conns : watcher_reverse'[t] \subseteq watcher_reverse[t]
        BY <4>1, <4>2, Zenon
      <4>. QED
        BY <4>3, <4>4, Zenon
    <3>3. CASE ~ProcessWatch(h, m) /\ ~ProcessUnwatch(h, m)
      <4>1. UNCHANGED <<watch_table, watcher_reverse>>
        BY <2>3, <3>3, Zenon DEF ProcessDeclareInterest, ProcessRevokeInterest,
                          ProcessService, ProcessIgnored
      <4>. QED
        BY <4>1, Zenon
    <3>. QED
      BY <3>1, <3>2, <3>3, Zenon
  <2>7. ASSUME NEW c \in gone PROVE Forgotten(c)'
    <3>1. c # h /\ c \in Conns /\ Forgotten(c)
      BY <1>2, <2>2, Zenon
    <3>2. c \notin writers \cup conn_addresses /\ next_session[c] = 0
      BY <3>1, Zenon DEF Forgotten
    <3>3. /\ watch_table'[c] \subseteq watch_table[c]
          /\ watcher_reverse'[c] \subseteq watcher_reverse[c]
          /\ \A t \in Conns : c \in watch_table'[t] => c \in watch_table[t]
          /\ \A t \in Conns : c \in watcher_reverse'[t] => c \in watcher_reverse[t]
      BY <2>6, <3>1, <3>2, Zenon
    <3>4. \A d \in Conns, s \in Sessions :
             \/ routing_table'[d][s] \in {routing_table[d][s], NoRoute}
             \/ /\ d # c /\ routing_table'[d][s].consumer_conn # c
                /\ routing_table'[d][s].provider_conn # c
      <4>1. c # h /\ c \notin writers
        BY <3>1, <3>2, Zenon
      <4>2. \A d : d \in {h} \cup writers => d # c
        BY <4>1, Zenon
      <4>. QED
        BY <2>4, <4>1, <4>2, Zenon
    <3>5. next_session'[c] = 0 /\ \A s \in Services : c \notin provider_index'[s]
      BY <2>4, <3>1, <3>2, Zenon DEF Forgotten
    <3>. QED
      BY <2>4, <3>1, <3>2, <3>3, <3>4, <3>5, ForgottenKept, Zenon
  <2>. QED
    BY <2>5, <2>7, Zenon DEF ClosedForgotten
<1>7. CASE FinishDisconnect
  <2>1. PICK x \in Conns : x = closing
    BY <1>7, Zenon DEF FinishDisconnect, TypeOK, ControlType
  <2>2. /\ conn_addresses' = conn_addresses \ {x} /\ writers' = writers \ {x}
        /\ routing_table' = RoutesWithout(x)
        /\ next_session'[x] = 0
        /\ \A d \in Conns : d # x => next_session'[d] = next_session[d]
        /\ gone' \subseteq gone \cup {x}
    BY <1>7, <2>1, Zenon DEF FinishDisconnect, TypeOK, RegistryType, RoutesType, WatchType, ControlType
  <2>3. \A s \in Services : provider_index'[s] = provider_index[s] \ {x}
    BY <1>7, <2>1, Zenon DEF FinishDisconnect, ProvidersWithout
  <2>4. \A t \in Conns : watch_table'[t] = watch_table[t] \ {x}
    BY <1>7, <2>1, Zenon DEF FinishDisconnect, WatchesWithout, WatchSymmetric
  <2>5. \A t \in Conns : watcher_reverse'[t] = IF t = x THEN {} ELSE watcher_reverse[t]
    BY <1>7, <2>1, Zenon DEF FinishDisconnect, TypeOK, WatchType
  <2>6. Forgotten(x)'
    <3>1. \A d \in Conns, s \in Sessions :
             routing_table'[d][s] # NoRoute =>
                 /\ d # x
                 /\ x \notin {routing_table'[d][s].consumer_conn,
                              routing_table'[d][s].provider_conn}
      <4>1. \A d \in Conns, s \in Sessions :
               RoutesWithout(x)[d][s] # NoRoute =>
                   /\ d # x
                   /\ x \notin {RoutesWithout(x)[d][s].consumer_conn,
                                RoutesWithout(x)[d][s].provider_conn}
        BY RemovedRoutes
      <4>. QED
        BY <2>2, <4>1, Zenon
    <3>2. watch_table[x] = {} /\ \A t \in Conns : x \notin watcher_reverse[t]
      BY <1>7, <2>1, Zenon DEF FinishDisconnect, TablesTidy, WatchSymmetric
    <3>3. /\ watch_table'[x] = {} /\ watcher_reverse'[x] = {}
          /\ \A t \in Conns : x \notin watch_table'[t] \cup watcher_reverse'[t]
      BY <2>4, <2>5, <3>2, Zenon
    <3>. QED
      BY <2>2, <2>3, <3>1, <3>3, Zenon DEF Forgotten
  <2>7. ASSUME NEW c \in gone, c # x PROVE Forgotten(c)'
    <3>1. c \in Conns /\ Forgotten(c)
      BY <1>2, Zenon
    <3>2. \A d \in Conns, s \in Sessions :
             routing_table'[d][s] \in {routing_table[d][s], NoRoute}
      <4>1. \A d \in Conns, s \in Sessions :
               RoutesWithout(x)[d][s] \in {routing_table[d][s], NoRoute}
        BY Zenon DEF RoutesWithout
      <4>. QED
        BY <2>2, <4>1, Zenon
    <3>3. /\ next_session'[c] = 0 /\ c \notin writers' \cup conn_addresses'
          /\ \A s \in Services : c \notin provider_index'[s]
      BY <2>2, <2>3, <2>7, <3>1, Zenon DEF Forgotten
    <3>. QED
      BY <2>4, <2>5, <3>1, <3>2, <3>3, ForgottenKept, Zenon
  <2>. QED
    BY <2>2, <2>6, <2>7, Zenon DEF ClosedForgotten
<1>. QED
  BY <1>3, <1>4, <1>5, <1>6, <1>7, Zenon DEF Next, Actor, Environment

-----------------------------------------------------------------------------
(* The inductive invariant. *)
LEMMA InvariantInit == Init => IInv
<1> SUFFICES ASSUME Init PROVE IInv
  BY Zenon
<1>1. TypeOK
  BY TypeInit, Zenon
<1>2. \A c \in Conns : ~Awaited(c) /\ ~Leaving(c)
  BY ConstantsAssumption DEF Init, Awaited, Leaving
<1>3. \A c \in Conns : Unknown(c)
  BY ConstantsAssumption, Zenon DEF Init, Unknown
<1>3a. DOMAIN events = {} /\ \A c \in Conns : reader[c] = "none"
  BY DEF Init
<1>4. QueueOrder
  BY <1>2, <1>3, <1>3a, Zenon DEF QueueOrder
<1>5. RoutingSymmetric /\ RouteEndsLive
  BY Zenon DEF Init, RoutingSymmetric, RouteEndsLive
<1>6. WatchSymmetric /\ TablesTidy /\ ClosedForgotten
  BY Zenon DEF Init, WatchSymmetric, TablesTidy, ClosedForgotten
<1>. QED
  BY <1>1, <1>4, <1>5, <1>6, Zenon DEF IInv

(* Every step of the server and its threads preserves the invariant. *)
LEMMA InvariantStep == IInv /\ [Next]_vars => IInv'
<1> SUFFICES ASSUME IInv, [Next]_vars PROVE IInv'
  BY Zenon
<1>1. TypeOK'
  BY TypeStep, Zenon DEF IInv
<1>. QED
  BY <1>1, RoutingStep, WatchStep, QueueStep, ForgottenStep, Zenon DEF IInv

(* The routing table is never half a route: both ends of every route are   *)
(* stored and name each other.                                             *)
THEOREM RoutingCorrect == Spec => []RoutingSymmetric
<1>1. IInv => RoutingSymmetric
  BY Zenon DEF IInv
<1>. QED
  BY <1>1, InvariantInit, InvariantStep, PTL DEF Spec

(* An id that routes is below its connection's counter, so alloc_session   *)
(* does not issue it again; the provider end of a route is a registered    *)
(* connection, and the consumer end one the actor still has to forget.     *)
THEOREM RouteEndsCorrect == Spec => []RouteEndsLive
<1>1. IInv => RouteEndsLive
  BY Zenon DEF IInv
<1>. QED
  BY <1>1, InvariantInit, InvariantStep, PTL DEF Spec

(* watch_table and watcher_reverse are one relation, over panes that have  *)
(* an address.                                                             *)
THEOREM WatchCorrect == Spec => []WatchSymmetric
<1>1. IInv => WatchSymmetric
  BY Zenon DEF IInv
<1>. QED
  BY <1>1, InvariantInit, InvariantStep, PTL DEF Spec

(* Once the actor has processed the Disconnected event of a connection no  *)
(* table mentions it again, whatever is still queued.                      *)
THEOREM DisconnectForgets == Spec => []ClosedForgotten
<1>1. IInv => ClosedForgotten
  BY Zenon DEF IInv
<1>. QED
  BY <1>1, InvariantInit, InvariantStep, PTL DEF Spec
-----------------------------------------------------------------------------
(* Only a connection with a handle, or torn down with its reader running,   *)
(* has a counter; hence NewConnection sets the counter of a connection that *)
(* has been issued nothing.                                                 *)
CountersKnown ==
    \A c \in Conns : next_session[c] # 0 => c \in writers \cup torn
FreshInv == IInv /\ SessionIdsFresh /\ CountersKnown

(* DeclareInterest issues the ids the counters stand at, and moves both     *)
(* counters past them.                                                      *)
LEMMA FreshDeclare ==
    ASSUME FreshInv, NEW c \in Conns, NEW m \in ClientMsg,
           Registered(c), UNCHANGED <<torn, gone>>, ProcessDeclareInterest(c, m)
    PROVE  SessionIdsFresh' /\ CountersKnown'
<1> USE DEF FreshInv, IInv
<1>1. /\ next_session \in [Conns -> 0..SessionLimit] /\ SessionLimit \in Nat
      /\ UNCHANGED writers /\ Sessions \subseteq Nat
  BY SessionsNat, ConstantsAssumption, Zenon DEF ProcessDeclareInterest, TypeOK, RoutesType
<1>2. \A d \in Conns :
         /\ next_session[d] \in Nat /\ NextId(d) \in Nat
         /\ next_session[d] <= NextId(d)
  BY <1>1 DEF NextId
<1>3. ASSUME UNCHANGED <<next_session, issued>>
      PROVE  SessionIdsFresh' /\ CountersKnown'
  BY <1>1, <1>3, Zenon DEF SessionIdsFresh, CountersKnown
<1>4. ASSUME NEW p \in Conns, Registered(p), UNCHANGED torn,
             \A d \in Conns : next_session'[d] =
                IF d = c \/ d = p THEN NextId(d) + 1 ELSE next_session[d],
             \A x \in issued' : x \in issued \/ x = <<c, NextId(c)>> \/ x = <<p, NextId(p)>>
      PROVE  SessionIdsFresh' /\ CountersKnown'
  <2>1. ASSUME NEW d \in Conns \ (torn' \cup gone'), NEW s \in Sessions,
               <<d, s>> \in issued'
        PROVE  s < next_session'[d]
    <3>1. CASE <<d, s>> \in issued
      <4>1. s < next_session[d]
        BY <3>1, Zenon DEF SessionIdsFresh
      <4>. QED
        BY <1>1, <1>2, <1>4, <4>1
    <3>2. CASE <<d, s>> # <<c, NextId(c)>> /\ <<d, s>> # <<p, NextId(p)>>
      BY <1>4, <2>1, <3>1, <3>2, Zenon
    <3>3. CASE d \in {c, p} /\ s = NextId(d)
      BY <1>1, <1>2, <1>4, <3>3
    <3>. QED
      BY <3>2, <3>3, Zenon
  <2>2. CountersKnown'
    BY <1>1, <1>4, Zenon DEF CountersKnown, Registered
  <2>. QED
    BY <2>1, <2>2, Zenon DEF SessionIdsFresh
<1>5. CASE DeclineUnprovided(c, m.service)
  BY <1>3, <1>5, Zenon DEF DeclineUnprovided
<1>6. CASE DeclineExhausted(c, m.service)
  <2>1. CASE Exhausted(c)
    <3>1. next_session' = [next_session EXCEPT ![c] = NextId(c)] /\ UNCHANGED issued
      BY <1>6, <2>1, Zenon DEF DeclineExhausted
    <3>2. \A d \in Conns :
             /\ next_session'[d] \in Nat
             /\ next_session[d] <= next_session'[d]
             /\ d # c => next_session'[d] = next_session[d]
      BY <1>1, <1>2, <3>1
    <3>3. SessionIdsFresh'
      <4>1. ASSUME NEW d \in Conns \ (torn \cup gone), NEW s \in Sessions,
                   <<d, s>> \in issued
            PROVE  s < next_session'[d]
        <5>1. s < next_session[d]
          BY <4>1, Zenon DEF SessionIdsFresh
        <5>2. /\ next_session[d] \in Nat /\ next_session'[d] \in Nat /\ s \in Nat
              /\ next_session[d] <= next_session'[d]
          BY <1>1, <1>2, <3>2, Zenon
        <5>. QED
          BY <5>1, <5>2
      <4>. QED
        BY <3>1, <4>1, Zenon DEF SessionIdsFresh
    <3>4. CountersKnown'
      <4>1. \A d \in Conns : d # c /\ next_session'[d] # 0 => d \in writers \cup torn
        BY <3>2, Zenon DEF CountersKnown
      <4>2. c \in writers \cup torn
        BY Zenon DEF Registered
      <4>. QED
        BY <1>1, <4>1, <4>2, Zenon DEF CountersKnown
    <3>. QED
      BY <3>3, <3>4, Zenon
  <2>2. CASE ~Exhausted(c)
    <3>1. /\ next_session' = [next_session EXCEPT ![c] = NextId(c) + 1]
          /\ issued' = issued \cup {<<c, NextId(c)>>}
      BY <1>6, <2>2, Zenon DEF DeclineExhausted
    <3>2. \A d \in Conns : next_session'[d] =
             IF d = c \/ d = c THEN NextId(d) + 1 ELSE next_session[d]
      BY <1>1, <3>1, Zenon
    <3>. QED
      BY <1>4, <3>1, <3>2, Zenon
  <2>. QED
    BY <2>1, <2>2, Zenon
<1>7. CASE AcceptInterest(c, m.service)
  <2>1. PICK p \in Conns \ {c} :
          /\ FirstProvider(m.service, p)
          /\ next_session' = [next_session EXCEPT ![c] = NextId(c) + 1,
                                                  ![p] = NextId(p) + 1]
          /\ issued' = issued \cup {<<c, NextId(c)>>, <<p, NextId(p)>>}
    BY <1>7, Zenon DEF AcceptInterest
  <2>2. Registered(p)
    <3>1. m.service \in Services
      BY FrameFields, Zenon DEF ProcessDeclareInterest
    <3>. QED
      BY <2>1, <3>1, Zenon DEF FirstProvider, TablesTidy, Registered
  <2>3. \A d \in Conns : next_session'[d] =
           IF d = c \/ d = p THEN NextId(d) + 1 ELSE next_session[d]
    BY <1>1, <2>1, Zenon
  <2>4. \A x \in issued' :
           x \in issued \/ x = <<c, NextId(c)>> \/ x = <<p, NextId(p)>>
    BY <2>1, Zenon
  <2>. QED
    BY <1>4, <2>2, <2>3, <2>4, Zenon
<1>. QED
  BY <1>5, <1>6, <1>7, Zenon DEF ProcessDeclareInterest

(* Every step keeps an id that has been issued behind its counter. *)
LEMMA FreshStep == FreshInv /\ [Next]_vars => FreshInv'
<1> SUFFICES ASSUME FreshInv, [Next]_vars PROVE SessionIdsFresh' /\ CountersKnown'
  BY InvariantStep, Zenon DEF FreshInv
<1> USE DEF FreshInv, IInv, ghosts
<1>1. ASSUME UNCHANGED <<next_session, issued, writers, torn, gone>>
      PROVE  SessionIdsFresh' /\ CountersKnown'
  BY <1>1, Zenon DEF SessionIdsFresh, CountersKnown
<1>2. CASE Environment
  <2>1. UNCHANGED <<tables, torn, gone>>
    BY <1>2, EnvironmentFrame, Zenon
  <2>2. UNCHANGED issued
    BY <1>2, ClientFrames, Zenon DEF Environment, Accept, ClientVanish, Post, ReaderExit,
                              WriterWrite, WriterFail
  <2>. QED
    BY <1>1, <2>1, <2>2, Zenon DEF tables
<1>3. CASE TryEnqueue \/ EndEvent \/ EndDrain \/ UNCHANGED vars
  BY <1>1, <1>3, Zenon DEF TryEnqueue, EndEvent, EndDrain, vars, tables
<1>4. CASE ProcessDisconnect \/ DrainOne
  BY <1>1, <1>4, Zenon DEF ProcessDisconnect, DrainOne, StartDisconnect
<1>5. CASE ProcessNewConnection
  <2>1. PICK h : h = Head(events).conn
    BY Zenon
  <2>2. h \in Conns /\ Unknown(h)
    BY <1>5, <2>1, HeadOrder, Zenon DEF ProcessNewConnection, TakeEvent
  <2>3. /\ UNCHANGED <<issued, torn, gone>> /\ writers' = writers \cup {h}
        /\ \A d \in Conns : d # h => next_session'[d] = next_session[d]
    BY <1>5, <2>1, Zenon DEF ProcessNewConnection, TypeOK, RoutesType
  <2>4. h \notin torn \cup gone /\ next_session[h] = 0
    BY <2>2, Zenon DEF Unknown, CountersKnown
  <2>5. \A s \in Sessions : <<h, s>> \notin issued
    <3>1. \A s \in Sessions : <<h, s>> \in issued => s < 0
      BY <2>2, <2>4, Zenon DEF SessionIdsFresh
    <3>. QED
      BY <3>1, SessionsNat
  <2>6. SessionIdsFresh'
    BY <2>3, <2>5, Zenon DEF SessionIdsFresh
  <2>7. CountersKnown'
    BY <2>3, Zenon DEF CountersKnown
  <2>. QED
    BY <2>6, <2>7, Zenon
<1>6. CASE ProcessFrame
  <2>1. PICK h : h = Head(events).conn
    BY Zenon
  <2>2. h \in Conns /\ Registered(h)
    BY <1>6, <2>1, HeadOrder, Zenon DEF ProcessFrame, TakeEvent
  <2>3. PICK m \in ClientMsg :
          \/ ProcessDeclareInterest(h, m) \/ ProcessRevokeInterest(h, m)
          \/ ProcessService(h, m) \/ ProcessWatch(h, m)
          \/ ProcessUnwatch(h, m) \/ ProcessIgnored(h, m)
    BY <1>6, <2>1, HeadEvent, EventFields, Zenon DEF ProcessFrame, TakeEvent
  <2>4. UNCHANGED <<torn, gone>>
    BY <1>6, Zenon DEF ProcessFrame
  <2>5. CASE ProcessDeclareInterest(h, m)
    BY <2>2, <2>4, <2>5, FreshDeclare, Zenon
  <2>6. CASE ~ProcessDeclareInterest(h, m)
    BY <1>1, <2>3, <2>4, <2>6, Zenon
       DEF ProcessRevokeInterest, ProcessService, ProcessWatch, ProcessUnwatch,
           ProcessIgnored, tables
  <2>. QED
    BY <2>5, <2>6, Zenon
<1>7. CASE FinishDisconnect
  <2>1. PICK x \in Conns : x = closing
    BY <1>7, Zenon DEF FinishDisconnect, TypeOK, ControlType
  <2>2. /\ UNCHANGED issued /\ writers' = writers \ {x}
        /\ next_session'[x] = 0
        /\ \A d \in Conns : d # x => next_session'[d] = next_session[d]
    BY <1>7, <2>1, Zenon DEF FinishDisconnect, TypeOK, RoutesType
  <2>3. torn \subseteq torn' /\ gone \subseteq gone' /\ x \in torn' \cup gone'
    BY <1>7, <2>1, Zenon DEF FinishDisconnect
  <2>4. SessionIdsFresh'
    BY <2>2, <2>3, Zenon DEF SessionIdsFresh
  <2>5. CountersKnown'
    BY <2>2, <2>3, Zenon DEF CountersKnown
  <2>. QED
    BY <2>4, <2>5, Zenon
<1>. QED
  BY <1>2, <1>3, <1>4, <1>5, <1>6, <1>7, Zenon DEF Next, Actor, Environment

(* alloc_session issues an id to a connection once, unless the connection  *)
(* was torn down for overflow in between.                                  *)
THEOREM SessionIdsCorrect == Spec => []SessionIdsFresh
<1>1. Init => FreshInv
  <2>1. Init => SessionIdsFresh /\ CountersKnown
    BY Zenon DEF Init, SessionIdsFresh, CountersKnown
  <2>. QED
    BY <2>1, InvariantInit, Zenon DEF FreshInv
<1>2. FreshInv => SessionIdsFresh
  BY Zenon DEF FreshInv
<1>. QED
  BY <1>1, <1>2, FreshStep, PTL DEF Spec

-----------------------------------------------------------------------------
(* Messages on their way: what the actor decided to send reaches the       *)
(* client's socket or the connection fails.                                *)

(* The actor takes an event only when every send of the last handler has   *)
(* been made, drains only in the drain phase, and accept() is the first to *)
(* start a writer thread for a connection.                                 *)
ActorQuiet ==
    /\ phase = "idle" => outbox = {}
    /\ phase # "drain" => draining = {}
    /\ \A c \in Conns : reader[c] = "none" => writer[c] = "none"

(* Whoever a handler sends to or the watch table names has a handle, or    *)
(* was torn down for overflow.                                             *)
TargetsKnown ==
    /\ \A m \in outbox : Registered(m.to)
    /\ \A t \in Conns : \A w \in watch_table[t] : Registered(w)

DeliveryInv == IInv /\ ActorQuiet /\ TargetsKnown

-----------------------------------------------------------------------------
(* Membership in InFlight, for the two places a message can be. *)
LEMMA InFlightIs ==
    ASSUME NEW c, NEW m
    PROVE  m \in InFlight(c) <=> \/ \E x \in outbox : x.to = c /\ x.msg = m
                                 \/ \E i \in DOMAIN chan[c] : chan[c][i] = m
BY Zenon DEF InFlight

(* A message the handler has still to send is in flight. *)
LEMMA SentInFlight ==
    ASSUME NEW c, NEW m, Send(c, m) \in outbox
    PROVE  m \in InFlight(c)
BY InFlightIs, Zenon DEF Send

(* A queue with one more message, index by index. *)
LEMMA AppendIs ==
    ASSUME NEW q \in Seq(ServerMsg), NEW m \in ServerMsg
    PROVE  /\ DOMAIN Append(q, m) = DOMAIN q \cup {Len(q) + 1}
           /\ DOMAIN q = 1..Len(q) /\ Len(q) \in Nat
           /\ \A i \in DOMAIN q : i \in DOMAIN Append(q, m) /\ Append(q, m)[i] = q[i]
           /\ Append(q, m)[Len(q) + 1] = m
OBVIOUS

(* A queue whose head was taken, index by index. *)
LEMMA TailIs ==
    ASSUME NEW q \in Seq(ServerMsg), q # <<>>
    PROVE  /\ 1 \in DOMAIN q /\ q[1] = Head(q) /\ Head(q) \in ServerMsg
           /\ DOMAIN q \subseteq Nat /\ DOMAIN Tail(q) \subseteq Nat
           /\ \A i \in DOMAIN Tail(q) : i + 1 \in DOMAIN q /\ Tail(q)[i] = q[i + 1]
           /\ \A i \in DOMAIN q \ {1} : i - 1 \in DOMAIN Tail(q) /\ Tail(q)[i - 1] = q[i]
OBVIOUS

(* One try_enqueue: the message is dropped for want of a handle, or at the *)
(* end of its channel, or has marked the connection for teardown.          *)
LEMMA EnqueueIs ==
    ASSUME TypeOK, TryEnqueue
    PROVE  \E x \in outbox :
              /\ x.to \in Conns /\ x.msg \in ServerMsg /\ outbox' = outbox \ {x}
              /\ UNCHANGED torn
              /\ \A d \in Conns \ {x.to} : chan'[d] = chan[d]
              /\ \/ x.to \notin writers /\ UNCHANGED chan
                 \/ chan'[x.to] = Append(chan[x.to], x.msg)
                 \/ x.to \in overflow_teardown' /\ UNCHANGED chan
<1>1. PICK x \in outbox :
        /\ outbox' = outbox \ {x} /\ UNCHANGED torn
        /\ \/ x.to \notin writers /\ UNCHANGED chan
           \/ chan' = [chan EXCEPT ![x.to] = Append(@, x.msg)]
           \/ overflow_teardown' = overflow_teardown \cup {x.to} /\ UNCHANGED chan
  BY Zenon DEF TryEnqueue, ghosts
<1>2. /\ x.to \in Conns /\ x.msg \in ServerMsg
      /\ chan \in [Conns -> Seq(ServerMsg)]
  BY Zenon DEF TypeOK, OutboxType, ChannelType
<1>. QED
  BY <1>1, <1>2, Zenon

(* A step is one of the writer threads, one try_enqueue, or leaves the     *)
(* channels alone; a handler that makes new sends has none left over.      *)
LEMMA StepKinds ==
    ASSUME IInv, ActorQuiet, [Next]_vars
    PROVE  \/ \E c \in Conns : WriterWrite(c) \/ WriterFail(c)
           \/ TryEnqueue
           \/ UNCHANGED chan /\ (UNCHANGED outbox \/ outbox = {})
<1> USE DEF threads, control
<1>1. CASE Environment
  <2>1. PICK c \in Conns :
          \/ \E p \in SUBSET Services : Accept(c, p)
          \/ Client(c) \/ ReaderExit(c) \/ WriterWrite(c) \/ WriterFail(c)
    BY <1>1, Zenon DEF Environment
  <2>2. CASE Client(c)
    <3>1. ClientVanish(c) \/ \E m \in ClientMsg : Post(c, m)
      BY <2>2, ClientFrames, Zenon DEF IInv
    <3>. QED
      BY <3>1, Zenon DEF ClientVanish, Post
  <2>3. CASE ReaderExit(c) \/ \E p \in SUBSET Services : Accept(c, p)
    BY <2>3, Zenon DEF ReaderExit, Accept
  <2>. QED
    BY <2>1, <2>2, <2>3, Zenon
<1>2. CASE ProcessNewConnection \/ ProcessFrame \/ ProcessDisconnect
  BY <1>2, Zenon DEF ProcessNewConnection, ProcessFrame, ProcessDisconnect, TakeEvent, ActorQuiet
<1>3. CASE FinishDisconnect \/ EndEvent \/ DrainOne \/ EndDrain \/ UNCHANGED vars
  BY <1>3, Zenon DEF FinishDisconnect, EndEvent, DrainOne, EndDrain, vars
<1>. QED
  BY <1>1, <1>2, <1>3, Zenon DEF Next, Actor, Environment

(* A connection the server has given up on stays given up: the overflow    *)
(* mark becomes a drain, the drain a teardown.                             *)
LEMMA FailedStable ==
    ASSUME IInv, ActorQuiet, [Next]_vars, NEW c \in Conns, Failed(c)
    PROVE  Failed(c)'
<1> USE DEF IInv, ghosts, threads
<1>0. c # NoConn
  BY ConstantsAssumption, Zenon
<1>1. CASE Environment
  <2>1. UNCHANGED <<overflow_teardown, draining, closing, torn, gone>>
    BY <1>1, EnvironmentFrame, Zenon DEF control
  <2>2. writer[c] = "dead" => writer'[c] = "dead"
    <3>1. PICK d \in Conns :
            \/ \E p \in SUBSET Services : Accept(d, p)
            \/ Client(d) \/ ReaderExit(d) \/ WriterWrite(d) \/ WriterFail(d)
      BY <1>1, Zenon DEF Environment
    <3>2. CASE Client(d)
      BY <3>2, ClientFrames, Zenon DEF ClientVanish, Post
    <3>3. CASE \E p \in SUBSET Services : Accept(d, p)
      BY <3>3, Zenon DEF Accept, ActorQuiet, TypeOK, ChannelType
    <3>4. CASE WriterFail(d)
      BY <3>4, Zenon DEF WriterFail, TypeOK, ChannelType
    <3>5. CASE ReaderExit(d) \/ WriterWrite(d)
      BY <3>5, Zenon DEF ReaderExit, WriterWrite
    <3>. QED
      BY <3>1, <3>2, <3>3, <3>4, <3>5, Zenon
  <2>. QED
    BY <2>1, <2>2, Zenon DEF Failed
<1>2. CASE TryEnqueue
  BY <1>2, Zenon DEF TryEnqueue, Failed
<1>3. CASE ProcessNewConnection \/ ProcessFrame
  BY <1>3, Zenon DEF ProcessNewConnection, ProcessFrame, TakeEvent, Failed
<1>4. CASE ProcessDisconnect
  <2>1. closing = NoConn /\ UNCHANGED <<overflow_teardown, draining, torn, gone, writer>>
    BY <1>4, Zenon DEF ProcessDisconnect, TakeEvent, StartDisconnect, TablesTidy
  <2>. QED
    BY <1>0, <2>1, Zenon DEF Failed
<1>5. CASE FinishDisconnect
  BY <1>5, Zenon DEF FinishDisconnect, Failed
<1>6. CASE EndEvent \/ EndDrain
  BY <1>0, <1>6, Zenon DEF EndEvent, EndDrain, Failed, ActorQuiet
<1>7. CASE DrainOne
  <2>1. PICK d \in draining : draining' = draining \ {d} /\ closing' = d
    BY <1>7, Zenon DEF DrainOne, StartDisconnect
  <2>2. closing = NoConn /\ UNCHANGED <<overflow_teardown, torn, gone, writer>>
    BY <1>7, Zenon DEF DrainOne, StartDisconnect
  <2>. QED
    BY <1>0, <2>1, <2>2, Zenon DEF Failed
<1>8. CASE UNCHANGED vars
  BY <1>8, Zenon DEF vars, control, Failed
<1>. QED
  BY <1>1, <1>2, <1>3, <1>4, <1>5, <1>6, <1>7, <1>8, Zenon DEF Next, Actor, Environment

(* No message is lost on its own: it stays on its way, or the client reads *)
(* it, or its connection fails.                                            *)
LEMMA InFlightStep ==
    ASSUME DeliveryInv, [Next]_vars, NEW c \in Conns, NEW m, m \in InFlight(c)
    PROVE  \/ m \in InFlight(c)'
           \/ Failed(c)'
           \/ WriterWrite(c) /\ m = Head(chan[c])
<1> USE DEF DeliveryInv
<1>0. /\ \A d \in Conns : chan[d] \in Seq(ServerMsg)
      /\ chan \in [Conns -> Seq(ServerMsg)] /\ writer \in [Conns -> {"none", "run", "dead"}]
      /\ \A x \in outbox : x.to \in Conns
  BY Zenon DEF IInv, TypeOK, ChannelType, OutboxType
<1>1. ASSUME NEW d \in Conns, WriterWrite(d)
      PROVE  m \in InFlight(c)' \/ (WriterWrite(c) /\ m = Head(chan[c]))
  <2>1. chan' = [chan EXCEPT ![d] = Tail(@)] /\ UNCHANGED outbox /\ chan[d] # <<>>
    BY <1>1, Zenon DEF WriterWrite, control
  <2>2. CASE \E x \in outbox : x.to = c /\ x.msg = m
    BY <2>1, <2>2, Zenon DEF InFlight
  <2>3. CASE d # c
    BY <1>0, <2>1, <2>3, Zenon DEF InFlight
  <2>4. ASSUME NEW i \in DOMAIN chan[c], chan[c][i] = m, d = c
        PROVE  m \in InFlight(c)' \/ m = Head(chan[c])
    <3>1. chan'[c] = Tail(chan[c])
      BY <1>0, <2>1, <2>4, Zenon
    <3>2. /\ i # 1 => i - 1 \in DOMAIN Tail(chan[c]) /\ Tail(chan[c])[i - 1] = chan[c][i]
          /\ chan[c][1] = Head(chan[c])
      BY <1>0, <2>1, <2>4, TailIs, Zenon
    <3>3. CASE i = 1
      BY <2>4, <3>2, <3>3, Zenon
    <3>4. CASE i # 1
      BY <2>4, <3>1, <3>2, <3>4, Zenon DEF InFlight
    <3>. QED
      BY <3>3, <3>4, Zenon
  <2>. QED
    BY <1>1, <2>2, <2>3, <2>4, InFlightIs, Zenon
<1>2. ASSUME NEW d \in Conns, WriterFail(d) PROVE m \in InFlight(c)' \/ Failed(c)'
  <2>1. /\ chan' = [chan EXCEPT ![d] = <<>>] /\ UNCHANGED outbox
        /\ writer' = [writer EXCEPT ![d] = "dead"]
    BY <1>2, Zenon DEF WriterFail, control
  <2>2. CASE d = c
    BY <1>0, <2>1, <2>2, Zenon DEF Failed
  <2>3. CASE d # c
    BY <1>0, <2>1, <2>3, Zenon DEF InFlight
  <2>. QED
    BY <2>2, <2>3, Zenon
<1>3. CASE TryEnqueue
  <2>1. PICK x \in outbox :
          /\ x.to \in Conns /\ x.msg \in ServerMsg /\ outbox' = outbox \ {x}
          /\ UNCHANGED torn
          /\ \A d \in Conns \ {x.to} : chan'[d] = chan[d]
          /\ \/ x.to \notin writers /\ UNCHANGED chan
             \/ chan'[x.to] = Append(chan[x.to], x.msg)
             \/ x.to \in overflow_teardown' /\ UNCHANGED chan
    BY <1>3, EnqueueIs, Zenon DEF IInv
  <2>2. CASE x.to = c /\ chan'[c] = Append(chan[c], x.msg)
    <3>1. /\ \A i \in DOMAIN chan[c] : i \in DOMAIN chan'[c] /\ chan'[c][i] = chan[c][i]
          /\ Len(chan[c]) + 1 \in DOMAIN chan'[c]
          /\ chan'[c][Len(chan[c]) + 1] = x.msg
      BY <1>0, <2>1, <2>2, AppendIs, SMTT(30)
    <3>. QED
      BY <2>1, <3>1, InFlightIs, SMTT(30) DEF InFlight
  <2>3. CASE chan'[c] = chan[c] /\ x.to # c
    BY <2>1, <2>3, InFlightIs, SMTT(30) DEF InFlight
  <2>4. CASE x.to = c /\ (x.to \notin writers \/ x.to \in overflow_teardown')
    BY <2>1, <2>4, Zenon DEF TargetsKnown, Registered, Failed
  <2>. QED
    BY <2>1, <2>2, <2>3, <2>4, Zenon
<1>4. CASE UNCHANGED chan /\ (UNCHANGED outbox \/ outbox = {})
  BY <1>4, Zenon DEF InFlight
<1>. QED
  BY <1>1, <1>2, <1>3, <1>4, StepKinds, Zenon

-----------------------------------------------------------------------------
(* The actor's sends and its drain stay bracketed by its phases. *)
LEMMA QuietStep ==
    ASSUME IInv, ActorQuiet, [Next]_vars
    PROVE  ActorQuiet'
<1> USE DEF IInv, control, threads
<1>1. CASE Environment
  <2>1. UNCHANGED <<phase, outbox, draining>>
    BY <1>1, EnvironmentFrame, Zenon
  <2>2. PICK c \in Conns :
          \/ \E p \in SUBSET Services : Accept(c, p)
          \/ Client(c) \/ ReaderExit(c) \/ WriterWrite(c) \/ WriterFail(c)
    BY <1>1, Zenon DEF Environment
  <2>3. /\ reader \in [Conns -> {"none", "run", "done"}]
        /\ writer \in [Conns -> {"none", "run", "dead"}]
    BY Zenon DEF TypeOK, EventsType, ChannelType
  <2>4. \A d \in Conns : reader'[d] = "none" => writer'[d] = "none"
    <3>1. CASE Client(c)
      BY <3>1, ClientFrames, Zenon DEF ClientVanish, Post, ActorQuiet
    <3>2. CASE \E p \in SUBSET Services : Accept(c, p)
      BY <2>3, <3>2, Zenon DEF Accept, ActorQuiet
    <3>3. CASE WriterFail(c)
      BY <2>3, <3>3, Zenon DEF WriterFail, ActorQuiet
    <3>4. CASE ReaderExit(c) \/ WriterWrite(c)
      BY <2>3, <3>4, Zenon DEF ReaderExit, WriterWrite, ActorQuiet
    <3>. QED
      BY <2>2, <3>1, <3>2, <3>3, <3>4, Zenon
  <2>. QED
    BY <2>1, <2>4, Zenon DEF ActorQuiet
<1>2. CASE TryEnqueue
  <2>1. \E x \in outbox : outbox' = outbox \ {x}
    BY <1>2, Zenon DEF TryEnqueue
  <2>2. UNCHANGED <<phase, draining, reader, writer>>
    BY <1>2, Zenon DEF TryEnqueue
  <2>. QED
    BY <2>1, <2>2, Zenon DEF ActorQuiet
<1>3. CASE ProcessNewConnection \/ ProcessFrame \/ ProcessDisconnect
  <2>1. /\ phase = "idle" /\ phase' = "event"
        /\ UNCHANGED <<draining, reader, writer>>
    BY <1>3, Zenon DEF ProcessNewConnection, ProcessFrame, ProcessDisconnect, TakeEvent
  <2>. QED
    BY <2>1, Zenon DEF ActorQuiet
<1>4. CASE FinishDisconnect
  <2>1. closing # NoConn /\ UNCHANGED <<phase, draining, reader, writer>>
    BY <1>4, Zenon DEF FinishDisconnect
  <2>. QED
    BY <2>1, Zenon DEF ActorQuiet, TablesTidy
<1>5. CASE EndEvent \/ EndDrain
  BY <1>5, Zenon DEF EndEvent, EndDrain, ActorQuiet
<1>6. CASE DrainOne
  <2>1. phase = "drain" /\ UNCHANGED <<phase, reader, writer>>
    BY <1>6, Zenon DEF DrainOne
  <2>. QED
    BY <2>1, Zenon DEF ActorQuiet
<1>7. CASE UNCHANGED vars
  BY <1>7, Zenon DEF vars, ActorQuiet
<1>. QED
  BY <1>1, <1>2, <1>3, <1>4, <1>5, <1>6, <1>7, Zenon DEF Next, Actor, Environment

(* The handlers of process_frame for a frame m of h. *)
FrameOf(h, m) ==
    \/ ProcessDeclareInterest(h, m) \/ ProcessRevokeInterest(h, m)
    \/ ProcessService(h, m) \/ ProcessWatch(h, m)
    \/ ProcessUnwatch(h, m) \/ ProcessIgnored(h, m)

(* What process_frame finds: a registered sender, a well typed frame, and  *)
(* no send left over from the last handler.                                *)
LEMMA FrameHandled ==
    ASSUME IInv, ActorQuiet, ProcessFrame
    PROVE  \E h \in Conns, m \in ClientMsg :
              /\ events # <<>> /\ Head(events) = Frame(h, m)
              /\ Registered(h) /\ ~Leaving(h) /\ FrameOf(h, m) /\ outbox = {}
              /\ UNCHANGED <<chan, clients, writers, torn, gone>>
<1> USE DEF IInv
<1>1. /\ events # <<>> /\ events' = Tail(events) /\ Head(events).kind = "Frame"
      /\ phase = "idle"
      /\ UNCHANGED <<chan, clients, torn, gone>>
      /\ FrameOf(Head(events).conn, Head(events).msg)
  BY Zenon DEF ProcessFrame, TakeEvent, FrameOf
<1>2. /\ Head(events).conn \in Conns /\ Head(events).msg \in ClientMsg
      /\ Head(events) = Frame(Head(events).conn, Head(events).msg)
  <2>1. Head(events) \in Event
    BY <1>1, HeadEvent, Zenon
  <2>. QED
    BY <1>1, <2>1, Zenon DEF Event, Frame
<1>3. Registered(Head(events).conn) /\ ~Leaving(Head(events).conn)
  BY <1>1, HeadOrder, Zenon
<1>4. UNCHANGED writers
  BY <1>1, Zenon DEF FrameOf, ProcessDeclareInterest, ProcessRevokeInterest, ProcessService,
              ProcessWatch, ProcessUnwatch, ProcessIgnored, tables
<1>5. outbox = {}
  BY <1>1, Zenon DEF ActorQuiet
<1>. QED
  BY <1>1, <1>2, <1>3, <1>4, <1>5, Zenon

(* The first half of process_disconnect, whoever called it. *)
LEMMA DisconnectStarted ==
    ASSUME IInv, ActorQuiet, ProcessDisconnect \/ DrainOne
    PROVE  \E x \in Conns :
              /\ StartDisconnect(x) /\ outbox = {} /\ closing = NoConn
              /\ UNCHANGED <<chan, clients>>
<1> USE DEF IInv
<1>1. CASE ProcessDisconnect
  BY <1>1, HeadEvent, EventFields, Zenon DEF ProcessDisconnect, TakeEvent, ActorQuiet, TablesTidy
<1>2. CASE DrainOne
  BY <1>2, Zenon DEF DrainOne, TypeOK, ControlType, threads
<1>. QED
  BY <1>1, <1>2, Zenon

(* The two ends of a stored route, and the ends of a route that loses c,   *)
(* are registered.                                                         *)
LEMMA PeersRegistered ==
    ASSUME IInv, NEW c \in Conns, NEW s \in Sessions, routing_table[c][s] # NoRoute
    PROVE  LET r == routing_table[c][s]
           IN  /\ r \in Route /\ PeerConn(r, c) \in Conns /\ PeerSession(r, c) \in Sessions
               /\ PeerConn(r, c) # c
               /\ routing_table[PeerConn(r, c)][PeerSession(r, c)] = r
               /\ Registered(PeerConn(r, c))
<1> DEFINE r == routing_table[c][s]
<1>1. r \in Route
  BY Zenon DEF IInv, TypeOK, RoutesType
<1>2. PeerConn(r, c) \in Conns /\ PeerSession(r, c) \in Sessions
  BY <1>1, RouteEnds, Zenon
<1>3. /\ r.consumer_conn # r.provider_conn /\ c \in {r.consumer_conn, r.provider_conn}
      /\ routing_table[PeerConn(r, c)][PeerSession(r, c)] = r
  BY Zenon DEF IInv, RoutingSymmetric
<1>4. PeerConn(r, c) # c
  BY <1>3, Zenon DEF PeerConn
<1>5. Registered(PeerConn(r, c))
  BY <1>2, <1>3, Zenon DEF IInv, RouteEndsLive, Registered
<1>. QED
  BY <1>1, <1>2, <1>3, <1>4, <1>5, Zenon

(* Whoever a frame is answered or forwarded to is registered. *)
LEMMA FrameTargets ==
    ASSUME IInv, NEW h \in Conns, NEW m \in ClientMsg, Registered(h), outbox = {},
           FrameOf(h, m), UNCHANGED <<writers, torn>>
    PROVE  \A x \in outbox' : Registered(x.to)'
<1> USE DEF Registered
<1>1. CASE ProcessDeclareInterest(h, m)
  <2>1. CASE DeclineUnprovided(h, m.service) \/ DeclineExhausted(h, m.service)
    BY <2>1, SMTT(30) DEF DeclineUnprovided, DeclineExhausted, Send
  <2>2. CASE AcceptInterest(h, m.service)
    <3>1. PICK p \in Conns :
            /\ FirstProvider(m.service, p)
            /\ \E cs, ps :
                  outbox' = AcceptNotices([consumer_conn |-> h, consumer_session |-> cs,
                                           provider_conn |-> p, provider_session |-> ps])
      BY <2>2, Zenon DEF AcceptInterest
    <3>2. p \in writers
      BY <1>1, <3>1, FrameFields, Zenon DEF FirstProvider, IInv, TablesTidy, ProcessDeclareInterest
    <3>. QED
      BY <3>1, <3>2 DEF AcceptNotices, Send
  <2>. QED
    BY <1>1, <2>1, <2>2, Zenon DEF ProcessDeclareInterest
<1>2. CASE ProcessRevokeInterest(h, m) \/ ProcessService(h, m)
  <2>1. m.session \in Sessions
    BY <1>2, FrameFields, Zenon DEF ProcessRevokeInterest, ProcessService
  <2>2. CASE routing_table[h][m.session] = NoRoute
    BY <1>2, <2>2, Zenon DEF ProcessRevokeInterest, ProcessService
  <2>3. CASE routing_table[h][m.session] # NoRoute
    <3>1. Registered(PeerConn(routing_table[h][m.session], h))
      BY <2>1, <2>3, PeersRegistered, Zenon
    <3>. QED
      BY <1>2, <2>3, <3>1, SMTT(30) DEF ProcessRevokeInterest, ProcessService, RevokeNotices, Send
  <2>. QED
    BY <2>2, <2>3, Zenon
<1>3. CASE ProcessWatch(h, m) \/ ProcessUnwatch(h, m) \/ ProcessIgnored(h, m)
  BY <1>3, SMTT(30) DEF ProcessWatch, ProcessUnwatch, ProcessIgnored, UnknownTargetNotice, Send
<1>. QED
  BY <1>1, <1>2, <1>3, Zenon DEF FrameOf

(* The watchers a frame leaves in the table are registered. *)
LEMMA FrameWatchers ==
    ASSUME IInv, NEW h \in Conns, NEW m \in ClientMsg, FrameOf(h, m)
    PROVE  \A t \in Conns : watch_table'[t] \subseteq watch_table[t] \cup {h}
<1>1. watch_table \in [Conns -> SUBSET Conns]
  BY Zenon DEF IInv, TypeOK, WatchType
<1>2. CASE ProcessWatch(h, m) \/ ProcessUnwatch(h, m)
  <2>1. \/ watch_table' = watch_table
        \/ watch_table' = [watch_table EXCEPT ![m.target] = @ \cup {h}]
        \/ watch_table' = [watch_table EXCEPT ![m.target] = @ \ {h}]
    BY <1>2, Zenon DEF ProcessWatch, ProcessUnwatch
  <2>. QED
    BY <1>1, <2>1, Zenon
<1>3. CASE ~(ProcessWatch(h, m) \/ ProcessUnwatch(h, m))
  BY <1>3, Zenon DEF FrameOf, ProcessDeclareInterest, ProcessRevokeInterest, ProcessService,
              ProcessIgnored, tables
<1>. QED
  BY <1>2, <1>3, Zenon

(* Nobody else is ever sent to, or watches. *)
LEMMA TargetsStep ==
    ASSUME DeliveryInv, [Next]_vars
    PROVE  TargetsKnown'
<1> USE DEF DeliveryInv
<1>1. ASSUME \A d \in Conns : Registered(d) => Registered(d)',
             outbox' \subseteq outbox, UNCHANGED watch_table
      PROVE  TargetsKnown'
  BY <1>1, Zenon DEF TargetsKnown, IInv, TypeOK, OutboxType, WatchType
<1>2. CASE Environment \/ TryEnqueue \/ EndEvent \/ EndDrain \/ UNCHANGED vars
  <2>1. outbox' \subseteq outbox /\ UNCHANGED <<watch_table, writers, torn>>
    BY <1>2, EnvironmentFrame, Zenon DEF IInv, control, tables, ghosts, TryEnqueue, EndEvent, EndDrain, vars
  <2>. QED
    BY <2>1, <1>1, Zenon DEF Registered
<1>3. CASE ProcessNewConnection
  <2>1. UNCHANGED <<outbox, watch_table, torn>> /\ writers \subseteq writers'
    BY <1>3, Zenon DEF ProcessNewConnection, ghosts
  <2>. QED
    BY <2>1, <1>1, Zenon DEF Registered
<1>4. CASE ProcessFrame
  <2>1. PICK h \in Conns, m \in ClientMsg :
           /\ Registered(h) /\ FrameOf(h, m) /\ outbox = {}
           /\ UNCHANGED <<writers, torn>>
    BY <1>4, FrameHandled, Zenon
  <2>2. \A x \in outbox' : Registered(x.to)'
    BY <2>1, FrameTargets, Zenon
  <2>3. \A t \in Conns : \A w \in watch_table'[t] : Registered(w)
    BY <2>1, FrameWatchers, Zenon DEF TargetsKnown
  <2>. QED
    BY <2>1, <2>2, <2>3, Zenon DEF TargetsKnown, Registered
<1>5. CASE ProcessDisconnect \/ DrainOne
  <2>1. PICK x \in Conns : StartDisconnect(x) /\ outbox = {}
    BY <1>5, DisconnectStarted, Zenon
  <2>2. /\ outbox' \subseteq {Send(w, Exited(x)) : w \in watch_table[x]}
        /\ \A t \in Conns : watch_table'[t] \subseteq watch_table[t]
        /\ UNCHANGED <<writers, torn>>
    BY <2>1, ZenonT(30) DEF StartDisconnect, ghosts, IInv, TypeOK, WatchType
  <2>3. \A y \in outbox' : Registered(y.to)
    BY <2>2, SMTT(30) DEF Send, TargetsKnown
  <2>. QED
    BY <2>2, <2>3, Zenon DEF TargetsKnown, Registered
<1>6. CASE FinishDisconnect
  <2>1. PICK x \in Conns : x = closing
    BY <1>6, Zenon DEF FinishDisconnect, IInv, TypeOK, ControlType
  <2>2. /\ outbox' = {Send(p[1], Teardown(p[2])) : p \in PeersToNotify(x)}
        /\ writers' = writers \ {x} /\ torn \subseteq torn'
    BY <1>6, <2>1, Zenon DEF FinishDisconnect
  <2>3. ASSUME NEW p \in PeersToNotify(x) PROVE p[1] # x /\ Registered(p[1])
    <3>1. PICK s \in Sessions : /\ routing_table[x][s] # NoRoute
                                /\ p[1] = PeerConn(routing_table[x][s], x)
      BY SMTT(30) DEF PeersToNotify
    <3>. QED
      BY <3>1, PeersRegistered, SMTT(30)
  <2>4. \A y \in outbox' : Registered(y.to)'
    BY <2>2, <2>3, SMTT(30) DEF Send, Registered
  <2>5. \A t \in Conns : watch_table'[t] = watch_table[t] \ {x}
    BY <1>6, <2>1, Zenon DEF FinishDisconnect, WatchesWithout, IInv, WatchSymmetric
  <2>6. \A t \in Conns : \A w \in watch_table'[t] : Registered(w)'
    BY <2>2, <2>5, Zenon DEF TargetsKnown, Registered
  <2>. QED
    BY <2>4, <2>6, Zenon DEF TargetsKnown
<1>. QED
  BY <1>2, <1>3, <1>4, <1>5, <1>6, Zenon DEF Next, Actor, Environment

(* Every step of the server and its threads keeps the delivery invariant.  *)
LEMMA DeliveryStep == DeliveryInv /\ [Next]_vars => DeliveryInv'
BY InvariantStep, QuietStep, TargetsStep, Zenon DEF DeliveryInv

(* A server that starts knows no target and owes no send. *)
LEMMA DeliveryInit == Init => DeliveryInv
<1>1. Init => ActorQuiet /\ TargetsKnown
  BY Zenon DEF Init, ActorQuiet, TargetsKnown
<1>. QED
  BY <1>1, InvariantInit, Zenon DEF DeliveryInv

-----------------------------------------------------------------------------
(* Watches.                                                                *)

(* The sends of a handler are in flight after it. *)
LEMMA SentNow ==
    ASSUME NEW c, NEW m, Send(c, m) \in outbox'
    PROVE  m \in InFlight(c)'
BY SMTT(30) DEF InFlight, Send

(* A client that reads PaneExited(t) stops waiting for it. *)
LEMMA ExitHeard ==
    ASSUME TypeOK, NEW c \in Conns, NEW t \in Conns, WriterWrite(c), Exited(t) = Head(chan[c])
    PROVE  t \notin intent'[c]
<1>1. intent \in [Conns -> SUBSET Conns]
  BY Zenon DEF TypeOK, IntentType
<1>2. intent' = [intent EXCEPT ![c] =
                   @ \ (IF Head(chan[c]).kind = "Exited" THEN {Head(chan[c]).target} ELSE {})]
  BY Zenon DEF WriterWrite, ClientReceive
<1>3. Head(chan[c]).kind = "Exited" /\ Head(chan[c]).target = t
  BY DEF Exited
<1>. QED
  BY <1>1, <1>2, <1>3, Zenon

(* The environment starts no watch: clients only send Watch frames. *)
LEMMA EnvironmentIntent ==
    ASSUME TypeOK, Environment, NEW c \in Conns
    PROVE  intent'[c] \subseteq intent[c]
<1> USE DEF ghosts
<1>1. PICK d \in Conns :
        \/ \E p \in SUBSET Services : Accept(d, p)
        \/ Client(d) \/ ReaderExit(d) \/ WriterWrite(d) \/ WriterFail(d)
  BY Zenon DEF Environment
<1>2. CASE WriterWrite(d)
  <2>1. PICK S : intent' = [intent EXCEPT ![d] = @ \ S]
    BY <1>2, Zenon DEF WriterWrite, ClientReceive
  <2>. QED
    BY <2>1, Zenon DEF TypeOK, IntentType
<1>3. CASE ~WriterWrite(d)
  <2>1. UNCHANGED intent
    BY <1>1, <1>3, ClientFrames, Zenon DEF Accept, ClientVanish, Post, ReaderExit, WriterFail
  <2>. QED
    BY <2>1, Zenon
<1>. QED
  BY <1>2, <1>3, Zenon

(* Between Watch and the death of the watched pane no step loses the       *)
(* notification: the tables, the handler's sends or the channel hold it.   *)
LEMMA WatchLostStep ==
    ASSUME DeliveryInv, WatchNeverLost, [Next]_vars
    PROVE  WatchNeverLost'
<1> USE DEF DeliveryInv
<1> SUFFICES ASSUME NEW c \in Conns, NEW t \in Conns, t \in intent'[c]
             PROVE  \/ c \in watch_table'[t]
                    \/ Exited(t) \in InFlight(c)'
                    \/ Failed(c)'
  BY Zenon DEF WatchNeverLost, Exited
<1>0. /\ intent \in [Conns -> SUBSET Conns] /\ watch_table \in [Conns -> SUBSET Conns]
      /\ TypeOK
  BY Zenon DEF IInv, TypeOK, IntentType, WatchType
<1>1. CASE Failed(c)
  BY <1>1, FailedStable, Zenon
<1>2. CASE Exited(t) \in InFlight(c)
  BY <1>0, <1>2, InFlightStep, ExitHeard, Zenon
<1>3. CASE t \in intent[c] /\ c \in watch_table[t] /\ ~Failed(c)
  <2>1. CASE Environment \/ TryEnqueue \/ EndEvent \/ EndDrain \/ UNCHANGED vars
                         \/ ProcessNewConnection
    <3>1. UNCHANGED watch_table
      BY <1>0, <2>1, EnvironmentFrame, Zenon
         DEF tables, TryEnqueue, EndEvent, EndDrain, ProcessNewConnection, vars
    <3>. QED
      BY <1>3, <3>1, Zenon
  <2>2. CASE ProcessFrame
    <3>1. PICK h \in Conns, m \in ClientMsg : FrameOf(h, m)
      BY <2>2, FrameHandled, Zenon
    <3>2. CASE ProcessWatch(h, m)
      <4>1. \/ watch_table' = watch_table
            \/ watch_table' = [watch_table EXCEPT ![m.target] = @ \cup {h}]
        BY <3>2, Zenon DEF ProcessWatch
      <4>. QED
        BY <1>0, <1>3, <4>1, Zenon
    <3>3. CASE ProcessUnwatch(h, m)
      <4>1. /\ intent' = [intent EXCEPT ![h] = @ \ {m.target}]
            /\ \/ watch_table' = watch_table
               \/ watch_table' = [watch_table EXCEPT ![m.target] = @ \ {h}]
        BY <3>3, Zenon DEF ProcessUnwatch
      <4>2. ~(h = c /\ m.target = t)
        BY <1>0, <4>1, Zenon
      <4>. QED
        BY <1>0, <1>3, <4>1, <4>2, Zenon
    <3>4. CASE ~ProcessWatch(h, m) /\ ~ProcessUnwatch(h, m)
      <4>1. UNCHANGED watch_table
        BY <3>1, <3>4, Zenon DEF FrameOf, ProcessDeclareInterest, ProcessRevokeInterest,
                          ProcessService, ProcessIgnored, tables
      <4>. QED
        BY <1>3, <4>1, Zenon
    <3>. QED
      BY <3>2, <3>3, <3>4, Zenon
  <2>3. CASE ProcessDisconnect \/ DrainOne
    <3>1. PICK x \in Conns : StartDisconnect(x)
      BY <2>3, DisconnectStarted, Zenon
    <3>2. CASE x = t
      <4>1. t \in conn_addresses
        BY <1>3, Zenon DEF IInv, WatchSymmetric
      <4>2. Send(c, Exited(t)) \in outbox'
        BY <1>3, <3>1, <3>2, <4>1, Zenon DEF StartDisconnect
      <4>. QED
        BY <4>2, SentNow, Zenon
    <3>3. CASE x # t
      BY <1>0, <1>3, <3>1, <3>3, Zenon DEF StartDisconnect
    <3>. QED
      BY <3>2, <3>3, Zenon
  <2>4. CASE FinishDisconnect
    <3>1. closing # c
      BY <1>3, Zenon DEF Failed
    <3>2. watch_table' = WatchesWithout(closing)
      BY <2>4, Zenon DEF FinishDisconnect
    <3>. QED
      BY <1>3, <3>1, <3>2, Zenon DEF WatchesWithout
  <2>. QED
    BY <2>1, <2>2, <2>3, <2>4, Zenon DEF Next, Actor, Environment
<1>4. CASE t \notin intent[c]
  <2>1. ProcessFrame
    <3>1. ~Environment
      BY <1>0, <1>4, EnvironmentIntent, Zenon
    <3>2. UNCHANGED intent \/ ProcessFrame
      BY <3>1, Zenon DEF Next, Actor, Environment, TryEnqueue, ProcessNewConnection, ProcessDisconnect,
                  FinishDisconnect, StartDisconnect, EndEvent, DrainOne, EndDrain, ghosts, vars
    <3>. QED
      BY <1>4, <3>2, Zenon
  <2>2. PICK h \in Conns, m \in ClientMsg : FrameOf(h, m)
    BY <2>1, FrameHandled, Zenon
  <2>3. ProcessWatch(h, m)
    <3>1. CASE ProcessUnwatch(h, m)
      BY <1>0, <1>4, <3>1, Zenon DEF ProcessUnwatch
    <3>2. CASE ~ProcessUnwatch(h, m) /\ ~ProcessWatch(h, m)
      <4>1. UNCHANGED intent
        BY <2>2, <3>2, Zenon DEF FrameOf, ProcessDeclareInterest, ProcessRevokeInterest,
                          ProcessService, ProcessIgnored
      <4>. QED
        BY <1>4, <4>1, Zenon
    <3>. QED
      BY <3>1, <3>2, Zenon
  <2>4. h = c /\ m.target = t
    <3>1. intent' = [intent EXCEPT ![h] = @ \cup {m.target}]
      BY <2>3, Zenon DEF ProcessWatch
    <3>. QED
      BY <1>0, <1>4, <3>1, Zenon
  <2>5. CASE t \in conn_addresses
    <3>1. watch_table' = [watch_table EXCEPT ![t] = @ \cup {c}]
      BY <2>3, <2>4, <2>5, Zenon DEF ProcessWatch
    <3>. QED
      BY <1>0, <3>1, Zenon
  <2>6. CASE t \notin conn_addresses
    <3>1. Send(c, Exited(t)) \in outbox'
      BY <2>3, <2>4, <2>6, Zenon DEF ProcessWatch, UnknownTargetNotice
    <3>. QED
      BY <3>1, SentNow, Zenon
  <2>. QED
    BY <2>5, <2>6, Zenon
<1>. QED
  BY <1>1, <1>2, <1>3, <1>4, Zenon DEF WatchNeverLost

(* A client that asked to watch a pane and has neither withdrawn nor heard *)
(* of its exit is in the watch table, or its PaneExited is on the way, or  *)
(* the server has given up on the client.                                  *)
THEOREM WatchCannotBeLost == Spec => []WatchNeverLost
<1>1. Init => WatchNeverLost
  BY Zenon DEF Init, WatchNeverLost
<1>2. DeliveryInv /\ WatchNeverLost /\ [Next]_vars => (DeliveryInv /\ WatchNeverLost)'
  BY DeliveryStep, WatchLostStep, Zenon
<1>. QED
  BY <1>1, <1>2, DeliveryInit, PTL DEF Spec
=============================================================================
