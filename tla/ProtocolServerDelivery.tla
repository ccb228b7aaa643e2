----------------------- MODULE ProtocolServerDelivery -----------------------
(***************************************************************************)
(* What the server tells its clients about routes and sessions, for every  *)
(* instance: both ends of a route are told of it (RouteAnnounced), no      *)
(* client keeps a session the server has dropped (NoPhantomSession), a     *)
(* service frame leaves over the route its sender meant (NoCrossTalk), a   *)
(* client reads about each session in order (SessionOrder), and an entry   *)
(* of the routing table is never rebound (RouteKept).                      *)
(***************************************************************************)
EXTENDS ProtocolServerProofs

(* Routes.                                                                 *)

(* A client forgets no route it was told of, and learns those it reads.    *)
LEMMA LearnedStep ==
    ASSUME TypeOK, [Next]_vars, NEW c \in Conns
    PROVE  /\ learned[c] \subseteq learned'[c]
           /\ \A s, r : WriterWrite(c) /\ Accepted(s, r) = Head(chan[c]) => r \in learned'[c]
<1>0. learned \in [Conns -> SUBSET Route]
  BY Zenon DEF TypeOK, ClientsType
<1>1. ASSUME NEW d \in Conns, WriterWrite(d)
      PROVE  /\ learned[c] \subseteq learned'[c]
             /\ \A s, r : d = c /\ Accepted(s, r) = Head(chan[c]) => r \in learned'[c]
  <2>1. learned' = [learned EXCEPT ![d] =
                      @ \cup (IF Head(chan[d]).kind = "Accepted" THEN {Head(chan[d]).route} ELSE {})]
    BY <1>1, Zenon DEF WriterWrite, ClientReceive
  <2>2. \A s, r : Accepted(s, r).kind = "Accepted" /\ Accepted(s, r).route = r
    BY Zenon DEF Accepted
  <2>. QED
    BY <1>0, <2>1, <2>2
<1>2. CASE ~\E d \in Conns : WriterWrite(d)
  <2>1. UNCHANGED learned
    BY <1>2, ClientFrames, Zenon
       DEF Next, Actor, Accept, ClientVanish, Post, ReaderExit, WriterFail, TryEnqueue,
           ProcessNewConnection, ProcessFrame, ProcessDisconnect, FinishDisconnect, TakeEvent,
           EndEvent, DrainOne, EndDrain, clients, vars
  <2>. QED
    BY <1>2, <2>1, Zenon
<1>. QED
  BY <1>1, <1>2, Zenon

(* What handle_declare_interest does when it accepts: one route, unused    *)
(* keys at both ends, both ends told.                                      *)
LEMMA AcceptMakes ==
    ASSUME IInv, NEW h \in Conns, NEW v, AcceptInterest(h, v)
    PROVE  \E p \in Conns \ {h}, r \in Route :
              /\ p \in provider_index[v] /\ ~Exhausted(h) /\ ~Exhausted(p)
              /\ r.consumer_conn = h /\ r.consumer_session = NextId(h)
              /\ r.provider_conn = p /\ r.provider_session = NextId(p)
              /\ routing_table'[h][NextId(h)] = r /\ routing_table'[p][NextId(p)] = r
              /\ \A d \in Conns, s \in Sessions :
                    \/ routing_table'[d][s] = routing_table[d][s]
                    \/ <<d, s>> \in {<<h, NextId(h)>>, <<p, NextId(p)>>}
              /\ outbox' = AcceptNotices(r)
              /\ issued' = issued \cup {<<h, NextId(h)>>, <<p, NextId(p)>>}
<1>1. PICK p \in Conns \ {h} :
        /\ FirstProvider(v, p) /\ ~Exhausted(h) /\ ~Exhausted(p)
        /\ LET r == [consumer_conn |-> h, consumer_session |-> NextId(h),
                     provider_conn |-> p, provider_session |-> NextId(p)]
           IN  /\ routing_table' = [routing_table EXCEPT ![h][NextId(h)] = r,
                                                          ![p][NextId(p)] = r]
               /\ outbox' = AcceptNotices(r)
        /\ issued' = issued \cup {<<h, NextId(h)>>, <<p, NextId(p)>>}
  BY Zenon DEF AcceptInterest
<1> DEFINE r == [consumer_conn |-> h, consumer_session |-> NextId(h),
                 provider_conn |-> p, provider_session |-> NextId(p)]
<1>2. NextId(h) \in Sessions /\ NextId(p) \in Sessions
  BY <1>1, NextIdUnused, Zenon DEF IInv
<1>3. /\ r \in Route
      /\ r.consumer_conn = h /\ r.consumer_session = NextId(h)
      /\ r.provider_conn = p /\ r.provider_session = NextId(p)
  BY <1>2, Zenon DEF Route
<1>4. /\ routing_table' = [routing_table EXCEPT ![h][NextId(h)] = r, ![p][NextId(p)] = r]
      /\ outbox' = AcceptNotices(r)
  BY <1>1, Zenon
<1> HIDE DEF r
<1>5. routing_table \in [Conns -> [Sessions -> Route \cup {NoRoute}]]
  BY Zenon DEF IInv, TypeOK, RoutesType
<1>6. routing_table'[h][NextId(h)] = r /\ routing_table'[p][NextId(p)] = r
  BY <1>1, <1>2, <1>4, <1>5, SMTT(40), ZenonT(20)
<1>7. \A d \in Conns, s \in Sessions :
         \/ routing_table'[d][s] = routing_table[d][s]
         \/ <<d, s>> \in {<<h, NextId(h)>>, <<p, NextId(p)>>}
  BY <1>1, <1>2, <1>4, <1>5, SMTT(40), ZenonT(20)
<1>8. p \in provider_index[v]
  BY <1>1, Zenon DEF FirstProvider
<1>. QED
  BY <1>1, <1>3, <1>4, <1>6, <1>7, <1>8, ZenonT(30)

(* The sends a step adds: InterestAccepted only where a route was made, a  *)
(* service frame only where one was forwarded.                             *)
LEMMA NewSends ==
    ASSUME DeliveryInv, [Next]_vars, NEW x \in outbox', x \notin outbox
    PROVE  \/ x.msg.kind \in {"Declined", "Teardown", "Exited"}
           \/ \E h \in Conns, m \in ClientMsg :
                 /\ ProcessFrame /\ events # <<>> /\ Head(events) = Frame(h, m)
                 /\ \/ x.msg.kind = "Accepted" /\ ProcessDeclareInterest(h, m)
                                               /\ AcceptInterest(h, m.service)
                    \/ x.msg.kind = "Service" /\ ProcessService(h, m)
<1> USE DEF DeliveryInv
<1>1. CASE Environment \/ TryEnqueue \/ EndEvent \/ EndDrain \/ UNCHANGED vars
                       \/ ProcessNewConnection
  <2>1. outbox' \subseteq outbox
    BY <1>1, EnvironmentFrame, Zenon
       DEF control, TryEnqueue, EndEvent, EndDrain, ProcessNewConnection, vars, IInv
  <2>. QED
    BY <2>1, Zenon
<1>2. CASE ProcessDisconnect \/ DrainOne
  <2>1. PICK d \in Conns : StartDisconnect(d) /\ outbox = {}
    BY <1>2, DisconnectStarted, Zenon
  <2>. QED
    BY <2>1 DEF StartDisconnect, Send, Exited
<1>3. CASE FinishDisconnect
  BY <1>3, SMTT(40), ZenonT(20) DEF FinishDisconnect, Send, Teardown
<1>4. CASE ProcessFrame
  <2>1. PICK h \in Conns, m \in ClientMsg :
           /\ events # <<>> /\ Head(events) = Frame(h, m) /\ FrameOf(h, m)
    BY <1>4, FrameHandled, Zenon
  <2>2. CASE ProcessDeclareInterest(h, m)
    <3>1. CASE DeclineUnprovided(h, m.service) \/ DeclineExhausted(h, m.service)
      BY <3>1, SMTT(40), ZenonT(20) DEF DeclineUnprovided, DeclineExhausted, Send, Declined
    <3>2. CASE AcceptInterest(h, m.service)
      <4>1. x.msg.kind = "Accepted"
        BY <3>2 DEF AcceptInterest, AcceptNotices, Send, Accepted
      <4>. QED
        BY <1>4, <2>1, <2>2, <3>2, <4>1, Zenon
    <3>. QED
      BY <2>2, <3>1, <3>2, Zenon DEF ProcessDeclareInterest
  <2>3. CASE ProcessService(h, m)
    <3>1. x.msg.kind = "Service"
      BY <2>3, SMTT(30) DEF ProcessService, Send, Service
    <3>. QED
      BY <1>4, <2>1, <2>3, <3>1, Zenon
  <2>4. CASE ~ProcessDeclareInterest(h, m) /\ ~ProcessService(h, m)
    BY <2>1, <2>4, SMTT(40), ZenonT(20) DEF FrameOf, ProcessRevokeInterest, RevokeNotices, ProcessWatch,
                      UnknownTargetNotice, ProcessUnwatch, ProcessIgnored, Send, Teardown, Exited
  <2>. QED
    BY <2>2, <2>3, <2>4, Zenon
<1>. QED
  BY <1>1, <1>2, <1>3, <1>4, Zenon DEF Next, Actor, Environment

(* A route that is new in the table was stored by handle_declare_interest, *)
(* which tells both its ends.                                              *)
LEMMA RouteNew ==
    ASSUME DeliveryInv, [Next]_vars, NEW c \in Conns, NEW s \in Sessions,
           routing_table'[c][s] # NoRoute, routing_table'[c][s] # routing_table[c][s]
    PROVE  Send(c, Accepted(s, routing_table'[c][s])) \in outbox'
<1> USE DEF DeliveryInv
<1>1. routing_table \in [Conns -> [Sessions -> Route \cup {NoRoute}]] /\ TypeOK
  BY Zenon DEF IInv, TypeOK, RoutesType
<1>2. ~(Environment \/ TryEnqueue \/ EndEvent \/ EndDrain \/ ProcessNewConnection
        \/ ProcessDisconnect \/ DrainOne \/ UNCHANGED vars)
  <2>1. ASSUME UNCHANGED routing_table PROVE FALSE
    BY <2>1, Zenon
  <2>2. ~Environment
    BY <1>1, <2>1, EnvironmentFrame, Zenon DEF tables
  <2>. QED
    BY <2>1, <2>2, Zenon DEF tables, TryEnqueue, EndEvent, EndDrain, ProcessNewConnection,
                      ProcessDisconnect, DrainOne, StartDisconnect, vars
<1>3. ~FinishDisconnect
  <2>1. \A x : RoutesWithout(x)[c][s] \in {routing_table[c][s], NoRoute}
    BY Zenon DEF RoutesWithout
  <2>. QED
    BY <2>1, Zenon DEF FinishDisconnect
<1>4. PICK h \in Conns, m \in ClientMsg : FrameOf(h, m)
  BY <1>2, <1>3, FrameHandled, Zenon DEF Next, Actor, Environment
<1>5. CASE ProcessRevokeInterest(h, m)
  <2>1. routing_table'[c][s] \in {routing_table[c][s], NoRoute}
    <3>1. CASE routing_table[h][m.session] = NoRoute
      BY <1>5, <3>1, Zenon DEF ProcessRevokeInterest
    <3>2. CASE routing_table[h][m.session] # NoRoute
      <4> DEFINE e == PeerConn(routing_table[h][m.session], h)
                 u == PeerSession(routing_table[h][m.session], h)
      <4>1. routing_table' = [routing_table EXCEPT ![h][m.session] = NoRoute, ![e][u] = NoRoute]
        BY <1>5, <3>2, Zenon DEF ProcessRevokeInterest
      <4> HIDE DEF e, u
      <4>. QED
        BY <1>1, <4>1, Zenon
    <3>. QED
      BY <3>1, <3>2, Zenon
  <2>. QED
    BY <2>1, Zenon
<1>6. CASE ProcessDeclareInterest(h, m)
  <2>1. AcceptInterest(h, m.service)
    BY <1>6, Zenon DEF ProcessDeclareInterest, DeclineUnprovided, DeclineExhausted
  <2>2. PICK p \in Conns \ {h}, r \in Route :
          /\ r.consumer_conn = h /\ r.consumer_session = NextId(h)
          /\ r.provider_conn = p /\ r.provider_session = NextId(p)
          /\ routing_table'[h][NextId(h)] = r /\ routing_table'[p][NextId(p)] = r
          /\ <<c, s>> \in {<<h, NextId(h)>>, <<p, NextId(p)>>}
          /\ outbox' = AcceptNotices(r)
    BY <2>1, AcceptMakes, SMTT(40), ZenonT(20)
  <2>. QED
    BY <2>2, Zenon DEF AcceptNotices
<1>7. CASE ~ProcessDeclareInterest(h, m) /\ ~ProcessRevokeInterest(h, m)
  BY <1>4, <1>7, Zenon DEF FrameOf, ProcessService, ProcessWatch, ProcessUnwatch, ProcessIgnored, tables
<1>. QED
  BY <1>5, <1>6, <1>7, Zenon

(* Both ends of a route know of it, or are about to, or are failing. *)
LEMMA AnnouncedStep ==
    ASSUME DeliveryInv, RouteAnnounced, [Next]_vars
    PROVE  RouteAnnounced'
<1> USE DEF DeliveryInv
<1> SUFFICES ASSUME NEW c \in Conns, NEW s \in Sessions, NEW r, r # NoRoute,
                    r = routing_table'[c][s]
             PROVE  \/ r \in learned'[c]
                    \/ Accepted(s, r) \in InFlight(c)'
                    \/ Failed(c)'
  BY Zenon DEF RouteAnnounced, Accepted
<1>0. TypeOK
  BY Zenon DEF IInv
<1>1. CASE routing_table[c][s] = r
  <2>1. r \in learned[c] \/ Accepted(s, r) \in InFlight(c) \/ Failed(c)
    BY <1>1, Zenon DEF RouteAnnounced
  <2>2. CASE r \in learned[c]
    BY <1>0, <2>2, LearnedStep, Zenon
  <2>3. CASE Accepted(s, r) \in InFlight(c)
    BY <1>0, <2>3, InFlightStep, LearnedStep, Zenon
  <2>. QED
    BY <2>1, <2>2, <2>3, FailedStable, Zenon
<1>2. CASE routing_table[c][s] # r
  BY <1>2, RouteNew, SentNow, Zenon
<1>. QED
  BY <1>1, <1>2, Zenon

(* Whatever the interleaving of handlers, writers and teardowns, each end  *)
(* of a route has been told of it, is being told, or is given up on.       *)
THEOREM RoutesAreAnnounced == Spec => []RouteAnnounced
<1>1. Init => RouteAnnounced
  BY SMTT(30) DEF Init, RouteAnnounced
<1>2. DeliveryInv /\ RouteAnnounced /\ [Next]_vars => (DeliveryInv /\ RouteAnnounced)'
  BY DeliveryStep, AnnouncedStep, Zenon
<1>. QED
  BY <1>1, <1>2, DeliveryInit, PTL DEF Spec

-----------------------------------------------------------------------------
(* Sessions.                                                               *)

(* The server still routes session s of c, or c is yet to read, behind the *)
(* first i messages of its channel, that the session is over.              *)
Backed(c, s, i) ==
    \/ routing_table[c][s] # NoRoute
    \/ Send(c, Teardown(s)) \in outbox
    \/ \E j \in DOMAIN chan[c] : j > i /\ chan[c][j] = Teardown(s)
    \/ Failed(c)

(* An InterestAccepted is never stale without the teardown behind it; one  *)
(* the handler has still to send announces a route that is in the table.   *)
AcceptedBacked ==
    /\ \A c \in Conns : \A i \in DOMAIN chan[c] :
          chan[c][i].kind = "Accepted" => Backed(c, chan[c][i].session, i)
    /\ \A m \in outbox :
          m.msg.kind = "Accepted" => routing_table[m.to][m.msg.session] # NoRoute

(* A session a client holds open is backed by its whole channel. *)
OpenBacked == \A c \in Conns : \A s \in open[c] : Backed(c, s, 0)

SessionInv == DeliveryInv /\ AcceptedBacked /\ OpenBacked

(* A route that goes is told to both its ends, or the end at c is failing. *)
LEMMA RouteGone ==
    ASSUME DeliveryInv, [Next]_vars, NEW c \in Conns, NEW s \in Sessions,
           routing_table[c][s] # NoRoute, routing_table'[c][s] = NoRoute
    PROVE  Send(c, Teardown(s)) \in outbox' \/ Failed(c)'
<1> USE DEF DeliveryInv
<1>1. routing_table \in [Conns -> [Sessions -> Route \cup {NoRoute}]] /\ TypeOK
  BY Zenon DEF IInv, TypeOK, RoutesType
<1>2. ~(Environment \/ TryEnqueue \/ EndEvent \/ EndDrain \/ ProcessNewConnection
        \/ ProcessDisconnect \/ DrainOne \/ UNCHANGED vars)
  <2>1. ASSUME UNCHANGED routing_table PROVE FALSE
    BY <2>1, Zenon
  <2>2. ~Environment
    BY <1>1, <2>1, EnvironmentFrame, Zenon DEF tables
  <2>. QED
    BY <2>1, <2>2, Zenon DEF tables, TryEnqueue, EndEvent, EndDrain, ProcessNewConnection,
                      ProcessDisconnect, DrainOne, StartDisconnect, vars
<1>3. CASE FinishDisconnect
  <2>1. PICK x \in Conns : x = closing
    BY <1>1, <1>3, Zenon DEF FinishDisconnect, TypeOK, ControlType
  <2>2. /\ routing_table' = RoutesWithout(x) /\ x \in torn' \cup gone'
        /\ outbox' = {Send(p[1], Teardown(p[2])) : p \in PeersToNotify(x)}
    BY <1>3, <2>1, Zenon DEF FinishDisconnect
  <2>3. CASE c = x
    BY <2>2, <2>3, Zenon DEF Failed
  <2>4. CASE c # x
    <3>1. <<c, s>> \in PeersToNotify(x)
      BY <2>2, <2>4, Zenon DEF RoutesWithout
    <3>. QED
      BY <2>2, <3>1, SMTT(30)
  <2>. QED
    BY <2>3, <2>4, Zenon
<1>4. CASE ProcessFrame
  <2>1. PICK h \in Conns, m \in ClientMsg : FrameOf(h, m)
    BY <1>4, FrameHandled, Zenon
  <2>2. CASE ProcessRevokeInterest(h, m)
    <3> DEFINE e == PeerConn(routing_table[h][m.session], h)
               u == PeerSession(routing_table[h][m.session], h)
    <3>1. /\ routing_table' = [routing_table EXCEPT ![h][m.session] = NoRoute, ![e][u] = NoRoute]
          /\ outbox' = {Send(e, Teardown(u)), Send(h, Teardown(m.session))}
      BY <2>2, Zenon DEF ProcessRevokeInterest, RevokeNotices
    <3> HIDE DEF e, u
    <3>2. <<c, s>> = <<h, m.session>> \/ <<c, s>> = <<e, u>>
      BY <1>1, <3>1
    <3>. QED
      BY <3>1, <3>2, Zenon
  <2>3. CASE ProcessDeclareInterest(h, m)
    <3>1. AcceptInterest(h, m.service)
      BY <2>3, Zenon DEF ProcessDeclareInterest, DeclineUnprovided, DeclineExhausted
    <3>2. PICK p \in Conns \ {h}, r \in Route :
            /\ routing_table'[h][NextId(h)] = r /\ routing_table'[p][NextId(p)] = r
            /\ \/ routing_table'[c][s] = routing_table[c][s]
               \/ <<c, s>> \in {<<h, NextId(h)>>, <<p, NextId(p)>>}
      BY <3>1, AcceptMakes, ZenonT(30)
    <3>3. routing_table'[c][s] # NoRoute
      BY <3>2, NoRouteAssumption, Zenon
    <3>. QED
      BY <3>3, Zenon
  <2>4. CASE ~ProcessDeclareInterest(h, m) /\ ~ProcessRevokeInterest(h, m)
    BY <2>1, <2>4, Zenon DEF FrameOf, ProcessService, ProcessWatch, ProcessUnwatch, ProcessIgnored, tables
  <2>. QED
    BY <2>2, <2>3, <2>4, Zenon
<1>. QED
  BY <1>2, <1>3, <1>4, Zenon DEF Next, Actor, Environment

(* Where a message of a channel is after a step, unless the connection     *)
(* fails: in its place, one place nearer, or read.                         *)
LEMMA ChannelKeeps ==
    ASSUME DeliveryInv, [Next]_vars, NEW c \in Conns, NEW j \in DOMAIN chan[c]
    PROVE  \/ Failed(c)'
           \/ /\ ~WriterWrite(c)
              /\ j \in DOMAIN chan'[c] /\ chan'[c][j] = chan[c][j]
           \/ /\ WriterWrite(c)
              /\ \/ j = 1 /\ chan[c][j] = Head(chan[c])
                 \/ j - 1 \in DOMAIN chan'[c] /\ chan'[c][j - 1] = chan[c][j]
<1> USE DEF DeliveryInv
<1>0. /\ chan[c] \in Seq(ServerMsg) /\ chan \in [Conns -> Seq(ServerMsg)]
      /\ writer \in [Conns -> {"none", "run", "dead"}] /\ TypeOK
  BY Zenon DEF IInv, TypeOK, ChannelType
<1>1. CASE WriterWrite(c)
  <2>1. chan'[c] = Tail(chan[c]) /\ chan[c] # <<>>
    BY <1>0, <1>1, Zenon DEF WriterWrite
  <2>. QED
    BY <1>0, <1>1, <2>1, TailIs, Zenon
<1>2. CASE ~WriterWrite(c)
  <2>1. ASSUME NEW d \in Conns, WriterWrite(d) PROVE chan'[c] = chan[c]
    BY <1>0, <1>2, <2>1, Zenon DEF WriterWrite
  <2>2. ASSUME NEW d \in Conns, WriterFail(d) PROVE chan'[c] = chan[c] \/ Failed(c)'
    BY <1>0, <2>2, Zenon DEF WriterFail, Failed
  <2>3. CASE TryEnqueue
    <3>1. chan'[c] = chan[c] \/ \E m \in ServerMsg : chan'[c] = Append(chan[c], m)
      BY <1>0, <2>3, EnqueueIs, Zenon
    <3>. QED
      BY <1>0, <1>2, <3>1, AppendIs, SMTT(40), ZenonT(20)
  <2>. QED
    BY <1>2, <2>1, <2>2, <2>3, StepKinds, Zenon
<1>. QED
  BY <1>1, <1>2, Zenon

(* ... and where a message of a channel was before the step. *)
LEMMA ChannelComes ==
    ASSUME DeliveryInv, [Next]_vars, NEW c \in Conns, NEW i \in DOMAIN chan'[c]
    PROVE  /\ i \in Nat
           /\ \/ /\ ~WriterWrite(c)
                 /\ i \in DOMAIN chan[c] /\ chan'[c][i] = chan[c][i]
              \/ /\ WriterWrite(c)
                 /\ i + 1 \in DOMAIN chan[c] /\ chan'[c][i] = chan[c][i + 1]
              \/ TryEnqueue /\ \E x \in outbox : x.to = c /\ x.msg = chan'[c][i]
<1> USE DEF DeliveryInv
<1>0. /\ chan[c] \in Seq(ServerMsg) /\ chan \in [Conns -> Seq(ServerMsg)] /\ TypeOK
      /\ DOMAIN chan[c] \subseteq Nat
  BY SMTT(30) DEF IInv, TypeOK, ChannelType
<1>1. CASE WriterWrite(c)
  <2>1. chan'[c] = Tail(chan[c]) /\ chan[c] # <<>>
    BY <1>0, <1>1, Zenon DEF WriterWrite
  <2>. QED
    BY <1>0, <1>1, <2>1, TailIs, Zenon
<1>2. CASE ~WriterWrite(c)
  <2>1. ASSUME NEW d \in Conns, WriterWrite(d) PROVE chan'[c] = chan[c]
    BY <1>0, <1>2, <2>1, Zenon DEF WriterWrite
  <2>2. ASSUME NEW d \in Conns, WriterFail(d) PROVE chan'[c] = chan[c] \/ chan'[c] = <<>>
    BY <1>0, <2>2, Zenon DEF WriterFail
  <2>3. CASE TryEnqueue
    <3>1. \/ chan'[c] = chan[c]
          \/ \E x \in outbox : /\ x.to = c /\ x.msg \in ServerMsg
                               /\ chan'[c] = Append(chan[c], x.msg)
      BY <1>0, <2>3, EnqueueIs, Zenon
    <3>2. CASE chan'[c] = chan[c]
      BY <1>0, <1>2, <3>2, Zenon
    <3>3. ASSUME NEW x \in outbox, x.to = c, x.msg \in ServerMsg,
                 chan'[c] = Append(chan[c], x.msg)
          PROVE  /\ i \in Nat
                 /\ \/ i \in DOMAIN chan[c] /\ chan'[c][i] = chan[c][i]
                    \/ x.msg = chan'[c][i]
      BY <1>0, <3>3, AppendIs, SMTT(40), ZenonT(20)
    <3>. QED
      BY <1>2, <2>3, <3>1, <3>2, <3>3, Zenon
  <2>4. CASE chan'[c] = <<>>
    BY <2>4
  <2>5. CASE chan'[c] = chan[c]
    BY <1>0, <1>2, <2>5, Zenon
  <2>. QED
    BY <2>1, <2>2, <2>3, <2>4, <2>5, StepKinds, Zenon
<1>. QED
  BY <1>1, <1>2, Zenon

(* A pending ServiceTeardown, unless the connection fails, is enqueued     *)
(* behind everything its channel holds.                                    *)
LEMMA TeardownSent ==
    ASSUME DeliveryInv, [Next]_vars, NEW c \in Conns, NEW s \in Sessions,
           Send(c, Teardown(s)) \in outbox, NEW i \in Nat, i <= Len(chan[c])
    PROVE  Backed(c, s, i)'
<1> USE DEF DeliveryInv
<1>0. /\ chan[c] \in Seq(ServerMsg) /\ TypeOK
      /\ Send(c, Teardown(s)).to = c /\ Send(c, Teardown(s)).msg = Teardown(s)
  BY Zenon DEF IInv, TypeOK, ChannelType, Send
<1>1. CASE TryEnqueue
  <2>1. PICK x \in outbox :
          /\ x.to \in Conns /\ x.msg \in ServerMsg /\ outbox' = outbox \ {x}
          /\ UNCHANGED torn
          /\ \A d \in Conns \ {x.to} : chan'[d] = chan[d]
          /\ \/ x.to \notin writers /\ UNCHANGED chan
             \/ chan'[x.to] = Append(chan[x.to], x.msg)
             \/ x.to \in overflow_teardown' /\ UNCHANGED chan
    BY <1>0, <1>1, EnqueueIs, Zenon
  <2>2. CASE x # Send(c, Teardown(s))
    BY <2>1, <2>2, Zenon DEF Backed
  <2>3. CASE x = Send(c, Teardown(s))
    <3>1. CASE x.to \notin writers
      BY <1>0, <2>1, <2>3, <3>1, Zenon DEF TargetsKnown, Registered, Failed, Backed
    <3>2. CASE x.to \in overflow_teardown'
      BY <1>0, <2>3, <3>2, Zenon DEF Failed, Backed
    <3>3. CASE chan'[x.to] = Append(chan[x.to], x.msg)
      <4>1. /\ Len(chan[c]) + 1 \in DOMAIN chan'[c] /\ Len(chan[c]) \in Nat
            /\ chan'[c][Len(chan[c]) + 1] = Teardown(s)
        BY <1>0, <2>1, <2>3, <3>3, AppendIs, SMTT(40), ZenonT(20)
      <4>2. Len(chan[c]) + 1 > i
        BY <4>1
      <4>. QED
        BY <4>1, <4>2, Zenon DEF Backed
    <3>. QED
      BY <2>1, <3>1, <3>2, <3>3, Zenon
  <2>. QED
    BY <2>2, <2>3, Zenon
<1>2. CASE ~TryEnqueue
  <2>1. ASSUME NEW d \in Conns, WriterWrite(d) \/ WriterFail(d) PROVE UNCHANGED outbox
    BY <2>1, Zenon DEF WriterWrite, WriterFail, control
  <2>2. UNCHANGED outbox
    BY <1>2, <2>1, StepKinds, Zenon
  <2>. QED
    BY <2>2, Zenon DEF Backed
<1>. QED
  BY <1>1, <1>2, Zenon

(* A backed session stays backed, by one message less of the channel when  *)
(* the client reads one, until the client reads its ServiceTeardown.       *)
LEMMA BackedStep ==
    ASSUME DeliveryInv, [Next]_vars, NEW c \in Conns, NEW s \in Sessions,
           NEW i \in Nat, i <= Len(chan[c]), Backed(c, s, i)
    PROVE  /\ ~WriterWrite(c) => Backed(c, s, i)'
           /\ WriterWrite(c) /\ i > 0 => Backed(c, s, i - 1)'
           /\ WriterWrite(c) /\ i = 0 => Backed(c, s, 0)' \/ Teardown(s) = Head(chan[c])
<1>1. CASE routing_table[c][s] # NoRoute \/ Failed(c)
  <2>1. \/ routing_table'[c][s] # NoRoute
        \/ Send(c, Teardown(s)) \in outbox'
        \/ Failed(c)'
    BY <1>1, RouteGone, FailedStable, Zenon DEF DeliveryInv
  <2>. QED
    BY <2>1, Zenon DEF Backed
<1>2. CASE Send(c, Teardown(s)) \in outbox
  <2>1. Len(chan[c]) \in Nat
    BY DEF DeliveryInv, IInv, TypeOK, ChannelType
  <2>2. Backed(c, s, i)'
    BY <1>2, TeardownSent, Zenon
  <2>3. ASSUME i > 0 PROVE Backed(c, s, i - 1)'
    <3>1. i - 1 \in Nat /\ i - 1 <= Len(chan[c])
      BY <2>1, <2>3, SMTT(30)
    <3>. QED
      BY <1>2, <3>1, TeardownSent, Zenon
  <2>. QED
    BY <2>2, <2>3, Zenon
<1>3. ASSUME NEW j \in DOMAIN chan[c], j > i, chan[c][j] = Teardown(s), ~Failed(c)'
      PROVE  /\ ~WriterWrite(c) => Backed(c, s, i)'
             /\ WriterWrite(c) /\ i > 0 => Backed(c, s, i - 1)'
             /\ WriterWrite(c) /\ i = 0 => Backed(c, s, 0)' \/ Teardown(s) = Head(chan[c])
  <2>0. j \in Nat
    BY DEF DeliveryInv, IInv, TypeOK, ChannelType
  <2>1. CASE ~WriterWrite(c)
    BY <1>3, <2>1, ChannelKeeps, Zenon DEF Backed
  <2>2. CASE WriterWrite(c)
    <3>1. CASE j = 1 /\ chan[c][j] = Head(chan[c])
      BY <1>3, <3>1, <2>2, SMTT(40), ZenonT(20)
    <3>2. CASE j - 1 \in DOMAIN chan'[c] /\ chan'[c][j - 1] = chan[c][j]
      <4>1. CASE i > 0
        <5>1. j - 1 > i - 1
          BY <1>3, <2>0, SMTT(30)
        <5>. QED
          BY <1>3, <3>2, <4>1, <5>1, <2>2, SMTT(40), ZenonT(20) DEF Backed
      <4>2. CASE i = 0 /\ j > 1
        <5>1. j - 1 > 0
          BY <2>0, <4>2, SMTT(30)
        <5>. QED
          BY <1>3, <3>2, <4>2, <5>1, <2>2, SMTT(40), ZenonT(20) DEF Backed
      <4>3. CASE i = 0 /\ j = 1
        <5>1. chan[c][1] = Head(chan[c])
          BY <2>2, TailIs, Zenon DEF WriterWrite, DeliveryInv, IInv, TypeOK, ChannelType
        <5>. QED
          BY <1>3, <2>2, <4>3, <5>1, SMTT(40), ZenonT(20)
      <4>. QED
        BY <1>3, <2>0, <4>1, <4>2, <4>3, SMTT(40), ZenonT(20)
    <3>. QED
      BY <1>3, <2>2, <3>1, <3>2, ChannelKeeps, Zenon
  <2>. QED
    BY <2>1, <2>2, Zenon
<1>4. CASE Failed(c)'
  BY <1>4, Zenon DEF Backed
<1>. QED
  BY <1>1, <1>2, <1>3, <1>4, Zenon DEF Backed

(* Routes change only in a handler that starts with no send left over. *)
LEMMA RoutesChange ==
    ASSUME DeliveryInv, [Next]_vars
    PROVE  UNCHANGED routing_table \/ outbox = {}
BY EnvironmentFrame, FrameHandled, Zenon
   DEF DeliveryInv, Next, Actor, Environment, TryEnqueue, ProcessNewConnection,
       ProcessDisconnect, StartDisconnect, FinishDisconnect, EndEvent, DrainOne, EndDrain,
       tables, vars, IInv

(* A new send of InterestAccepted comes with its route. *)
LEMMA AcceptedSent ==
    ASSUME DeliveryInv, AcceptedBacked, [Next]_vars,
           NEW x \in outbox', x.msg.kind = "Accepted"
    PROVE  routing_table'[x.to][x.msg.session] # NoRoute
<1> USE DEF DeliveryInv
<1>1. CASE x \in outbox
  <2>1. UNCHANGED routing_table
    BY <1>1, RoutesChange, Zenon
  <2>. QED
    BY <1>1, <2>1, Zenon DEF AcceptedBacked
<1>2. CASE x \notin outbox
  <2>1. PICK h \in Conns, m \in ClientMsg : AcceptInterest(h, m.service)
    BY <1>2, NewSends, Zenon
  <2>2. PICK p \in Conns \ {h}, r \in Route :
          /\ r.consumer_conn = h /\ r.consumer_session = NextId(h)
          /\ r.provider_conn = p /\ r.provider_session = NextId(p)
          /\ routing_table'[h][NextId(h)] = r /\ routing_table'[p][NextId(p)] = r
          /\ outbox' = AcceptNotices(r)
    BY <2>1, AcceptMakes, SMTT(40), ZenonT(20)
  <2>3. \/ x.to = h /\ x.msg.session = NextId(h)
        \/ x.to = p /\ x.msg.session = NextId(p)
    BY <2>2 DEF AcceptNotices, Send, Accepted
  <2>. QED
    BY <2>2, <2>3, NoRouteAssumption, Zenon
<1>. QED
  BY <1>1, <1>2, Zenon

(* An InterestAccepted is never left in a channel without its route or the *)
(* ServiceTeardown that takes it back behind it.                           *)
LEMMA AcceptedStep ==
    ASSUME SessionInv, [Next]_vars
    PROVE  AcceptedBacked'
<1> USE DEF SessionInv
<1>1. \A x \in outbox' :
         x.msg.kind = "Accepted" => routing_table'[x.to][x.msg.session] # NoRoute
  BY AcceptedSent, Zenon
<1>2. ASSUME NEW c \in Conns, NEW i \in DOMAIN chan'[c], NEW m, m = chan'[c][i],
             m.kind = "Accepted"
      PROVE  Backed(c, m.session, i)'
  <2>0. /\ chan[c] \in Seq(ServerMsg) /\ DOMAIN chan[c] = 1..Len(chan[c])
        /\ Len(chan[c]) \in Nat /\ i \in Nat
    BY ChannelComes DEF DeliveryInv, IInv, TypeOK, ChannelType
  <2>1. CASE ~WriterWrite(c) /\ i \in DOMAIN chan[c] /\ m = chan[c][i]
    <3>1. m \in ServerMsg /\ Backed(c, m.session, i)
      BY <1>2, <2>0, <2>1, SMTT(40), ZenonT(20) DEF AcceptedBacked
    <3>2. m.session \in Sessions
      BY <1>2, <3>1, ServerMsgFields, Zenon
    <3>3. i <= Len(chan[c])
      BY <2>0, <2>1, SMTT(30)
    <3>. QED
      BY <2>0, <2>1, <3>1, <3>2, <3>3, BackedStep, Zenon
  <2>2. CASE WriterWrite(c) /\ i + 1 \in DOMAIN chan[c] /\ m = chan[c][i + 1]
    <3>1. m \in ServerMsg /\ Backed(c, m.session, i + 1)
      BY <1>2, <2>0, <2>2, SMTT(30) DEF AcceptedBacked
    <3>2. m.session \in Sessions
      BY <1>2, <3>1, ServerMsgFields, Zenon
    <3>3. i + 1 <= Len(chan[c]) /\ i + 1 \in Nat /\ i + 1 > 0 /\ (i + 1) - 1 = i
      BY <2>0, <2>2
    <3>4. Backed(c, m.session, (i + 1) - 1)'
      BY <2>0, <2>2, <3>1, <3>2, <3>3, BackedStep, Zenon
    <3>. QED
      BY <3>3, <3>4, Zenon
  <2>3. ASSUME TryEnqueue, NEW x \in outbox, x.to = c, x.msg = m
        PROVE  Backed(c, m.session, i)'
    <3>1. routing_table[c][m.session] # NoRoute
      BY <1>2, <2>3, Zenon DEF AcceptedBacked
    <3>2. UNCHANGED routing_table
      BY <2>3, Zenon DEF TryEnqueue, tables
    <3>. QED
      BY <3>1, <3>2, Zenon DEF Backed
  <2>. QED
    BY <1>2, <2>1, <2>2, <2>3, ChannelComes, Zenon
<1>. QED
  BY <1>1, <1>2, Zenon DEF AcceptedBacked, Backed

(* Sessions a client holds open: what it reads opens and closes them. *)
LEMMA OpenStep ==
    ASSUME SessionInv, [Next]_vars
    PROVE  OpenBacked'
<1> USE DEF SessionInv
<1>0. open \in [Conns -> SUBSET Sessions] /\ TypeOK
  BY Zenon DEF DeliveryInv, IInv, TypeOK, ClientsType
<1> SUFFICES ASSUME NEW c \in Conns, NEW s \in open'[c] PROVE Backed(c, s, 0)'
  BY Zenon DEF OpenBacked
<1>a. /\ chan[c] \in Seq(ServerMsg) /\ Len(chan[c]) \in Nat /\ 0 \in Nat
      /\ 0 <= Len(chan[c])
  BY SMTT(30) DEF DeliveryInv, IInv, TypeOK, ChannelType
<1>1. CASE WriterWrite(c)
  <2> DEFINE m == Head(chan[c])
  <2>0. chan[c] # <<>> /\ m \in ServerMsg /\ chan[c][1] = m /\ 1 \in DOMAIN chan[c]
        /\ 1 <= Len(chan[c])
    BY <1>a, <1>1, TailIs, SMTT(30) DEF WriterWrite
  <2>1. open' = [open EXCEPT ![c] = CASE m.kind = "Accepted" -> @ \cup {m.session}
                                      [] m.kind = "Teardown" -> @ \ {m.session}
                                      [] OTHER -> @]
    BY <1>1, Zenon DEF WriterWrite, ClientReceive
  <2> HIDE DEF m
  <2>2. \/ s \in open[c] /\ ~(m.kind = "Teardown" /\ m.session = s)
        \/ m.kind = "Accepted" /\ m.session = s
    BY <1>0, <2>1, Zenon
  <2>3. CASE m.kind = "Accepted" /\ m.session = s
    <3>1. Backed(c, s, 1) /\ s \in Sessions
      BY <2>0, <2>3, ServerMsgFields, Zenon DEF AcceptedBacked
    <3>2. Backed(c, s, 1 - 1)'
      BY <1>1, <2>0, <3>1, BackedStep, SMTT(30)
    <3>. QED
      BY <3>2, SMTT(30)
  <2>4. CASE s \in open[c] /\ ~(m.kind = "Teardown" /\ m.session = s)
    <3>1. Backed(c, s, 0) /\ s \in Sessions
      BY <1>0, <2>4, Zenon DEF OpenBacked
    <3>2. m # Teardown(s)
      BY <2>4, SMTT(30) DEF Teardown
    <3>. QED
      BY <1>1, <1>a, <3>1, <3>2, BackedStep, Zenon DEF m
  <2>. QED
    BY <2>2, <2>3, <2>4, Zenon
<1>2. CASE ~WriterWrite(c)
  <2>1. open'[c] = open[c]
    <3>1. ASSUME NEW d \in Conns, WriterWrite(d) PROVE open'[c] = open[c]
      BY <1>0, <1>2, <3>1, Zenon DEF WriterWrite, ClientReceive
    <3>2. CASE ~\E d \in Conns : WriterWrite(d)
      BY <1>0, <3>2, ClientFrames, Zenon
         DEF Next, Actor, Accept, ClientVanish, Post, ReaderExit, WriterFail, TryEnqueue,
             ProcessNewConnection, ProcessFrame, ProcessDisconnect, FinishDisconnect, TakeEvent,
             EndEvent, DrainOne, EndDrain, clients, vars
    <3>. QED
      BY <3>1, <3>2, Zenon
  <2>2. Backed(c, s, 0) /\ s \in Sessions
    BY <1>0, <2>1, Zenon DEF OpenBacked
  <2>. QED
    BY <1>2, <1>a, <2>2, BackedStep, Zenon
<1>. QED
  BY <1>1, <1>2, Zenon

(* A session a client believes open is routed, or its ServiceTeardown is   *)
(* on the way, or the server has given up on the client: the server never  *)
(* drops a session silently.                                               *)
THEOREM NoSessionIsPhantom == Spec => []NoPhantomSession
<1>1. Init => AcceptedBacked /\ OpenBacked
  BY SMTT(40), ZenonT(20) DEF Init, AcceptedBacked, OpenBacked
<1>2. SessionInv /\ [Next]_vars => SessionInv'
  BY DeliveryStep, AcceptedStep, OpenStep, Zenon DEF SessionInv
<1>3. SessionInv => NoPhantomSession
  <2> SUFFICES ASSUME SessionInv, NEW c \in Conns, NEW s \in open[c]
               PROVE  \/ routing_table[c][s] # NoRoute
                      \/ Teardown(s) \in InFlight(c)
                      \/ Failed(c)
    BY Zenon DEF NoPhantomSession
  <2>. QED
    BY SentInFlight, InFlightIs, Zenon DEF SessionInv, OpenBacked, Backed
<1>. QED
  BY <1>1, <1>2, <1>3, DeliveryInit, PTL DEF Spec, SessionInv

-----------------------------------------------------------------------------
(* Service frames.                                                         *)

(* c is an end of r under a session id that was issued to it, and while c  *)
(* has not been torn down for overflow that id routes r or nothing.        *)
KnownRoute(c, r) ==
    /\ r.consumer_conn # r.provider_conn
    /\ c \in {r.consumer_conn, r.provider_conn}
    /\ <<c, OwnSession(r, c)>> \in issued
    /\ c \in torn \/ routing_table[c][OwnSession(r, c)] \in {NoRoute, r}

(* Every route a client was told of is known; so is every route on its way *)
(* to one; and a service frame names a route its sender was told of.       *)
LearnedKnown == \A c \in Conns : \A r \in learned[c] : KnownRoute(c, r)
AcceptedKnown ==
    \A c \in Conns : \A m \in InFlight(c) :
        m.kind = "Accepted" => m.session = OwnSession(m.route, c) /\ KnownRoute(c, m.route)
FramesKnown ==
    \A i \in DOMAIN events :
        events[i].kind = "Frame" /\ events[i].msg.kind = "Service" =>
            LET c == events[i].conn
                m == events[i].msg
            IN  m.via \in learned[c] /\ m.session = OwnSession(m.via, c)

CrossTalkInv ==
    DeliveryInv /\ FreshInv /\ LearnedKnown /\ AcceptedKnown /\ FramesKnown /\ NoCrossTalk

(* A message in flight was in flight, or is one the step has just sent. *)
LEMMA InFlightComes ==
    ASSUME DeliveryInv, [Next]_vars, NEW c \in Conns, NEW m, m \in InFlight(c)'
    PROVE  m \in InFlight(c) \/ \E x \in outbox' : x \notin outbox /\ x.to = c /\ x.msg = m
<1>1. \/ \E x \in outbox' : x.to = c /\ x.msg = m
      \/ \E i \in DOMAIN chan'[c] : chan'[c][i] = m
  BY Zenon DEF InFlight
<1>2. ASSUME NEW i \in DOMAIN chan'[c], chan'[c][i] = m PROVE m \in InFlight(c)
  BY <1>2, ChannelComes, InFlightIs, SMTT(30)
<1>3. ASSUME NEW x \in outbox', x.to = c, x.msg = m, x \in outbox PROVE m \in InFlight(c)
  BY <1>3, InFlightIs, Zenon
<1>. QED
  BY <1>1, <1>2, <1>3, Zenon

(* torn and issued only grow. *)
LEMMA GhostsGrow ==
    ASSUME IInv, [Next]_vars
    PROVE  torn \subseteq torn' /\ issued \subseteq issued'
<1> USE DEF IInv, ghosts
<1>1. CASE Environment
  <2>1. UNCHANGED torn
    BY <1>1, EnvironmentFrame, Zenon
  <2>2. UNCHANGED issued
    BY <1>1, ClientFrames, Zenon DEF Environment, Accept, ClientVanish, Post, ReaderExit,
                              WriterWrite, WriterFail
  <2>. QED
    BY <2>1, <2>2, Zenon
<1>2. CASE ProcessFrame
  <2>1. UNCHANGED torn
    BY <1>2, Zenon DEF ProcessFrame
  <2>2. issued \subseteq issued'
    BY <1>2, Zenon DEF ProcessFrame, ProcessDeclareInterest, DeclineUnprovided, DeclineExhausted,
                AcceptInterest, ProcessRevokeInterest, ProcessService, ProcessWatch,
                ProcessUnwatch, ProcessIgnored
  <2>. QED
    BY <2>1, <2>2, Zenon
<1>3. CASE FinishDisconnect
  BY <1>3, Zenon DEF FinishDisconnect
<1>4. CASE \/ TryEnqueue \/ ProcessNewConnection \/ ProcessDisconnect \/ EndEvent
           \/ DrainOne \/ EndDrain \/ UNCHANGED vars
  BY <1>4, Zenon DEF TryEnqueue, ProcessNewConnection, ProcessDisconnect, StartDisconnect, EndEvent,
              DrainOne, EndDrain, vars
<1>. QED
  BY <1>1, <1>2, <1>3, <1>4, Zenon DEF Next, Actor, Environment

(* alloc_session never hands a connection that was not torn down an id it  *)
(* has had before.                                                         *)
LEMMA NextIdFresh ==
    ASSUME FreshInv, NEW c \in Conns, c \notin torn \cup gone, ~Exhausted(c)
    PROVE  <<c, NextId(c)>> \notin issued
<1>1. /\ NextId(c) \in Sessions /\ next_session[c] <= NextId(c)
      /\ next_session[c] \in Nat /\ NextId(c) \in Nat
  <2>1. NextId(c) \in Sessions /\ next_session[c] <= NextId(c)
    BY NextIdUnused, Zenon DEF FreshInv, IInv
  <2>2. next_session[c] \in 0..SessionLimit
    BY Zenon DEF FreshInv, IInv, TypeOK, RoutesType
  <2>3. NextId(c) \in Nat
    BY <2>1, SessionsNat, Zenon
  <2>4. next_session[c] \in Nat
    BY <2>2, ConstantsAssumption, SMTT(30)
  <2>. QED
    BY <2>1, <2>3, <2>4, Zenon
<1>2. <<c, NextId(c)>> \in issued => NextId(c) < next_session[c]
  BY <1>1, Zenon DEF FreshInv, SessionIdsFresh
<1>. QED
  BY <1>1, <1>2, SMTT(30)

(* An InterestAccepted a handler sends carries an id issued with it, and   *)
(* never before to a connection that was not torn down.                    *)
LEMMA AcceptedIsFresh ==
    ASSUME DeliveryInv, FreshInv, [Next]_vars, NEW x \in outbox', x \notin outbox,
           x.msg.kind = "Accepted"
    PROVE  /\ <<x.to, x.msg.session>> \in issued'
           /\ x.to \notin torn => <<x.to, x.msg.session>> \notin issued
<1> USE DEF DeliveryInv
<1>1. PICK h \in Conns, m \in ClientMsg :
        /\ ProcessFrame /\ Head(events) = Frame(h, m)
        /\ ProcessDeclareInterest(h, m) /\ AcceptInterest(h, m.service)
  BY NewSends, Zenon
<1>2. h \notin gone
  <2>1. PICK g \in Conns, n \in ClientMsg : Head(events) = Frame(g, n) /\ ~Leaving(g)
    BY <1>1, FrameHandled, Zenon
  <2>2. g = h
    BY <1>1, <2>1, SMTT(30) DEF Frame
  <2>. QED
    BY <2>1, <2>2, Zenon DEF Leaving
<1>3. PICK p \in Conns \ {h}, r \in Route :
        /\ p \in provider_index[m.service] /\ ~Exhausted(h) /\ ~Exhausted(p)
        /\ r.consumer_conn = h /\ r.consumer_session = NextId(h)
        /\ r.provider_conn = p /\ r.provider_session = NextId(p)
        /\ outbox' = AcceptNotices(r)
        /\ issued' = issued \cup {<<h, NextId(h)>>, <<p, NextId(p)>>}
  BY <1>1, AcceptMakes, SMTT(40), ZenonT(20)
<1>4. p \notin gone
  <2>1. m.service \in Services
    BY <1>1, FrameFields, Zenon DEF ProcessDeclareInterest
  <2>. QED
    BY <1>3, <2>1, Zenon DEF IInv, TablesTidy, ClosedForgotten, Forgotten
<1>5. \/ x.to = h /\ x.msg.session = NextId(h)
      \/ x.to = p /\ x.msg.session = NextId(p)
  BY <1>3, SMTT(40), ZenonT(20) DEF AcceptNotices, Send, Accepted
<1>. QED
  BY <1>2, <1>3, <1>4, <1>5, NextIdFresh, Zenon

(* A known route stays known: whatever is stored next under its key at c   *)
(* was stored for c after c had been torn down.                            *)
LEMMA KnownStep ==
    ASSUME DeliveryInv, FreshInv, [Next]_vars, NEW c \in Conns, NEW r \in Route,
           KnownRoute(c, r)
    PROVE  KnownRoute(c, r)'
<1> DEFINE s == OwnSession(r, c)
<1> USE DEF DeliveryInv
<1>1. s \in Sessions /\ <<c, s>> \in issued /\ <<c, s>> \in issued' /\ torn \subseteq torn'
  BY RouteEnds, GhostsGrow, Zenon DEF KnownRoute
<1>2. ASSUME c \notin torn, routing_table'[c][s] # NoRoute,
             routing_table'[c][s] # routing_table[c][s]
      PROVE  FALSE
  <2>1. PICK x : x = Send(c, Accepted(s, routing_table'[c][s])) /\ x \in outbox'
    BY <1>1, <1>2, RouteNew, Zenon
  <2>2. x.msg.kind = "Accepted" /\ x.to = c /\ x.msg.session = s
    BY <2>1, Zenon DEF Send, Accepted
  <2>3. x \notin outbox
    BY <1>2, RoutesChange, Zenon
  <2>. QED
    BY <1>1, <1>2, <2>1, <2>2, <2>3, AcceptedIsFresh, Zenon
<1>3. c \in torn \/ routing_table'[c][s] \in {NoRoute, r}
  BY <1>2, Zenon DEF KnownRoute
<1>. QED
  BY <1>1, <1>3, Zenon DEF KnownRoute

(* Both ends of a route are told of it under the session ids it names, and *)
(* it is the only route stored under them.                                 *)
LEMMA AcceptedKnownStep ==
    ASSUME CrossTalkInv, [Next]_vars
    PROVE  AcceptedKnown'
<1> USE DEF CrossTalkInv, DeliveryInv
<1> SUFFICES ASSUME NEW c \in Conns, NEW m, m \in InFlight(c)', m.kind = "Accepted"
             PROVE  m.session = OwnSession(m.route, c) /\ KnownRoute(c, m.route)'
  BY Zenon DEF AcceptedKnown
<1>1. CASE m \in InFlight(c)
  <2>1. m \in ServerMsg
    BY <1>1, InFlightIs, SMTT(30) DEF IInv, TypeOK, OutboxType, ChannelType
  <2>2. m.route \in Route
    BY <2>1, ServerMsgFields, Zenon
  <2>. QED
    BY <1>1, <2>2, KnownStep, Zenon DEF AcceptedKnown
<1>2. CASE m \notin InFlight(c)
  <2>1. PICK x \in outbox' : x \notin outbox /\ x.to = c /\ x.msg = m
    BY <1>2, InFlightComes, Zenon
  <2>2. PICK h \in Conns : \E v : AcceptInterest(h, v)
    BY <2>1, NewSends, Zenon
  <2>3. PICK p \in Conns \ {h}, r \in Route :
          /\ r.consumer_conn = h /\ r.consumer_session = NextId(h)
          /\ r.provider_conn = p /\ r.provider_session = NextId(p)
          /\ routing_table'[h][NextId(h)] = r /\ routing_table'[p][NextId(p)] = r
          /\ outbox' = AcceptNotices(r)
          /\ issued' = issued \cup {<<h, NextId(h)>>, <<p, NextId(p)>>}
    BY <2>2, AcceptMakes, SMTT(40), ZenonT(20)
  <2>4. m.route = r /\ (\/ c = h /\ m.session = NextId(h)
                        \/ c = p /\ m.session = NextId(p))
    BY <2>1, <2>3, SMTT(40), ZenonT(20) DEF AcceptNotices, Send, Accepted
  <2>5. OwnSession(r, h) = NextId(h) /\ OwnSession(r, p) = NextId(p)
    BY <2>3, Zenon DEF OwnSession
  <2>. QED
    BY <2>3, <2>4, <2>5, Zenon DEF KnownRoute
<1>. QED
  BY <1>1, <1>2, Zenon

(* The routes a client was told of stay known. *)
LEMMA LearnedKnownStep ==
    ASSUME CrossTalkInv, [Next]_vars
    PROVE  LearnedKnown'
<1> USE DEF CrossTalkInv, DeliveryInv
<1>0. learned \in [Conns -> SUBSET Route] /\ TypeOK /\ chan \in [Conns -> Seq(ServerMsg)]
  BY Zenon DEF IInv, TypeOK, ClientsType, ChannelType
<1> SUFFICES ASSUME NEW c \in Conns, NEW r \in learned'[c] PROVE KnownRoute(c, r)'
  BY Zenon DEF LearnedKnown
<1>1. CASE r \in learned[c]
  BY <1>0, <1>1, KnownStep, Zenon DEF LearnedKnown
<1>2. CASE r \notin learned[c]
  <2>1. PICK d \in Conns : WriterWrite(d)
    BY <1>0, <1>2, ClientFrames, ZenonT(30)
       DEF Next, Actor, Accept, ClientVanish, Post, ReaderExit, WriterFail, TryEnqueue,
           ProcessNewConnection, ProcessFrame, ProcessDisconnect, FinishDisconnect, TakeEvent,
           EndEvent, DrainOne, EndDrain, clients, vars
  <2> DEFINE m == Head(chan[d])
  <2>2. /\ chan[d] # <<>>
        /\ learned' = [learned EXCEPT ![d] =
                         @ \cup (IF m.kind = "Accepted" THEN {m.route} ELSE {})]
    BY <2>1, Zenon DEF WriterWrite, ClientReceive
  <2>3. 1 \in DOMAIN chan[d] /\ chan[d][1] = m /\ m \in ServerMsg
    BY <1>0, <2>2, TailIs, Zenon
  <2> HIDE DEF m
  <2>4. d = c /\ m.kind = "Accepted" /\ m.route = r
    BY <1>0, <1>2, <2>2, Zenon
  <2>5. m \in InFlight(c)
    BY <2>3, <2>4, InFlightIs, Zenon
  <2>6. r \in Route
    BY <2>3, <2>4, ServerMsgFields, Zenon
  <2>. QED
    BY <2>4, <2>5, <2>6, KnownStep, Zenon DEF AcceptedKnown
<1>. QED
  BY <1>1, <1>2, Zenon

(* A service frame a client posts names a route it was told of. *)
LEMMA FramesKnownStep ==
    ASSUME CrossTalkInv, [Next]_vars
    PROVE  FramesKnown'
<1> USE DEF CrossTalkInv, DeliveryInv
<1>0. /\ learned \in [Conns -> SUBSET Route] /\ TypeOK
      /\ \A c \in Conns : learned[c] \subseteq learned'[c]
  BY LearnedStep, Zenon DEF IInv, TypeOK, ClientsType
<1> DEFINE Known(e) ==
      e.kind = "Frame" /\ e.msg.kind = "Service" =>
          e.msg.via \in learned'[e.conn] /\ e.msg.session = OwnSession(e.msg.via, e.conn)
<1> SUFFICES ASSUME NEW i \in DOMAIN events' PROVE Known(events'[i])
  BY Zenon DEF FramesKnown
<1>1. ASSUME NEW j \in DOMAIN events PROVE Known(events[j])
  <2>1. events[j] \in Event
    BY <1>0, SMTT(30) DEF TypeOK, EventsType
  <2>2. events[j].conn \in Conns
    BY <2>1, EventFields, Zenon
  <2>. QED
    BY <1>0, <2>2, Zenon DEF FramesKnown
<1> HIDE DEF Known
<1>2. CASE UNCHANGED events
  BY <1>1, <1>2, Zenon
<1>3. CASE events # <<>> /\ events' = Tail(events)
  BY <1>0, <1>1, <1>3, TailEvents, Zenon
<1>4. ASSUME NEW e \in Event, events' = Append(events, e), Known(e) PROVE Known(events'[i])
  BY <1>0, <1>1, <1>4, AppendEvents, Zenon
<1>5. CASE \E c \in Conns : \/ \E p \in SUBSET Services : Accept(c, p)
                            \/ Client(c) \/ ReaderExit(c)
  <2>1. PICK c \in Conns : \/ \E p \in SUBSET Services : Accept(c, p)
                           \/ Client(c) \/ ReaderExit(c)
    BY <1>5, Zenon
  <2>2. CASE \E p \in SUBSET Services : Accept(c, p)
    <3>1. PICK p \in SUBSET Services : events' = Append(events, NewConnection(c, p))
      BY <2>2, Zenon DEF Accept
    <3>2. NewConnection(c, p) \in Event /\ Known(NewConnection(c, p))
      BY EventTypes, Zenon DEF NewConnection, Known
    <3>. QED
      BY <1>4, <3>1, <3>2, Zenon
  <2>3. CASE ReaderExit(c)
    <3>1. events' = Append(events, Disconnected(c))
      BY <2>3, Zenon DEF ReaderExit
    <3>2. Disconnected(c) \in Event /\ Known(Disconnected(c))
      BY EventTypes, Zenon DEF Disconnected, Known
    <3>. QED
      BY <1>4, <3>1, <3>2, Zenon
  <2>4. CASE ClientService(c)
    <3>1. PICK r \in learned[c] : events' = Append(events, Frame(c, Service(OwnSession(r, c), r)))
      BY <2>4, Zenon DEF ClientService, Post
    <3>2. r \in Route /\ r \in learned'[c] /\ OwnSession(r, c) \in Sessions
      BY <1>0, RouteEnds, Zenon
    <3>3. Frame(c, Service(OwnSession(r, c), r)) \in Event
      BY <3>2, EventTypes, Zenon
    <3>4. Known(Frame(c, Service(OwnSession(r, c), r)))
      BY <3>2, Zenon DEF Known, Frame, Service
    <3>. QED
      BY <1>4, <3>1, <3>3, <3>4, Zenon
  <2>5. CASE ClientVanish(c)
    BY <1>2, <2>5, Zenon DEF ClientVanish, threads
  <2>6. ASSUME NEW m \in ClientMsg, Post(c, m), m.kind # "Service" PROVE Known(events'[i])
    <3>1. events' = Append(events, Frame(c, m)) /\ Frame(c, m) \in Event
      BY <2>6, EventTypes, Zenon DEF Post
    <3>2. Known(Frame(c, m))
      BY <2>6, Zenon DEF Known, Frame
    <3>. QED
      BY <1>4, <3>1, <3>2, Zenon
  <2>7. CASE ClientDeclare(c)
    <3>1. PICK v \in Services : Post(c, Declare(v))
      BY <2>7, Zenon DEF ClientDeclare
    <3>. QED
      BY <2>6, <3>1, EventTypes, Zenon DEF Declare
  <2>8. CASE ClientRevoke(c)
    <3>1. PICK r \in learned[c] : Post(c, Revoke(OwnSession(r, c)))
      BY <2>8, Zenon DEF ClientRevoke
    <3>2. Revoke(OwnSession(r, c)) \in ClientMsg
      BY <1>0, RouteEnds, EventTypes, Zenon
    <3>. QED
      BY <2>6, <3>1, <3>2, Zenon DEF Revoke
  <2>9. CASE ClientWatch(c) \/ ClientUnwatch(c) \/ ClientIgnored(c)
    <3>1. /\ \A t \in Conns : /\ Watch(t) \in ClientMsg /\ Unwatch(t) \in ClientMsg
                               /\ Watch(t).kind # "Service" /\ Unwatch(t).kind # "Service"
          /\ Ignored \in ClientMsg /\ Ignored.kind # "Service"
      BY EventTypes, Zenon DEF Watch, Unwatch, Ignored
    <3>. QED
      BY <2>6, <2>9, <3>1, Zenon DEF ClientWatch, ClientUnwatch, ClientIgnored
  <2>. QED
    BY <2>1, <2>2, <2>3, <2>4, <2>5, <2>7, <2>8, <2>9, Zenon DEF Client
<1>6. CASE ~\E c \in Conns : \/ \E p \in SUBSET Services : Accept(c, p)
                             \/ Client(c) \/ ReaderExit(c)
  <2>1. UNCHANGED events \/ (events # <<>> /\ events' = Tail(events))
    BY <1>6, Zenon DEF Next, Actor, WriterWrite, WriterFail, TryEnqueue, ProcessNewConnection,
                ProcessFrame, ProcessDisconnect, FinishDisconnect, TakeEvent, EndEvent,
                DrainOne, EndDrain, threads, vars
  <2>. QED
    BY <1>2, <1>3, <2>1, Zenon
<1>. QED
  BY <1>5, <1>6, Zenon

(* process_service forwards a frame over the route its sender was told of. *)
LEMMA CrossTalkStep ==
    ASSUME CrossTalkInv, [Next]_vars
    PROVE  NoCrossTalk'
<1> USE DEF CrossTalkInv, DeliveryInv
<1> SUFFICES ASSUME NEW c \in Conns, NEW m, m \in InFlight(c)', m.kind = "Service"
             PROVE  \/ /\ c \in {m.via.consumer_conn, m.via.provider_conn}
                       /\ m.session = OwnSession(m.via, c)
                    \/ m.via.consumer_conn \in torn'
                    \/ m.via.provider_conn \in torn'
  BY Zenon DEF NoCrossTalk
<1>0. torn \subseteq torn'
  BY GhostsGrow, Zenon
<1>1. CASE m \in InFlight(c)
  BY <1>0, <1>1, Zenon DEF NoCrossTalk
<1>2. CASE m \notin InFlight(c)
  <2>1. PICK x \in outbox' : x \notin outbox /\ x.to = c /\ x.msg = m
    BY <1>2, InFlightComes, Zenon
  <2>2. PICK h \in Conns, n \in ClientMsg :
          /\ events # <<>> /\ Head(events) = Frame(h, n) /\ ProcessService(h, n)
    BY <2>1, NewSends, Zenon
  <2>3. /\ n.kind = "Service" /\ n.session \in Sessions /\ n.via \in Route
        /\ routing_table[h][n.session] # NoRoute
        /\ c = PeerConn(routing_table[h][n.session], h)
        /\ m = Service(PeerSession(routing_table[h][n.session], h), n.via)
    BY <2>1, <2>2, FrameFields, SMTT(40), ZenonT(20) DEF ProcessService, Send
  <2>4. n.via \in learned[h] /\ n.session = OwnSession(n.via, h)
    <3>1. 1 \in DOMAIN events /\ events[1] = Head(events)
      BY <2>2, SMTT(30) DEF IInv, TypeOK, EventsType
    <3>2. events[1].kind = "Frame" /\ events[1].conn = h /\ events[1].msg = n
      BY <2>2, <3>1, SMTT(30) DEF Frame
    <3>. QED
      BY <2>3, <3>1, <3>2, Zenon DEF FramesKnown
  <2>5. KnownRoute(h, n.via)
    BY <2>4, Zenon DEF LearnedKnown
  <2>6. m.via = n.via /\ m.session = PeerSession(routing_table[h][n.session], h)
    BY <2>3, Zenon DEF Service
  <2>7. CASE h \in torn
    BY <1>0, <2>5, <2>6, <2>7, Zenon DEF KnownRoute
  <2>8. CASE routing_table[h][n.session] = n.via
    BY <2>3, <2>5, <2>6, <2>8, Zenon DEF KnownRoute, PeerConn, PeerSession, OwnSession
  <2>. QED
    BY <2>3, <2>4, <2>5, <2>7, <2>8, Zenon DEF KnownRoute
<1>. QED
  BY <1>1, <1>2, Zenon

(* A service frame never leaves over a route other than the one its sender *)
(* was told the session stands for, even when the session id has been used *)
(* for several routes; only senders torn down for overflow are excepted.   *)
THEOREM ServiceFramesKeepTheirRoute == Spec => []NoCrossTalk
<1>1. Init => CrossTalkInv
  <2>1. Init => LearnedKnown /\ AcceptedKnown /\ FramesKnown /\ NoCrossTalk
    <3> SUFFICES ASSUME Init PROVE LearnedKnown /\ AcceptedKnown /\ FramesKnown /\ NoCrossTalk
      BY Zenon
    <3>1. \A c \in Conns : learned[c] = {} /\ InFlight(c) = {}
      BY SMTT(40), ZenonT(20) DEF Init, InFlight
    <3>2. DOMAIN events = {}
      BY SMTT(30) DEF Init
    <3>. QED
      BY <3>1, <3>2, Zenon DEF LearnedKnown, AcceptedKnown, FramesKnown, NoCrossTalk
  <2>2. Init => SessionIdsFresh /\ CountersKnown
    BY Zenon DEF Init, SessionIdsFresh, CountersKnown
  <2>. QED
    BY <2>1, <2>2, DeliveryInit, InvariantInit, Zenon DEF CrossTalkInv, FreshInv
<1>2. CrossTalkInv /\ [Next]_vars => CrossTalkInv'
  <2>1. CrossTalkInv => DeliveryInv /\ FreshInv
    BY Zenon DEF CrossTalkInv
  <2>. QED
    BY <2>1, DeliveryStep, FreshStep, AcceptedKnownStep, LearnedKnownStep, FramesKnownStep,
       CrossTalkStep, Zenon DEF CrossTalkInv
<1>3. CrossTalkInv => NoCrossTalk
  BY Zenon DEF CrossTalkInv
<1>. QED
  BY <1>1, <1>2, <1>3, PTL DEF Spec

-----------------------------------------------------------------------------
(* The order of what a client reads about a session.                       *)

(* A client with the sessions o open holds s open once it has read all of  *)
(* q; and neither it nor q has heard of s.                                 *)
HeldBy(q, o, s) ==
    /\ s \in o \/ \E j \in DOMAIN q : q[j].kind = "Accepted" /\ q[j].session = s
    /\ \A j \in DOMAIN q : q[j] # Teardown(s)
NewTo(q, o, s) == s \notin o /\ \A j \in DOMAIN q : ~Names(q[j], s)

(* The sessions a client has open after it has read m. *)
AfterReading(o, m) ==
    CASE m.kind = "Accepted" -> o \cup {m.session}
      [] m.kind = "Teardown" -> o \ {m.session}
      [] OTHER -> o

(* What one more message at the end of a queue does to a session. *)
LEMMA AppendHeld ==
    ASSUME NEW q \in Seq(ServerMsg), NEW m \in ServerMsg, NEW o, NEW s
    PROVE  /\ HeldBy(q, o, s) /\ m # Teardown(s) => HeldBy(Append(q, m), o, s)
           /\ NewTo(q, o, s) /\ ~Names(m, s) => NewTo(Append(q, m), o, s)
           /\ NewTo(q, o, s) /\ m.kind = "Accepted" /\ m.session = s
                => HeldBy(Append(q, m), o, s)
<1> DEFINE a == Append(q, m)
           n == Len(q) + 1
<1>1. /\ DOMAIN a = DOMAIN q \cup {n} /\ a[n] = m
      /\ \A i \in DOMAIN q : i \in DOMAIN a /\ a[i] = q[i]
  BY AppendIs, Zenon
<1>2. Teardown(s).kind = "Teardown" /\ Teardown(s).session = s
  BY Zenon DEF Teardown
<1> HIDE DEF a, n
<1>3. HeldBy(q, o, s) /\ m # Teardown(s) => HeldBy(a, o, s)
  BY <1>1, Zenon DEF HeldBy
<1>4. NewTo(q, o, s) /\ ~Names(m, s) => NewTo(a, o, s)
  BY <1>1, Zenon DEF NewTo
<1>5. ASSUME NewTo(q, o, s), m.kind = "Accepted", m.session = s PROVE HeldBy(a, o, s)
  <2>1. \A j \in DOMAIN q : q[j] # Teardown(s)
    BY <1>2, <1>5, Zenon DEF NewTo, Names
  <2>2. m # Teardown(s)
    BY <1>2, <1>5, Zenon
  <2>. QED
    BY <1>1, <1>5, <2>1, <2>2, Zenon DEF HeldBy
<1>. QED
  BY <1>3, <1>4, <1>5, Zenon DEF a

(* What reading the head of a queue does to a session. *)
LEMMA TailHeld ==
    ASSUME NEW q \in Seq(ServerMsg), q # <<>>, NEW o, NEW s
    PROVE  /\ HeldBy(q, o, s) => HeldBy(Tail(q), AfterReading(o, Head(q)), s)
           /\ NewTo(q, o, s) => NewTo(Tail(q), AfterReading(o, Head(q)), s)
<1> DEFINE m == Head(q)
           p == AfterReading(o, m)
<1>1. /\ 1 \in DOMAIN q /\ q[1] = m /\ m \in ServerMsg
      /\ \A i \in DOMAIN Tail(q) : i + 1 \in DOMAIN q /\ Tail(q)[i] = q[i + 1]
      /\ \A i \in DOMAIN q \ {1} : i - 1 \in DOMAIN Tail(q) /\ Tail(q)[i - 1] = q[i]
  BY TailIs, Zenon
<1>2. ASSUME m.kind = "Teardown", m.session = s PROVE m = Teardown(s)
  BY <1>1, <1>2, SMTT(30) DEF ServerMsg, Teardown
<1> HIDE DEF m
<1>3. ASSUME HeldBy(q, o, s) PROVE HeldBy(Tail(q), p, s)
  <2>1. \A j \in DOMAIN Tail(q) : Tail(q)[j] # Teardown(s)
    BY <1>1, <1>3, Zenon DEF HeldBy
  <2>2. CASE s \in o
    <3>1. ~(m.kind = "Teardown" /\ m.session = s)
      BY <1>1, <1>2, <1>3, Zenon DEF HeldBy
    <3>2. s \in p
      BY <2>2, <3>1, Zenon DEF AfterReading
    <3>. QED
      BY <2>1, <3>2, Zenon DEF HeldBy
  <2>3. ASSUME NEW j \in DOMAIN q, q[j].kind = "Accepted", q[j].session = s
        PROVE  s \in p \/ \E i \in DOMAIN Tail(q) :
                             Tail(q)[i].kind = "Accepted" /\ Tail(q)[i].session = s
    <3>1. CASE j = 1
      BY <1>1, <2>3, <3>1, Zenon DEF AfterReading
    <3>2. CASE j # 1
      BY <1>1, <2>3, <3>2, Zenon
    <3>. QED
      BY <3>1, <3>2, Zenon
  <2>. QED
    BY <1>3, <2>1, <2>2, <2>3, Zenon DEF HeldBy
<1>4. ASSUME NewTo(q, o, s) PROVE NewTo(Tail(q), p, s)
  <2>1. ~(m.kind = "Accepted" /\ m.session = s)
    BY <1>1, <1>4, Zenon DEF NewTo, Names
  <2>2. s \notin p
    BY <1>4, <2>1, Zenon DEF AfterReading, NewTo
  <2>. QED
    BY <1>1, <1>4, <2>2, Zenon DEF NewTo
<1>. QED
  BY <1>3, <1>4, Zenon DEF m

(* A message the client will make sense of may join the end of a queue it  *)
(* can make sense of.                                                      *)
LEMMA AppendOrdered ==
    ASSUME NEW q \in Seq(ServerMsg), NEW m \in ServerMsg, NEW o, WellOrdered(q, o),
           m.kind = "Accepted" => NewTo(q, o, m.session),
           m.kind \in {"Service", "Teardown"} => HeldBy(q, o, m.session)
    PROVE  WellOrdered(Append(q, m), o)
<1> DEFINE a == Append(q, m)
           n == Len(q) + 1
<1>1. /\ DOMAIN a = DOMAIN q \cup {n} /\ a[n] = m
      /\ \A i \in DOMAIN q : i \in DOMAIN a /\ a[i] = q[i]
  BY AppendIs, Zenon
<1>2. /\ \A i \in DOMAIN q : i < n /\ ~(n < i)
      /\ ~(n < n)
  <2>1. DOMAIN q = 1..Len(q) /\ Len(q) \in Nat
    BY AppendIs, Zenon
  <2>. QED
    BY <2>1, SMTT(30)
<1> HIDE DEF a, n
<1>3. ASSUME NEW i \in DOMAIN q
      PROVE  /\ a[i].kind = "Accepted" =>
                   /\ a[i].session \notin o
                   /\ \A j \in DOMAIN a : j < i => ~Names(a[j], a[i].session)
             /\ a[i].kind \in {"Service", "Teardown"} => HeldAt(a, o, a[i].session, i)
  <2>1. a[i] = q[i] /\ \A j \in DOMAIN a : j < i => j \in DOMAIN q /\ a[j] = q[j]
    BY <1>1, <1>2, Zenon
  <2>2. q[i].kind = "Accepted" =>
           /\ q[i].session \notin o
           /\ \A j \in DOMAIN a : j < i => ~Names(a[j], q[i].session)
    BY <2>1, Zenon DEF WellOrdered
  <2>3. ASSUME NEW s, HeldAt(q, o, s, i) PROVE HeldAt(a, o, s, i)
    BY <1>1, <2>1, <2>3, Zenon DEF HeldAt
  <2>. QED
    BY <2>1, <2>2, <2>3, Zenon DEF WellOrdered
<1>4. /\ m.kind = "Accepted" =>
            /\ m.session \notin o
            /\ \A j \in DOMAIN a : j < n => ~Names(a[j], m.session)
      /\ m.kind \in {"Service", "Teardown"} => HeldAt(a, o, m.session, n)
  <2>1. \A j \in DOMAIN a : j < n => j \in DOMAIN q /\ a[j] = q[j]
    BY <1>1, <1>2, Zenon
  <2>2. ASSUME NEW s, HeldBy(q, o, s) PROVE HeldAt(a, o, s, n)
    BY <1>1, <1>2, <2>1, <2>2, Zenon DEF HeldAt, HeldBy
  <2>. QED
    BY <2>1, <2>2, Zenon DEF NewTo
<1>5. WellOrdered(a, o)
  BY <1>1, <1>3, <1>4, Zenon DEF WellOrdered
<1>. QED
  BY <1>5, Zenon DEF a

(* A client that reads the head of such a queue can make sense of the rest. *)
LEMMA TailOrdered ==
    ASSUME NEW q \in Seq(ServerMsg), q # <<>>, NEW o, WellOrdered(q, o)
    PROVE  WellOrdered(Tail(q), AfterReading(o, Head(q)))
<1> DEFINE m == Head(q)
           t == Tail(q)
           p == AfterReading(o, m)
<1>1. /\ 1 \in DOMAIN q /\ q[1] = m /\ m \in ServerMsg
      /\ DOMAIN q \subseteq Nat /\ DOMAIN t \subseteq Nat
      /\ \A i \in DOMAIN t : i + 1 \in DOMAIN q /\ t[i] = q[i + 1]
      /\ \A i \in DOMAIN q \ {1} : i - 1 \in DOMAIN t /\ t[i - 1] = q[i]
  BY TailIs, Zenon
<1>2. ASSUME NEW s, m.kind = "Teardown", m.session = s PROVE m = Teardown(s)
  BY <1>1, <1>2, SMTT(30) DEF ServerMsg, Teardown
<1> HIDE DEF m, t
<1> SUFFICES ASSUME NEW i \in DOMAIN t
             PROVE  /\ t[i].kind = "Accepted" =>
                          /\ t[i].session \notin p
                          /\ \A j \in DOMAIN t : j < i => ~Names(t[j], t[i].session)
                    /\ t[i].kind \in {"Service", "Teardown"} => HeldAt(t, p, t[i].session, i)
  BY Zenon DEF WellOrdered, t, m
<1>3. /\ i + 1 \in DOMAIN q /\ t[i] = q[i + 1] /\ 1 < i + 1
      /\ \A j \in DOMAIN t : j < i => j + 1 < i + 1
      /\ \A j \in DOMAIN q \ {1} : j < i + 1 => j - 1 < i
  <2>1. i \in Nat /\ 1 < i + 1
    <3>1. i \in Nat /\ i # 0
      BY <1>1, SMTT(30) DEF t
    <3>. QED
      BY <3>1, SMTT(30)
  <2>2. ASSUME NEW j \in Nat PROVE j < i => j + 1 < i + 1
    BY <2>1, SMTT(30)
  <2>3. ASSUME NEW j \in Nat PROVE j < i + 1 => j - 1 < i
    BY <2>1, SMTT(30)
  <2>. QED
    BY <1>1, <2>1, <2>2, <2>3, Zenon
<1>4. ASSUME NEW s, s = t[i].session, t[i].kind = "Accepted"
      PROVE  s \notin p /\ \A j \in DOMAIN t : j < i => ~Names(t[j], s)
  <2>1. s \notin o /\ \A j \in DOMAIN q : j < i + 1 => ~Names(q[j], s)
    BY <1>3, <1>4, Zenon DEF WellOrdered
  <2>2. ~(m.kind = "Accepted" /\ m.session = s)
    BY <1>1, <1>3, <2>1, Zenon DEF Names
  <2>3. s \notin p
    BY <2>1, <2>2, Zenon DEF AfterReading
  <2>. QED
    BY <1>1, <1>3, <2>1, <2>3, Zenon
<1>5. ASSUME NEW s, s = t[i].session, t[i].kind \in {"Service", "Teardown"}
      PROVE  HeldAt(t, p, s, i)
  <2>1. HeldAt(q, o, s, i + 1)
    BY <1>3, <1>5, Zenon DEF WellOrdered
  <2>2. \A j \in DOMAIN t : j < i => t[j] # Teardown(s)
    BY <1>1, <1>3, <2>1, Zenon DEF HeldAt
  <2>3. ~(m.kind = "Teardown" /\ m.session = s)
    BY <1>1, <1>2, <1>3, <2>1, Zenon DEF HeldAt
  <2>4. CASE s \in o
    BY <2>2, <2>3, <2>4, Zenon DEF HeldAt, AfterReading
  <2>5. ASSUME NEW j \in DOMAIN q, j < i + 1, q[j].kind = "Accepted", q[j].session = s
        PROVE  s \in p \/ \E k \in DOMAIN t : k < i /\ t[k].kind = "Accepted" /\ t[k].session = s
    <3>1. CASE j = 1
      BY <1>1, <2>5, <3>1, Zenon DEF AfterReading
    <3>2. CASE j # 1
      BY <1>1, <1>3, <2>5, <3>2, Zenon
    <3>. QED
      BY <3>1, <3>2, Zenon
  <2>. QED
    BY <2>1, <2>2, <2>4, <2>5, Zenon DEF HeldAt
<1>. QED
  BY <1>4, <1>5, Zenon

(* The same of the sends the running handler has still to make, none of    *)
(* which is about the session of another to the same client; of the routes *)
(* in the table; and every id that is routed, open or on its way to a      *)
(* client has been issued to it, so that a fresh one is new to it.         *)
SendsOrdered ==
    \A x \in outbox : Failed(x.to) \/
        /\ x.msg.kind = "Accepted" => NewTo(chan[x.to], open[x.to], x.msg.session)
        /\ x.msg.kind \in {"Service", "Teardown"} =>
              HeldBy(chan[x.to], open[x.to], x.msg.session)
SendsApart ==
    \A x, y \in outbox : \A s \in Sessions :
        x.to = y.to /\ Names(x.msg, s) /\ Names(y.msg, s) => x = y
AcceptPending(c, s) ==
    \E x \in outbox : x.to = c /\ x.msg.kind = "Accepted" /\ x.msg.session = s
HeldRoute(c, s) ==
    /\ Send(c, Teardown(s)) \notin outbox
    /\ HeldBy(chan[c], open[c], s) \/ AcceptPending(c, s)
RoutesHeld ==
    \A c \in Conns, s \in Sessions :
        routing_table[c][s] # NoRoute /\ ~Failed(c) => HeldRoute(c, s)
IdsIssued ==
    \A c \in Conns, s \in Sessions :
        \/ routing_table[c][s] # NoRoute
        \/ s \in open[c]
        \/ \E m \in InFlight(c) : Names(m, s)
        => <<c, s>> \in issued

OrderInv ==
    /\ DeliveryInv /\ FreshInv
    /\ SessionOrder /\ SendsOrdered /\ SendsApart /\ RoutesHeld /\ IdsIssued

(* A message about a session carries a session id. *)
LEMMA NamesSession ==
    ASSUME NEW m \in ServerMsg, m.kind \in {"Accepted", "Service", "Teardown"}
    PROVE  m.session \in Sessions /\ Names(m, m.session)
<1>1. m.session \in Sessions
  BY Zenon DEF ServerMsg
<1>. QED
  BY <1>1, Zenon DEF Names

(* A client opens and closes sessions by what it reads. *)
LEMMA OpenKept ==
    ASSUME TypeOK, [Next]_vars, NEW c \in Conns
    PROVE  /\ WriterWrite(c) => open'[c] = AfterReading(open[c], Head(chan[c]))
           /\ ~WriterWrite(c) => open'[c] = open[c]
<1>0. open \in [Conns -> SUBSET Sessions]
  BY Zenon DEF TypeOK, ClientsType
<1>1. ASSUME NEW d \in Conns, WriterWrite(d)
      PROVE  open' = [open EXCEPT ![d] = AfterReading(@, Head(chan[d]))]
  BY <1>1, Zenon DEF WriterWrite, ClientReceive, AfterReading
<1>2. CASE \E d \in Conns : WriterWrite(d)
  BY <1>0, <1>1, <1>2, Zenon
<1>3. CASE ~\E d \in Conns : WriterWrite(d)
  BY <1>0, <1>3, ClientFrames, Zenon
     DEF Next, Actor, Accept, ClientVanish, Post, ReaderExit, WriterFail, TryEnqueue,
         ProcessNewConnection, ProcessFrame, ProcessDisconnect, FinishDisconnect, TakeEvent,
         EndEvent, DrainOne, EndDrain, clients, vars
<1>. QED
  BY <1>2, <1>3, Zenon

(* A ServiceTeardown a handler sends is for a route it has just removed; a *)
(* service frame it forwards is for a route that is there.                 *)
LEMMA SendsRouted ==
    ASSUME DeliveryInv, [Next]_vars, NEW x \in outbox', x \notin outbox
    PROVE  /\ x.msg.kind = "Teardown" =>
                /\ routing_table[x.to][x.msg.session] # NoRoute
                /\ routing_table'[x.to][x.msg.session] = NoRoute
           /\ x.msg.kind = "Service" => routing_table[x.to][x.msg.session] # NoRoute
<1> USE DEF DeliveryInv
<1>0. routing_table \in [Conns -> [Sessions -> Route \cup {NoRoute}]] /\ TypeOK
  BY Zenon DEF IInv, TypeOK, RoutesType
<1>1. ASSUME x.msg.kind = "Service" PROVE routing_table[x.to][x.msg.session] # NoRoute
  <2>1. PICK h \in Conns, m \in ClientMsg : ProcessService(h, m)
    BY <1>1, NewSends, Zenon
  <2> DEFINE r == routing_table[h][m.session]
  <2>2. /\ m.session \in Sessions /\ r # NoRoute
        /\ x = Send(PeerConn(r, h), Service(PeerSession(r, h), m.via))
    <3>1. m.session \in Sessions
      BY <2>1, FrameFields, Zenon DEF ProcessService
    <3>2. outbox' = IF r = NoRoute THEN {}
                    ELSE {Send(PeerConn(r, h), Service(PeerSession(r, h), m.via))}
      BY <2>1, Zenon DEF ProcessService
    <3>. QED
      BY <3>1, <3>2, Zenon
  <2>3. routing_table[PeerConn(r, h)][PeerSession(r, h)] = r
    BY <2>2, PeersRegistered, Zenon
  <2>4. x.to = PeerConn(r, h) /\ x.msg.session = PeerSession(r, h)
    BY <2>2, Zenon DEF Send, Service
  <2>. QED
    BY <2>2, <2>3, <2>4, Zenon
<1>2. ASSUME x.msg.kind = "Teardown"
      PROVE  /\ routing_table[x.to][x.msg.session] # NoRoute
             /\ routing_table'[x.to][x.msg.session] = NoRoute
  <2>1. CASE FinishDisconnect
    <3>1. PICK d \in Conns : d = closing
      BY <1>0, <2>1, Zenon DEF FinishDisconnect, TypeOK, ControlType
    <3>2. /\ routing_table' = RoutesWithout(d)
          /\ outbox' = {Send(p[1], Teardown(p[2])) : p \in PeersToNotify(d)}
      BY <2>1, <3>1, Zenon DEF FinishDisconnect
    <3>3. PICK p \in PeersToNotify(d) : x = Send(p[1], Teardown(p[2]))
      BY <3>2, Zenon
    <3>4. PICK s \in Sessions :
            /\ routing_table[d][s] # NoRoute
            /\ p = <<PeerConn(routing_table[d][s], d), PeerSession(routing_table[d][s], d)>>
      BY <3>3, Zenon DEF PeersToNotify
    <3>5. /\ p[1] \in Conns /\ p[2] \in Sessions /\ p = <<p[1], p[2]>>
          /\ routing_table[p[1]][p[2]] = routing_table[d][s]
      BY <3>4, PeersRegistered, SMTT(30)
    <3>6. x.to = p[1] /\ x.msg.session = p[2]
      BY <3>3, Zenon DEF Send, Teardown
    <3>7. RoutesWithout(d)[p[1]][p[2]] = NoRoute
      BY <3>3, <3>5, Zenon DEF RoutesWithout
    <3>. QED
      BY <3>2, <3>4, <3>5, <3>6, <3>7, Zenon
  <2>2. CASE ProcessFrame
    <3>1. PICK h \in Conns, m \in ClientMsg : FrameOf(h, m) /\ outbox = {}
      BY <2>2, FrameHandled, Zenon
    <3>2. CASE ProcessRevokeInterest(h, m) /\ routing_table[h][m.session] # NoRoute
      <4> DEFINE r == routing_table[h][m.session]
                 e == PeerConn(r, h)
                 u == PeerSession(r, h)
      <4>1. m.session \in Sessions
        BY <3>2, FrameFields, Zenon DEF ProcessRevokeInterest
      <4>2. /\ routing_table' = [routing_table EXCEPT ![h][m.session] = NoRoute, ![e][u] = NoRoute]
            /\ outbox' = {Send(e, Teardown(u)), Send(h, Teardown(m.session))}
        BY <3>2, Zenon DEF ProcessRevokeInterest, RevokeNotices
      <4>3. e \in Conns /\ u \in Sessions /\ e # h /\ routing_table[e][u] = r
        BY <3>2, <4>1, PeersRegistered, Zenon
      <4> HIDE DEF e, u
      <4>4. \/ x.to = e /\ x.msg.session = u
            \/ x.to = h /\ x.msg.session = m.session
        <5>1. x = Send(e, Teardown(u)) \/ x = Send(h, Teardown(m.session))
          BY <4>2, Zenon
        <5>. QED
          BY <5>1, SMTT(30) DEF Send, Teardown
      <4>5. routing_table'[e][u] = NoRoute /\ routing_table'[h][m.session] = NoRoute
        BY <1>0, <4>1, <4>2, <4>3, SMTT(40), ZenonT(20)
      <4>. QED
        BY <3>2, <4>3, <4>4, <4>5, Zenon
    <3>3. CASE ~(ProcessRevokeInterest(h, m) /\ routing_table[h][m.session] # NoRoute)
      <4>1. ~ProcessDeclareInterest(h, m)
        <5>1. CASE DeclineUnprovided(h, m.service) \/ DeclineExhausted(h, m.service)
          BY <1>2, <5>1, SMTT(40), ZenonT(20) DEF DeclineUnprovided, DeclineExhausted, Send, Declined
        <5>2. CASE AcceptInterest(h, m.service)
          BY <1>2, <5>2, SMTT(40), ZenonT(20) DEF AcceptInterest, AcceptNotices, Send, Accepted
        <5>. QED
          BY <5>1, <5>2, Zenon DEF ProcessDeclareInterest
      <4>2. ~ProcessService(h, m)
        BY <1>2, SMTT(30) DEF ProcessService, Send, Service
      <4>3. ~ProcessWatch(h, m)
        BY <1>2, <3>1, SMTT(30) DEF ProcessWatch, UnknownTargetNotice, Send, Exited
      <4>. QED
        BY <3>1, <3>3, <4>1, <4>2, <4>3, Zenon
           DEF FrameOf, ProcessRevokeInterest, ProcessUnwatch, ProcessIgnored
    <3>. QED
      BY <3>2, <3>3, Zenon
  <2>3. ~(ProcessDisconnect \/ DrainOne)
    <3>1. ASSUME NEW d \in Conns, StartDisconnect(d), outbox = {} PROVE FALSE
      BY <1>2, <3>1, SMTT(40), ZenonT(20) DEF StartDisconnect, Send, Exited
    <3>. QED
      BY <3>1, DisconnectStarted, Zenon
  <2>4. ~(Environment \/ TryEnqueue \/ EndEvent \/ EndDrain \/ UNCHANGED vars
                      \/ ProcessNewConnection)
    BY EnvironmentFrame, Zenon
       DEF control, TryEnqueue, EndEvent, EndDrain, ProcessNewConnection, vars, IInv
  <2>. QED
    BY <2>1, <2>2, <2>3, <2>4, Zenon DEF Next, Actor, Environment
<1>. QED
  BY <1>1, <1>2, Zenon

(* The sends of one handler are about different sessions, or go to         *)
(* different clients.                                                      *)
LEMMA ApartNew ==
    ASSUME DeliveryInv, [Next]_vars, outbox = {}
    PROVE  SendsApart'
<1> USE DEF DeliveryInv
<1> SUFFICES ASSUME NEW x \in outbox', NEW y \in outbox', NEW s \in Sessions,
                    x.to = y.to, Names(x.msg, s), Names(y.msg, s)
             PROVE  x = y
  BY Zenon DEF SendsApart
<1>0. /\ x \in [to : Conns, msg : ServerMsg] /\ y \in [to : Conns, msg : ServerMsg]
      /\ x \notin outbox /\ y \notin outbox
  <2>1. TypeOK'
    BY DeliveryStep, Zenon DEF IInv
  <2>. QED
    BY <2>1, Zenon DEF TypeOK, OutboxType
<1>1. ASSUME NEW z \in outbox', z.msg.kind = "Service" PROVE x = y
  <2>1. PICK h \in Conns, m \in ClientMsg : ProcessService(h, m)
    BY <1>1, NewSends, Zenon
  <2>. QED
    BY <2>1, Zenon DEF ProcessService
<1>2. ASSUME NEW z \in outbox', z.msg.kind = "Accepted" PROVE x = y
  <2>1. PICK h \in Conns : \E v : AcceptInterest(h, v)
    BY <1>2, <1>0, NewSends, Zenon
  <2>2. PICK p \in Conns \ {h}, r \in Route :
          r.consumer_conn = h /\ r.provider_conn = p /\ outbox' = AcceptNotices(r)
    BY <2>1, AcceptMakes, SMTT(40), ZenonT(20)
  <2>3. \A k \in outbox' : \/ k = Send(h, Accepted(r.consumer_session, r)) /\ k.to = h
                           \/ k = Send(p, Accepted(r.provider_session, r)) /\ k.to = p
    <3>1. \A k \in outbox' : \/ k = Send(h, Accepted(r.consumer_session, r))
                             \/ k = Send(p, Accepted(r.provider_session, r))
      BY <2>2, Zenon DEF AcceptNotices
    <3>2. \A d, n : Send(d, n).to = d
      BY Zenon DEF Send
    <3>. QED
      BY <3>1, <3>2, Zenon
  <2>. QED
    BY <2>2, <2>3, Zenon
<1>3. CASE x.msg.kind = "Teardown" /\ y.msg.kind = "Teardown"
  <2>1. ASSUME NEW m \in ServerMsg, m.kind = "Teardown", Names(m, s) PROVE m = Teardown(s)
    BY <2>1, SMTT(30) DEF ServerMsg, Teardown, Names
  <2>2. x.msg = Teardown(s) /\ y.msg = Teardown(s)
    BY <1>0, <1>3, <2>1, Zenon
  <2>. QED
    BY <1>0, <2>2, SMTT(30)
<1>. QED
  BY <1>1, <1>2, <1>3, Zenon DEF Names

(* Every id a step routes, opens or sends is issued. *)
LEMMA IssuedStep ==
    ASSUME OrderInv, [Next]_vars
    PROVE  IdsIssued'
<1> USE DEF OrderInv
<1>0. issued \subseteq issued' /\ TypeOK
  BY GhostsGrow, Zenon DEF DeliveryInv, IInv
<1> SUFFICES ASSUME NEW c \in Conns, NEW s \in Sessions, <<c, s>> \notin issued
             PROVE  \/ <<c, s>> \in issued'
                    \/ /\ routing_table'[c][s] = NoRoute
                       /\ s \notin open'[c]
                       /\ \A m \in InFlight(c)' : ~Names(m, s)
  BY <1>0, Zenon DEF IdsIssued
<1>1. /\ routing_table[c][s] = NoRoute /\ s \notin open[c]
      /\ \A m \in InFlight(c) : ~Names(m, s)
  BY Zenon DEF IdsIssued
<1>2. ASSUME NEW x \in outbox', x \notin outbox, x.to = c, Names(x.msg, s)
      PROVE  <<c, s>> \in issued'
  <2>1. x.msg.session = s /\ x.msg.kind \in {"Accepted", "Service", "Teardown"}
    BY <1>2, Zenon DEF Names
  <2>2. x.msg.kind = "Accepted"
    BY <1>1, <1>2, <2>1, SendsRouted, Zenon
  <2>. QED
    BY <1>2, <2>1, <2>2, AcceptedIsFresh, Zenon
<1>3. ASSUME routing_table'[c][s] # NoRoute PROVE <<c, s>> \in issued'
  <2>1. PICK x : x = Send(c, Accepted(s, routing_table'[c][s])) /\ x \in outbox'
    BY <1>1, <1>3, RouteNew, Zenon
  <2>2. x \notin outbox
    BY <1>1, <1>3, RoutesChange, Zenon
  <2>3. x.to = c /\ Names(x.msg, s)
    BY <2>1, Zenon DEF Send, Accepted, Names
  <2>. QED
    BY <1>2, <2>1, <2>2, <2>3, Zenon
<1>4. s \notin open'[c]
  <2>1. CASE WriterWrite(c)
    <3>1. open'[c] = AfterReading(open[c], Head(chan[c]))
      BY <1>0, <2>1, OpenKept, Zenon
    <3>2. Head(chan[c]) \in InFlight(c)
      <4>1. chan[c] \in Seq(ServerMsg) /\ chan[c] # <<>>
        BY <1>0, <2>1, Zenon DEF TypeOK, ChannelType, WriterWrite
      <4>2. 1 \in DOMAIN chan[c] /\ chan[c][1] = Head(chan[c])
        BY <4>1, TailIs, Zenon
      <4>. QED
        BY <4>2, InFlightIs, Zenon
    <3>3. ~(Head(chan[c]).kind = "Accepted" /\ Head(chan[c]).session = s)
      BY <1>1, <3>2, Zenon DEF Names
    <3>. QED
      BY <1>1, <3>1, <3>3, Zenon DEF AfterReading
  <2>2. CASE ~WriterWrite(c)
    BY <1>0, <1>1, <2>2, OpenKept, Zenon
  <2>. QED
    BY <2>1, <2>2, Zenon
<1>5. ASSUME NEW m, m \in InFlight(c)', Names(m, s) PROVE <<c, s>> \in issued'
  <2>1. PICK x \in outbox' : x \notin outbox /\ x.to = c /\ x.msg = m
    <3>1. m \notin InFlight(c)
      BY <1>1, <1>5, Zenon
    <3>. QED
      BY <1>5, <3>1, InFlightComes, Zenon
  <2>. QED
    BY <1>2, <1>5, <2>1, Zenon
<1>. QED
  BY <1>3, <1>4, <1>5, Zenon

(* A step that leaves the routes and the pending sends alone, and does to  *)
(* each channel that does not fail what a reader of it does, keeps the     *)
(* order.                                                                  *)
LEMMA OrderKept ==
    ASSUME OrderInv, [Next]_vars, UNCHANGED <<outbox, routing_table>>,
           \A c \in Conns : \/ Failed(c)'
                            \/ chan'[c] = chan[c] /\ open'[c] = open[c]
                            \/ /\ chan[c] # <<>> /\ chan'[c] = Tail(chan[c])
                               /\ open'[c] = AfterReading(open[c], Head(chan[c]))
    PROVE  SessionOrder' /\ SendsOrdered' /\ SendsApart' /\ RoutesHeld'
<1> USE DEF OrderInv
<1>0. /\ \A c \in Conns : chan[c] \in Seq(ServerMsg)
      /\ \A x \in outbox : x.to \in Conns
  BY Zenon DEF DeliveryInv, IInv, TypeOK, ChannelType, OutboxType
<1>1. ASSUME NEW c \in Conns, ~Failed(c)'
      PROVE  /\ ~Failed(c)
             /\ WellOrdered(chan[c], open[c]) => WellOrdered(chan'[c], open'[c])
             /\ \A s : HeldBy(chan[c], open[c], s) => HeldBy(chan'[c], open'[c], s)
             /\ \A s : NewTo(chan[c], open[c], s) => NewTo(chan'[c], open'[c], s)
  <2>1. ~Failed(c)
    BY <1>1, FailedStable, Zenon DEF DeliveryInv
  <2>2. CASE chan'[c] = chan[c] /\ open'[c] = open[c]
    BY <2>1, <2>2, Zenon
  <2>3. CASE /\ chan[c] # <<>> /\ chan'[c] = Tail(chan[c])
             /\ open'[c] = AfterReading(open[c], Head(chan[c]))
    BY <1>0, <2>1, <2>3, TailOrdered, TailHeld, Zenon
  <2>. QED
    BY <1>1, <2>2, <2>3, Zenon
<1>2. SessionOrder'
  BY <1>1, Zenon DEF SessionOrder
<1>3. SendsOrdered'
  BY <1>0, <1>1, Zenon DEF SendsOrdered
<1>4. SendsApart'
  BY Zenon DEF SendsApart
<1>5. RoutesHeld'
  <2> SUFFICES ASSUME NEW c \in Conns, NEW s \in Sessions, routing_table'[c][s] # NoRoute,
                      ~Failed(c)'
               PROVE  HeldRoute(c, s)'
    BY Zenon DEF RoutesHeld
  <2>1. ~Failed(c) /\ (HeldBy(chan[c], open[c], s) => HeldBy(chan'[c], open'[c], s))
    BY <1>1, Zenon
  <2>2. HeldRoute(c, s)
    BY <2>1, Zenon DEF RoutesHeld
  <2>. QED
    BY <2>1, <2>2, Zenon DEF HeldRoute, AcceptPending
<1>. QED
  BY <1>2, <1>3, <1>4, <1>5, Zenon

(* try_enqueue puts a message where its client will make sense of it, and  *)
(* what is still to be sent stays in order.                                *)
LEMMA OrderEnqueue ==
    ASSUME OrderInv, [Next]_vars, TryEnqueue
    PROVE  SessionOrder' /\ SendsOrdered' /\ SendsApart' /\ RoutesHeld'
<1> USE DEF OrderInv
<1>0. /\ \A c \in Conns : chan[c] \in Seq(ServerMsg)
      /\ \A x \in outbox : x.to \in Conns /\ x.msg \in ServerMsg
      /\ \A c \in Conns : ~Failed(c)' => ~Failed(c)
      /\ UNCHANGED <<open, routing_table>>
  <2>1. TypeOK /\ UNCHANGED <<open, routing_table>>
    BY Zenon DEF DeliveryInv, IInv, TryEnqueue, clients, tables
  <2>2. \A c \in Conns : ~Failed(c)' => ~Failed(c)
    BY FailedStable, Zenon DEF DeliveryInv
  <2>. QED
    BY <2>1, <2>2, Zenon DEF TypeOK, ChannelType, OutboxType
<1>1. PICK x \in outbox :
        /\ x.to \in Conns /\ x.msg \in ServerMsg /\ outbox' = outbox \ {x}
        /\ UNCHANGED torn
        /\ \A d \in Conns \ {x.to} : chan'[d] = chan[d]
        /\ \/ x.to \notin writers /\ UNCHANGED chan
           \/ chan'[x.to] = Append(chan[x.to], x.msg)
           \/ x.to \in overflow_teardown' /\ UNCHANGED chan
  BY EnqueueIs, Zenon DEF DeliveryInv, IInv
<1>2. ASSUME NEW c \in Conns, ~Failed(c)'
      PROVE  \/ chan'[c] = chan[c] /\ x.to # c
             \/ chan'[c] = Append(chan[c], x.msg) /\ x.to = c
  <2>1. CASE x.to = c
    <3>1. c \in writers
      <4>1. Registered(c)
        BY <1>1, <2>1, Zenon DEF DeliveryInv, TargetsKnown
      <4>. QED
        BY <1>0, <1>2, <4>1, Zenon DEF Registered, Failed
    <3>2. c \notin overflow_teardown'
      BY <1>2, Zenon DEF Failed
    <3>. QED
      BY <1>1, <2>1, <3>1, <3>2, Zenon
  <2>. QED
    BY <1>1, <2>1, Zenon
<1>3. ASSUME NEW s, Names(x.msg, s)
      PROVE  s \in Sessions /\ \A y \in outbox' : y.to = x.to => ~Names(y.msg, s)
  <2>1. s \in Sessions
    BY <1>1, <1>3, NamesSession, Zenon DEF Names
  <2>. QED
    BY <1>1, <1>3, <2>1, Zenon DEF SendsApart
<1>4. ASSUME ~Failed(x.to)
      PROVE  /\ x.msg.kind = "Accepted" => NewTo(chan[x.to], open[x.to], x.msg.session)
             /\ x.msg.kind \in {"Service", "Teardown"} =>
                   HeldBy(chan[x.to], open[x.to], x.msg.session)
  BY <1>4, Zenon DEF SendsOrdered
<1>5. SessionOrder'
  <2> SUFFICES ASSUME NEW c \in Conns, ~Failed(c)' PROVE WellOrdered(chan'[c], open'[c])
    BY Zenon DEF SessionOrder
  <2>1. WellOrdered(chan[c], open[c]) /\ ~Failed(c)
    BY <1>0, Zenon DEF SessionOrder
  <2>2. CASE chan'[c] = chan[c]
    BY <1>0, <2>1, <2>2, Zenon
  <2>3. CASE chan'[c] = Append(chan[c], x.msg) /\ x.to = c
    <3>1. WellOrdered(Append(chan[c], x.msg), open[c])
      BY <1>0, <1>1, <1>4, <2>1, <2>3, AppendOrdered, Zenon
    <3>. QED
      BY <1>0, <2>3, <3>1, Zenon
  <2>. QED
    BY <1>2, <2>2, <2>3, Zenon
<1>6. SendsOrdered'
  <2> SUFFICES ASSUME NEW y \in outbox', ~Failed(y.to)'
               PROVE  /\ y.msg.kind = "Accepted" =>
                            NewTo(chan'[y.to], open'[y.to], y.msg.session)
                      /\ y.msg.kind \in {"Service", "Teardown"} =>
                            HeldBy(chan'[y.to], open'[y.to], y.msg.session)
    BY Zenon DEF SendsOrdered
  <2> DEFINE c == y.to
             s == y.msg.session
  <2>1. /\ c \in Conns /\ y \in outbox /\ y.msg \in ServerMsg /\ ~Failed(c)
        /\ y.msg.kind = "Accepted" => NewTo(chan[c], open[c], s)
        /\ y.msg.kind \in {"Service", "Teardown"} => HeldBy(chan[c], open[c], s)
    BY <1>0, <1>1, Zenon DEF SendsOrdered
  <2>2. CASE chan'[c] = chan[c]
    BY <1>0, <2>1, <2>2, Zenon
  <2>3. CASE /\ chan'[c] = Append(chan[c], x.msg) /\ x.to = c
             /\ y.msg.kind \in {"Accepted", "Service", "Teardown"}
    <3>1. ~Names(x.msg, s) /\ x.msg # Teardown(s)
      <4>1. Names(y.msg, s)
        BY <2>1, <2>3, NamesSession, Zenon
      <4>2. Names(Teardown(s), s)
        BY Zenon DEF Names, Teardown
      <4>. QED
        BY <1>3, <2>3, <4>1, <4>2, Zenon
    <3>2. /\ HeldBy(chan[c], open[c], s) => HeldBy(chan'[c], open[c], s)
          /\ NewTo(chan[c], open[c], s) => NewTo(chan'[c], open[c], s)
      <4> HIDE DEF c, s
      <4>1. chan[c] \in Seq(ServerMsg)
        BY <1>0, <2>1, Zenon
      <4>2. /\ HeldBy(chan[c], open[c], s) => HeldBy(Append(chan[c], x.msg), open[c], s)
            /\ NewTo(chan[c], open[c], s) => NewTo(Append(chan[c], x.msg), open[c], s)
        BY <1>1, <3>1, <4>1, AppendHeld, Zenon
      <4>. QED
        BY <2>3, <4>2, Zenon
    <3>3. open'[c] = open[c]
      BY <1>0, Zenon
    <3>. QED
      BY <2>1, <3>2, <3>3, Zenon
  <2>. QED
    BY <1>2, <2>1, <2>2, <2>3, Zenon
<1>7. SendsApart'
  BY <1>1, Zenon DEF SendsApart
<1>8. RoutesHeld'
  <2> SUFFICES ASSUME NEW c \in Conns, NEW s \in Sessions, routing_table'[c][s] # NoRoute,
                      ~Failed(c)'
               PROVE  HeldRoute(c, s)'
    BY Zenon DEF RoutesHeld
  <2>0. ~Failed(c) /\ open'[c] = open[c]
    BY <1>0, Zenon
  <2>1. HeldRoute(c, s)
    BY <1>0, <2>0, Zenon DEF RoutesHeld
  <2>a. Send(c, Teardown(s)) \notin outbox /\ Send(c, Teardown(s)) \notin outbox'
    BY <1>1, <2>1, Zenon DEF HeldRoute
  <2>2. x.to = c => x.msg # Teardown(s)
    <3>1. x = Send(x.to, x.msg)
      BY SMTT(30) DEF Send, DeliveryInv, IInv, TypeOK, OutboxType
    <3>. QED
      BY <2>a, <3>1, Zenon
  <2>3. CASE HeldBy(chan[c], open[c], s)
    <3>1. HeldBy(chan'[c], open[c], s)
      BY <1>0, <1>1, <1>2, <2>2, <2>3, AppendHeld, Zenon
    <3>. QED
      BY <2>0, <2>a, <3>1, Zenon DEF HeldRoute
  <2>4. CASE AcceptPending(c, s)
    <3>1. PICK y \in outbox : y.to = c /\ y.msg.kind = "Accepted" /\ y.msg.session = s
      BY <2>4, Zenon DEF AcceptPending
    <3>2. CASE y # x
      <4>1. AcceptPending(c, s)'
        BY <1>1, <3>1, <3>2, Zenon DEF AcceptPending
      <4>. QED
        BY <2>a, <4>1, Zenon DEF HeldRoute
    <3>3. CASE y = x
      <4>1. NewTo(chan[c], open[c], s) /\ chan'[c] = Append(chan[c], x.msg)
        BY <1>2, <1>4, <2>0, <3>1, <3>3, Zenon
      <4>2. HeldBy(Append(chan[c], x.msg), open[c], s)
        BY <1>0, <1>1, <3>1, <3>3, <4>1, AppendHeld, Zenon
      <4>. QED
        BY <2>0, <2>a, <4>1, <4>2, Zenon DEF HeldRoute
    <3>. QED
      BY <3>2, <3>3, Zenon
  <2>. QED
    BY <2>1, <2>3, <2>4, Zenon DEF HeldRoute
<1>. QED
  BY <1>5, <1>6, <1>7, <1>8, Zenon

(* A handler sends InterestAccepted under ids that are new to their        *)
(* clients, forwards frames and sends teardowns for routes their clients   *)
(* hold, and keeps only routes whose clients hold them or are being told.  *)
LEMMA OrderHandler ==
    ASSUME OrderInv, [Next]_vars, outbox = {}, UNCHANGED <<chan, open>>
    PROVE  SessionOrder' /\ SendsOrdered' /\ SendsApart' /\ RoutesHeld'
<1> USE DEF OrderInv
<1>0. /\ \A c \in Conns : ~Failed(c)' => ~Failed(c)
      /\ \A x \in outbox' : x.to \in Conns /\ x.msg \in ServerMsg
  <2>1. \A c \in Conns : ~Failed(c)' => ~Failed(c)
    BY FailedStable, Zenon DEF DeliveryInv
  <2>2. TypeOK'
    BY DeliveryStep, Zenon DEF DeliveryInv, IInv
  <2>. QED
    BY <2>1, <2>2, Zenon DEF TypeOK, OutboxType
<1>1. SessionOrder'
  BY <1>0, Zenon DEF SessionOrder
<1>2. SendsApart'
  BY ApartNew, Zenon
<1>3. ASSUME NEW c \in Conns, NEW s \in Sessions, <<c, s>> \notin issued
      PROVE  NewTo(chan[c], open[c], s)
  <2>1. s \notin open[c] /\ \A m \in InFlight(c) : ~Names(m, s)
    BY <1>3, Zenon DEF IdsIssued
  <2>2. \A j \in DOMAIN chan[c] : chan[c][j] \in InFlight(c)
    BY InFlightIs, Zenon
  <2>. QED
    BY <2>1, <2>2, Zenon DEF NewTo
<1>4. ASSUME NEW c \in Conns, NEW s \in Sessions, routing_table[c][s] # NoRoute, ~Failed(c)
      PROVE  HeldBy(chan[c], open[c], s)
  <2>1. HeldRoute(c, s)
    BY <1>4, Zenon DEF RoutesHeld
  <2>. QED
    BY <2>1, Zenon DEF HeldRoute, AcceptPending
<1>5. ASSUME NEW x \in outbox', ~Failed(x.to)'
      PROVE  /\ x.msg.kind = "Accepted" => NewTo(chan[x.to], open[x.to], x.msg.session)
             /\ x.msg.kind \in {"Service", "Teardown"} =>
                   HeldBy(chan[x.to], open[x.to], x.msg.session)
  <2>1. x \notin outbox /\ x.to \in Conns /\ x.msg \in ServerMsg /\ ~Failed(x.to)
    BY <1>0, <1>5, Zenon
  <2>2. ASSUME x.msg.kind = "Accepted" PROVE NewTo(chan[x.to], open[x.to], x.msg.session)
    <3>1. x.msg.session \in Sessions
      BY <2>1, <2>2, NamesSession, Zenon
    <3>2. x.to \notin torn
      BY <2>1, Zenon DEF Failed
    <3>3. <<x.to, x.msg.session>> \notin issued
      BY <2>1, <2>2, <3>2, AcceptedIsFresh, Zenon
    <3>. QED
      BY <1>3, <2>1, <3>1, <3>3, Zenon
  <2>3. ASSUME x.msg.kind \in {"Service", "Teardown"}
        PROVE  HeldBy(chan[x.to], open[x.to], x.msg.session)
    <3>1. x.msg.session \in Sessions
      BY <2>1, <2>3, NamesSession, Zenon
    <3>2. routing_table[x.to][x.msg.session] # NoRoute
      BY <2>1, <2>3, SendsRouted, Zenon
    <3>. QED
      BY <1>4, <2>1, <3>1, <3>2, Zenon
  <2>. QED
    BY <2>2, <2>3, Zenon
<1>6. SendsOrdered'
  BY <1>5, Zenon DEF SendsOrdered
<1>7. RoutesHeld'
  <2> SUFFICES ASSUME NEW c \in Conns, NEW s \in Sessions, routing_table'[c][s] # NoRoute,
                      ~Failed(c)'
               PROVE  HeldRoute(c, s)'
    BY Zenon DEF RoutesHeld
  <2>1. Send(c, Teardown(s)) \notin outbox'
    <3>1. /\ Send(c, Teardown(s)).to = c /\ Send(c, Teardown(s)).msg.session = s
          /\ Send(c, Teardown(s)).msg.kind = "Teardown"
      BY Zenon DEF Send, Teardown
    <3>. QED
      BY <3>1, SendsRouted, Zenon
  <2>2. CASE routing_table[c][s] # NoRoute
    <3>1. HeldBy(chan'[c], open'[c], s)
      BY <1>0, <1>4, <2>2, Zenon
    <3>. QED
      BY <2>1, <3>1, Zenon DEF HeldRoute
  <2>3. CASE routing_table[c][s] = NoRoute
    <3>1. PICK r : Send(c, Accepted(s, r)) \in outbox'
      BY <2>3, RouteNew, Zenon
    <3>2. /\ Send(c, Accepted(s, r)).to = c /\ Send(c, Accepted(s, r)).msg.session = s
          /\ Send(c, Accepted(s, r)).msg.kind = "Accepted"
      BY Zenon DEF Send, Accepted
    <3>3. AcceptPending(c, s)'
      BY <3>1, <3>2, Zenon DEF AcceptPending
    <3>. QED
      BY <2>1, <3>3, Zenon DEF HeldRoute
  <2>. QED
    BY <2>2, <2>3, Zenon
<1>. QED
  BY <1>1, <1>2, <1>6, <1>7, Zenon

(* Every step keeps the order. *)
LEMMA OrderStep == OrderInv /\ [Next]_vars => OrderInv'
<1> SUFFICES ASSUME OrderInv, [Next]_vars PROVE OrderInv'
  BY Zenon
<1>0. /\ TypeOK /\ IInv /\ ActorQuiet /\ DeliveryInv
      /\ chan \in [Conns -> Seq(ServerMsg)] /\ open \in [Conns -> SUBSET Sessions]
      /\ writer \in [Conns -> {"none", "run", "dead"}]
  BY Zenon DEF OrderInv, DeliveryInv, IInv, TypeOK, ChannelType, ClientsType
<1>1. DeliveryInv' /\ FreshInv' /\ IdsIssued'
  BY DeliveryStep, FreshStep, IssuedStep, Zenon DEF OrderInv
<1>2. ASSUME NEW d \in Conns, WriterWrite(d)
      PROVE  SessionOrder' /\ SendsOrdered' /\ SendsApart' /\ RoutesHeld'
  <2>1. /\ chan[d] # <<>> /\ chan' = [chan EXCEPT ![d] = Tail(@)]
        /\ open' = [open EXCEPT ![d] = AfterReading(@, Head(chan[d]))]
        /\ UNCHANGED <<outbox, routing_table>>
    BY <1>2, Zenon DEF WriterWrite, ClientReceive, AfterReading, control, tables
  <2>2. \A c \in Conns : \/ chan'[c] = chan[c] /\ open'[c] = open[c]
                         \/ /\ chan[c] # <<>> /\ chan'[c] = Tail(chan[c])
                            /\ open'[c] = AfterReading(open[c], Head(chan[c]))
    BY <1>0, <2>1, Zenon
  <2>. QED
    BY <2>1, <2>2, OrderKept, Zenon
<1>3. ASSUME NEW d \in Conns, WriterFail(d)
      PROVE  SessionOrder' /\ SendsOrdered' /\ SendsApart' /\ RoutesHeld'
  <2>1. /\ chan' = [chan EXCEPT ![d] = <<>>] /\ writer' = [writer EXCEPT ![d] = "dead"]
        /\ UNCHANGED <<outbox, routing_table, open>>
    BY <1>3, Zenon DEF WriterFail, control, tables, clients
  <2>2. \A c \in Conns : Failed(c)' \/ (chan'[c] = chan[c] /\ open'[c] = open[c])
    BY <1>0, <2>1, Zenon DEF Failed
  <2>. QED
    BY <2>1, <2>2, OrderKept, Zenon
<1>4. CASE TryEnqueue
  BY <1>1, <1>4, OrderEnqueue, Zenon DEF OrderInv
<1>5. CASE /\ ~\E d \in Conns : WriterWrite(d)
           /\ UNCHANGED chan /\ (UNCHANGED outbox \/ outbox = {})
  <2>1. UNCHANGED open
    BY <1>0, <1>5, ClientFrames, Zenon
       DEF Next, Actor, Accept, ClientVanish, Post, ReaderExit, WriterFail, TryEnqueue,
           ProcessNewConnection, ProcessFrame, ProcessDisconnect, FinishDisconnect, TakeEvent,
           EndEvent, DrainOne, EndDrain, clients, vars
  <2>2. CASE outbox = {}
    BY <1>1, <1>5, <2>1, <2>2, OrderHandler, Zenon DEF OrderInv
  <2>3. CASE outbox # {}
    <3>1. UNCHANGED <<outbox, routing_table>>
      BY <1>0, <1>5, <2>3, RoutesChange, Zenon
    <3>2. SessionOrder' /\ SendsOrdered' /\ SendsApart' /\ RoutesHeld'
      BY <1>5, <2>1, <3>1, OrderKept, Zenon
    <3>. QED
      BY <1>1, <3>2, Zenon DEF OrderInv
  <2>. QED
    BY <2>2, <2>3, Zenon
<1>. QED
  BY <1>0, <1>1, <1>2, <1>3, <1>4, <1>5, StepKinds, Zenon DEF OrderInv

(* What a client reads about a session, unless the server has given up on  *)
(* the client, is one InterestAccepted under an id it has not had, service *)
(* frames, and one ServiceTeardown after which nothing of that session     *)
(* follows.                                                                *)
THEOREM SessionsAreOrdered == Spec => []SessionOrder
<1>1. Init => OrderInv
  <2> SUFFICES ASSUME Init PROVE OrderInv
    BY Zenon
  <2>1. /\ outbox = {} /\ \A c \in Conns : open[c] = {} /\ InFlight(c) = {}
        /\ \A c \in Conns : DOMAIN chan[c] = {}
        /\ \A c \in Conns, s \in Sessions : routing_table[c][s] = NoRoute
    BY SMTT(40), ZenonT(20) DEF Init, InFlight
  <2>2. SessionOrder /\ SendsOrdered /\ SendsApart /\ RoutesHeld /\ IdsIssued
    BY <2>1, Zenon
       DEF SessionOrder, WellOrdered, SendsOrdered, SendsApart, RoutesHeld, IdsIssued
  <2>3. SessionIdsFresh /\ CountersKnown
    BY Zenon DEF Init, SessionIdsFresh, CountersKnown
  <2>. QED
    BY <2>2, <2>3, DeliveryInit, InvariantInit, Zenon DEF OrderInv, FreshInv
<1>2. OrderInv => SessionOrder
  BY Zenon DEF OrderInv
<1>. QED
  BY <1>1, <1>2, OrderStep, PTL DEF Spec

-----------------------------------------------------------------------------
(* A session id that routes is never bound to another route: whatever      *)
(* declarations, revocations and teardowns come, an entry of routing_table *)
(* is written once and then only removed.                                  *)
RouteKept ==
    [][\A c \in Conns, s \in Sessions :
          routing_table[c][s] # NoRoute =>
              routing_table'[c][s] \in {routing_table[c][s], NoRoute}]_vars

(* handle_declare_interest stores routes only under the ids alloc_session  *)
(* returns, which route nothing; nobody else stores any.                   *)
THEOREM RoutesAreKept == Spec => RouteKept
<1>1. ASSUME DeliveryInv, [Next]_vars, NEW c \in Conns, NEW s \in Sessions,
             routing_table[c][s] # NoRoute
      PROVE  routing_table'[c][s] \in {routing_table[c][s], NoRoute}
  <2> SUFFICES ASSUME routing_table'[c][s] # NoRoute,
                      routing_table'[c][s] # routing_table[c][s]
               PROVE  FALSE
    BY Zenon
  <2>1. PICK x : x = Send(c, Accepted(s, routing_table'[c][s])) /\ x \in outbox'
    BY <1>1, RouteNew, Zenon
  <2>2. x.msg.kind = "Accepted" /\ x \notin outbox
    <3>1. x.msg.kind = "Accepted"
      BY <2>1, Zenon DEF Send, Accepted
    <3>2. outbox = {}
      BY <1>1, RoutesChange, Zenon
    <3>. QED
      BY <3>1, <3>2, Zenon
  <2>3. PICK h \in Conns : \E v : AcceptInterest(h, v)
    BY <1>1, <2>1, <2>2, NewSends, Zenon
  <2>4. PICK p \in Conns \ {h} :
          /\ ~Exhausted(h) /\ ~Exhausted(p)
          /\ <<c, s>> \in {<<h, NextId(h)>>, <<p, NextId(p)>>}
    BY <1>1, <2>3, AcceptMakes, SMTT(40), ZenonT(20) DEF DeliveryInv
  <2>5. routing_table[h][NextId(h)] = NoRoute /\ routing_table[p][NextId(p)] = NoRoute
    BY <1>1, <2>4, NextIdUnused, Zenon DEF DeliveryInv, IInv
  <2>. QED
    BY <1>1, <2>4, <2>5, Zenon
<1>2. DeliveryInv /\ [Next]_vars =>
         \A c \in Conns, s \in Sessions :
            routing_table[c][s] # NoRoute =>
                routing_table'[c][s] \in {routing_table[c][s], NoRoute}
  BY <1>1, Zenon
<1>3. Spec => []DeliveryInv
  BY DeliveryInit, DeliveryStep, PTL DEF Spec
<1>. QED
  BY <1>2, <1>3, PTL DEF Spec, RouteKept
=============================================================================
