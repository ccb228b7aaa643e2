--------------------------- MODULE ProtocolServer ---------------------------
(***************************************************************************)
(* The routing server of pane-session (server.rs): one actor thread owns   *)
(* every table and consumes one event channel; each connection has a       *)
(* reader thread that feeds that channel and a writer thread that drains a *)
(* bounded channel to the socket.  The clients are the environment: they   *)
(* send frames about sessions they were told of, and may vanish.           *)
(*                                                                         *)
(* Abstractions.  A pane's address is its connection (server.rs:794).  The *)
(* Vec of providers of a service is the set of its members; the order      *)
(* of that Vec is the order in which connections were registered, kept in  *)
(* arrivals.  A missing table entry is NoRoute, 0 or {}.                   *)
(* outbox holds the try_enqueue calls the running handler has still to     *)
(* make, so that writer threads interleave with them; the actor takes      *)
(* nothing else up before outbox is empty.  Their order is left open: for  *)
(* watchers and torn down peers it is a hash order; the two notices of a   *)
(* declaration or revocation go to two connections, and the model allows   *)
(* both orders, as it does for overflow_teardown.                          *)
(* Ghosts: torn, gone, issued, intent, and the route a message carries     *)
(* (the route its sender or receiver was told the session stands for).     *)
(***************************************************************************)
EXTENDS Naturals, Sequences, FiniteSets

CONSTANTS
    Conns,         \* the connections that may ever be accepted
    Services,      \* service uuids
    SessionLimit,  \* 0xFFFF in alloc_session: the id that is never issued
    Capacity,      \* WRITER_CHANNEL_CAPACITY
    FrameKinds,    \* bound: the kinds of frames clients send
    MaxFrames,     \* bound: frames all clients together may send
    MaxEvents,     \* bound: events waiting in the actor's channel
    MaxFailures,   \* bound: connections that are ever lost
    NoConn,        \* "no connection is being torn down"
    NoRoute        \* "no entry in routing_table"

ASSUME ConstantsAssumption ==
    /\ SessionLimit \in Nat /\ SessionLimit > 1
    /\ Capacity \in Nat /\ Capacity > 0
    /\ MaxFrames \in Nat /\ MaxEvents \in Nat /\ MaxFailures \in Nat
    /\ NoConn \notin Conns

Sessions == 1..(SessionLimit - 1)

Route == [consumer_conn : Conns, consumer_session : Sessions,
          provider_conn : Conns, provider_session : Sessions]

ASSUME NoRouteAssumption == NoRoute \notin Route

VARIABLES
    \* ServerState, owned by the actor thread
    provider_index, arrivals, routing_table, next_session, writers,
    conn_addresses, watch_table, watcher_reverse, overflow_teardown,
    \* where the actor thread is in actor_loop and process_disconnect
    phase, closing, draining, outbox,
    \* threads and channels
    events, reader, writer, chan,
    \* the clients
    up, learned, open, sent,
    \* ghosts
    torn, gone, issued, intent

tables == <<provider_index, arrivals, routing_table, next_session, writers,
            conn_addresses, watch_table, watcher_reverse>>
control == <<phase, closing, draining, outbox, overflow_teardown>>
threads == <<events, reader, writer, chan>>
clients == <<up, learned, open, sent>>
ghosts == <<torn, gone, issued, intent>>
vars == <<tables, control, threads, clients, ghosts>>

-----------------------------------------------------------------------------
(* What clients send.  Ignored stands for Cancel, an undecodable payload   *)
(* and every control message process_control has no arm for.               *)
Declare(s) == [kind |-> "Declare", service |-> s]
Revoke(s) == [kind |-> "Revoke", session |-> s]
Service(s, r) == [kind |-> "Service", session |-> s, via |-> r]
Watch(t) == [kind |-> "Watch", target |-> t]
Unwatch(t) == [kind |-> "Unwatch", target |-> t]
Ignored == [kind |-> "Ignored"]

ClientMsg ==
    [kind : {"Declare"}, service : Services]
    \cup [kind : {"Revoke"}, session : Sessions]
    \cup [kind : {"Service"}, session : Sessions, via : Route]
    \cup [kind : {"Watch", "Unwatch"}, target : Conns]
    \cup [kind : {"Ignored"}]

(* What the server sends. *)
Accepted(s, r) == [kind |-> "Accepted", session |-> s, route |-> r]
Declined == [kind |-> "Declined"]
Teardown(s) == [kind |-> "Teardown", session |-> s]
Exited(t) == [kind |-> "Exited", target |-> t]

ServerMsg ==
    [kind : {"Accepted"}, session : Sessions, route : Route]
    \cup [kind : {"Declined"}]
    \cup [kind : {"Teardown"}, session : Sessions]
    \cup [kind : {"Exited"}, target : Conns]
    \cup [kind : {"Service"}, session : Sessions, via : Route]

(* ServerEvent *)
NewConnection(c, p) == [kind |-> "NewConnection", conn |-> c, provides |-> p]
Frame(c, m) == [kind |-> "Frame", conn |-> c, msg |-> m]
Disconnected(c) == [kind |-> "Disconnected", conn |-> c]

Event ==
    [kind : {"NewConnection"}, conn : Conns, provides : SUBSET Services]
    \cup [kind : {"Frame"}, conn : Conns, msg : ClientMsg]
    \cup [kind : {"Disconnected"}, conn : Conns]

Send(c, m) == [to |-> c, msg |-> m]

-----------------------------------------------------------------------------
Init ==
    /\ provider_index = [s \in Services |-> {}]
    /\ arrivals = <<>>
    /\ routing_table = [c \in Conns |-> [s \in Sessions |-> NoRoute]]
    /\ next_session = [c \in Conns |-> 0]
    /\ writers = {} /\ conn_addresses = {}
    /\ watch_table = [c \in Conns |-> {}]
    /\ watcher_reverse = [c \in Conns |-> {}]
    /\ overflow_teardown = {}
    /\ phase = "idle" /\ closing = NoConn /\ draining = {} /\ outbox = {}
    /\ events = <<>>
    /\ reader = [c \in Conns |-> "none"]
    /\ writer = [c \in Conns |-> "none"]
    /\ chan = [c \in Conns |-> <<>>]
    /\ up = {} /\ sent = 0
    /\ learned = [c \in Conns |-> {}]
    /\ open = [c \in Conns |-> {}]
    /\ torn = {} /\ gone = {} /\ issued = {}
    /\ intent = [c \in Conns |-> {}]

-----------------------------------------------------------------------------
(* The other end of a route, as process_service, RevokeInterest and        *)
(* remove_connection compute it, and the end at c.                         *)
PeerConn(r, c) == IF r.consumer_conn = c THEN r.provider_conn
                                         ELSE r.consumer_conn
PeerSession(r, c) == IF r.consumer_conn = c THEN r.provider_session
                                            ELSE r.consumer_session
OwnSession(r, c) == IF r.consumer_conn = c THEN r.consumer_session
                                           ELSE r.provider_session

(***************************************************************************)
(* accept(), reader and writer threads, clients                            *)
(***************************************************************************)

(* accept() after a successful handshake: a fresh id, the writer thread,   *)
(* NewConnection posted, and only then the reader thread.                  *)
Accept(c, provides) ==
    /\ reader[c] = "none" /\ Len(events) < MaxEvents
    /\ reader' = [reader EXCEPT ![c] = "run"]
    /\ writer' = [writer EXCEPT ![c] = "run"]
    /\ up' = up \cup {c}
    /\ events' = Append(events, NewConnection(c, provides))
    /\ UNCHANGED <<tables, control, chan, learned, open, sent, ghosts>>

(* reader_loop: a frame of the client becomes an event.  A client that has *)
(* closed may still have frames in the socket.                             *)
Post(c, m) ==
    /\ reader[c] = "run"
    /\ m.kind \in FrameKinds /\ sent < MaxFrames /\ Len(events) < MaxEvents
    /\ sent' = sent + 1
    /\ events' = Append(events, Frame(c, m))
    /\ UNCHANGED <<tables, control, reader, writer, chan, up, learned, open,
                   ghosts>>

ClientDeclare(c) == \E s \in Services : Post(c, Declare(s))
ClientRevoke(c) == \E r \in learned[c] : Post(c, Revoke(OwnSession(r, c)))
ClientService(c) == \E r \in learned[c] : Post(c, Service(OwnSession(r, c), r))
ClientWatch(c) == \E t \in Conns : Post(c, Watch(t))
ClientUnwatch(c) == \E t \in Conns : Post(c, Unwatch(t))
ClientIgnored(c) == Post(c, Ignored)

(* Bound on lost connections: those whose reader ended or client vanished. *)
MayFail(c) ==
    Cardinality({c} \cup {d \in Conns : \/ reader[d] = "done"
                                        \/ reader[d] = "run" /\ d \notin up})
        <= MaxFailures

(* reader_loop ends (end of file, transport error or ProtocolAbort) and    *)
(* posts its one Disconnected event.                                       *)
ReaderExit(c) ==
    /\ reader[c] = "run" /\ Len(events) < MaxEvents /\ MayFail(c)
    /\ reader' = [reader EXCEPT ![c] = "done"]
    /\ events' = Append(events, Disconnected(c))
    /\ UNCHANGED <<tables, control, writer, chan, clients, ghosts>>

(* The client process goes away: from here on writes to it fail.  What     *)
(* becomes of a client and of its last frames once its Disconnected event  *)
(* has been processed is not followed (here and in the writer's actions).  *)
ClientVanish(c) ==
    /\ c \in up \ gone /\ MayFail(c)
    /\ up' = up \ {c}
    /\ UNCHANGED <<tables, control, threads, learned, open, sent, ghosts>>

(* What a client does with a message of the server. *)
ClientReceive(c, m) ==
    /\ learned' = [learned EXCEPT ![c] =
                     @ \cup (IF m.kind = "Accepted" THEN {m.route} ELSE {})]
    /\ open' = [open EXCEPT ![c] =
                  CASE m.kind = "Accepted" -> @ \cup {m.session}
                    [] m.kind = "Teardown" -> @ \ {m.session}
                    [] OTHER -> @]
    /\ intent' = [intent EXCEPT ![c] =
                    @ \ (IF m.kind = "Exited" THEN {m.target} ELSE {})]

(* writer_thread_loop: a frame written to the socket. *)
WriterWrite(c) ==
    /\ writer[c] = "run" /\ chan[c] # <<>> /\ c \in up \ gone
    /\ ClientReceive(c, Head(chan[c]))
    /\ chan' = [chan EXCEPT ![c] = Tail(@)]
    /\ UNCHANGED <<tables, control, events, reader, writer, up, sent,
                   torn, gone, issued>>

(* writer_thread_loop: the write fails, the thread returns and its end of  *)
(* the channel is dropped with what it held.                               *)
WriterFail(c) ==
    /\ writer[c] = "run" /\ chan[c] # <<>> /\ c \notin up \cup gone
    /\ writer' = [writer EXCEPT ![c] = "dead"]
    /\ chan' = [chan EXCEPT ![c] = <<>>]
    /\ UNCHANGED <<tables, control, events, reader, clients, ghosts>>

(***************************************************************************)
(* The actor thread                                                        *)
(***************************************************************************)

(* The writer channel can take another frame / refuses it. *)
HasRoom(c) == writer[c] = "run" /\ Len(chan[c]) < Capacity
MutBlocksWhenFull(c) == writer[c] = "dead"
Refuses(c) == writer[c] = "dead" \/ Len(chan[c]) >= Capacity

(* One pending try_enqueue: no writer, nothing; channel full or its        *)
(* receiver gone, the connection is marked for teardown.                   *)
TryEnqueue ==
    \E m \in outbox :
        /\ outbox' = outbox \ {m}
        /\ \/ /\ m.to \notin writers
              /\ UNCHANGED <<chan, overflow_teardown>>
           \/ /\ m.to \in writers
              /\ HasRoom(m.to)
              /\ chan' = [chan EXCEPT ![m.to] = Append(@, m.msg)]
              /\ UNCHANGED overflow_teardown
           \/ /\ m.to \in writers
              /\ Refuses(m.to)
              /\ overflow_teardown' = overflow_teardown \cup {m.to}
              /\ UNCHANGED chan
        /\ UNCHANGED <<tables, phase, closing, draining, events, reader,
                       writer, clients, ghosts>>

(* recv() in actor_loop: the actor is between events and takes the next. *)
TakeEvent(kind) ==
    /\ phase = "idle" /\ events # <<>> /\ Head(events).kind = kind
    /\ events' = Tail(events)
    /\ phase' = "event"
    /\ UNCHANGED <<draining, overflow_teardown, reader, writer, chan, clients>>

ProcessNewConnection ==
    /\ TakeEvent("NewConnection")
    /\ LET c == Head(events).conn
       IN  /\ provider_index' = [s \in Services |->
                                   IF s \in Head(events).provides
                                     THEN provider_index[s] \cup {c}
                                     ELSE provider_index[s]]
           /\ arrivals' = Append(arrivals, c)
           /\ writers' = writers \cup {c}
           /\ next_session' = [next_session EXCEPT ![c] = 1]
           /\ conn_addresses' = conn_addresses \cup {c}
    /\ UNCHANGED <<closing, outbox, routing_table, watch_table,
                   watcher_reverse, ghosts>>

(* provider_index[s].first() *)
FirstProvider(s, p) ==
    /\ p \in provider_index[s]
    /\ \E i \in DOMAIN arrivals :
           /\ arrivals[i] = p
           /\ \A j \in 1..(i - 1) : arrivals[j] \notin provider_index[s]

(* alloc_session: the id it would return.  An absent counter starts at 1;  *)
(* the limit itself is never issued.                                       *)
NextId(c) == IF next_session[c] = 0 THEN 1 ELSE next_session[c]
MutLimitIssued(c) == NextId(c) > SessionLimit
Exhausted(c) == NextId(c) = SessionLimit

(* handle_declare_interest fails before it allocates: no provider, or the  *)
(* declaring connection is the provider.                                   *)
DeclineUnprovided(c, s) ==
    /\ provider_index[s] = {} \/ FirstProvider(s, c)
    /\ outbox' = {Send(c, Declined)}
    /\ UNCHANGED <<routing_table, next_session, issued>>

(* ... or one of the two allocations fails; the consumer's id is used up   *)
(* when it is the provider's that fails.                                   *)
DeclineExhausted(c, s) ==
    \E p \in Conns \ {c} :
        /\ FirstProvider(s, p)
        /\ Exhausted(c) \/ Exhausted(p)
        /\ IF Exhausted(c)
             THEN /\ next_session' = [next_session EXCEPT ![c] = NextId(c)]
                  /\ UNCHANGED issued
             ELSE /\ next_session' = [next_session EXCEPT ![c] = NextId(c) + 1]
                  /\ issued' = issued \cup {<<c, NextId(c)>>}
        /\ outbox' = {Send(c, Declined)}
        /\ UNCHANGED routing_table

(* The answer to the consumer and the notice to the provider. *)
MutProviderNotTold(r) ==
    {Send(r.consumer_conn, Accepted(r.consumer_session, r))}
AcceptNotices(r) ==
    {Send(r.consumer_conn, Accepted(r.consumer_session, r)),
     Send(r.provider_conn, Accepted(r.provider_session, r))}

(* ... or both ends of the new route are stored and told their session. *)
AcceptInterest(c, s) ==
    \E p \in Conns \ {c} :
        /\ FirstProvider(s, p)
        /\ ~Exhausted(c) /\ ~Exhausted(p)
        /\ LET cs == NextId(c)
               ps == NextId(p)
               r == [consumer_conn |-> c, consumer_session |-> cs,
                     provider_conn |-> p, provider_session |-> ps]
           IN  /\ next_session' = [next_session EXCEPT ![c] = cs + 1,
                                                       ![p] = ps + 1]
               /\ routing_table' = [routing_table EXCEPT ![c][cs] = r,
                                                         ![p][ps] = r]
               /\ outbox' = AcceptNotices(r)
               /\ issued' = issued \cup {<<c, cs>>, <<p, ps>>}

ProcessDeclareInterest(c, m) ==
    /\ m.kind = "Declare"
    /\ \/ DeclineUnprovided(c, m.service)
       \/ DeclineExhausted(c, m.service)
       \/ AcceptInterest(c, m.service)
    /\ UNCHANGED <<provider_index, arrivals, writers, conn_addresses,
                   watch_table, watcher_reverse, intent>>

(* The peer is told of the revocation, and the revoker gets an echo. *)
MutNoEcho(c, s, r) == {Send(PeerConn(r, c), Teardown(PeerSession(r, c)))}
RevokeNotices(c, s, r) ==
    {Send(PeerConn(r, c), Teardown(PeerSession(r, c))), Send(c, Teardown(s))}

(* Mutant: the revoked id is given back to the counter. *)
MutIdReturned(c, m) ==
    /\ m.kind = "Revoke"
    /\ LET r == routing_table[c][m.session]
       IN  /\ r # NoRoute
           /\ routing_table' =
                [routing_table EXCEPT
                   ![c][m.session] = NoRoute,
                   ![PeerConn(r, c)][PeerSession(r, c)] = NoRoute]
           /\ outbox' = RevokeNotices(c, m.session, r)
    /\ next_session' = [next_session EXCEPT ![c] = m.session]
    /\ UNCHANGED <<provider_index, arrivals, writers, conn_addresses,
                   watch_table, watcher_reverse, issued, intent>>

(* RevokeInterest: an unknown session is a no-op; a routed one loses both  *)
(* keys and both ends are told.                                            *)
ProcessRevokeInterest(c, m) ==
    /\ m.kind = "Revoke"
    /\ LET s == m.session
           r == routing_table[c][s]
       IN  \/ /\ r = NoRoute
              /\ UNCHANGED <<routing_table, outbox>>
           \/ /\ r # NoRoute
              /\ routing_table' =
                   [routing_table EXCEPT
                      ![c][s] = NoRoute,
                      ![PeerConn(r, c)][PeerSession(r, c)] = NoRoute]
              /\ outbox' = RevokeNotices(c, s, r)
    /\ UNCHANGED <<provider_index, arrivals, next_session, writers,
                   conn_addresses, watch_table, watcher_reverse, issued,
                   intent>>

MutUntranslated(c, m) ==
    /\ m.kind = "Service"
    /\ LET r == routing_table[c][m.session]
       IN  outbox' = IF r = NoRoute THEN {}
                     ELSE {Send(PeerConn(r, c), Service(m.session, m.via))}
    /\ UNCHANGED <<tables, issued, intent>>

(* process_service: forwarded to the other end, dropped when there is no   *)
(* route.                                                                  *)
ProcessService(c, m) ==
    /\ m.kind = "Service"
    /\ LET r == routing_table[c][m.session]
       IN  outbox' = IF r = NoRoute THEN {}
                     ELSE {Send(PeerConn(r, c),
                                Service(PeerSession(r, c), m.via))}
    /\ UNCHANGED <<tables, issued, intent>>

(* Watch of an unknown target registers nothing; without the immediate     *)
(* answer the watcher waits for ever.                                      *)
MutNoImmediateExit(c, t) == {}
UnknownTargetNotice(c, t) == {Send(c, Exited(t))}

(* Watch: both indexes, or an immediate PaneExited for an unknown target. *)
ProcessWatch(c, m) ==
    /\ m.kind = "Watch"
    /\ intent' = [intent EXCEPT ![c] = @ \cup {m.target}]
    /\ \/ /\ m.target \in conn_addresses
          /\ watch_table' = [watch_table EXCEPT ![m.target] = @ \cup {c}]
          /\ watcher_reverse' = [watcher_reverse EXCEPT ![c] = @ \cup {m.target}]
          /\ UNCHANGED outbox
       \/ /\ m.target \notin conn_addresses
          /\ outbox' = UnknownTargetNotice(c, m.target)
          /\ UNCHANGED <<watch_table, watcher_reverse>>
    /\ UNCHANGED <<provider_index, arrivals, routing_table, next_session,
                   writers, conn_addresses, issued>>

(* Unwatch: both indexes, nothing for an unknown target. *)
ProcessUnwatch(c, m) ==
    /\ m.kind = "Unwatch"
    /\ intent' = [intent EXCEPT ![c] = @ \ {m.target}]
    /\ \/ /\ m.target \in conn_addresses
          /\ watch_table' = [watch_table EXCEPT ![m.target] = @ \ {c}]
          /\ watcher_reverse' = [watcher_reverse EXCEPT ![c] = @ \ {m.target}]
       \/ /\ m.target \notin conn_addresses
          /\ UNCHANGED <<watch_table, watcher_reverse>>
    /\ UNCHANGED <<provider_index, arrivals, routing_table, next_session,
                   writers, conn_addresses, issued, outbox>>

(* Cancel, unknown and undecodable control messages change nothing. *)
ProcessIgnored(c, m) ==
    /\ m.kind = "Ignored"
    /\ UNCHANGED <<tables, outbox, issued, intent>>

ProcessFrame ==
    /\ TakeEvent("Frame")
    /\ LET c == Head(events).conn
           m == Head(events).msg
       IN  \/ ProcessDeclareInterest(c, m)
           \/ ProcessRevokeInterest(c, m)
           \/ ProcessService(c, m)
           \/ ProcessWatch(c, m)
           \/ ProcessUnwatch(c, m)
           \/ ProcessIgnored(c, m)
    /\ UNCHANGED <<closing, torn, gone>>

(* watcher_reverse after the watchers of c have been told. *)
MutReverseKept(c) == watcher_reverse
ReverseWithoutWatched(c) ==
    [w \in Conns |-> IF w \in watch_table[c] THEN watcher_reverse[w] \ {c}
                                              ELSE watcher_reverse[w]]

(* process_disconnect up to the PaneExited loop: the watchers of c are     *)
(* taken out of both indexes and told, while their writers are still here. *)
StartDisconnect(c) ==
    /\ closing' = c
    /\ watch_table' = [watch_table EXCEPT ![c] = {}]
    /\ IF c \in conn_addresses
         THEN /\ outbox' = {Send(w, Exited(c)) : w \in watch_table[c]}
              /\ watcher_reverse' = ReverseWithoutWatched(c)
         ELSE UNCHANGED <<outbox, watcher_reverse>>
    /\ UNCHANGED <<provider_index, arrivals, routing_table, next_session,
                   writers, conn_addresses, ghosts>>

(* remove_connection: the ends to notify, and the table without c's routes. *)
PeersToNotify(c) ==
    {<<PeerConn(routing_table[c][s], c), PeerSession(routing_table[c][s], c)>> :
        s \in {s \in Sessions : routing_table[c][s] # NoRoute}}

MutPeerKeyKept(c) ==
    [routing_table EXCEPT ![c] = [s \in Sessions |-> NoRoute]]
RoutesWithout(c) ==
    [d \in Conns |-> [s \in Sessions |->
        IF d = c \/ <<d, s>> \in PeersToNotify(c)
          THEN NoRoute ELSE routing_table[d][s]]]

MutStillProvides(c) == provider_index
ProvidersWithout(c) == [s \in Services |-> provider_index[s] \ {c}]

(* The watch table without the watches c held. *)
WatchesWithout(c) ==
    [d \in Conns |-> IF d \in watcher_reverse[c] THEN watch_table[d] \ {c}
                                                  ELSE watch_table[d]]

(* The rest of process_disconnect: the watches c held, its address,        *)
(* remove_connection, and a ServiceTeardown for every peer session.        *)
FinishDisconnect ==
    /\ closing # NoConn /\ outbox = {}
    /\ closing' = NoConn
    /\ watcher_reverse' = [watcher_reverse EXCEPT ![closing] = {}]
    /\ watch_table' = WatchesWithout(closing)
    /\ conn_addresses' = conn_addresses \ {closing}
    /\ provider_index' = ProvidersWithout(closing)
    /\ routing_table' = RoutesWithout(closing)
    /\ next_session' = [next_session EXCEPT ![closing] = 0]
    /\ writers' = writers \ {closing}
    /\ outbox' = {Send(p[1], Teardown(p[2])) : p \in PeersToNotify(closing)}
    /\ IF phase = "event"
         THEN gone' = gone \cup {closing} /\ UNCHANGED torn
         ELSE torn' = torn \cup {closing} /\ UNCHANGED gone
    /\ UNCHANGED <<arrivals, phase, draining, overflow_teardown, threads,
                   clients, issued, intent>>

ProcessDisconnect ==
    /\ TakeEvent("Disconnected")
    /\ StartDisconnect(Head(events).conn)

(* actor_loop after an event: drain overflow_teardown, if there is any. *)
EndEvent ==
    /\ phase = "event" /\ closing = NoConn /\ outbox = {}
    /\ draining' = overflow_teardown
    /\ overflow_teardown' = {}
    /\ phase' = IF overflow_teardown = {} THEN "idle" ELSE "drain"
    /\ UNCHANGED <<tables, closing, outbox, threads, clients, ghosts>>

DrainOne ==
    /\ phase = "drain" /\ closing = NoConn /\ outbox = {}
    /\ \E c \in draining :
          /\ draining' = draining \ {c}
          /\ StartDisconnect(c)
    /\ UNCHANGED <<phase, overflow_teardown, threads, clients>>

EndDrain ==
    /\ phase = "drain" /\ closing = NoConn /\ outbox = {} /\ draining = {}
    /\ phase' = "idle"
    /\ UNCHANGED <<tables, closing, draining, outbox, overflow_teardown,
                   threads, clients, ghosts>>

Actor ==
    \/ TryEnqueue \/ ProcessNewConnection \/ ProcessFrame
    \/ ProcessDisconnect \/ FinishDisconnect
    \/ EndEvent \/ DrainOne \/ EndDrain

Client(c) ==
    \/ ClientDeclare(c) \/ ClientRevoke(c) \/ ClientService(c)
    \/ ClientWatch(c) \/ ClientUnwatch(c) \/ ClientIgnored(c)
    \/ ClientVanish(c)

Next ==
    \/ Actor
    \/ \E c \in Conns :
          \/ \E p \in SUBSET Services : Accept(c, p)
          \/ Client(c) \/ ReaderExit(c) \/ WriterWrite(c) \/ WriterFail(c)

Spec == Init /\ [][Next]_vars

(* The actor and the reader threads run whenever they can: a reader whose  *)
(* client has gone meets end of file.  Nothing is assumed of the writer    *)
(* threads, which a client that does not read its socket may block.        *)
ReaderSeesEof(c) == c \notin up /\ ReaderExit(c)
FairSpec ==
    /\ Spec /\ WF_vars(Actor)
    /\ \A c \in Conns : WF_vars(ReaderSeesEof(c))

-----------------------------------------------------------------------------
(* The types of the variables, in the groups the handlers change together. *)
RegistryType ==
    /\ provider_index \in [Services -> SUBSET Conns]
    /\ arrivals \in Seq(Conns)
    /\ writers \in SUBSET Conns
RoutesType ==
    /\ routing_table \in [Conns -> [Sessions -> Route \cup {NoRoute}]]
    /\ next_session \in [Conns -> 0..SessionLimit]
    /\ issued \in SUBSET (Conns \X Sessions)
WatchType ==
    /\ conn_addresses \in SUBSET Conns
    /\ watch_table \in [Conns -> SUBSET Conns]
    /\ watcher_reverse \in [Conns -> SUBSET Conns]
IntentType == intent \in [Conns -> SUBSET Conns]
ControlType ==
    /\ overflow_teardown \in SUBSET Conns
    /\ phase \in {"idle", "event", "drain"}
    /\ closing \in Conns \cup {NoConn}
    /\ draining \in SUBSET Conns
    /\ torn \in SUBSET Conns /\ gone \in SUBSET Conns
OutboxType == outbox \in SUBSET [to : Conns, msg : ServerMsg]
EventsType ==
    /\ events \in Seq(Event)
    /\ reader \in [Conns -> {"none", "run", "done"}]
ChannelType ==
    /\ chan \in [Conns -> Seq(ServerMsg)]
    /\ writer \in [Conns -> {"none", "run", "dead"}]
ClientsType ==
    /\ up \in SUBSET Conns /\ sent \in 0..MaxFrames
    /\ learned \in [Conns -> SUBSET Route]
    /\ open \in [Conns -> SUBSET Sessions]

(* Type invariant of every table, channel and ghost. *)
TypeOK ==
    /\ RegistryType /\ RoutesType /\ WatchType /\ IntentType /\ ControlType
    /\ OutboxType /\ EventsType /\ ChannelType /\ ClientsType

(* Both directions of a route are stored, under distinct connections, and  *)
(* name each other: whatever interleaving of declarations, revocations and *)
(* teardowns, handle_declare_interest, RevokeInterest and                  *)
(* remove_connection never leave half a route behind.                      *)
RoutingSymmetric ==
    \A c \in Conns, s \in Sessions :
        LET r == routing_table[c][s]
        IN  r # NoRoute =>
              /\ r.consumer_conn # r.provider_conn
              /\ c \in {r.consumer_conn, r.provider_conn}
              /\ s = OwnSession(r, c)
              /\ routing_table[PeerConn(r, c)][PeerSession(r, c)] = r

(* A session in use is below its connection's counter, so alloc_session    *)
(* can never hand out an id that still routes, and the provider end of a   *)
(* route is always a registered connection (the consumer end may be one    *)
(* that was torn down for overflow and whose reader still runs).           *)
RouteEndsLive ==
    \A c \in Conns, s \in Sessions :
        routing_table[c][s] # NoRoute =>
            /\ s < next_session[c]
            /\ routing_table[c][s].provider_conn \in writers
            /\ c \in writers \cup torn

(* watch_table and watcher_reverse are the same relation read both ways,   *)
(* and only a pane that still has an address is watched: no watch can wait *)
(* for an exit that has already been announced.                            *)
WatchSymmetric ==
    \A t, w \in Conns :
        /\ w \in watch_table[t] <=> t \in watcher_reverse[w]
        /\ w \in watch_table[t] => t \in conn_addresses

(* No table mentions c. *)
Forgotten(c) ==
    /\ \A s \in Services : c \notin provider_index[s]
    /\ \A d \in Conns, s \in Sessions :
          routing_table[d][s] # NoRoute =>
              /\ d # c
              /\ c \notin {routing_table[d][s].consumer_conn,
                           routing_table[d][s].provider_conn}
    /\ next_session[c] = 0
    /\ c \notin writers \cup conn_addresses
    /\ watch_table[c] = {} /\ watcher_reverse[c] = {}
    /\ \A t \in Conns : c \notin watch_table[t] \cup watcher_reverse[t]

(* Once the Disconnected event of a connection is processed, no table      *)
(* mentions it again: not even when it was torn down for overflow before,  *)
(* kept sending frames that re-created state for it, or is marked for      *)
(* teardown once more afterwards.                                          *)
ClosedForgotten == \A c \in gone : Forgotten(c)

-----------------------------------------------------------------------------
(* What makes the invariants above inductive.                              *)

(* NewConnection(c) is still on its way to the actor. *)
Awaited(c) ==
    \E i \in DOMAIN events : /\ events[i].kind = "NewConnection"
                             /\ events[i].conn = c

Registered(c) == c \in writers \cup torn

(* Disconnected(c) has been taken off the channel. *)
Leaving(c) == c \in gone \/ (phase = "event" /\ closing = c)

(* A connection the actor has not heard of. *)
Unknown(c) ==
    /\ c \notin writers \cup torn \cup gone
    /\ c \notin overflow_teardown \cup draining \cup {closing}
    /\ \A s \in Services : c \notin provider_index[s]
    /\ \A s \in Sessions : routing_table[c][s] = NoRoute

(* Of the events of one connection NewConnection comes first and           *)
(* Disconnected last, and what the actor knows of the connection fits what *)
(* is still in the channel.                                                *)
QueueOrder ==
    /\ \A i, j \in DOMAIN events :
          i < j /\ events[i].conn = events[j].conn =>
              /\ events[i].kind # "Disconnected"
              /\ events[j].kind # "NewConnection"
    /\ \A i \in DOMAIN events :
          /\ reader[events[i].conn] # "none"
          /\ events[i].kind = "Disconnected" => reader[events[i].conn] = "done"
          /\ Awaited(events[i].conn) \/ Registered(events[i].conn)
          /\ ~Leaving(events[i].conn)
    /\ \A c \in Conns :
          /\ reader[c] = "none" \/ Awaited(c) => Unknown(c)
          /\ reader[c] = "run" => Awaited(c) \/ Registered(c)
          /\ Leaving(c) => reader[c] = "done"

(* Only registered connections provide; a connection being torn down has   *)
(* no watchers left, and the actor is busy with it.                        *)
TablesTidy ==
    /\ \A s \in Services : provider_index[s] \subseteq writers
    /\ closing # NoConn => phase # "idle" /\ watch_table[closing] = {}

IInv ==
    /\ TypeOK /\ RoutingSymmetric /\ RouteEndsLive /\ WatchSymmetric
    /\ QueueOrder /\ TablesTidy /\ ClosedForgotten

-----------------------------------------------------------------------------
(* The connections the server has given up on, or is about to: what they   *)
(* were to be told is covered by the loss of the connection.               *)
Failed(c) ==
    \/ c \in overflow_teardown \cup draining \cup torn \cup gone
    \/ c = closing
    \/ writer[c] = "dead"

(* The messages on their way to c. *)
InFlight(c) ==
    {m.msg : m \in {m \in outbox : m.to = c}}
    \cup {chan[c][i] : i \in DOMAIN chan[c]}

(* A client that asked to watch t and has neither withdrawn nor heard of   *)
(* t's exit is still in the watch table, or the PaneExited is on its way:  *)
(* there is no window between Watch and the death of t in which the        *)
(* notification is lost without the whole connection failing.              *)
WatchNeverLost ==
    \A c, t \in Conns :
        t \in intent[c] => \/ c \in watch_table[t]
                           \/ Exited(t) \in InFlight(c)
                           \/ Failed(c)

(* A session a client believes open is routed, or its ServiceTeardown is   *)
(* on the way: no request can be left waiting on a session the server has  *)
(* silently dropped.                                                       *)
NoPhantomSession ==
    \A c \in Conns : \A s \in open[c] :
        \/ routing_table[c][s] # NoRoute
        \/ Teardown(s) \in InFlight(c)
        \/ Failed(c)

(* Conversely both ends of a route have been, or are being, told of it. *)
RouteAnnounced ==
    \A c \in Conns, s \in Sessions :
        LET r == routing_table[c][s]
        IN  r # NoRoute => \/ r \in learned[c]
                           \/ Accepted(s, r) \in InFlight(c)
                           \/ Failed(c)

(* A service frame is forwarded over the route its sender knew the session *)
(* by, never over a later one that got the same number; senders torn down  *)
(* for overflow are excepted (see SessionIdsFresh).                        *)
NoCrossTalk ==
    \A c \in Conns : \A m \in InFlight(c) :
        m.kind = "Service" =>
            \/ /\ c \in {m.via.consumer_conn, m.via.provider_conn}
               /\ m.session = OwnSession(m.via, c)
            \/ m.via.consumer_conn \in torn
            \/ m.via.provider_conn \in torn

(* m is about session s. *)
Names(m, s) == m.kind \in {"Accepted", "Service", "Teardown"} /\ m.session = s

(* A client with the sessions o open holds s open once it has read what is *)
(* in q before place i.                                                    *)
HeldAt(q, o, s, i) ==
    /\ \/ s \in o
       \/ \E j \in DOMAIN q : j < i /\ q[j].kind = "Accepted" /\ q[j].session = s
    /\ \A j \in DOMAIN q : j < i => q[j] # Teardown(s)

(* Such a client can make sense of everything in q: an InterestAccepted    *)
(* opens a session it does not hold and has read nothing about, a service  *)
(* frame or ServiceTeardown is about a session it then holds open.         *)
WellOrdered(q, o) ==
    \A i \in DOMAIN q :
        /\ q[i].kind = "Accepted" =>
              /\ q[i].session \notin o
              /\ \A j \in DOMAIN q : j < i => ~Names(q[j], q[i].session)
        /\ q[i].kind \in {"Service", "Teardown"} => HeldAt(q, o, q[i].session, i)

(* What a client reads about a session, unless its connection is failing,  *)
(* is its InterestAccepted, then service frames, then one ServiceTeardown  *)
(* and nothing more: the sends of handle_declare_interest,                 *)
(* process_service, RevokeInterest and process_disconnect on behalf of two *)
(* connections reach the writer channel in that order.                     *)
SessionOrder ==
    \A c \in Conns : Failed(c) \/ WellOrdered(chan[c], open[c])

(* Once the actor is back in recv, every connection whose channel          *)
(* overflowed has been torn down.  This is what the comment on             *)
(* overflow_teardown says; overflows caused by the drain itself break it.  *)
OverflowDrained == phase = "idle" => overflow_teardown \cap writers = {}

(* A session id is issued to a connection once: alloc_session is past every *)
(* id it has returned, whatever was revoked or declined since.  A           *)
(* connection torn down for overflow is excepted: it keeps its reader, and  *)
(* its next DeclareInterest starts again at 1.                              *)
SessionIdsFresh ==
    \A c \in Conns \ (torn \cup gone), s \in Sessions :
        <<c, s>> \in issued => s < next_session[c]

(* The actor always gets back to recv, whether or not any client reads:    *)
(* try_enqueue never blocks on a slow connection.                          *)
ActorReturns == (phase # "idle") ~> (phase = "idle")

(* A connection whose client has gone is eventually removed everywhere. *)
VanishedForgotten ==
    \A c \in Conns : (reader[c] # "none" /\ c \notin up) ~> (c \in gone)

(* If the watched pane goes, a watcher that stays and reads its socket     *)
(* hears of it, unless the server gives up on the watcher first.           *)
WatchAnswered ==
    \A c, t \in Conns :
        WF_vars(WriterWrite(c)) =>
        ((t \in intent[c] /\ t \in gone)
            ~> (t \notin intent[c] \/ Failed(c) \/ c \notin up))
=============================================================================
