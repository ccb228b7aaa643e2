----------------------------- MODULE PaneClient -----------------------------
(***************************************************************************)
(* A pane and its connection from connect() to the end of its threads:     *)
(* PaneBuilder opens services and buffers what arrives meanwhile           *)
(* (builder.rs), the looper dispatches requests through ServiceDispatch    *)
(* (service_dispatch.rs), ReplyPorts answer them (obligation.rs) and       *)
(* ServiceHandles revoke on Drop (service_handle.rs), over the reader, the *)
(* writer and the forwarding thread (bridge.rs, looper.rs).                *)
(*                                                                         *)
(* Abstractions.  The batch of the looper is here the choice of the        *)
(* message it takes: requests, of phase 5, may be overtaken by the others, *)
(* of the phases before; module Looper has the phases.  Notifications,     *)
(* replies and the requests the pane sends are left out (Looper has them). *)
(* The looper skips a request on a session of revoked_sessions; only a     *)
(* LocalRevoke fills that set, and rx, the channel of the reader thread,   *)
(* carries none (Looper has the skip, SkipStale).  What a callback returns *)
(* is nondeterministic.                                                    *)
(*                                                                         *)
(* The server and the peers are the environment: module ProtocolServer     *)
(* without its tables.                                                     *)
(***************************************************************************)
EXTENDS Naturals, Sequences, Functions, FiniteSets

CONSTANTS
    Services,       \* the services the pane may open
    Requesting,     \* those opened with open_service_with_requests
    Provided,       \* the services it serves
    OneSocket,      \* both halves of the transport are one socket
    WriteCapacity,  \* WRITE_CHANNEL_CAPACITY
    MaxArrivals,    \* bound: messages the server sends of itself
    NoService

ASSUME PaneAssumption ==
    /\ Requesting \subseteq Services /\ Provided \subseteq Services
    /\ OneSocket \in BOOLEAN
    /\ WriteCapacity \in Nat \ {0} /\ MaxArrivals \in Nat
    /\ NoService \notin Services

VARIABLES
    phase,              \* setup, waiting, drain, running, stopping, stopped
    opening,            \* the service open_service_inner waits for
    registered,         \* registered_services
    receivers,          \* ServiceDispatch.receivers
    request_receivers,  \* ServiceDispatch.request_receivers
    buffered,           \* buffered_messages
    handles,            \* ServiceHandles that have not been dropped
    ports,              \* ReplyPorts that have not been consumed
    rx,                 \* what the reader has sent and nobody has taken
    rx_open,            \* the receiver of rx exists
    forwarder,          \* the forwarding thread has been spawned
    reader, writer,     \* the threads: run, done
    wq,                 \* the write channel
    clones,             \* a Messenger or a CancelHandle is kept somewhere
    net,                \* bytes of the server on their way to the reader
    server_open,        \* the server has not closed the connection
    pending,            \* services declared and not answered
    granted,            \* the sessions the server has issued, in order
    routes,             \* those it has a route for
    first,              \* provided services of which the pane is first provider
    requests,           \* ghost: the sessions of the requests, in order
    handled,            \* ghost: requests dispatched, in order
    refused,            \* ghost: those without receiver
    answered,           \* ghost: the answers the server got
    lost,               \* ghost: the frames try_send has refused
    arrivals            \* bound

setup == <<opening, registered, receivers, request_receivers, buffered>>
inbox == <<rx, rx_open, forwarder, reader, net>>
outbox == <<wq, writer, clones>>
server == <<server_open, pending, granted, routes, first, requests, arrivals>>
ghosts == <<handled, refused, answered, lost>>
vars == <<phase, setup, handles, ports, inbox, outbox, server, ghosts>>

Accepted(s, n) == [kind |-> "Accepted", service |-> s, session |-> n]
Declined(s) == [kind |-> "Declined", service |-> s]
Teardown(n) == [kind |-> "Teardown", session |-> n]
Lifecycle == [kind |-> "Lifecycle"]
Request(r) == [kind |-> "Request", id |-> r]

Declare(s) == [kind |-> "Declare", service |-> s]
Revoke(n) == [kind |-> "Revoke", session |-> n]
Answer(r) == [kind |-> "Answer", id |-> r]

(* Who owns a handle or a port: the handler, dropped with the looper, or   *)
(* another thread it was moved to.                                         *)
Owners == {"handler", "thread"}

Init ==
    /\ phase = "setup" /\ opening = NoService
    /\ registered = {} /\ receivers = {} /\ request_receivers = {}
    /\ buffered = <<>> /\ handles = {} /\ ports = {}
    /\ rx = <<>> /\ rx_open = TRUE /\ forwarder = FALSE
    /\ reader = "run" /\ writer = "run"
    /\ wq = <<>> /\ clones = FALSE /\ net = <<>>
    /\ server_open = TRUE /\ pending = {} /\ granted = <<>> /\ routes = {}
    /\ first \in SUBSET Provided
    /\ requests = <<>> /\ handled = <<>> /\ refused = {}
    /\ answered = <<>> /\ lost = {} /\ arrivals = 0

-----------------------------------------------------------------------------
(* The write channel *)

MutNoCapacity == writer = "run"
Room == writer = "run" /\ Len(wq) < WriteCapacity

(* try_send: a frame that finds no room is dropped. *)
TrySend(f) ==
    IF Room THEN wq' = Append(wq, f) /\ UNCHANGED lost
    ELSE lost' = lost \cup {f} /\ UNCHANGED wq

-----------------------------------------------------------------------------
(* PaneBuilder *)

(* open_service_inner up to its loop; the send blocks while the channel is *)
(* full.                                                                   *)
Open(s) ==
    /\ phase = "setup" /\ s \notin registered
    /\ registered' = registered \cup {s}
    /\ \/ /\ Room
          /\ wq' = Append(wq, Declare(s))
          /\ phase' = "waiting" /\ opening' = s
       \/ /\ writer = "done"
          /\ UNCHANGED <<wq, phase, opening>>
    /\ UNCHANGED <<receivers, request_receivers, buffered, handles, ports,
                   inbox, writer, clones, server, ghosts>>

MutAnyAccepted(m) == m.kind \in {"Accepted", "Declined"}
MutDeclinedIgnored(m) == m.kind = "Accepted" /\ m.service = opening
IsAnswer(m) ==
    /\ m.kind \in {"Accepted", "Declined"}
    /\ m.service = opening

MutNoRequestReceiver(n) ==
    /\ receivers' = receivers \cup {n} /\ UNCHANGED request_receivers
    /\ handles' = handles \cup
                    {[service |-> opening, session |-> n, owner |-> "handler"]}

(* open_service and open_service_with_requests, once accepted. *)
Register(n) ==
    /\ receivers' = receivers \cup {n}
    /\ request_receivers' = request_receivers \cup
                                (IF opening \in Requesting THEN {n} ELSE {})
    /\ \E o \in Owners :
          handles' = handles \cup
                        {[service |-> opening, session |-> n, owner |-> o]}

Opened ==
    /\ phase = "waiting" /\ rx # <<>> /\ IsAnswer(Head(rx))
    /\ LET m == Head(rx)
       IN  IF m.kind = "Accepted" THEN Register(m.session)
           ELSE UNCHANGED <<receivers, request_receivers, handles>>
    /\ rx' = Tail(rx)
    /\ phase' = "setup" /\ opening' = NoService
    /\ UNCHANGED <<registered, buffered, ports, rx_open, forwarder, reader, net, outbox,
                   server, ghosts>>

MutBufferFront ==
    /\ phase = "waiting" /\ rx # <<>> /\ ~IsAnswer(Head(rx))
    /\ buffered' = <<Head(rx)>> \o buffered
    /\ rx' = Tail(rx)
    /\ UNCHANGED <<phase, opening, registered, receivers, request_receivers,
                   handles, ports, rx_open, forwarder, reader, net, outbox,
                   server, ghosts>>

Buffer ==
    /\ phase = "waiting" /\ rx # <<>> /\ ~IsAnswer(Head(rx))
    /\ buffered' = Append(buffered, Head(rx))
    /\ rx' = Tail(rx)
    /\ UNCHANGED <<phase, opening, registered, receivers, request_receivers,
                   handles, ports, rx_open, forwarder, reader, net, outbox, server,
                   ghosts>>

OpenFails ==
    /\ phase = "waiting" /\ rx = <<>> /\ reader = "done"
    /\ phase' = "setup" /\ opening' = NoService
    /\ UNCHANGED <<registered, receivers, request_receivers, buffered, handles,
                   ports, inbox, outbox, server, ghosts>>

RunWith ==
    /\ phase = "setup" /\ phase' = "drain"
    /\ UNCHANGED <<setup, handles, ports, inbox, outbox, server, ghosts>>

-----------------------------------------------------------------------------
(* Dispatch *)

(* A callback has returned: on Stop, and on a panic, the looper ends. *)
Resume == phase' \in {phase, "stopping"}

(* dispatch_request.  A registered receiver answers Failed to a payload it *)
(* cannot decode; otherwise the handler answers, drops the port, or keeps  *)
(* it.  A panic drops the port as well.                                    *)
DispatchRequest(r) ==
    /\ handled' = Append(handled, r)
    /\ \/ /\ requests[r] \notin request_receivers
          /\ TrySend(Answer(r))
          /\ refused' = refused \cup {r}
          /\ UNCHANGED <<phase, ports>>
       \/ /\ requests[r] \in request_receivers
          /\ Resume
          /\ \/ TrySend(Answer(r)) /\ UNCHANGED ports
             \/ /\ \E o \in Owners : ports' = ports \cup {[id |-> r, owner |-> o]}
                /\ UNCHANGED <<wq, lost>>
          /\ UNCHANGED refused
    /\ UNCHANGED answered

Callback ==
    Resume /\ UNCHANGED <<ports, wq, ghosts>>

(* run_with takes a buffered message: a control message that is not a      *)
(* lifecycle message is skipped.                                           *)
Drain ==
    /\ phase = "drain" /\ buffered # <<>>
    /\ LET m == Head(buffered)
       IN  \/ m.kind = "Request" /\ DispatchRequest(m.id)
           \/ m.kind = "Lifecycle" /\ Callback
           \/ /\ m.kind \in {"Accepted", "Declined", "Teardown"}
              /\ UNCHANGED <<phase, ports, wq, ghosts>>
    /\ buffered' = Tail(buffered)
    /\ UNCHANGED <<opening, registered, receivers, request_receivers, handles,
                   inbox, writer, clones, server>>

StartLooper ==
    /\ phase = "drain" /\ buffered = <<>>
    /\ phase' = "running" /\ forwarder' = TRUE
    /\ UNCHANGED <<setup, handles, ports, rx, rx_open, reader, net, outbox,
                   server, ghosts>>

(* The looper takes a message of its batch. *)
MayTake(i) ==
    \/ i = 1
    \/ /\ rx[i].kind # "Request"
       /\ \A j \in 1..(i - 1) : rx[j].kind = "Request"

(* The queue q when its i-th element has been taken out. *)
Without(q, i) == SubSeq(q, 1, i - 1) \o SubSeq(q, i + 1, Len(q))

Take ==
    /\ phase = "running"
    /\ \E i \in DOMAIN rx :
          /\ MayTake(i)
          /\ IF rx[i].kind = "Request" THEN DispatchRequest(rx[i].id)
             ELSE Callback
          /\ rx' = Without(rx, i)
    /\ UNCHANGED <<setup, handles, rx_open, forwarder, reader, net, writer, clones,
                   server>>

(* connection_lost: the end of the stream, after all that came before. *)
ConnectionLost ==
    /\ phase = "running" /\ rx = <<>> /\ reader = "done"
    /\ phase' = "stopping"
    /\ UNCHANGED <<setup, handles, ports, inbox, outbox, server, ghosts>>

MutReplyThenDrop ==
    /\ \E p \in ports :
          /\ p.owner = "handler" => phase \in {"drain", "running", "stopping"}
          /\ TrySend(Answer(p.id))
          /\ ports' \in {ports, ports \ {p}}
    /\ UNCHANGED <<phase, setup, handles, inbox, writer, clones, server, handled,
                   refused, answered>>

(* A ReplyPort is consumed by reply() or by its Drop, and a ServiceHandle  *)
(* by its Drop, wherever they are.                                         *)
AnswerPort ==
    /\ \E p \in ports :
          /\ p.owner = "handler" => phase \in {"drain", "running", "stopping"}
          /\ TrySend(Answer(p.id))
          /\ ports' = ports \ {p}
    /\ UNCHANGED <<phase, setup, handles, inbox, writer, clones, server, handled,
                   refused, answered>>

DropHandle ==
    /\ \E h \in handles :
          /\ h.owner = "handler" => phase # "waiting"
          /\ TrySend(Revoke(h.session))
          /\ handles' = handles \ {h}
    /\ UNCHANGED <<phase, setup, ports, inbox, writer, clones, server, handled,
                   refused, answered>>

(* A callback keeps its Messenger, or the CancelHandle of a request it has *)
(* sent, here or in another thread, until the last of them is dropped.     *)
KeepSender ==
    /\ phase \in {"drain", "running", "stopping"} /\ ~clones
    /\ clones' = TRUE
    /\ UNCHANGED <<phase, setup, handles, ports, inbox, wq, writer, server, ghosts>>

DropSender ==
    /\ clones /\ clones' = FALSE
    /\ UNCHANGED <<phase, setup, handles, ports, inbox, wq, writer, server, ghosts>>

(* The looper and the handler are gone.  An exit in run_with drops the     *)
(* receiver with them; the forwarding thread, once there is one, keeps it, *)
(* with what it had not yet forwarded.                                     *)
Owned(S) == {x \in S : x.owner = "handler"}
Stopped ==
    /\ phase = "stopping" /\ Owned(ports) = {} /\ Owned(handles) = {}
    /\ phase' = "stopped"
    /\ rx_open' = forwarder
    /\ \E k \in 0..Len(rx) : rx' = SubSeq(rx, k + 1, Len(rx))
    /\ forwarder \/ rx' = <<>>
    /\ UNCHANGED <<setup, handles, ports, forwarder, reader, net, outbox, server, ghosts>>

-----------------------------------------------------------------------------
(* The threads of the connection *)

(* reader_loop: a frame for a receiver that is gone ends it. *)
ReaderReads ==
    /\ reader = "run" /\ net # <<>>
    /\ net' = Tail(net)
    /\ IF rx_open THEN rx' = Append(rx, Head(net)) /\ UNCHANGED reader
       ELSE reader' = "done" /\ UNCHANGED rx
    /\ UNCHANGED <<phase, setup, handles, ports, rx_open, forwarder, outbox, server,
                   ghosts>>

ReaderEof ==
    /\ reader = "run" /\ net = <<>> /\ ~server_open
    /\ reader' = "done"
    /\ UNCHANGED <<phase, setup, handles, ports, rx, rx_open, forwarder, net, outbox,
                   server, ghosts>>

(* The forwarding thread finds the looper gone when it has a message. *)
ForwarderEnds ==
    /\ phase = "stopped" /\ rx_open
    /\ rx # <<>> \/ reader = "done"
    /\ rx' = <<>> /\ rx_open' = FALSE
    /\ UNCHANGED <<phase, setup, handles, ports, forwarder, reader, net, outbox, server,
                   ghosts>>

(* writer_loop writes a frame, which the server then has. *)
Processed(f) ==
    CASE f.kind = "Declare" ->
           /\ pending' = pending \cup {f.service}
           /\ UNCHANGED <<net, routes, answered>>
      [] f.kind = "Revoke" ->
           /\ routes' = routes \ {f.session}
           /\ net' = IF f.session \in routes THEN Append(net, Teardown(f.session))
                     ELSE net
           /\ UNCHANGED <<pending, answered>>
      [] f.kind = "Answer" ->
           /\ answered' = Append(answered, f.id)
           /\ UNCHANGED <<net, pending, routes>>

WriterWrites ==
    /\ writer = "run" /\ wq # <<>> /\ server_open
    /\ Processed(Head(wq))
    /\ wq' = Tail(wq)
    /\ UNCHANGED <<phase, setup, handles, ports, rx, rx_open, forwarder, reader, writer,
                   clones, server_open, granted, first, requests, arrivals, handled,
                   refused, lost>>

(* A write fails, or all the senders are gone and the channel is empty. *)
MutSenderLeaks == TRUE
Senders == phase # "stopped" \/ handles # {} \/ ports # {} \/ clones
MutLeavesQueue == ~Senders \/ (~server_open /\ wq # <<>>)
WriterDone == IF server_open THEN wq = <<>> /\ ~Senders ELSE wq # <<>> \/ ~Senders
WriterEnds ==
    /\ writer = "run" /\ WriterDone
    /\ writer' = "done" /\ wq' = <<>>
    /\ UNCHANGED <<phase, setup, handles, ports, inbox, clones, server, ghosts>>

-----------------------------------------------------------------------------
(* The server and the peers *)

Post(m) == net' = Append(net, m)

Issue(s, side) ==
    /\ granted' = Append(granted, [service |-> s, side |-> side])
    /\ routes' = routes \cup {Len(granted) + 1}
    /\ Post(Accepted(s, Len(granted) + 1))

(* handle_declare_interest: the first provider is asked, and that is not   *)
(* the consumer itself.                                                    *)
ServerAnswers ==
    /\ server_open
    /\ \E s \in pending :
          /\ pending' = pending \ {s}
          /\ \/ s \notin first /\ Issue(s, "consumer")
             \/ Post(Declined(s)) /\ UNCHANGED <<granted, routes>>
    /\ UNCHANGED <<phase, setup, handles, ports, rx, rx_open, forwarder, reader, outbox,
                   server_open, first, requests, arrivals, ghosts>>

(* What the server sends of itself: a subscriber, a teardown, a lifecycle  *)
(* message, the request of a peer.                                         *)
Arrival ==
    /\ server_open /\ arrivals < MaxArrivals
    /\ arrivals' = arrivals + 1
    /\ \/ /\ \E s \in first : Issue(s, "provider")
          /\ UNCHANGED requests
       \/ /\ \E n \in routes : routes' = routes \ {n} /\ Post(Teardown(n))
          /\ UNCHANGED <<granted, requests>>
       \/ /\ Post(Lifecycle)
          /\ UNCHANGED <<granted, routes, requests>>
       \/ /\ \E n \in routes : requests' = Append(requests, n)
          /\ Post(Request(Len(requests) + 1))
          /\ UNCHANGED <<granted, routes>>
    /\ UNCHANGED <<phase, setup, handles, ports, rx, rx_open, forwarder, reader, outbox,
                   server_open, pending, first, ghosts>>

(* remove_connection takes the first provider of a service away, and the   *)
(* pane is the next one in the list: the session the pane had with the     *)
(* other is torn down, and from now on the pane is asked.                  *)
Promoted ==
    /\ server_open
    /\ \E s \in Provided \ first :
          /\ first' = first \cup {s}
          /\ LET own == {n \in routes : granted[n] = [service |-> s, side |-> "consumer"]}
             IN  /\ routes' = routes \ own
                 /\ \/ own = {} /\ UNCHANGED net
                    \/ \E n \in own : Post(Teardown(n))
    /\ UNCHANGED <<phase, setup, handles, ports, rx, rx_open, forwarder, reader, outbox,
                   server_open, pending, granted, requests, arrivals, ghosts>>

(* The server tears the connection down: of itself, or at the end of the   *)
(* stream, when no descriptor of the pane's socket is left.                *)
Eof == writer = "done" /\ (OneSocket => reader = "done")
ServerCloses ==
    /\ server_open /\ server_open' = FALSE
    /\ pending' = {} /\ routes' = {}
    /\ UNCHANGED <<phase, setup, handles, ports, inbox, outbox, granted, first,
                   requests, arrivals, ghosts>>
ServerNotices == Eof /\ ServerCloses

-----------------------------------------------------------------------------
Builder == Opened \/ Buffer \/ OpenFails
Looper == Drain \/ StartLooper \/ Take \/ ConnectionLost \/ Stopped
Dropping == phase = "stopping" /\ (AnswerPort \/ DropHandle)
Reader == ReaderReads \/ ReaderEof
Writer == WriterWrites \/ WriterEnds

Next ==
    \/ \E s \in Services : Open(s)
    \/ RunWith \/ Builder \/ Looper
    \/ AnswerPort \/ DropHandle \/ KeepSender \/ DropSender
    \/ Reader \/ ForwarderEnds \/ Writer
    \/ ServerAnswers \/ Arrival \/ Promoted \/ ServerCloses

Spec == Init /\ [][Next]_vars

(* The threads run, and the server answers what it is asked and notices    *)
(* the end of a stream.  Nothing is assumed of the application: it may     *)
(* keep a port or a handle for ever, never call run_with, and the server   *)
(* may never send anything of itself.                                      *)
FairSpec ==
    /\ Spec
    /\ WF_vars(Builder) /\ WF_vars(Looper) /\ WF_vars(Dropping)
    /\ WF_vars(Reader) /\ WF_vars(ForwarderEnds) /\ WF_vars(Writer)
    /\ WF_vars(ServerAnswers) /\ WF_vars(ServerNotices)

-----------------------------------------------------------------------------
(* Properties *)

Ids == 1..Len(requests)
Sessions == 1..Len(granted)
Incoming ==
    [kind : {"Accepted"}, service : Services, session : Sessions]
        \cup [kind : {"Declined"}, service : Services]
        \cup [kind : {"Teardown"}, session : Sessions]
        \cup {Lifecycle} \cup [kind : {"Request"}, id : Ids]
Outgoing ==
    [kind : {"Declare"}, service : Services]
        \cup [kind : {"Revoke"}, session : Sessions]
        \cup [kind : {"Answer"}, id : Ids]

(* The variables have their types. *)
TypeOK ==
    /\ phase \in {"setup", "waiting", "drain", "running", "stopping", "stopped"}
    /\ opening \in (IF phase = "waiting" THEN registered ELSE {NoService})
    /\ registered \subseteq Services
    /\ request_receivers \subseteq receivers /\ receivers \subseteq Sessions
    /\ buffered \in Seq(Incoming) /\ rx \in Seq(Incoming) /\ net \in Seq(Incoming)
    /\ handles \subseteq [service : Services, session : Sessions, owner : Owners]
    /\ ports \subseteq [id : Ids, owner : Owners]
    /\ rx_open \in BOOLEAN /\ forwarder \in BOOLEAN /\ clones \in BOOLEAN
    /\ {reader, writer} \subseteq {"run", "done"}
    /\ wq \in Seq(Outgoing) /\ Len(wq) <= WriteCapacity
    /\ server_open \in BOOLEAN /\ pending \subseteq Services
    /\ granted \in Seq([service : Services, side : {"consumer", "provider"}])
    /\ routes \subseteq Sessions /\ first \subseteq Provided
    /\ requests \in Seq(Sessions) /\ handled \in Seq(Ids)
    /\ refused \subseteq Ids /\ answered \in Seq(Ids) /\ lost \subseteq Outgoing
    /\ arrivals \in 0..MaxArrivals

Count(q, m) == Cardinality({i \in DOMAIN q : q[i] = m})
Places(r) ==
    Count(net, Request(r)) + Count(rx, Request(r)) + Count(buffered, Request(r))
        + Cardinality({p \in ports : p.id = r}) + Count(wq, Answer(r))
        + Count(answered, r) + Cardinality(lost \cap {Answer(r)})

(* Each request a peer sends is in exactly one place from the socket to    *)
(* its answer: unread, buffered by open_service, held by one ReplyPort, in *)
(* the write channel, answered on the wire, or its answer is one of the    *)
(* frames that try_send has refused.  So it is answered at most once,      *)
(* whatever drops the port; and what keeps it from being answered is one   *)
(* of three things only: try_send found no room for the answer, the looper *)
(* has stopped, or the writer thread has ended.                            *)
RequestAccounted ==
    \A r \in Ids :
        /\ Places(r) <= 1
        /\ Places(r) = 0 => phase \in {"stopping", "stopped"} \/ writer = "done"

(* "Total: every Request produces exactly one Reply or Failed on the       *)
(* wire." (service_dispatch.rs): a request that has been dispatched has    *)
(* its ReplyPort, or its answer is in the write channel or on the wire, as *)
(* long as there is a writer thread.                                       *)
RequestAnswered ==
    \A r \in Range(handled) :
        \/ \E p \in ports : p.id = r
        \/ Answer(r) \in Range(wq) \/ r \in Range(answered)
        \/ writer = "done"

(* "open_service blocks until InterestAccepted/Declined.  ServiceHandle    *)
(* represents a confirmed binding." (docs/architecture.md): the session of *)
(* a handle is one the server has issued in answer to a DeclareInterest of *)
(* the pane.                                                               *)
HandleConfirmed ==
    \A h \in handles : granted[h.session].side = "consumer"

(* open_service matches InterestAccepted by the service only, and a pane   *)
(* is sent the same message for a subscriber of a service it provides.     *)
(* Yet a handle takes the session of a subscriber only when the server     *)
(* issues the pane no session of its own for that service, also when the   *)
(* pane becomes its first provider between its own DeclareInterest and the *)
(* answer being taken: otherwise the pane would never learn of its own     *)
(* session.  And no two handles share a session.                           *)
OwnSession ==
    /\ \A h \in handles, n \in Sessions :
          /\ granted[h.session].service = h.service
          /\ granted[h.session].side = "provider" =>
                granted[n] # [service |-> h.service, side |-> "consumer"]
    /\ \A g, h \in handles : g.session = h.session => g = h

(* A request on a session that was opened with open_service_with_requests  *)
(* is never refused for want of a receiver, also when it arrived while     *)
(* another service was being opened: the receivers are registered before   *)
(* anything of the session is dispatched.                                  *)
ReceiverKnown ==
    \A r \in refused :
        LET g == granted[requests[r]]
        IN  g.service \in Requesting => g.side = "provider"

(* The handler gets the requests in the order the server sent them: those  *)
(* that open_service buffered come before all that arrived later.          *)
RequestsInOrder ==
    \A i, j \in DOMAIN handled : i < j => handled[i] < handled[j]

(* open_service returns, if the server answers or closes the connection:   *)
(* no message that arrives in the meantime keeps it waiting.               *)
OpenReturns == phase = "waiting" ~> phase # "waiting"

(* The server forgets each session whose ServiceHandle has been dropped,   *)
(* unless the RevokeInterest found the write channel full or still is in   *)
(* it: the writer thread drains the channel before it ends, also after the *)
(* pane has stopped.                                                       *)
RevokeAccounted ==
    \A n \in receivers \cap routes :
        \/ \E h \in handles : h.session = n
        \/ Revoke(n) \in Range(wq) \cup lost

Gone == phase = "stopped" /\ ports = {} /\ handles = {} /\ ~clones

(* When a pane has ended and nothing holds a sender, the server notices,   *)
(* except that the reader thread may be waiting for a frame that does not  *)
(* come.                                                                   *)
ExitNoticedOrReading ==
    Gone ~> (~server_open \/ (OneSocket /\ reader = "run" /\ net = <<>>))

(* "Close the write channel so the bridge writer thread exits, which       *)
(* closes the transport, letting the server detect disconnect."            *)
(* (pane-hello/src/main.rs)                                                *)
ExitNoticed == Gone ~> ~server_open
=============================================================================
