---------------------------- MODULE PaneReceivers ---------------------------
(***************************************************************************)
(* Proofs about the sessions a pane opens: where a DeclareInterest and its *)
(* answer are, that a handle has the session the server issued in answer,  *)
(* if it issued one, and that a receiver is known for every request on a   *)
(* session that was opened for requests.                                   *)
(***************************************************************************)
EXTENDS PaneProofs

(* Where a queue has frames of a kind about a service. *)
Of(q, kind, s) == {i \in DOMAIN q : q[i].kind = kind /\ q[i].service = s}
AtMost(S) == \A x, y \in S : x = y

Declaring(s) == Of(wq, "Declare", s)
Asking(s) == Declaring(s) # {} \/ s \in pending
Refusing(s) == Of(net, "Declined", s) \cup Of(rx, "Declined", s)
Own(s) == {n \in Sessions : granted[n].service = s}
Awaits(s) == phase = "waiting" /\ opening = s

(* The InterestAccepted of a queue have the numbers of their sessions in   *)
(* ascending order, and those of rx come before those on the wire.         *)
Rising(q) == \A i, j \in Grants(q) : i < j => q[i].session < q[j].session
Ahead(A, B) == \A a \in A, b \in B : a < b
GrantOrder == Rising(rx) /\ Rising(net) /\ Ahead(Offered(rx), Offered(net))

(* A service has one DeclareInterest at most, in the write channel or at   *)
(* the server.  Until it is answered, there is no session of the service   *)
(* and the builder waits, unless the pane is the first provider.           *)
DeclareOf(s) ==
    /\ AtMost(Declaring(s))
    /\ Declaring(s) # {} => s \notin pending
    /\ s \notin registered =>
          ~Asking(s) /\ Refusing(s) = {} /\ (s \notin first => Own(s) = {})
    /\ Asking(s) => Refusing(s) = {}
    /\ s \notin first /\ Asking(s) => Own(s) = {} /\ (server_open => Awaits(s))

DeclareInv == \A s \in Services : DeclareOf(s)

(* The session n that the server issued to the pane in answer to its       *)
(* DeclareInterest is the first one of the service s.  While the builder   *)
(* waits, the offer of it is on its way; then it has its receiver, and all *)
(* handles of the service are on it.                                       *)
SessionOf(n, s) ==
    /\ s \in registered /\ ~Asking(s) /\ Refusing(s) = {}
    /\ \A k \in Own(s) : n =< k
    /\ Awaits(s) => n \in Offered(rx) \cup Offered(net)
    /\ ~Awaits(s) /\ phase # "stopped" /\ s \in Requesting => n \in request_receivers
    /\ \A h \in handles : h.service = s => h.session = n

Issues(n, s) == granted[n].service = s /\ granted[n].side = "consumer"
SessionInv == \A n \in Sessions, s \in Services : Issues(n, s) => SessionOf(n, s)

(* A thread that has ended leaves nothing behind. *)
ThreadInv ==
    /\ reader = "done" => phase = "stopped" \/ (net = <<>> /\ ~server_open)
    /\ ~server_open => pending = {}
    /\ ~rx_open => phase = "stopped"

-----------------------------------------------------------------------------
(* Queues *)

(* What remains of a queue. *)
LEMMA OfPart ==
    ASSUME NEW p, NEW q, NEW K, NEW s, Part(p, q)
    PROVE  /\ Of(q, K, s) = {} => Of(p, K, s) = {}
           /\ AtMost(Of(q, K, s)) => AtMost(Of(p, K, s))
<1>1. PICK f \in [DOMAIN p -> DOMAIN q] :
          /\ \A i \in DOMAIN p : p[i] = q[f[i]]
          /\ \A i, j \in DOMAIN p : f[i] = f[j] => i = j
    BY Zenon DEF Part
<1>2. \A i \in Of(p, K, s) : f[i] \in Of(q, K, s) /\ i \in DOMAIN p
    BY <1>1, Zenon DEF Of
<1> QED
    BY <1>1, <1>2, Zenon DEF AtMost

(* A queue with a frame added. *)
LEMMA OfAppend ==
    ASSUME NEW S, NEW q \in Seq(S), NEW m \in S, NEW K, NEW s
    PROVE  /\ ~(m.kind = K /\ m.service = s) => Of(Append(q, m), K, s) = Of(q, K, s)
           /\ Of(q, K, s) = {} => AtMost(Of(Append(q, m), K, s))
<1> DEFINE p == Append(q, m)
           n == Len(q) + 1
<1>1. /\ DOMAIN p = 1..n /\ p[n] = m /\ DOMAIN q = 1..Len(q)
      /\ \A i \in 1..Len(q) : p[i] = q[i]
      /\ 1..n = 1..Len(q) \cup {n}
    OBVIOUS
<1> HIDE DEF p, n
<1>2. ~(m.kind = K /\ m.service = s) => Of(p, K, s) = Of(q, K, s)
    BY <1>1, Zenon DEF Of
<1>3. Of(q, K, s) = {} => \A i \in Of(p, K, s) : i = n
    BY <1>1, Zenon DEF Of
<1> QED
    BY <1>2, <1>3, Zenon DEF AtMost, p

(* A queue without the only frame of its kind about a service. *)
LEMMA OfTail ==
    ASSUME NEW S, NEW q \in Seq(S), q # <<>>, NEW K, NEW s,
           Head(q).kind = K, Head(q).service = s
    PROVE  /\ Of(q, K, s) # {}
           /\ AtMost(Of(q, K, s)) => Of(Tail(q), K, s) = {}
<1>1. /\ DOMAIN Tail(q) = 1..(Len(q) - 1) /\ Len(q) \in Nat /\ DOMAIN q = 1..Len(q)
      /\ \A i \in 1..(Len(q) - 1) : Tail(q)[i] = q[i + 1]
      /\ Head(q) = q[1] /\ 1 \in 1..Len(q)
    OBVIOUS
<1>2. \A i \in Of(Tail(q), K, s) : i + 1 \in Of(q, K, s) /\ i + 1 # 1
    BY <1>1 DEF Of
<1>3. 1 \in Of(q, K, s)
    BY <1>1, Zenon DEF Of
<1> QED
    BY <1>2, <1>3, Zenon DEF AtMost

(* What remains of a queue keeps the order of the offers. *)
LEMMA RisingPart ==
    ASSUME NEW p, NEW q, Part(p, q), Rising(q)
    PROVE  Rising(p)
<1>1. PICK f \in [DOMAIN p -> DOMAIN q] :
          /\ \A i \in DOMAIN p : p[i] = q[f[i]]
          /\ \A i, j \in DOMAIN p : i < j => f[i] < f[j]
    BY Zenon DEF Part
<1>2. \A i \in Grants(p) : f[i] \in Grants(q) /\ p[i] = q[f[i]] /\ i \in DOMAIN p
    BY <1>1, Zenon DEF Grants
<1> QED
    BY <1>1, <1>2, Zenon DEF Rising

(* An offer of a higher number, or another message, at the end of a queue. *)
LEMMA RisingAppend ==
    ASSUME NEW S, NEW q \in Seq(S), NEW m \in S, Rising(q),
           m.kind = "Accepted" => \A a \in Offered(q) : a < m.session
    PROVE  Rising(Append(q, m))
<1> DEFINE p == Append(q, m)
           n == Len(q) + 1
<1>1. /\ DOMAIN p = 1..n /\ p[n] = m /\ DOMAIN q = 1..Len(q) /\ Len(q) \in Nat
      /\ \A i \in 1..Len(q) : p[i] = q[i] /\ ~(n < i)
      /\ 1..n = 1..Len(q) \cup {n} /\ ~(n < n)
    OBVIOUS
<1> HIDE DEF p, n
<1>2. \A i \in Grants(p) :
          \/ i \in Grants(q) /\ p[i] = q[i] /\ i \in 1..Len(q)
          \/ i = n /\ m.kind = "Accepted"
    BY <1>1, Zenon DEF Grants
<1>3. \A i \in Grants(q) : q[i].session \in Offered(q)
    BY Zenon DEF Offered
<1>4. \A i, j \in Grants(p) : i < j => p[i].session < p[j].session
    BY <1>1, <1>2, <1>3, Zenon DEF Rising
<1> QED
    BY <1>4, Zenon DEF Rising, p

(* The first message of a queue, and the sessions it offers after it. *)
LEMMA OfferedHead ==
    ASSUME NEW S, NEW q \in Seq(S), q # <<>>, NEW n \in Offered(q)
    PROVE  /\ \/ n \in Offered(Tail(q))
              \/ Head(q).kind = "Accepted" /\ Head(q).session = n
           /\ Rising(q) /\ Head(q).kind = "Accepted" =>
                 Head(q).session = n \/ Head(q).session < n
<1>1. /\ DOMAIN Tail(q) = 1..(Len(q) - 1) /\ Len(q) \in Nat /\ DOMAIN q = 1..Len(q)
      /\ \A i \in 1..(Len(q) - 1) : Tail(q)[i] = q[i + 1]
      /\ Head(q) = q[1] /\ 1 \in 1..Len(q)
    OBVIOUS
<1>2. PICK i \in Grants(q) : n = q[i].session
    BY Zenon DEF Offered
<1>3. i \in 1..Len(q) /\ q[i].kind = "Accepted"
    BY <1>1, <1>2, Zenon DEF Grants
<1>4. CASE i = 1
    BY <1>1, <1>2, <1>3, <1>4, Zenon
<1>5. CASE i # 1
    <2>1. i - 1 \in 1..(Len(q) - 1) /\ (i - 1) + 1 = i /\ 1 < i
        BY <1>1, <1>3, <1>5
    <2>2. Tail(q)[i - 1] = q[i]
        BY <1>1, <2>1
    <2>3. i - 1 \in Grants(Tail(q))
        BY <1>1, <1>3, <2>1, <2>2, Zenon DEF Grants
    <2>4. n \in Offered(Tail(q))
        BY <1>2, <2>2, <2>3, Zenon DEF Offered
    <2>5. Head(q).kind = "Accepted" => 1 \in Grants(q)
        BY <1>1, Zenon DEF Grants
    <2> QED
        BY <1>1, <1>2, <2>1, <2>4, <2>5, Zenon DEF Rising
<1> QED
    BY <1>4, <1>5, Zenon

-----------------------------------------------------------------------------
(* What a step does *)

(* The threads: what a step leaves of the wire and of the server. *)
LEMMA ThreadStep ==
    ASSUME TypeOK, ThreadInv, Next
    PROVE  ThreadInv'
<1> USE DEF setup, inbox, outbox, server, ghosts
<1>1. CASE /\ UNCHANGED <<reader, net, server_open, pending>>
           /\ phase = "stopped" => phase' = "stopped"
           /\ ~rx_open' => phase' = "stopped" \/ ~rx_open
    BY <1>1, Zenon DEF ThreadInv
<1>2. CASE \E s \in Services : Open(s)
    <2>1. UNCHANGED <<reader, net, server_open, pending, rx_open>> /\ phase # "stopped"
        BY <1>2, Zenon DEF Open
    <2> QED
        BY <1>1, <2>1, Zenon
<1>3. CASE \/ Opened \/ Buffer \/ OpenFails \/ RunWith \/ StartLooper
           \/ ConnectionLost \/ Stopped \/ ForwarderEnds
    BY <1>1, <1>3, Zenon DEF Opened, Buffer, OpenFails, RunWith, StartLooper,
       ConnectionLost, Stopped, ForwarderEnds
<1>4. CASE Drain \/ Take
    BY <1>1, <1>4, Zenon DEF Drain, Take
<1>5. CASE AnswerPort \/ DropHandle \/ KeepSender \/ DropSender \/ WriterEnds
    BY <1>1, <1>5, Zenon DEF AnswerPort, DropHandle, KeepSender, DropSender, WriterEnds
<1>6. CASE ReaderReads
    BY <1>6, Zenon DEF ReaderReads, ThreadInv, TypeOK
<1>7. CASE ReaderEof
    BY <1>7, Zenon DEF ReaderEof, ThreadInv
<1>8. CASE WriterWrites
    BY <1>8, Zenon DEF WriterWrites, ThreadInv
<1>9. CASE ServerAnswers \/ Arrival \/ Promoted
    BY <1>9, Zenon DEF ServerAnswers, Arrival, Promoted, ThreadInv
<1>10. CASE ServerCloses
    BY <1>10, Zenon DEF ServerCloses, ThreadInv
<1> QED
    BY <1>2, <1>3, <1>4, <1>5, <1>6, <1>7, <1>8, <1>9, <1>10, Zenon
       DEF Next, Builder, Looper, Reader, Writer

(* What the builder waits for, and what it has registered. *)
LEMMA PhaseStep ==
    ASSUME TypeOK, Next, NEW s
    PROVE  /\ Awaits(s)' => Awaits(s) \/ Open(s)
           /\ Awaits(s) => Awaits(s)' \/ Opened \/ OpenFails
           /\ phase = "stopped" => phase' = "stopped"
           /\ request_receivers \subseteq request_receivers'
           /\ registered \subseteq registered'
<1> USE DEF setup, inbox, outbox, server, ghosts
<1>1. CASE UNCHANGED <<phase, opening, registered, request_receivers>>
    BY <1>1, Zenon DEF Awaits
<1>2. CASE /\ phase # "waiting" /\ phase # "stopped" /\ phase' # "waiting"
           /\ UNCHANGED <<registered, request_receivers>>
    BY <1>2, Zenon DEF Awaits
<1>3. ASSUME NEW v \in Services, Open(v)
      PROVE  /\ Awaits(s)' => Open(s)
             /\ phase = "setup" /\ UNCHANGED request_receivers
             /\ registered \subseteq registered'
    BY <1>3, Zenon DEF Open, Awaits
<1>4. CASE Opened
    BY <1>4, Zenon DEF Opened, Register, Awaits
<1>5. CASE OpenFails
    BY <1>5, Zenon DEF OpenFails, Awaits
<1>6. CASE Buffer \/ AnswerPort \/ DropHandle \/ KeepSender \/ DropSender
    BY <1>1, <1>6, Zenon DEF Buffer, AnswerPort, DropHandle, KeepSender, DropSender
<1>7. CASE Reader \/ ForwarderEnds \/ Writer
    BY <1>1, <1>7, Zenon DEF Reader, ReaderReads, ReaderEof, ForwarderEnds, Writer,
       WriterWrites, WriterEnds
<1>8. CASE ServerAnswers \/ Arrival \/ Promoted \/ ServerCloses
    BY <1>1, <1>8, Zenon DEF ServerAnswers, Arrival, Promoted, ServerCloses
<1>9. CASE Drain
    <2>1. phase = "drain" /\ UNCHANGED <<registered, request_receivers>>
        BY <1>9, Zenon DEF Drain
    <2>2. phase' \in {phase, "stopping"}
        BY <1>9, Zenon DEF Drain, DispatchRequest, Callback, Resume
    <2> QED
        BY <1>2, <2>1, <2>2, Zenon
<1>10. CASE Take
    <2>1. phase = "running" /\ UNCHANGED <<registered, request_receivers>>
        BY <1>10, Zenon DEF Take
    <2>2. phase' \in {phase, "stopping"}
        BY <1>10, Zenon DEF Take, DispatchRequest, Callback, Resume
    <2> QED
        BY <1>2, <2>1, <2>2, Zenon
<1>11. CASE RunWith \/ StartLooper \/ ConnectionLost
    BY <1>2, <1>11, Zenon DEF RunWith, StartLooper, ConnectionLost
<1>12. CASE Stopped
    BY <1>2, <1>12, Zenon DEF Stopped
<1> QED
    BY <1>3, <1>4, <1>5, <1>6, <1>7, <1>8, <1>9, <1>10, <1>11, <1>12, Zenon
       DEF Next, Builder, Looper, Awaits

(* What the server has granted, and who is asked first. *)
LEMMA GrantStep ==
    ASSUME TypeOK, Next
    PROVE  /\ first \subseteq first' /\ (server_open' => server_open)
           /\ \/ UNCHANGED granted
              \/ /\ UNCHANGED rx
                 /\ \E v \in first : Issue(v, "provider")
              \/ /\ UNCHANGED rx
                 /\ \E v \in pending : /\ v \notin first /\ Issue(v, "consumer")
                                       /\ pending' = pending \ {v} /\ ServerAnswers
<1> USE DEF setup, inbox, outbox, server, ghosts
<1>0. CASE UNCHANGED <<granted, first, server_open>>
    BY <1>0, Zenon
<1>1. CASE \E s \in Services : Open(s)
    BY <1>0, <1>1, Zenon DEF Open
<1>2. CASE Builder \/ RunWith
    BY <1>0, <1>2, Zenon DEF Builder, Opened, Buffer, OpenFails, RunWith
<1>3. CASE Looper
    BY <1>0, <1>3, Zenon DEF Looper, Drain, StartLooper, Take, ConnectionLost, Stopped
<1>4. CASE \/ AnswerPort \/ DropHandle \/ KeepSender \/ DropSender
           \/ Reader \/ ForwarderEnds
    BY <1>0, <1>4, Zenon DEF AnswerPort, DropHandle, KeepSender, DropSender, Reader,
       ReaderReads, ReaderEof, ForwarderEnds
<1>5. CASE Writer
    BY <1>0, <1>5, Zenon DEF Writer, WriterWrites, WriterEnds
<1>6. CASE ServerCloses
    BY <1>6, Zenon DEF ServerCloses
<1>7. CASE ServerAnswers
    BY <1>7, Zenon DEF ServerAnswers
<1>8. CASE Arrival
    BY <1>8, Zenon DEF Arrival
<1>9. CASE Promoted
    BY <1>9, Zenon DEF Promoted
<1> QED
    BY <1>1, <1>2, <1>3, <1>4, <1>5, <1>6, <1>7, <1>8, <1>9, Zenon DEF Next

(* A new session, whose number is the highest, and the offer of it. *)
LEMMA Issued ==
    ASSUME TypeOK, Links, NEW v \in Services, NEW side \in {"consumer", "provider"},
           Issue(v, side), NEW n, n = Len(granted) + 1
    PROVE  /\ n \in Nat /\ Sessions' = Sessions \cup {n}
           /\ granted'[n].service = v /\ granted'[n].side = side
           /\ \A k \in Sessions : granted'[k] = granted[k] /\ k < n
           /\ Own(v)' = Own(v) \cup {n}
           /\ \A s : s # v => Own(s)' = Own(s)
           /\ Accepted(v, n) \in Message /\ Post(Accepted(v, n))
           /\ \A k \in Offered(rx) \cup Offered(net) : k < n
<1>1. /\ Len(granted) \in Nat /\ n \in Nat /\ Len(granted') = n
      /\ granted'[n] = [service |-> v, side |-> side]
      /\ \A k \in 1..Len(granted) : granted'[k] = granted[k]
    <2>1. Types
        BY PlainTypes, Zenon
    <2>2. Len(granted) \in Nat
        BY <2>1 DEF Types
    <2>3. n \in Nat
        BY <2>2
    <2>4. /\ Len(granted') = Len(granted) + 1
          /\ granted'[Len(granted) + 1] = [service |-> v, side |-> side]
          /\ \A k \in 1..Len(granted) : granted'[k] = granted[k]
        BY <2>1, IssueKeeps, Zenon
    <2> QED
        BY <2>2, <2>3, <2>4, Zenon
<1>2. granted'[n].service = v /\ granted'[n].side = side
    BY <1>1
<1>3. Sessions' = Sessions \cup {n} /\ \A k \in Sessions : k < n
    BY <1>1 DEF Sessions
<1>4. \A k \in Sessions : granted'[k] = granted[k]
    BY <1>1, Zenon DEF Sessions
<1>5. Own(v)' = Own(v) \cup {n} /\ \A s : s # v => Own(s)' = Own(s)
    BY <1>2, <1>3, <1>4, Zenon DEF Own
<1>6. Accepted(v, n) \in Message /\ Post(Accepted(v, n))
    BY <1>1, Kinds, Zenon DEF Issue
<1>7. Offered(rx) \subseteq Sessions /\ Offered(net) \subseteq Sessions
    BY Zenon DEF Links, Fits, Offered, Sessions
<1> QED
    BY <1>1, <1>2, <1>3, <1>4, <1>5, <1>6, <1>7, Zenon

(* The sessions of a service. *)
LEMMA OwnStep ==
    ASSUME TypeOK, Links, Next, NEW s
    PROVE  /\ \A k \in Own(s)' : k \in Own(s) \/ k = Len(granted) + 1
           /\ \/ Own(s)' = Own(s) \/ s \in first
              \/ s \in pending /\ s \notin pending'
           /\ \A k \in Sessions : granted'[k] = granted[k]
           /\ \A k \in Sessions : k < Len(granted) + 1
<1> DEFINE n == Len(granted) + 1
<1>1. \A k \in Sessions : k < n
    BY DEF TypeOK, Sessions
<1>2. first \subseteq Services /\ pending \subseteq Services
    BY PaneAssumption, Zenon DEF TypeOK
<1> HIDE DEF n
<1>3. CASE UNCHANGED granted
    BY <1>1, <1>3, Zenon DEF Own, Sessions, n
<1>4. CASE \E v \in first : Issue(v, "provider")
    <2>1. PICK v \in first : Issue(v, "provider")
        BY <1>4, Zenon
    <2>2. /\ \A k \in Sessions : granted'[k] = granted[k]
          /\ Own(v)' = Own(v) \cup {n} /\ \A u : u # v => Own(u)' = Own(u)
        BY <1>2, <2>1, Issued, SMTT(30) DEF n
    <2>3. s = v \/ Own(s)' = Own(s)
        BY <2>2, Zenon
    <2> QED
        BY <1>1, <2>1, <2>2, <2>3, Zenon DEF n
<1>5. CASE \E v \in pending : Issue(v, "consumer") /\ pending' = pending \ {v}
    <2>1. PICK v \in pending : Issue(v, "consumer") /\ pending' = pending \ {v}
        BY <1>5, Zenon
    <2>2. /\ \A k \in Sessions : granted'[k] = granted[k]
          /\ Own(v)' = Own(v) \cup {n} /\ \A u : u # v => Own(u)' = Own(u)
        BY <1>2, <2>1, Issued, SMTT(30) DEF n
    <2>3. s = v \/ Own(s)' = Own(s)
        BY <2>2, Zenon
    <2> QED
        BY <1>1, <2>1, <2>2, <2>3, Zenon DEF n
<1> QED
    BY <1>3, <1>4, <1>5, GrantStep, Zenon

(* Only open_service_inner makes a handle, of the session it is offered. *)
LEMMA HandleStep ==
    ASSUME TypeOK, Next, NEW h \in handles'
    PROVE  \/ h \in handles
           \/ /\ Opened /\ Head(rx).kind = "Accepted"
              /\ h.service = opening /\ h.session = Head(rx).session
<1> USE DEF setup, inbox, outbox, server, ghosts
<1>1. CASE \E s \in Services : Open(s)
    BY <1>1, Zenon DEF Open
<1>2. CASE Opened
    <2>1. CASE Head(rx).kind # "Accepted"
        BY <1>2, <2>1, Zenon DEF Opened
    <2>2. CASE Head(rx).kind = "Accepted"
        <3>1. PICK o \in Owners : handles' = handles \cup
                  {[service |-> opening, session |-> Head(rx).session, owner |-> o]}
            BY <1>2, <2>2, Zenon DEF Opened, Register
        <3>2. CASE h = [service |-> opening, session |-> Head(rx).session, owner |-> o]
            BY <1>2, <2>2, <3>2, Zenon
        <3> QED
            BY <3>1, <3>2, Zenon
    <2> QED
        BY <2>1, <2>2, Zenon
<1>3. CASE Buffer \/ OpenFails \/ RunWith \/ Looper
    BY <1>3, Zenon DEF Buffer, OpenFails, RunWith, Looper, Drain, StartLooper, Take,
       ConnectionLost, Stopped
<1>4. CASE \/ AnswerPort \/ DropHandle \/ KeepSender \/ DropSender
           \/ Reader \/ ForwarderEnds
    BY <1>4, Zenon DEF AnswerPort, DropHandle, KeepSender, DropSender, Reader,
       ReaderReads, ReaderEof, ForwarderEnds
<1>5. CASE Writer \/ ServerAnswers \/ Arrival \/ Promoted \/ ServerCloses
    BY <1>5, Zenon DEF Writer, WriterWrites, WriterEnds, ServerAnswers, Arrival,
       Promoted, ServerCloses
<1> QED
    BY <1>1, <1>2, <1>3, <1>4, <1>5, Zenon DEF Next, Builder

(* A frame that is no DeclareInterest goes into the write channel, or not. *)
Says == UNCHANGED wq \/ \E f \in Outgoing : f.kind # "Declare" /\ wq' = Append(wq, f)

(* So it is with the answer to a request. *)
LEMMA DispatchSays ==
    ASSUME NEW r \in Ids, DispatchRequest(r)
    PROVE  Says
<1>1. Answer(r) \in Outgoing /\ Answer(r).kind # "Declare"
    BY Incomings, Zenon DEF Answer
<1> QED
    BY <1>1, Zenon DEF DispatchRequest, TrySend, Says

(* What the pane says when it neither opens a service nor writes. *)
LEMMA PaneSays ==
    ASSUME TypeOK,
           Builder \/ RunWith \/ Looper \/ AnswerPort \/ DropHandle \/ KeepSender
              \/ DropSender \/ Reader \/ ForwarderEnds
    PROVE  Says /\ UNCHANGED pending
<1> USE DEF setup, inbox, outbox, server, ghosts
<1>0. rx \in Seq(Incoming) /\ buffered \in Seq(Incoming)
    BY Zenon DEF TypeOK
<1>1. CASE Builder \/ RunWith \/ StartLooper \/ ConnectionLost \/ Stopped
    BY <1>1, Zenon DEF Builder, Opened, Buffer, OpenFails, RunWith, StartLooper,
       ConnectionLost, Stopped, Says
<1>2. CASE KeepSender \/ DropSender \/ Reader \/ ForwarderEnds
    BY <1>2, Zenon DEF KeepSender, DropSender, Reader, ReaderReads, ReaderEof,
       ForwarderEnds, Says
<1>3. CASE Drain
    <2>1. buffered # <<>> /\ UNCHANGED pending
        BY <1>3, Zenon DEF Drain
    <2>2. CASE Head(buffered).kind = "Request" /\ DispatchRequest(Head(buffered).id)
        <3>1. Head(buffered).id \in Ids
            BY <1>0, <2>1, <2>2, TypedFields, AfterReceive, Zenon
        <3> QED
            BY <2>1, <2>2, <3>1, DispatchSays, Zenon
    <2> QED
        BY <1>3, <2>1, <2>2, Zenon DEF Drain, Callback, Says
<1>4. CASE Take
    <2>1. PICK i \in DOMAIN rx :
              IF rx[i].kind = "Request" THEN DispatchRequest(rx[i].id) ELSE Callback
        BY <1>4, Zenon DEF Take
    <2>2. UNCHANGED pending
        BY <1>4, Zenon DEF Take
    <2>3. CASE rx[i].kind = "Request" /\ DispatchRequest(rx[i].id)
        <3>1. rx[i].id \in Ids
            BY <1>0, <2>1, <2>3, TypedFields, SMTT(30)
        <3> QED
            BY <2>2, <2>3, <3>1, DispatchSays, Zenon
    <2> QED
        BY <2>1, <2>2, <2>3, Zenon DEF Callback, Says
<1>5. CASE AnswerPort
    <2>1. PICK p \in ports : TrySend(Answer(p.id))
        BY <1>5, Zenon DEF AnswerPort
    <2>2. Answer(p.id) \in Outgoing /\ Answer(p.id).kind # "Declare"
        BY <2>1, Incomings, Zenon DEF TypeOK, Answer
    <2> QED
        BY <1>5, <2>1, <2>2, Zenon DEF AnswerPort, TrySend, Says
<1>6. CASE DropHandle
    <2>1. PICK h \in handles : TrySend(Revoke(h.session))
        BY <1>6, Zenon DEF DropHandle
    <2>2. Revoke(h.session) \in Outgoing /\ Revoke(h.session).kind # "Declare"
        BY <2>1, Incomings, Zenon DEF TypeOK, Revoke
    <2> QED
        BY <1>6, <2>1, <2>2, Zenon DEF DropHandle, TrySend, Says
<1> QED
    BY <1>1, <1>2, <1>3, <1>4, <1>5, <1>6, Zenon DEF Looper

(* A DeclareInterest goes from the write channel to the server, and only   *)
(* open_service_inner sends one.                                           *)
LEMMA AskingStep ==
    ASSUME TypeOK, Next, NEW s, ~Open(s), AtMost(Declaring(s)),
           Declaring(s) # {} => s \notin pending
    PROVE  /\ AtMost(Declaring(s)')
           /\ Declaring(s)' # {} => Declaring(s) # {} /\ s \notin pending'
           /\ Asking(s)' => Asking(s)
<1> USE DEF setup, inbox, outbox, server, ghosts
<1>0. wq \in Seq(Outgoing)
    BY Zenon DEF TypeOK
<1>1. CASE Declaring(s)' = Declaring(s) /\ pending' \subseteq pending
    BY <1>1, Zenon DEF Asking
<1>2. ASSUME NEW f \in Outgoing, ~(f.kind = "Declare" /\ f.service = s),
             wq' = Append(wq, f)
      PROVE  Declaring(s)' = Declaring(s)
    <2>1. Of(Append(wq, f), "Declare", s) = Of(wq, "Declare", s)
        BY <1>0, <1>2, OfAppend, SMTT(30)
    <2> QED
        BY <1>2, <2>1, Zenon DEF Declaring
<1>3. CASE UNCHANGED wq /\ pending' \subseteq pending
    BY <1>1, <1>3, Zenon DEF Declaring
<1>4. CASE Says /\ UNCHANGED pending
    BY <1>1, <1>2, <1>3, <1>4, Zenon DEF Says
<1>5. ASSUME NEW v \in Services, Open(v)
      PROVE  UNCHANGED pending /\ Declaring(s)' = Declaring(s)
    <2>1. v # s /\ UNCHANGED pending
        BY <1>5, Zenon DEF Open
    <2>2. CASE UNCHANGED wq
        BY <2>1, <2>2, Zenon DEF Declaring
    <2>3. CASE wq' = Append(wq, Declare(v))
        <3>1. Declare(v) \in Outgoing /\ Declare(v).service # s
            BY <2>1, Incomings, Zenon DEF Declare
        <3> QED
            BY <1>2, <2>1, <2>3, <3>1, Zenon
    <2> QED
        BY <1>5, <2>2, <2>3, Zenon DEF Open
<1>6. CASE WriterWrites
    <2> DEFINE f == Head(wq)
    <2>1. wq # <<>> /\ wq' = Tail(wq) /\ Processed(f)
        BY <1>6, Zenon DEF WriterWrites
    <2>2. Part(wq', wq) /\ f \in Outgoing
        BY <1>0, <2>1, TailPart, AfterReceive, Zenon
    <2>3. f.kind \in {"Declare", "Revoke", "Answer"}
        BY <2>2, TypedFields, Zenon
    <2>4. /\ Declaring(s)' # {} => Declaring(s) # {}
          /\ AtMost(Declaring(s)')
        BY <2>2, OfPart, Zenon DEF Declaring
    <2>5. CASE f.kind = "Declare" /\ f.service = s
        <3>1. Of(wq, "Declare", s) # {} /\ Of(Tail(wq), "Declare", s) = {}
            BY <1>0, <2>1, <2>5, OfTail, SMTT(30) DEF Declaring
        <3>2. Declaring(s) # {} /\ Declaring(s)' = {}
            BY <2>1, <3>1, Zenon DEF Declaring
        <3> QED
            BY <3>2, Zenon DEF Asking, AtMost
    <2>6. CASE ~(f.kind = "Declare" /\ f.service = s)
        <3>1. CASE f.kind = "Declare"
            <4>1. pending' = pending \cup {f.service} /\ f.service # s
                BY <2>1, <2>6, <3>1, Zenon DEF Processed
            <4> QED
                BY <2>4, <4>1, Zenon DEF Asking
        <3>2. CASE f.kind # "Declare"
            <4>1. pending' = pending
                BY <2>1, <2>3, <3>2, Zenon DEF Processed
            <4> QED
                BY <2>4, <4>1, Zenon DEF Asking
        <3> QED
            BY <3>1, <3>2, Zenon
    <2> QED
        BY <2>5, <2>6, Zenon
<1>7. CASE WriterEnds
    <2>1. wq' = <<>> /\ UNCHANGED pending
        BY <1>7, Zenon DEF WriterEnds
    <2>2. Declaring(s)' = {}
        BY <2>1 DEF Declaring, Of
    <2> QED
        BY <2>1, <2>2, Zenon DEF Asking, AtMost
<1>8. CASE ServerAnswers
    BY <1>3, <1>8, Zenon DEF ServerAnswers
<1>9. CASE Arrival \/ Promoted \/ ServerCloses
    BY <1>3, <1>9, Zenon DEF Arrival, Promoted, ServerCloses
<1> QED
    BY <1>1, <1>4, <1>5, <1>6, <1>7, <1>8, <1>9, PaneSays, Zenon DEF Next, Writer

(* A message of the server that does not decline the service. *)
LEMMA PostRefusing ==
    ASSUME net \in Seq(Message), NEW m \in Message, Post(m), UNCHANGED rx, NEW s,
           ~(m.kind = "Declined" /\ m.service = s)
    PROVE  Refusing(s)' = Refusing(s)
<1>1. Of(Append(net, m), "Declined", s) = Of(net, "Declined", s)
    BY OfAppend, SMTT(30)
<1>2. net' = Append(net, m)
    BY Zenon DEF Post
<1> QED
    BY <1>1, <1>2, Zenon DEF Refusing

(* What else the server sends, and the writer makes it send. *)
LEMMA ServerSends ==
    ASSUME TypeOK, WriterWrites \/ Arrival \/ Promoted
    PROVE  /\ UNCHANGED rx
           /\ \/ UNCHANGED net
              \/ \E m \in Message : Post(m) /\ m.kind \notin {"Accepted", "Declined"}
              \/ \E v \in first : Issue(v, "provider")
<1> USE DEF setup, inbox, outbox, server, ghosts
<1>0. \A n \in Sessions : /\ Teardown(n) \in Message
                          /\ Teardown(n).kind \notin {"Accepted", "Declined"}
    <2>1. \A n \in Sessions : n \in Nat
        BY DEF TypeOK, Sessions
    <2> QED
        BY <2>1, Kinds, Zenon DEF Teardown
<1>1. CASE WriterWrites
    <2> DEFINE f == Head(wq)
    <2>1. Processed(f) /\ wq # <<>> /\ wq \in Seq(Outgoing) /\ UNCHANGED rx
        BY <1>1, Zenon DEF WriterWrites, TypeOK
    <2>2. f \in Outgoing
        BY <2>1, AfterReceive, Zenon
    <2>3. f.kind \in {"Declare", "Revoke", "Answer"}
        BY <2>2, TypedFields, Zenon
    <2>4. f.kind = "Revoke" => f.session \in Sessions
        BY <2>2, TypedFields, Zenon
    <2> HIDE DEF f
    <2>5. CASE f.kind = "Revoke"
        <3>1. net' = net \/ Post(Teardown(f.session))
            BY <2>1, <2>5, Zenon DEF Processed, Post
        <3> QED
            BY <1>0, <2>1, <2>4, <2>5, <3>1, Zenon
    <2>6. CASE f.kind # "Revoke"
        <3>1. net' = net
            BY <2>1, <2>3, <2>6, Zenon DEF Processed
        <3> QED
            BY <2>1, <3>1, Zenon
    <2> QED
        BY <2>5, <2>6, Zenon
<1>2. CASE Promoted
    <2>1. UNCHANGED rx /\ routes \subseteq Sessions
        BY <1>2, Zenon DEF Promoted, TypeOK
    <2> QED
        BY <1>0, <1>2, <2>1, PromotedPosts, Zenon
<1>3. CASE Arrival
    <2>1. UNCHANGED rx /\ routes \subseteq Sessions
        BY <1>3, Zenon DEF Arrival, TypeOK
    <2>2. CASE \E n \in routes : Post(Teardown(n))
        BY <1>0, <2>1, <2>2, Zenon
    <2>3. CASE Post(Lifecycle)
        <3>1. Lifecycle \in Message /\ Lifecycle.kind \notin {"Accepted", "Declined"}
            BY Kinds, Zenon DEF Lifecycle
        <3> QED
            BY <2>1, <2>3, <3>1, Zenon
    <2>4. CASE Post(Request(Len(requests) + 1))
        <3> DEFINE k == Len(requests) + 1
        <3>1. k \in Nat
            BY DEF TypeOK
        <3>2. Request(k) \in Message /\ Request(k).kind \notin {"Accepted", "Declined"}
            BY <3>1, Kinds, Zenon DEF Request
        <3> QED
            BY <2>1, <2>4, <3>2, Zenon
    <2> QED
        BY <1>3, <2>1, <2>2, <2>3, <2>4, Zenon DEF Arrival
<1> QED
    BY <1>1, <1>2, <1>3, Zenon

(* What the pane does with the messages. *)
LEMMA PaneTakes ==
    ASSUME TypeOK, Next, ~ReaderReads, ~WriterWrites, ~ServerAnswers, ~Arrival,
           ~Promoted
    PROVE  /\ UNCHANGED net /\ Part(rx', rx)
           /\ UNCHANGED rx \/ Opened \/ Buffer \/ phase # "waiting"
<1> USE DEF setup, inbox, outbox, server, ghosts
<1>0. rx \in Seq(Incoming) /\ Part(rx, rx)
    BY SamePart, Zenon DEF TypeOK
<1>1. CASE UNCHANGED <<net, rx>>
    BY <1>0, <1>1, Zenon
<1>2. CASE \E s \in Services : Open(s)
    BY <1>1, <1>2, Zenon DEF Open
<1>3. CASE Opened \/ Buffer
    <2>1. rx # <<>> /\ rx' = Tail(rx) /\ UNCHANGED net
        BY <1>3, Zenon DEF Opened, Buffer
    <2> QED
        BY <1>0, <1>3, <2>1, TailPart, Zenon
<1>4. CASE OpenFails \/ RunWith \/ Drain \/ StartLooper \/ ConnectionLost
    BY <1>1, <1>4, Zenon DEF OpenFails, RunWith, Drain, StartLooper, ConnectionLost
<1>5. CASE Take
    <2>1. PICK i \in DOMAIN rx : rx' = Without(rx, i)
        BY <1>5, Zenon DEF Take
    <2>2. Part(rx', rx)
        BY <1>0, <2>1, WithoutPart, SMTT(30)
    <2> QED
        BY <1>5, <2>2, Zenon DEF Take
<1>6. CASE Stopped
    <2>1. PICK k \in 0..Len(rx) : rx' = SubSeq(rx, k + 1, Len(rx))
        BY <1>6, Zenon DEF Stopped
    <2>2. Part(rx', rx)
        BY <1>0, <2>1, SuffixPart, SMTT(30)
    <2> QED
        BY <1>6, <2>2, Zenon DEF Stopped
<1>7. CASE ForwarderEnds
    <2>1. rx' = <<>> /\ UNCHANGED net /\ phase # "waiting"
        BY <1>7, Zenon DEF ForwarderEnds
    <2>2. Len(rx) \in 0..Len(rx) /\ SubSeq(rx, Len(rx) + 1, Len(rx)) = <<>>
        BY <1>0
    <2>3. Part(<<>>, rx)
        BY <1>0, <2>2, SuffixPart, Zenon
    <2> QED
        BY <2>1, <2>3, Zenon
<1>8. CASE AnswerPort \/ DropHandle \/ KeepSender \/ DropSender
    BY <1>1, <1>8, Zenon DEF AnswerPort, DropHandle, KeepSender, DropSender
<1>9. CASE ReaderEof \/ WriterEnds \/ ServerCloses
    BY <1>1, <1>9, Zenon DEF ReaderEof, WriterEnds, ServerCloses
<1> QED
    BY <1>2, <1>3, <1>4, <1>5, <1>6, <1>7, <1>8, <1>9, Zenon
       DEF Next, Builder, Looper, Reader, Writer

(* Only the answer to a DeclareInterest declines a service. *)
LEMMA RefusingStep ==
    ASSUME TypeOK, Next, NEW s, Refusing(s) = {}
    PROVE  Refusing(s)' = {} \/ (s \in pending /\ s \notin pending')
<1> USE DEF setup, inbox, outbox, server, ghosts
<1>0. /\ rx \in Seq(Incoming) /\ net \in Seq(Incoming) /\ net \in Seq(Message)
      /\ pending \subseteq Services /\ first \subseteq Services
    BY PlainTypes, Zenon DEF TypeOK, Types
<1>1. Of(net, "Declined", s) = {} /\ Of(rx, "Declined", s) = {}
    BY Zenon DEF Refusing
<1>2. CASE ReaderReads
    <2> DEFINE m == Head(net)
    <2>1. net # <<>> /\ net' = Tail(net) /\ (UNCHANGED rx \/ rx' = Append(rx, m))
        BY <1>2, Zenon DEF ReaderReads
    <2>2. m \in Incoming /\ Part(net', net) /\ 1 \in DOMAIN net /\ net[1] = m
        BY <1>0, <2>1, TailPart, SMTT(30)
    <2>3. Of(net', "Declined", s) = {}
        BY <1>1, <2>2, OfPart, Zenon
    <2>4. ~(m.kind = "Declined" /\ m.service = s)
        BY <1>1, <2>2, Zenon DEF Of
    <2> HIDE DEF m
    <2>5. Of(Append(rx, m), "Declined", s) = {}
        BY <1>0, <1>1, <2>2, <2>4, OfAppend, SMTT(30)
    <2>6. Of(rx', "Declined", s) = {}
        BY <1>1, <2>1, <2>5, Zenon
    <2> QED
        BY <2>3, <2>6, Zenon DEF Refusing
<1>3. ASSUME NEW v \in Services, NEW side \in {"consumer", "provider"},
             Issue(v, side), UNCHANGED rx
      PROVE  Refusing(s)' = {}
    <2> DEFINE m == Accepted(v, Len(granted) + 1)
    <2>1. Post(m) /\ m \in Message /\ m.kind # "Declined"
        <3>1. Len(granted) + 1 \in Nat
            BY DEF TypeOK
        <3> QED
            BY <1>3, <3>1, Kinds, Zenon DEF Issue, Accepted
    <2> HIDE DEF m
    <2> QED
        BY <1>0, <1>3, <2>1, PostRefusing, Zenon
<1>4. CASE ServerAnswers
    <2>1. PICK v \in pending :
              /\ pending' = pending \ {v}
              /\ Issue(v, "consumer") \/ Post(Declined(v))
        BY <1>4, Zenon DEF ServerAnswers
    <2>2. UNCHANGED rx /\ v \in Services
        BY <1>0, <1>4, Zenon DEF ServerAnswers
    <2>3. CASE Issue(v, "consumer")
        BY <1>3, <2>2, <2>3, Zenon
    <2>4. CASE v # s /\ Post(Declined(v))
        <3>1. Declined(v) \in Message /\ Declined(v).service # s
            BY <2>2, <2>4, Kinds, Zenon DEF Declined
        <3> QED
            BY <1>0, <2>2, <2>4, <3>1, PostRefusing, Zenon
    <2> QED
        BY <2>1, <2>3, <2>4, Zenon
<1>5. CASE WriterWrites \/ Arrival \/ Promoted
    <2>1. CASE UNCHANGED <<net, rx>>
        BY <2>1, Zenon DEF Refusing
    <2>2. CASE \E v \in first : Issue(v, "provider") /\ UNCHANGED rx
        BY <1>0, <1>3, <2>2, Zenon
    <2>3. CASE /\ \E m \in Message : Post(m) /\ m.kind \notin {"Accepted", "Declined"}
               /\ UNCHANGED rx
        <3>1. PICK m \in Message : Post(m) /\ m.kind \notin {"Accepted", "Declined"}
            BY <2>3, Zenon
        <3> QED
            BY <1>0, <2>3, <3>1, PostRefusing, Zenon
    <2> QED
        BY <1>5, <2>1, <2>2, <2>3, ServerSends, Zenon
<1>6. CASE UNCHANGED net /\ Part(rx', rx)
    <2>1. Of(rx', "Declined", s) = {}
        BY <1>1, <1>6, OfPart, Zenon
    <2> QED
        BY <1>1, <1>6, <2>1, Zenon DEF Refusing
<1> QED
    BY <1>2, <1>4, <1>5, <1>6, PaneTakes, Zenon

(* The server numbers the sessions in the order in which it offers them,   *)
(* and the connection keeps that order.                                    *)
LEMMA GrantOrderStep ==
    ASSUME TypeOK, Links, GrantOrder, Next
    PROVE  GrantOrder'
<1> USE DEF setup, inbox, outbox, server, ghosts
<1>0. /\ rx \in Seq(Incoming) /\ net \in Seq(Incoming) /\ net \in Seq(Message)
      /\ pending \subseteq Services /\ first \subseteq Services
    BY PlainTypes, Zenon DEF TypeOK, Types
<1>1. CASE ReaderReads
    <2> DEFINE m == Head(net)
    <2>1. net # <<>> /\ net' = Tail(net) /\ (UNCHANGED rx \/ rx' = Append(rx, m))
        BY <1>1, Zenon DEF ReaderReads
    <2>2. Part(net', net) /\ m \in Incoming
        BY <1>0, <2>1, TailPart, AfterReceive, Zenon
    <2>3. Rising(net') /\ Offered(net') \subseteq Offered(net)
        BY <2>2, RisingPart, PartKeeps, Zenon DEF GrantOrder
    <2>4. CASE UNCHANGED rx
        BY <2>3, <2>4, Zenon DEF GrantOrder, Ahead
    <2>5. CASE rx' = Append(rx, m)
        <3>1. m.kind = "Accepted" => m.session \in Offered(net)
            BY <1>0, <2>1, HeadOffers, Zenon
        <3>2. m.kind = "Accepted" => m.session \notin Offered(net')
            BY <1>0, <2>1, HeadOffers, Zenon DEF Links
        <3>3. m.kind = "Accepted" => \A b \in Offered(net') : m.session < b
            BY <1>0, <2>1, <2>3, <3>2, OfferedHead, Zenon DEF GrantOrder
        <3> HIDE DEF m
        <3>4. Rising(Append(rx, m))
            BY <1>0, <2>2, <3>1, RisingAppend, Zenon DEF GrantOrder, Ahead
        <3>5. \A a \in Offered(Append(rx, m)) :
                  a \in Offered(rx) \/ (m.kind = "Accepted" /\ a = m.session)
            BY <1>0, <2>2, AppendOffers, Zenon
        <3> QED
            BY <2>3, <2>5, <3>3, <3>4, <3>5, Zenon DEF GrantOrder, Ahead
    <2> QED
        BY <2>1, <2>4, <2>5, Zenon
<1>2. ASSUME NEW m \in Message, Post(m), UNCHANGED rx,
             m.kind = "Accepted" =>
                \A k \in Offered(rx) \cup Offered(net) : k < m.session
      PROVE  GrantOrder'
    <2>1. Rising(Append(net, m))
        BY <1>0, <1>2, RisingAppend, Zenon DEF GrantOrder
    <2>2. \A a \in Offered(Append(net, m)) :
              a \in Offered(net) \/ (m.kind = "Accepted" /\ a = m.session)
        BY <1>0, AppendOffers, Zenon
    <2> QED
        BY <1>2, <2>1, <2>2, Zenon DEF GrantOrder, Ahead, Post
<1>3. ASSUME NEW v \in Services, NEW side \in {"consumer", "provider"},
             Issue(v, side), UNCHANGED rx
      PROVE  GrantOrder'
    <2> DEFINE n == Len(granted) + 1
    <2>1. /\ Accepted(v, n) \in Message /\ Post(Accepted(v, n))
          /\ \A k \in Offered(rx) \cup Offered(net) : k < n
        BY <1>3, Issued, SMTT(30)
    <2> HIDE DEF n
    <2>2. Accepted(v, n).session = n
        BY Zenon DEF Accepted
    <2> QED
        BY <1>2, <1>3, <2>1, <2>2, SMTT(30)
<1>4. CASE ServerAnswers
    <2>1. PICK v \in pending : Issue(v, "consumer") \/ Post(Declined(v))
        BY <1>4, Zenon DEF ServerAnswers
    <2>2. /\ UNCHANGED rx /\ v \in Services
          /\ Declined(v) \in Message /\ Declined(v).kind # "Accepted"
        BY <1>0, <1>4, Kinds, Zenon DEF ServerAnswers, Declined
    <2> QED
        BY <1>2, <1>3, <2>1, <2>2, Zenon
<1>5. CASE WriterWrites \/ Arrival \/ Promoted
    <2>1. CASE UNCHANGED <<net, rx>>
        BY <2>1, Zenon DEF GrantOrder
    <2>2. CASE \E v \in first : Issue(v, "provider") /\ UNCHANGED rx
        BY <1>0, <1>3, <2>2, Zenon
    <2>3. CASE /\ \E m \in Message : Post(m) /\ m.kind \notin {"Accepted", "Declined"}
               /\ UNCHANGED rx
        BY <1>2, <2>3, Zenon
    <2> QED
        BY <1>5, <2>1, <2>2, <2>3, ServerSends, Zenon
<1>6. CASE UNCHANGED net /\ Part(rx', rx)
    <2>1. Rising(rx') /\ Offered(rx') \subseteq Offered(rx)
        BY <1>6, RisingPart, PartKeeps, Zenon DEF GrantOrder
    <2> QED
        BY <1>6, <2>1, Zenon DEF GrantOrder, Ahead
<1> QED
    BY <1>1, <1>4, <1>5, <1>6, PaneTakes, Zenon

(* While the builder waits for an answer, the offer is not lost. *)
LEMMA OffersStep ==
    ASSUME TypeOK, Links, ThreadInv, Next, NEW s, Awaits(s), Awaits(s)',
           NEW n \in Own(s), n \in Offered(rx) \cup Offered(net)
    PROVE  n \in Offered(rx') \cup Offered(net')
<1> USE DEF setup, inbox, outbox, server, ghosts
<1>0. /\ rx \in Seq(Incoming) /\ net \in Seq(Incoming) /\ net \in Seq(Message)
      /\ pending \subseteq Services /\ first \subseteq Services
    BY PlainTypes, Zenon DEF TypeOK, Types
<1>1. CASE UNCHANGED <<rx, net>>
    BY <1>1, Zenon
<1>2. ASSUME NEW m \in Message, Post(m), UNCHANGED rx
      PROVE  n \in Offered(rx') \cup Offered(net')
    <2>1. Offered(net) \subseteq Offered(Append(net, m))
        BY <1>0, AppendOffers, Zenon
    <2> QED
        BY <1>2, <2>1, Zenon DEF Post
<1>3. ASSUME NEW v \in Services, NEW side \in {"consumer", "provider"},
             Issue(v, side), UNCHANGED rx
      PROVE  n \in Offered(rx') \cup Offered(net')
    <2> DEFINE m == Accepted(v, Len(granted) + 1)
    <2>1. m \in Message /\ Post(m)
        BY <1>3, Issued, SMTT(30)
    <2> HIDE DEF m
    <2> QED
        BY <1>2, <1>3, <2>1, Zenon
<1>4. CASE ServerAnswers
    <2>1. PICK v \in pending : Issue(v, "consumer") \/ Post(Declined(v))
        BY <1>4, Zenon DEF ServerAnswers
    <2>2. UNCHANGED rx /\ v \in Services /\ Declined(v) \in Message
        BY <1>0, <1>4, Kinds, Zenon DEF ServerAnswers
    <2> QED
        BY <1>2, <1>3, <2>1, <2>2, Zenon
<1>5. CASE WriterWrites \/ Arrival \/ Promoted
    <2>1. CASE \E v \in first : Issue(v, "provider") /\ UNCHANGED rx
        BY <1>0, <1>3, <2>1, Zenon
    <2> QED
        BY <1>1, <1>2, <1>5, <2>1, ServerSends, Zenon
<1>6. CASE ReaderReads
    <2> DEFINE m == Head(net)
    <2>1. rx_open
        BY Zenon DEF ThreadInv, Awaits, TypeOK
    <2>2. net # <<>> /\ net' = Tail(net) /\ rx' = Append(rx, m) /\ m \in Incoming
        BY <1>0, <1>6, <2>1, AfterReceive, Zenon DEF ReaderReads
    <2> HIDE DEF m
    <2>3. /\ Offered(rx) \subseteq Offered(Append(rx, m))
          /\ m.kind = "Accepted" => m.session \in Offered(Append(rx, m))
        BY <1>0, <2>2, AppendOffers, SMTT(30)
    <2>4. CASE n \in Offered(rx)
        BY <2>2, <2>3, <2>4, Zenon
    <2>5. CASE n \in Offered(net)
        <3>1. n \in Offered(Tail(net)) \/ (m.kind = "Accepted" /\ m.session = n)
            BY <1>0, <2>2, <2>5, OfferedHead, Zenon DEF m
        <3> QED
            BY <2>2, <2>3, <3>1, Zenon
    <2> QED
        BY <2>4, <2>5, Zenon
<1>7. CASE Buffer
    <2>1. /\ rx # <<>> /\ rx' = Tail(rx) /\ UNCHANGED net
          /\ ~(Head(rx).kind = "Accepted" /\ Head(rx).service = s)
        BY <1>7, Zenon DEF Buffer, IsAnswer, Awaits
    <2>2. ASSUME n \in Offered(rx) PROVE n \in Offered(Tail(rx))
        <3>1. n \in Offered(Tail(rx)) \/ (Head(rx).kind = "Accepted" /\ Head(rx).session = n)
            BY <1>0, <2>1, <2>2, OfferedHead, Zenon
        <3>2. Head(rx).kind = "Accepted" =>
                  Head(rx).service = granted[Head(rx).session].service
            BY <1>0, <2>1, HeadOffers, Zenon DEF Links
        <3>3. granted[n].service = s
            BY Zenon DEF Own
        <3> QED
            BY <2>1, <3>1, <3>2, <3>3, Zenon
    <2> QED
        BY <2>1, <2>2, Zenon
<1>8. CASE Opened
    BY <1>8, Zenon DEF Opened, Awaits
<1> QED
    BY <1>1, <1>4, <1>5, <1>6, <1>7, <1>8, PaneTakes, Zenon DEF Awaits

-----------------------------------------------------------------------------
(* The DeclareInterest and the sessions of a service *)

(* open_service_inner takes an answer about the service it opens. *)
LEMMA AnswerTaken ==
    ASSUME TypeOK, Links, Opened
    PROVE  \/ Head(rx).kind = "Declined" /\ Refusing(opening) # {}
           \/ /\ Head(rx).kind = "Accepted"
              /\ Head(rx).session \in Own(opening) \cap Offered(rx)
<1> DEFINE m == Head(rx)
<1>1. /\ rx # <<>> /\ m.kind \in {"Accepted", "Declined"} /\ m.service = opening
      /\ rx \in Seq(Incoming)
    BY Zenon DEF Opened, IsAnswer, TypeOK
<1>2. 1 \in DOMAIN rx /\ rx[1] = m
    BY <1>1, SMTT(30)
<1>3. CASE m.kind = "Declined"
    BY <1>1, <1>2, <1>3, Zenon DEF Refusing, Of
<1>4. CASE m.kind = "Accepted"
    <2>1. /\ m.session \in Offered(rx) /\ m.session \in 1..Len(granted)
          /\ m.service = granted[m.session].service
        BY <1>1, <1>4, HeadOffers, Zenon DEF Links
    <2> QED
        BY <1>1, <1>4, <2>1, Zenon DEF Own, Sessions
<1> QED
    BY <1>1, <1>3, <1>4, Zenon

(* open_service_inner sends a DeclareInterest, unless the writer is gone. *)
LEMMA DeclareOpens ==
    ASSUME TypeOK, NEW s \in Services, DeclareOf(s), Open(s)
    PROVE  DeclareOf(s)'
<1> USE DEF setup, inbox, outbox, server, ghosts
<1>1. /\ s \notin registered /\ registered' = registered \cup {s}
      /\ UNCHANGED <<net, rx, pending, first, granted, server_open>>
    BY Zenon DEF Open
<1>2. /\ Declaring(s) = {} /\ s \notin pending /\ Refusing(s) = {}
      /\ s \notin first => Own(s) = {}
    BY <1>1, Zenon DEF DeclareOf, Asking
<1>3. /\ s \notin pending' /\ Refusing(s)' = {} /\ s \in registered'
      /\ s \notin first' => Own(s)' = {}
    BY <1>1, <1>2, Zenon DEF Refusing, Own, Sessions
<1>4. CASE UNCHANGED wq
    BY <1>2, <1>3, <1>4, Zenon DEF DeclareOf, Asking, Declaring, AtMost
<1>5. CASE wq' = Append(wq, Declare(s)) /\ phase' = "waiting" /\ opening' = s
    <2>1. wq \in Seq(Outgoing) /\ Declare(s) \in Outgoing
        BY Incomings, Zenon DEF TypeOK
    <2>2. AtMost(Of(Append(wq, Declare(s)), "Declare", s))
        BY <1>2, <2>1, OfAppend, SMTT(30) DEF Declaring
    <2>3. AtMost(Declaring(s)') /\ Awaits(s)'
        BY <1>5, <2>2, Zenon DEF Declaring, Awaits
    <2> QED
        BY <1>3, <2>3, Zenon DEF DeclareOf
<1> QED
    BY <1>4, <1>5, Zenon DEF Open

(* Every step keeps the account of the DeclareInterests. *)
LEMMA DeclareStep ==
    ASSUME TypeOK, Links, ThreadInv, NEW s \in Services, DeclareOf(s), Next
    PROVE  DeclareOf(s)'
<1>1. CASE Open(s)
    BY <1>1, DeclareOpens, Zenon
<1>2. CASE ~Open(s)
    <2>1. /\ AtMost(Declaring(s)')
          /\ Declaring(s)' # {} => Declaring(s) # {} /\ s \notin pending'
          /\ Asking(s)' => Asking(s)
        BY <1>2, AskingStep, Zenon DEF DeclareOf
    <2>2. /\ first \subseteq first' /\ registered \subseteq registered'
          /\ server_open' => server_open
        BY GrantStep, PhaseStep, Zenon
    <2>3. Refusing(s) = {} => Refusing(s)' = {} \/ (s \in pending /\ s \notin pending')
        BY RefusingStep, Zenon
    <2>4. s \notin first => Own(s)' = Own(s) \/ (s \in pending /\ s \notin pending')
        BY OwnStep, Zenon
    <2>5. s \in pending /\ s \notin pending' => ~Asking(s)'
        BY <2>1, Zenon DEF DeclareOf, Asking
    <2>6. ASSUME s \notin registered'
          PROVE  ~Asking(s)' /\ Refusing(s)' = {} /\ (s \notin first' => Own(s)' = {})
        <3>1. ~Asking(s) /\ Refusing(s) = {} /\ (s \notin first => Own(s) = {})
            BY <2>2, <2>6, Zenon DEF DeclareOf
        <3>2. s \notin pending
            BY <3>1, Zenon DEF Asking
        <3> QED
            BY <2>1, <2>2, <2>3, <2>4, <3>1, <3>2, Zenon
    <2>7. Asking(s)' => Refusing(s)' = {}
        BY <2>1, <2>3, <2>5, Zenon DEF DeclareOf
    <2>8. ASSUME s \notin first', Asking(s)'
          PROVE  Own(s)' = {} /\ (server_open' => Awaits(s)')
        <3>1. s \notin first /\ Asking(s)
            BY <2>1, <2>2, <2>8, Zenon
        <3>2. Own(s) = {} /\ (server_open => Awaits(s)) /\ Refusing(s) = {}
            BY <3>1, Zenon DEF DeclareOf
        <3>3. Own(s)' = {}
            BY <2>4, <2>5, <2>8, <3>1, <3>2, Zenon
        <3>4. ASSUME server_open', ~Awaits(s)' PROVE FALSE
            <4>1. server_open /\ Awaits(s)
                BY <2>2, <3>2, <3>4, Zenon
            <4>2. opening = s
                BY <4>1, Zenon DEF Awaits
            <4>3. ~OpenFails
                BY <4>1, Zenon DEF OpenFails, ThreadInv
            <4>4. ~Opened
                BY <3>2, <4>2, AnswerTaken, Zenon
            <4> QED
                BY <3>4, <4>1, <4>3, <4>4, PhaseStep, Zenon
        <3> QED
            BY <3>3, <3>4, Zenon
    <2> QED
        BY <2>1, <2>6, <2>7, <2>8, Zenon DEF DeclareOf
<1> QED
    BY <1>1, <1>2, Zenon

(* Of the sessions of a service, open_service_inner takes the one that was *)
(* issued to the pane.                                                     *)
LEMMA OwnTaken ==
    ASSUME TypeOK, Links, GrantOrder, Opened, NEW n \in Sessions,
           SessionOf(n, opening)
    PROVE  Head(rx).kind = "Accepted" /\ Head(rx).session = n
<1> DEFINE k == Head(rx).session
<1>1. /\ rx # <<>> /\ rx \in Seq(Incoming) /\ Awaits(opening)
    BY Zenon DEF Opened, TypeOK, Awaits
<1>2. Head(rx).kind = "Accepted" /\ k \in Own(opening) /\ k \in Offered(rx)
    BY AnswerTaken, Zenon DEF SessionOf
<1>3. n =< k /\ n \in Offered(rx) \cup Offered(net)
    BY <1>1, <1>2, Zenon DEF SessionOf
<1>4. n \in Nat /\ k \in Nat
    BY <1>2, SMTT(30) DEF Own, Sessions, TypeOK
<1>5. k = n \/ k < n
    <2>1. CASE n \in Offered(rx)
        BY <1>1, <1>2, <2>1, OfferedHead, Zenon DEF GrantOrder
    <2>2. CASE n \in Offered(net)
        BY <1>2, <2>2, Zenon DEF GrantOrder, Ahead
    <2> QED
        BY <1>3, <2>1, <2>2, Zenon
<1> HIDE DEF k
<1>6. k = n
    BY <1>3, <1>4, <1>5
<1> QED
    BY <1>2, <1>6, Zenon DEF k

(* A session that was issued to the pane. *)
LEMMA SessionStays ==
    ASSUME TypeOK, Links, ThreadInv, GrantOrder, Next, NEW n \in Sessions,
           NEW s \in Services, s = granted[n].service, DeclareOf(s), SessionOf(n, s)
    PROVE  SessionOf(n, s)'
<1>1. /\ s \in registered /\ ~Asking(s) /\ Refusing(s) = {} /\ n \in Own(s)
      /\ s \notin pending
    BY Zenon DEF SessionOf, Own, Asking
<1>2. ~Open(s)
    BY <1>1, Zenon DEF Open
<1>3. ~Asking(s)'
    BY <1>1, <1>2, AskingStep, Zenon DEF DeclareOf
<1>4. Refusing(s)' = {}
    BY <1>1, RefusingStep, Zenon
<1>5. /\ registered \subseteq registered'
      /\ request_receivers \subseteq request_receivers'
      /\ phase = "stopped" => phase' = "stopped"
      /\ Awaits(s)' => Awaits(s)
      /\ Awaits(s) => Awaits(s)' \/ Opened \/ OpenFails
    BY <1>2, PhaseStep, Zenon
<1>6. \A k \in Own(s)' : n =< k
    <2>1. \A k \in Own(s)' : k \in Own(s) \/ k = Len(granted) + 1
        BY OwnStep, Zenon
    <2>2. n =< Len(granted) + 1
        BY SMTT(30) DEF TypeOK, Sessions
    <2> QED
        BY <2>1, <2>2, Zenon DEF SessionOf
<1>7. Awaits(s)' => n \in Offered(rx') \cup Offered(net')
    BY <1>1, <1>5, OffersStep, Zenon DEF SessionOf
<1>8. ASSUME ~Awaits(s)', phase' # "stopped", s \in Requesting
      PROVE  n \in request_receivers'
    <2>1. CASE ~Awaits(s)
        BY <1>5, <1>8, <2>1, Zenon DEF SessionOf
    <2>2. CASE Awaits(s) /\ Opened
        <3>1. opening = s
            BY <2>2, Zenon DEF Awaits
        <3>2. Head(rx).kind = "Accepted" /\ Head(rx).session = n
            BY <2>2, <3>1, OwnTaken, Zenon
        <3> QED
            BY <1>8, <2>2, <3>1, <3>2, Zenon DEF Opened, Register
    <2>3. CASE Awaits(s) /\ OpenFails
        <3>1. rx = <<>> /\ net = <<>>
            BY <2>3, Zenon DEF OpenFails, ThreadInv
        <3>2. Offered(rx) = {} /\ Offered(net) = {}
            BY <3>1 DEF Offered, Grants
        <3> QED
            BY <2>3, <3>2, Zenon DEF SessionOf
    <2> QED
        BY <1>5, <1>8, <2>1, <2>2, <2>3, Zenon
<1>9. ASSUME NEW h \in handles', h.service = s PROVE h.session = n
    <2>1. CASE h \in handles
        BY <1>9, <2>1, Zenon DEF SessionOf
    <2>2. CASE Opened /\ h.service = opening /\ h.session = Head(rx).session
        BY <1>9, <2>2, OwnTaken, Zenon
    <2> QED
        BY <2>1, <2>2, HandleStep, Zenon
<1> QED
    BY <1>1, <1>3, <1>4, <1>5, <1>6, <1>7, <1>8, <1>9, Zenon DEF SessionOf

(* The server issues a session to the pane. *)
LEMMA SessionStarts ==
    ASSUME TypeOK, Links, Held, NEW s \in pending, DeclareOf(s), s \notin first,
           Issue(s, "consumer"), pending' = pending \ {s}, ServerAnswers,
           NEW n, n = Len(granted) + 1
    PROVE  SessionOf(n, s)'
<1> USE DEF setup, inbox, outbox, server, ghosts
<1>1. /\ s \in Services /\ server_open /\ net \in Seq(Message) /\ receivers \subseteq Sessions
      /\ UNCHANGED <<phase, opening, registered, handles, wq, rx>>
    BY PlainTypes, Zenon DEF ServerAnswers, TypeOK, Types
<1>2. /\ Declaring(s) = {} /\ Refusing(s) = {} /\ Own(s) = {} /\ Awaits(s)
      /\ s \in registered
    BY <1>1, Zenon DEF DeclareOf, Asking
<1>3. /\ Own(s)' = Own(s) \cup {n} /\ n \in Nat
      /\ Accepted(s, n) \in Message /\ Post(Accepted(s, n))
    BY <1>1, Issued, SMTT(30)
<1>4. Declaring(s)' = {} /\ Awaits(s)' /\ ~Asking(s)' /\ s \in registered'
    BY <1>1, <1>2, Zenon DEF Declaring, Awaits, Asking
<1>5. /\ Accepted(s, n).kind = "Accepted" /\ Accepted(s, n).session = n
    BY Zenon DEF Accepted
<1>6. Refusing(s)' = {}
    BY <1>1, <1>2, <1>3, <1>5, PostRefusing, SMTT(30)
<1>7. n \in Offered(net')
    BY <1>1, <1>3, <1>5, AppendOffers, SMTT(30) DEF Post
<1>8. \A k \in Own(s)' : n =< k
    BY <1>2, <1>3, SMTT(30)
<1>9. \A h \in handles' : h.service # s
    <2>1. \A h \in handles : h.session \in Own(h.service)
        BY <1>1, Zenon DEF Held, Own
    <2> QED
        BY <1>1, <1>2, <2>1, Zenon
<1> QED
    BY <1>4, <1>6, <1>7, <1>8, <1>9, Zenon DEF SessionOf

(* Every step keeps the account of the sessions that were issued to the    *)
(* pane.                                                                   *)
LEMMA SessionStep ==
    ASSUME TypeOK, Links, Held, ThreadInv, GrantOrder, DeclareInv, SessionInv, Next
    PROVE  SessionInv'
<1>0. pending \subseteq Services /\ first \subseteq Services
    BY PaneAssumption, Zenon DEF TypeOK
<1> PICK n : n = Len(granted) + 1
    BY Zenon
<1>1. ASSUME NEW k \in Sessions, NEW s \in Services, Issues(k, s)'
      PROVE  SessionOf(k, s)'
    <2>1. granted'[k] = granted[k]
        BY OwnStep, Zenon
    <2>2. Issues(k, s)
        BY <1>1, <2>1, Zenon DEF Issues
    <2>3. SessionOf(k, s) /\ DeclareOf(s) /\ s = granted[k].service
        BY <2>2, Zenon DEF SessionInv, DeclareInv, Issues
    <2> QED
        BY <2>3, SessionStays, Zenon
<1>2. CASE UNCHANGED granted
    <2>1. Sessions' = Sessions
        BY <1>2, Zenon DEF Sessions
    <2> QED
        BY <1>1, <2>1, Zenon DEF SessionInv
<1>3. ASSUME NEW v \in first, Issue(v, "provider") PROVE SessionInv'
    <2>1. Sessions' = Sessions \cup {n} /\ granted'[n].side = "provider"
        BY <1>0, <1>3, Issued, SMTT(30)
    <2>2. \A s : ~Issues(n, s)'
        BY <2>1, Zenon DEF Issues
    <2> QED
        BY <1>1, <2>1, <2>2, Zenon DEF SessionInv
<1>4. ASSUME NEW v \in pending, v \notin first, Issue(v, "consumer"),
             pending' = pending \ {v}, ServerAnswers
      PROVE  SessionInv'
    <2>1. Sessions' = Sessions \cup {n} /\ granted'[n].service = v
        BY <1>0, <1>4, Issued, SMTT(30)
    <2>2. DeclareOf(v)
        BY <1>0, Zenon DEF DeclareInv
    <2>3. SessionOf(n, v)'
        BY <1>4, <2>2, SessionStarts, Zenon
    <2> QED
        BY <1>1, <2>1, <2>3, Zenon DEF SessionInv, Issues
<1> QED
    BY <1>2, <1>3, <1>4, GrantStep, Zenon

(* The requests on record stay as they are, and one more is refused only   *)
(* where it is dispatched and its session has no receiver.                 *)
LEMMA RefusedStep ==
    ASSUME TypeOK, Next
    PROVE  /\ \A r \in Ids : requests'[r] = requests[r]
           /\ \/ UNCHANGED refused
              \/ \E r \in Ids : /\ refused' = refused \cup {r}
                                /\ requests[r] \notin request_receivers
                                /\ phase \in {"drain", "running"}
                                /\ UNCHANGED <<requests, granted>>
<1> USE DEF setup, inbox, outbox, server, ghosts
<1>0. rx \in Seq(Incoming) /\ buffered \in Seq(Incoming) /\ requests \in Seq(Sessions)
    BY Zenon DEF TypeOK
<1>1. CASE UNCHANGED <<requests, refused>>
    BY <1>1, Zenon
<1>2. CASE \E s \in Services : Open(s)
    BY <1>1, <1>2, Zenon DEF Open
<1>3. CASE \/ Opened \/ Buffer \/ OpenFails \/ RunWith \/ StartLooper
           \/ ConnectionLost \/ Stopped \/ ForwarderEnds
    BY <1>1, <1>3, Zenon DEF Opened, Buffer, OpenFails, RunWith, StartLooper,
       ConnectionLost, Stopped, ForwarderEnds
<1>4. CASE \/ AnswerPort \/ DropHandle \/ KeepSender \/ DropSender
           \/ Reader \/ Writer \/ ServerAnswers \/ Promoted \/ ServerCloses
    BY <1>1, <1>4, Zenon DEF AnswerPort, DropHandle, KeepSender, DropSender, Reader,
       ReaderReads, ReaderEof, Writer, WriterWrites, WriterEnds, ServerAnswers,
       Promoted, ServerCloses
<1>5. ASSUME NEW r \in Ids, DispatchRequest(r), phase \in {"drain", "running"},
             UNCHANGED <<requests, granted>>
      PROVE  \/ UNCHANGED refused
             \/ /\ refused' = refused \cup {r} /\ requests[r] \notin request_receivers
    BY <1>5, Zenon DEF DispatchRequest
<1>6. CASE Drain
    <2>1. phase = "drain" /\ buffered # <<>> /\ UNCHANGED <<requests, granted>>
        BY <1>6, Zenon DEF Drain
    <2>2. CASE Head(buffered).kind = "Request" /\ DispatchRequest(Head(buffered).id)
        <3>1. Head(buffered).id \in Ids
            BY <1>0, <2>1, <2>2, TypedFields, AfterReceive, Zenon
        <3> QED
            BY <1>5, <2>1, <2>2, <3>1, Zenon
    <2> QED
        BY <1>1, <1>6, <2>1, <2>2, Zenon DEF Drain, Callback
<1>7. CASE Take
    <2>1. PICK i \in DOMAIN rx :
              IF rx[i].kind = "Request" THEN DispatchRequest(rx[i].id) ELSE Callback
        BY <1>7, Zenon DEF Take
    <2>2. phase = "running" /\ UNCHANGED <<requests, granted>>
        BY <1>7, Zenon DEF Take
    <2>3. CASE rx[i].kind = "Request" /\ DispatchRequest(rx[i].id)
        <3>1. rx[i].id \in Ids
            BY <1>0, <2>1, <2>3, TypedFields, SMTT(30)
        <3> QED
            BY <1>5, <2>2, <2>3, <3>1, SMTT(30)
    <2> QED
        BY <1>1, <2>1, <2>2, <2>3, SMTT(30) DEF Callback
<1>8. CASE Arrival
    <2>1. UNCHANGED refused
        BY <1>8, Zenon DEF Arrival
    <2>2. requests' = requests \/ \E n \in Sessions : requests' = Append(requests, n)
        BY <1>8, Zenon DEF Arrival, TypeOK
    <2>3. \A r \in Ids : requests'[r] = requests[r]
        BY <1>0, <2>2, SMTT(30) DEF Ids
    <2> QED
        BY <2>1, <2>3, Zenon
<1> QED
    BY <1>2, <1>3, <1>4, <1>6, <1>7, <1>8, Zenon DEF Next, Builder, Looper

(* A request that was refused for want of a receiver is none on a session  *)
(* that was issued to the pane and opened for requests.                    *)
RefuseInv ==
    \A r \in refused :
        LET g == granted[requests[r]]
        IN  g.service \in Requesting => g.side = "provider"

(* dispatch_request refuses a request only if the session has no receiver, *)
(* and no step takes back what the server granted.                         *)
LEMMA RefuseStep ==
    ASSUME TypeOK, Links, SessionInv, RefuseInv, Next
    PROVE  RefuseInv'
<1>1. \A r \in Ids : requests[r] \in Sessions
    BY SMTT(30) DEF TypeOK, Ids
<1>2. refused \subseteq Ids
    BY Zenon DEF TypeOK
<1>3. \A r \in Ids : granted'[requests'[r]] = granted[requests[r]]
    BY <1>1, RefusedStep, OwnStep, Zenon
<1>4. CASE UNCHANGED refused
    BY <1>2, <1>3, <1>4, Zenon DEF RefuseInv
<1>5. ASSUME NEW r \in Ids, refused' = refused \cup {r},
             requests[r] \notin request_receivers, phase \in {"drain", "running"}
      PROVE  RefuseInv'
    <2> DEFINE n == requests[r]
               v == granted[n].service
    <2>1. n \in Sessions /\ v \in Services /\ granted[n].side \in {"consumer", "provider"}
        <3> DEFINE G == [service : Services, side : {"consumer", "provider"}]
        <3>1. granted \in Seq(G) /\ n \in 1..Len(granted)
            BY <1>1, Zenon DEF TypeOK, Sessions
        <3> HIDE DEF G, n
        <3>2. granted[n] \in G
            BY ONLY <3>1
        <3> QED
            BY <3>1, <3>2, Zenon DEF G, Sessions
    <2>2. ASSUME v \in Requesting, granted[n].side = "consumer" PROVE FALSE
        <3>1. SessionOf(n, v)
            BY <2>1, <2>2, Zenon DEF SessionInv, Issues
        <3> HIDE DEF v, n
        <3>2. n \in request_receivers
            BY <1>5, <2>2, <3>1, Zenon DEF SessionOf, Awaits
        <3> QED
            BY <1>5, <3>2, Zenon DEF n
    <2>3. v \in Requesting => granted[n].side = "provider"
        BY <2>1, <2>2, Zenon
    <2>4. ASSUME NEW q \in refused', granted'[requests'[q]].service \in Requesting
          PROVE  granted'[requests'[q]].side = "provider"
        <3>1. q \in Ids /\ (q = r \/ q \in refused)
            BY <1>2, <1>5, Zenon
        <3>2. granted'[requests'[q]] = granted[requests[q]]
            BY <1>3, <3>1, Zenon
        <3>3. CASE q = r
            BY <2>3, <2>4, <3>2, <3>3, Zenon
        <3>4. CASE q \in refused
            BY <2>4, <3>2, <3>4, Zenon DEF RefuseInv
        <3> QED
            BY <3>1, <3>3, <3>4, Zenon
    <2> QED
        BY <2>4, Zenon DEF RefuseInv
<1> QED
    BY <1>4, <1>5, RefusedStep, Zenon

ReceiverInv ==
    ThreadInv /\ GrantOrder /\ DeclareInv /\ SessionInv /\ RefuseInv

(* The DeclareInterests, the offers and the sessions are accounted for     *)
(* throughout the life of a pane.                                          *)
THEOREM ReceiverCorrect == Spec => []ReceiverInv
<1>1. Init => ReceiverInv
    <2> SUFFICES ASSUME Init PROVE ReceiverInv
        BY Zenon
    <2>1. \A s : Declaring(s) = {} /\ Refusing(s) = {} /\ Own(s) = {}
        BY DEF Init, Declaring, Refusing, Own, Of, Sessions
    <2>2. DeclareInv
        BY <2>1, Zenon DEF Init, DeclareInv, DeclareOf, Asking, AtMost
    <2>3. Sessions = {} /\ Grants(rx) = {} /\ Grants(net) = {}
        BY DEF Init, Sessions, Grants
    <2>4. GrantOrder
        BY <2>3, Zenon DEF GrantOrder, Rising, Ahead, Offered
    <2> QED
        BY <2>2, <2>3, <2>4, Zenon DEF Init, ThreadInv, SessionInv, RefuseInv, ReceiverInv
<1>2. TypeOK /\ Links /\ Held /\ ReceiverInv /\ [Next]_vars => ReceiverInv'
    <2> SUFFICES ASSUME TypeOK, Links, Held, ReceiverInv, [Next]_vars
                 PROVE  ReceiverInv'
        BY Zenon
    <2> USE DEF ReceiverInv
    <2>1. CASE Next
        <3>1. ThreadInv'
            BY <2>1, ThreadStep, Zenon
        <3>2. GrantOrder'
            BY <2>1, GrantOrderStep, Zenon
        <3>3. DeclareInv'
            BY <2>1, DeclareStep, Zenon DEF DeclareInv
        <3>4. SessionInv'
            BY <2>1, SessionStep, Zenon
        <3>5. RefuseInv'
            BY <2>1, RefuseStep, Zenon
        <3> QED
            BY <3>1, <3>2, <3>3, <3>4, <3>5, Zenon
    <2>2. CASE UNCHANGED vars
        <3> USE DEF vars, setup, inbox, outbox, server, ghosts
        <3>1. \A s : /\ Declaring(s)' = Declaring(s) /\ Refusing(s)' = Refusing(s)
                     /\ Own(s)' = Own(s) /\ Awaits(s)' = Awaits(s)
                     /\ Asking(s)' = Asking(s)
            BY <2>2, Zenon DEF Declaring, Refusing, Own, Of, Sessions, Awaits, Asking
        <3>2. DeclareInv'
            BY <2>2, <3>1, Zenon DEF DeclareInv, DeclareOf
        <3>3. ThreadInv' /\ GrantOrder'
            BY <2>2, Zenon DEF ThreadInv, GrantOrder
        <3>4. SessionInv'
            BY <2>2, <3>1, Zenon DEF SessionInv, SessionOf, Issues, Sessions
        <3>5. RefuseInv'
            BY <2>2 DEF RefuseInv
        <3> QED
            BY <3>2, <3>3, <3>4, <3>5, Zenon
    <2> QED
        BY <2>1, <2>2, Zenon
<1>3. PaneInv => TypeOK /\ Links /\ Held
    BY Zenon DEF PaneInv
<1> QED
    BY <1>1, <1>2, <1>3, PaneCorrect, PTL DEF Spec

(* A request on a session the pane opened with open_service_with_requests  *)
(* is never refused for want of a receiver, whatever arrived while another *)
(* service was being opened.                                               *)
THEOREM ReceiversKnown == Spec => []ReceiverKnown
<1>1. ReceiverInv => ReceiverKnown
    BY Zenon DEF ReceiverInv, RefuseInv, ReceiverKnown
<1> QED
    BY <1>1, ReceiverCorrect, PTL

(* A handle has the session the server issued to the pane for its service, *)
(* if it issued one, although open_service matches InterestAccepted by the *)
(* service only and the pane may become the first provider of the service  *)
(* at any time.                                                            *)
THEOREM OwnSessionCorrect == Spec => []OwnSession
<1>1. PaneInv /\ ReceiverInv => OwnSession
    <2> SUFFICES ASSUME PaneInv, ReceiverInv PROVE OwnSession
        BY Zenon
    <2>1. TypeOK /\ Held /\ SessionInv
        BY Zenon DEF PaneInv, ReceiverInv
    <2>2. ASSUME NEW h \in handles, NEW n \in Sessions,
                 granted[h.session].side = "provider",
                 granted[n] = [service |-> h.service, side |-> "consumer"]
          PROVE  FALSE
        <3>1. granted[n].service = h.service /\ granted[n].side = "consumer"
            BY <2>2
        <3>2. Issues(n, h.service) /\ h.service \in Services
            BY <2>1, <3>1, Zenon DEF Issues, TypeOK
        <3>3. h.session = n
            BY <2>1, <3>2, Zenon DEF SessionInv, SessionOf
        <3> QED
            BY <2>2, <3>1, <3>3, Zenon
    <2> QED
        BY <2>1, <2>2, Zenon DEF Held, OwnSession
<1> QED
    BY <1>1, PaneCorrect, ReceiverCorrect, PTL
=============================================================================
