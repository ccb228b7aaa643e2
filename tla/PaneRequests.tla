---------------------------- MODULE PaneRequests ----------------------------
(***************************************************************************)
(* Proofs about the requests of PaneClient: the order in which the handler *)
(* gets them, and where each of them is until it is answered.              *)
(***************************************************************************)
EXTENDS PaneProofs, FiniteSetTheorems

Asks(q) == {i \in DOMAIN q : q[i].kind = "Request"}
Asked(q) == {q[i].id : i \in Asks(q)}
Sorted(q) == \A i, j \in Asks(q) : i < j => q[i].id < q[j].id
Below(A, B) == \A a \in A, b \in B : a < b

(* The requests that have been dispatched, those in buffered_messages,     *)
(* those in rx and those on their way to the reader are in the order in    *)
(* which the server sent them, each queue and all four one after another.  *)
Ordered(h, b, r, n) ==
    /\ \A i, j \in DOMAIN h : i < j => h[i] < h[j]
    /\ Sorted(b) /\ Sorted(r) /\ Sorted(n)
    /\ Below(Range(h), Asked(b)) /\ Below(Range(h), Asked(r))
    /\ Below(Range(h), Asked(n))
    /\ Below(Asked(b), Asked(r)) /\ Below(Asked(b), Asked(n))
    /\ Below(Asked(r), Asked(n))

OrderInv ==
    /\ Ordered(handled, buffered, rx, net)
    /\ phase = "running" => buffered = <<>>

-----------------------------------------------------------------------------
(* Requests in queues *)

(* What remains of a queue asks nothing new, and keeps its order. *)
LEMMA PartAsked ==
    ASSUME NEW p, NEW q, Part(p, q)
    PROVE  Asked(p) \subseteq Asked(q) /\ (Sorted(q) => Sorted(p))
<1>1. PICK f \in [DOMAIN p -> DOMAIN q] :
          /\ \A i \in DOMAIN p : p[i] = q[f[i]]
          /\ \A i, j \in DOMAIN p : i < j => f[i] < f[j]
    BY Zenon DEF Part
<1>2. \A i \in Asks(p) : f[i] \in Asks(q) /\ p[i] = q[f[i]] /\ i \in DOMAIN p
    BY <1>1, Zenon DEF Asks
<1> QED
    BY <1>1, <1>2, SMTT(30) DEF Asked, Sorted

(* The first message of a queue, and the rest of it. *)
LEMMA HeadAsked ==
    ASSUME NEW S, NEW q \in Seq(S), q # <<>>
    PROVE  /\ Head(q).kind = "Request" =>
                 /\ Asked(q) = Asked(Tail(q)) \cup {Head(q).id}
                 /\ Sorted(q) => Below({Head(q).id}, Asked(Tail(q)))
           /\ Head(q).kind # "Request" => Asked(q) = Asked(Tail(q))
<1> DEFINE t == Tail(q)
           h == Head(q)
<1>1. /\ DOMAIN t = 1..(Len(q) - 1) /\ Len(q) \in Nat /\ DOMAIN q = 1..Len(q)
      /\ \A i \in 1..(Len(q) - 1) : t[i] = q[i + 1]
      /\ h = q[1] /\ 1 \in 1..Len(q)
    OBVIOUS
<1> HIDE DEF t, h
<1>2. \A i \in Asks(t) : i + 1 \in Asks(q) /\ t[i] = q[i + 1] /\ 1 < i + 1
    BY <1>1 DEF Asks
<1>3. \A i \in Asks(q) : i = 1 \/ (i - 1 \in Asks(t) /\ t[i - 1] = q[i])
    <2> SUFFICES ASSUME NEW i \in Asks(q), i # 1
                 PROVE  i - 1 \in Asks(t) /\ t[i - 1] = q[i]
        BY Zenon
    <2>1. i \in 1..Len(q) /\ q[i].kind = "Request"
        BY <1>1, Zenon DEF Asks
    <2>2. i - 1 \in 1..(Len(q) - 1) /\ (i - 1) + 1 = i
        BY <1>1, <2>1, SMTT(30)
    <2> QED
        BY <1>1, <2>1, <2>2, Zenon DEF Asks
<1>4. h.kind = "Request" <=> 1 \in Asks(q)
    BY <1>1, Zenon DEF Asks
<1>5. ASSUME h.kind = "Request" PROVE Asked(q) = Asked(t) \cup {h.id}
    BY <1>1, <1>2, <1>3, <1>4, <1>5, SMTT(30) DEF Asked
<1>6. ASSUME h.kind # "Request" PROVE Asked(q) = Asked(t)
    <2>1. \A i \in Asks(q) : i - 1 \in Asks(t) /\ t[i - 1] = q[i]
        BY <1>3, <1>4, <1>6, Zenon
    <2>2. \A i \in Asks(q) : q[i].id \in Asked(t)
        BY <2>1, Zenon DEF Asked
    <2>3. \A i \in Asks(t) : t[i].id \in Asked(q)
        BY <1>2, Zenon DEF Asked
    <2> QED
        BY <2>2, <2>3, Zenon DEF Asked
<1>7. ASSUME h.kind = "Request", Sorted(q) PROVE Below({h.id}, Asked(t))
    <2> SUFFICES ASSUME NEW i \in Asks(t) PROVE h.id < t[i].id
        BY Zenon DEF Below, Asked
    <2> QED
        BY <1>1, <1>2, <1>4, <1>7, Zenon DEF Sorted
<1> QED
    BY <1>5, <1>6, <1>7, Zenon DEF h, t

(* A message at the end of a queue. *)
LEMMA AppendAsked ==
    ASSUME NEW S, NEW q \in Seq(S), NEW m \in S
    PROVE  /\ m.kind = "Request" =>
                 /\ Asked(Append(q, m)) = Asked(q) \cup {m.id}
                 /\ (Sorted(q) /\ Below(Asked(q), {m.id})) => Sorted(Append(q, m))
           /\ m.kind # "Request" =>
                 /\ Asked(Append(q, m)) = Asked(q)
                 /\ Sorted(q) => Sorted(Append(q, m))
<1> DEFINE p == Append(q, m)
           n == Len(q) + 1
<1>1. /\ DOMAIN p = 1..n /\ p[n] = m /\ n \in Nat /\ Len(q) \in Nat
      /\ \A i \in 1..Len(q) : p[i] = q[i] /\ i < n
      /\ DOMAIN q = 1..Len(q) /\ n \notin 1..Len(q) /\ 1..n = 1..Len(q) \cup {n}
    OBVIOUS
<1>2. \A i \in 1..Len(q) : ~(n < i)
    BY <1>1
<1>a. ~(n < n)
    BY <1>1
<1> HIDE DEF p, n
<1>3. m.kind # "Request" => Asks(p) = Asks(q)
    BY <1>1, Zenon DEF Asks
<1>4. m.kind = "Request" => Asks(p) = Asks(q) \cup {n}
    BY <1>1, Zenon DEF Asks
<1>5. \A i \in Asks(q) : p[i] = q[i] /\ i < n /\ ~(n < i)
    BY <1>1, <1>2, Zenon DEF Asks
<1>6. ASSUME m.kind = "Request" PROVE Asked(p) = Asked(q) \cup {m.id}
    BY <1>1, <1>4, <1>5, <1>6, SMTT(30) DEF Asked
<1>7. ASSUME m.kind # "Request" PROVE Asked(p) = Asked(q)
    BY <1>3, <1>5, <1>7, Zenon DEF Asked
<1>8. ASSUME m.kind # "Request", Sorted(q) PROVE Sorted(p)
    BY <1>3, <1>5, <1>8, SMTT(30) DEF Sorted
<1>9. ASSUME m.kind = "Request", Sorted(q), Below(Asked(q), {m.id}) PROVE Sorted(p)
    <2>1. \A i \in Asks(q) : q[i].id < m.id
        BY <1>9, Zenon DEF Below, Asked
    <2> QED
        BY <1>1, <1>4, <1>5, <1>9, <1>a, <2>1, SMTT(30) DEF Sorted
<1> QED
    BY <1>6, <1>7, <1>8, <1>9, Zenon DEF p

(* Without its first message a queue is its tail. *)
LEMMA WithoutFirst ==
    ASSUME NEW S, NEW q \in Seq(S), q # <<>>
    PROVE  Without(q, 1) = Tail(q)
<1>1. Len(q) \in Nat /\ 1 =< Len(q) /\ 1 - 1 = 0 /\ 1 + 1 = 2
    OBVIOUS
<1>2. /\ SubSeq(q, 1, 0) \in Seq(S) /\ Len(SubSeq(q, 1, 0)) = 0
    BY <1>1, Slice, SMTT(30)
<1>3. SubSeq(q, 1, 0) = <<>>
    BY <1>2
<1>4. SubSeq(q, 2, Len(q)) = Tail(q)
    BY <1>1, TailIsSubSeq, Zenon
<1>5. <<>> \o Tail(q) = Tail(q)
    OBVIOUS
<1> QED
    BY <1>1, <1>3, <1>4, <1>5, Zenon DEF Without

-----------------------------------------------------------------------------
(* The order of the requests *)

(* Messages that are taken out of the queues. *)
LEMMA PartOrdered ==
    ASSUME NEW h, NEW b, NEW r, NEW n, NEW b1, NEW r1, NEW n1,
           Part(b1, b), Part(r1, r), Part(n1, n), Ordered(h, b, r, n)
    PROVE  Ordered(h, b1, r1, n1)
<1>1. /\ Asked(b1) \subseteq Asked(b) /\ Asked(r1) \subseteq Asked(r)
      /\ Asked(n1) \subseteq Asked(n)
    BY PartAsked, Zenon
<1>2. Sorted(b1) /\ Sorted(r1) /\ Sorted(n1)
    BY PartAsked, Zenon DEF Ordered
<1> QED
    BY <1>1, <1>2, Zenon DEF Ordered, Below

(* A message that moves to the end of the queue before. *)
LEMMA MoveKeeps ==
    ASSUME NEW S, NEW p \in Seq(S), NEW q \in Seq(S), q # <<>>,
           Sorted(p), Sorted(q), Below(Asked(p), Asked(q))
    PROVE  /\ Sorted(Append(p, Head(q))) /\ Sorted(Tail(q))
           /\ Below(Asked(Append(p, Head(q))), Asked(Tail(q)))
           /\ Asked(Append(p, Head(q))) \subseteq Asked(p) \cup Asked(q)
           /\ Asked(Tail(q)) \subseteq Asked(q)
<1> DEFINE m == Head(q)
<1>1. m \in S /\ Part(Tail(q), q)
    BY TailPart, HeadTailProperties, Zenon
<1>2. Asked(Tail(q)) \subseteq Asked(q) /\ Sorted(Tail(q))
    BY <1>1, PartAsked, Zenon
<1>3. CASE m.kind = "Request"
    <2>1. m.id \in Asked(q) /\ Below({m.id}, Asked(Tail(q)))
        BY <1>3, HeadAsked, Zenon
    <2>2. Below(Asked(p), {m.id})
        BY <2>1, Zenon DEF Below
    <2>3. Asked(Append(p, m)) = Asked(p) \cup {m.id} /\ Sorted(Append(p, m))
        BY <1>1, <1>3, <2>2, AppendAsked, SMTT(30)
    <2> QED
        BY <1>2, <2>1, <2>3, Zenon DEF Below
<1>4. CASE m.kind # "Request"
    <2>1. Asked(Append(p, m)) = Asked(p) /\ Sorted(Append(p, m))
        BY <1>1, <1>4, AppendAsked, ZenonT(30)
    <2> QED
        BY <1>2, <2>1, Zenon DEF Below
<1> QED
    BY <1>3, <1>4, Zenon

(* open_service_inner buffers the first message of rx. *)
LEMMA BufferOrdered ==
    ASSUME NEW S, NEW h, NEW b \in Seq(S), NEW r \in Seq(S), NEW n, r # <<>>,
           Ordered(h, b, r, n)
    PROVE  Ordered(h, Append(b, Head(r)), Tail(r), n)
<1>1. /\ Sorted(Append(b, Head(r))) /\ Sorted(Tail(r))
      /\ Below(Asked(Append(b, Head(r))), Asked(Tail(r)))
      /\ Asked(Append(b, Head(r))) \subseteq Asked(b) \cup Asked(r)
      /\ Asked(Tail(r)) \subseteq Asked(r)
    BY MoveKeeps, Zenon DEF Ordered
<1> QED
    BY <1>1, Zenon DEF Ordered, Below

(* The reader passes on the first message on the wire. *)
LEMMA ReadOrdered ==
    ASSUME NEW S, NEW h, NEW b, NEW r \in Seq(S), NEW n \in Seq(S), n # <<>>,
           Ordered(h, b, r, n)
    PROVE  Ordered(h, b, Append(r, Head(n)), Tail(n))
<1>1. /\ Sorted(Append(r, Head(n))) /\ Sorted(Tail(n))
      /\ Below(Asked(Append(r, Head(n))), Asked(Tail(n)))
      /\ Asked(Append(r, Head(n))) \subseteq Asked(r) \cup Asked(n)
      /\ Asked(Tail(n)) \subseteq Asked(n)
    BY MoveKeeps, Zenon DEF Ordered
<1> QED
    BY <1>1, Zenon DEF Ordered, Below

(* The handler gets a request that is above those it got before. *)
LEMMA HandledOrdered ==
    ASSUME NEW S, NEW h \in Seq(S), NEW e \in S, Below(Range(h), {e}),
           \A i, j \in DOMAIN h : i < j => h[i] < h[j]
    PROVE  /\ \A i, j \in DOMAIN Append(h, e) :
                 i < j => Append(h, e)[i] < Append(h, e)[j]
           /\ Range(Append(h, e)) = Range(h) \cup {e}
<1> DEFINE p == Append(h, e)
           n == Len(h) + 1
<1>1. /\ DOMAIN p = 1..n /\ p[n] = e /\ n \in Nat /\ Len(h) \in Nat
      /\ \A i \in 1..Len(h) : p[i] = h[i]
      /\ DOMAIN h = 1..Len(h) /\ 1..n = 1..Len(h) \cup {n}
    BY SMTT(30)
<1>2. ~(n < n) /\ \A i \in 1..Len(h) : ~(n < i)
    BY <1>1, SMTT(30)
<1> HIDE DEF p, n
<1>3. \A i \in 1..Len(h) : h[i] < e
    BY <1>1, Zenon DEF Below, Range
<1>4. \A i, j \in DOMAIN p : i < j => p[i] < p[j]
    BY <1>1, <1>2, <1>3, Zenon
<1>5. Range(p) = Range(h) \cup {e}
    BY AppendRange, SMTT(30) DEF p
<1> QED
    BY <1>4, <1>5, Zenon DEF p

(* run_with dispatches a buffered request. *)
LEMMA DrainOrdered ==
    ASSUME NEW S, NEW T, NEW h \in Seq(T), NEW b \in Seq(S), NEW r, NEW n,
           b # <<>>, Head(b).kind = "Request", Head(b).id \in T,
           Ordered(h, b, r, n)
    PROVE  Ordered(Append(h, Head(b).id), Tail(b), r, n)
<1> DEFINE e == Head(b).id
<1>1. e \in Asked(b) /\ Below({e}, Asked(Tail(b)))
    BY HeadAsked, Zenon DEF Ordered
<1>2. Asked(Tail(b)) \subseteq Asked(b) /\ Sorted(Tail(b))
    BY TailPart, PartAsked, Zenon DEF Ordered
<1> HIDE DEF e
<1>3. Below(Range(h), {e})
    BY <1>1, Zenon DEF Ordered, Below
<1>4. e \in T
    BY Zenon DEF e
<1>5. /\ \A i, j \in DOMAIN Append(h, e) :
             i < j => Append(h, e)[i] < Append(h, e)[j]
      /\ Range(Append(h, e)) = Range(h) \cup {e}
    BY <1>3, <1>4, HandledOrdered, SMTT(30) DEF Ordered
<1>6. Ordered(Append(h, e), Tail(b), r, n)
    BY <1>1, <1>2, <1>5, Zenon DEF Ordered, Below
<1> QED
    BY <1>6, Zenon DEF e

(* The looper dispatches the first request of rx: none is buffered. *)
LEMMA TakeOrdered ==
    ASSUME NEW S, NEW T, NEW h \in Seq(T), NEW r \in Seq(S), NEW b, NEW n,
           r # <<>>, Head(r).kind = "Request", Head(r).id \in T,
           Asked(b) = {}, Ordered(h, b, r, n)
    PROVE  Ordered(Append(h, Head(r).id), b, Tail(r), n)
<1> DEFINE e == Head(r).id
<1>1. e \in Asked(r) /\ Below({e}, Asked(Tail(r)))
    BY HeadAsked, Zenon DEF Ordered
<1>2. Asked(Tail(r)) \subseteq Asked(r) /\ Sorted(Tail(r))
    BY TailPart, PartAsked, Zenon DEF Ordered
<1> HIDE DEF e
<1>3. Below(Range(h), {e})
    BY <1>1, Zenon DEF Ordered, Below
<1>4. e \in T
    BY Zenon DEF e
<1>5. /\ \A i, j \in DOMAIN Append(h, e) :
             i < j => Append(h, e)[i] < Append(h, e)[j]
      /\ Range(Append(h, e)) = Range(h) \cup {e}
    BY <1>3, <1>4, HandledOrdered, SMTT(30) DEF Ordered
<1>6. Ordered(Append(h, e), b, Tail(r), n)
    BY <1>1, <1>2, <1>5, Zenon DEF Ordered, Below
<1> QED
    BY <1>6, Zenon DEF e

(* The server sends a message; a request is above all those before. *)
LEMMA PostOrdered ==
    ASSUME NEW S, NEW h, NEW b, NEW r, NEW n \in Seq(S), NEW m \in S,
           m.kind = "Request" =>
              /\ Below(Range(h), {m.id}) /\ Below(Asked(b), {m.id})
              /\ Below(Asked(r), {m.id}) /\ Below(Asked(n), {m.id}),
           Ordered(h, b, r, n)
    PROVE  Ordered(h, b, r, Append(n, m))
<1>1. CASE m.kind = "Request"
    <2>1. Asked(Append(n, m)) = Asked(n) \cup {m.id} /\ Sorted(Append(n, m))
        BY <1>1, AppendAsked, SMTT(30) DEF Ordered
    <2> QED
        BY <1>1, <2>1, Zenon DEF Ordered, Below
<1>2. CASE m.kind # "Request"
    <2>1. Asked(Append(n, m)) = Asked(n) /\ Sorted(Append(n, m))
        BY <1>2, AppendAsked, SMTT(30) DEF Ordered
    <2> QED
        BY <2>1, Zenon DEF Ordered
<1> QED
    BY <1>1, <1>2, Zenon

-----------------------------------------------------------------------------
(* An action that only takes messages out of the queues. *)
LEMMA PartOrder ==
    ASSUME OrderInv, UNCHANGED handled, Part(buffered', buffered), Part(rx', rx),
           Part(net', net), phase' = "running" => buffered' = <<>>
    PROVE  OrderInv'
<1>1. Ordered(handled, buffered, rx, net)
    BY Zenon DEF OrderInv
<1>2. Ordered(handled, buffered', rx', net')
    BY ONLY <1>1, PartOrdered, Part(buffered', buffered), Part(rx', rx),
            Part(net', net), Zenon
<1> QED
    BY <1>2, Zenon DEF OrderInv

(* An action that sends no request to the pane, and takes no message. *)
LEMMA PostOrder ==
    ASSUME OrderInv, UNCHANGED <<phase, handled, buffered, rx>>,
           NEW S, net \in Seq(S), NEW m \in S, Post(m), m.kind # "Request"
    PROVE  OrderInv'
<1>1. Ordered(handled, buffered, rx, Append(net, m))
    BY PostOrdered, Zenon DEF OrderInv
<1> QED
    BY <1>1, Zenon DEF OrderInv, Post

(* The ids of the requests anywhere are those of requests that were sent. *)
LEMMA AskedIds ==
    ASSUME TypeOK
    PROVE  /\ Asked(net) \subseteq Ids /\ Asked(rx) \subseteq Ids
           /\ Asked(buffered) \subseteq Ids /\ Range(handled) \subseteq Ids
<1>1. \A q \in Seq(Incoming) : Asked(q) \subseteq Ids
    <2> SUFFICES ASSUME NEW q \in Seq(Incoming), NEW i \in Asks(q)
                 PROVE  q[i].id \in Ids
        BY Zenon DEF Asked
    <2>1. q[i] \in Incoming /\ q[i].kind = "Request"
        BY DEF Asks
    <2> QED
        BY <2>1, TypedFields, Zenon
<1>2. \A i \in DOMAIN handled : handled[i] \in Ids
    BY DEF TypeOK
<1> QED
    BY <1>1, <1>2, Zenon DEF TypeOK, Range

(* Every step keeps the order of the requests. *)
LEMMA OrderStep ==
    ASSUME TypeOK, OrderInv, Next
    PROVE  OrderInv'
<1> USE DEF setup, inbox, outbox, server, ghosts
<1>0. /\ net \in Seq(Incoming) /\ rx \in Seq(Incoming) /\ buffered \in Seq(Incoming)
      /\ handled \in Seq(Ids)
    BY Zenon DEF TypeOK
<1>1. CASE /\ UNCHANGED <<handled, buffered, rx, net>>
           /\ phase' = "running" => phase = "running" \/ buffered = <<>>
    BY <1>1, Zenon DEF OrderInv
<1>2. ASSUME NEW s \in Services, Open(s) PROVE OrderInv'
    BY <1>1, <1>2, Zenon DEF Open
<1>3. CASE OpenFails \/ RunWith \/ StartLooper \/ ConnectionLost \/ ReaderEof
    BY <1>1, <1>3, Zenon DEF OpenFails, RunWith, StartLooper, ConnectionLost, ReaderEof
<1>4. CASE \/ AnswerPort \/ DropHandle \/ KeepSender \/ DropSender
           \/ WriterEnds \/ ServerCloses
    BY <1>1, <1>4, Zenon DEF AnswerPort, DropHandle, KeepSender, DropSender,
       WriterEnds, ServerCloses
<1>5. CASE Opened
    <2>1. /\ rx # <<>> /\ rx' = Tail(rx) /\ phase' = "setup"
          /\ UNCHANGED <<handled, buffered, net>>
        BY <1>5, Zenon DEF Opened
    <2>2. Part(rx', rx) /\ Part(buffered', buffered) /\ Part(net', net)
        BY <1>0, <2>1, TailPart, SamePart, Zenon
    <2> QED
        BY <2>1, <2>2, PartOrder, Zenon
<1>6. CASE Buffer
    <2>1. /\ rx # <<>> /\ rx' = Tail(rx) /\ buffered' = Append(buffered, Head(rx))
          /\ UNCHANGED <<handled, net>> /\ phase' = "waiting"
        BY <1>6, Zenon DEF Buffer
    <2>2. Ordered(handled, Append(buffered, Head(rx)), Tail(rx), net)
        BY <1>0, <2>1, BufferOrdered, Zenon DEF OrderInv
    <2> QED
        BY <2>1, <2>2, Zenon DEF OrderInv
<1>7. CASE Drain
    <2>1. /\ phase = "drain" /\ buffered # <<>> /\ buffered' = Tail(buffered)
          /\ UNCHANGED <<rx, net>>
        BY <1>7, Zenon DEF Drain
    <2>2. phase' # "running"
        BY <1>7, <2>1, Zenon DEF Drain, DispatchRequest, Callback, Resume
    <2>3. CASE Head(buffered).kind = "Request" /\ DispatchRequest(Head(buffered).id)
        <3>1. handled' = Append(handled, Head(buffered).id)
            BY <2>3, Zenon DEF DispatchRequest
        <3>2. Head(buffered) \in Incoming
            BY <1>0, <2>1, SMTT(30)
        <3>3. Head(buffered).id \in Ids
            BY <2>3, <3>2, TypedFields, Zenon
        <3>4. Ordered(Append(handled, Head(buffered).id), Tail(buffered), rx, net)
            BY <1>0, <2>1, <2>3, <3>3, DrainOrdered, Zenon DEF OrderInv
        <3> QED
            BY <2>1, <2>2, <3>1, <3>4, Zenon DEF OrderInv
    <2>4. CASE UNCHANGED handled
        <3>1. Part(rx', rx) /\ Part(buffered', buffered) /\ Part(net', net)
            BY <1>0, <2>1, TailPart, SamePart, Zenon
        <3> QED
            BY <2>2, <2>4, <3>1, PartOrder, Zenon
    <2> QED
        BY <1>7, <2>3, <2>4, Zenon DEF Drain, Callback
<1>8. CASE Take
    <2>1. PICK i \in DOMAIN rx :
              /\ MayTake(i)
              /\ IF rx[i].kind = "Request" THEN DispatchRequest(rx[i].id)
                 ELSE Callback
              /\ rx' = Without(rx, i)
        BY <1>8, Zenon DEF Take
    <2>2. /\ phase = "running" /\ buffered = <<>>
          /\ UNCHANGED <<buffered, net>>
        BY <1>8, Zenon DEF Take, OrderInv
    <2>3. CASE rx[i].kind = "Request"
        <3>1. i = 1
            BY <2>1, <2>3, Zenon DEF MayTake
        <3>2. rx # <<>> /\ Head(rx) = rx[1]
            BY <1>0, <2>1, SMTT(30)
        <3>3. rx' = Tail(rx) /\ handled' = Append(handled, Head(rx).id)
            BY <1>0, <2>1, <2>3, <3>1, <3>2, WithoutFirst, Zenon DEF DispatchRequest
        <3>4. Head(rx) \in Incoming /\ Head(rx).kind = "Request"
            BY <1>0, <2>3, <3>1, <3>2, SMTT(30)
        <3>5. Head(rx).id \in Ids
            BY <3>4, TypedFields, Zenon
        <3>6. Asked(buffered) = {}
            BY <2>2, SMTT(30) DEF Asked, Asks
        <3>7. Ordered(Append(handled, Head(rx).id), buffered, Tail(rx), net)
            BY <1>0, <3>2, <3>4, <3>5, <3>6, TakeOrdered, Zenon DEF OrderInv
        <3> QED
            BY <2>2, <3>3, <3>7, Zenon DEF OrderInv
    <2>4. CASE rx[i].kind # "Request"
        <3>1. UNCHANGED handled
            BY <2>1, <2>4, Zenon DEF Callback
        <3>2. Part(rx', rx) /\ Part(buffered', buffered) /\ Part(net', net)
            BY <1>0, <2>1, <2>2, WithoutPart, SamePart, Zenon
        <3> QED
            BY <2>2, <3>1, <3>2, PartOrder, Zenon
    <2> QED
        BY <2>3, <2>4, Zenon
<1>9. CASE Stopped
    <2>1. PICK k \in 0..Len(rx) : rx' = SubSeq(rx, k + 1, Len(rx))
        BY <1>9, Zenon DEF Stopped
    <2>2. UNCHANGED <<handled, buffered, net>> /\ phase' = "stopped"
        BY <1>9, Zenon DEF Stopped
    <2>3. Part(rx', rx) /\ Part(buffered', buffered) /\ Part(net', net)
        BY <1>0, <2>1, <2>2, SuffixPart, SamePart, Zenon
    <2> QED
        BY <2>2, <2>3, PartOrder, Zenon
<1>10. CASE ForwarderEnds
    <2>1. /\ UNCHANGED <<handled, buffered, net>> /\ rx' = <<>> /\ phase' = "stopped"
        BY <1>10, Zenon DEF ForwarderEnds
    <2>2. Asked(rx') = {} /\ Sorted(rx')
        BY <2>1, SMTT(30) DEF Asked, Asks, Sorted
    <2> QED
        BY <2>1, <2>2, Zenon DEF OrderInv, Ordered, Below
<1>11. CASE ReaderReads
    <2>1. /\ net # <<>> /\ net' = Tail(net)
          /\ UNCHANGED <<phase, handled, buffered>>
        BY <1>11, Zenon DEF ReaderReads
    <2>2. CASE rx' = Append(rx, Head(net))
        <3>1. Ordered(handled, buffered, Append(rx, Head(net)), Tail(net))
            BY <1>0, <2>1, ReadOrdered, Zenon DEF OrderInv
        <3> QED
            BY <2>1, <2>2, <3>1, Zenon DEF OrderInv
    <2>3. CASE UNCHANGED rx
        <3>1. Part(rx', rx) /\ Part(buffered', buffered) /\ Part(net', net)
            BY <1>0, <2>1, <2>3, TailPart, SamePart, Zenon
        <3>2. phase' = "running" => buffered' = <<>>
            BY <2>1, Zenon DEF OrderInv
        <3> QED
            BY <2>1, <3>1, <3>2, PartOrder, Zenon
    <2> QED
        BY <1>11, <2>2, <2>3, Zenon DEF ReaderReads
<1>12. CASE WriterWrites
    <2> DEFINE n == Head(wq).session
    <2>1. /\ UNCHANGED <<phase, handled, buffered, rx>>
          /\ \/ UNCHANGED net
             \/ Head(wq).kind = "Revoke" /\ Post(Teardown(n))
        <3>1. Head(wq) \in Outgoing /\ Processed(Head(wq))
            BY <1>12, AfterReceive, Zenon DEF WriterWrites, TypeOK
        <3>2. Head(wq).kind \in {"Declare", "Revoke", "Answer"}
            BY <3>1, TypedFields, Zenon
        <3> QED
            BY <1>12, <3>1, <3>2, Zenon DEF WriterWrites, Processed, Post
    <2>2. CASE UNCHANGED net
        BY <1>1, <2>1, <2>2, Zenon
    <2>3. CASE Head(wq).kind = "Revoke" /\ Post(Teardown(n))
        <3>1. Head(wq) \in Outgoing
            BY <1>12, AfterReceive, Zenon DEF WriterWrites, TypeOK
        <3>2. Teardown(n) \in Incoming /\ Teardown(n).kind # "Request"
            BY <2>3, <3>1, TypedFields, Incomings, Zenon DEF Teardown
        <3> QED
            BY <1>0, <2>1, <2>3, <3>2, PostOrder, Zenon
    <2> QED
        BY <2>1, <2>2, <2>3, Zenon
<1>13. ASSUME NEW s \in Services, NEW side, Issue(s, side),
              UNCHANGED <<phase, handled, buffered, rx>>
       PROVE  OrderInv'
    <2> DEFINE n == Len(granted) + 1
               S == Message
    <2>1. /\ Accepted(s, n) \in Message /\ Accepted(s, n).kind # "Request"
          /\ net \in Seq(Message) /\ Post(Accepted(s, n))
        <3>1. Len(granted) \in Nat
            BY DEF TypeOK
        <3>2. n \in Nat
            BY <3>1, SMTT(30)
        <3>3. Accepted(s, n) \in Message /\ Accepted(s, n).kind # "Request"
            BY <3>2, Kinds, Zenon DEF Accepted
        <3> QED
            BY <1>13, <3>3, PlainTypes, Zenon DEF Issue, Types
    <2> HIDE DEF n
    <2> QED
        BY <1>13, <2>1, PostOrder, Zenon
<1>14. CASE ServerAnswers
    <2>1. PICK s \in pending :
              \/ Issue(s, "consumer")
              \/ Post(Declined(s))
        BY <1>14, Zenon DEF ServerAnswers
    <2>2. s \in Services /\ UNCHANGED <<phase, handled, buffered, rx>>
        BY <1>14, <2>1, Zenon DEF ServerAnswers, TypeOK
    <2>3. Declined(s) \in Incoming /\ Declined(s).kind # "Request"
        BY <2>2, Incomings, Zenon DEF Declined
    <2> QED
        BY <1>0, <1>13, <2>1, <2>2, <2>3, PostOrder, Zenon
<1>15. CASE Arrival
    <2>1. UNCHANGED <<phase, handled, buffered, rx>>
        BY <1>15, Zenon DEF Arrival
    <2>2. CASE \E s \in first : Issue(s, "provider")
        BY <1>13, <2>1, <2>2, PaneAssumption, Zenon DEF TypeOK
    <2>3. CASE \E n \in routes : Post(Teardown(n))
        <3>1. PICK n \in routes : Post(Teardown(n))
            BY <2>3, Zenon
        <3>2. Teardown(n) \in Incoming /\ Teardown(n).kind # "Request"
            BY Incomings, Zenon DEF TypeOK, Teardown
        <3> QED
            BY <1>0, <2>1, <3>1, <3>2, PostOrder, Zenon
    <2>4. CASE Post(Lifecycle)
        <3>1. Lifecycle \in Incoming /\ Lifecycle.kind # "Request"
            BY Incomings, Zenon DEF Lifecycle
        <3> QED
            BY <1>0, <2>1, <2>4, <3>1, PostOrder, Zenon
    <2>5. CASE Post(Request(Len(requests) + 1))
        <3> DEFINE k == Len(requests) + 1
                   m == Request(k)
        <3>1. k \in Nat /\ \A r \in Ids : r < k
            BY DEF TypeOK, Ids
        <3>2. m \in Message /\ m.id = k /\ net \in Seq(Message)
            BY <3>1, Kinds, PlainTypes, Zenon DEF Types, Request
        <3> HIDE DEF k
        <3>3. /\ Below(Range(handled), {k}) /\ Below(Asked(buffered), {k})
              /\ Below(Asked(rx), {k}) /\ Below(Asked(net), {k})
            BY <3>1, AskedIds, Zenon DEF Below
        <3> HIDE DEF m
        <3>4. Ordered(handled, buffered, rx, Append(net, m))
            BY <3>2, <3>3, PostOrdered, Zenon DEF OrderInv
        <3> QED
            BY <2>1, <2>5, <3>4, Zenon DEF OrderInv, Post, k, m
    <2> QED
        BY <1>15, <2>2, <2>3, <2>4, <2>5, Zenon DEF Arrival
<1>16. CASE Promoted
    <2>1. UNCHANGED <<phase, handled, buffered, rx>>
        BY <1>16, Zenon DEF Promoted
    <2>2. CASE UNCHANGED net
        BY <1>1, <2>1, <2>2, Zenon
    <2>3. CASE \E n \in routes : Post(Teardown(n))
        <3>1. PICK n \in routes : Post(Teardown(n))
            BY <2>3, Zenon
        <3>2. Teardown(n) \in Incoming /\ Teardown(n).kind # "Request"
            BY Incomings, Zenon DEF TypeOK, Teardown
        <3> QED
            BY <1>0, <2>1, <3>1, <3>2, PostOrder, Zenon
    <2> QED
        BY <1>16, <2>2, <2>3, PromotedPosts, Zenon
<1> QED
    BY <1>2, <1>3, <1>4, <1>5, <1>6, <1>7, <1>8, <1>9, <1>10, <1>11, <1>12,
       <1>14, <1>15, <1>16, Zenon DEF Next, Builder, Looper, Reader, Writer

(* The order of the requests holds throughout the life of a pane. *)
THEOREM OrderCorrect == Spec => []OrderInv
<1>1. Init => OrderInv
    <2> SUFFICES ASSUME Init PROVE OrderInv
        BY Zenon
    <2>1. /\ Asked(net) = {} /\ Asked(rx) = {} /\ Asked(buffered) = {}
          /\ Sorted(net) /\ Sorted(rx) /\ Sorted(buffered) /\ DOMAIN handled = {}
        BY DEF Init, Asked, Asks, Sorted
    <2> QED
        BY <2>1, Zenon DEF OrderInv, Ordered, Below, Init
<1>2. OrderInv /\ UNCHANGED vars => OrderInv'
    BY Zenon DEF vars, setup, inbox, ghosts, OrderInv
<1> QED
    BY <1>1, <1>2, OrderStep, TypeCorrect, PTL DEF Spec

(* The handler gets the requests in the order in which the server sent     *)
(* them, also those that open_service_inner buffered while it waited for   *)
(* an answer, and although other messages may overtake requests in the     *)
(* batch of the looper.                                                    *)
THEOREM RequestOrder == Spec => []RequestsInOrder
<1>1. OrderInv => RequestsInOrder
    BY Zenon DEF OrderInv, Ordered, RequestsInOrder
<1> QED
    BY <1>1, OrderCorrect, PTL

-----------------------------------------------------------------------------
(* Where a request is before it is dispatched *)

Present == Range(handled) \cup Asked(buffered) \cup Asked(rx) \cup Asked(net)

(* Until the looper stops, a request is on the wire, in rx, buffered, or   *)
(* has been dispatched.                                                    *)
PresentInv ==
    /\ phase \notin {"stopping", "stopped"} => Ids \subseteq Present
    /\ ~rx_open => phase = "stopped"

(* Without a message that is no request, a queue asks the same. *)
LEMMA WithoutAsked ==
    ASSUME NEW S, NEW q \in Seq(S), NEW i \in DOMAIN q, q[i].kind # "Request"
    PROVE  Asked(q) \subseteq Asked(Without(q, i))
<1> DEFINE a == SubSeq(q, 1, i - 1)
           b == SubSeq(q, i + 1, Len(q))
           p == Without(q, i)
<1>1. i \in 1..Len(q) /\ Len(q) \in Nat /\ DOMAIN q = 1..Len(q)
    OBVIOUS
<1>2. /\ a \in Seq(S) /\ Len(a) = i - 1 /\ \A j \in 1..(i - 1) : a[j] = q[j]
    <2>1. /\ a \in Seq(S) /\ Len(a) = (i - 1) - 1 + 1
          /\ \A j \in 1..((i - 1) - 1 + 1) : a[j] = q[1 + j - 1]
        BY <1>1, Slice, SMTT(30)
    <2> QED
        BY <1>1, <2>1, SMTT(30)
<1>3. /\ b \in Seq(S) /\ Len(b) = Len(q) - i
      /\ \A j \in 1..(Len(q) - i) : b[j] = q[i + j]
    BY <1>1, Suffix, SMTT(30)
<1>4. /\ p = a \o b /\ p \in Seq(S) /\ Len(p) = Len(a) + Len(b)
      /\ \A j \in 1..(Len(a) + Len(b)) :
            p[j] = IF j =< Len(a) THEN a[j] ELSE b[j - Len(a)]
    BY <1>2, <1>3, Joined, Zenon DEF Without
<1> HIDE DEF a, b, p
<1>5. DOMAIN p = 1..(Len(q) - 1)
    <2>1. Len(p) = Len(q) - 1
        BY <1>1, <1>2, <1>3, <1>4, SMTT(30)
    <2>2. DOMAIN p = 1..Len(p)
        BY ONLY <1>4, SMTT(30)
    <2> QED
        BY <2>1, <2>2, Zenon
<1>6. ASSUME NEW j \in DOMAIN q, j # i
      PROVE  \E k \in DOMAIN p : p[k] = q[j]
    <2>1. CASE j < i
        <3>1. j \in 1..(i - 1) /\ j \in 1..(Len(q) - 1) /\ j =< Len(a)
            BY <1>1, <1>2, <2>1, SMTT(30)
        <3>2. j \in 1..(Len(a) + Len(b))
            BY <1>1, <1>2, <1>3, <3>1, SMTT(30)
        <3>3. p[j] = a[j]
            BY <1>4, <3>1, <3>2, Zenon
        <3> QED
            BY <1>2, <1>5, <3>1, <3>3, Zenon
    <2>2. CASE i < j
        <3> DEFINE k == j - 1
        <3>1. k \in 1..(Len(q) - 1) /\ ~(k =< Len(a)) /\ k - Len(a) = j - i
            BY <1>1, <1>2, <2>2, SMTT(30)
        <3>2. k \in 1..(Len(a) + Len(b))
            BY <1>1, <1>2, <1>3, <3>1, SMTT(30)
        <3>3. j - i \in 1..(Len(q) - i) /\ i + (j - i) = j
            BY <1>1, <2>2, SMTT(30)
        <3>4. p[k] = b[j - i]
            BY <1>4, <3>1, <3>2, Zenon
        <3> HIDE DEF k
        <3> QED
            BY <1>3, <1>5, <3>1, <3>3, <3>4, Zenon
    <2> QED
        BY <1>1, <1>6, <2>1, <2>2, SMTT(30)
<1>7. ASSUME NEW j \in Asks(q) PROVE q[j].id \in Asked(p)
    <2>1. j \in DOMAIN q /\ j # i /\ q[j].kind = "Request"
        BY Zenon DEF Asks
    <2>2. PICK k \in DOMAIN p : p[k] = q[j]
        BY <1>6, <2>1, Zenon
    <2>3. k \in Asks(p)
        BY <2>1, <2>2, Zenon DEF Asks
    <2> QED
        BY <2>2, <2>3, Zenon DEF Asked
<1> QED
    BY <1>7, Zenon DEF Asked, p

(* A request at the end of a queue. *)
LEMMA AskedAppend ==
    ASSUME NEW S, NEW q \in Seq(S), NEW m \in S, m.kind = "Request"
    PROVE  Asked(Append(q, m)) = Asked(q) \cup {m.id}
<1> DEFINE p == Append(q, m)
           n == Len(q) + 1
<1>1. /\ DOMAIN p = 1..n /\ p[n] = m /\ DOMAIN q = 1..Len(q)
      /\ \A i \in 1..Len(q) : p[i] = q[i]
      /\ 1..n = 1..Len(q) \cup {n}
    OBVIOUS
<1> HIDE DEF p, n
<1>2. Asks(p) = Asks(q) \cup {n} /\ \A i \in Asks(q) : p[i] = q[i]
    BY <1>1, Zenon DEF Asks
<1>3. Asked(p) = Asked(q) \cup {m.id}
    BY <1>1, <1>2, SMTT(30) DEF Asked
<1> QED
    BY <1>3, Zenon DEF p

(* The two queues ask the same when a message moves from one to the other. *)
LEMMA MoveAsked ==
    ASSUME NEW S, NEW p \in Seq(S), NEW q \in Seq(S), q # <<>>
    PROVE  Asked(q) \cup Asked(p) = Asked(Tail(q)) \cup Asked(Append(p, Head(q)))
<1>1. Head(q) \in S
    OBVIOUS
<1>2. CASE Head(q).kind = "Request"
    <2>1. Asked(q) = Asked(Tail(q)) \cup {Head(q).id}
        BY <1>2, HeadAsked, Zenon
    <2>2. Asked(Append(p, Head(q))) = Asked(p) \cup {Head(q).id}
        BY <1>1, <1>2, AskedAppend, SMTT(30)
    <2> QED
        BY <2>1, <2>2, Zenon
<1>3. CASE Head(q).kind # "Request"
    <2>1. Asked(q) = Asked(Tail(q))
        BY <1>3, HeadAsked, Zenon
    <2>2. Asked(Append(p, Head(q))) = Asked(p)
        BY <1>1, <1>3, AppendAsked, ZenonT(30)
    <2> QED
        BY <2>1, <2>2, Zenon
<1> QED
    BY <1>2, <1>3, Zenon

(* A step that loses no request, while none is new. *)
LEMMA PresentKept ==
    ASSUME PresentInv, UNCHANGED <<requests, rx_open>>,
           Present \subseteq Present',
           phase \in {"stopping", "stopped"} => phase' \in {"stopping", "stopped"},
           phase = "stopped" => phase' = "stopped"
    PROVE  PresentInv'
    BY Zenon DEF PresentInv, Ids

(* A message that the server sends, none of them a new request. *)
LEMMA PresentPost ==
    ASSUME TypeOK, PresentInv, NEW m, Post(m),
           UNCHANGED <<requests, rx_open, phase, handled, buffered, rx>>
    PROVE  PresentInv'
<1>1. Asked(net) \subseteq Asked(net')
    <2>1. net \in Seq(Incoming) /\ net' = Append(net, m)
        BY Zenon DEF TypeOK, Post
    <2>2. \A i \in DOMAIN net : i \in DOMAIN net' /\ net'[i] = net[i]
        BY <2>1
    <2>3. \A i \in Asks(net) : i \in Asks(net') /\ net'[i] = net[i]
        BY <2>2, Zenon DEF Asks
    <2> QED
        BY <2>3, Zenon DEF Asked
<1> QED
    BY <1>1, PresentKept, Zenon DEF Present

(* No step loses a request before the looper stops. *)
LEMMA PresentStep ==
    ASSUME TypeOK, PresentInv, OrderInv, Next
    PROVE  PresentInv'
<1> USE DEF setup, inbox, outbox, server, ghosts
<1>0. /\ net \in Seq(Incoming) /\ rx \in Seq(Incoming) /\ buffered \in Seq(Incoming)
      /\ handled \in Seq(Ids)
    BY Zenon DEF TypeOK
<1>1. CASE /\ UNCHANGED <<handled, buffered, rx, net, requests, rx_open>>
           /\ phase \in {"stopping", "stopped"} => phase' \in {"stopping", "stopped"}
           /\ phase = "stopped" => phase' = "stopped"
    BY <1>1, PresentKept, Zenon DEF Present
<1>2. ASSUME NEW s \in Services, Open(s) PROVE PresentInv'
    BY <1>1, <1>2, Zenon DEF Open
<1>3. CASE OpenFails \/ RunWith \/ StartLooper \/ ConnectionLost \/ ReaderEof
    BY <1>1, <1>3, Zenon DEF OpenFails, RunWith, StartLooper, ConnectionLost, ReaderEof
<1>4. CASE \/ AnswerPort \/ DropHandle \/ KeepSender \/ DropSender
           \/ WriterEnds \/ ServerCloses
    BY <1>1, <1>4, Zenon DEF AnswerPort, DropHandle, KeepSender, DropSender,
       WriterEnds, ServerCloses
<1>5. CASE Opened
    <2>1. /\ rx # <<>> /\ rx' = Tail(rx) /\ phase = "waiting"
          /\ UNCHANGED <<handled, buffered, net, requests, rx_open>>
          /\ Head(rx).kind # "Request"
        BY <1>5, Zenon DEF Opened, IsAnswer
    <2>2. Asked(rx) = Asked(rx')
        BY <1>0, <2>1, HeadAsked, Zenon
    <2> QED
        BY <2>1, <2>2, PresentKept, Zenon DEF Present
<1>6. CASE Buffer
    <2>1. /\ rx # <<>> /\ rx' = Tail(rx) /\ buffered' = Append(buffered, Head(rx))
          /\ UNCHANGED <<handled, net, requests, rx_open, phase>>
        BY <1>6, Zenon DEF Buffer
    <2>2. Head(rx) \in Incoming
        BY <1>0, <2>1, SMTT(30)
    <2>3. Asked(rx) \cup Asked(buffered) = Asked(rx') \cup Asked(buffered')
        BY <1>0, <2>1, MoveAsked, SMTT(30)
    <2> QED
        BY <2>1, <2>3, PresentKept, Zenon DEF Present
<1>7. CASE Drain
    <2>1. /\ phase = "drain" /\ buffered # <<>> /\ buffered' = Tail(buffered)
          /\ UNCHANGED <<rx, net, requests, rx_open>>
        BY <1>7, Zenon DEF Drain
    <2>2. CASE Head(buffered).kind = "Request" /\ DispatchRequest(Head(buffered).id)
        <3>1. handled' = Append(handled, Head(buffered).id)
            BY <2>2, Zenon DEF DispatchRequest
        <3>2. Head(buffered).id \in Ids
            BY <1>0, <2>1, <2>2, TypedFields, AfterReceive, Zenon
        <3>3. Range(handled') = Range(handled) \cup {Head(buffered).id}
            BY <1>0, <3>1, <3>2, AppendRange, SMTT(30)
        <3>4. Asked(buffered) = Asked(buffered') \cup {Head(buffered).id}
            BY <1>0, <2>1, <2>2, HeadAsked, Zenon
        <3>5. Present \subseteq Present'
            BY <2>1, <3>3, <3>4, Zenon DEF Present
        <3> QED
            BY <2>1, <3>5, PresentKept, Zenon
    <2>3. CASE Head(buffered).kind # "Request" /\ UNCHANGED handled
        <3>1. Asked(buffered) = Asked(buffered')
            BY <1>0, <2>1, <2>3, HeadAsked, Zenon
        <3> QED
            BY <2>1, <2>3, <3>1, PresentKept, Zenon DEF Present
    <2> QED
        BY <1>7, <2>2, <2>3, Zenon DEF Drain, Callback
<1>8. CASE Take
    <2>1. PICK i \in DOMAIN rx :
              /\ MayTake(i)
              /\ IF rx[i].kind = "Request" THEN DispatchRequest(rx[i].id)
                 ELSE Callback
              /\ rx' = Without(rx, i)
        BY <1>8, Zenon DEF Take
    <2>2. phase = "running" /\ UNCHANGED <<buffered, net, requests, rx_open>>
        BY <1>8, Zenon DEF Take
    <2>3. CASE rx[i].kind = "Request"
        <3>1. i = 1
            BY <2>1, <2>3, Zenon DEF MayTake
        <3>2. rx # <<>> /\ Head(rx) = rx[1]
            BY <1>0, <2>1, SMTT(30)
        <3>3. rx' = Tail(rx) /\ handled' = Append(handled, Head(rx).id)
            BY <1>0, <2>1, <2>3, <3>1, <3>2, WithoutFirst, Zenon DEF DispatchRequest
        <3>4. Head(rx) \in Incoming /\ Head(rx).kind = "Request"
            BY <1>0, <2>3, <3>1, <3>2, SMTT(30)
        <3>5. Head(rx).id \in Ids
            BY <3>4, TypedFields, Zenon
        <3>6. Range(handled') = Range(handled) \cup {Head(rx).id}
            BY <1>0, <3>3, <3>5, AppendRange, SMTT(30)
        <3>7. Asked(rx) = Asked(rx') \cup {Head(rx).id}
            BY <1>0, <3>2, <3>3, <3>4, HeadAsked, Zenon
        <3>8. Present \subseteq Present'
            BY <2>2, <3>6, <3>7, Zenon DEF Present
        <3> QED
            BY <2>2, <3>8, PresentKept, Zenon
    <2>4. CASE rx[i].kind # "Request"
        <3>1. UNCHANGED handled
            BY <2>1, <2>4, Zenon DEF Callback
        <3>2. Asked(rx) \subseteq Asked(rx')
            BY <1>0, <2>1, <2>4, WithoutAsked, Zenon
        <3> QED
            BY <2>2, <3>1, <3>2, PresentKept, Zenon DEF Present
    <2> QED
        BY <2>3, <2>4, Zenon
<1>9. CASE Stopped \/ ForwarderEnds
    BY <1>9, Zenon DEF Stopped, ForwarderEnds, PresentInv
<1>10. CASE ReaderReads
    <2>1. /\ net # <<>> /\ net' = Tail(net)
          /\ UNCHANGED <<phase, handled, buffered, rx_open, requests>>
        BY <1>10, Zenon DEF ReaderReads
    <2>2. CASE rx' = Append(rx, Head(net))
        <3>1. Head(net) \in Incoming
            BY <1>0, <2>1, SMTT(30)
        <3>2. Asked(net) \cup Asked(rx) = Asked(net') \cup Asked(rx')
            BY <1>0, <2>1, <2>2, MoveAsked, SMTT(30)
        <3> QED
            BY <2>1, <3>2, PresentKept, Zenon DEF Present
    <2>3. CASE ~rx_open
        BY <2>1, <2>3, Zenon DEF PresentInv
    <2> QED
        BY <1>10, <2>2, <2>3, Zenon DEF ReaderReads
<1>11. CASE WriterWrites
    <2>1. UNCHANGED <<phase, handled, buffered, rx, rx_open, requests>>
        BY <1>11, Zenon DEF WriterWrites
    <2>2. UNCHANGED net \/ \E n : Post(Teardown(n))
        <3>1. Head(wq) \in Outgoing /\ Processed(Head(wq))
            BY <1>11, AfterReceive, Zenon DEF WriterWrites, TypeOK
        <3>2. Head(wq).kind \in {"Declare", "Revoke", "Answer"}
            BY <3>1, TypedFields, Zenon
        <3> QED
            BY <3>1, <3>2, Zenon DEF Processed, Post
    <2>3. CASE UNCHANGED net
        BY <1>1, <2>1, <2>3, Zenon
    <2> QED
        BY <2>1, <2>2, <2>3, PresentPost, Zenon
<1>12. CASE ServerAnswers
    BY <1>12, PresentPost, Zenon DEF ServerAnswers, Issue
<1>13. CASE Arrival
    <2>1. UNCHANGED <<phase, handled, buffered, rx, rx_open>>
        BY <1>13, Zenon DEF Arrival
    <2>2. CASE UNCHANGED requests /\ \E m : Post(m)
        BY <2>1, <2>2, PresentPost, Zenon
    <2>3. CASE /\ \E n \in routes : requests' = Append(requests, n)
               /\ Post(Request(Len(requests) + 1))
        <3> DEFINE k == Len(requests) + 1
        <3>1. k \in Nat /\ Ids' = Ids \cup {k}
            <4>1. Len(requests) \in Nat /\ Len(requests') = k
                BY <2>3, SMTT(30) DEF TypeOK
            <4> QED
                BY <4>1, SMTT(30) DEF Ids
        <3>2. Request(k) \in Message /\ net \in Seq(Message)
            BY <3>1, Kinds, PlainTypes, Zenon DEF Types
        <3> HIDE DEF k
        <3>3. Request(k).kind = "Request" /\ Request(k).id = k
            BY Zenon DEF Request
        <3>4. net' = Append(net, Request(k))
            BY <2>3, Zenon DEF Post, k
        <3>5. Asked(net') = Asked(net) \cup {k}
            BY <3>2, <3>3, <3>4, AskedAppend, SMTT(30)
        <3> QED
            BY <2>1, <3>1, <3>5, Zenon DEF PresentInv, Present
    <2> QED
        BY <1>13, <2>2, <2>3, Zenon DEF Arrival, Issue
<1>14. CASE Promoted
    <2>1. UNCHANGED <<phase, handled, buffered, rx, rx_open, requests>>
        BY <1>14, Zenon DEF Promoted
    <2>2. CASE UNCHANGED net
        BY <1>1, <2>1, <2>2, Zenon
    <2>3. CASE \E n \in routes : Post(Teardown(n))
        BY <2>1, <2>3, PresentPost, Zenon
    <2> QED
        BY <1>14, <2>2, <2>3, PromotedPosts, Zenon
<1> QED
    BY <1>2, <1>3, <1>4, <1>5, <1>6, <1>7, <1>8, <1>9, <1>10, <1>11, <1>12, <1>13,
       <1>14, Zenon DEF Next, Builder, Looper, Reader, Writer

-----------------------------------------------------------------------------
(* Where a request is after it was dispatched *)

Answers(q) == {i \in DOMAIN q : q[i].kind = "Answer"}
Queued(q) == {q[i].id : i \in Answers(q)}
Single(q) == \A i, j \in Answers(q) : q[i].id = q[j].id => i = j
Kept(P) == {p.id : p \in P}
Dropped(L) == {f.id : f \in {g \in L : g.kind = "Answer"}}
Apart(Q, K, D, A) ==
    /\ Q \cap K = {} /\ Q \cap D = {} /\ K \cap D = {}
    /\ A \cap Q = {} /\ A \cap K = {} /\ A \cap D = {}
Settled == Queued(wq) \cup Kept(ports) \cup Dropped(lost) \cup Range(answered)

(* A dispatched request has one port, or one answer that is in the write   *)
(* channel, was dropped by try_send or has reached the server; it has none *)
(* of them only if the writer thread ended with the answer in its channel. *)
SettleInv ==
    /\ Single(wq)
    /\ \A i, j \in DOMAIN answered : answered[i] = answered[j] => i = j
    /\ \A p, q \in ports : p.id = q.id => p = q
    /\ Apart(Queued(wq), Kept(ports), Dropped(lost), Range(answered))
    /\ Settled \subseteq Range(handled)
    /\ writer = "run" => Range(handled) \subseteq Settled

(* An answer at the end of the write channel. *)
LEMMA AppendQueued ==
    ASSUME NEW S, NEW q \in Seq(S), NEW f \in S, f.kind = "Answer"
    PROVE  /\ Queued(Append(q, f)) = Queued(q) \cup {f.id}
           /\ (Single(q) /\ f.id \notin Queued(q)) => Single(Append(q, f))
<1> DEFINE p == Append(q, f)
           n == Len(q) + 1
<1>1. /\ DOMAIN p = 1..n /\ p[n] = f /\ DOMAIN q = 1..Len(q)
      /\ \A i \in 1..Len(q) : p[i] = q[i]
      /\ 1..n = 1..Len(q) \cup {n}
    OBVIOUS
<1> HIDE DEF p, n
<1>2. Answers(p) = Answers(q) \cup {n} /\ \A i \in Answers(q) : p[i] = q[i]
    BY <1>1, Zenon DEF Answers
<1>3. Queued(p) = Queued(q) \cup {f.id}
    BY <1>1, <1>2, SMTT(30) DEF Queued
<1>4. ASSUME Single(q), f.id \notin Queued(q) PROVE Single(p)
    <2>1. \A i \in Answers(q) : q[i].id # f.id
        BY <1>4, Zenon DEF Queued
    <2> QED
        BY <1>1, <1>2, <1>4, <2>1, Zenon DEF Single
<1> QED
    BY <1>3, <1>4, Zenon DEF p

(* Another frame at its end. *)
LEMMA AppendOther ==
    ASSUME NEW S, NEW q \in Seq(S), NEW f \in S, f.kind # "Answer"
    PROVE  /\ Queued(Append(q, f)) = Queued(q)
           /\ Single(q) => Single(Append(q, f))
<1> DEFINE p == Append(q, f)
           n == Len(q) + 1
<1>1. /\ DOMAIN p = 1..n /\ p[n] = f /\ DOMAIN q = 1..Len(q)
      /\ \A i \in 1..Len(q) : p[i] = q[i]
      /\ 1..n = 1..Len(q) \cup {n}
    OBVIOUS
<1> HIDE DEF p, n
<1>2. Answers(p) = Answers(q) /\ \A i \in Answers(q) : p[i] = q[i]
    BY <1>1, Zenon DEF Answers
<1>3. Queued(p) = Queued(q) /\ (Single(q) => Single(p))
    BY <1>2, Zenon DEF Queued, Single
<1> QED
    BY <1>3, Zenon DEF p

(* The writer takes the first frame. *)
LEMMA TailQueued ==
    ASSUME NEW S, NEW q \in Seq(S), q # <<>>, Single(q)
    PROVE  /\ Single(Tail(q))
           /\ Head(q).kind = "Answer" =>
                 /\ Queued(q) = Queued(Tail(q)) \cup {Head(q).id}
                 /\ Head(q).id \notin Queued(Tail(q))
           /\ Head(q).kind # "Answer" => Queued(q) = Queued(Tail(q))
<1> DEFINE t == Tail(q)
           h == Head(q)
<1>1. /\ DOMAIN t = 1..(Len(q) - 1) /\ Len(q) \in Nat /\ DOMAIN q = 1..Len(q)
      /\ \A i \in 1..(Len(q) - 1) : t[i] = q[i + 1]
      /\ h = q[1] /\ 1 \in 1..Len(q)
    OBVIOUS
<1> HIDE DEF t, h
<1>2. \A i \in Answers(t) :
          i + 1 \in Answers(q) /\ t[i] = q[i + 1] /\ i + 1 # 1 /\ i \in Nat
    BY <1>1, SMTT(30) DEF Answers
<1>3. \A i \in Answers(q) : i = 1 \/ (i - 1 \in Answers(t) /\ t[i - 1] = q[i])
    <2> SUFFICES ASSUME NEW i \in Answers(q), i # 1
                 PROVE  i - 1 \in Answers(t) /\ t[i - 1] = q[i]
        BY Zenon
    <2>1. i \in 1..Len(q) /\ q[i].kind = "Answer"
        BY <1>1, Zenon DEF Answers
    <2>2. i - 1 \in 1..(Len(q) - 1) /\ (i - 1) + 1 = i
        BY <1>1, <2>1, SMTT(30)
    <2> QED
        BY <1>1, <2>1, <2>2, Zenon DEF Answers
<1>4. h.kind = "Answer" <=> 1 \in Answers(q)
    BY <1>1, Zenon DEF Answers
<1>5. Single(t)
    <2> SUFFICES ASSUME NEW i \in Answers(t), NEW j \in Answers(t), t[i].id = t[j].id
                 PROVE  i = j
        BY Zenon DEF Single
    <2>1. i + 1 = j + 1
        BY <1>2, SMTT(30) DEF Single
    <2> QED
        BY <1>2, <2>1, SMTT(30)
<1>6. \A i \in Answers(t) : t[i].id \in Queued(q)
    BY <1>2, Zenon DEF Queued
<1>7. \A i \in Answers(q) : i = 1 \/ q[i].id \in Queued(t)
    BY <1>3, Zenon DEF Queued
<1>8. ASSUME h.kind # "Answer" PROVE Queued(q) = Queued(t)
    <2>1. \A i \in Answers(q) : q[i].id \in Queued(t)
        BY <1>4, <1>7, <1>8, Zenon
    <2> QED
        BY <1>6, <2>1, Zenon DEF Queued
<1>9. ASSUME h.kind = "Answer" PROVE Queued(q) = Queued(t) \cup {h.id}
    <2>1. \A i \in Answers(q) : q[i].id \in Queued(t) \cup {h.id}
        BY <1>1, <1>7, Zenon
    <2>2. h.id \in Queued(q)
        BY <1>1, <1>4, <1>9, Zenon DEF Queued
    <2>3. Queued(q) \subseteq Queued(t) \cup {h.id}
        BY <2>1, Zenon DEF Queued
    <2>4. Queued(t) \subseteq Queued(q)
        BY <1>6, Zenon DEF Queued
    <2> QED
        BY <2>2, <2>3, <2>4, Zenon
<1>10. ASSUME h.kind = "Answer" PROVE h.id \notin Queued(t)
    <2> SUFFICES ASSUME NEW i \in Answers(t), t[i].id = h.id PROVE FALSE
        BY Zenon DEF Queued
    <2> QED
        BY <1>1, <1>2, <1>4, <1>10, Zenon DEF Single
<1> QED
    BY <1>5, <1>8, <1>9, <1>10, Zenon DEF h, t

(* try_send of an answer: it is in the channel, or has been dropped. *)
LEMMA SendAnswer ==
    ASSUME TypeOK, NEW r \in Ids, TrySend(Answer(r)), Single(wq), r \notin Queued(wq)
    PROVE  /\ Single(wq')
           /\ \/ /\ Queued(wq') = Queued(wq) \cup {r}
                 /\ Dropped(lost') = Dropped(lost)
              \/ /\ Queued(wq') = Queued(wq)
                 /\ Dropped(lost') = Dropped(lost) \cup {r}
<1> DEFINE f == Answer(r)
<1>1. f.kind = "Answer" /\ f.id = r /\ f \in Outgoing
    BY Incomings, Zenon DEF Answer
<1>2. wq \in Seq(Outgoing)
    BY Zenon DEF TypeOK
<1> HIDE DEF f
<1>3. CASE Room
    <2>1. wq' = Append(wq, f) /\ lost' = lost
        BY <1>3, Zenon DEF TrySend, f
    <2>2. Queued(wq') = Queued(wq) \cup {f.id}
        BY <1>1, <1>2, <2>1, AppendQueued, Zenon
    <2>3. Single(wq')
        BY <1>1, <1>2, <2>1, AppendQueued, Zenon
    <2> QED
        BY <1>1, <2>1, <2>2, <2>3, Zenon
<1>4. CASE ~Room
    <2>1. wq' = wq /\ lost' = lost \cup {f}
        BY <1>4, Zenon DEF TrySend, f
    <2>2. Dropped(lost') = Dropped(lost) \cup {r}
        BY <1>1, <2>1, Zenon DEF Dropped
    <2> QED
        BY <2>1, <2>2, Zenon
<1> QED
    BY <1>3, <1>4, Zenon

(* try_send of another frame. *)
LEMMA SendOther ==
    ASSUME TypeOK, NEW f \in Outgoing, f.kind # "Answer", TrySend(f), Single(wq)
    PROVE  /\ Single(wq') /\ Queued(wq') = Queued(wq)
           /\ Dropped(lost') = Dropped(lost)
<1>1. wq \in Seq(Outgoing)
    BY Zenon DEF TypeOK
<1>2. CASE Room
    <2>1. wq' = Append(wq, f) /\ lost' = lost
        BY <1>2, Zenon DEF TrySend
    <2> QED
        BY <1>1, <2>1, AppendOther, Zenon
<1>3. CASE ~Room
    <2>1. wq' = wq /\ lost' = lost \cup {f}
        BY <1>3, Zenon DEF TrySend
    <2> QED
        BY <2>1, Zenon DEF Dropped
<1> QED
    BY <1>2, <1>3, Zenon

(* The dispatch of a request that has not been dispatched before. *)
LEMMA DispatchSettles ==
    ASSUME TypeOK, SettleInv, NEW r \in Ids, r \notin Range(handled),
           DispatchRequest(r), UNCHANGED writer
    PROVE  SettleInv'
<1>1. Range(handled') = Range(handled) \cup {r}
    BY AppendRange, SMTT(30) DEF TypeOK, DispatchRequest
<1>2. UNCHANGED answered
    BY Zenon DEF DispatchRequest
<1>3. r \notin Settled
    BY Zenon DEF SettleInv
<1>4. CASE TrySend(Answer(r)) /\ UNCHANGED ports
    <2>1. /\ Single(wq')
          /\ \/ /\ Queued(wq') = Queued(wq) \cup {r}
                /\ Dropped(lost') = Dropped(lost)
             \/ /\ Queued(wq') = Queued(wq)
                /\ Dropped(lost') = Dropped(lost) \cup {r}
        BY <1>3, <1>4, SendAnswer, ZenonT(30) DEF SettleInv, Settled
    <2> QED
        BY <1>1, <1>2, <1>3, <1>4, <2>1, SMTT(30) DEF SettleInv, Settled, Apart
<1>5. CASE /\ \E o \in Owners : ports' = ports \cup {[id |-> r, owner |-> o]}
           /\ UNCHANGED <<wq, lost>>
    <2>1. PICK o \in Owners : ports' = ports \cup {[id |-> r, owner |-> o]}
        BY <1>5, Zenon
    <2> DEFINE e == [id |-> r, owner |-> o]
    <2>e. e.id = r /\ ports' = ports \cup {e}
        BY <2>1, Zenon
    <2> HIDE DEF e
    <2>2. Kept(ports') = Kept(ports) \cup {r}
        BY <2>e, Zenon DEF Kept
    <2>3. \A p, q \in ports' : p.id = q.id => p = q
        <3>1. \A p \in ports : p.id # r
            BY <1>3, Zenon DEF Settled, Kept
        <3> QED
            BY <2>e, <3>1, Zenon DEF SettleInv
    <2> QED
        BY <1>1, <1>2, <1>3, <1>5, <2>2, <2>3, SMTT(30) DEF SettleInv, Settled, Apart
<1> QED
    BY <1>4, <1>5, Zenon DEF DispatchRequest

(* Every step keeps the places of the requests that were dispatched. *)
LEMMA SettleStep ==
    ASSUME TypeOK, OrderInv, SettleInv, Next
    PROVE  SettleInv'
<1> USE DEF setup, inbox, outbox, server, ghosts
<1>0. /\ rx \in Seq(Incoming) /\ buffered \in Seq(Incoming)
      /\ handled \in Seq(Ids) /\ wq \in Seq(Outgoing) /\ answered \in Seq(Ids)
    BY Zenon DEF TypeOK
<1>1. CASE UNCHANGED <<wq, ports, lost, answered, handled, writer>>
    BY <1>1, Zenon DEF SettleInv, Settled
<1>2. ASSUME NEW s \in Services, Open(s) PROVE SettleInv'
    <2>1. CASE UNCHANGED wq
        BY <1>1, <1>2, <2>1, Zenon DEF Open
    <2>2. CASE wq' = Append(wq, Declare(s))
        <3>1. Declare(s) \in Outgoing /\ Declare(s).kind # "Answer"
            BY Incomings, Zenon DEF Declare
        <3>2. Single(wq') /\ Queued(wq') = Queued(wq)
            BY <1>0, <2>2, <3>1, AppendOther, Zenon DEF SettleInv
        <3> QED
            BY <1>2, <3>2, Zenon DEF Open, SettleInv, Settled
    <2> QED
        BY <1>2, <2>1, <2>2, Zenon DEF Open
<1>3. CASE \/ Opened \/ Buffer \/ OpenFails \/ RunWith \/ StartLooper
           \/ ConnectionLost \/ Stopped \/ Reader \/ ForwarderEnds
    BY <1>1, <1>3, Zenon DEF Opened, Buffer, OpenFails, RunWith, StartLooper,
       ConnectionLost, Stopped, Reader, ReaderReads, ReaderEof, ForwarderEnds
<1>4. CASE \/ KeepSender \/ DropSender
           \/ ServerAnswers \/ Arrival \/ Promoted \/ ServerCloses
    BY <1>1, <1>4, Zenon DEF KeepSender, DropSender, ServerAnswers, Arrival, Promoted,
       ServerCloses
<1>5. CASE Drain
    <2>1. buffered # <<>> /\ UNCHANGED writer
        BY <1>5, Zenon DEF Drain
    <2>2. CASE Head(buffered).kind = "Request" /\ DispatchRequest(Head(buffered).id)
        <3> DEFINE r == Head(buffered).id
        <3>1. r \in Asked(buffered)
            BY <1>0, <2>1, <2>2, HeadAsked, Zenon
        <3>2. r \in Ids
            BY <3>1, AskedIds, Zenon
        <3>3. r \notin Range(handled)
            <4>1. ~(r < r)
                BY <3>2, SMTT(30) DEF Ids
            <4> QED
                BY <3>1, <4>1, Zenon DEF OrderInv, Ordered, Below
        <3> QED
            BY <2>1, <2>2, <3>2, <3>3, DispatchSettles, Zenon
    <2>3. CASE UNCHANGED <<ports, wq, ghosts>>
        BY <1>1, <2>1, <2>3, Zenon
    <2> QED
        BY <1>5, <2>2, <2>3, Zenon DEF Drain, Callback
<1>6. CASE Take
    <2>1. PICK i \in DOMAIN rx :
              IF rx[i].kind = "Request" THEN DispatchRequest(rx[i].id)
              ELSE Callback
        BY <1>6, Zenon DEF Take
    <2>2. UNCHANGED writer
        BY <1>6, Zenon DEF Take
    <2>3. CASE rx[i].kind = "Request"
        <3> DEFINE r == rx[i].id
        <3>1. r \in Asked(rx)
            BY <2>1, <2>3, Zenon DEF Asked, Asks
        <3>2. r \in Ids
            BY <3>1, AskedIds, Zenon
        <3>3. r \notin Range(handled)
            <4>1. ~(r < r)
                BY <3>2, SMTT(30) DEF Ids
            <4> QED
                BY <3>1, <4>1, Zenon DEF OrderInv, Ordered, Below
        <3> QED
            BY <2>1, <2>2, <2>3, <3>2, <3>3, DispatchSettles, Zenon
    <2>4. CASE rx[i].kind # "Request"
        BY <1>1, <2>1, <2>2, <2>4, Zenon DEF Callback
    <2> QED
        BY <2>3, <2>4, Zenon
<1>7. CASE AnswerPort
    <2>1. PICK p \in ports : TrySend(Answer(p.id)) /\ ports' = ports \ {p}
        BY <1>7, Zenon DEF AnswerPort
    <2>2. UNCHANGED <<answered, handled, writer>>
        BY <1>7, Zenon DEF AnswerPort
    <2> DEFINE r == p.id
    <2>3. r \in Ids /\ r \in Kept(ports)
        BY <2>1, Zenon DEF TypeOK, Kept
    <2>4. Kept(ports') = Kept(ports) \ {r}
        BY <2>1, Zenon DEF Kept, SettleInv
    <2>5. \A q, u \in ports' : q.id = u.id => q = u
        BY <2>1, Zenon DEF SettleInv
    <2>6. TrySend(Answer(r))
        BY <2>1, Zenon
    <2> HIDE DEF r
    <2>7. r \notin Queued(wq) /\ r \notin Dropped(lost) /\ r \notin Range(answered)
        BY <2>3, Zenon DEF SettleInv, Apart
    <2>8. /\ Single(wq')
          /\ \/ /\ Queued(wq') = Queued(wq) \cup {r}
                /\ Dropped(lost') = Dropped(lost)
             \/ /\ Queued(wq') = Queued(wq)
                /\ Dropped(lost') = Dropped(lost) \cup {r}
        BY <2>3, <2>6, <2>7, SendAnswer, Zenon DEF SettleInv
    <2>9. Apart(Queued(wq'), Kept(ports'), Dropped(lost'), Range(answered'))
        BY <2>2, <2>4, <2>7, <2>8, SMTT(30) DEF SettleInv, Apart
    <2>10. Settled' = Settled
        BY <2>2, <2>3, <2>4, <2>8, Zenon DEF Settled
    <2> QED
        BY <2>2, <2>5, <2>8, <2>9, <2>10, Zenon DEF SettleInv
<1>8. CASE DropHandle
    <2>1. PICK h \in handles : TrySend(Revoke(h.session))
        BY <1>8, Zenon DEF DropHandle
    <2>2. Revoke(h.session) \in Outgoing /\ Revoke(h.session).kind # "Answer"
        BY <2>1, Incomings, Zenon DEF TypeOK, Revoke
    <2>3. /\ Single(wq') /\ Queued(wq') = Queued(wq)
          /\ Dropped(lost') = Dropped(lost)
        BY <2>1, <2>2, SendOther, Zenon DEF SettleInv
    <2> QED
        BY <1>8, <2>3, Zenon DEF DropHandle, SettleInv, Settled
<1>9. CASE WriterWrites
    <2> DEFINE f == Head(wq)
    <2>1. /\ wq # <<>> /\ Processed(f) /\ wq' = Tail(wq)
          /\ UNCHANGED <<ports, lost, handled, writer>>
        BY <1>9, Zenon DEF WriterWrites
    <2>2. f \in Outgoing
        BY <1>0, <2>1, AfterReceive, Zenon
    <2>3. /\ f.kind \in {"Declare", "Revoke", "Answer"}
          /\ f.kind = "Answer" => f.id \in Ids
        BY <2>2, TypedFields, Zenon
    <2>4. Single(wq')
        BY <1>0, <2>1, TailQueued, Zenon DEF SettleInv
    <2>5. CASE f.kind = "Answer"
        <3>1. Queued(wq) = Queued(wq') \cup {f.id} /\ f.id \notin Queued(wq')
            BY <1>0, <2>1, <2>5, TailQueued, Zenon DEF SettleInv
        <3> HIDE DEF f
        <3>2. answered' = Append(answered, f.id)
            BY <2>1, <2>5, Zenon DEF Processed
        <3>3. Range(answered') = Range(answered) \cup {f.id}
            BY <1>0, <2>3, <2>5, <3>2, AppendRange, SMTT(30)
        <3>4. f.id \notin Range(answered)
            BY <3>1, ZenonT(30) DEF SettleInv, Apart
        <3>5. \A i, j \in DOMAIN answered' : answered'[i] = answered'[j] => i = j
            <4> DEFINE n == Len(answered) + 1
            <4>1. /\ DOMAIN answered' = 1..n /\ answered'[n] = f.id
                  /\ \A i \in 1..Len(answered) : answered'[i] = answered[i]
                  /\ DOMAIN answered = 1..Len(answered)
                  /\ 1..n = 1..Len(answered) \cup {n}
                BY <1>0, <2>3, <2>5, <3>2, SMTT(30)
            <4> HIDE DEF n
            <4>2. \A i \in 1..Len(answered) : answered[i] # f.id
                BY <3>4, <4>1, Zenon DEF Range
            <4> QED
                BY <4>1, <4>2, SMTT(30) DEF SettleInv
        <3>6. Apart(Queued(wq'), Kept(ports'), Dropped(lost'), Range(answered'))
            BY <2>1, <3>1, <3>3, SMTT(30) DEF SettleInv, Apart
        <3>7. Settled' = Settled
            BY <2>1, <3>1, <3>3, Zenon DEF Settled
        <3> QED
            BY <2>1, <2>4, <3>5, <3>6, <3>7, Zenon DEF SettleInv
    <2>6. CASE f.kind # "Answer"
        <3>1. Queued(wq) = Queued(wq')
            BY <1>0, <2>1, <2>6, TailQueued, Zenon DEF SettleInv
        <3>2. UNCHANGED answered
            BY <2>1, <2>3, <2>6, Zenon DEF Processed
        <3> QED
            BY <2>1, <2>4, <3>1, <3>2, Zenon DEF SettleInv, Settled
    <2> QED
        BY <2>5, <2>6, Zenon
<1>10. CASE WriterEnds
    <2>1. /\ writer' = "done" /\ wq' = <<>>
          /\ UNCHANGED <<ports, lost, answered, handled>>
        BY <1>10, Zenon DEF WriterEnds
    <2>2. Queued(wq') = {} /\ Single(wq')
        BY <2>1, SMTT(30) DEF Queued, Answers, Single
    <2> QED
        BY <2>1, <2>2, Zenon DEF SettleInv, Settled, Apart
<1> QED
    BY <1>2, <1>3, <1>4, <1>5, <1>6, <1>7, <1>8, <1>9, <1>10, Zenon
       DEF Next, Builder, Looper, Reader, Writer

(* The places of the requests, throughout the life of a pane. *)
THEOREM PlacesCorrect == Spec => [](PresentInv /\ SettleInv)
<1>1. Init => PresentInv /\ SettleInv
    <2> SUFFICES ASSUME Init PROVE PresentInv /\ SettleInv
        BY Zenon
    <2>1. /\ Ids = {} /\ rx_open
          /\ DOMAIN answered = {} /\ Answers(wq) = {} /\ ports = {} /\ lost = {}
        BY DEF Init, Ids, Answers
    <2>2. /\ Queued(wq) = {} /\ Kept(ports) = {} /\ Dropped(lost) = {}
          /\ Range(answered) = {} /\ Single(wq)
        BY <2>1, Zenon DEF Queued, Kept, Dropped, Range, Single
    <2>3. Range(handled) = {}
        BY DEF Init, Range
    <2> QED
        BY <2>1, <2>2, <2>3, Zenon DEF PresentInv, SettleInv, Settled, Apart
<1>2. PresentInv /\ SettleInv /\ UNCHANGED vars => PresentInv' /\ SettleInv'
    <2> SUFFICES ASSUME PresentInv, SettleInv, UNCHANGED vars
                 PROVE  PresentInv' /\ SettleInv'
        BY Zenon
    <2> USE DEF vars, setup, inbox, outbox, server, ghosts
    <2>1. PresentInv'
        BY PresentKept, Zenon DEF Present
    <2>2. SettleInv'
        BY Zenon DEF SettleInv, Settled
    <2> QED
        BY <2>1, <2>2, Zenon
<1> QED
    BY <1>1, <1>2, PresentStep, SettleStep, OrderCorrect, TypeCorrect, PTL DEF Spec

-----------------------------------------------------------------------------
(* The places of a request, counted *)

(* The number of elements of a set that has no two. *)
LEMMA AtMostOne ==
    ASSUME NEW S, \A x, y \in S : x = y
    PROVE  Cardinality(S) = IF S = {} THEN 0 ELSE 1
<1>1. CASE S = {}
    BY <1>1, FS_EmptySet, Zenon
<1>2. CASE S # {}
    <2>1. PICK x : x \in S
        BY <1>2, Zenon
    <2>2. S = {x}
        BY <2>1, Zenon
    <2>3. Cardinality({x}) = 1
        BY FS_Singleton, Zenon
    <2> QED
        BY <1>2, <2>2, <2>3, Zenon
<1> QED
    BY <1>1, <1>2, Zenon

(* A message or frame with an id is known by its kind and the id. *)
LEMMA ById ==
    /\ \A m \in Incoming : \A r :
          m = Request(r) <=> m.kind = "Request" /\ m.id = r
    /\ \A f \in Outgoing : \A r :
          f = Answer(r) <=> f.kind = "Answer" /\ f.id = r
    BY DEF Incoming, Outgoing, Request, Answer, Lifecycle

(* A queue of messages has a request once, if its requests are sorted. *)
LEMMA CountAsked ==
    ASSUME NEW q \in Seq(Incoming), Sorted(q), Asked(q) \subseteq Nat, NEW r
    PROVE  Count(q, Request(r)) = IF r \in Asked(q) THEN 1 ELSE 0
<1> DEFINE S == {i \in DOMAIN q : q[i] = Request(r)}
<1>1. S = {i \in Asks(q) : q[i].id = r}
    <2>1. \A i \in DOMAIN q : q[i] \in Incoming
        OBVIOUS
    <2> QED
        BY <2>1, ById, SMTT(30) DEF Asks
<1>2. S # {} <=> r \in Asked(q)
    BY <1>1, Zenon DEF Asked
<1>3. \A i, j \in S : i = j
    <2> SUFFICES ASSUME NEW i \in S, NEW j \in S, i # j PROVE FALSE
        BY Zenon
    <2>1. i \in Asks(q) /\ j \in Asks(q) /\ q[i].id = r /\ q[j].id = r
        BY <1>1, Zenon
    <2>2. i \in Nat /\ j \in Nat
        BY <2>1, SMTT(30) DEF Asks
    <2>3. r \in Nat
        BY <2>1, Zenon DEF Asked
    <2>4. i < j \/ j < i
        BY <2>2, SMTT(30)
    <2>5. ~(r < r)
        BY <2>3, SMTT(30)
    <2> QED
        BY <2>1, <2>4, <2>5, Zenon DEF Sorted
<1> HIDE DEF S
<1>4. Cardinality(S) = IF S = {} THEN 0 ELSE 1
    BY <1>3, AtMostOne, Zenon
<1> QED
    BY <1>2, <1>4, Zenon DEF Count, S

(* The write channel has an answer once. *)
LEMMA CountQueued ==
    ASSUME NEW q \in Seq(Outgoing), Single(q), NEW r
    PROVE  Count(q, Answer(r)) = IF r \in Queued(q) THEN 1 ELSE 0
<1> DEFINE S == {i \in DOMAIN q : q[i] = Answer(r)}
<1>1. S = {i \in Answers(q) : q[i].id = r}
    <2>1. \A i \in DOMAIN q : q[i] \in Outgoing
        OBVIOUS
    <2> QED
        BY <2>1, ById, SMTT(30) DEF Answers
<1>2. S # {} <=> r \in Queued(q)
    BY <1>1, Zenon DEF Queued
<1>3. \A i, j \in S : i = j
    BY <1>1, Zenon DEF Single
<1> HIDE DEF S
<1>4. Cardinality(S) = IF S = {} THEN 0 ELSE 1
    BY <1>3, AtMostOne, Zenon
<1> QED
    BY <1>2, <1>4, Zenon DEF Count, S

(* Each request a peer sends is in exactly one place until it is answered, *)
(* and is answered at most once, by the handler, by the Drop of its port   *)
(* or for want of a receiver; it vanishes only with a looper that stops or *)
(* a writer thread that has ended (DispatchRequest, ReplyPort, try_send).  *)
THEOREM RequestsAccounted == Spec => []RequestAccounted
<1>1. TypeOK /\ OrderInv /\ PresentInv /\ SettleInv => RequestAccounted
    <2> SUFFICES ASSUME TypeOK, OrderInv, PresentInv, SettleInv, NEW r \in Ids
                 PROVE  /\ Places(r) <= 1
                        /\ Places(r) = 0 => \/ phase \in {"stopping", "stopped"}
                                            \/ writer = "done"
        BY Zenon DEF RequestAccounted
    <2> DEFINE n1 == Count(net, Request(r))
               n2 == Count(rx, Request(r))
               n3 == Count(buffered, Request(r))
               n4 == Cardinality({p \in ports : p.id = r})
               n5 == Count(wq, Answer(r))
               n6 == Count(answered, r)
               n7 == Cardinality(lost \cap {Answer(r)})
    <2>1. r \in Nat /\ ~(r < r) /\ Ids \subseteq Nat
        BY DEF Ids
    <2>2. /\ n1 = IF r \in Asked(net) THEN 1 ELSE 0
          /\ n2 = IF r \in Asked(rx) THEN 1 ELSE 0
          /\ n3 = IF r \in Asked(buffered) THEN 1 ELSE 0
        <3>1. /\ Asked(net) \subseteq Nat /\ Asked(rx) \subseteq Nat
              /\ Asked(buffered) \subseteq Nat
            BY <2>1, AskedIds, Zenon
        <3>2. /\ net \in Seq(Incoming) /\ rx \in Seq(Incoming)
              /\ buffered \in Seq(Incoming)
              /\ Sorted(net) /\ Sorted(rx) /\ Sorted(buffered)
            BY Zenon DEF TypeOK, OrderInv, Ordered
        <3> QED
            BY ONLY <3>1, <3>2, CountAsked, Zenon
    <2>4. n4 = IF r \in Kept(ports) THEN 1 ELSE 0
        <3> DEFINE S == {p \in ports : p.id = r}
        <3>1. \A x, y \in S : x = y
            BY Zenon DEF SettleInv
        <3>2. S # {} <=> r \in Kept(ports)
            BY Zenon DEF Kept
        <3> HIDE DEF S
        <3>3. Cardinality(S) = IF S = {} THEN 0 ELSE 1
            BY <3>1, AtMostOne, Zenon
        <3> QED
            BY <3>2, <3>3, Zenon DEF S
    <2>5. n5 = IF r \in Queued(wq) THEN 1 ELSE 0
        BY CountQueued, Zenon DEF TypeOK, SettleInv
    <2>6. n6 = IF r \in Range(answered) THEN 1 ELSE 0
        <3> DEFINE S == {i \in DOMAIN answered : answered[i] = r}
        <3>1. \A x, y \in S : x = y
            BY Zenon DEF SettleInv
        <3>2. S # {} <=> r \in Range(answered)
            BY Zenon DEF Range
        <3> HIDE DEF S
        <3>3. Cardinality(S) = IF S = {} THEN 0 ELSE 1
            BY <3>1, AtMostOne, Zenon
        <3> QED
            BY <3>2, <3>3, Zenon DEF S, Count
    <2>7. n7 = IF r \in Dropped(lost) THEN 1 ELSE 0
        <3> DEFINE S == lost \cap {Answer(r)}
        <3>1. \A x, y \in S : x = y
            BY Zenon
        <3>2. S # {} <=> r \in Dropped(lost)
            <4>1. \A f \in lost : f = Answer(r) <=> f.kind = "Answer" /\ f.id = r
                BY ById, Zenon DEF TypeOK
            <4> QED
                BY <4>1, Zenon DEF Dropped
        <3> HIDE DEF S
        <3>3. Cardinality(S) = IF S = {} THEN 0 ELSE 1
            BY <3>1, AtMostOne, Zenon
        <3> QED
            BY <3>2, <3>3, Zenon DEF S
    <2> HIDE DEF n1, n2, n3, n4, n5, n6, n7
    <2>8. Places(r) = n1 + n2 + n3 + n4 + n5 + n6 + n7
        BY Zenon DEF Places, n1, n2, n3, n4, n5, n6, n7
    <2> DEFINE H == Range(handled)
    <2>9. /\ ~(r \in Asked(net) /\ r \in Asked(rx))
          /\ ~(r \in Asked(net) /\ r \in Asked(buffered))
          /\ ~(r \in Asked(rx) /\ r \in Asked(buffered))
          /\ ~(r \in H /\ r \in Asked(net)) /\ ~(r \in H /\ r \in Asked(rx))
          /\ ~(r \in H /\ r \in Asked(buffered))
        BY <2>1, Zenon DEF OrderInv, Ordered, Below
    <2>10. /\ r \in Kept(ports) => /\ r \in H /\ r \notin Queued(wq)
                                   /\ r \notin Range(answered) /\ r \notin Dropped(lost)
           /\ r \in Queued(wq) => /\ r \in H /\ r \notin Range(answered)
                                  /\ r \notin Dropped(lost)
           /\ r \in Range(answered) => r \in H /\ r \notin Dropped(lost)
           /\ r \in Dropped(lost) => r \in H
        BY Zenon DEF SettleInv, Settled, Apart
    <2>11. writer = "run" /\ r \in H =>
              \/ r \in Kept(ports) \/ r \in Queued(wq)
              \/ r \in Range(answered) \/ r \in Dropped(lost)
        BY Zenon DEF SettleInv, Settled
    <2>12. phase \notin {"stopping", "stopped"} =>
              \/ r \in H \/ r \in Asked(net) \/ r \in Asked(rx)
              \/ r \in Asked(buffered)
        BY Zenon DEF PresentInv, Present
    <2>13. writer \in {"run", "done"}
        BY Zenon DEF TypeOK
    <2> HIDE DEF H
    <2> QED
        BY ONLY <2>2, <2>4, <2>5, <2>6, <2>7, <2>8, <2>9, <2>10, <2>11, <2>12,
                <2>13, SMTT(30)
<1> QED
    BY <1>1, TypeCorrect, OrderCorrect, PlacesCorrect, PTL
=============================================================================
