----------------------------- MODULE PaneProofs ----------------------------
(***************************************************************************)
(* Proofs about PaneClient: types, which sessions are offered and held,    *)
(* and the revocations, for all services, any capacity of the write        *)
(* channel and any number of arrivals.                                     *)
(***************************************************************************)
EXTENDS PaneClient, SequenceTheorems, TLAPS

Message ==
    [kind : {"Accepted"}, service : Services, session : Nat]
        \cup [kind : {"Declined"}, service : Services]
        \cup [kind : {"Teardown"}, session : Nat]
        \cup {Lifecycle} \cup [kind : {"Request"}, id : Nat]
FrameOut ==
    [kind : {"Declare"}, service : Services]
        \cup [kind : {"Revoke"}, session : Nat]
        \cup [kind : {"Answer"}, id : Nat]
Grant == [service : Services, side : {"consumer", "provider"}]
Handle == [service : Services, session : Nat, owner : Owners]
Port == [id : Nat, owner : Owners]

Grants(q) == {i \in DOMAIN q : q[i].kind = "Accepted"}
Offered(q) == {q[i].session : i \in Grants(q)}
Fits(q, gr) ==
    \A i \in Grants(q) :
        q[i].session \in 1..Len(gr) /\ q[i].service = gr[q[i].session].service
Once(q) == \A i, j \in Grants(q) : q[i].session = q[j].session => i = j

(* p consists of elements of q, each used once, in their order. *)
Part(p, q) ==
    \E f \in [DOMAIN p -> DOMAIN q] :
        /\ \A i \in DOMAIN p : p[i] = q[f[i]]
        /\ \A i, j \in DOMAIN p : f[i] = f[j] => i = j
        /\ \A i, j \in DOMAIN p : i < j => f[i] < f[j]

-----------------------------------------------------------------------------
(* Sequences of messages *)

(* What remains of a queue of messages offers sessions once, if the queue  *)
(* did.                                                                    *)
LEMMA PartKeeps ==
    ASSUME NEW p, NEW q, NEW gr, Part(p, q)
    PROVE  /\ Offered(p) \subseteq Offered(q)
           /\ Once(q) => Once(p)
           /\ Fits(q, gr) => Fits(p, gr)
<1>1. PICK f \in [DOMAIN p -> DOMAIN q] :
          /\ \A i \in DOMAIN p : p[i] = q[f[i]]
          /\ \A i, j \in DOMAIN p : f[i] = f[j] => i = j
    BY Zenon DEF Part
<1>2. \A i \in Grants(p) : f[i] \in Grants(q) /\ p[i] = q[f[i]] /\ i \in DOMAIN p
    BY <1>1, Zenon DEF Grants
<1> QED
    BY <1>1, <1>2 DEF Offered, Once, Fits

(* A queue is part of itself. *)
LEMMA SamePart ==
    ASSUME NEW q
    PROVE  Part(q, q)
<1> DEFINE f == [i \in DOMAIN q |-> i]
<1>1. f \in [DOMAIN q -> DOMAIN q] /\ \A i \in DOMAIN q : f[i] = i
    BY Zenon
<1> HIDE DEF f
<1> QED
    BY <1>1, Zenon DEF Part

(* The queue without its first message. *)
LEMMA TailPart ==
    ASSUME NEW S, NEW q \in Seq(S), q # <<>>
    PROVE  Tail(q) \in Seq(S) /\ Part(Tail(q), q)
<1> DEFINE f == [i \in DOMAIN Tail(q) |-> i + 1]
<1>1. /\ Tail(q) \in Seq(S) /\ DOMAIN Tail(q) = 1..(Len(q) - 1)
      /\ \A i \in 1..(Len(q) - 1) : Tail(q)[i] = q[i + 1]
      /\ DOMAIN q = 1..Len(q) /\ Len(q) \in Nat
    OBVIOUS
<1>2. f \in [DOMAIN Tail(q) -> DOMAIN q]
    BY <1>1
<1>3. \A i \in DOMAIN Tail(q) : Tail(q)[i] = q[f[i]]
    BY <1>1, Zenon
<1>4. \A i, j \in DOMAIN Tail(q) :
          (f[i] = f[j] => i = j) /\ (i < j => f[i] < f[j])
    BY <1>1
<1> HIDE DEF f
<1> QED
    BY <1>1, <1>2, <1>3, <1>4, Zenon DEF Part

(* A slice of a queue, its length and its messages. *)
LEMMA Slice ==
    ASSUME NEW S, NEW q \in Seq(S), NEW m \in Nat, NEW n \in Nat,
           1 =< m, m =< n + 1, n =< Len(q)
    PROVE  /\ SubSeq(q, m, n) \in Seq(S)
           /\ Len(SubSeq(q, m, n)) = n - m + 1
           /\ \A i \in 1..(n - m + 1) : SubSeq(q, m, n)[i] = q[m + i - 1]
<1>1. \A i \in 1..Len(q) : q[i] \in S
    BY ElementOfSeq, Zenon
<1>2. Len(q) \in Nat
    OBVIOUS
<1>3. \A i \in m..n : q[i] \in S
    BY <1>1, <1>2
<1>4. m \in Int /\ n \in Int
    OBVIOUS
<1>5. /\ SubSeq(q, m, n) \in Seq(S)
      /\ Len(SubSeq(q, m, n)) = IF m =< n THEN n - m + 1 ELSE 0
      /\ \A i \in 1..(n - m + 1) : SubSeq(q, m, n)[i] = q[m + i - 1]
    BY ONLY <1>3, <1>4, SubSeqProperties
<1>6. (IF m =< n THEN n - m + 1 ELSE 0) = n - m + 1
    OBVIOUS
<1> QED
    BY <1>5, <1>6, Zenon

(* What follows the first k messages of a queue. *)
LEMMA Suffix ==
    ASSUME NEW S, NEW q \in Seq(S), NEW k \in Nat, k =< Len(q)
    PROVE  /\ SubSeq(q, k + 1, Len(q)) \in Seq(S)
           /\ Len(SubSeq(q, k + 1, Len(q))) = Len(q) - k
           /\ \A i \in 1..(Len(q) - k) : SubSeq(q, k + 1, Len(q))[i] = q[k + i]
<1> DEFINE m == k + 1
           n == Len(q)
           p == SubSeq(q, m, n)
<1>1. /\ m \in Nat /\ n \in Nat /\ 1 =< m /\ m =< n + 1 /\ n =< Len(q)
      /\ n - m + 1 = Len(q) - k
      /\ \A i \in 1..(Len(q) - k) : m + i - 1 = k + i
    OBVIOUS
<1> HIDE DEF m, n
<1>2. /\ p \in Seq(S) /\ Len(p) = n - m + 1
      /\ \A i \in 1..(n - m + 1) : p[i] = q[m + i - 1]
    BY <1>1, Slice
<1> HIDE DEF p
<1>3. /\ p \in Seq(S) /\ Len(p) = Len(q) - k
      /\ \A i \in 1..(Len(q) - k) : p[i] = q[k + i]
    BY <1>1, <1>2, Zenon
<1> QED
    BY <1>3, Zenon DEF m, n, p

(* Two queues, one after the other. *)
LEMMA Joined ==
    ASSUME NEW S, NEW a \in Seq(S), NEW b \in Seq(S)
    PROVE  /\ a \o b \in Seq(S) /\ Len(a \o b) = Len(a) + Len(b)
           /\ \A j \in 1..(Len(a) + Len(b)) :
                 (a \o b)[j] = IF j =< Len(a) THEN a[j] ELSE b[j - Len(a)]
    BY ConcatProperties, Zenon

(* The queue without its first k messages. *)
LEMMA SuffixPart ==
    ASSUME NEW S, NEW q \in Seq(S), NEW k \in 0..Len(q)
    PROVE  /\ SubSeq(q, k + 1, Len(q)) \in Seq(S)
           /\ Part(SubSeq(q, k + 1, Len(q)), q)
<1> DEFINE p == SubSeq(q, k + 1, Len(q))
           f == [i \in DOMAIN p |-> k + i]
<1>1. Len(q) \in Nat /\ k \in Nat /\ k =< Len(q) /\ DOMAIN q = 1..Len(q)
    OBVIOUS
<1> HIDE DEF f
<1>2. /\ p \in Seq(S) /\ Len(p) = Len(q) - k
      /\ \A i \in 1..(Len(q) - k) : p[i] = q[k + i]
    BY <1>1, Suffix, Zenon
<1> HIDE DEF p
<1> USE DEF f
<1>3. DOMAIN p = 1..Len(p)
    BY <1>2
<1>4. DOMAIN p = 1..(Len(q) - k)
    BY <1>2, <1>3, Zenon
<1>6. f \in [DOMAIN p -> DOMAIN q]
    BY <1>1, <1>4
<1>7. \A i \in DOMAIN p : p[i] = q[f[i]]
    BY <1>2, <1>4, Zenon
<1>8. \A i, j \in DOMAIN p : (f[i] = f[j] => i = j) /\ (i < j => f[i] < f[j])
    BY <1>1, <1>4
<1>9. Part(p, q)
    <2> HIDE DEF f
    <2> QED
        BY <1>6, <1>7, <1>8, Zenon DEF Part
<1> QED
    BY <1>2, <1>9, Zenon DEF p

(* The queue without its message at i. *)
LEMMA WithoutPart ==
    ASSUME NEW S, NEW q \in Seq(S), NEW i \in DOMAIN q
    PROVE  Without(q, i) \in Seq(S) /\ Part(Without(q, i), q)
<1> DEFINE a == SubSeq(q, 1, i - 1)
           b == SubSeq(q, i + 1, Len(q))
           p == Without(q, i)
           f == [j \in DOMAIN p |-> IF j < i THEN j ELSE j + 1]
<1>1. Len(q) \in Nat /\ i \in 1..Len(q) /\ DOMAIN q = 1..Len(q)
    OBVIOUS
<1>2. /\ i - 1 \in Nat /\ i + 1 \in Nat /\ (i - 1) - 1 + 1 = i - 1
      /\ Len(q) - (i + 1) + 1 = Len(q) - i
      /\ i - 1 =< Len(q) /\ i + 1 =< Len(q) + 1 /\ 1 =< i + 1 /\ 1 \in Nat
      /\ 1 =< (i - 1) + 1 /\ 1 =< 1 /\ Len(q) =< Len(q)
    BY <1>1, SMTT(30)
<1>3. /\ a \in Seq(S) /\ Len(a) = i - 1
      /\ \A j \in 1..(i - 1) : a[j] = q[1 + j - 1]
    BY ONLY <1>2, q \in Seq(S), Slice, SMTT(30) DEF a
<1>4. /\ b \in Seq(S) /\ Len(b) = Len(q) - i
      /\ \A j \in 1..(Len(q) - i) : b[j] = q[i + j]
    <2> HIDE DEF f, p, a
    <2>1. i \in Nat /\ i =< Len(q)
        BY <1>1
    <2> QED
        BY <2>1, Suffix, Zenon
<1>5. \A j \in 1..(i - 1) : a[j] = q[j]
    <2> HIDE DEF a
    <2> QED
        BY <1>1, <1>3
<1>6. \A j \in 1..(Len(q) - i) : b[j] = q[i + j]
    BY <1>4, Zenon
<1>7. p = a \o b
    BY Zenon DEF Without
<1> HIDE DEF a, b, p
<1>8. /\ p \in Seq(S) /\ Len(p) = Len(q) - 1
      /\ \A j \in 1..(Len(q) - 1) :
            p[j] = IF j =< i - 1 THEN a[j] ELSE b[j - (i - 1)]
    <2>1. Len(a) + Len(b) = Len(q) - 1
        BY <1>1, <1>3, <1>4
    <2>2. /\ a \o b \in Seq(S) /\ Len(a \o b) = Len(a) + Len(b)
          /\ \A j \in 1..(Len(a) + Len(b)) :
                (a \o b)[j] = IF j =< Len(a) THEN a[j] ELSE b[j - Len(a)]
        BY ONLY <1>3, <1>4, Joined, Zenon
    <2> QED
        BY <1>3, <1>7, <2>1, <2>2, Zenon
<1>9. DOMAIN p = 1..(Len(q) - 1)
    BY <1>8
<1>10. f \in [DOMAIN p -> DOMAIN q]
    BY <1>1, <1>9
<1>11. \A j \in DOMAIN p : p[j] = q[f[j]]
    <2> SUFFICES ASSUME NEW j \in 1..(Len(q) - 1) PROVE p[j] = q[f[j]]
        BY <1>9, Zenon
    <2>1. CASE j < i
        <3>1. p[j] = a[j] /\ j \in 1..(i - 1)
            BY <1>1, <1>8, <2>1
        <3> QED
            BY <1>5, <1>9, <2>1, <3>1, Zenon
    <2>2. CASE ~(j < i)
        <3>1. /\ p[j] = b[j - (i - 1)]
              /\ j - (i - 1) \in 1..(Len(q) - i) /\ i + (j - (i - 1)) = j + 1
            BY <1>1, <1>8, <2>2
        <3> QED
            BY <1>6, <1>9, <2>2, <3>1, Zenon
    <2> QED
        BY <2>1, <2>2, Zenon
<1>12. \A j, k \in DOMAIN p : (f[j] = f[k] => j = k) /\ (j < k => f[j] < f[k])
    BY <1>1, <1>9
<1>13. Part(p, q)
    <2> HIDE DEF f
    <2> QED
        BY <1>10, <1>11, <1>12, Zenon DEF Part
<1> QED
    BY <1>8, <1>13, Zenon DEF p

(* A queue with a message added. *)
LEMMA AppendOffers ==
    ASSUME NEW S, NEW q \in Seq(S), NEW m \in S, NEW gr
    PROVE  /\ Append(q, m) \in Seq(S)
           /\ m.kind # "Accepted" =>
                 /\ Offered(Append(q, m)) = Offered(q)
                 /\ Once(q) => Once(Append(q, m))
                 /\ Fits(q, gr) => Fits(Append(q, m), gr)
           /\ m.kind = "Accepted" =>
                 /\ Offered(Append(q, m)) = Offered(q) \cup {m.session}
                 /\ (Once(q) /\ m.session \notin Offered(q)) => Once(Append(q, m))
                 /\ (Fits(q, gr) /\ m.session \in 1..Len(gr)
                        /\ m.service = gr[m.session].service)
                       => Fits(Append(q, m), gr)
<1> DEFINE p == Append(q, m)
           n == Len(q) + 1
<1>1. /\ p \in Seq(S) /\ DOMAIN p = 1..n /\ p[n] = m /\ n \in Nat
      /\ \A i \in 1..Len(q) : p[i] = q[i]
      /\ DOMAIN q = 1..Len(q) /\ n \notin 1..Len(q) /\ 1..n = 1..Len(q) \cup {n}
    OBVIOUS
<1> HIDE DEF p, n
<1>2. m.kind # "Accepted" => Grants(p) = Grants(q)
    BY <1>1, Zenon DEF Grants
<1>3. m.kind = "Accepted" => Grants(p) = Grants(q) \cup {n}
    BY <1>1, Zenon DEF Grants
<1>4. \A i \in Grants(q) : p[i] = q[i] /\ i # n
    BY <1>1, Zenon DEF Grants
<1>5. CASE m.kind # "Accepted"
    BY <1>1, <1>2, <1>4, <1>5, Zenon DEF Offered, Once, Fits, p
<1>6. CASE m.kind = "Accepted"
    <2>1. Offered(p) = Offered(q) \cup {m.session}
        BY <1>1, <1>3, <1>4, <1>6 DEF Offered
    <2>2. (Once(q) /\ m.session \notin Offered(q)) => Once(p)
        BY <1>1, <1>3, <1>4, <1>6 DEF Offered, Once
    <2>3. (Fits(q, gr) /\ m.session \in 1..Len(gr)
              /\ m.service = gr[m.session].service) => Fits(p, gr)
        BY <1>1, <1>3, <1>4, <1>6 DEF Fits
    <2> QED
        BY <1>1, <1>6, <2>1, <2>2, <2>3, Zenon DEF p
<1> QED
    BY <1>5, <1>6, Zenon

(* The first message of a queue, when it is an InterestAccepted. *)
LEMMA HeadOffers ==
    ASSUME NEW S, NEW q \in Seq(S), q # <<>>, NEW gr
    PROVE  /\ Head(q) \in S
           /\ Head(q).kind = "Accepted" =>
                 /\ Head(q).session \in Offered(q)
                 /\ Once(q) => Head(q).session \notin Offered(Tail(q))
                 /\ Fits(q, gr) =>
                       /\ Head(q).session \in 1..Len(gr)
                       /\ Head(q).service = gr[Head(q).session].service
<1>1. /\ Head(q) = q[1] /\ DOMAIN q = 1..Len(q) /\ Len(q) \in Nat \ {0}
      /\ q[1] \in S
      /\ DOMAIN Tail(q) = 1..(Len(q) - 1)
      /\ \A i \in 1..(Len(q) - 1) : Tail(q)[i] = q[i + 1]
    OBVIOUS
<1>2. Head(q).kind = "Accepted" => 1 \in Grants(q)
    BY <1>1 DEF Grants
<1>3. \A i \in Grants(Tail(q)) :
          i + 1 \in Grants(q) /\ Tail(q)[i] = q[i + 1] /\ i + 1 # 1
    BY <1>1 DEF Grants
<1>4. ASSUME Head(q).kind = "Accepted"
      PROVE  /\ Head(q).session \in Offered(q)
             /\ Once(q) => Head(q).session \notin Offered(Tail(q))
    <2>1. Head(q).session \in Offered(q)
        BY <1>1, <1>2, <1>4, Zenon DEF Offered
    <2>2. ASSUME Once(q) PROVE Head(q).session \notin Offered(Tail(q))
        <3>1. \A i \in Grants(Tail(q)) : Tail(q)[i].session # q[1].session
            BY <1>2, <1>3, <1>4, <2>2, Zenon DEF Once
        <3> QED
            BY <1>1, <3>1, Zenon DEF Offered
    <2> QED
        BY <2>1, <2>2, Zenon
<1>5. ASSUME Head(q).kind = "Accepted", Fits(q, gr)
      PROVE  /\ Head(q).session \in 1..Len(gr)
             /\ Head(q).service = gr[Head(q).session].service
    BY <1>1, <1>2, <1>5, Zenon DEF Fits
<1> QED
    BY <1>1, <1>4, <1>5, Zenon

-----------------------------------------------------------------------------
(* The inductive invariant *)

Types ==
    /\ net \in Seq(Message) /\ rx \in Seq(Message) /\ buffered \in Seq(Message)
    /\ wq \in Seq(FrameOut)
    /\ granted \in Seq(Grant) /\ requests \in Seq(Nat)
    /\ routes \subseteq 1..Len(granted) /\ receivers \subseteq 1..Len(granted)
    /\ handles \subseteq Handle /\ ports \subseteq Port
    /\ phase = "waiting" => opening \in Services
    /\ pending \subseteq Services /\ first \subseteq Services

(* An InterestAccepted that nobody has taken offers a session of its own. *)
Links ==
    /\ Once(net) /\ Once(rx) /\ Fits(net, granted) /\ Fits(rx, granted)
    /\ Offered(net) \cap Offered(rx) = {}
    /\ Offered(net) \cap receivers = {} /\ Offered(rx) \cap receivers = {}

Held ==
    /\ \A h \in handles :
          h.session \in receivers /\ h.service = granted[h.session].service
    /\ \A g, h \in handles : g.session = h.session => g = h

(* The server makes a pane provider only of services of which it is the    *)
(* first provider.                                                         *)
Sides ==
    \A n \in 1..Len(granted) :
        granted[n].side = "provider" => granted[n].service \in first

Closed == ~server_open => routes = {}

PaneInv == TypeOK /\ Links /\ Held /\ Sides /\ Closed /\ RevokeAccounted

(* The frames the pane sends and the messages the server sends are such.   *)
LEMMA Kinds ==
    /\ \A s \in Services : Declare(s) \in FrameOut /\ Declined(s) \in Message
    /\ \A n \in Nat : /\ Revoke(n) \in FrameOut /\ Teardown(n) \in Message
                      /\ Answer(n) \in FrameOut /\ Request(n) \in Message
    /\ \A s \in Services, n \in Nat : Accepted(s, n) \in Message
    /\ Lifecycle \in Message
    BY Zenon DEF Declare, Declined, Revoke, Teardown, Answer, Request, Accepted,
           Lifecycle, FrameOut, Message

(* Only the messages of the kind Accepted offer a session. *)
LEMMA NoOffer ==
    /\ \A s : Declined(s).kind # "Accepted"
    /\ \A n : Teardown(n).kind # "Accepted" /\ Request(n).kind # "Accepted"
    /\ Lifecycle.kind # "Accepted"
    /\ \A s, n : /\ Accepted(s, n).kind = "Accepted"
                 /\ Accepted(s, n).service = s /\ Accepted(s, n).session = n
    BY Zenon DEF Declined, Teardown, Request, Lifecycle, Accepted

(* The fields of a message have the types its kind says. *)
LEMMA Fields ==
    ASSUME NEW m \in Message
    PROVE  /\ m.kind \in {"Accepted", "Declined", "Teardown", "Lifecycle", "Request"}
           /\ m.kind = "Accepted" => m.service \in Services /\ m.session \in Nat
           /\ m.kind = "Request" => m.id \in Nat
    BY DEF Message, Lifecycle

(* The frames of the write channel, with one added. *)
LEMMA AppendRange ==
    ASSUME NEW S, NEW q \in Seq(S), NEW f \in S
    PROVE  Append(q, f) \in Seq(S) /\ Range(Append(q, f)) = Range(q) \cup {f}
<1>1. /\ Append(q, f) \in Seq(S) /\ DOMAIN Append(q, f) = 1..(Len(q) + 1)
      /\ Append(q, f)[Len(q) + 1] = f /\ DOMAIN q = 1..Len(q)
      /\ \A i \in 1..Len(q) : Append(q, f)[i] = q[i]
      /\ 1..(Len(q) + 1) = 1..Len(q) \cup {Len(q) + 1}
    OBVIOUS
<1> QED
    BY <1>1 DEF Range

(* try_send puts a frame in the write channel or drops it, and keeps the   *)
(* others.                                                                 *)
LEMMA SendKeeps ==
    ASSUME NEW f \in FrameOut, wq \in Seq(FrameOut), TrySend(f)
    PROVE  /\ wq' \in Seq(FrameOut)
           /\ Range(wq') \cup lost' = Range(wq) \cup lost \cup {f}
<1>1. CASE Room
    <2>1. wq' = Append(wq, f) /\ lost' = lost
        BY <1>1, Zenon DEF TrySend
    <2> QED
        BY <2>1, AppendRange
<1>2. CASE ~Room
    BY <1>2, Zenon DEF TrySend
<1> QED
    BY <1>1, <1>2, Zenon

(* A callback returns or ends the looper, and does not make the pane wait. *)
LEMMA ResumeKeeps ==
    ASSUME Types, Resume, phase # "waiting"
    PROVE  phase' # "waiting"
    BY Zenon DEF Resume

(* A dispatched request is answered, or its port is kept. *)
LEMMA DispatchKeeps ==
    ASSUME Types, NEW r \in Nat, DispatchRequest(r), phase # "waiting"
    PROVE  /\ wq' \in Seq(FrameOut) /\ ports' \subseteq Port
           /\ phase' # "waiting"
           /\ Range(wq) \cup lost \subseteq Range(wq') \cup lost'
<1>1. Answer(r) \in FrameOut
    BY Kinds, Zenon
<1>2. CASE TrySend(Answer(r)) /\ UNCHANGED ports
    <2>1. phase' # "waiting"
        BY ResumeKeeps, Zenon DEF DispatchRequest
    <2> QED
        BY <1>1, <1>2, <2>1, SendKeeps, Zenon DEF Types
<1>3. CASE /\ \E o \in Owners : ports' = ports \cup {[id |-> r, owner |-> o]}
           /\ UNCHANGED <<wq, lost>>
    <2>1. phase' # "waiting"
        BY ResumeKeeps, Zenon DEF DispatchRequest
    <2>2. \A o \in Owners : [id |-> r, owner |-> o] \in Port
        BY Zenon DEF Port
    <2> QED
        BY <1>3, <2>1, <2>2, Zenon DEF Types
<1> QED
    BY <1>2, <1>3, Zenon DEF DispatchRequest

-----------------------------------------------------------------------------
(* Each conjunct is kept by each step *)

(* What issuing a session does: the new session is offered to the pane,    *)
(* and the others are as they were.                                        *)
LEMMA IssueKeeps ==
    ASSUME Types, NEW s \in Services, NEW side \in {"consumer", "provider"},
           Issue(s, side)
    PROVE  /\ net' \in Seq(Message) /\ granted' \in Seq(Grant)
           /\ Len(granted') = Len(granted) + 1 /\ Len(granted) \in Nat
           /\ granted'[Len(granted) + 1] = [service |-> s, side |-> side]
           /\ \A n \in 1..Len(granted) : granted'[n] = granted[n]
           /\ routes' = routes \cup {Len(granted) + 1}
           /\ net' = Append(net, Accepted(s, Len(granted) + 1))
<1> DEFINE g == [service |-> s, side |-> side]
<1>1. g \in Grant
    BY Zenon DEF Grant
<1>2. granted' = Append(granted, g) /\ granted \in Seq(Grant)
    BY Zenon DEF Issue, Types
<1> HIDE DEF g
<1>3. /\ granted' \in Seq(Grant) /\ Len(granted') = Len(granted) + 1
      /\ Len(granted) \in Nat /\ granted'[Len(granted) + 1] = g
      /\ \A n \in 1..Len(granted) : granted'[n] = granted[n]
    BY <1>1, <1>2
<1>4. Accepted(s, Len(granted) + 1) \in Message
    BY <1>3, Kinds
<1>5. /\ routes' = routes \cup {Len(granted) + 1}
      /\ net' = Append(net, Accepted(s, Len(granted) + 1))
    BY Zenon DEF Issue, Post
<1>6. net' \in Seq(Message)
    BY <1>4, <1>5 DEF Types
<1> QED
    BY <1>3, <1>5, <1>6, Zenon DEF g

(* What the types say of messages and frames. *)
LEMMA Incomings ==
    /\ \A s \in Services : Declined(s) \in Incoming /\ Declare(s) \in Outgoing
    /\ \A n \in Sessions : Teardown(n) \in Incoming /\ Revoke(n) \in Outgoing
    /\ \A s \in Services, n \in Sessions : Accepted(s, n) \in Incoming
    /\ \A r \in Ids : Request(r) \in Incoming /\ Answer(r) \in Outgoing
    /\ Lifecycle \in Incoming
    BY Zenon DEF Declare, Declined, Revoke, Teardown, Answer, Request, Accepted,
           Lifecycle, Incoming, Outgoing

(* The fields of a message and of a frame have the types its kind says. *)
LEMMA TypedFields ==
    /\ \A m \in Incoming :
          /\ m.kind = "Accepted" => m.session \in Sessions
          /\ m.kind = "Request" => m.id \in Ids
    /\ \A f \in Outgoing :
          /\ f.kind \in {"Declare", "Revoke", "Answer"}
          /\ f.kind = "Declare" => f.service \in Services
          /\ f.kind = "Revoke" => f.session \in Sessions
          /\ f.kind = "Answer" => f.id \in Ids
    BY DEF Incoming, Outgoing, Lifecycle

(* The sets of the types, while no session and no request is new. *)
LEMMA SameSets ==
    ASSUME UNCHANGED <<granted, requests>>
    PROVE  /\ Sessions' = Sessions /\ Ids' = Ids
           /\ Incoming' = Incoming /\ Outgoing' = Outgoing
    BY Zenon DEF Sessions, Ids, Incoming, Outgoing, Lifecycle

(* They grow with the sessions and the requests. *)
LEMMA SetsGrow ==
    ASSUME Len(granted) \in Nat, Len(requests) \in Nat,
           Len(granted') \in Nat, Len(requests') \in Nat,
           Len(granted) =< Len(granted'), Len(requests) =< Len(requests')
    PROVE  /\ Sessions \subseteq Sessions' /\ Ids \subseteq Ids'
           /\ Incoming \subseteq Incoming' /\ Outgoing \subseteq Outgoing'
<1>1. Sessions \subseteq Sessions' /\ Ids \subseteq Ids'
    BY DEF Sessions, Ids
<1> QED
    BY <1>1, Zenon DEF Incoming, Outgoing, Lifecycle

(* A sequence over a set is one over a larger set. *)
LEMMA SeqGrows ==
    ASSUME NEW S, NEW T, S \subseteq T, NEW q \in Seq(S)
    PROVE  q \in Seq(T)
    OBVIOUS

(* try_send keeps the types of the write channel. *)
LEMMA SendTypes ==
    ASSUME TypeOK, NEW f \in Outgoing, TrySend(f)
    PROVE  /\ wq' \in Seq(Outgoing) /\ Len(wq') =< WriteCapacity
           /\ lost' \subseteq Outgoing
<1>1. wq \in Seq(Outgoing) /\ Len(wq) \in Nat /\ lost \subseteq Outgoing
    BY DEF TypeOK
<1>2. CASE Room
    <2>1. wq' = Append(wq, f) /\ lost' = lost
        BY <1>2, Zenon DEF TrySend
    <2>2. wq' \in Seq(Outgoing) /\ Len(wq') = Len(wq) + 1
        BY <1>1, <2>1
    <2> QED
        BY <1>1, <1>2, <2>1, <2>2, PaneAssumption DEF Room
<1>3. CASE ~Room
    BY <1>1, <1>3, Zenon DEF TrySend, TypeOK
<1> QED
    BY <1>2, <1>3, Zenon

(* So does the dispatch of a request, which keeps a port or answers.       *)
LEMMA DispatchTypes ==
    ASSUME TypeOK, NEW r \in Ids, DispatchRequest(r), phase \in {"drain", "running"}
    PROVE  /\ wq' \in Seq(Outgoing) /\ Len(wq') =< WriteCapacity
           /\ lost' \subseteq Outgoing
           /\ ports' \subseteq [id : Ids, owner : Owners]
           /\ handled' \in Seq(Ids) /\ refused' \subseteq Ids
           /\ answered' \in Seq(Ids)
           /\ phase' \in {"drain", "running", "stopping"}
<1>1. handled' \in Seq(Ids) /\ answered' \in Seq(Ids) /\ refused' \subseteq Ids
    <2>1. handled' = Append(handled, r) /\ answered' = answered
        BY Zenon DEF DispatchRequest
    <2>2. refused' = refused \/ refused' = refused \cup {r}
        BY Zenon DEF DispatchRequest
    <2> QED
        BY <2>1, <2>2 DEF TypeOK
<1>2. phase' \in {"drain", "running", "stopping"}
    BY Zenon DEF DispatchRequest, Resume
<1>3. CASE TrySend(Answer(r)) /\ UNCHANGED ports
    <2>1. Answer(r) \in Outgoing
        BY Incomings, Zenon
    <2>2. /\ wq' \in Seq(Outgoing) /\ Len(wq') =< WriteCapacity
          /\ lost' \subseteq Outgoing
        BY <1>3, <2>1, SendTypes, Zenon
    <2> QED
        BY <1>1, <1>2, <1>3, <2>2, Zenon DEF TypeOK
<1>4. CASE /\ \E o \in Owners : ports' = ports \cup {[id |-> r, owner |-> o]}
           /\ UNCHANGED <<wq, lost>>
    <2>1. ports' \subseteq [id : Ids, owner : Owners]
        BY <1>4 DEF TypeOK
    <2> QED
        BY <1>1, <1>2, <1>4, <2>1, Zenon DEF TypeOK
<1> QED
    BY <1>3, <1>4, Zenon DEF DispatchRequest

(* A new session, or a new request, with the message about it. *)
LEMMA PostTypes ==
    ASSUME TypeOK,
           granted' \in Seq(Grant), Len(granted) =< Len(granted'),
           requests' \in Seq(Sessions'), Len(requests) =< Len(requests'),
           NEW m \in Incoming', Post(m), routes' \subseteq Sessions',
           pending' \subseteq Services, first' \subseteq Provided,
           arrivals' \in 0..MaxArrivals,
           UNCHANGED <<phase, setup, handles, ports, rx, rx_open, forwarder,
                       reader, outbox, server_open, ghosts>>
    PROVE  TypeOK'
<1>1. /\ Len(granted) \in Nat /\ Len(requests) \in Nat
      /\ Len(granted') \in Nat /\ Len(requests') \in Nat
    BY SMTT(30) DEF TypeOK, Grant
<1>2. /\ Sessions \subseteq Sessions' /\ Ids \subseteq Ids'
      /\ Incoming \subseteq Incoming' /\ Outgoing \subseteq Outgoing'
    BY <1>1, SetsGrow, Zenon
<1>3. /\ net \in Seq(Incoming') /\ rx \in Seq(Incoming')
      /\ buffered \in Seq(Incoming') /\ wq \in Seq(Outgoing')
      /\ handled \in Seq(Ids') /\ answered \in Seq(Ids')
    BY <1>2, SeqGrows, Zenon DEF TypeOK
<1>4. net' \in Seq(Incoming')
    BY <1>3 DEF Post
<1>5. /\ receivers \subseteq Sessions' /\ refused \subseteq Ids'
      /\ lost \subseteq Outgoing'
    BY <1>2, Zenon DEF TypeOK
<1>6. handles \subseteq [service : Services, session : Sessions', owner : Owners]
    BY <1>2, Zenon DEF TypeOK
<1>7. ports \subseteq [id : Ids', owner : Owners]
    BY <1>2, Zenon DEF TypeOK
<1>8. granted' \in Seq([service : Services, side : {"consumer", "provider"}])
    BY Zenon DEF Grant
<1> QED
    BY <1>3, <1>4, <1>5, <1>6, <1>7, <1>8, Zenon
    DEF TypeOK, setup, outbox, ghosts

(* What a channel holds after a send. *)
LEMMA AfterSend ==
    ASSUME NEW S, NEW q \in Seq(S), NEW e \in S
    PROVE  /\ Append(q, e) \in Seq(S) /\ Len(q) \in Nat
           /\ Len(Append(q, e)) = Len(q) + 1
OBVIOUS

(* What a channel holds after a receive. *)
LEMMA AfterReceive ==
    ASSUME NEW S, NEW q \in Seq(S), q # <<>>
    PROVE  /\ Head(q) \in S /\ Tail(q) \in Seq(S)
           /\ Len(Tail(q)) = Len(q) - 1 /\ Len(q) \in Nat
OBVIOUS

(* A message of the server, while no session and no request is new. *)
LEMMA PlainPostTypes ==
    ASSUME TypeOK, UNCHANGED <<granted, requests>>,
           NEW m \in Incoming, Post(m), routes' \subseteq Sessions,
           pending' \subseteq Services, first' \subseteq Provided,
           arrivals' \in 0..MaxArrivals,
           UNCHANGED <<phase, setup, handles, ports, rx, rx_open, forwarder,
                       reader, outbox, server_open, ghosts>>
    PROVE  TypeOK'
<1>1. Sessions' = Sessions /\ Incoming' = Incoming
    BY SameSets, Zenon
<1>2. /\ granted' \in Seq(Grant) /\ Len(granted) =< Len(granted')
      /\ requests' \in Seq(Sessions') /\ Len(requests) =< Len(requests')
    BY <1>1 DEF TypeOK, Grant
<1>3. m \in Incoming' /\ routes' \subseteq Sessions'
    BY <1>1, Zenon
<1> QED
    BY <1>2, <1>3, PostTypes, Zenon

(* A new session. *)
LEMMA IssueTypes ==
    ASSUME TypeOK, NEW s \in Services, NEW side \in {"consumer", "provider"},
           Issue(s, side), UNCHANGED requests,
           pending' \subseteq Services, arrivals' \in 0..MaxArrivals,
           UNCHANGED <<phase, setup, handles, ports, rx, rx_open, forwarder,
                       reader, outbox, server_open, first, ghosts>>
    PROVE  TypeOK'
<1> DEFINE n == Len(granted) + 1
           m == Accepted(s, n)
<1>1. /\ granted' \in Seq(Grant) /\ Len(granted') = n /\ Len(granted) \in Nat
      /\ routes' = routes \cup {n} /\ Post(m)
    <2>1. [service |-> s, side |-> side] \in Grant /\ granted \in Seq(Grant)
        BY Zenon DEF Grant, TypeOK
    <2>2. granted' = Append(granted, [service |-> s, side |-> side])
        BY Zenon DEF Issue
    <2>3. /\ granted' \in Seq(Grant) /\ Len(granted') = Len(granted) + 1
          /\ Len(granted) \in Nat
        BY <2>1, <2>2
    <2> QED
        BY <2>3, Zenon DEF Issue
<1>2. Len(granted) =< Len(granted') /\ Sessions \subseteq Sessions' /\ n \in Sessions'
    BY <1>1 DEF Sessions
<1>3. m \in Incoming' /\ routes' \subseteq Sessions'
    BY <1>1, <1>2, Zenon DEF Accepted, Incoming, TypeOK
<1>4. requests' \in Seq(Sessions') /\ Len(requests) =< Len(requests')
    <2>1. requests \in Seq(Sessions) /\ Len(requests) \in Nat
        BY DEF TypeOK
    <2>2. requests \in Seq(Sessions')
        BY <1>2, <2>1, SeqGrows, Zenon
    <2> QED
        BY <2>1, <2>2
<1>5. first' \subseteq Provided
    BY Zenon DEF TypeOK
<1> HIDE DEF m, n
<1> QED
    BY <1>1, <1>2, <1>3, <1>4, <1>5, PostTypes, Zenon

(* When the pane becomes first provider of a service, the server sends it  *)
(* nothing, or the teardown of one of its sessions.                        *)
LEMMA PromotedPosts ==
    ASSUME Promoted
    PROVE  /\ UNCHANGED net \/ \E n \in routes : Post(Teardown(n))
           /\ UNCHANGED granted /\ routes' \subseteq routes
           /\ first \subseteq first'
BY Zenon DEF Promoted

(* Every step keeps the types. *)
LEMMA TypeStep ==
    ASSUME TypeOK, Next
    PROVE  TypeOK'
<1> USE DEF setup, inbox, outbox, server, ghosts
<1>1. ASSUME NEW s \in Services, Open(s) PROVE TypeOK'
    <2>1. Declare(s) \in Outgoing /\ wq \in Seq(Outgoing) /\ Len(wq) \in Nat
        BY Incomings DEF TypeOK
    <2>2. /\ Append(wq, Declare(s)) \in Seq(Outgoing)
          /\ Len(Append(wq, Declare(s))) = Len(wq) + 1
        BY ONLY <2>1, AfterSend, Zenon
    <2>3. wq' \in Seq(Outgoing) /\ Len(wq') =< WriteCapacity
        <3>1. /\ Len(wq) =< WriteCapacity /\ WriteCapacity \in Nat
              /\ \/ Len(wq) < WriteCapacity /\ wq' = Append(wq, Declare(s))
                 \/ wq' = wq
            BY <1>1, PaneAssumption, Zenon DEF Open, Room, TypeOK
        <3>2. CASE wq' = wq
            BY ONLY <2>1, <3>1, <3>2, Zenon
        <3>3. CASE Len(wq) < WriteCapacity /\ wq' = Append(wq, Declare(s))
            <4>1. wq' \in Seq(Outgoing) /\ Len(wq') = Len(wq) + 1
                BY ONLY <2>2, <3>3, Zenon
            <4> QED
                BY ONLY <2>1, <3>1, <3>3, <4>1
        <3> QED
            BY <3>1, <3>2, <3>3, Zenon
    <2>4. /\ phase' \in {"setup", "waiting"}
          /\ opening' \in (IF phase' = "waiting" THEN registered' ELSE {NoService})
          /\ registered' \subseteq Services
        BY <1>1, Zenon DEF Open, TypeOK
    <2>5. /\ Sessions' = Sessions /\ Ids' = Ids
          /\ Incoming' = Incoming /\ Outgoing' = Outgoing
        BY <1>1, SameSets, Zenon DEF Open
    <2> QED
        BY <1>1, <2>3, <2>4, <2>5, Zenon DEF Open, TypeOK
<1>2. CASE Opened
    <2>1. /\ Tail(rx) \in Seq(Incoming) /\ Head(rx) \in Incoming
          /\ phase' = "setup" /\ opening' = NoService
        BY <1>2, SMTT(30) DEF Opened, TypeOK
    <2>2. /\ Sessions' = Sessions /\ Ids' = Ids
          /\ Incoming' = Incoming /\ Outgoing' = Outgoing
        BY <1>2, SameSets, Zenon DEF Opened
    <2>3. /\ receivers' \subseteq Sessions /\ request_receivers' \subseteq receivers'
          /\ handles' \subseteq [service : Services, session : Sessions, owner : Owners]
        <3>1. CASE Head(rx).kind = "Accepted"
            <4> DEFINE n == Head(rx).session
            <4>1. n \in Sessions /\ opening \in Services
                BY <1>2, <2>1, <3>1, TypedFields, Zenon DEF Opened, TypeOK
            <4>2. /\ receivers' = receivers \cup {n}
                  /\ \/ request_receivers' = request_receivers
                     \/ request_receivers' = request_receivers \cup {n}
                  /\ \E o \in Owners : handles' = handles \cup
                        {[service |-> opening, session |-> n, owner |-> o]}
                BY <1>2, <3>1, Zenon DEF Opened, Register
            <4> HIDE DEF n
            <4> QED
                BY <4>1, <4>2 DEF TypeOK
        <3>2. CASE Head(rx).kind # "Accepted"
            BY <1>2, <3>2, Zenon DEF Opened, TypeOK
        <3> QED
            BY <3>1, <3>2, Zenon
    <2> QED
        BY <1>2, <2>1, <2>2, <2>3, Zenon DEF Opened, TypeOK
<1>3. CASE Buffer
    <2>1. Tail(rx) \in Seq(Incoming) /\ Append(buffered, Head(rx)) \in Seq(Incoming)
        BY <1>3, SMTT(30) DEF Buffer, TypeOK
    <2>2. /\ Sessions' = Sessions /\ Ids' = Ids
          /\ Incoming' = Incoming /\ Outgoing' = Outgoing
        BY <1>3, SameSets, Zenon DEF Buffer
    <2> QED
        BY <1>3, <2>1, <2>2, Zenon DEF Buffer, TypeOK
<1>4. CASE OpenFails \/ RunWith \/ StartLooper \/ ConnectionLost \/ ReaderEof
    <2>1. /\ Sessions' = Sessions /\ Ids' = Ids
          /\ Incoming' = Incoming /\ Outgoing' = Outgoing
        BY <1>4, SameSets, Zenon DEF OpenFails, RunWith, StartLooper, ConnectionLost, ReaderEof
    <2> QED
        BY <1>4, <2>1, Zenon DEF OpenFails, RunWith, StartLooper, ConnectionLost,
                          ReaderEof, TypeOK
<1>5. CASE Drain
    <2>1. Tail(buffered) \in Seq(Incoming) /\ Head(buffered) \in Incoming
        BY <1>5 DEF Drain, TypeOK
    <2>2. /\ Sessions' = Sessions /\ Ids' = Ids
          /\ Incoming' = Incoming /\ Outgoing' = Outgoing
        BY <1>5, SameSets, Zenon DEF Drain
    <2>3. CASE Head(buffered).kind = "Request" /\ DispatchRequest(Head(buffered).id)
        <3>1. Head(buffered).id \in Ids /\ phase \in {"drain", "running"}
            BY <1>5, <2>1, <2>3, TypedFields, Zenon DEF Drain
        <3>2. /\ wq' \in Seq(Outgoing) /\ Len(wq') =< WriteCapacity
              /\ lost' \subseteq Outgoing
              /\ ports' \subseteq [id : Ids, owner : Owners]
              /\ handled' \in Seq(Ids) /\ refused' \subseteq Ids
              /\ answered' \in Seq(Ids)
              /\ phase' \in {"drain", "running", "stopping"}
            BY <2>3, <3>1, DispatchTypes, Zenon
        <3> QED
            BY <1>5, <2>1, <2>2, <3>2, Zenon DEF Drain, TypeOK
    <2>4. CASE Callback \/ UNCHANGED <<phase, ports, wq, ghosts>>
        BY <1>5, <2>1, <2>2, <2>4, Zenon DEF Drain, TypeOK, Callback, Resume
    <2> QED
        BY <1>5, <2>3, <2>4, Zenon DEF Drain
<1>6. CASE Take
    <2>1. PICK i \in DOMAIN rx :
              /\ IF rx[i].kind = "Request" THEN DispatchRequest(rx[i].id)
                 ELSE Callback
              /\ rx' = Without(rx, i)
        BY <1>6, Zenon DEF Take
    <2>2. rx' \in Seq(Incoming) /\ rx[i] \in Incoming
        <3>1. rx \in Seq(Incoming)
            BY Zenon DEF TypeOK
        <3>2. rx[i] \in Incoming
            BY <3>1
        <3>3. Without(rx, i) \in Seq(Incoming)
            BY <3>1, WithoutPart, Zenon
        <3> QED
            BY <2>1, <3>2, <3>3, Zenon
    <2>3. /\ Sessions' = Sessions /\ Ids' = Ids
          /\ Incoming' = Incoming /\ Outgoing' = Outgoing
        BY <1>6, SameSets, Zenon DEF Take
    <2>4. CASE rx[i].kind = "Request"
        <3>1. rx[i].id \in Ids /\ phase \in {"drain", "running"}
            BY <1>6, <2>2, <2>4, TypedFields, Zenon DEF Take
        <3>2. /\ wq' \in Seq(Outgoing) /\ Len(wq') =< WriteCapacity
              /\ lost' \subseteq Outgoing
              /\ ports' \subseteq [id : Ids, owner : Owners]
              /\ handled' \in Seq(Ids) /\ refused' \subseteq Ids
              /\ answered' \in Seq(Ids)
              /\ phase' \in {"drain", "running", "stopping"}
            BY <2>1, <2>4, <3>1, DispatchTypes, Zenon
        <3> QED
            BY <1>6, <2>2, <2>3, <3>2, Zenon DEF Take, TypeOK
    <2>5. CASE rx[i].kind # "Request"
        BY <1>6, <2>1, <2>2, <2>3, <2>5, Zenon DEF Take, TypeOK, Callback, Resume
    <2> QED
        BY <2>4, <2>5, Zenon
<1>7. CASE AnswerPort
    <2>1. PICK q \in ports : TrySend(Answer(q.id)) /\ ports' = ports \ {q}
        BY <1>7, Zenon DEF AnswerPort
    <2>2. Answer(q.id) \in Outgoing
        BY <2>1, Incomings, Zenon DEF TypeOK
    <2>3. /\ wq' \in Seq(Outgoing) /\ Len(wq') =< WriteCapacity
          /\ lost' \subseteq Outgoing
        BY <2>1, <2>2, SendTypes, Zenon
    <2>4. /\ Sessions' = Sessions /\ Ids' = Ids
          /\ Incoming' = Incoming /\ Outgoing' = Outgoing
        BY <1>7, SameSets, Zenon DEF AnswerPort
    <2> QED
        BY <1>7, <2>1, <2>3, <2>4, Zenon DEF AnswerPort, TypeOK
<1>8. CASE DropHandle
    <2>1. PICK h \in handles : TrySend(Revoke(h.session)) /\ handles' = handles \ {h}
        BY <1>8, Zenon DEF DropHandle
    <2>2. Revoke(h.session) \in Outgoing
        BY <2>1, Incomings, Zenon DEF TypeOK
    <2>3. /\ wq' \in Seq(Outgoing) /\ Len(wq') =< WriteCapacity
          /\ lost' \subseteq Outgoing
        BY <2>1, <2>2, SendTypes, Zenon
    <2>4. /\ Sessions' = Sessions /\ Ids' = Ids
          /\ Incoming' = Incoming /\ Outgoing' = Outgoing
        BY <1>8, SameSets, Zenon DEF DropHandle
    <2> QED
        BY <1>8, <2>1, <2>3, <2>4, Zenon DEF DropHandle, TypeOK
<1>9. CASE Stopped
    <2>1. rx' \in Seq(Incoming)
        BY <1>9, SuffixPart DEF Stopped, TypeOK
    <2>2. /\ Sessions' = Sessions /\ Ids' = Ids
          /\ Incoming' = Incoming /\ Outgoing' = Outgoing
        BY <1>9, SameSets, Zenon DEF Stopped
    <2> QED
        BY <1>9, <2>1, <2>2, Zenon DEF Stopped, TypeOK
<1>10. CASE ReaderReads
    <2>1. Tail(net) \in Seq(Incoming) /\ Append(rx, Head(net)) \in Seq(Incoming)
        <3>1. rx \in Seq(Incoming) /\ net \in Seq(Incoming) /\ net # <<>>
            BY <1>10, Zenon DEF ReaderReads, TypeOK
        <3>2. Head(net) \in Incoming /\ Tail(net) \in Seq(Incoming)
            BY ONLY <3>1, AfterReceive, Zenon
        <3> QED
            BY ONLY <3>1, <3>2, AfterSend, Zenon
    <2>2. /\ rx' \in Seq(Incoming) /\ net' \in Seq(Incoming)
          /\ reader' \in {"run", "done"}
        BY <1>10, <2>1, Zenon DEF ReaderReads, TypeOK
    <2>3. /\ Sessions' = Sessions /\ Ids' = Ids
          /\ Incoming' = Incoming /\ Outgoing' = Outgoing
        BY <1>10, SameSets, Zenon DEF ReaderReads
    <2> QED
        BY <1>10, <2>2, <2>3, Zenon DEF ReaderReads, TypeOK
<1>11. CASE ForwarderEnds
    <2>1. /\ Sessions' = Sessions /\ Ids' = Ids
          /\ Incoming' = Incoming /\ Outgoing' = Outgoing
        BY <1>11, SameSets, Zenon DEF ForwarderEnds
    <2>2. <<>> \in Seq(Incoming)
        OBVIOUS
    <2> QED
        BY <1>11, <2>1, <2>2, Zenon DEF ForwarderEnds, TypeOK
<1>12. CASE WriterWrites
    <2> DEFINE f == Head(wq)
    <2>1. /\ f \in Outgoing /\ Tail(wq) \in Seq(Outgoing)
          /\ Len(Tail(wq)) =< WriteCapacity
        <3>1. wq \in Seq(Outgoing) /\ wq # <<>> /\ Len(wq) =< WriteCapacity
            BY <1>12, Zenon DEF WriterWrites, TypeOK
        <3>2. /\ f \in Outgoing /\ Tail(wq) \in Seq(Outgoing)
              /\ Len(Tail(wq)) = Len(wq) - 1 /\ Len(wq) \in Nat
            BY ONLY <3>1, AfterReceive, Zenon DEF f
        <3> QED
            BY <3>1, <3>2, PaneAssumption
    <2>2. /\ Sessions' = Sessions /\ Ids' = Ids
          /\ Incoming' = Incoming /\ Outgoing' = Outgoing
        BY <1>12, SameSets, Zenon DEF WriterWrites
    <2>3. Processed(f) /\ wq' = Tail(wq)
        BY <1>12, Zenon DEF WriterWrites
    <2>4. /\ f.kind \in {"Declare", "Revoke", "Answer"}
          /\ f.kind = "Declare" => f.service \in Services
          /\ f.kind = "Revoke" => Teardown(f.session) \in Incoming
          /\ f.kind = "Answer" => f.id \in Ids
        BY <2>1, TypedFields, Incomings, Zenon
    <2> HIDE DEF f
    <2>5. /\ pending' \subseteq Services /\ routes' \subseteq Sessions
          /\ net' \in Seq(Incoming) /\ answered' \in Seq(Ids)
        <3>1. CASE f.kind = "Revoke"
            <4>1. /\ routes' = routes \ {f.session} /\ pending' = pending
                  /\ answered' = answered
                  /\ net' = net \/ net' = Append(net, Teardown(f.session))
                BY <2>3, <3>1, Zenon DEF Processed
            <4>2. Append(net, Teardown(f.session)) \in Seq(Incoming)
                <5>1. net \in Seq(Incoming)
                    BY Zenon DEF TypeOK
                <5> QED
                    BY ONLY <2>4, <3>1, <5>1, AfterSend, Zenon
            <4> QED
                BY <4>1, <4>2, Zenon DEF TypeOK
        <3>2. CASE f.kind = "Declare"
            <4>1. /\ pending' = pending \cup {f.service} /\ net' = net
                  /\ routes' = routes /\ answered' = answered
                BY <2>3, <3>2, Zenon DEF Processed
            <4> QED
                BY <2>4, <3>2, <4>1, Zenon DEF TypeOK
        <3>3. CASE f.kind = "Answer"
            <4>1. /\ pending' = pending /\ net' = net /\ routes' = routes
                  /\ answered' = Append(answered, f.id)
                BY <2>3, <3>3, Zenon DEF Processed
            <4>2. answered \in Seq(Ids) /\ f.id \in Ids
                BY <2>4, <3>3, Zenon DEF TypeOK
            <4>3. Append(answered, f.id) \in Seq(Ids)
                BY ONLY <4>2, AfterSend, Zenon
            <4> QED
                BY <4>1, <4>3, Zenon DEF TypeOK
        <3> QED
            BY <2>4, <3>1, <3>2, <3>3, Zenon
    <2> QED
        BY <1>12, <2>1, <2>2, <2>3, <2>5, Zenon DEF WriterWrites, TypeOK
<1>13. CASE WriterEnds
    <2>1. /\ Sessions' = Sessions /\ Ids' = Ids
          /\ Incoming' = Incoming /\ Outgoing' = Outgoing
        BY <1>13, SameSets, Zenon DEF WriterEnds
    <2>2. <<>> \in Seq(Outgoing) /\ Len(<<>>) =< WriteCapacity
        BY PaneAssumption
    <2> QED
        BY <1>13, <2>1, <2>2, Zenon DEF WriterEnds, TypeOK
<1>14. CASE ServerAnswers
    <2>1. PICK s \in pending :
              /\ pending' = pending \ {s}
              /\ \/ s \notin first /\ Issue(s, "consumer")
                 \/ Post(Declined(s)) /\ UNCHANGED <<granted, routes>>
        BY <1>14, Zenon DEF ServerAnswers
    <2>2. s \in Services /\ pending' \subseteq Services
        BY <2>1, Zenon DEF TypeOK
    <2>3. /\ UNCHANGED <<phase, setup, handles, ports, rx, rx_open, forwarder,
                         reader, outbox, server_open, first, ghosts>>
          /\ UNCHANGED <<requests, arrivals>>
        BY <1>14, Zenon DEF ServerAnswers
    <2>4. CASE Issue(s, "consumer")
        BY <2>2, <2>3, <2>4, IssueTypes, Zenon DEF TypeOK
    <2>5. CASE Post(Declined(s)) /\ UNCHANGED <<granted, routes>>
        BY <2>2, <2>3, <2>5, PlainPostTypes, Incomings, Zenon DEF TypeOK
    <2> QED
        BY <2>1, <2>4, <2>5, Zenon
<1>15. CASE Arrival
    <2>1. /\ UNCHANGED <<phase, setup, handles, ports, rx, rx_open, forwarder,
                         reader, outbox, server_open, first, ghosts>>
          /\ UNCHANGED pending /\ arrivals' \in 0..MaxArrivals
        BY <1>15, PaneAssumption, SMTT(30) DEF Arrival, TypeOK
    <2>2. pending' \subseteq Services /\ first' \subseteq Provided
        BY <2>1, Zenon DEF TypeOK
    <2>3. CASE (\E s \in first : Issue(s, "provider")) /\ UNCHANGED requests
        <3>1. PICK s \in first : Issue(s, "provider")
            BY <2>3, Zenon
        <3>2. s \in Services
            BY <3>1, PaneAssumption, Zenon DEF TypeOK
        <3> QED
            BY <2>1, <2>2, <2>3, <3>1, <3>2, IssueTypes, Zenon
    <2>4. CASE /\ \E n \in routes : routes' = routes \ {n} /\ Post(Teardown(n))
               /\ UNCHANGED <<granted, requests>>
        <3>1. PICK n \in routes : routes' = routes \ {n} /\ Post(Teardown(n))
            BY <2>4, Zenon
        <3>2. Teardown(n) \in Incoming /\ routes' \subseteq Sessions
            BY <3>1, Incomings, Zenon DEF TypeOK
        <3> QED
            BY <2>1, <2>2, <2>4, <3>1, <3>2, PlainPostTypes, Zenon
    <2>5. CASE Post(Lifecycle) /\ UNCHANGED <<granted, routes, requests>>
        <3>1. Lifecycle \in Incoming /\ routes' \subseteq Sessions
            BY <2>5, Incomings, Zenon DEF TypeOK
        <3> QED
            BY <2>1, <2>2, <2>5, <3>1, PlainPostTypes, Zenon
    <2>6. CASE /\ \E n \in routes : requests' = Append(requests, n)
               /\ Post(Request(Len(requests) + 1))
               /\ UNCHANGED <<granted, routes>>
        <3> DEFINE k == Len(requests) + 1
        <3>1. /\ requests' \in Seq(Sessions) /\ Len(requests') = k
              /\ Len(requests) \in Nat
            BY <2>6, SMTT(30) DEF TypeOK
        <3>2. Sessions' = Sessions /\ k \in Ids' /\ Len(requests) =< Len(requests')
            BY <2>6, <3>1 DEF Sessions, Ids
        <3>3. Request(k) \in Incoming'
            BY <3>2, Zenon DEF Request, Incoming
        <3>4. /\ granted' \in Seq(Grant) /\ Len(granted) =< Len(granted')
              /\ routes' \subseteq Sessions'
            BY <2>6, <3>2, SMTT(30) DEF TypeOK, Grant
        <3> HIDE DEF k
        <3>5. Post(Request(k))
            BY <2>6, Zenon DEF k
        <3> QED
            BY <2>1, <2>2, <3>1, <3>2, <3>3, <3>4, <3>5, PostTypes, Zenon
    <2> QED
        BY <1>15, <2>3, <2>4, <2>5, <2>6, Zenon DEF Arrival
<1>16. CASE ServerCloses
    <2>1. /\ Sessions' = Sessions /\ Ids' = Ids
          /\ Incoming' = Incoming /\ Outgoing' = Outgoing
        BY <1>16, SameSets, Zenon DEF ServerCloses
    <2> QED
        BY <1>16, <2>1, Zenon DEF ServerCloses, TypeOK
<1>17. CASE KeepSender \/ DropSender
    <2>1. /\ Sessions' = Sessions /\ Ids' = Ids
          /\ Incoming' = Incoming /\ Outgoing' = Outgoing
        BY <1>17, SameSets, Zenon DEF KeepSender, DropSender
    <2>2. clones' \in BOOLEAN
        BY <1>17, Zenon DEF KeepSender, DropSender
    <2> QED
        BY <1>17, <2>1, <2>2, Zenon DEF KeepSender, DropSender, TypeOK
<1>18. CASE Promoted
    <2>1. /\ UNCHANGED <<phase, setup, handles, ports, rx, rx_open, forwarder,
                         reader, outbox, server_open, ghosts>>
          /\ UNCHANGED <<pending, granted, requests, arrivals>>
        BY <1>18, Zenon DEF Promoted
    <2>2. pending' \subseteq Services /\ arrivals' \in 0..MaxArrivals
        BY <2>1, Zenon DEF TypeOK
    <2>3. first' \subseteq Provided /\ routes' \subseteq Sessions
        BY <1>18, Zenon DEF Promoted, TypeOK
    <2>4. CASE UNCHANGED net
        <3>1. /\ Sessions' = Sessions /\ Ids' = Ids
              /\ Incoming' = Incoming /\ Outgoing' = Outgoing
            BY <2>1, SameSets, Zenon
        <3> QED
            BY <2>1, <2>3, <2>4, <3>1, Zenon DEF TypeOK
    <2>5. ASSUME NEW n \in routes, Post(Teardown(n)) PROVE TypeOK'
        <3>1. Teardown(n) \in Incoming
            BY <2>5, Incomings, Zenon DEF TypeOK
        <3> QED
            BY <2>1, <2>2, <2>3, <2>5, <3>1, PlainPostTypes, Zenon
    <2> QED
        BY <1>18, <2>4, <2>5, PromotedPosts, Zenon
<1> QED
    BY <1>1, <1>2, <1>3, <1>4, <1>5, <1>6, <1>7, <1>8, <1>9, <1>10, <1>11, <1>12,
       <1>13, <1>14, <1>15, <1>16, <1>17, <1>18, Zenon DEF Next, Builder, Looper, Reader, Writer

(* The types without the bounds that sessions and requests give them. *)
LEMMA PlainTypes == TypeOK => Types
<1> SUFFICES ASSUME TypeOK PROVE Types
    BY Zenon
<1>1. /\ Len(granted) \in Nat /\ Len(requests) \in Nat
      /\ granted \in Seq(Grant) /\ requests \in Seq(Sessions)
    BY DEF TypeOK, Grant
<1>2. Sessions \subseteq Nat /\ Ids \subseteq Nat
    BY <1>1 DEF Sessions, Ids
<1>3. Incoming \subseteq Message /\ Outgoing \subseteq FrameOut
    BY <1>2, Zenon DEF Incoming, Outgoing, Message, FrameOut
<1>4. /\ net \in Seq(Message) /\ rx \in Seq(Message) /\ buffered \in Seq(Message)
      /\ wq \in Seq(FrameOut) /\ requests \in Seq(Nat)
    BY <1>1, <1>2, <1>3, SeqGrows, Zenon DEF TypeOK
<1>5. handles \subseteq Handle /\ ports \subseteq Port
    BY <1>2, Zenon DEF TypeOK, Handle, Port
<1>6. phase = "waiting" => opening \in Services
    BY Zenon DEF TypeOK
<1>7. /\ routes \subseteq 1..Len(granted) /\ receivers \subseteq 1..Len(granted)
      /\ pending \subseteq Services /\ first \subseteq Services
    BY PaneAssumption, Zenon DEF TypeOK, Sessions
<1> QED
    BY <1>1, <1>4, <1>5, <1>6, <1>7, Zenon DEF Types

(* The types hold at the start. *)
LEMMA TypeInit == Init => TypeOK
<1> SUFFICES ASSUME Init PROVE TypeOK
    BY Zenon
<1>1. /\ \A S : <<>> \in Seq(S)
      /\ Len(<<>>) = 0 /\ 0 =< WriteCapacity /\ 0 \in 0..MaxArrivals
    BY PaneAssumption
<1>2. first \subseteq Provided
    BY Zenon DEF Init
<1> QED
    BY <1>1, <1>2, Zenon DEF Init, TypeOK

(* Every variable has its type throughout the life of a pane: what is in   *)
(* transit names sessions the server has issued and requests a peer has    *)
(* sent, and the write channel never holds more than its capacity.         *)
THEOREM TypeCorrect == Spec => []TypeOK
<1>1. TypeOK /\ UNCHANGED vars => TypeOK'
    <2> SUFFICES ASSUME TypeOK, UNCHANGED vars PROVE TypeOK'
        BY Zenon
    <2>1. /\ Sessions' = Sessions /\ Ids' = Ids
          /\ Incoming' = Incoming /\ Outgoing' = Outgoing
        BY SameSets, Zenon DEF vars, server
    <2> QED
        BY <2>1, Zenon DEF vars, setup, inbox, outbox, server, ghosts, TypeOK
<1> QED
    BY <1>1, TypeInit, TypeStep, PTL DEF Spec

(* Taking messages out of rx keeps the offers apart. *)
LEMMA RxPartLinks ==
    ASSUME Links, Part(rx', rx), UNCHANGED <<net, granted, receivers>>
    PROVE  Links'
<1>1. /\ Offered(rx') \subseteq Offered(rx)
      /\ Once(rx') /\ Fits(rx', granted)
    BY PartKeeps, Zenon DEF Links
<1> QED
    BY <1>1, Zenon DEF Links

(* A message that is no InterestAccepted does not change the offers. *)
LEMMA PostLinks ==
    ASSUME Types, Links, NEW m \in Message, m.kind # "Accepted",
           net' = Append(net, m), UNCHANGED <<rx, granted, receivers>>
    PROVE  Links'
<1>1. /\ Offered(net') = Offered(net)
      /\ Once(net') /\ Fits(net', granted)
    BY AppendOffers, Zenon DEF Links, Types
<1> QED
    BY <1>1, Zenon DEF Links

(* A new session is offered once. *)
LEMMA IssueLinks ==
    ASSUME Types, Links, NEW s \in Services,
           NEW side \in {"consumer", "provider"}, Issue(s, side),
           UNCHANGED <<rx, receivers>>
    PROVE  Links'
<1> DEFINE n == Len(granted) + 1
           m == Accepted(s, n)
<1>1. /\ Len(granted) \in Nat /\ n \in Nat /\ Len(granted') = n
      /\ granted'[n] = [service |-> s, side |-> side]
      /\ \A k \in 1..Len(granted) : granted'[k] = granted[k]
      /\ net' = Append(net, m)
    <2> HIDE DEF m
    <2>1. Len(granted) \in Nat
        BY DEF Types
    <2>2. n \in Nat
        BY <2>1
    <2>3. /\ Len(granted') = n /\ granted'[n] = [service |-> s, side |-> side]
          /\ \A k \in 1..Len(granted) : granted'[k] = granted[k]
          /\ net' = Append(net, Accepted(s, n))
        BY IssueKeeps, Zenon
    <2> QED
        BY <2>1, <2>2, <2>3, Zenon DEF m
<1>2. n \notin 1..Len(granted) /\ n \in 1..n /\ 1..Len(granted) \subseteq 1..n
    BY <1>1, SMTT(30)
<1>3. /\ m \in Message /\ m.kind = "Accepted" /\ m.service = s
      /\ m.session = n
    BY <1>1, Kinds, NoOffer, SMTT(30)
<1>4. granted'[n].service = s
    BY <1>1
<1> HIDE DEF n, m
<1>5. Offered(net) \subseteq 1..Len(granted) /\ Offered(rx) \subseteq 1..Len(granted)
    BY Zenon DEF Links, Fits, Offered
<1>6. Fits(net, granted') /\ Fits(rx, granted')
    <2>1. \A q : Fits(q, granted) => Fits(q, granted')
        <3> SUFFICES ASSUME NEW q, Fits(q, granted), NEW i \in Grants(q)
                     PROVE  /\ q[i].session \in 1..Len(granted')
                            /\ q[i].service = granted'[q[i].session].service
            BY Zenon DEF Fits
        <3>1. /\ q[i].session \in 1..Len(granted)
              /\ q[i].service = granted[q[i].session].service
            BY Zenon DEF Fits
        <3> QED
            BY <1>1, <1>2, <3>1, Zenon
    <2> QED
        BY <2>1, Zenon DEF Links
<1>7. Offered(net') = Offered(net) \cup {n}
    BY <1>1, <1>3, AppendOffers DEF Types
<1>8. Once(net')
    BY <1>1, <1>2, <1>3, <1>5, AppendOffers, Zenon DEF Types, Links
<1>9. Fits(net', granted')
    <2>1. m.session \in 1..Len(granted') /\ m.service = granted'[m.session].service
        BY <1>1, <1>2, <1>3, <1>4, Zenon
    <2> QED
        BY <1>1, <1>3, <1>6, <2>1, AppendOffers, Zenon DEF Types
<1> QED
    BY <1>2, <1>5, <1>6, <1>7, <1>8, <1>9, Zenon DEF Links, Types

(* Every step keeps the sessions that are offered apart from each other    *)
(* and from those that have been taken.                                    *)
LEMMA LinksStep ==
    ASSUME Types, Links, Next
    PROVE  Links'
<1> USE DEF setup, inbox, outbox, server, ghosts
<1>1. CASE UNCHANGED <<net, rx, granted, receivers>>
    BY <1>1, Zenon DEF Links
<1>2. CASE Opened
    <2>1. /\ rx # <<>> /\ rx' = Tail(rx) /\ rx \in Seq(Message)
          /\ UNCHANGED <<net, granted>>
        BY <1>2, Zenon DEF Opened, Types
    <2>2. Part(rx', rx)
        BY <2>1, TailPart, Zenon
    <2>3. CASE Head(rx).kind # "Accepted"
        <3>1. UNCHANGED receivers
            BY <1>2, <2>3, Zenon DEF Opened
        <3> QED
            BY <2>1, <2>2, <3>1, RxPartLinks, Zenon
    <2>4. CASE Head(rx).kind = "Accepted"
        <3> DEFINE n == Head(rx).session
        <3>1. receivers' = receivers \cup {n}
            BY <1>2, <2>4, Zenon DEF Opened, Register
        <3>2. n \in Offered(rx) /\ n \notin Offered(rx')
            BY <2>1, <2>4, HeadOffers, Zenon DEF Links
        <3> HIDE DEF n
        <3>3. /\ Offered(rx') \subseteq Offered(rx)
              /\ Once(rx') /\ Fits(rx', granted)
            BY <2>2, PartKeeps, Zenon DEF Links
        <3> QED
            BY <2>1, <3>1, <3>2, <3>3, Zenon DEF Links
    <2> QED
        BY <2>3, <2>4, Zenon
<1>3. CASE Buffer
    <2>1. /\ rx # <<>> /\ rx' = Tail(rx) /\ rx \in Seq(Message)
          /\ UNCHANGED <<net, granted, receivers>>
        BY <1>3, Zenon DEF Buffer, Types
    <2>2. Part(rx', rx)
        BY <2>1, TailPart, Zenon
    <2> QED
        BY <2>1, <2>2, RxPartLinks, Zenon
<1>4. CASE Take
    <2>1. /\ \E i \in DOMAIN rx : rx' = Without(rx, i)
          /\ rx \in Seq(Message) /\ UNCHANGED <<net, granted, receivers>>
        BY <1>4, Zenon DEF Take, Types
    <2>2. Part(rx', rx)
        BY <2>1, WithoutPart, Zenon
    <2> QED
        BY <2>1, <2>2, RxPartLinks, Zenon
<1>5. CASE Stopped
    <2>1. /\ \E k \in 0..Len(rx) : rx' = SubSeq(rx, k + 1, Len(rx))
          /\ rx \in Seq(Message) /\ UNCHANGED <<net, granted, receivers>>
        BY <1>5, Zenon DEF Stopped, Types
    <2>2. Part(rx', rx)
        BY <2>1, SuffixPart, Zenon
    <2> QED
        BY <2>1, <2>2, RxPartLinks, Zenon
<1>6. CASE ForwarderEnds
    <2>1. rx' = <<>> /\ UNCHANGED <<net, granted, receivers>>
        BY <1>6, Zenon DEF ForwarderEnds
    <2>2. Grants(rx') = {}
        BY <2>1 DEF Grants
    <2> QED
        BY <2>1, <2>2 DEF Links, Offered, Once, Fits
<1>7. CASE ReaderReads
    <2> DEFINE m == Head(net)
    <2>1. /\ net # <<>> /\ net' = Tail(net) /\ net \in Seq(Message)
          /\ rx \in Seq(Message) /\ UNCHANGED <<granted, receivers>>
          /\ rx' = rx \/ rx' = Append(rx, m)
        BY <1>7, Zenon DEF ReaderReads, Types
    <2>2. /\ m \in Message
          /\ m.kind = "Accepted" =>
                /\ m.session \in Offered(net) /\ m.session \notin Offered(net')
                /\ m.session \in 1..Len(granted)
                /\ m.service = granted[m.session].service
        BY <2>1, HeadOffers, Zenon DEF Links
    <2>3. /\ Offered(net') \subseteq Offered(net) /\ Once(net')
          /\ Fits(net', granted)
        <3>1. Part(net', net)
            BY <2>1, TailPart, Zenon
        <3> QED
            BY <3>1, PartKeeps, Zenon DEF Links
    <2> HIDE DEF m
    <2>4. CASE rx' = rx
        BY <2>1, <2>3, <2>4, Zenon DEF Links
    <2>5. CASE rx' = Append(rx, m) /\ m.kind # "Accepted"
        <3>1. /\ Offered(rx') = Offered(rx) /\ Once(rx') /\ Fits(rx', granted)
            BY <2>1, <2>2, <2>5, AppendOffers, Zenon DEF Links
        <3> QED
            BY <2>1, <2>3, <3>1, Zenon DEF Links
    <2>6. CASE rx' = Append(rx, m) /\ m.kind = "Accepted"
        <3>1. m.session \notin Offered(rx)
            BY <2>2, <2>6, Zenon DEF Links
        <3>2. /\ Offered(rx') = Offered(rx) \cup {m.session}
              /\ Once(rx') /\ Fits(rx', granted)
            BY <2>1, <2>2, <2>6, <3>1, AppendOffers, SMTT(30) DEF Links
        <3> QED
            BY <2>1, <2>2, <2>3, <2>6, <3>2, Zenon DEF Links
    <2> QED
        BY <2>1, <2>4, <2>5, <2>6, Zenon
<1>8. CASE WriterWrites
    <2> DEFINE n == Head(wq).session
    <2>1. UNCHANGED <<rx, granted, receivers>>
        BY <1>8, ZenonT(30) DEF WriterWrites
    <2>2. /\ Head(wq) \in FrameOut
          /\ Head(wq).kind = "Revoke" => n \in Nat
          /\ Head(wq).kind \in {"Declare", "Revoke", "Answer"}
        BY <1>8 DEF WriterWrites, Types, FrameOut
    <2>3. \/ net' = net
          \/ net' = Append(net, Teardown(n)) /\ Head(wq).kind = "Revoke"
        BY <1>8, <2>2, Zenon DEF WriterWrites, Processed
    <2> HIDE DEF n
    <2>4. CASE net' = net
        BY <2>1, <2>4, Zenon DEF Links
    <2>5. CASE net' = Append(net, Teardown(n)) /\ Head(wq).kind = "Revoke"
        BY <2>1, <2>2, <2>5, Kinds, NoOffer, PostLinks, Zenon
    <2> QED
        BY <2>3, <2>4, <2>5, Zenon
<1>9. CASE ServerAnswers
    <2>1. PICK s \in pending :
              \/ Issue(s, "consumer")
              \/ Post(Declined(s)) /\ UNCHANGED <<granted, routes>>
        BY <1>9, Zenon DEF ServerAnswers
    <2>2. s \in Services /\ UNCHANGED <<rx, receivers>>
        BY <1>9, <2>1, Zenon DEF Types, ServerAnswers
    <2>3. CASE Issue(s, "consumer")
        BY <2>2, <2>3, IssueLinks, Zenon
    <2>4. CASE Post(Declined(s)) /\ UNCHANGED <<granted, routes>>
        BY <2>2, <2>4, Kinds, NoOffer, PostLinks, Zenon DEF Post
    <2> QED
        BY <2>1, <2>3, <2>4, Zenon
<1>10. CASE Arrival
    <2>1. UNCHANGED <<rx, receivers>>
        BY <1>10, Zenon DEF Arrival
    <2>2. CASE \E s \in first : Issue(s, "provider")
        <3>1. PICK s \in first : Issue(s, "provider")
            BY <2>2, Zenon
        <3>2. s \in Services
            BY <3>1, Zenon DEF Types
        <3> QED
            BY <2>1, <3>1, <3>2, IssueLinks, Zenon
    <2>3. CASE (\E n \in routes : Post(Teardown(n))) /\ UNCHANGED granted
        <3>1. PICK n \in routes : Post(Teardown(n))
            BY <2>3, Zenon
        <3>2. n \in Nat
            BY <3>1 DEF Types
        <3> QED
            BY <2>1, <2>3, <3>1, <3>2, Kinds, NoOffer, PostLinks, Zenon DEF Post
    <2>4. CASE Post(Lifecycle) /\ UNCHANGED granted
        BY <2>1, <2>4, Kinds, NoOffer, PostLinks, Zenon DEF Post
    <2>5. CASE Post(Request(Len(requests) + 1)) /\ UNCHANGED granted
        <3>1. Len(requests) + 1 \in Nat
            BY DEF Types
        <3> QED
            BY <2>1, <2>5, <3>1, Kinds, NoOffer, PostLinks, Zenon DEF Post
    <2> QED
        BY <1>10, <2>2, <2>3, <2>4, <2>5, Zenon DEF Arrival
<1>11. ASSUME NEW s \in Services, Open(s) PROVE UNCHANGED <<net, rx, granted, receivers>>
    BY <1>11, Zenon DEF Open
<1>12. CASE \/ OpenFails \/ RunWith \/ Drain \/ StartLooper \/ ConnectionLost
            \/ ReaderEof
    <2>1. UNCHANGED <<net, rx, granted, receivers>>
        BY <1>12, Zenon DEF OpenFails, RunWith, Drain, StartLooper, ConnectionLost, ReaderEof
    <2> QED
        BY <1>1, <2>1, Zenon
<1>13. CASE \/ AnswerPort \/ DropHandle \/ KeepSender \/ DropSender \/ WriterEnds
            \/ ServerCloses
    <2>1. UNCHANGED <<net, rx, granted, receivers>>
        BY <1>13, Zenon DEF AnswerPort, DropHandle, KeepSender, DropSender, WriterEnds,
           ServerCloses
    <2> QED
        BY <1>1, <2>1, Zenon
<1>14. CASE Promoted
    <2>1. UNCHANGED <<rx, granted, receivers>>
        BY <1>14, Zenon DEF Promoted
    <2>2. ASSUME NEW n \in routes, Post(Teardown(n)) PROVE Links'
        <3>1. n \in Nat
            BY <2>2 DEF Types
        <3> QED
            BY <2>1, <2>2, <3>1, Kinds, NoOffer, PostLinks, Zenon DEF Post
    <2> QED
        BY <1>1, <1>14, <2>1, <2>2, PromotedPosts, Zenon
<1> QED
    BY <1>1, <1>2, <1>3, <1>4, <1>5, <1>6, <1>7, <1>8, <1>9, <1>10, <1>11, <1>12,
       <1>13, <1>14, Zenon DEF Next, Builder, Looper, Reader, Writer

(* The numbers of the sessions when the server has issued one more. *)
LEMMA UpTo ==
    \A n \in Nat : 1..(n + 1) = 1..n \cup {n + 1}
    OBVIOUS

(* The sessions issued so far stay as they are. *)
LEMMA GrantedGrows ==
    ASSUME Types, Sides, Next
    PROVE  /\ first \subseteq first'
           /\ \A n \in 1..Len(granted) : granted'[n] = granted[n]
           /\ Sides'
<1> USE DEF setup, inbox, outbox, server, ghosts
<1>1. CASE UNCHANGED granted /\ first \subseteq first'
    BY <1>1, Zenon DEF Sides
<1>2. ASSUME NEW s \in Services, NEW side \in {"consumer", "provider"},
             Issue(s, side), side = "provider" => s \in first, UNCHANGED first
      PROVE  /\ \A n \in 1..Len(granted) : granted'[n] = granted[n]
             /\ Sides'
    <2> DEFINE k == Len(granted) + 1
    <2>1. /\ Len(granted') = k /\ Len(granted) \in Nat
          /\ granted'[k] = [service |-> s, side |-> side]
          /\ \A n \in 1..Len(granted) : granted'[n] = granted[n]
        BY <1>2, IssueKeeps, Zenon
    <2>2. 1..k = 1..Len(granted) \cup {k}
        BY <2>1, UpTo, Zenon
    <2> HIDE DEF k
    <2>3. granted'[k].side = side /\ granted'[k].service = s
        <3> DEFINE g == [service |-> s, side |-> side]
        <3>1. g.side = side /\ g.service = s
            BY Zenon
        <3> HIDE DEF g
        <3>2. granted'[k] = g
            BY <2>1, Zenon DEF g
        <3> QED
            BY <3>1, <3>2, Zenon
    <2>4. \A n \in 1..Len(granted) :
              granted'[n].side = "provider" => granted'[n].service \in first
        BY <2>1, Zenon DEF Sides
    <2> QED
        BY <1>2, <2>1, <2>2, <2>3, <2>4, Zenon DEF Sides
<1>3. CASE ServerAnswers
    <2>1. PICK s \in pending :
              \/ s \notin first /\ Issue(s, "consumer")
              \/ Post(Declined(s)) /\ UNCHANGED <<granted, routes>>
        BY <1>3, Zenon DEF ServerAnswers
    <2>2. s \in Services /\ UNCHANGED first
        BY <1>3, <2>1, Zenon DEF Types, ServerAnswers
    <2>3. CASE s \notin first /\ Issue(s, "consumer")
        BY <1>2, <2>2, <2>3, Zenon
    <2>4. CASE UNCHANGED granted
        BY <1>1, <2>2, <2>4, Zenon
    <2> QED
        BY <2>1, <2>2, <2>3, <2>4, Zenon
<1>4. CASE Arrival
    <2>1. UNCHANGED first
        BY <1>4, Zenon DEF Arrival
    <2>2. CASE \E s \in first : Issue(s, "provider")
        <3>1. PICK s \in first : Issue(s, "provider")
            BY <2>2, Zenon
        <3>2. s \in Services
            BY <3>1, Zenon DEF Types
        <3> QED
            BY <1>2, <2>1, <3>1, <3>2, Zenon
    <2>3. CASE UNCHANGED granted
        BY <1>1, <2>1, <2>3, Zenon
    <2> QED
        BY <1>4, <2>2, <2>3, Zenon DEF Arrival
<1>5. ASSUME NEW s \in Services, Open(s) PROVE UNCHANGED <<granted, first>>
    BY <1>5, Zenon DEF Open
<1>6. CASE Builder \/ RunWith
    BY <1>1, <1>6, Zenon DEF Builder, Opened, Buffer, OpenFails, RunWith
<1>7. CASE Looper
    BY <1>1, <1>7, Zenon DEF Looper, Drain, StartLooper, Take, ConnectionLost, Stopped
<1>8. CASE AnswerPort \/ DropHandle \/ Reader \/ ForwarderEnds
    BY <1>1, <1>8, Zenon DEF AnswerPort, DropHandle, Reader, ReaderReads, ReaderEof,
                      ForwarderEnds
<1>9. CASE Writer \/ ServerCloses
    BY <1>1, <1>9, Zenon DEF Writer, WriterWrites, WriterEnds, ServerCloses
<1>10. CASE KeepSender \/ DropSender
    BY <1>1, <1>10, Zenon DEF KeepSender, DropSender
<1>11. CASE Promoted
    BY <1>1, <1>11, PromotedPosts, Zenon
<1> QED
    BY <1>1, <1>3, <1>4, <1>5, <1>6, <1>7, <1>8, <1>9, <1>10, <1>11, Zenon DEF Next

(* Every step keeps the sessions of the handles their own. *)
LEMMA HeldStep ==
    ASSUME Types, Links, Held, Sides, Next
    PROVE  Held'
<1> USE DEF setup, inbox, outbox, server, ghosts
<1>1. \A n \in receivers : granted'[n] = granted[n]
    BY GrantedGrows, Zenon DEF Types
<1>2. CASE handles' \subseteq handles /\ receivers' = receivers
    BY <1>1, <1>2, Zenon DEF Held
<1>3. CASE Opened
    <2>1. CASE Head(rx).kind # "Accepted"
        BY <1>2, <1>3, <2>1, Zenon DEF Opened
    <2>2. CASE Head(rx).kind = "Accepted"
        <3> DEFINE n == Head(rx).session
        <3>1. /\ n \in Offered(rx) /\ Head(rx).service = granted[n].service
              /\ Head(rx).service = opening /\ UNCHANGED granted
            BY <1>3, <2>2, HeadOffers, Zenon DEF Opened, IsAnswer, Types, Links
        <3>2. PICK o \in Owners : handles' = handles \cup
                  {[service |-> opening, session |-> n, owner |-> o]}
            BY <1>3, <2>2, Zenon DEF Opened, Register
        <3>3. receivers' = receivers \cup {n}
            BY <1>3, <2>2, Zenon DEF Opened, Register
        <3> DEFINE h == [service |-> opening, session |-> n, owner |-> o]
        <3>4. h.session = n /\ h.service = opening
            BY Zenon
        <3> HIDE DEF n, h
        <3>5. n \notin receivers
            BY <3>1, Zenon DEF Links
        <3>6. handles' = handles \cup {h}
            BY <3>2, Zenon DEF h
        <3> QED
            BY <3>1, <3>3, <3>4, <3>5, <3>6, Zenon DEF Held
    <2> QED
        BY <2>1, <2>2, Zenon
<1>4. ASSUME NEW s \in Services, Open(s) PROVE UNCHANGED <<handles, receivers>>
    BY <1>4, Zenon DEF Open
<1>5. CASE Buffer \/ OpenFails \/ RunWith
    BY <1>2, <1>5, Zenon DEF Buffer, OpenFails, RunWith
<1>6. CASE Looper
    BY <1>2, <1>6, Zenon DEF Looper, Drain, StartLooper, Take, ConnectionLost, Stopped
<1>7. CASE AnswerPort \/ DropHandle \/ Reader \/ ForwarderEnds
    BY <1>2, <1>7, Zenon DEF AnswerPort, DropHandle, Reader, ReaderReads, ReaderEof,
                      ForwarderEnds
<1>8. CASE Writer \/ ServerAnswers \/ Arrival \/ ServerCloses
    BY <1>2, <1>8, Zenon DEF Writer, WriterWrites, WriterEnds, ServerAnswers, Arrival,
                      ServerCloses
<1>9. CASE KeepSender \/ DropSender \/ Promoted
    BY <1>2, <1>9, Zenon DEF KeepSender, DropSender, Promoted
<1> QED
    BY <1>2, <1>3, <1>4, <1>5, <1>6, <1>7, <1>8, <1>9, Zenon DEF Next, Builder

(* Sending frames and forgetting routes leaves the revocations accounted   *)
(* for.                                                                    *)
LEMMA RevokeKept ==
    ASSUME RevokeAccounted, UNCHANGED <<receivers, handles>>,
           routes' \subseteq routes,
           Range(wq) \cup lost \subseteq Range(wq') \cup lost'
    PROVE  RevokeAccounted'
    BY Zenon DEF RevokeAccounted

(* A new session is not one of the pane's yet. *)
LEMMA RevokeIssued ==
    ASSUME Types, RevokeAccounted, UNCHANGED <<receivers, handles, wq, lost>>,
           NEW s \in Services, NEW side \in {"consumer", "provider"},
           Issue(s, side)
    PROVE  RevokeAccounted'
<1>1. routes' = routes \cup {Len(granted) + 1} /\ Len(granted) \in Nat
    BY IssueKeeps, Zenon
<1>2. Len(granted) + 1 \notin receivers
    BY <1>1 DEF Types
<1>3. receivers' \cap routes' = receivers \cap routes
    BY <1>1, <1>2, Zenon
<1> QED
    BY <1>3, Zenon DEF RevokeAccounted

(* Every step leaves the revocations accounted for, and a closed           *)
(* connection without routes.                                              *)
LEMMA RevokeStep ==
    ASSUME Types, Links, Closed, RevokeAccounted, Next
    PROVE  RevokeAccounted' /\ Closed'
<1> USE DEF setup, inbox, outbox, server, ghosts
<1>1. CASE UNCHANGED <<receivers, handles, routes, wq, lost, server_open>>
    BY <1>1, RevokeKept, Zenon DEF Closed
<1>2. ASSUME NEW s \in Services, Open(s) PROVE RevokeAccounted' /\ Closed'
    <2>1. Range(wq) \subseteq Range(wq')
        <3>1. CASE wq' = Append(wq, Declare(s))
            <4>1. Declare(s) \in FrameOut
                BY Kinds, Zenon
            <4> QED
                BY <3>1, <4>1, AppendRange DEF Types
        <3> QED
            BY <1>2, <3>1, Zenon DEF Open
    <2> QED
        BY <1>2, <2>1, RevokeKept, Zenon DEF Open, Closed
<1>3. CASE Opened
    <2>1. CASE Head(rx).kind # "Accepted"
        BY <1>1, <1>3, <2>1, Zenon DEF Opened
    <2>2. CASE Head(rx).kind = "Accepted"
        <3> DEFINE n == Head(rx).session
        <3>1. PICK o \in Owners : handles' = handles \cup
                  {[service |-> opening, session |-> n, owner |-> o]}
            BY <1>3, <2>2, Zenon DEF Opened, Register
        <3>2. receivers' = receivers \cup {n} /\ UNCHANGED <<wq, lost, routes, server_open>>
            BY <1>3, <2>2, Zenon DEF Opened, Register
        <3> HIDE DEF n
        <3> DEFINE h == [service |-> opening, session |-> n, owner |-> o]
        <3>3. h.session = n /\ handles' = handles \cup {h}
            BY <3>1, Zenon
        <3> HIDE DEF h
        <3> QED
            BY <3>2, <3>3, Zenon DEF RevokeAccounted, Closed
    <2> QED
        BY <2>1, <2>2, Zenon
<1>4. CASE \/ Buffer \/ OpenFails \/ RunWith \/ StartLooper \/ ConnectionLost
           \/ Stopped \/ Reader \/ ForwarderEnds
    BY <1>1, <1>4, Zenon DEF Buffer, OpenFails, RunWith, StartLooper, ConnectionLost,
                      Stopped, Reader, ReaderReads, ReaderEof, ForwarderEnds
<1>5. CASE Drain
    <2>1. UNCHANGED <<receivers, handles, routes, server_open>>
        BY <1>5, Zenon DEF Drain
    <2>2. Range(wq) \cup lost \subseteq Range(wq') \cup lost'
        <3>1. CASE Head(buffered).kind = "Request" /\ DispatchRequest(Head(buffered).id)
            <4>1. Head(buffered).id \in Nat /\ phase # "waiting"
                BY <1>5, <3>1, HeadOffers, Fields, Zenon DEF Drain, Types
            <4> QED
                BY <3>1, <4>1, DispatchKeeps, Zenon
        <3>2. CASE UNCHANGED <<wq, lost>>
            BY <3>2, Zenon
        <3> QED
            BY <1>5, <3>1, <3>2, Zenon DEF Drain, Callback
    <2> QED
        BY <2>1, <2>2, RevokeKept, Zenon DEF Closed
<1>6. CASE Take
    <2>1. UNCHANGED <<receivers, handles, routes, server_open>>
        BY <1>6, Zenon DEF Take
    <2>2. Range(wq) \cup lost \subseteq Range(wq') \cup lost'
        <3>1. PICK i \in DOMAIN rx :
                  IF rx[i].kind = "Request" THEN DispatchRequest(rx[i].id)
                  ELSE Callback
            BY <1>6, Zenon DEF Take
        <3>2. rx[i] \in Message /\ phase # "waiting"
            BY <1>6, <3>1, ElementOfSeq DEF Take, Types
        <3>3. CASE rx[i].kind = "Request"
            <4>1. rx[i].id \in Nat
                BY <3>2, <3>3, Fields, Zenon
            <4> QED
                BY <3>1, <3>2, <3>3, <4>1, DispatchKeeps, Zenon
        <3>4. CASE rx[i].kind # "Request"
            BY <3>1, <3>4, Zenon DEF Callback
        <3> QED
            BY <3>3, <3>4, Zenon
    <2> QED
        BY <2>1, <2>2, RevokeKept, Zenon DEF Closed
<1>7. CASE AnswerPort
    <2>1. PICK q \in ports : TrySend(Answer(q.id))
        BY <1>7, Zenon DEF AnswerPort
    <2>2. Answer(q.id) \in FrameOut
        BY <2>1, Kinds, Zenon DEF Types, Port
    <2>3. Range(wq') \cup lost' = Range(wq) \cup lost \cup {Answer(q.id)}
        BY <2>1, <2>2, SendKeeps, Zenon DEF Types
    <2> QED
        BY <1>7, <2>3, RevokeKept, Zenon DEF AnswerPort, Closed
<1>8. CASE DropHandle
    <2>1. PICK h \in handles : TrySend(Revoke(h.session)) /\ handles' = handles \ {h}
        BY <1>8, Zenon DEF DropHandle
    <2>2. Revoke(h.session) \in FrameOut
        BY <2>1, Kinds, Zenon DEF Types, Handle
    <2>3. Range(wq') \cup lost' = Range(wq) \cup lost \cup {Revoke(h.session)}
        BY <2>1, <2>2, SendKeeps, Zenon DEF Types
    <2>4. UNCHANGED <<receivers, routes, server_open>>
        BY <1>8, Zenon DEF DropHandle
    <2> QED
        BY <2>1, <2>3, <2>4, Zenon DEF RevokeAccounted, Closed
<1>9. CASE WriterWrites
    <2> DEFINE f == Head(wq)
    <2>1. /\ wq # <<>> /\ wq \in Seq(FrameOut) /\ wq' = Tail(wq)
          /\ UNCHANGED <<receivers, handles, lost, server_open>> /\ Processed(f)
          /\ server_open
        BY <1>9, Zenon DEF WriterWrites, Types
    <2>2. Range(wq) \subseteq Range(wq') \cup {f}
        <3> SUFFICES ASSUME NEW i \in 1..Len(wq)
                     PROVE  wq[i] = f \/ \E j \in DOMAIN wq' : wq'[j] = wq[i]
            BY <2>1 DEF Range
        <3>1. /\ DOMAIN wq' = 1..(Len(wq) - 1) /\ f = wq[1]
              /\ \A j \in 1..(Len(wq) - 1) : wq'[j] = wq[j + 1]
            BY <2>1
        <3>2. i = 1 \/ (i - 1 \in 1..(Len(wq) - 1) /\ (i - 1) + 1 = i)
            BY <2>1
        <3> QED
            BY <3>1, <3>2, Zenon
    <2>3. f \in FrameOut
        BY <2>1
    <2> HIDE DEF f
    <2>4. CASE f.kind = "Revoke"
        <3>1. routes' = routes \ {f.session}
            BY <2>1, <2>4, Zenon DEF Processed
        <3>2. \A n \in routes' : Revoke(n) # f
            BY <3>1 DEF Revoke
        <3> QED
            BY <2>1, <2>2, <3>1, <3>2, Zenon DEF RevokeAccounted, Closed
    <2>5. CASE f.kind \in {"Declare", "Answer"}
        <3>1. routes' = routes
            BY <2>1, <2>5, Zenon DEF Processed
        <3>2. \A n : Revoke(n) # f
            BY <2>5 DEF Revoke
        <3> QED
            BY <2>1, <2>2, <3>1, <3>2, Zenon DEF RevokeAccounted, Closed
    <2> QED
        BY <2>3, <2>4, <2>5, Zenon DEF FrameOut
<1>10. CASE WriterEnds
    <2>1. UNCHANGED <<receivers, handles, routes, lost, server_open>>
        BY <1>10, Zenon DEF WriterEnds
    <2>2. CASE server_open
        <3>1. wq = <<>> /\ wq' = <<>>
            BY <1>10, <2>2, Zenon DEF WriterEnds, WriterDone
        <3> QED
            BY <2>1, <3>1, RevokeKept, Zenon DEF Closed
    <2>3. CASE ~server_open
        BY <2>1, <2>3, Zenon DEF Closed, RevokeAccounted
    <2> QED
        BY <2>2, <2>3, Zenon
<1>11. CASE ServerAnswers
    <2>1. UNCHANGED <<receivers, handles, wq, lost, server_open>> /\ server_open
        BY <1>11, Zenon DEF ServerAnswers
    <2>2. PICK s \in pending :
              \/ Issue(s, "consumer")
              \/ Post(Declined(s)) /\ UNCHANGED <<granted, routes>>
        BY <1>11, Zenon DEF ServerAnswers
    <2>3. s \in Services
        BY <2>2, Zenon DEF Types
    <2>4. CASE Issue(s, "consumer")
        BY <2>1, <2>3, <2>4, RevokeIssued, Zenon DEF Closed
    <2>5. CASE UNCHANGED routes
        BY <1>1, <2>1, <2>5, Zenon
    <2> QED
        BY <2>2, <2>4, <2>5, Zenon
<1>12. CASE Arrival
    <2>1. UNCHANGED <<receivers, handles, wq, lost, server_open>> /\ server_open
        BY <1>12, Zenon DEF Arrival
    <2>2. CASE \E s \in first : Issue(s, "provider")
        <3>1. PICK s \in first : Issue(s, "provider")
            BY <2>2, Zenon
        <3>2. s \in Services
            BY <3>1, Zenon DEF Types
        <3> QED
            BY <2>1, <3>1, <3>2, RevokeIssued, Zenon DEF Closed
    <2>3. CASE routes' \subseteq routes
        BY <2>1, <2>3, RevokeKept, Zenon DEF Closed
    <2> QED
        BY <1>12, <2>2, <2>3, Zenon DEF Arrival
<1>13. CASE ServerCloses
    BY <1>13, Zenon DEF ServerCloses, RevokeAccounted, Closed
<1>14. CASE KeepSender \/ DropSender
    BY <1>1, <1>14, Zenon DEF KeepSender, DropSender
<1>15. CASE Promoted
    <2>1. UNCHANGED <<receivers, handles, wq, lost, server_open>> /\ server_open
        BY <1>15, Zenon DEF Promoted
    <2> QED
        BY <1>15, <2>1, PromotedPosts, RevokeKept, Zenon DEF Closed
<1> QED
    BY <1>2, <1>3, <1>4, <1>5, <1>6, <1>7, <1>8, <1>9, <1>10, <1>11, <1>12, <1>13,
       <1>14, <1>15, Zenon
    DEF Next, Builder, Looper, Writer

-----------------------------------------------------------------------------
(* Theorems *)

(* The inductive invariant holds throughout the life of a pane, from       *)
(* connect() to the end of its threads.                                    *)
THEOREM PaneCorrect == Spec => []PaneInv
<1>1. Init => PaneInv
    <2> SUFFICES ASSUME Init PROVE PaneInv
        BY Zenon
    <2>1. TypeOK
        BY TypeInit, Zenon
    <2>2. Grants(net) = {} /\ Grants(rx) = {}
        BY DEF Init, Grants
    <2>3. Links
        BY <2>2, Zenon DEF Links, Once, Fits, Offered, Init
    <2>4. Held /\ Closed /\ RevokeAccounted
        BY Zenon DEF Init, Held, Closed, RevokeAccounted
    <2>5. Sides
        BY DEF Init, Sides
    <2> QED
        BY <2>1, <2>3, <2>4, <2>5, Zenon DEF PaneInv
<1>2. PaneInv /\ TypeOK' /\ [Next]_vars => PaneInv'
    <2> SUFFICES ASSUME PaneInv, TypeOK', [Next]_vars PROVE PaneInv'
        BY Zenon
    <2>1. CASE Next
        BY <2>1, PlainTypes, LinksStep, HeldStep, GrantedGrows, RevokeStep, Zenon DEF PaneInv
    <2>2. CASE UNCHANGED vars
        BY <2>2, Zenon DEF vars, setup, inbox, outbox, server, ghosts, PaneInv,
                    Links, Held, Sides, Closed, RevokeAccounted
    <2> QED
        BY <2>1, <2>2, Zenon
<1> QED
    BY <1>1, <1>2, TypeCorrect, PTL DEF Spec

(* A session whose handle is gone is forgotten by the server, or its       *)
(* RevokeInterest is in the write channel or found no room there, whatever *)
(* the capacity and whichever of the threads ends first (Drop of           *)
(* ServiceHandle, writer_loop).                                            *)
THEOREM RevokeCorrect == Spec => []RevokeAccounted
<1>1. PaneInv => RevokeAccounted
    BY Zenon DEF PaneInv
<1> QED
    BY <1>1, PaneCorrect, PTL
=============================================================================
