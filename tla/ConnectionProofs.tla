-------------------------- MODULE ConnectionProofs --------------------------
(***************************************************************************)
(* Proofs about ConnectionSource: types and capacities, the order of the   *)
(* bytes, the sleep of the looper and the highwater mark, for every frame  *)
(* size, buffer size and number of frames.                                 *)
(***************************************************************************)
EXTENDS ConnectionSource, SequenceTheorems, FiniteSetTheorems, TLAPS

WriterOK(w) == w \in FrameWriter /\ w.flush_pos =< Len(w.buf)

-----------------------------------------------------------------------------
(* Sequences and the two buffers *)

(* A sequence cut in two is the two parts put together. *)
LEMMA CutSeq ==
    ASSUME NEW S, NEW s \in Seq(S), NEW n \in 0..Len(s)
    PROVE  /\ SubSeq(s, 1, n) \in Seq(S) /\ Len(SubSeq(s, 1, n)) = n
           /\ SubSeq(s, n + 1, Len(s)) \in Seq(S)
           /\ Len(SubSeq(s, n + 1, Len(s))) = Len(s) - n
           /\ SubSeq(s, 1, n) \o SubSeq(s, n + 1, Len(s)) = s
<1>1. Len(s) \in Nat /\ n \in Nat /\ n =< Len(s)
    OBVIOUS
<1>2. \A i \in 1..Len(s) : s[i] \in S
    BY ElementOfSeq, Zenon
<1>3. SubSeq(s, 1, n) \in Seq(S) /\ Len(SubSeq(s, 1, n)) = n
    <2>1. \A i \in 1..n : s[i] \in S
        BY <1>1, <1>2
    <2> QED
        BY <1>1, <2>1, SubSeqProperties
<1>4. /\ SubSeq(s, n + 1, Len(s)) \in Seq(S)
      /\ Len(SubSeq(s, n + 1, Len(s))) = Len(s) - n
    <2>1. \A i \in (n + 1)..Len(s) : s[i] \in S
        BY <1>1, <1>2
    <2> QED
        BY <1>1, <2>1, SubSeqProperties
<1>5. SubSeq(s, 1, n) \o SubSeq(s, n + 1, Len(s)) = SubSeq(s, 1, Len(s))
    <2>1. 1 \in 1..(Len(s) + 1) /\ n \in (1 - 1)..Len(s) /\ Len(s) \in n..Len(s)
        BY <1>1
    <2> QED
        BY <2>1, ConcatAdjacentSubSeq, Zenon
<1> QED
    BY <1>3, <1>4, <1>5, SubSeqFull, Zenon

(* A frame on the wire is a sequence of bytes of its own. *)
LEMMA EncodeSeq ==
    ASSUME NEW f \in Frame
    PROVE  /\ Encode(f) \in Seq(Byte)
           /\ Len(Encode(f)) = PrefixBytes + f.len
           /\ PrefixBytes + f.len \in Nat
           /\ \A i \in 1..(PrefixBytes + f.len) : Encode(f)[i].frame = f
<1> DEFINE m == PrefixBytes + f.len
<1>1. m \in Nat /\ f.len \in Nat
    BY CodecAssumption DEF Frame
<1>2. \A i \in 1..m : [frame |-> f, at |-> i] \in Byte
    BY <1>1 DEF Byte
<1>3. Encode(f) \in [1..m -> Byte]
    BY <1>2, Zenon DEF Encode
<1>4. Encode(f) \in Seq(Byte) /\ Len(Encode(f)) = m
    BY <1>1, <1>3, SeqDef
<1> QED
    BY <1>1, <1>4, Zenon DEF Encode

(* The elements of a sequence behind the first p. *)
LEMMA Drop ==
    ASSUME NEW S, NEW s \in Seq(S), NEW p \in 0..Len(s)
    PROVE  /\ SubSeq(s, p + 1, Len(s)) \in Seq(S)
           /\ Len(SubSeq(s, p + 1, Len(s))) = Len(s) - p
           /\ \A i \in 1..(Len(s) - p) : SubSeq(s, p + 1, Len(s))[i] = s[p + i]
<1> DEFINE m == Len(s)
           d == SubSeq(s, p + 1, m)
<1>1. p \in Nat /\ m \in Nat /\ p =< m
    OBVIOUS
<1>2. \A i \in (p + 1)..m : s[i] \in S
    BY <1>1, ElementOfSeq
<1> HIDE DEF m
<1>3. /\ p + 1 \in Int /\ m \in Int /\ m - (p + 1) + 1 = m - p
      /\ (~(p + 1 =< m) => m - p = 0)
    BY <1>1
<1>4. /\ d \in Seq(S)
      /\ Len(d) = IF p + 1 =< m THEN m - (p + 1) + 1 ELSE 0
      /\ \A i \in 1..(m - (p + 1) + 1) : d[i] = s[p + 1 + i - 1]
    BY <1>2, <1>3, SubSeqProperties
<1>5. \A i \in 1..(m - p) : p + 1 + i - 1 = p + i
    BY <1>1
<1> HIDE DEF d
<1>6. d \in Seq(S) /\ Len(d) = m - p /\ \A i \in 1..(m - p) : d[i] = s[p + i]
    BY <1>3, <1>4, <1>5, Zenon
<1> QED
    BY <1>6, Zenon DEF d, m

(* What is appended to a sequence is appended to what is left of it. *)
LEMMA DropConcat ==
    ASSUME NEW S, NEW b \in Seq(S), NEW e \in Seq(S), NEW p \in 0..Len(b)
    PROVE  SubSeq(b \o e, p + 1, Len(b \o e)) = SubSeq(b, p + 1, Len(b)) \o e
<1> DEFINE m == Len(b) + Len(e)
           x == SubSeq(b \o e, p + 1, Len(b \o e))
           d == SubSeq(b, p + 1, Len(b))
<1>1. p \in Nat /\ Len(b) \in Nat /\ Len(e) \in Nat /\ p =< Len(b)
    OBVIOUS
<1>2. b \o e \in Seq(S) /\ Len(b \o e) = m /\ p \in 0..Len(b \o e)
    BY <1>1, ConcatProperties
<1>3. /\ x \in Seq(S) /\ Len(x) = m - p
      /\ \A i \in 1..(m - p) : x[i] = (b \o e)[p + i]
    <2>1. /\ x \in Seq(S) /\ Len(x) = Len(b \o e) - p
          /\ \A i \in 1..(Len(b \o e) - p) : x[i] = (b \o e)[p + i]
        BY <1>2, Drop, Zenon
    <2> HIDE DEF x, m
    <2> QED
        BY <1>2, <2>1, Zenon
<1>4. /\ d \in Seq(S) /\ Len(d) = Len(b) - p
      /\ \A i \in 1..(Len(b) - p) : d[i] = b[p + i]
    BY Drop, Zenon
<1> HIDE DEF x, d
<1>5. /\ d \o e \in Seq(S) /\ Len(d \o e) = Len(d) + Len(e)
      /\ \A i \in 1..(Len(d) + Len(e)) :
            (d \o e)[i] = IF i =< Len(d) THEN d[i] ELSE e[i - Len(d)]
    BY <1>4, ConcatProperties, Zenon
<1>6. \A i \in 1..m : (b \o e)[i] = IF i =< Len(b) THEN b[i] ELSE e[i - Len(b)]
    BY ConcatProperties, Zenon
<1>7. ASSUME NEW i \in 1..Len(x)
      PROVE  x[i] = (d \o e)[i]
    <2>1. i \in Nat /\ 1 =< i /\ i =< m - p /\ i \in 1..(m - p)
        BY <1>1, <1>3
    <2>2. x[i] = IF p + i =< Len(b) THEN b[p + i] ELSE e[p + i - Len(b)]
        <3>1. p + i \in 1..m
            BY <1>1, <2>1
        <3> QED
            BY <1>3, <1>6, <2>1, <3>1, SMTT(30)
    <2>3. (d \o e)[i] = IF i =< Len(d) THEN d[i] ELSE e[i - Len(d)]
        <3>1. i \in 1..(Len(d) + Len(e))
            BY <1>1, <1>4, <2>1, SMTT(30)
        <3> QED
            BY <1>5, <3>1, Zenon
    <2>4. CASE i =< Len(d)
        <3>1. i \in 1..(Len(b) - p) /\ p + i =< Len(b)
            BY <1>1, <1>4, <2>1, <2>4, SMTT(30)
        <3> QED
            BY <1>4, <2>2, <2>3, <2>4, <3>1, Zenon
    <2>5. CASE ~(i =< Len(d))
        <3>1. ~(p + i =< Len(b)) /\ i - Len(d) = p + i - Len(b)
            BY <1>1, <1>4, <2>1, <2>5, SMTT(30)
        <3> QED
            BY <2>2, <2>3, <2>5, <3>1, Zenon
    <2> QED
        BY <2>4, <2>5, Zenon
<1>8. Len(x) = Len(d \o e)
    BY <1>1, <1>3, <1>4, <1>5, SMTT(30)
<1>9. x = d \o e
    BY <1>3, <1>5, <1>7, <1>8, SeqEqual, Zenon
<1> QED
    BY <1>9, Zenon DEF x, d

(* FrameWriter::enqueue adds the frame behind the pending bytes. *)
LEMMA EnqueuePending ==
    ASSUME NEW w, WriterOK(w), NEW f \in Frame
    PROVE  /\ WriterOK(Enqueue(w, f))
           /\ Enqueue(w, f).flush_pos = w.flush_pos
           /\ Enqueue(w, f).buf = w.buf \o Encode(f)
           /\ Pending(w) \in Seq(Byte) /\ Pending(Enqueue(w, f)) \in Seq(Byte)
           /\ Pending(Enqueue(w, f)) = Pending(w) \o Encode(f)
           /\ pending_bytes(w) \in Nat
           /\ pending_bytes(Enqueue(w, f)) =
                  pending_bytes(w) + (PrefixBytes + f.len)
<1> DEFINE e == Encode(f)
           b == w.buf
           p == w.flush_pos
           v == Enqueue(w, f)
<1>1. b \in Seq(Byte) /\ p \in Nat /\ p =< Len(b) /\ Len(b) \in Nat
    BY DEF WriterOK, FrameWriter
<1>2. /\ e \in Seq(Byte) /\ Len(e) = PrefixBytes + f.len /\ Len(e) \in Nat
    BY EncodeSeq, Zenon
<1>3. b \o e \in Seq(Byte) /\ Len(b \o e) = Len(b) + Len(e)
    BY <1>1, <1>2, ConcatProperties, Zenon
<1>4. v.buf = b \o e /\ v.flush_pos = p
    BY Zenon DEF WriterOK, FrameWriter, Enqueue
<1>5. v \in FrameWriter
    BY <1>1, <1>3, Zenon DEF WriterOK, FrameWriter, Enqueue
<1>6. Pending(w) = SubSeq(b, p + 1, Len(b)) /\ pending_bytes(w) = Len(b) - p
    BY Zenon DEF Pending, pending_bytes
<1>7. /\ Pending(v) = SubSeq(v.buf, v.flush_pos + 1, Len(v.buf))
      /\ pending_bytes(v) = Len(v.buf) - v.flush_pos
    BY Zenon DEF Pending, pending_bytes
<1> HIDE DEF e, b, p, v
<1>8. p \in 0..Len(b) /\ p \in 0..Len(b \o e)
    BY <1>1, <1>2, <1>3, SMTT(30)
<1>9. Pending(w) \in Seq(Byte) /\ Pending(v) \in Seq(Byte)
    BY <1>1, <1>3, <1>4, <1>6, <1>7, <1>8, CutSeq, SMTT(30)
<1>10. Pending(v) = Pending(w) \o e
    BY <1>1, <1>2, <1>4, <1>6, <1>7, <1>8, DropConcat, Zenon
<1>11. pending_bytes(w) \in Nat /\ pending_bytes(v) = pending_bytes(w) + Len(e)
    BY <1>1, <1>2, <1>3, <1>4, <1>6, <1>7, SMTT(30)
<1>12. WriterOK(v)
    BY <1>1, <1>2, <1>3, <1>4, <1>5, SMTT(30) DEF WriterOK
<1> QED
    BY <1>2, <1>4, <1>9, <1>10, <1>11, <1>12, Zenon DEF e, b, p, v

(* Dropping n of what is left behind the first p. *)
LEMMA DropDrop ==
    ASSUME NEW S, NEW s \in Seq(S), NEW p \in 0..Len(s),
           NEW n \in 0..(Len(s) - p)
    PROVE  SubSeq(SubSeq(s, p + 1, Len(s)), n + 1, Len(s) - p)
               = SubSeq(s, p + n + 1, Len(s))
<1> DEFINE d == SubSeq(s, p + 1, Len(s))
           x == SubSeq(d, n + 1, Len(d))
           y == SubSeq(s, p + n + 1, Len(s))
<1>1. p \in Nat /\ n \in Nat /\ Len(s) \in Nat /\ p + n =< Len(s)
    OBVIOUS
<1>2. /\ d \in Seq(S) /\ Len(d) = Len(s) - p
      /\ \A i \in 1..(Len(s) - p) : d[i] = s[p + i]
    BY Drop, Zenon
<1> HIDE DEF d
<1>3. n \in 0..Len(d) /\ p + n \in 0..Len(s)
    BY <1>1, <1>2
<1>4. /\ x \in Seq(S) /\ Len(x) = Len(d) - n
      /\ \A i \in 1..(Len(d) - n) : x[i] = d[n + i]
    BY <1>2, <1>3, Drop, Zenon
<1>5. /\ y \in Seq(S) /\ Len(y) = Len(s) - (p + n)
      /\ \A i \in 1..(Len(s) - (p + n)) : y[i] = s[p + n + i]
    BY <1>3, Drop, Zenon
<1> HIDE DEF x, y
<1>6. ASSUME NEW i \in 1..Len(x)
      PROVE  x[i] = y[i]
    <2>1. /\ i \in 1..(Len(d) - n) /\ n + i \in 1..(Len(s) - p)
          /\ i \in 1..(Len(s) - (p + n)) /\ p + (n + i) = p + n + i
        BY <1>1, <1>2, <1>4, SMTT(30)
    <2> QED
        BY <1>2, <1>4, <1>5, <2>1, Zenon
<1>7. Len(x) = Len(y)
    BY <1>1, <1>2, <1>4, <1>5, SMTT(30)
<1>8. x = y
    BY <1>4, <1>5, <1>6, <1>7, SeqEqual, Zenon
<1> QED
    BY <1>2, <1>8, Zenon DEF d, x, y

(* try_flush takes what a write took off the front of the pending bytes,   *)
(* and resets the buffer only when none is left.                           *)
LEMMA FlushPending ==
    ASSUME NEW w, WriterOK(w), NEW n \in 1..pending_bytes(w)
    PROVE  /\ WriterOK(Flush(w, n))
           /\ Pending(w) \in Seq(Byte) /\ Len(Pending(w)) = pending_bytes(w)
           /\ Pending(Flush(w, n)) = SubSeq(Pending(w), n + 1, Len(Pending(w)))
           /\ pending_bytes(Flush(w, n)) = pending_bytes(w) - n
           /\ \/ Flush(w, n).buf = <<>> /\ Flush(w, n).flush_pos = 0
              \/ /\ Flush(w, n).buf = w.buf
                 /\ Flush(w, n).flush_pos = w.flush_pos + n
<1> DEFINE b == w.buf
           p == w.flush_pos
           v == Flush(w, n)
<1>1. b \in Seq(Byte) /\ p \in Nat /\ p =< Len(b) /\ Len(b) \in Nat
    BY DEF WriterOK, FrameWriter
<1>2. Pending(w) = SubSeq(b, p + 1, Len(b)) /\ pending_bytes(w) = Len(b) - p
    BY Zenon DEF Pending, pending_bytes
<1>3. n \in Nat /\ p + n =< Len(b) /\ p \in 0..Len(b) /\ n \in 0..(Len(b) - p)
    BY <1>1, <1>2
<1>4. Pending(w) \in Seq(Byte) /\ Len(Pending(w)) = Len(b) - p
    BY <1>1, <1>2, <1>3, Drop, ZenonT(30)
<1>5. /\ Pending(v) = SubSeq(v.buf, v.flush_pos + 1, Len(v.buf))
      /\ pending_bytes(v) = Len(v.buf) - v.flush_pos
    BY Zenon DEF Pending, pending_bytes
<1>6. CASE p + n = Len(b)
    <2>1. v = NewWriter
        BY <1>6, Zenon DEF Flush
    <2>2. /\ v.buf = <<>> /\ v.flush_pos = 0
          /\ v \in FrameWriter
        BY <2>1, EmptySeq DEF NewWriter, FrameWriter
    <2>3. Pending(v) = <<>> /\ pending_bytes(v) = 0
        BY <1>5, <2>2, EmptySeq, SubSeqEmpty, SMTT(30)
    <2>4. SubSeq(Pending(w), n + 1, Len(Pending(w))) = <<>>
        <3>1. Len(Pending(w)) < n + 1 /\ n + 1 \in Int /\ Len(Pending(w)) \in Int
            BY <1>1, <1>3, <1>4, <1>6, SMTT(30)
        <3> QED
            BY <3>1, SubSeqEmpty, Zenon
    <2>5. pending_bytes(w) - n = 0
        BY <1>1, <1>2, <1>3, <1>6, SMTT(30)
    <2>6. WriterOK(v)
        BY <2>2 DEF WriterOK
    <2> QED
        BY <1>2, <1>4, <2>2, <2>3, <2>4, <2>5, <2>6, Zenon
<1>7. CASE p + n # Len(b)
    <2>1. v = [w EXCEPT !.flush_pos = @ + n]
        BY <1>7, Zenon DEF Flush
    <2>2. v.buf = b /\ v.flush_pos = p + n /\ v \in FrameWriter
        BY <1>1, <1>3, <2>1, SMTT(30) DEF WriterOK, FrameWriter
    <2> HIDE DEF v, b, p
    <2>3. Pending(v) = SubSeq(Pending(w), n + 1, Len(Pending(w)))
        BY <1>1, <1>2, <1>3, <1>4, <1>5, <2>2, DropDrop, Zenon
    <2>4. pending_bytes(v) = pending_bytes(w) - n
        BY <1>1, <1>2, <1>3, <1>5, <2>2, SMTT(30)
    <2>5. WriterOK(v)
        BY <1>3, <2>2, Zenon DEF WriterOK
    <2> QED
        BY <1>2, <1>4, <2>2, <2>3, <2>4, <2>5, Zenon DEF v, b, p
<1> QED
    BY <1>6, <1>7, Zenon

(* A reader with an empty buffer. *)
LEMMA ReaderRecord ==
    ASSUME NEW st \in {"Length", "Body"}, NEW n \in Nat
    PROVE  [state |-> st, body_len |-> n, got |-> <<>>] \in FrameReader
<1>1. <<>> \in Seq(Byte)
    BY EmptySeq, Zenon
<1> DEFINE g == <<>>
<1> HIDE DEF g
<1>2. [state |-> st, body_len |-> n, got |-> g] \in FrameReader
    BY <1>1, Zenon DEF FrameReader, g
<1> QED
    BY <1>2, Zenon DEF g

(* One read of a FrameReader with room in its buffer: it takes at least    *)
(* one byte and no more than fit, and there is room again unless the       *)
(* length was bad.                                                         *)
ReadOK(r, s, n, q) ==
    /\ n \in 1..Len(s)
    /\ q \in FrameReader /\ Advance(q) \in FrameReader
    /\ BodyRead(q) => q.got[1].frame \in Frame
    /\ \/ HeaderRead(q) /\ LengthError(q)
       \/ Len(Advance(q).got) < Want(Advance(q))

(* A read moves some of the bytes that are there, fills the buffer no       *)
(* further than read_into asks, and leaves room for the next one unless the *)
(* length prefix is refused.                                                *)
LEMMA ReadSome ==
    ASSUME NEW r \in FrameReader, Len(r.got) < Want(r),
           NEW s \in Seq(Byte), s # <<>>,
           NEW n, n = Least(Len(s), Want(r) - Len(r.got)),
           NEW q, q = Filled(r, SubSeq(s, 1, n))
    PROVE  ReadOK(r, s, n, q)
<1> DEFINE g == r.got
           t == SubSeq(s, 1, n)
<1>1. /\ g \in Seq(Byte) /\ Len(g) \in Nat /\ Want(r) \in Nat
      /\ Len(s) \in Nat /\ Len(s) > 0
    BY CodecAssumption, EmptySeq, SMTT(30) DEF FrameReader, Want
<1>2. n \in 1..Len(s) /\ n \in Nat /\ n >= 1
    BY <1>1 DEF Least
<1>3. t \in Seq(Byte) /\ Len(t) = n
    <2>1. n \in 0..Len(s)
        BY <1>1, <1>2, SMTT(30)
    <2> QED
        BY <2>1, CutSeq, Zenon
<1>4. g \o t \in Seq(Byte) /\ Len(g \o t) = Len(g) + n
    BY <1>1, <1>3, ConcatProperties, SMTT(30)
<1>5. /\ q \in FrameReader /\ q.got = g \o t
      /\ q.state = r.state /\ q.body_len = r.body_len
    BY <1>4, Zenon DEF FrameReader, Filled
<1>6. Len(q.got) \in Nat /\ Len(q.got) >= 1 /\ Want(q) = Want(r)
    BY <1>1, <1>2, <1>4, <1>5, SMTT(30) DEF Want
<1>7. q.got[1] \in Byte /\ q.got[1].frame \in Frame /\ q.got[1].frame.len \in Nat
    <2>1. q.got \in Seq(Byte) /\ 1 \in 1..Len(q.got)
        BY <1>6, <1>5 DEF FrameReader
    <2>2. q.got[1] \in Byte
        BY <2>1, ElementOfSeq, Zenon
    <2> QED
        BY <2>2, Zenon DEF Byte, Frame
<1>8. DeclaredLength(q) \in Nat
    BY <1>7, Zenon DEF DeclaredLength
<1>9. <<>> \in Seq(Byte) /\ Len(<<>>) = 0
    BY EmptySeq, Zenon
<1>10. CASE HeaderRead(q)
    <2>1. Advance(q) = [state |-> "Body", body_len |-> DeclaredLength(q),
                        got |-> <<>>]
        BY <1>10, Zenon DEF Advance
    <2>2. /\ Advance(q) \in FrameReader /\ Advance(q).got = <<>>
          /\ Want(Advance(q)) = DeclaredLength(q)
        <3>1. Advance(q) \in FrameReader
            BY <1>8, <2>1, ReaderRecord, Zenon
        <3>2. Advance(q).got = <<>> /\ Advance(q).state = "Body"
              /\ Advance(q).body_len = DeclaredLength(q)
            BY <2>1
        <3> QED
            BY <3>1, <3>2, Zenon DEF Want
    <2>3. LengthError(q) \/ 0 < DeclaredLength(q)
        BY <1>8, CodecAssumption DEF LengthError
    <2>4. \/ HeaderRead(q) /\ LengthError(q)
          \/ Len(Advance(q).got) < Want(Advance(q))
        BY <1>9, <1>10, <2>2, <2>3, Zenon
    <2> QED
        BY <1>2, <1>5, <1>7, <2>2, <2>4, Zenon DEF ReadOK
<1>11. CASE BodyRead(q) /\ ~HeaderRead(q)
    <2>1. Advance(q) = NewReader
        BY <1>11, Zenon DEF Advance
    <2>2. /\ Advance(q) \in FrameReader /\ Advance(q).got = <<>>
          /\ Want(Advance(q)) = PrefixBytes
        <3>1. Advance(q) \in FrameReader
            BY <2>1, ReaderRecord, Zenon DEF NewReader
        <3>2. Advance(q).got = <<>> /\ Advance(q).state = "Length"
            BY <2>1, SMTT(30) DEF NewReader
        <3> QED
            BY <3>1, <3>2, Zenon DEF Want
    <2>3. 0 < PrefixBytes
        BY CodecAssumption
    <2>4. Len(Advance(q).got) < Want(Advance(q))
        BY <1>9, <2>2, <2>3, Zenon
    <2> QED
        BY <1>2, <1>5, <1>7, <2>2, <2>4, Zenon DEF ReadOK
<1>12. CASE ~BodyRead(q) /\ ~HeaderRead(q)
    <2>1. Advance(q) = q
        BY <1>12, Zenon DEF Advance
    <2>2. q.state \in {"Length", "Body"} /\ ~Full(q)
        BY <1>5, <1>12, Zenon DEF FrameReader, HeaderRead, BodyRead
    <2>3. Len(q.got) < Want(q)
        BY <1>1, <1>6, <2>2, SMTT(30) DEF Full
    <2> QED
        BY <1>2, <1>5, <1>12, <2>1, <2>3, Zenon DEF ReadOK
<1> QED
    BY <1>10, <1>11, <1>12, Zenon
-----------------------------------------------------------------------------
(* Types and capacities *)

(* A new connection has its types. *)
LEMMA TypeInit == Init => TypeOK
<1> SUFFICES ASSUME Init PROVE TypeOK
    BY Zenon
<1>1. /\ <<>> \in Seq(Byte) /\ <<>> \in Seq(Frame) /\ <<>> \in Seq(Readiness)
      /\ Len(<<>>) = 0 /\ DOMAIN <<>> = {}
    BY EmptySeq
<1>2. NewReader \in FrameReader
    BY ReaderRecord, Zenon DEF NewReader
<1>3. NewWriter \in FrameWriter /\ NewWriter.flush_pos =< Len(NewWriter.buf)
    BY EmptySeq DEF NewWriter, FrameWriter
<1>4. NoReadiness \in Readiness
    BY Zenon DEF NoReadiness, Readiness
<1>5. OutwardType
    BY <1>1, <1>3, ConnectionAssumption, SMTT(30) DEF Init, OutwardType
<1>6. InwardType
    BY <1>1, <1>2, ConnectionAssumption, SMTT(30) DEF Init, InwardType
<1>7. LooperType
    BY <1>1, <1>4, Zenon DEF Init, LooperType
<1> QED
    BY <1>5, <1>6, <1>7, Zenon DEF TypeOK

(* The frames the pane sends fit in a message. *)
LEMMA OutFrameType ==
    ASSUME TypeOK, NEW via \in Paths, NEW n \in OutLengths
    PROVE  OutFrame(via, n) \in Frame /\ OutFrame(via, n).len =< MaxMessage
           /\ OutFrame(via, n).via = via
<1>1. n \in Nat /\ n =< MaxMessage
    BY ConnectionAssumption, CodecAssumption, SMTT(30)
<1>2. outs + 1 \in Nat
    BY DEF TypeOK, OutwardType
<1> QED
    BY <1>1, <1>2, Zenon DEF OutFrame, Frame, FrameKinds

(* Taking the first frame of the channel. *)
LEMMA ChannelHead ==
    ASSUME TypeOK, channel # <<>>
    PROVE  /\ Head(channel) \in Frame /\ Head(channel).len =< MaxMessage
           /\ Tail(channel) \in Seq(Frame)
           /\ Len(Tail(channel)) =< ChannelCapacity
           /\ \A k \in DOMAIN Tail(channel) : Tail(channel)[k].len =< MaxMessage
<1>1. /\ channel \in Seq(Frame) /\ Len(channel) =< ChannelCapacity
      /\ ChannelCapacity \in Nat /\ Len(channel) \in Nat
      /\ \A k \in 1..Len(channel) : channel[k].len =< MaxMessage
    BY ConnectionAssumption, LenProperties, Zenon DEF TypeOK, OutwardType
<1>2. /\ Head(channel) \in Frame /\ Tail(channel) \in Seq(Frame)
      /\ Len(Tail(channel)) = Len(channel) - 1
      /\ \A i \in 1..Len(Tail(channel)) : Tail(channel)[i] = channel[i + 1]
    BY <1>1, HeadTailProperties, Zenon
<1>3. Head(channel) = channel[1] /\ 1 \in 1..Len(channel)
    BY <1>1, EmptySeq, SMTT(30)
<1>4. ASSUME NEW k \in DOMAIN Tail(channel)
      PROVE  Tail(channel)[k].len =< MaxMessage
    <2>1. k \in 1..Len(Tail(channel))
        BY <1>2, LenProperties, Zenon
    <2>2. k + 1 \in 1..Len(channel)
        BY <1>1, <1>2, <2>1, SMTT(30)
    <2> QED
        BY <1>1, <1>2, <2>1, <2>2, Zenon
<1>5. Len(Tail(channel)) =< ChannelCapacity
    BY <1>1, <1>2
<1> QED
    BY <1>1, <1>2, <1>3, <1>4, <1>5, Zenon

(* SharedWriter::enqueue keeps the writer's type. *)
LEMMA PutType ==
    ASSUME TypeOK, NEW f \in Frame, Put(f)
    PROVE  /\ writer' \in FrameWriter
           /\ writer'.flush_pos =< Len(writer'.buf)
           /\ enqueued' \in Seq(Byte) /\ given' \in Seq(Frame)
<1>1. WriterOK(writer)
    BY Zenon DEF TypeOK, OutwardType, WriterOK
<1>2. WriterOK(writer')
    BY <1>1, EnqueuePending, Zenon DEF Put
<1>3. enqueued' \in Seq(Byte)
    BY EncodeSeq, ConcatProperties, Zenon DEF TypeOK, OutwardType, Put
<1>4. given' \in Seq(Frame)
    BY AppendProperties, Zenon DEF TypeOK, OutwardType, Put
<1> QED
    BY <1>2, <1>3, <1>4, Zenon DEF WriterOK

(* The events of one dispatch call. *)
LEMMA PolledType == PolledEvents \in Seq(Readiness)
<1>1. Polled \in Readiness
    BY Zenon DEF Polled, Readiness
<1>2. <<Polled>> \in Seq(Readiness) /\ <<>> \in Seq(Readiness)
    BY <1>1, EmptySeq, SMTT(30)
<1> QED
    BY <1>2, Zenon DEF PolledEvents
(* The actions that touch the outward half of the state. *)
LEMMA OutwardActions ==
    ASSUME [Next]_vars
    PROVE  \/ ChannelSend \/ HandlerSend \/ BeforeSleepTakes \/ Drain
           \/ Write \/ PeerRead \/ UNCHANGED <<outward, taken>>
<1>1. CASE Dispatch
    BY <1>1, Zenon DEF Dispatch, BeforeSleep, PollOthers, Wake, DispatchReturns,
        ProcessEvents, DrainDone, Read, ReadDone, ReadEof, FlushDone,
        FlushBlocked, FlushFails, BatchDone, ghosts
<1>2. CASE WakeOther \/ PeerSend \/ PeerWrite \/ PeerClose
    BY <1>2, Zenon DEF WakeOther, PeerSend, PeerWrite, PeerClose, ghosts
<1>3. CASE UNCHANGED vars
    BY <1>3, Zenon DEF vars, ghosts
<1> QED
    BY <1>1, <1>2, <1>3, Zenon DEF Next

(* Every step keeps the types of the channel, the write buffer and the      *)
(* bytes on their way to the peer.                                          *)
LEMMA OutwardStep ==
    ASSUME TypeOK, RoomToRead, [Next]_vars
    PROVE  OutwardType'
<1>1. CASE ChannelSend
    <2> USE <1>1
    <2>1. PICK n \in OutLengths :
              channel' = Append(channel, OutFrame("channel", n))
        BY Zenon DEF ChannelSend
    <2> DEFINE f == OutFrame("channel", n)
    <2>2. f \in Frame /\ f.len =< MaxMessage
        BY OutFrameType, Zenon DEF Paths
    <2> HIDE DEF f
    <2>3. /\ channel \in Seq(Frame) /\ Len(channel) \in Nat
          /\ Len(channel) < ChannelCapacity /\ ChannelCapacity \in Nat
          /\ \A k \in 1..Len(channel) : channel[k].len =< MaxMessage
        BY ConnectionAssumption, LenProperties, Zenon
        DEF ChannelSend, TypeOK, OutwardType
    <2>4. /\ channel' \in Seq(Frame) /\ Len(channel') = Len(channel) + 1
          /\ \A k \in 1..Len(channel) : channel'[k] = channel[k]
          /\ channel'[Len(channel) + 1] = f
        BY <2>1, <2>2, <2>3, AppendProperties, SMTT(30) DEF f
    <2>5. ASSUME NEW k \in DOMAIN channel'
          PROVE  channel'[k].len =< MaxMessage
        <3>1. k \in 1..(Len(channel) + 1)
            BY <2>4, LenProperties, Zenon
        <3>2. k \in 1..Len(channel) \/ k = Len(channel) + 1
            BY <2>3, <3>1, SMTT(30)
        <3> QED
            BY <2>2, <2>3, <2>4, <3>2, Zenon
    <2>6. Len(channel') =< ChannelCapacity
        BY <2>3, <2>4, SMTT(30)
    <2>7. outs' \in Nat /\ UNCHANGED <<writer, outgoing, given, enqueued, taken>>
        BY DEF ChannelSend, TypeOK, OutwardType, ghosts
    <2> QED
        BY <2>4, <2>5, <2>6, <2>7, Zenon DEF TypeOK, OutwardType
<1>2. CASE HandlerSend
    <2> USE <1>2
    <2>1. PICK n \in OutLengths : Put(OutFrame("direct", n))
        BY Zenon DEF HandlerSend
    <2>2. OutFrame("direct", n) \in Frame
        BY OutFrameType, Zenon DEF Paths
    <2>3. /\ writer' \in FrameWriter /\ enqueued' \in Seq(Byte)
          /\ given' \in Seq(Frame) /\ writer'.flush_pos =< Len(writer'.buf)
        BY <2>1, <2>2, PutType, Zenon
    <2>4. outs' \in Nat /\ UNCHANGED <<channel, outgoing, taken>>
        BY DEF HandlerSend, TypeOK, OutwardType, ghosts
    <2> QED
        BY <2>3, <2>4, Zenon DEF TypeOK, OutwardType
<1>3. CASE BeforeSleepTakes \/ Drain
    <2> USE <1>3
    <2>1. /\ channel # <<>> /\ Put(Head(channel)) /\ channel' = Tail(channel)
          /\ UNCHANGED <<outs, outgoing, taken>>
        BY Zenon DEF BeforeSleepTakes, Drain, ghosts
    <2>2. /\ Head(channel) \in Frame /\ channel' \in Seq(Frame)
          /\ Len(channel') =< ChannelCapacity
          /\ \A k \in DOMAIN channel' : channel'[k].len =< MaxMessage
        BY <2>1, ChannelHead, Zenon
    <2>3. /\ writer' \in FrameWriter /\ enqueued' \in Seq(Byte)
          /\ given' \in Seq(Frame) /\ writer'.flush_pos =< Len(writer'.buf)
        BY <2>1, <2>2, PutType, Zenon
    <2> QED
        BY <2>1, <2>2, <2>3, Zenon DEF TypeOK, OutwardType
<1>4. CASE Write
    <2> USE <1>4
    <2> DEFINE n == Least(pending_bytes(writer), SocketBytes - Len(outgoing))
    <2>1. /\ outgoing' = outgoing \o SubSeq(Pending(writer), 1, n)
          /\ writer' = Flush(writer, n)
          /\ UNCHANGED <<channel, given, enqueued, taken, outs>>
        BY Zenon DEF Write, ghosts
    <2>2. WriterOK(writer) /\ outgoing \in Seq(Byte)
        BY Zenon DEF TypeOK, OutwardType, WriterOK
    <2>3. /\ Len(outgoing) \in Nat /\ SocketBytes \in Nat
          /\ Len(outgoing) < SocketBytes
          /\ pending_bytes(writer) \in Int /\ pending_bytes(writer) > 0
        BY <2>2, ConnectionAssumption, SMTT(30)
        DEF Write, WriterOK, FrameWriter, pending_bytes
    <2>4. n \in 1..pending_bytes(writer) /\ Len(outgoing) + n =< SocketBytes
        BY <2>3, SMTT(30) DEF Least
    <2> HIDE DEF n
    <2>5. /\ WriterOK(writer') /\ Pending(writer) \in Seq(Byte)
          /\ Len(Pending(writer)) = pending_bytes(writer)
        BY <2>1, <2>2, <2>4, FlushPending, Zenon
    <2>6. n \in 0..Len(Pending(writer))
        BY <2>3, <2>4, <2>5, SMTT(30)
    <2>7. /\ SubSeq(Pending(writer), 1, n) \in Seq(Byte)
          /\ Len(SubSeq(Pending(writer), 1, n)) = n
        BY <2>5, <2>6, CutSeq, Zenon
    <2>8. outgoing' \in Seq(Byte) /\ Len(outgoing') = Len(outgoing) + n
        BY <2>1, <2>2, <2>7, ConcatProperties, Zenon
    <2>9. Len(outgoing') =< SocketBytes
        BY <2>4, <2>8, Zenon
    <2> QED
        BY <2>1, <2>5, <2>8, <2>9, Zenon DEF TypeOK, OutwardType, WriterOK
<1>5. CASE PeerRead
    <2> USE <1>5
    <2> DEFINE n == Least(Len(outgoing),
                          Want(peer_reader) - Len(peer_reader.got))
               r == Filled(peer_reader, SubSeq(outgoing, 1, n))
    <2>1. /\ outgoing' = SubSeq(outgoing, n + 1, Len(outgoing))
          /\ taken' = taken \o SubSeq(outgoing, 1, n)
          /\ UNCHANGED <<channel, writer, given, enqueued, outs>>
        BY Zenon DEF PeerRead
    <2>2. /\ peer_reader \in FrameReader
          /\ Len(peer_reader.got) < Want(peer_reader)
          /\ outgoing \in Seq(Byte) /\ outgoing # <<>> /\ taken \in Seq(Byte)
          /\ Len(outgoing) =< SocketBytes /\ SocketBytes \in Nat
        BY ConnectionAssumption, Zenon
        DEF PeerRead, RoomToRead, TypeOK, OutwardType, InwardType
    <2>3. ReadOK(peer_reader, outgoing, n, r)
        BY <2>2, ReadSome, Zenon
    <2>4. n \in 1..Len(outgoing)
        BY <2>3, Zenon DEF ReadOK
    <2> HIDE DEF n, r
    <2>5. n \in 0..Len(outgoing) /\ Len(outgoing) \in Nat
        BY <2>2, <2>4, SMTT(30)
    <2>6. /\ outgoing' \in Seq(Byte) /\ Len(outgoing') = Len(outgoing) - n
          /\ SubSeq(outgoing, 1, n) \in Seq(Byte)
        BY <2>1, <2>2, <2>5, CutSeq, Zenon
    <2>7. taken' \in Seq(Byte) /\ Len(outgoing') =< SocketBytes
        BY <2>1, <2>2, <2>5, <2>6, ConcatProperties, SMTT(30)
    <2> QED
        BY <2>1, <2>6, <2>7, Zenon DEF TypeOK, OutwardType
<1>6. CASE UNCHANGED <<outward, taken>>
    BY <1>6, Zenon DEF TypeOK, OutwardType, outward
<1> QED
    BY <1>1, <1>2, <1>3, <1>4, <1>5, <1>6, OutwardActions, Zenon
(* The actions that touch the inward half of the state; a removed source   *)
(* stays removed, and the peer does not open its end again.                *)
LEMMA InwardActions ==
    ASSUME [Next]_vars
    PROVE  \/ Read \/ PeerSend \/ PeerWrite \/ PeerRead
           \/ /\ UNCHANGED <<inward, received, peer_sent, peer_out,
                             peer_reader, wrote, ins>>
              /\ source' = "active" => source = "active"
              /\ peer_open' = TRUE => peer_open = TRUE
<1>1. CASE Dispatch
    BY <1>1, Zenon DEF Dispatch, BeforeSleepTakes, BeforeSleep, PollOthers, Wake,
        DispatchReturns, ProcessEvents, Drain, DrainDone, ReadDone, ReadEof,
        Write, FlushDone, FlushBlocked, FlushFails, BatchDone, Finish, Remove,
        ghosts, peer
<1>2. CASE WakeOther \/ PeerClose \/ HandlerSend \/ ChannelSend
    BY <1>2, Zenon DEF WakeOther, PeerClose, HandlerSend, ChannelSend, ghosts, peer
<1>3. CASE UNCHANGED vars
    BY <1>3, Zenon DEF vars, ghosts, peer
<1> QED
    BY <1>1, <1>2, <1>3, Zenon DEF Next

(* Every step keeps the types of the bytes from the peer and of the two     *)
(* decoders, and the room they have for the next read.                      *)
LEMMA InwardStep ==
    ASSUME TypeOK, InProcess, RoomToRead, [Next]_vars
    PROVE  InwardType' /\ RoomToRead'
<1>1. CASE Read
    <2> USE <1>1
    <2> DEFINE n == Least(Len(incoming), Want(reader) - Len(reader.got))
               r == Filled(reader, SubSeq(incoming, 1, n))
    <2>1. /\ incoming' = SubSeq(incoming, n + 1, Len(incoming))
          /\ reader' = Advance(r)
          /\ delivered' = IF BodyRead(r) /\ ~Fatal(r)
                          THEN Append(delivered, r.got[1].frame)
                          ELSE delivered
          /\ Fatal(r) => source' = "removed"
          /\ ~Fatal(r) => source' = source
          /\ UNCHANGED <<received, peer_sent, peer_out, peer_reader, wrote,
                         ins, peer_open>>
        BY Zenon DEF Read, Remove, ghosts, peer
    <2>2. /\ pc = "read" /\ incoming \in Seq(Byte) /\ incoming # <<>>
          /\ Len(incoming) =< SocketBytes /\ SocketBytes \in Nat
          /\ reader \in FrameReader /\ delivered \in Seq(Frame)
        BY ConnectionAssumption, Zenon DEF Read, TypeOK, InwardType
    <2>3. CASE Len(reader.got) < Want(reader)
        <3>1. ReadOK(reader, incoming, n, r)
            BY <2>2, <2>3, ReadSome, Zenon
        <3> HIDE DEF n, r
        <3>2. /\ n \in 1..Len(incoming) /\ Advance(r) \in FrameReader
              /\ BodyRead(r) => r.got[1].frame \in Frame
              /\ \/ HeaderRead(r) /\ LengthError(r)
                 \/ Len(Advance(r).got) < Want(Advance(r))
            BY <3>1, Zenon DEF ReadOK
        <3>3. n \in 0..Len(incoming) /\ Len(incoming) \in Nat
            BY <2>2, <3>2, SMTT(30)
        <3>4. incoming' \in Seq(Byte) /\ Len(incoming') = Len(incoming) - n
            BY <2>1, <2>2, <3>3, CutSeq, Zenon
        <3>5. Len(incoming') =< SocketBytes
            BY <2>2, <3>3, <3>4, SMTT(30)
        <3>6. delivered' \in Seq(Frame)
            BY <2>1, <2>2, <3>2, AppendProperties, Zenon
        <3>7. InwardType'
            BY <2>1, <3>2, <3>4, <3>5, <3>6, Zenon DEF TypeOK, InwardType
        <3>8. source' = "active" => Len(reader'.got) < Want(reader')
            BY <2>1, <3>2, Zenon DEF Fatal
        <3>9. peer_open' => Len(peer_reader'.got) < Want(peer_reader')
            BY <2>1, Zenon DEF RoomToRead, Want
        <3>10. Want(reader)' = Want(reader') /\ Want(peer_reader)' = Want(peer_reader')
            BY Zenon DEF Want
        <3> QED
            BY <3>7, <3>8, <3>9, <3>10, Zenon DEF RoomToRead
    <2>4. source = "active"
        BY Zenon DEF Read, InProcess
    <2> QED
        BY <2>3, <2>4, Zenon DEF RoomToRead
<1>2. CASE PeerSend
    <2> USE <1>2
    <2> DEFINE F(k) == [id |-> ins + 1, via |-> "peer",
                        kind |-> k[1], len |-> k[2]]
    <2>1. PICK k \in PeerFrames :
              peer_out' = Encode(F(k)) /\ wrote' = Append(wrote, F(k))
        BY Zenon DEF PeerSend
    <2> DEFINE f == F(k)
    <2>2. ins \in Nat /\ ins' = ins + 1
        BY Zenon DEF PeerSend, TypeOK, InwardType
    <2>3. k[1] \in FrameKinds /\ k[2] \in Nat
        BY ConnectionAssumption, Zenon
    <2>4. f \in Frame
        BY <2>2, <2>3, SMTT(30) DEF Frame, Paths
    <2> HIDE DEF f
    <2>5. peer_out' \in Seq(Byte) /\ wrote' \in Seq(Frame)
        <3>1. peer_out' = Encode(f) /\ wrote' = Append(wrote, f)
            BY <2>1, Zenon DEF f
        <3> HIDE DEF F
        <3> QED
            BY <2>4, <3>1, EncodeSeq, AppendProperties, Zenon DEF TypeOK, InwardType
    <2>6. UNCHANGED <<inward, ghosts, source, peer_open, peer_reader>>
        BY Zenon DEF PeerSend
    <2>7. InwardType'
        BY <2>2, <2>5, <2>6, SMTT(30) DEF TypeOK, InwardType, inward, ghosts
    <2> QED
        BY <2>6, <2>7, Zenon DEF RoomToRead, Want, inward
<1>3. CASE PeerWrite
    <2> USE <1>3
    <2>1. PICK n \in 1..Len(peer_out) :
            /\ Len(incoming) + n =< SocketBytes
            /\ incoming' = incoming \o SubSeq(peer_out, 1, n)
            /\ peer_sent' = peer_sent \o SubSeq(peer_out, 1, n)
            /\ peer_out' = SubSeq(peer_out, n + 1, Len(peer_out))
        BY Zenon DEF PeerWrite
    <2>2. /\ peer_out \in Seq(Byte) /\ incoming \in Seq(Byte)
          /\ peer_sent \in Seq(Byte)
        BY Zenon DEF TypeOK, InwardType
    <2>3. n \in 0..Len(peer_out)
        BY <2>2
    <2>4. /\ SubSeq(peer_out, 1, n) \in Seq(Byte)
          /\ Len(SubSeq(peer_out, 1, n)) = n
          /\ peer_out' \in Seq(Byte)
        BY <2>1, <2>2, <2>3, CutSeq, Zenon
    <2>5. /\ incoming' \in Seq(Byte) /\ Len(incoming') = Len(incoming) + n
          /\ peer_sent' \in Seq(Byte)
        BY <2>1, <2>2, <2>4, ConcatProperties, Zenon
    <2>6. UNCHANGED <<reader, delivered, received, source, peer_open,
                      peer_reader, wrote, ins>>
        BY Zenon DEF PeerWrite
    <2>7. InwardType'
        BY <2>1, <2>4, <2>5, <2>6, Zenon DEF TypeOK, InwardType
    <2> QED
        BY <2>6, <2>7, Zenon DEF RoomToRead, Want
<1>4. CASE PeerRead
    <2> USE <1>4
    <2> DEFINE n == Least(Len(outgoing),
                          Want(peer_reader) - Len(peer_reader.got))
               r == Filled(peer_reader, SubSeq(outgoing, 1, n))
    <2>1. /\ peer_reader' = Advance(r)
          /\ peer_open' = ~(HeaderRead(r) /\ LengthError(r))
          /\ received' = IF BodyRead(r) THEN Append(received, r.got[1].frame)
                         ELSE received
          /\ UNCHANGED <<inward, source, peer_sent, peer_out, wrote, ins>>
        BY Zenon DEF PeerRead
    <2>2. /\ peer_reader \in FrameReader
          /\ Len(peer_reader.got) < Want(peer_reader)
          /\ outgoing \in Seq(Byte) /\ outgoing # <<>>
          /\ received \in Seq(Frame)
        BY Zenon DEF PeerRead, RoomToRead, TypeOK, OutwardType, InwardType
    <2>3. ReadOK(peer_reader, outgoing, n, r)
        BY <2>2, ReadSome, Zenon
    <2> HIDE DEF n, r
    <2>4. /\ Advance(r) \in FrameReader
          /\ BodyRead(r) => r.got[1].frame \in Frame
          /\ \/ HeaderRead(r) /\ LengthError(r)
             \/ Len(Advance(r).got) < Want(Advance(r))
        BY <2>3, Zenon DEF ReadOK
    <2>5. received' \in Seq(Frame)
        BY <2>1, <2>2, <2>4, AppendProperties, Zenon
    <2>6. InwardType'
        BY <2>1, <2>4, <2>5, Zenon DEF TypeOK, InwardType, inward
    <2>7. peer_open' => Len(peer_reader'.got) < Want(peer_reader')
        BY <2>1, <2>4, Zenon
    <2>8. Want(reader)' = Want(reader') /\ Want(peer_reader)' = Want(peer_reader')
        BY Zenon DEF Want
    <2>9. source' = "active" => Len(reader'.got) < Want(reader')
        BY <2>1, Zenon DEF RoomToRead, Want, inward
    <2> QED
        BY <2>6, <2>7, <2>8, <2>9, Zenon DEF RoomToRead
<1>5. CASE /\ UNCHANGED <<inward, received, peer_sent, peer_out,
                          peer_reader, wrote, ins>>
           /\ source' = "active" => source = "active"
           /\ peer_open' = TRUE => peer_open = TRUE
    <2> USE <1>5
    <2>1. InwardType'
        BY Zenon DEF TypeOK, InwardType, inward
    <2>2. source' = "active" => Len(reader'.got) < Want(reader')
        BY Zenon DEF RoomToRead, Want, inward
    <2>3. ASSUME peer_open' PROVE Len(peer_reader'.got) < Want(peer_reader')
        BY <2>3, Zenon DEF RoomToRead, Want
    <2>4. Want(reader)' = Want(reader') /\ Want(peer_reader)' = Want(peer_reader')
        BY Zenon DEF Want
    <2> QED
        BY <2>1, <2>2, <2>3, <2>4, Zenon DEF RoomToRead
<1> QED
    BY <1>1, <1>2, <1>3, <1>4, <1>5, InwardActions, Zenon

(* Every step keeps the types of the looper's position and of its events,   *)
(* and process_events runs for an active source only.                       *)
LEMMA LooperStep ==
    ASSUME TypeOK, InProcess, [Next]_vars
    PROVE  LooperType' /\ InProcess'
<1> USE DEF LooperType, InProcess
<1>0. LooperType
    BY Zenon DEF TypeOK
<1>1. CASE BeforeSleepTakes \/ BeforeSleep
    <2>1. /\ pc' \in {"events", "asleep"}
          /\ UNCHANGED <<round, ready, write_interest, token, source, peer_open>>
        BY <1>1, Zenon DEF BeforeSleepTakes, BeforeSleep, Sleep, peer
    <2>2. PICK w : Sleep(w)
        BY <1>1, Zenon DEF BeforeSleepTakes, BeforeSleep
    <2>3. <<WritableEvent>> \in Seq(Readiness) /\ <<>> \in Seq(Readiness)
        BY EmptySeq, SMTT(30) DEF WritableEvent, Readiness
    <2>4. <<WritableEvent>> \o PolledEvents \in Seq(Readiness)
        BY <2>3, PolledType, ConcatProperties, Zenon
    <2>5. events' \in Seq(Readiness)
        BY <2>2, <2>3, <2>4, PolledType, Zenon DEF Sleep
    <2> QED
        BY <1>0, <2>1, <2>5, Zenon
<1>2. CASE Wake \/ WakeOther
    BY <1>0, <1>2, PolledType, Zenon DEF Wake, WakeOther, peer
<1>3. CASE DispatchReturns \/ PollOthers \/ BatchDone
    BY <1>0, <1>3, EmptySeq, Zenon DEF DispatchReturns, PollOthers, BatchDone, peer
<1>4. CASE ProcessEvents
    BY <1>0, <1>4, HeadTailProperties, Zenon DEF ProcessEvents, peer
<1>5. CASE Drain \/ Write \/ HandlerSend \/ ChannelSend
    BY <1>0, <1>5, Zenon DEF Drain, Write, HandlerSend, ChannelSend, looper, peer
<1>6. CASE DrainDone
    BY <1>0, <1>6, Zenon DEF DrainDone, peer
<1>7. CASE Read
    <2>1. /\ \/ Remove \/ UNCHANGED <<pc, source, write_interest>>
          /\ UNCHANGED <<round, events, ready, token, peer_open>>
        BY <1>7, Zenon DEF Read, peer
    <2> QED
        BY <1>0, <2>1, Zenon DEF Remove
<1>8. CASE ReadDone
    BY <1>0, <1>8, Zenon DEF ReadDone, Finish, peer
<1>9. CASE ReadEof \/ FlushFails
    BY <1>0, <1>9, Zenon DEF ReadEof, FlushFails, Remove, peer
<1>10. CASE FlushDone \/ FlushBlocked
    BY <1>0, <1>10, Zenon DEF FlushDone, FlushBlocked, Finish, peer
<1>11. CASE PeerSend \/ PeerWrite \/ PeerClose
    BY <1>0, <1>11, Zenon DEF PeerSend, PeerWrite, PeerClose, looper
<1>12. CASE PeerRead
    <2>1. /\ UNCHANGED <<looper, write_interest, token, source>>
          /\ peer_open' \in BOOLEAN
        BY <1>12, Zenon DEF PeerRead
    <2> QED
        BY <1>0, <2>1, Zenon DEF looper
<1>13. CASE UNCHANGED vars
    BY <1>0, <1>13, Zenon DEF vars, looper, peer
<1> QED
    BY <1>1, <1>2, <1>3, <1>4, <1>5, <1>6, <1>7, <1>8, <1>9, <1>10, <1>11, Zenon,
       <1>12, <1>13 DEF Next, Dispatch

-----------------------------------------------------------------------------
(* The order of the bytes *)

(* What the type invariant says of the write buffer. *)
LEMMA PendingNat ==
    ASSUME TypeOK
    PROVE  /\ WriterOK(writer) /\ pending_bytes(writer) \in Nat
           /\ Pending(writer) \in Seq(Byte)
<1>1. WriterOK(writer)
    BY Zenon DEF TypeOK, OutwardType, WriterOK
<1>2. writer.buf \in Seq(Byte) /\ writer.flush_pos \in 0..Len(writer.buf)
    BY <1>1 DEF WriterOK, FrameWriter
<1>3. pending_bytes(writer) \in Nat
    BY <1>2, SMTT(30) DEF pending_bytes
<1>4. Pending(writer) \in Seq(Byte)
    BY <1>2, Drop, Zenon DEF Pending
<1> QED
    BY <1>1, <1>3, <1>4, Zenon

(* A write of try_flush takes a byte at least, and no more than there are. *)
LEMMA WriteCount ==
    ASSUME TypeOK, Write
    PROVE  Least(pending_bytes(writer), SocketBytes - Len(outgoing))
               \in 1..pending_bytes(writer)
<1>1. outgoing \in Seq(Byte)
    BY Zenon DEF TypeOK, OutwardType
<1>2. Len(outgoing) \in Nat /\ SocketBytes \in Nat
    BY <1>1, ConnectionAssumption, SMTT(30)
<1>3. Len(outgoing) < SocketBytes /\ pending_bytes(writer) > 0
    BY Zenon DEF Write
<1>4. pending_bytes(writer) \in Nat
    BY PendingNat, Zenon
<1> QED
    BY <1>2, <1>3, <1>4, SMTT(30) DEF Least

(* The frame a step gives to the writer, if it gives one. *)
LEMMA PutSteps ==
    ASSUME TypeOK, HandlerSend \/ BeforeSleepTakes \/ Drain
    PROVE  /\ \E f \in Frame : Put(f) /\ f.len =< MaxMessage
           /\ UNCHANGED <<outgoing, taken>>
<1>1. CASE HandlerSend
    <2>1. PICK n \in OutLengths : Put(OutFrame("direct", n))
        BY <1>1, Zenon DEF HandlerSend
    <2>2. OutFrame("direct", n) \in Frame /\ OutFrame("direct", n).len =< MaxMessage
        BY OutFrameType, Zenon DEF Paths
    <2> QED
        BY <1>1, <2>1, <2>2, Zenon DEF HandlerSend, ghosts
<1>2. CASE BeforeSleepTakes \/ Drain
    <2>1. channel # <<>> /\ Put(Head(channel)) /\ UNCHANGED <<outgoing, taken>>
        BY <1>2, Zenon DEF BeforeSleepTakes, Drain, ghosts
    <2> QED
        BY <2>1, ChannelHead, Zenon
<1> QED
    BY <1>1, <1>2, Zenon

(* Concatenation of three runs of bytes, bracketed either way. *)
LEMMA Bracket ==
    ASSUME NEW s \in Seq(Byte), NEW t \in Seq(Byte), NEW u \in Seq(Byte)
    PROVE  (s \o t) \o u = s \o (t \o u)
BY ConcatAssociative, SMTT(30)

(* Every step keeps the order of the bytes given to the writer: those the   *)
(* peer has taken, those in the socket, those that are pending.             *)
LEMMA BytesStep ==
    ASSUME TypeOK, RoomToRead, BytesInOrder, [Next]_vars
    PROVE  BytesInOrder'
<1> DEFINE P == Pending(writer)
<1>1. /\ P \in Seq(Byte) /\ taken \in Seq(Byte) /\ outgoing \in Seq(Byte)
      /\ WriterOK(writer) /\ pending_bytes(writer) \in Nat
      /\ taken \o outgoing \in Seq(Byte)
    BY PendingNat, ConcatProperties, Zenon DEF TypeOK, OutwardType
<1>2. (taken \o outgoing) \o P = enqueued
    BY Zenon DEF BytesInOrder
<1>3. Pending(writer)' = Pending(writer')
    BY Zenon DEF Pending
<1>4. CASE HandlerSend \/ BeforeSleepTakes \/ Drain
    <2>1. PICK f \in Frame : Put(f)
        BY <1>4, PutSteps, Zenon
    <2>2. Pending(writer') = P \o Encode(f) /\ enqueued' = enqueued \o Encode(f)
        BY <1>1, <2>1, EnqueuePending, Zenon DEF Put
    <2>3. UNCHANGED <<outgoing, taken>>
        BY <1>4, PutSteps, Zenon
    <2>4. Encode(f) \in Seq(Byte)
        BY EncodeSeq, Zenon
    <2> HIDE DEF P
    <2>5. (taken \o outgoing) \o (P \o Encode(f)) = enqueued \o Encode(f)
        <3>1. ((taken \o outgoing) \o P) \o Encode(f)
                  = (taken \o outgoing) \o (P \o Encode(f))
            BY <1>1, <2>4, Bracket, ZenonT(30)
        <3> QED
            BY <1>2, <3>1, Zenon
    <2> QED
        BY <1>3, <2>2, <2>3, <2>5, Zenon DEF BytesInOrder
<1>5. CASE Write
    <2> DEFINE n == Least(pending_bytes(writer), SocketBytes - Len(outgoing))
               a == SubSeq(P, 1, n)
               b == SubSeq(P, n + 1, Len(P))
    <2>1. /\ outgoing' = outgoing \o a /\ writer' = Flush(writer, n)
          /\ UNCHANGED <<enqueued, taken>>
        BY <1>5, Zenon DEF Write, ghosts
    <2>2. n \in 1..pending_bytes(writer)
        BY <1>5, WriteCount, Zenon
    <2>3. Pending(writer') = b /\ Len(P) = pending_bytes(writer)
        BY <1>1, <2>1, <2>2, FlushPending, Zenon
    <2> HIDE DEF n, P
    <2>4. n \in 0..Len(P)
        BY <1>1, <2>2, <2>3, SMTT(30)
    <2>5. a \in Seq(Byte) /\ b \in Seq(Byte) /\ a \o b = P
        BY <1>1, <2>4, CutSeq, Zenon
    <2> HIDE DEF a, b
    <2>6. (taken \o (outgoing \o a)) \o b = (taken \o outgoing) \o P
        <3>1. taken \o (outgoing \o a) = (taken \o outgoing) \o a
            <4>1. taken \in Seq(Byte) /\ outgoing \in Seq(Byte) /\ a \in Seq(Byte)
                BY <1>1, <2>5, Zenon
            <4> QED
                BY ONLY <4>1, Bracket, Zenon
        <3>2. ((taken \o outgoing) \o a) \o b = (taken \o outgoing) \o (a \o b)
            <4> DEFINE c == taken \o outgoing
            <4>1. c \in Seq(Byte) /\ a \in Seq(Byte) /\ b \in Seq(Byte)
                BY <1>1, <2>5, Zenon
            <4> HIDE DEF c
            <4>2. (c \o a) \o b = c \o (a \o b)
                BY ONLY <4>1, Bracket, Zenon
            <4> QED
                BY <4>2, Zenon DEF c
        <3> QED
            BY <2>5, <3>1, <3>2, Zenon
    <2> QED
        BY <1>2, <1>3, <2>1, <2>3, <2>6, Zenon DEF BytesInOrder
<1>6. CASE PeerRead
    <2> DEFINE n == Least(Len(outgoing),
                          Want(peer_reader) - Len(peer_reader.got))
               r == Filled(peer_reader, SubSeq(outgoing, 1, n))
               a == SubSeq(outgoing, 1, n)
               b == SubSeq(outgoing, n + 1, Len(outgoing))
    <2>1. outgoing' = b /\ taken' = taken \o a /\ UNCHANGED <<writer, enqueued>>
        BY <1>6, Zenon DEF PeerRead
    <2>2. /\ peer_reader \in FrameReader
          /\ Len(peer_reader.got) < Want(peer_reader) /\ outgoing # <<>>
        BY <1>6, Zenon DEF PeerRead, RoomToRead, TypeOK, InwardType
    <2>3. ReadOK(peer_reader, outgoing, n, r)
        BY <1>1, <2>2, ReadSome, Zenon
    <2>4. n \in 1..Len(outgoing)
        BY <2>3, Zenon DEF ReadOK
    <2> HIDE DEF n, r, P
    <2>5. n \in 0..Len(outgoing)
        BY <1>1, <2>4, SMTT(30)
    <2>6. a \in Seq(Byte) /\ b \in Seq(Byte) /\ a \o b = outgoing
        BY <1>1, <2>5, CutSeq, Zenon
    <2> HIDE DEF a, b
    <2>7. (taken \o a) \o b = taken \o outgoing
        <3>1. (taken \o a) \o b = taken \o (a \o b)
            <4>1. taken \in Seq(Byte) /\ a \in Seq(Byte) /\ b \in Seq(Byte)
                BY <1>1, <2>6, Zenon
            <4> QED
                BY ONLY <4>1, Bracket, Zenon
        <3> QED
            BY <2>6, <3>1, Zenon
    <2>8. Pending(writer') = P
        BY <2>1, Zenon DEF P
    <2> QED
        BY <1>2, <1>3, <2>1, <2>7, <2>8, Zenon DEF BytesInOrder
<1>7. CASE ChannelSend \/ UNCHANGED <<outward, taken>>
    <2>1. UNCHANGED <<writer, enqueued, outgoing, taken>>
        BY <1>7, Zenon DEF ChannelSend, outward, ghosts
    <2> QED
        BY <2>1, Zenon DEF BytesInOrder, Pending
<1> QED
    BY <1>4, <1>5, <1>6, <1>7, OutwardActions, Zenon

-----------------------------------------------------------------------------
(* Sleeping, and the bytes that wait *)

(* A frame given to the writer leaves bytes to write. *)
LEMMA PutPending ==
    ASSUME TypeOK, NEW f \in Frame, Put(f)
    PROVE  /\ pending_bytes(writer)' = pending_bytes(writer) + (PrefixBytes + f.len)
           /\ pending_bytes(writer)' > 0
<1>1. pending_bytes(writer') = pending_bytes(writer) + (PrefixBytes + f.len)
    BY PendingNat, EnqueuePending, Zenon DEF Put
<1>2. pending_bytes(writer)' = pending_bytes(writer')
    BY Zenon DEF pending_bytes
<1>3. PrefixBytes \in Nat \ {0} /\ f.len \in Nat /\ pending_bytes(writer) \in Nat
    BY PendingNat, CodecAssumption, Zenon DEF Frame
<1> QED
    BY <1>1, <1>2, <1>3, SMTT(30)

(* Write interest is registered only for bytes that wait, but for the time *)
(* between the last write of try_flush and its return.                     *)
LEMMA InterestStep ==
    ASSUME TypeOK, InterestJustified, [Next]_vars
    PROVE  InterestJustified'
<1> DEFINE Stale == write_interest /\ pending_bytes(writer) = 0
<1>0. pending_bytes(writer) \in Nat /\ (Stale => pc = "write")
    BY PendingNat, Zenon DEF InterestJustified
<1>1. CASE HandlerSend \/ BeforeSleepTakes \/ Drain
    <2>1. pending_bytes(writer)' > 0
        BY <1>1, PutSteps, PutPending, Zenon
    <2> QED
        BY <2>1 DEF InterestJustified
<1>2. CASE Write \/ UNCHANGED vars
    BY <1>0, <1>2, Zenon DEF Write, looper, vars, outward, InterestJustified, pending_bytes
<1>3. CASE BeforeSleep \/ PollOthers \/ Wake \/ DispatchReturns \/ ProcessEvents
           \/ DrainDone \/ WakeOther \/ BatchDone \/ Read \/ ReadEof
    <2>1. pc # "write" /\ UNCHANGED <<write_interest, writer>>
        BY <1>3, Zenon DEF BeforeSleep, PollOthers, Wake, DispatchReturns,
            ProcessEvents, DrainDone, WakeOther, BatchDone, Read, ReadEof,
            Remove, outward
    <2> QED
        BY <1>0, <2>1, Zenon DEF InterestJustified, pending_bytes
<1>4. CASE ReadDone
    <2>1. pc = "read" /\ writer' = writer
        BY <1>4, Zenon DEF ReadDone, outward
    <2>2. write_interest' => write_interest \/ pending_bytes(writer) > 0
        BY <1>4, Zenon DEF ReadDone, Finish
    <2>3. pending_bytes(writer)' = pending_bytes(writer)
        BY <2>1, Zenon DEF pending_bytes
    <2>4. ~Stale
        BY <1>0, <2>1, Zenon
    <2>5. write_interest' => pending_bytes(writer) # 0
        BY <1>0, <2>2, <2>4, SMTT(30)
    <2> QED
        BY <2>3, <2>5, Zenon DEF InterestJustified
<1>5. CASE FlushDone
    <2>1. ~(0 > 0)
        OBVIOUS
    <2>2. ~write_interest'
        BY <1>5, <2>1, Zenon DEF FlushDone, Finish
    <2> QED
        BY <2>2, Zenon DEF InterestJustified
<1>6. CASE FlushBlocked \/ FlushFails
    BY <1>6 DEF FlushBlocked, FlushFails, outward, InterestJustified, pending_bytes
<1>7. CASE ChannelSend \/ PeerSend \/ PeerWrite \/ PeerRead \/ PeerClose
    <2>1. UNCHANGED <<write_interest, writer, pc>>
        BY <1>7, Zenon DEF ChannelSend, PeerSend, PeerWrite, PeerRead, PeerClose,
            looper, outward
    <2> QED
        BY <1>0, <2>1, Zenon DEF InterestJustified, pending_bytes
<1> QED
    BY <1>1, <1>2, <1>3, <1>4, <1>5, <1>6, <1>7, Zenon DEF Next, Dispatch

(* The looper does not go to sleep, and is not left asleep, on bytes that  *)
(* the writer holds: before_sleep asks for an event whenever there are any. *)
LEMMA AsleepStep ==
    ASSUME TypeOK, InterestJustified, AsleepDrained, [Next]_vars
    PROVE  AsleepDrained'
<1> USE DEF AsleepDrained
<1>0. pending_bytes(writer) \in Nat
    BY PendingNat, Zenon
<1>1. CASE BeforeSleepTakes
    <2>1. PICK f \in Frame : Put(f)
        BY <1>1, PutSteps, Zenon
    <2>2. pending_bytes(writer') > 0
        BY <2>1, PutPending, Zenon DEF pending_bytes
    <2>3. Sleep(writer') /\ token' = token
        BY <1>1, Zenon DEF BeforeSleepTakes
    <2>4. pc' = "asleep" => ~token'
        BY <2>2, <2>3, Zenon DEF Sleep, Synthetic
    <2> QED
        BY <2>4, Zenon
<1>2. CASE BeforeSleep
    <2>1. /\ Sleep(writer) /\ UNCHANGED <<token, writer, write_interest>>
          /\ pc = "before_sleep"
        BY <1>2, Zenon DEF BeforeSleep, outward
    <2>2. pc' = "asleep" /\ token' => ~(pending_bytes(writer) > 0)
        BY <2>1, Zenon DEF Sleep, Synthetic
    <2>3. pc' = "asleep" /\ token' => pending_bytes(writer) = 0
        BY <1>0, <2>2, SMTT(30)
    <2>4. pc' = "asleep" /\ token' => ~write_interest
        BY <2>1, <2>3, Zenon DEF InterestJustified
    <2> QED
        BY <2>1, <2>3, <2>4, Zenon DEF pending_bytes
<1>3. CASE PollOthers
    BY <1>3, Zenon DEF PollOthers
<1>4. CASE Wake \/ WakeOther \/ DispatchReturns \/ ProcessEvents \/ DrainDone
           \/ ReadDone \/ ReadEof \/ FlushDone \/ FlushBlocked \/ FlushFails
           \/ BatchDone
    <2>1. pc' # "asleep"
        BY <1>4, Zenon DEF Wake, WakeOther, DispatchReturns, ProcessEvents, DrainDone,
            ReadDone, ReadEof, FlushDone, FlushBlocked, FlushFails, BatchDone,
            Finish, Remove
    <2> QED
        BY <2>1, Zenon
<1>5. CASE Drain \/ Read \/ Write \/ HandlerSend
    <2>1. pc' # "asleep"
        BY <1>5, Zenon DEF Drain, Read, Write, HandlerSend, Remove, looper
    <2> QED
        BY <2>1, Zenon
<1>6. CASE ChannelSend \/ PeerSend \/ PeerWrite \/ PeerRead \/ PeerClose
           \/ UNCHANGED vars
    <2>1. UNCHANGED <<write_interest, writer, pc, token, source>>
        BY <1>6, Zenon DEF ChannelSend, PeerSend, PeerWrite, PeerRead, PeerClose,
            looper, outward, vars
    <2> QED
        BY <2>1, Zenon DEF pending_bytes
<1> QED
    BY <1>1, <1>2, <1>3, <1>4, <1>5, <1>6, Zenon DEF Next, Dispatch

-----------------------------------------------------------------------------
(* Backpressure *)

(* ChannelBytes of any writer. *)
ChannelBytesOf(w) == {i \in (w.flush_pos + 1)..Len(w.buf) :
                          w.buf[i].frame.via = "channel"}

(* A writer holds no more bytes of the channel than it holds bytes. *)
LEMMA ChannelBytesBound ==
    ASSUME NEW w, WriterOK(w)
    PROVE  /\ IsFiniteSet(ChannelBytesOf(w))
           /\ Cardinality(ChannelBytesOf(w)) \in Nat
           /\ Cardinality(ChannelBytesOf(w)) =< pending_bytes(w)
<1> DEFINE a == w.flush_pos + 1
           b == Len(w.buf)
<1>1. a \in Int /\ b \in Int /\ a - 1 =< b
    BY DEF WriterOK, FrameWriter
<1>2. /\ IsFiniteSet(a..b)
      /\ Cardinality(a..b) = IF a > b THEN 0 ELSE b - a + 1
    BY <1>1, FS_Interval, Zenon
<1>3. Cardinality(a..b) = pending_bytes(w)
    BY <1>1, <1>2, SMTT(30) DEF pending_bytes, WriterOK, FrameWriter
<1>4. ChannelBytesOf(w) \subseteq a..b
    BY Zenon DEF ChannelBytesOf
<1>5. /\ IsFiniteSet(ChannelBytesOf(w))
      /\ Cardinality(ChannelBytesOf(w)) =< Cardinality(a..b)
    BY <1>2, <1>4, FS_Subset, Zenon
<1>6. Cardinality(ChannelBytesOf(w)) \in Nat
    BY <1>5, FS_CardinalityType, Zenon
<1> QED
    BY <1>3, <1>5, <1>6, Zenon

(* A frame that a handler writes adds no byte of the channel. *)
LEMMA DirectAddsNone ==
    ASSUME NEW w, WriterOK(w), NEW f \in Frame, f.via = "direct"
    PROVE  ChannelBytesOf(Enqueue(w, f)) = ChannelBytesOf(w)
<1> DEFINE v == Enqueue(w, f)
           e == Encode(f)
           b == w.buf
           p == w.flush_pos
<1>1. b \in Seq(Byte) /\ p \in Nat /\ p =< Len(b) /\ Len(b) \in Nat
    BY DEF WriterOK, FrameWriter
<1>2. v.flush_pos = p /\ v.buf = b \o e
    BY EnqueuePending, Zenon
<1>3. e \in Seq(Byte) /\ Len(e) \in Nat
      /\ \A k \in 1..Len(e) : e[k].frame = f
    BY EncodeSeq, CodecAssumption, Zenon DEF Encode, Frame
<1> HIDE DEF v, e, b, p
<1>4. /\ Len(b \o e) = Len(b) + Len(e)
      /\ \A i \in 1..Len(b) + Len(e) :
            (b \o e)[i] = IF i <= Len(b) THEN b[i] ELSE e[i - Len(b)]
    BY <1>1, <1>3, ConcatProperties, Zenon
<1>5. ChannelBytesOf(v) = {i \in (p + 1)..(Len(b) + Len(e)) :
                               (b \o e)[i].frame.via = "channel"}
    BY <1>2, <1>4, Zenon DEF ChannelBytesOf
<1>6. ChannelBytesOf(w) = {i \in (p + 1)..Len(b) : b[i].frame.via = "channel"}
    BY Zenon DEF ChannelBytesOf, b, p
<1>7. ASSUME NEW i \in (p + 1)..(Len(b) + Len(e)), i > Len(b)
      PROVE  (b \o e)[i].frame = f
    <2>1. i \in 1..Len(b) + Len(e) /\ i - Len(b) \in 1..Len(e)
        BY <1>1, <1>3, <1>7, SMTT(30)
    <2>2. (b \o e)[i] = e[i - Len(b)]
        BY <1>1, <1>4, <1>7, <2>1, SMTT(30)
    <2> QED
        BY <1>3, <2>1, <2>2, Zenon
<1>8. ASSUME NEW i \in (p + 1)..Len(b)
      PROVE  i \in (p + 1)..(Len(b) + Len(e)) /\ (b \o e)[i] = b[i]
    <2>1. i \in 1..Len(b) + Len(e) /\ i <= Len(b)
        BY <1>1, <1>3, SMTT(30)
    <2> QED
        BY <1>1, <1>3, <1>4, <2>1, SMTT(30)
<1>9. ASSUME NEW i \in ChannelBytesOf(v)
      PROVE  i \in ChannelBytesOf(w)
    <2>1. i \in (p + 1)..(Len(b) + Len(e)) /\ (b \o e)[i].frame.via = "channel"
        BY <1>5, Zenon
    <2>2. ~(i > Len(b))
        BY <1>7, <2>1, Zenon
    <2>3. i \in (p + 1)..Len(b)
        BY <1>1, <1>3, <2>1, <2>2, SMTT(30)
    <2> QED
        BY <1>6, <1>8, <2>1, <2>3, Zenon
<1>10. ASSUME NEW i \in ChannelBytesOf(w)
       PROVE  i \in ChannelBytesOf(v)
    BY <1>5, <1>6, <1>8, Zenon
<1> QED
    BY <1>9, <1>10, Zenon DEF v

(* A write of try_flush adds none either. *)
LEMMA FlushAddsNone ==
    ASSUME NEW w, WriterOK(w), NEW n \in 1..pending_bytes(w)
    PROVE  ChannelBytesOf(Flush(w, n)) \subseteq ChannelBytesOf(w)
<1> DEFINE v == Flush(w, n)
<1>1. \/ v.buf = <<>> /\ v.flush_pos = 0
      \/ v.buf = w.buf /\ v.flush_pos = w.flush_pos + n
    BY FlushPending, Zenon
<1>2. w.flush_pos \in Nat /\ Len(w.buf) \in Nat /\ n \in Nat
    BY DEF WriterOK, FrameWriter, pending_bytes
<1> HIDE DEF v
<1>3. CASE v.buf = <<>> /\ v.flush_pos = 0
    <2>1. (v.flush_pos + 1)..Len(v.buf) = {}
        BY <1>3, SMTT(30)
    <2>2. ChannelBytesOf(v) = {}
        BY <2>1, Zenon DEF ChannelBytesOf
    <2> QED
        BY <2>2, Zenon DEF v
<1>4. CASE v.buf = w.buf /\ v.flush_pos = w.flush_pos + n
    <2>1. ChannelBytesOf(v) \subseteq ChannelBytesOf(w)
        BY <1>2, <1>4, SMTT(30) DEF ChannelBytesOf
    <2> QED
        BY <2>1, Zenon DEF v
<1> QED
    BY <1>1, <1>3, <1>4, Zenon

(* The bytes of the channel that wait stay below the mark by less than a    *)
(* frame: drain_write_channel and before_sleep pull below the mark only.    *)
LEMMA BackpressureStep ==
    ASSUME TypeOK, BackpressureKept, [Next]_vars
    PROVE  BackpressureKept'
<1> DEFINE Bound == Highwater + PrefixBytes + MaxMessage
<1>1. /\ WriterOK(writer) /\ pending_bytes(writer) \in Nat
      /\ Cardinality(ChannelBytesOf(writer)) \in Nat
      /\ IsFiniteSet(ChannelBytesOf(writer))
    BY PendingNat, ChannelBytesBound, Zenon
<1>2. Cardinality(ChannelBytesOf(writer)) < Bound
    BY Zenon DEF BackpressureKept, ChannelBytes, ChannelBytesOf
<1>3. /\ Highwater \in Nat \ {0} /\ PrefixBytes \in Nat /\ MaxMessage \in Nat
    BY CodecAssumption, ConnectionAssumption, Zenon
<1>4. SUFFICES Cardinality(ChannelBytesOf(writer')) < Bound
    BY Zenon DEF BackpressureKept, ChannelBytes, ChannelBytesOf
<1> HIDE DEF Bound
<1>5. CASE BeforeSleepTakes \/ Drain
    <2>1. PICK f \in Frame : Put(f) /\ f.len =< MaxMessage
        BY <1>5, PutSteps, Zenon
    <2>2. pending_bytes(writer) < Highwater
        BY <1>3, <1>5, SMTT(30) DEF BeforeSleepTakes, Drain, MayPull
    <2>3. pending_bytes(writer') = pending_bytes(writer) + (PrefixBytes + f.len)
        BY <2>1, PutPending, Zenon DEF pending_bytes
    <2>4. f.len \in Nat
        BY Zenon DEF Frame
    <2>5. WriterOK(writer')
        BY <1>1, <2>1, EnqueuePending, Zenon DEF Put
    <2>6. /\ Cardinality(ChannelBytesOf(writer')) \in Nat
          /\ Cardinality(ChannelBytesOf(writer')) =< pending_bytes(writer')
        BY <2>5, ChannelBytesBound, Zenon
    <2> QED
        BY <1>1, <1>3, <2>1, <2>2, <2>3, <2>4, <2>6, SMTT(30) DEF Bound
<1>6. CASE HandlerSend
    <2>1. PICK n \in OutLengths : Put(OutFrame("direct", n))
        BY <1>6, Zenon DEF HandlerSend
    <2>2. OutFrame("direct", n) \in Frame /\ OutFrame("direct", n).via = "direct"
        BY OutFrameType, Zenon DEF Paths
    <2>3. ChannelBytesOf(writer') = ChannelBytesOf(writer)
        BY <1>1, <2>1, <2>2, DirectAddsNone, Zenon DEF Put
    <2> QED
        BY <1>2, <2>3, Zenon
<1>7. CASE Write
    <2> DEFINE n == Least(pending_bytes(writer), SocketBytes - Len(outgoing))
    <2>1. writer' = Flush(writer, n)
        BY <1>7, Zenon DEF Write
    <2>2. n \in 1..pending_bytes(writer)
        BY <1>7, WriteCount, Zenon
    <2> HIDE DEF n
    <2>3. ChannelBytesOf(writer') \subseteq ChannelBytesOf(writer)
        BY <1>1, <2>1, <2>2, FlushAddsNone, Zenon
    <2>4. /\ Cardinality(ChannelBytesOf(writer'))
                 =< Cardinality(ChannelBytesOf(writer))
          /\ Cardinality(ChannelBytesOf(writer')) \in Nat
        BY <1>1, <2>3, FS_Subset, FS_CardinalityType, Zenon
    <2> QED
        BY <1>1, <1>2, <1>3, <2>4, SMTT(30) DEF Bound
<1>8. CASE ChannelSend \/ PeerRead \/ UNCHANGED <<outward, taken>>
    <2>1. writer' = writer
        BY <1>8, Zenon DEF ChannelSend, PeerRead, outward
    <2> QED
        BY <1>2, <2>1, Zenon
<1> QED
    BY <1>5, <1>6, <1>7, <1>8, OutwardActions, Zenon

-----------------------------------------------------------------------------
(* The theorems *)

(* A connection starts with nothing buffered and nothing registered. *)
LEMMA InvInit == Init => ConnectionInv
<1> SUFFICES ASSUME Init PROVE ConnectionInv
    BY Zenon
<1>1. TypeOK
    BY TypeInit, Zenon
<1>2. writer = [buf |-> <<>>, flush_pos |-> 0] /\ pending_bytes(writer) = 0
    BY DEF Init, NewWriter, pending_bytes
<1>3. Pending(writer) = <<>>
    BY <1>2, SMTT(30) DEF Pending
<1>4. BytesInOrder
    BY <1>3, SMTT(30) DEF Init, BytesInOrder
<1>5. AsleepDrained /\ InProcess /\ InterestJustified
    BY Zenon DEF Init, AsleepDrained, InProcess, InterestJustified
<1>6. RoomToRead
    BY CodecAssumption, SMTT(30) DEF Init, RoomToRead, NewReader, Want
<1>7. BackpressureKept
    <2>1. ChannelBytes = {}
        BY <1>2, SMTT(40), ZenonT(20) DEF ChannelBytes
    <2> QED
        BY <2>1, FS_EmptySet, CodecAssumption, ConnectionAssumption, SMTT(30)
           DEF BackpressureKept
<1> QED
    BY <1>1, <1>4, <1>5, <1>6, <1>7, Zenon DEF ConnectionInv

(* ConnectionInv, the conjunction of the invariants of ConnectionSource, is *)
(* inductive: every step of process_events, of before_sleep, of the senders *)
(* and of the peer keeps it.                                                *)
THEOREM ConnectionCorrect == Spec => []ConnectionInv
<1>1. ASSUME ConnectionInv, [Next]_vars
      PROVE  ConnectionInv'
    <2> USE <1>1
    <2>1. /\ TypeOK /\ BytesInOrder /\ AsleepDrained /\ BackpressureKept
          /\ InProcess /\ RoomToRead /\ InterestJustified
        BY Zenon DEF ConnectionInv
    <2>2. OutwardType'
        BY <2>1, OutwardStep, Zenon
    <2>3. InwardType' /\ RoomToRead'
        BY <2>1, InwardStep, Zenon
    <2>4. LooperType' /\ InProcess'
        BY <2>1, LooperStep, Zenon
    <2>5. TypeOK'
        BY <2>2, <2>3, <2>4, Zenon DEF TypeOK
    <2>6. BytesInOrder'
        BY <2>1, BytesStep, Zenon
    <2>7. InterestJustified'
        BY <2>1, InterestStep, Zenon
    <2>8. AsleepDrained'
        BY <2>1, AsleepStep, Zenon
    <2>9. BackpressureKept'
        BY <2>1, BackpressureStep, Zenon
    <2> QED
        BY <2>3, <2>4, <2>5, <2>6, <2>7, <2>8, <2>9, Zenon DEF ConnectionInv
<1> QED
    BY <1>1, InvInit, PTL DEF Spec

(* The types of the connection hold in every state: the write buffer, the   *)
(* decoder's state and the channel are what their code takes them to be.    *)
THEOREM TypeCorrect == Spec => []TypeOK
<1>1. ConnectionInv => TypeOK
    BY Zenon DEF ConnectionInv
<1> QED
    BY <1>1, ConnectionCorrect, PTL

(* FrameWriter and the socket neither lose nor repeat nor reorder a byte,   *)
(* whatever short writes the socket takes.                                  *)
THEOREM BytesCorrect == Spec => []BytesInOrder
<1>1. ConnectionInv => BytesInOrder
    BY Zenon DEF ConnectionInv
<1> QED
    BY <1>1, ConnectionCorrect, PTL

(* Once process_events has stored the token, the looper blocks in its poll  *)
(* with write interest exactly when bytes are still to be written.          *)
THEOREM AsleepCorrect == Spec => []NeverAsleepOnBytes
<1>1. ConnectionInv => NeverAsleepOnBytes
    <2>1. ConnectionInv => TypeOK /\ AsleepDrained
        BY Zenon DEF ConnectionInv
    <2>2. pending_bytes(writer) = 0 => ~(pending_bytes(writer) > 0)
        OBVIOUS
    <2>3. TypeOK => write_interest \in BOOLEAN
        BY Zenon DEF TypeOK, LooperType
    <2> QED
        BY <2>1, <2>2, <2>3, Zenon DEF AsleepDrained, NeverAsleepOnBytes
<1> QED
    BY <1>1, ConnectionCorrect, PTL

(* What drain_write_channel and before_sleep move out of the bounded channel *)
(* stays within one frame of the highwater mark, for every frame length and  *)
(* every mix of direct and channel writes.                                   *)
THEOREM BackpressureCorrect == Spec => []BackpressureKept
<1>1. ConnectionInv => BackpressureKept
    BY Zenon DEF ConnectionInv
<1> QED
    BY <1>1, ConnectionCorrect, PTL
=============================================================================
