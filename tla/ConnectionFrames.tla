-------------------------- MODULE ConnectionFrames --------------------------
(***************************************************************************)
(* Proofs about the frames of ConnectionSource, for every length of the    *)
(* prefix, the frames and the socket buffers: in each direction the frames *)
(* come out complete and in order (the refinements of FrameLink), and the  *)
(* source is removed only for a cause.                                     *)
(*                                                                         *)
(* The argument is the place of a reader.  Frame k of a stream begins      *)
(* after its first off[k] bytes; a reader that has completed d frames and  *)
(* holds a part of the next one, or of its body, holds exactly the bytes   *)
(* from off[d + 1] on.                                                     *)
(***************************************************************************)
EXTENDS ConnectionProofs

Size(f) == PrefixBytes + f.len

(* The bytes are those of the frames, one frame after the other. *)
Layout(bytes, frames, off) ==
    /\ off \in [1..(Len(frames) + 1) -> 0..Len(bytes)]
    /\ off[1] = 0 /\ off[Len(frames) + 1] = Len(bytes)
    /\ \A k \in 1..Len(frames) :
          /\ off[k + 1] = off[k] + Size(frames[k])
          /\ \A a \in 1..Size(frames[k]) :
                bytes[off[k] + a] = [frame |-> frames[k], at |-> a]

(* The reader r has been given n of the bytes and has completed d frames. *)
Placed(bytes, frames, off, n, r, d) ==
    /\ n =< Len(bytes) /\ d =< Len(frames) /\ Len(r.got) =< n
    /\ \A i \in 1..Len(r.got) : r.got[i] = bytes[n - Len(r.got) + i]
    /\ r.state = "Length" => n - Len(r.got) = off[d + 1]
    /\ r.state = "Body" => /\ d < Len(frames)
                           /\ n - Len(r.got) = off[d + 1] + PrefixBytes
                           /\ r.body_len = frames[d + 1].len

(* The bytes s are those of the stream after the first n. *)
Follow(bytes, n, s) ==
    /\ n + Len(s) =< Len(bytes)
    /\ \A i \in 1..Len(s) : s[i] = bytes[n + i]

-----------------------------------------------------------------------------
(* Streams of frames *)

(* The bytes of an encoded frame, with their places. *)
LEMMA EncodedByte ==
    ASSUME NEW f \in Frame
    PROVE  /\ Size(f) \in Nat \ {0} /\ f.len \in Nat
           /\ Encode(f) \in Seq(Byte) /\ Len(Encode(f)) = Size(f)
           /\ \A a \in 1..Size(f) : Encode(f)[a] = [frame |-> f, at |-> a]
<1>1. f.len \in Nat /\ Size(f) \in Nat \ {0}
    BY CodecAssumption DEF Frame, Size
<1>2. \A a \in 1..Size(f) : Encode(f)[a] = [frame |-> f, at |-> a]
    BY Zenon DEF Encode, Size
<1> QED
    BY <1>1, <1>2, EncodeSeq, Zenon DEF Size

(* A frame written behind the others leaves them in their places. *)
LEMMA LayoutAppend ==
    ASSUME NEW bytes \in Seq(Byte), NEW frames \in Seq(Frame), NEW f \in Frame,
           NEW off, Layout(bytes, frames, off)
    PROVE  \E o : /\ Layout(bytes \o Encode(f), Append(frames, f), o)
                  /\ \A k \in 1..(Len(frames) + 1) : o[k] = off[k]
<1> DEFINE n == Len(frames)
           b == bytes \o Encode(f)
           fs == Append(frames, f)
           o == [k \in 1..(n + 2) |-> IF k = n + 2 THEN Len(bytes) + Size(f)
                                      ELSE off[k]]
<1>1. /\ n \in Nat /\ Len(bytes) \in Nat
      /\ Size(f) \in Nat \ {0} /\ Len(Encode(f)) = Size(f)
      /\ \A a \in 1..Size(f) : Encode(f)[a] = [frame |-> f, at |-> a]
    BY EncodedByte, LenProperties, Zenon
<1>2. /\ Len(fs) = n + 1 /\ \A k \in 1..n : fs[k] = frames[k]
      /\ fs[n + 1] = f
    BY AppendProperties
<1>3. /\ Len(b) = Len(bytes) + Size(f)
      /\ \A i \in 1..Len(bytes) : b[i] = bytes[i]
      /\ \A a \in 1..Size(f) : b[Len(bytes) + a] = [frame |-> f, at |-> a]
    <2>1. /\ Len(b) = Len(bytes) + Size(f)
          /\ \A i \in 1..(Len(bytes) + Size(f)) :
                b[i] = IF i =< Len(bytes) THEN bytes[i]
                       ELSE Encode(f)[i - Len(bytes)]
        <3>1. Encode(f) \in Seq(Byte)
            BY EncodedByte, Zenon
        <3> QED
            BY <1>1, <3>1, ConcatProperties, SMTT(30)
    <2> HIDE DEF b
    <2>2. ASSUME NEW a \in 1..Size(f)
          PROVE  b[Len(bytes) + a] = Encode(f)[a]
        <3>1. /\ Len(bytes) + a \in 1..(Len(bytes) + Size(f))
              /\ ~(Len(bytes) + a =< Len(bytes))
              /\ (Len(bytes) + a) - Len(bytes) = a
            BY <1>1, SMTT(30)
        <3> QED
            BY <2>1, <3>1, Zenon
    <2>3. ASSUME NEW i \in 1..Len(bytes)
          PROVE  b[i] = bytes[i]
        <3>1. i \in 1..(Len(bytes) + Size(f)) /\ i =< Len(bytes)
            BY <1>1, SMTT(30)
        <3> QED
            BY <2>1, <3>1, Zenon
    <2> QED
        BY <1>1, <2>1, <2>2, <2>3, Zenon
<1>4. /\ off \in [1..(n + 1) -> 0..Len(bytes)] /\ off[1] = 0 /\ off[n + 1] = Len(bytes)
      /\ \A k \in 1..n : off[k + 1] = off[k] + Size(frames[k])
      /\ \A k \in 1..n : \A a \in 1..Size(frames[k]) :
            bytes[off[k] + a] = [frame |-> frames[k], at |-> a]
    BY Zenon DEF Layout
<1>5. /\ o \in [1..(n + 2) -> 0..(Len(bytes) + Size(f))]
      /\ o[n + 2] = Len(bytes) + Size(f)
      /\ \A k \in 1..(n + 1) : o[k] = off[k]
    BY <1>1, <1>4, SMTT(30)
<1> HIDE DEF n, b, fs, o
<1>6. 1..(Len(fs) + 1) = 1..(n + 2) /\ Len(fs) + 1 = n + 2
    BY <1>1, <1>2, SMTT(30)
<1>7. o[1] = 0 /\ o[Len(fs) + 1] = Len(b)
    BY <1>1, <1>3, <1>4, <1>5, <1>6, SMTT(30)
<1>8. ASSUME NEW k \in 1..Len(fs)
      PROVE  /\ o[k + 1] = o[k] + Size(fs[k])
             /\ \A a \in 1..Size(fs[k]) : b[o[k] + a] = [frame |-> fs[k], at |-> a]
    <2>1. CASE k = n + 1
        <3>1. /\ k + 1 = n + 2 /\ k \in 1..(n + 1) /\ fs[k] = f
              /\ o[k] = Len(bytes)
            BY <1>1, <1>2, <1>4, <1>5, <2>1, SMTT(30)
        <3> QED
            BY <1>3, <1>5, <3>1, Zenon
    <2>2. CASE k # n + 1
        <3>1. /\ k \in 1..n /\ k \in 1..(n + 1) /\ k + 1 \in 1..(n + 1)
              /\ fs[k] = frames[k]
            BY <1>1, <1>2, <2>2, SMTT(30)
        <3>2. o[k] = off[k] /\ o[k + 1] = off[k + 1]
            BY <1>5, <3>1, Zenon
        <3>3. ASSUME NEW a \in 1..Size(frames[k])
              PROVE  b[off[k] + a] = [frame |-> frames[k], at |-> a]
            <4>1. bytes[off[k] + a] = [frame |-> frames[k], at |-> a]
                BY <1>4, <3>1, Zenon
            <4>2. off[k] + a \in 1..Len(bytes)
                <5>1. /\ off[k] \in 0..Len(bytes) /\ off[k + 1] \in 0..Len(bytes)
                      /\ off[k + 1] = off[k] + Size(frames[k])
                    BY <1>4, <3>1, Zenon
                <5>2. frames[k] \in Frame
                    BY <3>1, ElementOfSeq, Zenon DEF n
                <5>3. Size(frames[k]) \in Nat
                    BY <5>2, EncodedByte, Zenon
                <5> QED
                    BY <1>1, <5>1, <5>3, SMTT(30)
            <4> QED
                BY <1>3, <4>1, <4>2, Zenon
        <3> QED
            BY <1>4, <3>1, <3>2, <3>3, Zenon
    <2> QED
        BY <2>1, <2>2, Zenon
<1>9. Layout(b, fs, o)
    BY <1>3, <1>5, <1>6, <1>7, <1>8, Zenon DEF Layout
<1> QED
    BY <1>5, <1>9, Zenon DEF b, fs, n

(* A reader keeps its place when a frame is written behind the others. *)
LEMMA PlacedGrows ==
    ASSUME NEW bytes \in Seq(Byte), NEW more \in Seq(Byte),
           NEW frames \in Seq(Frame), NEW f \in Frame, NEW off, NEW o,
           \A k \in 1..(Len(frames) + 1) : o[k] = off[k],
           NEW n \in Nat, NEW d \in Nat, NEW r \in FrameReader,
           Placed(bytes, frames, off, n, r, d)
    PROVE  Placed(bytes \o more, Append(frames, f), o, n, r, d)
<1> DEFINE b == bytes \o more
           fs == Append(frames, f)
           g == r.got
<1>1. /\ g \in Seq(Byte) /\ Len(g) \in Nat /\ Len(bytes) \in Nat
      /\ Len(more) \in Nat /\ Len(frames) \in Nat
    BY LenProperties, Zenon DEF FrameReader
<1>2. /\ Len(fs) = Len(frames) + 1
      /\ \A k \in 1..Len(frames) : fs[k] = frames[k]
    BY AppendProperties
<1>3. /\ Len(b) = Len(bytes) + Len(more)
      /\ \A i \in 1..(Len(bytes) + Len(more)) :
            i =< Len(bytes) => b[i] = bytes[i]
    BY ConcatProperties, Zenon
<1>4. /\ n =< Len(bytes) /\ d =< Len(frames) /\ Len(g) =< n
      /\ \A i \in 1..Len(g) : g[i] = bytes[n - Len(g) + i]
      /\ r.state = "Length" => n - Len(g) = off[d + 1]
      /\ r.state = "Body" => /\ d < Len(frames)
                             /\ n - Len(g) = off[d + 1] + PrefixBytes
                             /\ r.body_len = frames[d + 1].len
    BY Zenon DEF Placed
<1> HIDE DEF b, fs, g
<1>5. d + 1 \in 1..(Len(frames) + 1) /\ o[d + 1] = off[d + 1]
    BY <1>1, <1>4, SMTT(30)
<1>6. ASSUME NEW i \in 1..Len(g)
      PROVE  g[i] = b[n - Len(g) + i]
    <2>1. /\ n - Len(g) + i \in 1..(Len(bytes) + Len(more))
          /\ n - Len(g) + i =< Len(bytes)
        BY <1>1, <1>4, SMTT(30)
    <2> QED
        BY <1>3, <1>4, <2>1, Zenon
<1>7. n =< Len(b) /\ d =< Len(fs)
    BY <1>1, <1>2, <1>3, <1>4, SMTT(30)
<1>8. ASSUME r.state = "Body"
      PROVE  d < Len(fs) /\ r.body_len = fs[d + 1].len
    <2>1. d < Len(frames) /\ d + 1 \in 1..Len(frames)
        BY <1>1, <1>4, <1>8, SMTT(30)
    <2> QED
        BY <1>1, <1>2, <1>4, <1>8, <2>1, SMTT(30)
<1>9. Placed(b, fs, o, n, r, d)
    BY <1>4, <1>5, <1>6, <1>7, <1>8, Zenon DEF Placed, g
<1> QED
    BY <1>9, Zenon DEF b, fs

-----------------------------------------------------------------------------
(* Reading *)

(* The bytes of one read are added to the reader's. *)
LEMMA PlacedFill ==
    ASSUME NEW bytes \in Seq(Byte), NEW frames, NEW off, NEW n \in Nat,
           NEW d, NEW r \in FrameReader, Placed(bytes, frames, off, n, r, d),
           NEW s \in Seq(Byte), Follow(bytes, n, s),
           NEW m \in 1..Len(s), NEW q, q = Filled(r, SubSeq(s, 1, m))
    PROVE  /\ Placed(bytes, frames, off, n + m, q, d)
           /\ q \in FrameReader /\ Len(q.got) = Len(r.got) + m
           /\ q.state = r.state /\ q.body_len = r.body_len
<1> DEFINE g == r.got
           t == SubSeq(s, 1, m)
<1>1. /\ g \in Seq(Byte) /\ Len(g) \in Nat /\ Len(s) \in Nat
      /\ Len(bytes) \in Nat /\ m \in Nat /\ m >= 1 /\ m =< Len(s)
      /\ m \in 0..Len(s)
    BY LenProperties DEF FrameReader
<1>2. t \in Seq(Byte) /\ Len(t) = m /\ \A i \in 1..m : t[i] = s[i]
    <2>1. t \in Seq(Byte) /\ Len(t) = m
        BY <1>1, CutSeq, Zenon
    <2>2. \A i \in 1..m : t[i] = s[i]
        <3>1. \A i \in 1..m : s[i] \in Byte
            BY <1>1, ElementOfSeq, SMTT(30)
        <3>2. \A i \in 1..(m - 1 + 1) : t[i] = s[1 + i - 1]
            BY <1>1, <3>1, SubSeqProperties, SMTT(30)
        <3> QED
            BY <1>1, <3>2, SMTT(30)
    <2> QED
        BY <2>1, <2>2, Zenon
<1>3. /\ g \o t \in Seq(Byte) /\ Len(g \o t) = Len(g) + m
      /\ \A i \in 1..(Len(g) + m) :
            (g \o t)[i] = IF i =< Len(g) THEN g[i] ELSE t[i - Len(g)]
    BY <1>1, <1>2, ConcatProperties, SMTT(30)
<1>4. /\ q.got = g \o t /\ q \in FrameReader
      /\ q.state = r.state /\ q.body_len = r.body_len
    BY <1>3, Zenon DEF FrameReader, Filled
<1>5. /\ n =< Len(bytes) /\ d =< Len(frames) /\ Len(g) =< n
      /\ \A i \in 1..Len(g) : g[i] = bytes[n - Len(g) + i]
    BY Zenon DEF Placed
<1>0. n + Len(s) =< Len(bytes) /\ \A i \in 1..Len(s) : s[i] = bytes[n + i]
    BY Zenon DEF Follow
<1> DEFINE h == q.got
<1>6. /\ Len(h) = Len(g) + m
      /\ \A i \in 1..(Len(g) + m) :
            h[i] = IF i =< Len(g) THEN g[i] ELSE t[i - Len(g)]
    BY <1>3, <1>4, Zenon
<1> HIDE DEF g, t, h
<1>7. (n + m) - Len(h) = n - Len(g) /\ Len(h) =< n + m /\ n + m =< Len(bytes)
    BY <1>0, <1>1, <1>5, <1>6, SMTT(30)
<1>8. ASSUME NEW i \in 1..Len(h)
      PROVE  h[i] = bytes[(n + m) - Len(h) + i]
    <2>1. CASE i =< Len(g)
        <3>1. i \in 1..Len(g) /\ i \in 1..(Len(g) + m)
            BY <1>1, <1>6, <2>1, SMTT(30)
        <3> QED
            BY <1>5, <1>6, <1>7, <2>1, <3>1, Zenon
    <2>2. CASE ~(i =< Len(g))
        <3>1. /\ i - Len(g) \in 1..m /\ i \in 1..(Len(g) + m)
              /\ i - Len(g) \in 1..Len(s)
              /\ n + (i - Len(g)) = n - Len(g) + i
            BY <1>1, <1>5, <1>6, <2>2, SMTT(30)
        <3>2. h[i] = t[i - Len(g)] /\ t[i - Len(g)] = s[i - Len(g)]
            BY <1>2, <1>6, <2>2, <3>1, Zenon
        <3> QED
            BY <1>0, <1>7, <3>1, <3>2, Zenon
    <2> QED
        BY <2>1, <2>2, Zenon
<1>9. Placed(bytes, frames, off, n + m, q, d)
    BY <1>4, <1>5, <1>7, <1>8, Zenon DEF Placed, g, h
<1> QED
    BY <1>4, <1>6, <1>9, Zenon DEF g, h

(* The bytes of the next frame, from byte a on, that a reader holds when   *)
(* the last byte it was given is byte c of that frame.                     *)
LEMMA Holds ==
    ASSUME NEW bytes \in Seq(Byte), NEW frames \in Seq(Frame), NEW off,
           Layout(bytes, frames, off), NEW d \in Nat, NEW n \in Nat,
           NEW g \in Seq(Byte), NEW p \in Nat, n =< Len(bytes),
           d =< Len(frames), \A i \in 1..Len(g) : g[i] = bytes[n - Len(g) + i],
           n - Len(g) = off[d + 1] + p, Len(g) > 0,
           d < Len(frames) => p + Len(g) =< Size(frames[d + 1])
    PROVE  /\ d < Len(frames) /\ d + 1 \in 1..Len(frames)
           /\ g[1].frame = frames[d + 1] /\ Aligned(g, p)
           /\ n \in 1..Len(bytes) /\ bytes[n].frame = frames[d + 1]
<1>1. /\ Len(bytes) \in Nat /\ Len(g) \in Nat /\ Len(frames) \in Nat
      /\ DOMAIN g = 1..Len(g)
    BY LenProperties, Zenon
<1>2. /\ off[d + 1] \in 0..Len(bytes) /\ off[Len(frames) + 1] = Len(bytes)
      /\ \A k \in 1..Len(frames) : \A a \in 1..Size(frames[k]) :
            bytes[off[k] + a] = [frame |-> frames[k], at |-> a]
    BY <1>1, SMTT(40), ZenonT(20) DEF Layout
<1>3. d < Len(frames)
    <2>1. n > off[d + 1]
        BY <1>1, <1>2, SMTT(30)
    <2>2. d # Len(frames)
        BY <1>1, <1>2, <2>1, SMTT(30)
    <2> QED
        BY <1>1, <2>2
<1>4. /\ d + 1 \in 1..Len(frames) /\ frames[d + 1] \in Frame
      /\ Size(frames[d + 1]) \in Nat
    BY <1>1, <1>3, ElementOfSeq, EncodedByte, SMTT(30)
<1> DEFINE f == frames[d + 1]
           o == off[d + 1]
<1>0. /\ n - Len(g) = o + p /\ p + Len(g) =< Size(f)
      /\ o \in Nat /\ Size(f) \in Nat
    BY <1>1, <1>2, <1>3, <1>4, SMTT(30)
<1> HIDE DEF f, o
<1>5. ASSUME NEW i \in 1..Len(g)
      PROVE  g[i] = [frame |-> f, at |-> p + i]
    <2>1. p + i \in 1..Size(f) /\ o + (p + i) = n - Len(g) + i
        <3>1. i \in Nat /\ 1 =< i /\ i =< Len(g)
            BY <1>1, SMTT(30)
        <3> HIDE <1>5
        <3> QED
            BY ONLY <1>0, <1>1, <3>1, p \in Nat, n \in Nat, SMTT(30)
    <2>2. bytes[o + (p + i)] = [frame |-> f, at |-> p + i]
        BY <1>2, <1>4, <2>1, Zenon DEF f, o
    <2> QED
        BY <2>1, <2>2, Zenon
<1>6. 1 \in 1..Len(g) /\ Len(g) \in 1..Len(g)
    BY <1>1, SMTT(30)
<1>7. ASSUME NEW i \in 1..Len(g)
      PROVE  g[i].frame = f
    <2>1. g[i] = [frame |-> f, at |-> p + i]
        BY <1>5, Zenon
    <2> QED
        BY ONLY <2>1, SMTT(30)
<1>8. Aligned(g, p)
    BY <1>1, <1>5, <1>6, <1>7, Zenon DEF Aligned
<1>9. n \in 1..Len(bytes) /\ n - Len(g) + Len(g) = n
    BY <1>1, <1>2, SMTT(30)
<1>10. bytes[n].frame = f
    <2>1. g[Len(g)] = bytes[n] /\ g[Len(g)].frame = f
        BY <1>6, <1>7, <1>9, Zenon
    <2> QED
        BY <2>1, Zenon
<1> QED
    BY <1>3, <1>4, <1>6, <1>7, <1>8, <1>9, <1>10, Zenon DEF f

(* What one read makes of a reader in its place: a full header is that of  *)
(* the next frame, a full body is the rest of it, and the reader is in its *)
(* place again.                                                            *)
ReadsNext(bytes, frames, off, n, q, d) ==
    /\ HeaderRead(q) \/ BodyRead(q) =>
          /\ d < Len(frames) /\ n \in 1..Len(bytes)
          /\ bytes[n].frame = frames[d + 1]
    /\ HeaderRead(q) => DeclaredLength(q) = frames[d + 1].len
    /\ BodyRead(q) =>
          /\ q.got[1].frame = frames[d + 1] /\ Kind(q) = frames[d + 1].kind
          /\ n = off[d + 2]
    /\ Placed(bytes, frames, off, n, Advance(q),
              IF BodyRead(q) THEN d + 1 ELSE d)

(* A reader that has just been given bytes, filled no further than asked,  *)
(* advances to its next place.                                             *)
LEMMA AdvancePlaced ==
    ASSUME NEW bytes \in Seq(Byte), NEW frames \in Seq(Frame), NEW off,
           Layout(bytes, frames, off), NEW n \in Nat, NEW d \in Nat,
           NEW q \in FrameReader, Placed(bytes, frames, off, n, q, d),
           Len(q.got) > 0, Len(q.got) =< Want(q)
    PROVE  ReadsNext(bytes, frames, off, n, q, d)
<1> DEFINE g == q.got
<1>1. /\ g \in Seq(Byte) /\ Len(g) \in Nat /\ Len(frames) \in Nat
      /\ Len(bytes) \in Nat /\ PrefixBytes \in Nat \ {0}
      /\ q.state \in {"Length", "Body"} /\ q.body_len \in Nat
    BY LenProperties, CodecAssumption, Zenon DEF FrameReader
<1>2. /\ n =< Len(bytes) /\ d =< Len(frames) /\ Len(g) =< n
      /\ \A i \in 1..Len(g) : g[i] = bytes[n - Len(g) + i]
      /\ q.state = "Length" => n - Len(g) = off[d + 1]
      /\ q.state = "Body" => /\ d < Len(frames)
                             /\ n - Len(g) = off[d + 1] + PrefixBytes
                             /\ q.body_len = frames[d + 1].len
    BY Zenon DEF Placed
<1>3. d < Len(frames) => /\ d + 1 \in 1..Len(frames)
                         /\ frames[d + 1].len \in Nat
                         /\ Size(frames[d + 1]) = PrefixBytes + frames[d + 1].len
    BY <1>1, ElementOfSeq, EncodedByte, SMTT(30) DEF Size
<1>4. off[d + 1] \in Nat
    <2>1. d + 1 \in 1..(Len(frames) + 1)
        BY <1>1, <1>2, SMTT(30)
    <2>2. off[d + 1] \in 0..Len(bytes)
        BY <2>1, Zenon DEF Layout
    <2> QED
        BY <1>1, <2>2, SMTT(30)
<1>5. <<>> \in Seq(Byte) /\ Len(<<>>) = 0
    BY EmptySeq, Zenon
<1>6. CASE HeaderRead(q)
    <2>1. q.state = "Length" /\ Len(g) = PrefixBytes
        BY <1>1, <1>6, SMTT(30) DEF HeaderRead, Full, Want
    <2> HIDE DEF g
    <2>2. /\ n - Len(g) = off[d + 1] + 0
          /\ d < Len(frames) => 0 + Len(g) =< Size(frames[d + 1])
        BY <1>1, <1>2, <1>3, <1>4, <2>1, SMTT(30)
    <2>3. /\ d < Len(frames) /\ g[1].frame = frames[d + 1] /\ Aligned(g, 0)
          /\ n \in 1..Len(bytes) /\ bytes[n].frame = frames[d + 1]
        <3>1. 0 \in Nat /\ Len(g) > 0
            BY <1>1, <2>1, SMTT(30)
        <3> QED
            BY <1>1, <1>2, <2>2, <3>1, Holds, SMTT(30)
    <2>4. DeclaredLength(q) = frames[d + 1].len
        BY <2>3, Zenon DEF DeclaredLength, g
    <2>5. ~BodyRead(q)
        BY <2>1, Zenon DEF BodyRead
    <2> DEFINE a == Advance(q)
    <2>6. /\ a.state = "Body" /\ a.body_len = frames[d + 1].len
          /\ a.got = <<>>
        BY <1>6, <2>4, Zenon DEF Advance
    <2> HIDE DEF a
    <2>7. Placed(bytes, frames, off, n, a, d)
        <3>1. n - 0 = off[d + 1] + PrefixBytes
            BY <1>1, <1>2, <1>4, <2>1, SMTT(30)
        <3> QED
            BY <1>2, <1>5, <2>3, <2>6, <3>1, SMTT(30) DEF Placed
    <2> QED
        BY <2>3, <2>4, <2>5, <2>7, Zenon DEF ReadsNext, a
<1>7. CASE BodyRead(q)
    <2>1. q.state = "Body" /\ Len(g) = q.body_len
        BY <1>1, <1>7, SMTT(30) DEF BodyRead, Full, Want
    <2> HIDE DEF g
    <2>2. /\ n - Len(g) = off[d + 1] + PrefixBytes
          /\ d < Len(frames) => PrefixBytes + Len(g) =< Size(frames[d + 1])
        BY <1>1, <1>2, <1>3, <2>1, SMTT(30)
    <2>3. /\ d < Len(frames) /\ d + 1 \in 1..Len(frames)
          /\ g[1].frame = frames[d + 1] /\ Aligned(g, PrefixBytes)
          /\ n \in 1..Len(bytes) /\ bytes[n].frame = frames[d + 1]
        <3>1. PrefixBytes \in Nat /\ Len(g) > 0
            BY <1>1, Zenon DEF g
        <3> QED
            BY <1>1, <1>2, <2>2, <3>1, Holds, SMTT(30)
    <2>4. Kind(q) = frames[d + 1].kind
        BY <2>3, Zenon DEF Kind, g
    <2>5. ~HeaderRead(q)
        BY <2>1, Zenon DEF HeaderRead
    <2>6. n = off[d + 2] /\ off[(d + 1) + 1] = off[d + 2]
        <3>1. off[(d + 1) + 1] = off[d + 1] + Size(frames[d + 1])
            BY <2>3, Zenon DEF Layout
        <3>2. (d + 1) + 1 = d + 2
            BY SMTT(30)
        <3>3. n = off[d + 1] + Size(frames[d + 1])
            <4>1. /\ Size(frames[d + 1]) = PrefixBytes + frames[d + 1].len
                  /\ Len(g) = frames[d + 1].len
                BY <1>2, <1>3, <2>1, <2>3, Zenon
            <4> DEFINE o == off[d + 1]
                       l == frames[d + 1].len
            <4>2. o \in Nat /\ l \in Nat /\ n - l = o + PrefixBytes
                BY <1>3, <1>4, <2>2, <2>3, <4>1, Zenon
            <4> HIDE DEF o, l
            <4>3. n = o + (PrefixBytes + l)
                BY <1>1, <4>2, SMTT(30)
            <4> QED
                BY <4>1, <4>3, Zenon DEF o, l
        <3> QED
            BY <3>1, <3>2, <3>3, Zenon
    <2> DEFINE a == Advance(q)
    <2>7. a.state = "Length" /\ a.got = <<>>
        BY <1>7, <2>5, Zenon DEF Advance, NewReader
    <2> HIDE DEF a
    <2>8. Placed(bytes, frames, off, n, a, d + 1)
        <3>1. n - 0 = off[(d + 1) + 1] /\ d + 1 =< Len(frames)
            BY <1>1, <2>3, <2>6, SMTT(30)
        <3> QED
            BY <1>2, <1>5, <2>7, <3>1, SMTT(30) DEF Placed
    <2> QED
        BY <1>7, <2>3, <2>4, <2>5, <2>6, <2>8, Zenon DEF ReadsNext, a, g
<1>8. CASE ~HeaderRead(q) /\ ~BodyRead(q)
    <2>1. Advance(q) = q
        BY <1>8, Zenon DEF Advance
    <2> QED
        BY <1>8, <2>1, Zenon DEF ReadsNext
<1> QED
    BY <1>6, <1>7, <1>8, Zenon

(* The fields of a reader after a read. *)
LEMMA FilledFields ==
    ASSUME NEW r \in FrameReader, NEW s \in Seq(Byte), NEW m \in 1..Len(s),
           NEW q, q = Filled(r, SubSeq(s, 1, m))
    PROVE  /\ Len(q.got) = Len(r.got) + m /\ q.state = r.state
           /\ q.body_len = r.body_len
<1>1. m \in 0..Len(s) /\ r.got \in Seq(Byte)
    BY LenProperties, SMTT(30) DEF FrameReader
<1>2. SubSeq(s, 1, m) \in Seq(Byte) /\ Len(SubSeq(s, 1, m)) = m
    BY <1>1, CutSeq, Zenon
<1>3. Len(r.got \o SubSeq(s, 1, m)) = Len(r.got) + m
    BY <1>1, <1>2, ConcatProperties, SMTT(30)
<1>4. /\ q.got = r.got \o SubSeq(s, 1, m) /\ q.state = r.state
      /\ q.body_len = r.body_len
    BY Zenon DEF Filled, FrameReader
<1> QED
    BY <1>3, <1>4, Zenon

(* A read takes what is there and fits. *)
LEMMA ReadCount ==
    ASSUME NEW r \in FrameReader, Len(r.got) < Want(r),
           NEW s \in Seq(Byte), s # <<>>,
           NEW m, m = Least(Len(s), Want(r) - Len(r.got))
    PROVE  m \in 1..Len(s) /\ m \in Nat /\ m + Len(r.got) =< Want(r)
<1>1. Len(r.got) \in Nat /\ Want(r) \in Nat /\ Len(s) \in Nat /\ Len(s) > 0
    BY CodecAssumption, LenProperties, EmptySeq, SMTT(30) DEF FrameReader, Want
<1> QED
    BY <1>1, SMTT(30) DEF Least

(* A read of a reader in its place. *)
LEMMA ReadPlaced ==
    ASSUME NEW bytes \in Seq(Byte), NEW frames \in Seq(Frame), NEW off,
           Layout(bytes, frames, off), NEW n \in Nat, NEW d \in Nat,
           NEW r \in FrameReader, Placed(bytes, frames, off, n, r, d),
           NEW s \in Seq(Byte), Follow(bytes, n, s),
           NEW m \in 1..Len(s), m + Len(r.got) =< Want(r),
           NEW q, q = Filled(r, SubSeq(s, 1, m))
    PROVE  ReadsNext(bytes, frames, off, n + m, q, d)
<1>1. /\ Placed(bytes, frames, off, n + m, q, d)
      /\ q \in FrameReader /\ Len(q.got) = Len(r.got) + m
      /\ q.state = r.state /\ q.body_len = r.body_len
    <2>1. Placed(bytes, frames, off, n + m, q, d)
        BY PlacedFill, Zenon
    <2>2. q \in FrameReader
        BY PlacedFill, Zenon
    <2>3. Len(q.got) = Len(r.got) + m /\ q.state = r.state
          /\ q.body_len = r.body_len
        BY ONLY r \in FrameReader, s \in Seq(Byte), m \in 1..Len(s),
                q = Filled(r, SubSeq(s, 1, m)), FilledFields, SMTT(30)
    <2> QED
        BY <2>1, <2>2, <2>3, Zenon
<1>2. Want(q) = Want(r) /\ Len(r.got) \in Nat /\ Len(s) \in Nat
    BY <1>1, LenProperties, Zenon DEF Want, FrameReader
<1>3. Len(q.got) > 0 /\ Len(q.got) =< Want(q) /\ n + m \in Nat
    <2>1. m \in Nat /\ m >= 1
        BY <1>2, SMTT(30)
    <2> QED
        BY <1>1, <1>2, <2>1, SMTT(30)
<1> QED
    BY <1>1, <1>3, AdvancePlaced, Zenon

(* A sequence that another one continues is the beginning of it. *)
LEMMA Prefix ==
    ASSUME NEW S, NEW s \in Seq(S), NEW t \in Seq(S), Len(s) =< Len(t),
           \A k \in 1..Len(s) : t[k] = s[k]
    PROVE  SubSeq(t, 1, Len(s)) = s
<1>1. Len(s) \in Nat /\ Len(t) \in Nat /\ Len(s) \in 0..Len(t)
    BY LenProperties, SMTT(30)
<1>2. /\ SubSeq(t, 1, Len(s)) \in Seq(S) /\ Len(SubSeq(t, 1, Len(s))) = Len(s)
    BY <1>1, CutSeq, SMTT(30)
<1>3. \A i \in 1..Len(s) : SubSeq(t, 1, Len(s))[i] = s[i]
    <2>1. \A i \in 1..Len(s) : t[i] \in S
        BY <1>1, ElementOfSeq, Zenon
    <2>2. \A i \in 1..(Len(s) - 1 + 1) : SubSeq(t, 1, Len(s))[i] = t[1 + i - 1]
        BY <1>1, <2>1, SubSeqProperties, SMTT(30)
    <2> QED
        BY <1>1, <2>2, SMTT(30)
<1> QED
    BY <1>2, <1>3, SeqEqual, Zenon

-----------------------------------------------------------------------------
(* From the pane to the peer *)

(* The frames the pane sends are no shorter than the service field and no  *)
(* longer than a message.                                                  *)
GoodFrame == {f \in Frame : f.len \in ServiceBytes..MaxMessage}

(* The bytes given to the writer are its frames, and the peer's codec has  *)
(* its place in them.                                                      *)
OutboundInv ==
    /\ given \in Seq(GoodFrame) /\ channel \in Seq(GoodFrame)
    /\ \E off : /\ Layout(enqueued, given, off)
                /\ Placed(enqueued, given, off, Len(taken), peer_reader,
                          Len(received))

(* What the handlers and the other threads send is good. *)
LEMMA OutFrameGood ==
    ASSUME TypeOK, NEW via \in Paths, NEW n \in OutLengths
    PROVE  OutFrame(via, n) \in GoodFrame
<1>1. OutFrame(via, n) \in Frame
    BY OutFrameType, Zenon
<1>2. OutFrame(via, n).len = n
    BY Zenon DEF OutFrame
<1>3. n \in ServiceBytes..MaxMessage
    BY ConnectionAssumption, Zenon
<1> QED
    BY <1>1, <1>2, <1>3, Zenon DEF GoodFrame

(* Only the peer's own reads change what it has received. *)
LEMMA ReceivedActions ==
    ASSUME [Next]_vars
    PROVE  PeerRead \/ UNCHANGED <<peer_reader, received>>
<1>1. CASE Read \/ PeerSend \/ PeerWrite
    BY <1>1, Zenon DEF Read, PeerSend, PeerWrite, peer, ghosts
<1> QED
    BY <1>1, InwardActions, Zenon

(* The steps that give a frame to the writer give it a good one. *)
LEMMA PutGood ==
    ASSUME TypeOK, OutboundInv, HandlerSend \/ BeforeSleepTakes \/ Drain
    PROVE  /\ \E f \in GoodFrame : Put(f)
           /\ channel' \in Seq(GoodFrame)
           /\ UNCHANGED <<taken, peer_reader, received>>
<1>1. CASE HandlerSend
    <2>1. PICK n \in OutLengths : Put(OutFrame("direct", n))
        BY <1>1, Zenon DEF HandlerSend
    <2>2. OutFrame("direct", n) \in GoodFrame
        BY OutFrameGood, Zenon DEF Paths
    <2>3. UNCHANGED <<channel, taken, peer_reader, received>>
        BY <1>1, Zenon DEF HandlerSend, ghosts, peer
    <2> QED
        BY <2>1, <2>2, <2>3, Zenon DEF OutboundInv
<1>2. CASE BeforeSleepTakes \/ Drain
    <2>1. /\ channel # <<>> /\ Put(Head(channel)) /\ channel' = Tail(channel)
          /\ UNCHANGED <<taken, peer_reader, received>>
        BY <1>2, Zenon DEF BeforeSleepTakes, Drain, ghosts, peer
    <2>2. Head(channel) \in GoodFrame /\ Tail(channel) \in Seq(GoodFrame)
        BY <2>1, HeadTailProperties, Zenon DEF OutboundInv
    <2> QED
        BY <2>1, <2>2, Zenon
<1> QED
    BY <1>1, <1>2, Zenon

(* The bytes in the socket are those after the bytes the peer has taken. *)
LEMMA OutgoingFollows ==
    ASSUME TypeOK, BytesInOrder
    PROVE  Follow(enqueued, Len(taken), outgoing) /\ Len(taken) \in Nat
<1> DEFINE P == Pending(writer)
<1>1. taken \in Seq(Byte) /\ outgoing \in Seq(Byte) /\ P \in Seq(Byte)
    BY PendingNat, Zenon DEF TypeOK, OutwardType
<1>2. (taken \o outgoing) \o P = enqueued
    BY Zenon DEF BytesInOrder
<1> HIDE DEF P
<1> DEFINE x == taken \o outgoing
<1>3. /\ x \in Seq(Byte) /\ Len(x) = Len(taken) + Len(outgoing)
      /\ \A i \in 1..(Len(taken) + Len(outgoing)) :
            x[i] = IF i =< Len(taken) THEN taken[i] ELSE outgoing[i - Len(taken)]
    BY <1>1, ConcatProperties, Zenon
<1> HIDE DEF x
<1>4. /\ Len(enqueued) = Len(x) + Len(P)
      /\ \A i \in 1..(Len(x) + Len(P)) :
            enqueued[i] = IF i =< Len(x) THEN x[i] ELSE P[i - Len(x)]
    BY <1>1, <1>2, <1>3, ConcatProperties, SMTT(30) DEF x
<1>5. Len(taken) \in Nat /\ Len(outgoing) \in Nat /\ Len(P) \in Nat
    BY <1>1, LenProperties, Zenon
<1>6. ASSUME NEW i \in 1..Len(outgoing)
      PROVE  outgoing[i] = enqueued[Len(taken) + i]
    <2> DEFINE j == Len(taken) + i
    <2>1. /\ j \in 1..(Len(taken) + Len(outgoing)) /\ ~(j =< Len(taken))
          /\ j - Len(taken) = i /\ j \in 1..(Len(x) + Len(P)) /\ j =< Len(x)
        BY <1>3, <1>5, SMTT(30)
    <2> HIDE DEF j
    <2>2. x[j] = outgoing[i] /\ enqueued[j] = x[j]
        BY <1>3, <1>4, <2>1, Zenon
    <2> QED
        BY <2>2, Zenon DEF j
<1>7. Len(taken) + Len(outgoing) =< Len(enqueued)
    BY <1>3, <1>4, <1>5, SMTT(30)
<1> QED
    BY <1>5, <1>6, <1>7, Zenon DEF Follow

(* Frames put into the writer are sends of FrameLink. *)
LEMMA PutIsSend ==
    ASSUME TypeOK, OutboundInv, HandlerSend \/ BeforeSleepTakes \/ Drain
    PROVE  OutboundInv' /\ Outbound!Send
<1>1. PICK f \in GoodFrame : Put(f)
    BY PutGood, Zenon
<1>2. /\ channel' \in Seq(GoodFrame) /\ UNCHANGED <<taken, peer_reader, received>>
      /\ enqueued' = enqueued \o Encode(f) /\ given' = Append(given, f)
    BY <1>1, PutGood, Zenon DEF Put
<1>3. PICK off : /\ Layout(enqueued, given, off)
                 /\ Placed(enqueued, given, off, Len(taken), peer_reader,
                           Len(received))
    BY Zenon DEF OutboundInv
<1>4. /\ f \in Frame /\ given \in Seq(Frame) /\ enqueued \in Seq(Byte)
      /\ given \in Seq(GoodFrame) /\ peer_reader \in FrameReader
      /\ Len(taken) \in Nat /\ Len(received) \in Nat /\ Len(given) \in Nat
    BY LenProperties, Zenon DEF GoodFrame, TypeOK, OutwardType, InwardType, OutboundInv
<1>5. PICK o : /\ Layout(enqueued', given', o)
               /\ \A k \in 1..(Len(given) + 1) : o[k] = off[k]
    BY <1>2, <1>3, <1>4, LayoutAppend, SMTT(30)
<1>6. Encode(f) \in Seq(Byte)
    BY <1>4, EncodedByte, Zenon
<1>7. Placed(enqueued', given', o, Len(taken), peer_reader, Len(received))
    BY <1>2, <1>3, <1>4, <1>5, <1>6, PlacedGrows, Zenon
<1>8. /\ given' \in Seq(GoodFrame) /\ Len(given') = Len(given) + 1
      /\ \A k \in 1..Len(given) : given'[k] = given[k]
    BY <1>1, <1>2, <1>4, AppendProperties, SMTT(30)
<1>9. OutboundInv'
    <2>1. Placed(enqueued', given', o, Len(taken)', peer_reader', Len(received)')
        BY <1>2, <1>7, Zenon
    <2> QED
        BY <1>2, <1>5, <1>8, <2>1, Zenon DEF OutboundInv
<1>10. SubSeq(given', 1, Len(given)) = given
    BY <1>4, <1>8, Prefix, SMTT(30)
<1> QED
    BY <1>2, <1>8, <1>9, <1>10, Zenon DEF Outbound!Send

(* The peer's reads are receipts of FrameLink, or complete no frame, and   *)
(* find no length out of range.                                            *)
LEMMA PeerReadIsReceive ==
    ASSUME TypeOK, BytesInOrder, RoomToRead, OutboundInv, PeerRead
    PROVE  OutboundInv' /\ (Outbound!Receive \/ UNCHANGED <<given, received>>)
<1> DEFINE m == Least(Len(outgoing), Want(peer_reader) - Len(peer_reader.got))
           q == Filled(peer_reader, SubSeq(outgoing, 1, m))
           n == Len(taken)
           d == Len(received)
<1>1. /\ taken' = taken \o SubSeq(outgoing, 1, m) /\ peer_reader' = Advance(q)
      /\ received' = IF BodyRead(q) THEN Append(received, q.got[1].frame)
                     ELSE received
      /\ UNCHANGED <<given, enqueued, channel>>
    BY Zenon DEF PeerRead
<1>2. /\ peer_reader \in FrameReader /\ outgoing \in Seq(Byte)
      /\ Len(peer_reader.got) < Want(peer_reader) /\ outgoing # <<>>
      /\ taken \in Seq(Byte) /\ received \in Seq(Frame)
      /\ enqueued \in Seq(Byte) /\ given \in Seq(Frame)
      /\ given \in Seq(GoodFrame)
    BY Zenon DEF PeerRead, RoomToRead, TypeOK, OutwardType, InwardType, OutboundInv
<1>3. /\ m \in 1..Len(outgoing) /\ m \in Nat
      /\ m + Len(peer_reader.got) =< Want(peer_reader)
    BY <1>2, ReadCount, Zenon
<1>4. PICK off : /\ Layout(enqueued, given, off)
                 /\ Placed(enqueued, given, off, n, peer_reader, d)
    BY Zenon DEF OutboundInv
<1>5. Follow(enqueued, n, outgoing) /\ n \in Nat /\ d \in Nat
    BY <1>2, OutgoingFollows, LenProperties, Zenon
<1>6. Len(taken') = n + m
    <2>1. m \in 0..Len(outgoing)
        BY <1>3, SMTT(30)
    <2>2. /\ SubSeq(outgoing, 1, m) \in Seq(Byte)
          /\ Len(SubSeq(outgoing, 1, m)) = m
        BY <1>2, <2>1, CutSeq, Zenon
    <2> QED
        BY <1>1, <1>2, <2>2, ConcatProperties, Zenon
<1>7. q = Filled(peer_reader, SubSeq(outgoing, 1, m))
    BY Zenon
<1> HIDE DEF m, q, n, d
<1>8. ReadsNext(enqueued, given, off, n + m, q, d)
    BY <1>2, <1>3, <1>4, <1>5, <1>7, ReadPlaced, Zenon
<1>9. CASE BodyRead(q)
    <2>1. /\ d < Len(given) /\ q.got[1].frame = given[d + 1]
          /\ Placed(enqueued, given, off, n + m, Advance(q), d + 1)
        BY <1>8, <1>9, Zenon DEF ReadsNext
    <2>2. received' = Append(received, given[d + 1])
        BY <1>1, <1>9, <2>1, Zenon
    <2>3. given[d + 1] \in Frame
        <3>1. d + 1 \in 1..Len(given)
            BY <1>2, <1>5, <2>1, LenProperties, SMTT(30)
        <3> QED
            BY <1>2, <3>1, ElementOfSeq, Zenon
    <2>4. Len(received') = d + 1
        BY <1>2, <2>2, <2>3, AppendProperties, Zenon DEF d
    <2>5. OutboundInv'
        <3>1. Placed(enqueued', given', off, Len(taken'), peer_reader', Len(received'))
            BY <1>1, <1>6, <2>1, <2>4, Zenon
        <3> QED
            BY <1>1, <1>4, <3>1, Zenon DEF OutboundInv
    <2> QED
        BY <1>1, <2>1, <2>2, <2>5, Zenon DEF Outbound!Receive, d
<1>10. CASE ~BodyRead(q)
    <2>1. Placed(enqueued, given, off, n + m, Advance(q), d) /\ received' = received
        BY <1>1, <1>8, <1>10, Zenon DEF ReadsNext
    <2>2. Placed(enqueued', given', off, Len(taken'), peer_reader', Len(received'))
        BY <1>1, <1>6, <2>1, Zenon DEF d
    <2>3. OutboundInv'
        BY <1>1, <1>4, <2>2, Zenon DEF OutboundInv
    <2> QED
        BY <1>1, <2>1, <2>3, Zenon
<1> QED
    BY <1>9, <1>10, Zenon

(* One step of the connection keeps OutboundInv and is a step of FrameLink. *)
LEMMA OutboundStep ==
    ASSUME ConnectionInv, OutboundInv, [Next]_vars
    PROVE  /\ OutboundInv'
           /\ Outbound!Send \/ Outbound!Receive \/ UNCHANGED <<given, received>>
<1> USE DEF ConnectionInv
<1>1. CASE HandlerSend \/ BeforeSleepTakes \/ Drain
    BY <1>1, PutIsSend, Zenon
<1>2. CASE PeerRead
    BY <1>2, PeerReadIsReceive, Zenon
<1>3. CASE ChannelSend
    <2>1. PICK n \in OutLengths :
              channel' = Append(channel, OutFrame("channel", n))
        BY <1>3, Zenon DEF ChannelSend
    <2>2. channel' \in Seq(GoodFrame)
        BY <2>1, OutFrameGood, AppendProperties, Zenon DEF OutboundInv, Paths
    <2>3. UNCHANGED <<given, enqueued, taken, peer_reader, received>>
        BY <1>3, Zenon DEF ChannelSend, peer, ghosts
    <2> QED
        BY <2>2, <2>3, Zenon DEF OutboundInv
<1>4. CASE /\ ~HandlerSend /\ ~BeforeSleepTakes /\ ~Drain
           /\ ~PeerRead /\ ~ChannelSend
    <2>1. UNCHANGED <<given, enqueued, taken, channel>>
        BY <1>4, OutwardActions, Zenon DEF Write, outward, ghosts
    <2>2. UNCHANGED <<peer_reader, received>>
        BY <1>4, ReceivedActions, Zenon
    <2> QED
        BY <2>1, <2>2, Zenon DEF OutboundInv
<1> QED
    BY <1>1, <1>2, <1>3, <1>4, Zenon

(* No frames have no bytes. *)
LEMMA EmptyLayout == Layout(<<>>, <<>>, [k \in {1} |-> 0])
<1> DEFINE e == <<>>
           o == [k \in {1} |-> 0]
<1>1. Len(e) = 0
    BY Zenon
<1> HIDE DEF e
<1>2. 1..(Len(e) + 1) = {1} /\ 0..Len(e) = {0} /\ 1..Len(e) = {}
    BY <1>1, SMTT(30)
<1>3. o \in [{1} -> {0}] /\ o[1] = 0
    BY Zenon
<1> HIDE DEF o
<1>4. Layout(e, e, o)
    BY <1>1, <1>2, <1>3, SMTT(30) DEF Layout
<1> QED
    BY <1>4, Zenon DEF e, o

(* The place of a new reader. *)
LEMMA EmptyPlaced == Placed(<<>>, <<>>, [k \in {1} |-> 0], 0, NewReader, 0)
<1> DEFINE e == <<>>
           o == [k \in {1} |-> 0]
           r == NewReader
<1>1. Len(e) = 0 /\ o[0 + 1] = 0
    BY SMTT(30)
<1>2. r.got = e /\ r.state = "Length" /\ r.state # "Body"
    BY Zenon DEF NewReader
<1> HIDE DEF e, o, r
<1>3. /\ Len(r.got) = 0 /\ 1..Len(r.got) = {} /\ 0 =< Len(e) /\ Len(r.got) =< 0
      /\ 0 - Len(r.got) = o[0 + 1]
    <2>1. Len(r.got) = Len(e)
        BY <1>2, Zenon
    <2>2. Len(r.got) = 0
        BY <1>1, <2>1, Zenon
    <2>3. 0 =< Len(e)
        BY <1>1, SMTT(30)
    <2>4. 1..Len(r.got) = {}
        BY <2>2, SMTT(30)
    <2>5. Len(r.got) =< 0 /\ 0 - Len(r.got) = 0
        BY <2>2, SMTT(30)
    <2> QED
        BY <1>1, <2>2, <2>3, <2>4, <2>5, Zenon
<1>4. Placed(e, e, o, 0, r, 0)
    BY <1>2, <1>3, Zenon DEF Placed
<1> QED
    BY <1>4, Zenon DEF e, o, r

(* At the start no frame has been given. *)
LEMMA OutboundInit == Init => OutboundInv /\ Outbound!Init
<1> SUFFICES ASSUME Init PROVE OutboundInv /\ Outbound!Init
    BY Zenon
<1>1. /\ given = <<>> /\ channel = <<>> /\ enqueued = <<>> /\ taken = <<>>
      /\ received = <<>> /\ peer_reader = NewReader
    BY Zenon DEF Init
<1>2. /\ Layout(<<>>, <<>>, [k \in {1} |-> 0])
      /\ Placed(<<>>, <<>>, [k \in {1} |-> 0], 0, NewReader, 0)
    BY EmptyLayout, EmptyPlaced, Zenon
<1>3. <<>> \in Seq(GoodFrame)
    BY EmptySeq, Zenon
<1>4. Len(taken) = 0 /\ Len(received) = 0
    BY <1>1, Zenon
<1> QED
    BY <1>1, <1>2, <1>3, <1>4, Zenon DEF OutboundInv, Outbound!Init

(* The frames the peer decodes are those given to the writer: the writer,  *)
(* the socket and the peer's codec implement FrameLink, for every size of  *)
(* the frames, the channel and the socket buffer (try_flush, read_frame).  *)
THEOREM OutboundCorrect == Spec => OutboundLink
<1>1. Init => OutboundInv /\ Outbound!Init
    BY OutboundInit, Zenon
<1>2. /\ ConnectionInv /\ OutboundInv /\ [Next]_vars
      => OutboundInv' /\ [Outbound!Send \/ Outbound!Receive]_<<given, received>>
    BY OutboundStep, Zenon
<1>3. Spec => []ConnectionInv
    BY ConnectionCorrect, Zenon
<1> QED
    BY <1>1, <1>2, <1>3, PTL DEF Spec, OutboundLink, Outbound!Spec

-----------------------------------------------------------------------------
(* From the peer to the pane *)

(* The bytes of the peer's frames, those it has yet to write included, and *)
(* how many of them the source has read.                                   *)
Stream == peer_sent \o peer_out
Consumed == Len(peer_sent) - Len(incoming)

(* The peer's bytes are its frames, the socket holds the last of those it  *)
(* has written, and the source's reader has its place in them.             *)
InboundInv ==
    /\ Consumed \in Nat /\ Follow(peer_sent, Consumed, incoming)
    /\ peer_out # <<>> => Len(wrote) > 0
    /\ \E off : /\ Layout(Stream, wrote, off)
                /\ source = "active" =>
                      Placed(Stream, wrote, off, Consumed, reader,
                             Len(delivered))

(* The two parts of the stream. *)
LEMMA StreamIs ==
    ASSUME TypeOK
    PROVE  /\ Stream \in Seq(Byte) /\ Len(peer_sent) \in Nat
           /\ Len(peer_out) \in Nat
           /\ Len(Stream) = Len(peer_sent) + Len(peer_out)
           /\ \A i \in 1..Len(peer_sent) : Stream[i] = peer_sent[i]
<1>1. peer_sent \in Seq(Byte) /\ peer_out \in Seq(Byte)
    BY Zenon DEF TypeOK, InwardType
<1>2. Len(peer_sent) \in Nat /\ Len(peer_out) \in Nat
    BY <1>1, LenProperties, Zenon
<1>3. /\ Stream \in Seq(Byte) /\ Len(Stream) = Len(peer_sent) + Len(peer_out)
      /\ \A i \in 1..(Len(peer_sent) + Len(peer_out)) :
            Stream[i] = IF i =< Len(peer_sent) THEN peer_sent[i]
                        ELSE peer_out[i - Len(peer_sent)]
    BY <1>1, ConcatProperties, Zenon DEF Stream
<1>4. \A i \in 1..Len(peer_sent) :
          i \in 1..(Len(peer_sent) + Len(peer_out)) /\ i =< Len(peer_sent)
    BY <1>2, SMTT(30)
<1> QED
    BY <1>1, <1>2, <1>3, <1>4, Zenon

(* The frames the peer has written to their last byte. *)
LEMMA WrittenIs ==
    ASSUME TypeOK, peer_out # <<>> => Len(wrote) > 0
    PROVE  /\ Written \in Seq(Frame) /\ Len(wrote) \in Nat
           /\ Len(Written) = IF peer_out = <<>> THEN Len(wrote) ELSE Len(wrote) - 1
           /\ \A k \in 1..Len(Written) : Written[k] = wrote[k]
<1> DEFINE w == IF peer_out = <<>> THEN Len(wrote) ELSE Len(wrote) - 1
<1>1. wrote \in Seq(Frame) /\ Len(wrote) \in Nat /\ w \in 0..Len(wrote)
    BY LenProperties, SMTT(30) DEF TypeOK, InwardType
<1>2. Written = SubSeq(wrote, 1, w)
    BY <1>1, SMTT(30) DEF Written
<1> HIDE DEF w
<1> QED
    BY <1>1, <1>2, CutSeq, SMTT(30) DEF w

(* What follows in the bytes the peer has written follows in its stream. *)
LEMMA FollowStream ==
    ASSUME TypeOK, NEW n \in Nat, NEW s \in Seq(Byte), Follow(peer_sent, n, s)
    PROVE  Follow(Stream, n, s)
<1>1. Len(s) \in Nat /\ n + Len(s) =< Len(peer_sent)
    BY LenProperties, Zenon DEF Follow
<1>2. n + Len(s) =< Len(Stream)
    BY <1>1, StreamIs, SMTT(30)
<1>3. \A i \in 1..Len(s) : n + i \in 1..Len(peer_sent)
    BY <1>1, StreamIs, SMTT(30)
<1>4. \A i \in 1..Len(s) : s[i] = Stream[n + i]
    BY <1>3, StreamIs, Zenon DEF Follow
<1> QED
    BY <1>2, <1>4, Zenon DEF Follow

(* What is left of the bytes that follow, after m of them. *)
LEMMA FollowDrop ==
    ASSUME NEW bytes \in Seq(Byte), NEW n \in Nat, NEW s \in Seq(Byte),
           Follow(bytes, n, s), NEW m \in 1..Len(s)
    PROVE  /\ Follow(bytes, n + m, SubSeq(s, m + 1, Len(s)))
           /\ Len(SubSeq(s, m + 1, Len(s))) = Len(s) - m
<1> DEFINE t == SubSeq(s, m + 1, Len(s))
<1>1. Len(s) \in Nat /\ m \in Nat /\ m =< Len(s) /\ m \in 0..Len(s)
      /\ Len(bytes) \in Nat /\ n + Len(s) =< Len(bytes)
    BY LenProperties, SMTT(30) DEF Follow
<1>2. Len(t) = Len(s) - m /\ \A i \in 1..(Len(s) - m) : t[i] = s[m + i]
    BY <1>1, Drop, Zenon
<1> HIDE DEF t
<1>3. ASSUME NEW i \in 1..(Len(s) - m)
      PROVE  t[i] = bytes[n + m + i]
    <2>1. m + i \in 1..Len(s) /\ n + (m + i) = n + m + i
        BY <1>1, SMTT(30)
    <2>2. s[m + i] = bytes[n + (m + i)]
        BY <2>1, Zenon DEF Follow
    <2> QED
        BY <1>2, <2>1, <2>2, Zenon
<1>4. n + m + Len(t) =< Len(bytes)
    BY <1>1, <1>2, SMTT(30)
<1>5. Follow(bytes, n + m, t)
    BY <1>2, <1>3, <1>4, Zenon DEF Follow
<1> QED
    BY <1>2, <1>5, Zenon DEF t

(* A frame whose last byte has been read was written to its last byte. *)
LEMMA DeliveredWritten ==
    ASSUME TypeOK, peer_out # <<>> => Len(wrote) > 0,
           NEW off, Layout(Stream, wrote, off), NEW d \in Nat,
           d < Len(wrote), off[d + 2] =< Len(peer_sent)
    PROVE  d < Len(Written) /\ Written[d + 1] = wrote[d + 1]
<1>1. /\ Len(wrote) \in Nat /\ Len(peer_sent) \in Nat /\ Len(peer_out) \in Nat
      /\ Len(Written) = (IF peer_out = <<>> THEN Len(wrote) ELSE Len(wrote) - 1)
      /\ \A k \in 1..Len(Written) : Written[k] = wrote[k]
    BY WrittenIs, StreamIs, Zenon
<1>2. CASE peer_out = <<>>
    BY <1>1, <1>2, SMTT(30)
<1>3. CASE peer_out # <<>>
    <2>1. Len(peer_out) > 0
        BY <1>1, <1>3, EmptySeq, SMTT(30) DEF TypeOK, InwardType
    <2>2. d + 1 # Len(wrote)
        <3> SUFFICES ASSUME d + 1 = Len(wrote) PROVE FALSE
            BY Zenon
        <3>1. d + 2 = Len(wrote) + 1
            BY <1>1, SMTT(30)
        <3>2. off[d + 2] = Len(peer_sent) + Len(peer_out)
            BY <3>1, StreamIs, Zenon DEF Layout
        <3> QED
            BY <1>1, <2>1, <3>2, SMTT(30)
    <2>3. d < Len(Written)
        BY <1>1, <1>3, <2>2, SMTT(30)
    <2>4. d + 1 \in 1..Len(Written)
        BY <1>1, <1>3, <2>3, SMTT(30)
    <2> QED
        BY <1>1, <2>3, <2>4, Zenon
<1> QED
    BY <1>2, <1>3, Zenon

(* A read of the source is a receipt of FrameLink, or completes no frame,  *)
(* or finds a cause to remove the source.                                  *)
LEMMA ReadIsReceive ==
    ASSUME TypeOK, RoomToRead, InProcess, InboundInv, Read
    PROVE  /\ InboundInv' /\ RemovalHasCause'
           /\ Inbound!Receive \/ UNCHANGED <<Written, delivered>>
<1> DEFINE m == Least(Len(incoming), Want(reader) - Len(reader.got))
           q == Filled(reader, SubSeq(incoming, 1, m))
           n == Consumed
           d == Len(delivered)
<1>1. /\ incoming' = SubSeq(incoming, m + 1, Len(incoming))
      /\ reader' = Advance(q)
      /\ delivered' = IF BodyRead(q) /\ ~Fatal(q)
                      THEN Append(delivered, q.got[1].frame) ELSE delivered
      /\ ~Fatal(q) => source' = source
      /\ UNCHANGED <<peer_sent, peer_out, wrote>>
    BY Zenon DEF Read, Remove, peer, ghosts
<1>2. /\ reader \in FrameReader /\ incoming \in Seq(Byte)
      /\ Len(reader.got) < Want(reader) /\ incoming # <<>> /\ source = "active"
      /\ delivered \in Seq(Frame) /\ wrote \in Seq(Frame)
      /\ peer_sent \in Seq(Byte) /\ Stream \in Seq(Byte)
    BY StreamIs, Zenon DEF Read, RoomToRead, InProcess, TypeOK, InwardType
<1>3. /\ m \in 1..Len(incoming) /\ m \in Nat
      /\ m + Len(reader.got) =< Want(reader)
    BY <1>2, ReadCount, Zenon
<1>4. PICK off : /\ Layout(Stream, wrote, off)
                 /\ Placed(Stream, wrote, off, n, reader, d)
    BY <1>2, Zenon DEF InboundInv
<1>5. /\ n \in Nat /\ d \in Nat /\ Follow(peer_sent, n, incoming)
      /\ peer_out # <<>> => Len(wrote) > 0
    BY <1>2, LenProperties, Zenon DEF InboundInv
<1>6. Follow(Stream, n, incoming)
    BY <1>2, <1>5, FollowStream, Zenon
<1>7. q = Filled(reader, SubSeq(incoming, 1, m)) /\ n = Consumed
    BY Zenon
<1> HIDE DEF m, q, n, d
<1>8. ReadsNext(Stream, wrote, off, n + m, q, d)
    BY <1>2, <1>3, <1>4, <1>5, <1>6, <1>7, ReadPlaced, Zenon
<1>9. /\ Follow(peer_sent, n + m, incoming') /\ n + m =< Len(peer_sent)
      /\ Consumed' = n + m /\ Stream' = Stream
    <2>1. /\ Follow(peer_sent, n + m, incoming')
          /\ Len(incoming') = Len(incoming) - m
        BY <1>1, <1>2, <1>3, <1>5, FollowDrop, SMTT(30)
    <2>2. Stream' = Stream /\ Consumed' = Len(peer_sent) - Len(incoming')
        BY <1>1, Zenon DEF Stream, Consumed
    <2>3. n = Len(peer_sent) - Len(incoming)
        BY <1>7, Zenon DEF Consumed
    <2>4. /\ Len(incoming) \in Nat /\ Len(peer_sent) \in Nat /\ m =< Len(incoming)
          /\ m \in Nat /\ n \in Nat
        BY <1>2, <1>3, <1>5, LenProperties, SMTT(30)
    <2>5. Consumed' = n + m
        BY <2>1, <2>2, <2>3, <2>4, SMTT(30)
    <2>6. n + m =< Len(peer_sent)
        BY <2>3, <2>4, SMTT(30)
    <2> QED
        BY <2>1, <2>2, <2>5, <2>6, Zenon
<1>10. CASE Fatal(q)
    <2>1. HeaderRead(q) \/ BodyRead(q)
        BY <1>10, Zenon DEF Fatal
    <2>2. n + m \in 1..Len(peer_sent) /\ peer_sent[n + m].frame = wrote[d + 1]
        <3>1. n + m \in 1..Len(Stream) /\ Stream[n + m].frame = wrote[d + 1]
            BY <1>8, <2>1, Zenon DEF ReadsNext
        <3>2. n + m \in 1..Len(peer_sent)
            BY <1>9, <3>1, StreamIs, SMTT(30)
        <3> QED
            BY <3>1, <3>2, StreamIs, Zenon
    <2>3. EndsConnection(wrote[d + 1])
        BY <1>8, <1>10, Zenon DEF Fatal, LengthError, ReadsNext, EndsConnection
    <2>4. DOMAIN peer_sent = 1..Len(peer_sent)
        BY <1>2, LenProperties, Zenon
    <2>5. RemovalHasCause'
        BY <1>1, <2>2, <2>3, <2>4, Zenon DEF RemovalHasCause
    <2>6. source' # "active"
        BY <1>10, <1>7, Zenon DEF Read, Remove, m, q
    <2>7. n + m \in Nat
        BY <1>3, <1>5, SMTT(30)
    <2>8. InboundInv'
        BY <1>1, <1>4, <1>5, <1>9, <2>6, <2>7, Zenon DEF InboundInv
    <2>9. UNCHANGED <<Written, delivered>>
        BY <1>1, <1>10, Zenon DEF Written
    <2> QED
        BY <2>5, <2>8, <2>9, Zenon
<1>11. CASE ~Fatal(q)
    <2>1. source' = "active" /\ n + m \in Nat /\ Written' = Written
        BY <1>1, <1>2, <1>3, <1>5, <1>11, SMTT(30) DEF Written
    <2>2. RemovalHasCause'
        BY <2>1, Zenon DEF RemovalHasCause
    <2>3. CASE BodyRead(q)
        <3>1. /\ d < Len(wrote) /\ q.got[1].frame = wrote[d + 1]
              /\ n + m = off[d + 2]
              /\ Placed(Stream, wrote, off, n + m, Advance(q), d + 1)
            BY <1>8, <2>3, Zenon DEF ReadsNext
        <3>2. d < Len(Written) /\ Written[d + 1] = wrote[d + 1]
            BY <1>4, <1>5, <1>9, <3>1, DeliveredWritten, Zenon
        <3>3. delivered' = Append(delivered, wrote[d + 1])
            BY <1>1, <1>11, <2>3, <3>1, Zenon
        <3>4. wrote[d + 1] \in Frame
            <4>1. d + 1 \in 1..Len(wrote)
                BY <1>2, <1>5, <3>1, LenProperties, SMTT(30)
            <4> QED
                BY <1>2, <4>1, ElementOfSeq, ZenonT(30)
        <3>5. Len(delivered') = d + 1
            BY <1>2, <3>3, <3>4, AppendProperties, Zenon DEF d
        <3>6. Placed(Stream', wrote', off, Consumed', reader', Len(delivered'))
            BY <1>1, <1>9, <3>1, <3>5, Zenon
        <3>7. InboundInv'
            BY <1>1, <1>4, <1>5, <1>9, <2>1, <3>6, Zenon DEF InboundInv
        <3>8. Inbound!Receive
            BY <2>1, <3>2, <3>3, Zenon DEF Inbound!Receive, d
        <3> QED
            BY <2>2, <3>7, <3>8, Zenon
    <2>4. CASE ~BodyRead(q)
        <3>1. /\ Placed(Stream, wrote, off, n + m, Advance(q), d)
              /\ delivered' = delivered
            BY <1>1, <1>8, <2>4, Zenon DEF ReadsNext
        <3>2. Placed(Stream', wrote', off, Consumed', reader', Len(delivered'))
            BY <1>1, <1>9, <3>1, Zenon DEF d
        <3>3. InboundInv'
            BY <1>1, <1>4, <1>5, <1>9, <2>1, <3>2, Zenon DEF InboundInv
        <3> QED
            BY <2>1, <2>2, <3>1, <3>3, Zenon
    <2> QED
        BY <2>3, <2>4, Zenon
<1> QED
    BY <1>10, <1>11, Zenon

(* What is written at the end follows. *)
LEMMA FollowAppend ==
    ASSUME NEW bytes \in Seq(Byte), NEW n \in Nat, NEW s \in Seq(Byte),
           NEW t \in Seq(Byte), Follow(bytes, n, s), n = Len(bytes) - Len(s)
    PROVE  /\ Follow(bytes \o t, n, s \o t)
           /\ Len(bytes \o t) - Len(s \o t) = n
<1> DEFINE b == bytes \o t
           r == s \o t
           x == Len(bytes)
           y == Len(s)
           z == Len(t)
<1>1. /\ Len(b) = x + z /\ Len(r) = y + z
      /\ \A i \in 1..(x + z) : b[i] = IF i =< x THEN bytes[i] ELSE t[i - x]
      /\ \A i \in 1..(y + z) : r[i] = IF i =< y THEN s[i] ELSE t[i - y]
    BY ConcatProperties, Zenon
<1>2. x \in Nat /\ y \in Nat /\ z \in Nat /\ n = x - y
    BY LenProperties, Zenon
<1>3. \A i \in 1..y : s[i] = bytes[n + i]
    BY Zenon DEF Follow
<1> HIDE DEF b, r, x, y, z
<1>4. ASSUME NEW i \in 1..(y + z)
      PROVE  r[i] = b[n + i]
    <2>1. n + i \in 1..(x + z)
        BY <1>2, SMTT(30)
    <2>2. CASE i =< y
        <3>1. i \in 1..y /\ n + i =< x
            BY <1>2, <2>2, SMTT(30)
        <3> QED
            BY <1>1, <1>3, <2>1, <2>2, <3>1, Zenon
    <2>3. CASE ~(i =< y)
        <3>1. ~(n + i =< x) /\ (n + i) - x = i - y
            BY <1>2, <2>3, SMTT(30)
        <3>2. r[i] = t[i - y]
            BY <1>1, <2>3, Zenon
        <3>3. b[n + i] = t[(n + i) - x]
            <4> DEFINE j == n + i
            <4>1. j \in 1..(x + z) /\ ~(j =< x)
                BY <2>1, <3>1, Zenon
            <4> HIDE DEF j
            <4>2. b[j] = IF j =< x THEN bytes[j] ELSE t[j - x]
                BY <1>1, <4>1, Zenon
            <4>3. b[j] = t[j - x]
                BY <4>1, <4>2, Zenon
            <4> QED
                BY <4>3, Zenon DEF j
        <3> QED
            BY <3>1, <3>2, <3>3, Zenon
    <2> QED
        BY <2>2, <2>3, Zenon
<1>5. n + Len(r) =< Len(b) /\ Len(b) - Len(r) = n
    BY <1>1, <1>2, SMTT(30)
<1>6. Follow(b, n, r)
    BY <1>1, <1>4, <1>5, Zenon DEF Follow
<1> QED
    BY <1>5, <1>6, Zenon DEF b, r

(* The peer writes some of the bytes of its frame: the stream is the same, *)
(* and with the last byte the frame is sent.                               *)
LEMMA PeerWriteIsSend ==
    ASSUME TypeOK, InboundInv, PeerWrite
    PROVE  /\ InboundInv'
           /\ Inbound!Send \/ UNCHANGED <<Written, delivered>>
<1>1. PICK n \in 1..Len(peer_out) :
          /\ incoming' = incoming \o SubSeq(peer_out, 1, n)
          /\ peer_sent' = peer_sent \o SubSeq(peer_out, 1, n)
          /\ peer_out' = SubSeq(peer_out, n + 1, Len(peer_out))
    BY Zenon DEF PeerWrite
<1> DEFINE t == SubSeq(peer_out, 1, n)
           u == SubSeq(peer_out, n + 1, Len(peer_out))
<1>2. UNCHANGED <<source, reader, delivered, wrote>>
    BY Zenon DEF PeerWrite
<1>3. /\ peer_sent \in Seq(Byte) /\ incoming \in Seq(Byte)
      /\ peer_out \in Seq(Byte) /\ wrote \in Seq(Frame)
      /\ Len(peer_out) \in Nat /\ n \in 0..Len(peer_out) /\ Len(wrote) \in Nat
    BY LenProperties, SMTT(30) DEF TypeOK, InwardType
<1>4. /\ t \in Seq(Byte) /\ u \in Seq(Byte) /\ t \o u = peer_out
      /\ Len(u) = Len(peer_out) - n
    BY <1>3, CutSeq, Zenon
<1> HIDE DEF t, u
<1>5. Stream' = Stream
    <2>1. Stream' = (peer_sent \o t) \o u
        BY <1>1, Zenon DEF Stream, t, u
    <2>2. peer_sent \in Seq(Byte) /\ t \in Seq(Byte) /\ u \in Seq(Byte)
        BY <1>3, <1>4, Zenon
    <2>3. (peer_sent \o t) \o u = peer_sent \o (t \o u)
        BY ONLY <2>2, Bracket, Zenon
    <2> QED
        BY <1>4, <2>1, <2>3, Zenon DEF Stream
<1>6. Consumed \in Nat /\ Follow(peer_sent, Consumed, incoming)
    BY Zenon DEF InboundInv
<1>7. Consumed' = Consumed /\ Follow(peer_sent', Consumed, incoming')
    <2> DEFINE c == Consumed
    <2>1. c = Len(peer_sent) - Len(incoming)
        BY Zenon DEF Consumed
    <2>2. Consumed' = Len(peer_sent') - Len(incoming')
        BY Zenon DEF Consumed
    <2>3. peer_sent' = peer_sent \o t /\ incoming' = incoming \o t
        BY <1>1, Zenon DEF t
    <2>4. c \in Nat /\ Follow(peer_sent, c, incoming)
        BY <1>6, Zenon
    <2> HIDE DEF c
    <2>5. /\ Follow(peer_sent \o t, c, incoming \o t)
          /\ Len(peer_sent \o t) - Len(incoming \o t) = c
        BY <1>3, <1>4, <2>1, <2>4, FollowAppend, SMTT(30)
    <2> QED
        BY <2>2, <2>3, <2>5, Zenon DEF c
<1>8. peer_out # <<>> /\ Len(wrote) > 0
    <2>1. peer_out # <<>>
        BY <1>3, EmptySeq, SMTT(30)
    <2> QED
        BY <2>1, Zenon DEF InboundInv
<1>9. InboundInv'
    <2>1. \E off : /\ Layout(Stream', wrote', off)
                   /\ source' = "active" =>
                         Placed(Stream', wrote', off, Consumed', reader',
                                Len(delivered'))
        BY <1>2, <1>5, <1>7, Zenon DEF InboundInv
    <2>2. Len(wrote') > 0
        BY <1>2, <1>8, Zenon
    <2> QED
        BY <1>6, <1>7, <2>1, <2>2, Zenon DEF InboundInv
<1>10. CASE u = <<>>
    <2>1. /\ Written = SubSeq(wrote, 1, Len(wrote) - 1)
          /\ Written' = SubSeq(wrote, 1, Len(wrote))
        BY <1>1, <1>2, <1>3, <1>8, <1>10, SMTT(30) DEF Written, u
    <2>2. Written' = wrote
        <3>1. Len(wrote) \in 0..Len(wrote)
            BY <1>3, SMTT(30)
        <3> QED
            BY <1>3, <2>1, Prefix, SMTT(30)
    <2>3. Len(wrote) - 1 \in 0..Len(wrote)
        BY <1>3, <1>8, SMTT(30)
    <2>4. Len(Written) = Len(wrote) - 1
        BY <1>3, <2>1, <2>3, CutSeq, Zenon
    <2>5. Len(Written') = Len(Written) + 1
        BY <1>3, <2>2, <2>4, SMTT(30)
    <2>6. SubSeq(Written', 1, Len(Written)) = Written
        BY <2>1, <2>2, <2>4, Zenon
    <2> QED
        BY <1>2, <1>9, <2>5, <2>6, Zenon DEF Inbound!Send
<1>11. CASE u # <<>>
    <2>1. Written' = Written
        BY <1>1, <1>2, <1>8, <1>11, Zenon DEF Written, u
    <2> QED
        BY <1>2, <1>9, <2>1, Zenon
<1> QED
    BY <1>10, <1>11, Zenon

(* The peer begins to write a frame: the stream grows, and no more frames  *)
(* are complete than before.                                               *)
LEMMA PeerSendKeeps ==
    ASSUME TypeOK, InboundInv, PeerSend
    PROVE  InboundInv' /\ UNCHANGED <<Written, delivered>>
<1>1. PICK f : f \in Frame /\ peer_out' = Encode(f) /\ wrote' = Append(wrote, f)
    <2>1. PICK k \in PeerFrames :
              LET g == [id |-> ins + 1, via |-> "peer", kind |-> k[1],
                        len |-> k[2]]
              IN  peer_out' = Encode(g) /\ wrote' = Append(wrote, g)
        BY Zenon DEF PeerSend
    <2>2. k[1] \in FrameKinds /\ k[2] \in Nat /\ ins + 1 \in Nat
        BY ConnectionAssumption, SMTT(30) DEF TypeOK, InwardType
    <2>3. [id |-> ins + 1, via |-> "peer", kind |-> k[1], len |-> k[2]] \in Frame
        BY <2>2, Zenon DEF Frame, Paths
    <2> QED
        BY <2>1, <2>3, Zenon
<1>2. /\ UNCHANGED <<incoming, reader, delivered, peer_sent, source>>
      /\ peer_out = <<>>
    BY Zenon DEF PeerSend, inward, ghosts
<1>3. /\ peer_sent \in Seq(Byte) /\ wrote \in Seq(Frame) /\ Stream \in Seq(Byte)
      /\ Len(wrote) \in Nat /\ Len(delivered) \in Nat /\ reader \in FrameReader
      /\ Consumed \in Nat
    BY StreamIs, LenProperties, Zenon DEF TypeOK, InwardType, InboundInv
<1>4. Encode(f) \in Seq(Byte) /\ Encode(f) # <<>>
    <2>1. Encode(f) \in Seq(Byte) /\ Len(Encode(f)) = Size(f)
        BY <1>1, EncodedByte, Zenon
    <2>2. Size(f) > 0
        BY <1>1, CodecAssumption, SMTT(30) DEF Size, Frame
    <2> QED
        BY <2>1, <2>2, EmptySeq, SMTT(30)
<1>5. Stream = peer_sent /\ Stream' = Stream \o Encode(f)
    <2>1. peer_sent \o <<>> = peer_sent
        BY <1>3, ConcatEmptySeq, Zenon
    <2> QED
        BY <1>1, <1>2, <2>1, Zenon DEF Stream
<1>6. /\ wrote' \in Seq(Frame) /\ Len(wrote') = Len(wrote) + 1
      /\ \A k \in 1..Len(wrote) : wrote'[k] = wrote[k]
    BY <1>1, <1>3, AppendProperties, SMTT(30)
<1>7. PICK off : /\ Layout(Stream, wrote, off)
                 /\ source = "active" =>
                       Placed(Stream, wrote, off, Consumed, reader,
                              Len(delivered))
    BY Zenon DEF InboundInv
<1>8. PICK o : /\ Layout(Stream \o Encode(f), Append(wrote, f), o)
               /\ \A k \in 1..(Len(wrote) + 1) : o[k] = off[k]
    BY <1>1, <1>3, <1>7, LayoutAppend, SMTT(30)
<1>9. source = "active" =>
          Placed(Stream \o Encode(f), Append(wrote, f), o, Consumed, reader,
                 Len(delivered))
    BY <1>1, <1>3, <1>4, <1>7, <1>8, PlacedGrows, Zenon
<1>10. Consumed' = Consumed /\ UNCHANGED <<peer_sent, incoming>>
    BY <1>2, Zenon DEF Consumed
<1>11. InboundInv'
    <2>1. Len(wrote') > 0
        BY <1>3, <1>6, SMTT(30)
    <2>2. /\ Layout(Stream', wrote', o)
          /\ source' = "active" =>
                Placed(Stream', wrote', o, Consumed', reader', Len(delivered'))
        BY <1>1, <1>2, <1>5, <1>8, <1>9, <1>10, Zenon
    <2>3. Consumed' \in Nat /\ Follow(peer_sent', Consumed', incoming')
        BY <1>10, Zenon DEF InboundInv
    <2> QED
        BY <2>1, <2>2, <2>3, Zenon DEF InboundInv
<1>12. Written' = Written
    <2>1. Written = SubSeq(wrote, 1, Len(wrote)) /\ peer_out' # <<>>
        BY <1>1, <1>2, <1>3, <1>4, SMTT(30) DEF Written
    <2>2. Written' = SubSeq(wrote', 1, Len(wrote))
        <3>1. Len(wrote') - 1 = Len(wrote)
            BY <1>3, <1>6, SMTT(30)
        <3> QED
            BY <2>1, <3>1, Zenon DEF Written
    <2>3. SubSeq(wrote, 1, Len(wrote)) = wrote
        BY <1>3, Prefix, SMTT(30)
    <2>4. SubSeq(wrote', 1, Len(wrote)) = wrote
        BY <1>3, <1>6, Prefix, SMTT(30)
    <2> QED
        BY <2>1, <2>2, <2>3, <2>4, Zenon
<1> QED
    BY <1>2, <1>11, <1>12, Zenon

(* The steps that leave the bytes from the peer alone remove the source    *)
(* only when the peer's end is closed.                                     *)
LEMMA RemovalActions ==
    ASSUME [Next]_vars
    PROVE  \/ Read \/ PeerWrite
           \/ /\ UNCHANGED peer_sent
              /\ \/ source' = source /\ (peer_open' = TRUE => peer_open = TRUE)
                 \/ peer_open' = peer_open /\ ~peer_open
<1>1. CASE Dispatch
    BY <1>1, Zenon DEF Dispatch, BeforeSleepTakes, BeforeSleep, PollOthers, Wake,
        DispatchReturns, ProcessEvents, Drain, DrainDone, ReadDone, ReadEof,
        Write, FlushDone, FlushBlocked, FlushFails, BatchDone, Finish, Remove,
        ghosts, peer
<1>2. CASE WakeOther \/ PeerClose \/ HandlerSend \/ ChannelSend
    BY <1>2, Zenon DEF WakeOther, PeerClose, HandlerSend, ChannelSend, ghosts, peer
<1>3. CASE PeerSend \/ PeerRead
    BY <1>3, Zenon DEF PeerSend, PeerRead, ghosts
<1>4. CASE UNCHANGED vars
    BY <1>4, Zenon DEF vars, ghosts, peer
<1> QED
    BY <1>1, <1>2, <1>3, <1>4, Zenon DEF Next

(* One step of the connection keeps InboundInv, is a step of FrameLink, and *)
(* removes the source only for a cause.                                     *)
LEMMA InboundStep ==
    ASSUME ConnectionInv, InboundInv, RemovalHasCause, [Next]_vars
    PROVE  /\ InboundInv' /\ RemovalHasCause'
           /\ \/ Inbound!Send \/ Inbound!Receive
              \/ UNCHANGED <<Written, delivered>>
<1> USE DEF ConnectionInv
<1>1. CASE Read
    BY <1>1, ReadIsReceive, Zenon
<1>2. CASE PeerWrite
    <2>1. RemovalHasCause'
        BY <1>2, Zenon DEF PeerWrite, RemovalHasCause
    <2> QED
        BY <1>2, <2>1, PeerWriteIsSend, Zenon
<1>3. CASE ~Read /\ ~PeerWrite
    <2>1. RemovalHasCause'
        <3>1. CASE source' = source /\ (peer_open' = TRUE => peer_open = TRUE)
            <4>1. peer_open' \in BOOLEAN
                BY LooperStep, Zenon DEF LooperType
            <4>2. UNCHANGED peer_sent
                BY <1>3, RemovalActions, Zenon
            <4> QED
                BY <3>1, <4>1, <4>2, Zenon DEF RemovalHasCause
        <3>2. CASE peer_open' = peer_open /\ ~peer_open
            BY <3>2, Zenon DEF RemovalHasCause
        <3> QED
            BY <1>3, <3>1, <3>2, RemovalActions, Zenon
    <2>2. CASE PeerSend
        BY <2>1, <2>2, PeerSendKeeps, Zenon
    <2>3. CASE ~PeerSend
        <3>1. /\ UNCHANGED <<incoming, reader, delivered, peer_sent, peer_out,
                             wrote>>
              /\ source' = "active" => source = "active"
            BY <1>3, <2>3, InwardActions, Zenon DEF PeerRead, inward
        <3>2. UNCHANGED <<Stream, Consumed, Written, delivered>>
            BY <3>1, Zenon DEF Stream, Consumed, Written
        <3>3. InboundInv'
            BY <3>1, <3>2, Zenon DEF InboundInv
        <3> QED
            BY <2>1, <3>2, <3>3, Zenon
    <2> QED
        BY <2>2, <2>3, Zenon
<1> QED
    BY <1>1, <1>2, <1>3, Zenon

(* At the start the peer has written nothing. *)
LEMMA InboundInit == Init => InboundInv /\ RemovalHasCause /\ Inbound!Init
<1> SUFFICES ASSUME Init PROVE InboundInv /\ RemovalHasCause /\ Inbound!Init
    BY Zenon
<1>1. /\ peer_sent = <<>> /\ peer_out = <<>> /\ wrote = <<>> /\ incoming = <<>>
      /\ delivered = <<>> /\ reader = NewReader /\ source = "active"
    BY Zenon DEF Init
<1>2. /\ Layout(<<>>, <<>>, [k \in {1} |-> 0])
      /\ Placed(<<>>, <<>>, [k \in {1} |-> 0], 0, NewReader, 0)
    BY EmptyLayout, EmptyPlaced, Zenon
<1>3. Stream = <<>> /\ Consumed = 0 /\ Len(delivered) = 0 /\ Written = <<>>
    BY <1>1, SMTT(30) DEF Stream, Consumed, Written
<1>4. Follow(peer_sent, 0, incoming)
    BY <1>1, SMTT(30) DEF Follow
<1>5. InboundInv
    BY <1>1, <1>2, <1>3, <1>4, Zenon DEF InboundInv
<1> QED
    BY <1>1, <1>3, <1>5, Zenon DEF RemovalHasCause, Inbound!Init

(* The inductive invariant of the direction from the peer. *)
THEOREM InboundInvariant == Spec => [](InboundInv /\ RemovalHasCause)
<1>1. Init => InboundInv /\ RemovalHasCause
    BY InboundInit, Zenon
<1>2. /\ ConnectionInv /\ InboundInv /\ RemovalHasCause /\ [Next]_vars
      => InboundInv' /\ RemovalHasCause'
    BY InboundStep, Zenon
<1>3. Spec => []ConnectionInv
    BY ConnectionCorrect, Zenon
<1> QED
    BY <1>1, <1>2, <1>3, PTL DEF Spec

(* The frames process_events hands to the looper are those the peer wrote  *)
(* to their last byte, in order, for every size of the frames and however  *)
(* reads and writes cut them up: the direction from the peer implements    *)
(* FrameLink.                                                              *)
THEOREM InboundCorrect == Spec => InboundLink
<1>1. Init => Inbound!Init
    BY InboundInit, Zenon
<1>2. /\ ConnectionInv /\ InboundInv /\ RemovalHasCause /\ [Next]_vars
      => [Inbound!Send \/ Inbound!Receive]_<<Written, delivered>>
    BY InboundStep, Zenon
<1>3. Spec => []ConnectionInv
    BY ConnectionCorrect, Zenon
<1>4. Spec => [](InboundInv /\ RemovalHasCause)
    BY InboundInvariant, Zenon
<1> QED
    BY <1>1, <1>2, <1>3, <1>4, PTL DEF Spec, InboundLink, Inbound!Spec

(* The source is removed only after the peer has closed or written a frame *)
(* that ends the connection: process_events never loses its place in good  *)
(* frames.                                                                 *)
THEOREM RemovalCorrect == Spec => []RemovalHasCause
BY InboundInvariant, PTL
=============================================================================
