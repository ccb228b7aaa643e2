----------------------------- MODULE FrameCodec -----------------------------
(***************************************************************************)
(* The frame codec of pane-session (frame.rs) as operators on records: the *)
(* incremental FrameReader, the contiguous FrameWriter, and the blocking   *)
(* read_frame of FrameCodec, which makes the same transitions.             *)
(*                                                                         *)
(* A byte is the place it has in a frame, so a reader that loses its place *)
(* sees bytes that do not belong together.  A frame on the wire is         *)
(* PrefixBytes of length, ServiceBytes of service and the payload; len is  *)
(* the number the length prefix declares.  id and via (the path the frame  *)
(* took into the stream) are ghosts that tell frames apart.                *)
(***************************************************************************)
EXTENDS Naturals, Sequences

CONSTANTS
    PrefixBytes,   \* 4: size of the length prefix
    ServiceBytes,  \* 2: size of the service field, the least legal length
    MaxMessage     \* max_message_size, negotiated in the handshake

ASSUME CodecAssumption ==
    /\ PrefixBytes \in Nat \ {0} /\ ServiceBytes \in Nat \ {0}
    /\ MaxMessage \in Nat /\ ServiceBytes =< MaxMessage

Paths == {"direct", "channel", "peer"}
(* What the service field and the payload of a frame make of it: service   *)
(* 0xFFFF, service 0 with and without a ControlMessage in it, the others.  *)
FrameKinds == {"Abort", "Control", "Undecodable", "Service"}
Frame == [id : Nat, via : Paths, kind : FrameKinds, len : Nat]
Byte == [frame : Frame, at : Nat]

Encode(f) == [i \in 1..(PrefixBytes + f.len) |-> [frame |-> f, at |-> i]]

-----------------------------------------------------------------------------
(* FrameReader *)

FrameReader == [state : {"Length", "Body"}, body_len : Nat, got : Seq(Byte)]
NewReader == [state |-> "Length", body_len |-> 0, got |-> <<>>]

(* The size of the buffer that read_into fills. *)
Want(r) == IF r.state = "Length" THEN PrefixBytes ELSE r.body_len

(* The bytes follow one another in one frame, after its first n. *)
Aligned(bytes, n) ==
    \A i \in DOMAIN bytes :
        bytes[i] = [frame |-> bytes[1].frame, at |-> n + i]

(* The number four bytes of a length prefix spell; others spell no length. *)
DeclaredLength(r) == IF Aligned(r.got, 0) THEN r.got[1].frame.len ELSE 0
LengthError(r) == ~(DeclaredLength(r) \in ServiceBytes..MaxMessage)

(* The kind of the frame a full body makes. *)
Kind(r) == IF Aligned(r.got, PrefixBytes) THEN r.got[1].frame.kind
           ELSE "Undecodable"

(* The outcome of one more read: bytes are what it returned. *)
Filled(r, bytes) == [r EXCEPT !.got = @ \o bytes]
(* Mutant: the buffer counts as full one byte early. *)
MutFullEarly(r) == Len(r.got) + 1 >= Want(r)
Full(r) == Len(r.got) >= Want(r)
HeaderRead(r) == Full(r) /\ r.state = "Length"
BodyRead(r) == Full(r) /\ r.state = "Body"
(* Mutant: the body is taken to include a byte of the next frame. *)
MutBodyTooLong(r) ==
    IF HeaderRead(r) THEN [state |-> "Body",
                           body_len |-> DeclaredLength(r) + 1,
                           got |-> <<>>]
    ELSE IF BodyRead(r) THEN NewReader ELSE r
Advance(r) ==
    IF HeaderRead(r) THEN [state |-> "Body",
                           body_len |-> DeclaredLength(r),
                           got |-> <<>>]
    ELSE IF BodyRead(r) THEN NewReader ELSE r

-----------------------------------------------------------------------------
(* FrameWriter *)

FrameWriter == [buf : Seq(Byte), flush_pos : Nat]
NewWriter == [buf |-> <<>>, flush_pos |-> 0]

(* Mutant: the frame goes before the bytes that are pending. *)
MutPrepend(w, f) == [w EXCEPT !.buf = Encode(f) \o @]
Enqueue(w, f) == [w EXCEPT !.buf = @ \o Encode(f)]
pending_bytes(w) == Len(w.buf) - w.flush_pos
Pending(w) == SubSeq(w.buf, w.flush_pos + 1, Len(w.buf))

(* try_flush after a write took n bytes: once all are out, both fields are *)
(* reset.                                                                  *)
(* Mutants: flush_pos outlives the buffer; a short write clears it. *)
MutPositionKept(w, n) ==
    IF w.flush_pos + n = Len(w.buf) THEN [w EXCEPT !.buf = <<>>]
    ELSE [w EXCEPT !.flush_pos = @ + n]
MutShortWriteClears(w, n) == NewWriter
Flush(w, n) == IF w.flush_pos + n = Len(w.buf) THEN NewWriter
               ELSE [w EXCEPT !.flush_pos = @ + n]
=============================================================================
